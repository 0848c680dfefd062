SPECIFICATION StkSpec
CONSTANTS
    Parts = {"settle"}
    h1 = h1  h2 = h2  jA = jA  jB = jB
    rA = rA  rB = rB  rC = rC  rD = rD  rE = rE  kes1 = kes1  kes2 = kes2
    e1 = e1  e2 = e2  e3 = e3  p1 = p1  p2 = p2  action = action
    None = None
    NoJourney = NoJourney
    Handlers = {h1, h2}
    Journeys = {jA}
    Kind <- AllStk
    Success <- AllSucceed
    Amount <- AskOne
    Wire <- WireExact
    Console = {}
    ConsoleMoney = {}
    MaxFaults = 1
    MaxDuplicates = 0
    MaxConsole = 0
CHECK_DEADLOCK FALSE
PROPERTIES
    EventuallySettled

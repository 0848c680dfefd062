SPECIFICATION MCSpec
CONSTANTS
    Parts = {"settle", "c2b", "rail", "intake", "crossed", "push"}
    h1 = h1  h2 = h2  jA = jA  jB = jB
    rA = rA  rB = rB  rC = rC  rD = rD  rE = rE  kes1 = kes1  kes2 = kes2
    e1 = e1  e2 = e2  e3 = e3  p1 = p1  p2 = p2  action = action
    None = None
    NoJourney = NoJourney
    Handlers = {h1, h2}
    Journeys = {jA, jB}
    Kind <- AllStk
    Success <- SecondFails
    Amount <- AskOne
    Wire <- WireVaries
    Console = {jA, jB}
    ConsoleMoney = {1, 2}
    MaxFaults = 1
    MaxDuplicates = 1
    MaxConsole = 1
CHECK_DEADLOCK FALSE
INVARIANTS
    LedgerMatchesPayment
    AcknowledgedMoneyIsReal
    OneOutcomePerCommand
PROPERTIES
    SettledOnce
    IntakeIsIdempotent
    MoneyComesToRest

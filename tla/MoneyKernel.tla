----------------------------- MODULE MoneyKernel -------------------------------
(***************************************************************************)
(* The money kernel (backend-go/pkg/money, src/domain/shared/money.ts):    *)
(* non-negative minor units of one currency in a machine word, overflow    *)
(* as a refusal, and the largest-remainder split.                          *)
(*                                                                         *)
(* The word is scaled down: MaxInt stands for 2^63 - 1 and Word for 2^64.  *)
(* The state is the last call and its outcome.                             *)
(***************************************************************************)
EXTENDS MoneyLanes

CONSTANTS Currencies,
          MaxInt,     \* the largest int64
          MaxAmount, MaxWeight, MaxParts, MaxFactor, MaxWhole  \* bounds of the inputs

VARIABLE call   \* the last call: its operation, its arguments and its outcome

Word == 2 * (MaxInt + 1)
Money == [amount : 0 .. MaxInt, currency : Currencies]

--------------------------------------------------------------------------------
(* Arithmetic on uint64 words. *)

New(amount, currency) ==
    IF amount < 0 THEN Err("MONEY_NEGATIVE") ELSE Ok([amount |-> amount, currency |-> currency])

Add(m, o) ==
    LET lo == (m.amount + o.amount) % Word
        carry == (m.amount + o.amount) \div Word
    IN  IF m.currency # o.currency THEN Err("CURRENCY_MISMATCH")
        ELSE IF carry # 0 \/ lo > MaxInt THEN Err("MONEY_OVERFLOW")
        ELSE Ok([m EXCEPT !.amount = lo])

Subtract(m, o) ==
    IF m.currency # o.currency THEN Err("CURRENCY_MISMATCH")
    ELSE IF o.amount > m.amount THEN Err("UNDERFLOW")
    ELSE Ok([m EXCEPT !.amount = m.amount - o.amount])

MulInt(m, factor) ==
    LET hi == (m.amount * factor) \div Word
        lo == (m.amount * factor) % Word
    IN  IF factor < 0 THEN Err("MONEY_NEGATIVE")
        ELSE IF hi # 0 \/ lo > MaxInt THEN Err("MONEY_OVERFLOW")
        ELSE Ok([m EXCEPT !.amount = lo])

Compare(m, o) ==
    IF m.currency # o.currency THEN Err("CURRENCY_MISMATCH")
    ELSE Ok(IF m.amount < o.amount THEN -1 ELSE IF m.amount > o.amount THEN 1 ELSE 0)

(* A decimal text: the integer before the point and up to two digits after it. *)
Text == [whole : 0 .. MaxWhole, frac : UNION {[1 .. n -> 0 .. 9] : n \in 0 .. 2}]

Cents(frac) ==
    IF frac = <<>> THEN 0 ELSE 10 * frac[1] + (IF Len(frac) = 2 THEN frac[2] ELSE 0)

Parse(text, currency) ==
    LET cents == Cents(text.frac)
    IN  IF text.whole > Word - 1 \/ text.whole > (MaxInt - cents) \div 100 THEN Err("MONEY_OVERFLOW")
        ELSE Ok([amount |-> text.whole * 100 + cents, currency |-> currency])

String(m) ==
    LET cents == m.amount % 100
    IN  [whole |-> m.amount \div 100, frac |-> <<cents \div 10, cents % 10>>]

--------------------------------------------------------------------------------
(* One call. *)

Call(op, a, b, out) == call' = [op |-> op, a |-> a, b |-> b, out |-> out]

Init == call = [op |-> "none", a |-> 0, b |-> 0, out |-> Err("none")]

NewCall == \E n \in -1 .. MaxInt, c \in Currencies : Call("New", n, c, New(n, c))

AddCall == \E m, o \in Money : Call("Add", m, o, Add(m, o))

SubtractCall == \E m, o \in Money : Call("Subtract", m, o, Subtract(m, o))

MulIntCall == \E m \in Money, n \in -1 .. MaxFactor : Call("MulInt", m, n, MulInt(m, n))

CompareCall == \E m, o \in Money : Call("Compare", m, o, Compare(m, o))

ParseCall == \E t \in Text, c \in Currencies : Call("Parse", t, c, Parse(t, c))

StringCall == \E m \in Money : Call("String", m, 0, Parse(String(m), m.currency))

AllocateCall ==
    \E n \in 0 .. MaxAmount, w \in UNION {[1 .. k -> 0 .. MaxWeight] : k \in 0 .. MaxParts} :
       Call("Allocate", n, w, Allocate(n, w))

Arithmetic == NewCall \/ AddCall \/ SubtractCall \/ MulIntCall \/ CompareCall \/ ParseCall \/ StringCall

Next == Arithmetic \/ AllocateCall

Spec == Init /\ [][call.op = "none" /\ Next]_call

--------------------------------------------------------------------------------
(* A call that succeeds returns money of the word, or a comparison, or parts. *)
TypeOK ==
    call.out.ok =>
       CASE call.op = "Compare"  -> call.out.value \in -1 .. 1
         [] call.op = "Allocate" -> call.out.value \in [DOMAIN call.b -> Nat]
         [] OTHER                -> call.out.value \in Money

(* "never a wrapped int64" (money.go): a result is the exact one, and only   *)
(* a result outside the word is refused as an overflow.                      *)
ArithmeticIsExact ==
    LET Exact(r) == IF r \in 0 .. MaxInt THEN call.out.ok /\ call.out.value.amount = r ELSE ~call.out.ok
    IN  CASE call.op = "Add"      -> call.a.currency = call.b.currency => Exact(call.a.amount + call.b.amount)
          [] call.op = "Subtract" -> call.a.currency = call.b.currency => Exact(call.a.amount - call.b.amount)
          [] call.op = "MulInt"   -> Exact(call.a.amount * call.b) \/ (call.b < 0 /\ ~call.out.ok)
          [] OTHER                -> TRUE

(* R10: no operation of two amounts succeeds across currencies.              *)
NoCrossCurrency ==
    call.op \in {"Add", "Subtract", "Compare"} =>
       (call.a.currency # call.b.currency => call.out.code = "CURRENCY_MISMATCH")

(* Parse reads back what String prints, and reads a fraction as hundredths.  *)
PrintedMoneyParses ==
    /\ call.op = "String" => call.out.ok /\ call.out.value = call.a
    /\ (call.op = "Parse" /\ call.out.ok) =>
          call.out.value.amount * 100 =
             call.a.whole * 10000
             + SumOf([i \in DOMAIN call.a.frac |-> call.a.frac[i] * (IF i = 1 THEN 1000 ELSE 100)])

(* What the weights scaled one by one exceed the scaled total by: 0 for whole weights,  *)
(* and for fractions that are multiples of 1 / Scale.                                   *)
Excess(weights) ==
    SumOf([i \in DOMAIN weights |-> scaledWeight(weights[i])]) - scaledWeight(SumOf(weights))

(* Allocate's first guarantee, "no cent is created or destroyed" (money.ts:99), as far  *)
(* as the rounding of money.ts:114 lets it go.  The parts add up to the amount whenever *)
(* the scaled weights add up to the scaled total.  Otherwise cents are created only if  *)
(* they exceed it and lost only if they fall short, and of both at most the amount's    *)
(* share of the difference: none while amount * |Excess| stays below the scaled total.  *)
CentsFollowWeights ==
    (call.op = "Allocate" /\ call.out.ok) =>
       LET off == (SumOf(call.out.value) - call.a) * scaledWeight(SumOf(call.b))
           most == call.a * Excess(call.b)
       IN  (0 <= off /\ off <= most) \/ (most <= off /\ off <= 0)

(* The split is the largest-remainder one: a part is its share by scaled weight rounded *)
(* down or up, never moved by a whole cent, among the parts a larger remainder is       *)
(* rounded up first, and a share without one is not, unless the weights fall short.     *)
LargestRemainder ==
    (call.op = "Allocate" /\ call.out.ok) =>
       LET total == scaledWeight(SumOf(call.b))
           Floor(i) == (call.a * scaledWeight(call.b[i])) \div total
           Rem(i) == (call.a * scaledWeight(call.b[i])) % total
           Up(i) == call.out.value[i] # Floor(i)
       IN  \A i \in DOMAIN call.b :
              /\ call.out.value[i] \in {Floor(i), Floor(i) + 1}
              /\ \A j \in DOMAIN call.b : (Up(i) /\ ~Up(j)) => Rem(i) >= Rem(j)
              /\ Up(i) => Rem(i) > 0 \/ Excess(call.b) < 0
================================================================================

----------------------------- MODULE PaymentPlans ------------------------------
(***************************************************************************)
(* Payment plans (src/domain/receivables/payment-plan.ts, migration 0010)  *)
(* and the scheduler job that advances them (scheduler.RunPlan): the       *)
(* payment lane records payments and cancels, the job moves installments   *)
(* to due and defaults plans, each on rows the other may change between    *)
(* the job's reads and its guarded UPDATE.                                 *)
(*                                                                         *)
(* A plan is numbered in (started_at, id) order.  Instants are whole UTC   *)
(* days and a calendar month is Month days.                                *)
(***************************************************************************)
EXTENDS Integers, FiniteSets, Sequences, SequencesExt, Folds

CONSTANTS Plans, Total, Count, StartDay,
          Month,       \* days between two due dates
          GraceDays,   \* payment_plans.grace_days of every plan
          Amounts,     \* the payments of the model
          Runners, Batch,
          MaxDay,      \* bound: the last day
          MaxFaults    \* bound: failed cycles

VARIABLES day,
          plan,      \* payment_plans with installments and the payment log
          runner,    \* each job cycle: its phase and what it has read
          defaults,  \* the plan of every paymentplan.defaulted event
          faults

vars == <<day, plan, runner, defaults, faults>>

NoPlan == [state |-> "none", installments |-> <<>>, paymentLog |-> <<>>]
Idle == [pc |-> "idle", now |-> 0, rows |-> <<>>, trigger |-> 0]
Terminal == {"completed", "defaulted", "cancelled"}
SumOf(seq) == FoldSeq(LAMBDA x, y : x + y, 0, seq)
Min2(a, b) == IF a < b THEN a ELSE b
Max2(a, b) == IF a < b THEN b ELSE a

isFullyPaid(inst) == inst.paidMinor >= inst.amountMinor
daysLateOf(inst, now) == Max2(0, now - inst.dueDate)

(* Money.allocate with equal weights: the first Total % Count parts carry the extra cent. *)
Schedule(p) ==
    [no \in 1 .. Count[p] |->
       [dueDate |-> StartDay[p] + no * Month,
        amountMinor |-> Total[p] \div Count[p] + (IF no <= Total[p] % Count[p] THEN 1 ELSE 0),
        paidMinor |-> 0, state |-> "scheduled"]]

Init ==
    /\ day = 0
    /\ plan = [p \in Plans |-> NoPlan]
    /\ runner = [r \in Runners |-> Idle]
    /\ defaults = <<>>
    /\ faults = 0

--------------------------------------------------------------------------------
(* The payment lane. *)

createPaymentPlan(p) ==
    /\ plan[p].state = "none"
    /\ Total[p] > 0 /\ Total[p] >= Count[p]
    /\ plan' = [plan EXCEPT ![p].state = "active"]
    /\ UNCHANGED <<day, runner, defaults, faults>>

buildSchedule(p) ==
    /\ plan[p].state = "active"
    /\ plan[p].installments = <<>>
    /\ plan' = [plan EXCEPT ![p].installments = Schedule(p)]
    /\ UNCHANGED <<day, runner, defaults, faults>>

(* A payment is logged, the installment's status derived, and the last one   *)
(* completes the plan.                                                       *)
recordPlanPayment(p, no, amount) ==
    LET slot == plan[p].installments[no]
        paid == [slot EXCEPT !.paidMinor = @ + amount,
                             !.state = IF slot.paidMinor + amount = slot.amountMinor THEN "paid" ELSE @]
        installments == [plan[p].installments EXCEPT ![no] = paid]
    IN  /\ plan[p].state = "active"
        /\ no \in DOMAIN plan[p].installments
        /\ slot.paidMinor + amount <= slot.amountMinor
        /\ plan' = [plan EXCEPT
              ![p].installments = installments,
              ![p].paymentLog = Append(@, [installmentNo |-> no, amountMinor |-> amount]),
              ![p].state = IF \A i \in DOMAIN installments : isFullyPaid(installments[i]) THEN "completed" ELSE @]
        /\ UNCHANGED <<day, runner, defaults, faults>>

cancelPaymentPlan(p) ==
    /\ plan[p].state = "active"
    /\ plan' = [plan EXCEPT ![p].state = "cancelled"]
    /\ UNCHANGED <<day, runner, defaults, faults>>

NextDay ==
    /\ day < MaxDay
    /\ day' = day + 1
    /\ UNCHANGED <<plan, runner, defaults, faults>>

--------------------------------------------------------------------------------
(* RunPlan: one cycle of the job. *)

Outstanding(inst) == inst.state \in {"scheduled", "due"} /\ inst.paidMinor < inst.amountMinor

(* The scheduled installments of active plans whose due date has arrived, oldest first. *)
Arrived(now) ==
    LET rows == {<<p, no>> \in Plans \X (1 .. Max({Count[p] : p \in Plans})) :
                    /\ plan[p].state = "active"
                    /\ no \in DOMAIN plan[p].installments
                    /\ plan[p].installments[no].state = "scheduled"
                    /\ plan[p].installments[no].dueDate <= now}
        Due(row) == plan[row[1]].installments[row[2]].dueDate
    IN  SetToSortSeq(rows, LAMBDA a, b :
           \/ Due(a) < Due(b)
           \/ Due(a) = Due(b) /\ (a[1] < b[1] \/ (a[1] = b[1] /\ a[2] < b[2])))

(* AdvanceDueInstallments: one statement claims and moves a batch. *)
AdvanceDueInstallments(r) ==
    LET claimed == Range(SubSeq(Arrived(day), 1, Min2(Batch, Len(Arrived(day)))))
    IN  /\ runner[r].pc = "idle"
        /\ plan' = [p \in Plans |->
              [plan[p] EXCEPT !.installments =
                 [no \in DOMAIN @ |-> IF <<p, no>> \in claimed THEN [@[no] EXCEPT !.state = "due"] ELSE @[no]]]]
        /\ runner' = [runner EXCEPT ![r] = [Idle EXCEPT !.pc = "scan", !.now = day]]
        /\ UNCHANGED <<day, defaults, faults>>

DefaultCandidates(r) ==
    LET rows == SetToSortSeq({p \in Plans :
                   /\ plan[p].state = "active"
                   /\ \E no \in DOMAIN plan[p].installments :
                         /\ Outstanding(plan[p].installments[no])
                         /\ plan[p].installments[no].dueDate <= runner[r].now - GraceDays},
                   LAMBDA a, b : a < b)
    IN  /\ runner[r].pc = "scan"
        /\ runner' = [runner EXCEPT ![r].pc = "row", ![r].rows = SubSeq(rows, 1, Min2(Batch, Len(rows)))]
        /\ UNCHANGED <<day, plan, defaults, faults>>

(* The unpaid installments overdue by the policy window, as they are read. *)
FindDefaultTrigger(p, now) ==
    {no \in DOMAIN plan[p].installments :
       Outstanding(plan[p].installments[no]) /\ daysLateOf(plan[p].installments[no], now) >= GraceDays}

(* UnpaidInstallments and the trigger search; a candidate no longer late is skipped. *)
ReadPlan(r) ==
    /\ runner[r].pc = "row"
    /\ runner[r].rows # <<>>
    /\ LET found == FindDefaultTrigger(Head(runner[r].rows), runner[r].now)
       IN  runner' = [runner EXCEPT ![r] = IF found = {} THEN [@ EXCEPT !.rows = Tail(@)]
                                           ELSE [@ EXCEPT !.pc = "default", !.trigger = Min(found)]]
    /\ UNCHANGED <<day, plan, defaults, faults>>

(* DefaultPlan without its state guard. *)
DefaultPlanUnguarded(r) ==
    LET p == Head(runner[r].rows)
    IN  /\ runner[r].pc = "default"
        /\ plan' = [plan EXCEPT ![p].state = "defaulted"]
        /\ defaults' = Append(defaults, p)
        /\ runner' = [runner EXCEPT ![r].pc = "row", ![r].rows = Tail(@)]
        /\ UNCHANGED <<day, faults>>

(* DefaultPlan: the guarded UPDATE and the event are one transaction. *)
DefaultPlan(r) ==
    LET p == Head(runner[r].rows)
    IN  /\ runner[r].pc = "default"
        /\ \/ /\ plan[p].state = "active"
              /\ plan' = [plan EXCEPT ![p].state = "defaulted"]
              /\ defaults' = Append(defaults, p)
           \/ /\ plan[p].state # "active"
              /\ UNCHANGED <<plan, defaults>>
        /\ runner' = [runner EXCEPT ![r].pc = "row", ![r].rows = Tail(@)]
        /\ UNCHANGED <<day, faults>>

Finish(r) ==
    /\ runner[r].pc = "row"
    /\ runner[r].rows = <<>>
    /\ runner' = [runner EXCEPT ![r] = Idle]
    /\ UNCHANGED <<day, plan, defaults, faults>>

FailCycle(r) ==
    /\ runner[r].pc # "idle"
    /\ faults < MaxFaults
    /\ runner' = [runner EXCEPT ![r] = Idle]
    /\ faults' = faults + 1
    /\ UNCHANGED <<day, plan, defaults>>

RunPlan(r) == AdvanceDueInstallments(r) \/ DefaultCandidates(r) \/ ReadPlan(r) \/ DefaultPlan(r) \/ Finish(r)

Next ==
    \/ NextDay
    \/ \E p \in Plans :
          \/ createPaymentPlan(p) \/ buildSchedule(p) \/ cancelPaymentPlan(p)
          \/ \E no \in 1 .. Count[p], amount \in Amounts : recordPlanPayment(p, no, amount)
    \/ \E r \in Runners : RunPlan(r) \/ FailCycle(r)

Spec == Init /\ [][Next]_vars

--------------------------------------------------------------------------------
(* Every row and every cycle holds a value of its type. *)
TypeOK ==
    /\ day \in 0 .. MaxDay
    /\ \A p \in Plans :
          /\ plan[p].state \in Terminal \cup {"none", "active"}
          /\ plan[p].state = "none" => plan[p] = NoPlan
          /\ \A no \in DOMAIN plan[p].installments :
                LET inst == plan[p].installments[no]
                IN  /\ inst.state \in {"scheduled", "due", "paid"}
                    /\ inst.paidMinor \in 0 .. inst.amountMinor
                    /\ inst.state = "paid" <=> isFullyPaid(inst)
    /\ \A r \in Runners :
          /\ runner[r].pc \in {"idle", "scan", "row", "default"}
          /\ Range(runner[r].rows) \subseteq Plans
    /\ faults \in 0 .. MaxFaults

(* H4, the COMMIT trigger of migration 0010: the installments sum to the     *)
(* plan's total, none is empty, and they differ by at most a cent, the       *)
(* larger ones first.                                                        *)
ScheduleSumsToTotal ==
    \A p \in Plans :
       LET inst == plan[p].installments
       IN  inst # <<>> =>
              /\ SumOf([no \in DOMAIN inst |-> inst[no].amountMinor]) = Total[p]
              /\ \A i, j \in DOMAIN inst :
                    /\ inst[i].amountMinor >= 1
                    /\ i < j => inst[i].amountMinor - inst[j].amountMinor \in 0 .. 1

(* recordPlanPayment: what an installment has been paid is what the log      *)
(* says, and a plan is completed exactly when all of it is paid, whatever    *)
(* the job did in between.                                                   *)
CompletedIsPaid ==
    \A p \in Plans :
       LET inst == plan[p].installments
           Logged(no) == SumOf([i \in DOMAIN plan[p].paymentLog |->
                            IF plan[p].paymentLog[i].installmentNo = no THEN plan[p].paymentLog[i].amountMinor ELSE 0])
       IN  /\ \A no \in DOMAIN inst : inst[no].paidMinor = Logged(no)
           /\ plan[p].state = "completed" <=> (inst # <<>> /\ \A no \in DOMAIN inst : isFullyPaid(inst[no]))

(* "Every other transition is illegal": a completed, defaulted or cancelled  *)
(* plan is dead to the payment lane and to the job, its rows included.       *)
TerminalIsFinal ==
    [][\A p \in Plans : plan[p].state \in Terminal => plan'[p] = plan[p]]_vars

(* DefaultPlan: one paymentplan.defaulted event for a defaulted plan, none   *)
(* for any other.                                                            *)
DefaultedOnce ==
    \A p \in Plans :
       Cardinality({i \in DOMAIN defaults : defaults[i] = p})
          = (IF plan[p].state = "defaulted" THEN 1 ELSE 0)

(* RunPlan: an active plan with an installment overdue by the grace window   *)
(* does not stay active, and an arrived installment does not stay scheduled. *)
OverdueActedOn ==
    \A p \in Plans : plan[p].state = "active" =>
       \A no \in DOMAIN plan[p].installments :
          LET inst == plan[p].installments[no]
          IN  /\ isFullyPaid(inst) \/ day - inst.dueDate < GraceDays
              /\ inst.state = "scheduled" => inst.dueDate > day
================================================================================

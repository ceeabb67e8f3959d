---------------------------- MODULE QueueProofs ----------------------------
(***************************************************************************)
(* Theorems about the LLM caller, for any processes, cap, retry list and   *)
(* breaker threshold; those about the job queue follow below.              *)
(*                                                                         *)
(* CapOvershoot is not inductive: it says nothing of the calls that have   *)
(* read the total and not yet counted themselves.  BudgetInv adds them.    *)
(* That no call is dropped is a sum over processes and priorities (Sums),  *)
(* whose laws are proved by induction over a set of its instances.         *)
(***************************************************************************)
EXTENDS LlmQueue, JobDispatch, FiniteSetTheorems, SequenceTheorems, WellFoundedInduction,
        TLAPS

\* Processes between the SELECT and the INSERT for day d.
Pending(d) == {p \in Procs : Busy(p) /\ count[p].day = d}

\* What has been counted and what is about to be stays within the overshoot.
Reserved == \A d \in Days : calls[d] + Cardinality(Pending(d)) <= Cap + Cardinality(Procs) - 1

\* A pending call belongs to a day that has begun; a day to come is untouched.
PendingDay ==
  /\ \A p \in Procs : Busy(p) => count[p].day \in 1 .. day /\ count[p].prio \in Prios
  /\ \A d \in Days : d > day => calls[d] = 0

BudgetInv == TypeOK /\ PendingDay /\ Reserved

-----------------------------------------------------------------------------
LEMMA PredNat == ASSUME NEW n \in Nat, n > 0 PROVE n - 1 \in Nat
OBVIOUS

\* Every nonempty set of naturals has a least element, so the pump's choice of
\* the best priority is one of the queue's priorities.
LEMMA LeastNat ==
  ASSUME NEW S \in SUBSET Nat, S # {}
  PROVE  \E x \in S : \A y \in S : x <= y
<1>1. PICK x \in S : \A y \in S : ~(<<y, x>> \in OpToRel(<, Nat))
  BY NatLessThanWellFounded, WFMin
<1>2. \A y \in S : ~(y < x)
  BY <1>1 DEF OpToRel
<1>. QED  BY <1>2

LEMMA NextPrioType ==
  ASSUME TypeOK, NEW p \in Procs, ~(\A i \in Prios : queue[p][i] = 0)
  PROVE  NextPrio(p) \in Prios /\ queue[p][NextPrio(p)] > 0
<1>. DEFINE S == {i \in Prios : queue[p][i] > 0}
<1>1. PICK i \in Prios : queue[p][i] # 0
  OBVIOUS
<1>1a. queue[p][i] > 0  BY <1>1 DEF TypeOK
<1>1b. S \in SUBSET Nat /\ S # {}
  BY <1>1, <1>1a, BoundsAssumption
<1>2. PICK x \in S : \A y \in S : x <= y
  BY <1>1b, LeastNat
<1>. QED  BY <1>2 DEF NextPrio

\* Settling a call keeps the types of what it touches.
LEMMA SettleType ==
  ASSUME TypeOK, NEW p \in Procs, flight[p].phase = "sent", Settle(p)
  PROVE  /\ usage' \in Nat
         /\ flight' \in [Procs -> Calls]
         /\ queue' \in [Procs -> [Prios -> Nat]]
<1>. USE BoundsAssumption
<1>1. usage' \in Nat  BY DEF Settle, TypeOK
<1>2. CASE \A i \in Prios : queue[p][i] = 0
  <2>1. NoCall \in Calls  BY DEF NoCall, Calls
  <2>. QED  BY <1>1, <1>2, <2>1 DEF Settle, TypeOK
<1>3. CASE ~(\A i \in Prios : queue[p][i] = 0)
  <2>1. NextPrio(p) \in Prios /\ queue[p][NextPrio(p)] > 0  BY <1>3, NextPrioType
  <2>2. Waiting(p, NextPrio(p)) \in Calls  BY <2>1 DEF Waiting, Calls
  <2>. DEFINE k == NextPrio(p)
  <2>3. /\ flight' = [flight EXCEPT ![p] = Waiting(p, k)]
        /\ queue' = [queue EXCEPT ![p][k] = @ - 1]
    BY <1>3 DEF Settle
  <2>4. k \in Prios /\ queue[p][k] > 0  BY <2>1
  <2>5. Waiting(p, k) \in Calls  BY <2>2
  <2>. HIDE DEF k
  <2>6. flight' \in [Procs -> Calls]  BY <2>3, <2>5 DEF TypeOK
  <2>7. queue[p] \in [Prios -> Nat]  BY DEF TypeOK
  <2>8. queue[p][k] \in Nat  BY <2>4, <2>7
  <2>8a. queue[p][k] - 1 \in Nat  BY <2>4, <2>8, PredNat
  <2>8b. [queue[p] EXCEPT ![k] = @ - 1] \in [Prios -> Nat]  BY <2>4, <2>7, <2>8a
  <2>9. queue' \in [Procs -> [Prios -> Nat]]  BY <2>3, <2>8b DEF TypeOK
  <2>. QED  BY <1>1, <2>6, <2>9
<1>. QED  BY <1>2, <1>3

LEMMA EnqueueType ==
  ASSUME TypeOK, NEW p \in Procs, NEW prio \in Prios, Enqueue(p, prio)
  PROVE  /\ admitted' \in Nat
         /\ flight' \in [Procs -> Calls]
         /\ queue' \in [Procs -> [Prios -> Nat]]
<1>1. Waiting(p, prio) \in Calls  BY BoundsAssumption DEF Waiting, Calls
<1>2. admitted' \in Nat  BY DEF Enqueue, TypeOK
<1>3. flight' \in [Procs -> Calls]  BY <1>1 DEF Enqueue, TypeOK
<1>4. queue[p] \in [Prios -> Nat]  BY DEF TypeOK
<1>5. [queue[p] EXCEPT ![prio] = @ + 1] \in [Prios -> Nat]  BY <1>4
<1>6. queue' = queue \/ queue' = [queue EXCEPT ![p][prio] = @ + 1]  BY DEF Enqueue
<1>7. queue' \in [Procs -> [Prios -> Nat]]  BY <1>5, <1>6 DEF TypeOK
<1>. QED  BY <1>2, <1>3, <1>7

LEMMA NextPhaseType ==
  ASSUME NEW c \in Calls, NEW phase \in {"wait", "sent"}
  PROVE  [c EXCEPT !.phase = phase] \in Calls
  BY DEF Calls

LEMMA NextAttemptType ==
  ASSUME NEW c \in Calls, c.attempt + 1 \in 0 .. Retries
  PROVE  [c EXCEPT !.phase = "wait", !.attempt = @ + 1] \in Calls
<1>1. [c EXCEPT !.phase = "wait"] \in Calls
  BY NextPhaseType
<1>2. ASSUME NEW b \in Calls, NEW k \in 0 .. Retries
      PROVE  [b EXCEPT !.attempt = k] \in Calls
  BY <1>2 DEF Calls
<1>3. [c EXCEPT !.phase = "wait", !.attempt = @ + 1]
        = [[c EXCEPT !.phase = "wait"] EXCEPT !.attempt = c.attempt + 1]
  BY DEF Calls
<1>. QED  BY <1>1, <1>2, <1>3

-----------------------------------------------------------------------------
LEMMA InitType == Init => TypeOK
<1>. NoCall \in Calls  BY BoundsAssumption DEF NoCall, Calls
<1>. QED  BY BoundsAssumption DEF Init, TypeOK, Days, Closed

\* Every step keeps the types, given that a pending call is well formed.
LEMMA StepType ==
  ASSUME TypeOK, PendingDay, [Next]_vars
  PROVE  TypeOK'
<1>. USE BoundsAssumption
<1>0. NoCall \in Calls  BY DEF NoCall, Calls
<1>1. ASSUME NEW p \in Procs, CountCall(p) PROVE TypeOK'
  <2>1. count[p].prio \in Prios /\ count[p].day \in Days
    BY <1>1 DEF CountCall, PendingDay, TypeOK, Days
  <2>2. Enqueue(p, count[p].prio)  BY <1>1 DEF CountCall
  <2>3. /\ admitted' \in Nat /\ flight' \in [Procs -> Calls]
        /\ queue' \in [Procs -> [Prios -> Nat]]
    BY <2>1, <2>2, EnqueueType
  <2>4. calls' \in [Days -> Nat] /\ count' \in [Procs -> Calls]
    BY <1>0, <1>1, <2>1 DEF CountCall, TypeOK
  <2>. QED  BY <1>1, <2>2, <2>3, <2>4 DEF CountCall, Enqueue, TypeOK
<1>2. ASSUME NEW p \in Procs, NEW prio \in Prios, CheckBudget(p, prio) PROVE TypeOK'
  <2>1. [day |-> day, prio |-> prio, phase |-> "insert", attempt |-> 0] \in Calls
    BY DEF Calls, TypeOK
  <2>. QED  BY <1>2, <2>1 DEF CheckBudget, TypeOK, pumpVars
<1>3. ASSUME NEW p \in Procs, NEW prio \in Prios, CountFails(p, prio) PROVE TypeOK'
  <2>1. Enqueue(p, prio)  BY <1>3 DEF CountFails
  <2>2. /\ admitted' \in Nat /\ flight' \in [Procs -> Calls]
        /\ queue' \in [Procs -> [Prios -> Nat]]
    BY <2>1, EnqueueType
  <2>. QED  BY <1>0, <1>3, <2>1, <2>2 DEF CountFails, Enqueue, TypeOK
<1>4. ASSUME NEW p \in Procs, Send(p) PROVE TypeOK'
  <2>1. [flight[p] EXCEPT !.phase = "sent"] \in Calls
    BY NextPhaseType DEF TypeOK
  <2>. QED  BY <1>4, <2>1 DEF Send, TypeOK, budgetVars
<1>5. ASSUME NEW p \in Procs, Succeeds(p) PROVE TypeOK'
  <2>1. /\ usage' \in Nat /\ flight' \in [Procs -> Calls]
        /\ queue' \in [Procs -> [Prios -> Nat]]
    BY <1>5, SettleType DEF Succeeds, Answered
  <2>. QED  BY <1>5, <2>1 DEF Succeeds, TypeOK, Closed, budgetVars
<1>6. ASSUME NEW p \in Procs, FailsSoftly(p) PROVE TypeOK'
  <2>1. /\ usage' \in Nat /\ flight' \in [Procs -> Calls]
        /\ queue' \in [Procs -> [Prios -> Nat]]
    BY <1>6, SettleType DEF FailsSoftly, Answered
  <2>. QED  BY <1>6, <2>1 DEF FailsSoftly, TypeOK, budgetVars
<1>7. ASSUME NEW p \in Procs, FailsHard(p) PROVE TypeOK'
  <2>1. /\ usage' \in Nat /\ flight' \in [Procs -> Calls]
        /\ queue' \in [Procs -> [Prios -> Nat]]
    BY <1>7, SettleType DEF FailsHard, Answered
  <2>2. AfterHardFailure(breaker[p]) \in [fails : Nat, open : BOOLEAN, cooled : BOOLEAN]
    <3>1. breaker[p] \in [fails : Nat, open : BOOLEAN, cooled : BOOLEAN]  BY DEF TypeOK
    <3>. QED  BY <3>1 DEF AfterHardFailure
  <2>. QED  BY <1>7, <2>1, <2>2 DEF FailsHard, TypeOK, budgetVars
<1>8. ASSUME NEW p \in Procs, FailsTransiently(p) PROVE TypeOK'
  <2>1. CASE flight[p].attempt < Retries
    <3>1. [flight[p] EXCEPT !.phase = "wait", !.attempt = @ + 1] \in Calls
      <4>1. flight[p] \in Calls  BY DEF TypeOK
      <4>2. flight[p].attempt + 1 \in 0 .. Retries  BY <2>1, <4>1 DEF Calls
      <4>. QED  BY <4>1, <4>2, NextAttemptType
    <3>. QED  BY <1>8, <2>1, <3>1 DEF FailsTransiently, TypeOK, budgetVars
  <2>2. CASE ~(flight[p].attempt < Retries)
    <3>1. /\ usage' \in Nat /\ flight' \in [Procs -> Calls]
          /\ queue' \in [Procs -> [Prios -> Nat]]
      BY <1>8, <2>2, SettleType DEF FailsTransiently, Answered
    <3>. QED  BY <1>8, <2>2, <3>1 DEF FailsTransiently, TypeOK, budgetVars
  <2>. QED  BY <2>1, <2>2
<1>9. ASSUME NEW p \in Procs, NEW param \in Params, RejectsParam(p, param) PROVE TypeOK'
  <2>1. [flight[p] EXCEPT !.phase = "wait"] \in Calls
    BY NextPhaseType DEF TypeOK
  <2>. QED  BY <1>9, <2>1 DEF RejectsParam, TypeOK, budgetVars
<1>10. ASSUME NEW p \in Procs, CooldownEnds(p) PROVE TypeOK'
  BY <1>10 DEF CooldownEnds, TypeOK, budgetVars
<1>11. ASSUME NEW p \in Procs, Restart(p) PROVE TypeOK'
  BY <1>0, <1>11 DEF Restart, TypeOK, Closed
<1>12. CASE Midnight
  BY <1>12 DEF Midnight, TypeOK, pumpVars, Days
<1>13. CASE UNCHANGED vars
  BY <1>13 DEF vars, budgetVars, pumpVars, TypeOK
<1>. QED
  BY <1>1, <1>2, <1>3, <1>4, <1>5, <1>6, <1>7, <1>8, <1>9, <1>10, <1>11, <1>12, <1>13
     DEF Next, CallJson, Answer

-----------------------------------------------------------------------------
(* The budget.                                                             *)

\* Pending sets are finite and no larger than the set of processes.
LEMMA PendingFinite ==
  ASSUME NEW d
  PROVE  /\ IsFiniteSet(Pending(d)) /\ Cardinality(Pending(d)) \in Nat
         /\ Cardinality(Pending(d)) <= Cardinality(Procs)
         /\ Cardinality(Procs) \in Nat /\ Cardinality(Procs) >= 1
<1>1. Pending(d) \in SUBSET Procs  BY DEF Pending
<1>2. Cardinality(Procs) \in Nat /\ Cardinality(Procs) # 0
  BY ProcsAssumption, FS_CardinalityType, FS_EmptySet
<1>. QED  BY <1>1, <1>2, ProcsAssumption, FS_Subset, FS_CardinalityType

LEMMA InitBudget == Init => BudgetInv
<1>. SUFFICES ASSUME Init PROVE BudgetInv
  OBVIOUS
<1>1. TypeOK  BY InitType
<1>2. \A d \in Days : Pending(d) = {}  BY DEF Init, Pending, Busy
<1>3. Cardinality({}) = 0  BY FS_EmptySet
<1>4. Reserved
  <2>. SUFFICES ASSUME NEW d \in Days
                PROVE  calls[d] + Cardinality(Pending(d)) <= Cap + Cardinality(Procs) - 1
    BY DEF Reserved
  <2>1. calls[d] = 0 /\ Cardinality(Pending(d)) = 0  BY <1>2, <1>3 DEF Init
  <2>2. Cardinality(Procs) \in Nat /\ Cardinality(Procs) >= 1  BY PendingFinite
  <2>. QED  BY <2>1, <2>2, CapAssumption
<1>5. PendingDay  BY DEF Init, PendingDay, Busy
<1>. QED  BY <1>1, <1>4, <1>5 DEF BudgetInv

\* A step that leaves the budget's variables alone.
LEMMA BudgetUnchanged ==
  ASSUME PendingDay, Reserved, UNCHANGED <<day, calls, count>>
  PROVE  PendingDay' /\ Reserved'
<1>1. \A d : Pending(d)' = Pending(d)  BY DEF Pending, Busy
<1>. QED  BY <1>1 DEF PendingDay, Reserved, Busy

\* A step that takes p's pending call away and may count it.
LEMMA BudgetRelease ==
  ASSUME TypeOK, PendingDay, Reserved, NEW p \in Procs,
         UNCHANGED day, count' = [count EXCEPT ![p] = NoCall],
         \/ UNCHANGED calls
         \/ Busy(p) /\ calls' = [calls EXCEPT ![count[p].day] = @ + 1]
  PROVE  PendingDay' /\ Reserved'
<1>0. count'[p] = NoCall /\ \A q \in Procs \ {p} : count'[q] = count[q]
  BY DEF TypeOK
<1>1. \A q \in Procs : Busy(q)' => Busy(q) /\ count'[q] = count[q]
  BY <1>0 DEF Busy
<1>2. Busy(p) => count[p].day \in 1 .. day /\ count[p].day \in Days
  <2>1. day \in 1 .. LastDay /\ LastDay \in Nat  BY BoundsAssumption DEF TypeOK, Days
  <2>. QED  BY <2>1 DEF PendingDay, Days
<1>3. PendingDay'
  <2>1. ASSUME NEW d \in Days, d > day PROVE calls'[d] = calls[d]
    <3>1. CASE UNCHANGED calls  BY <3>1
    <3>2. CASE Busy(p) /\ calls' = [calls EXCEPT ![count[p].day] = @ + 1]
      <4>1. day \in Nat /\ d \in Nat  BY BoundsAssumption DEF TypeOK, Days
      <4>2. count[p].day # d  BY <1>2, <2>1, <3>2, <4>1
      <4>. QED  BY <3>2, <4>2 DEF TypeOK
    <3>. QED  BY <3>1, <3>2
  <2>. QED  BY <1>1, <2>1 DEF PendingDay
<1>4. \A d : Pending(d)' = Pending(d) \ {p}
  BY <1>0 DEF Pending, Busy
<1>5. ASSUME NEW d \in Days
      PROVE  calls'[d] + Cardinality(Pending(d)') <= Cap + Cardinality(Procs) - 1
  <2>1. IsFiniteSet(Pending(d)) /\ Cardinality(Pending(d)) \in Nat /\ Cardinality(Procs) \in Nat
    BY PendingFinite
  <2>2. Cardinality(Pending(d)') =
          IF p \in Pending(d) THEN Cardinality(Pending(d)) - 1 ELSE Cardinality(Pending(d))
    BY <1>4, <2>1, FS_RemoveElement
  <2>3. calls[d] + Cardinality(Pending(d)) <= Cap + Cardinality(Procs) - 1
    BY DEF Reserved
  <2>4. calls[d] \in Nat  BY DEF TypeOK
  <2>5. calls'[d] = calls[d] \/ (p \in Pending(d) /\ calls'[d] = calls[d] + 1)
    BY <1>2 DEF TypeOK, Pending
  <2>. QED  BY <2>1, <2>2, <2>3, <2>4, <2>5, CapAssumption
<1>. QED  BY <1>3, <1>5 DEF Reserved

\* The SELECT found room, so even with every process pending the overshoot
\* stays below the number of processes.
LEMMA BudgetReserve ==
  ASSUME TypeOK, PendingDay, Reserved, NEW p \in Procs, NEW prio \in Prios,
         CheckBudget(p, prio)
  PROVE  PendingDay' /\ Reserved'
<1>. DEFINE c == [day |-> day, prio |-> prio, phase |-> "insert", attempt |-> 0]
<1>1. /\ count' = [count EXCEPT ![p] = c] /\ UNCHANGED <<day, calls>>
      /\ calls[day] < Cap /\ ~Busy(p)
  BY DEF CheckBudget
<1>2. count'[p] = c /\ \A q \in Procs \ {p} : count'[q] = count[q]
  BY <1>1 DEF TypeOK
<1>3. day \in Nat /\ day >= 1 /\ day \in Days  BY BoundsAssumption DEF TypeOK, Days
<1>4. PendingDay'
  BY <1>1, <1>2, <1>3 DEF PendingDay, Busy
<1>5. ASSUME NEW d \in Days
      PROVE  calls'[d] + Cardinality(Pending(d)') <= Cap + Cardinality(Procs) - 1
  <2>1. CASE d = day
    <3>1. Pending(d)' \in SUBSET Procs  BY DEF Pending
    <3>2. Cardinality(Pending(d)') \in Nat /\ Cardinality(Pending(d)') <= Cardinality(Procs)
      BY <3>1, ProcsAssumption, FS_Subset, FS_CardinalityType
    <3>3. calls[d] \in Nat /\ Cardinality(Procs) \in Nat  BY PendingFinite DEF TypeOK
    <3>. QED  BY <1>1, <2>1, <3>2, <3>3, CapAssumption
  <2>2. CASE d # day
    <3>1. Pending(d)' = Pending(d)  BY <1>1, <1>2, <2>2 DEF Pending, Busy
    <3>. QED  BY <1>1, <3>1 DEF Reserved
  <2>. QED  BY <2>1, <2>2
<1>. QED  BY <1>4, <1>5 DEF Reserved

\* At midnight the new day starts with nothing counted and nothing pending.
LEMMA BudgetMidnight ==
  ASSUME TypeOK, PendingDay, Reserved, Midnight
  PROVE  PendingDay' /\ Reserved'
<1>1. day' = day + 1 /\ UNCHANGED <<calls, count>>  BY DEF Midnight
<1>2. day \in Nat  BY BoundsAssumption DEF TypeOK, Days
<1>3. \A d : Pending(d)' = Pending(d)  BY <1>1 DEF Pending, Busy
<1>4. Reserved'  BY <1>1, <1>3 DEF Reserved
<1>5. PendingDay'  BY <1>1, <1>2, BoundsAssumption DEF PendingDay, Busy, Days
<1>. QED  BY <1>4, <1>5

LEMMA StepBudget == BudgetInv /\ [Next]_vars => BudgetInv'
<1>. SUFFICES ASSUME BudgetInv, [Next]_vars PROVE BudgetInv'
  OBVIOUS
<1>. USE DEF BudgetInv
<1>0. TypeOK'  BY StepType
<1>1. ASSUME NEW p \in Procs, CallJson(p) PROVE PendingDay' /\ Reserved'
  <2>1. CASE CountCall(p)
    BY <2>1, BudgetRelease DEF CountCall
  <2>2. ASSUME NEW prio \in Prios, CheckBudget(p, prio) PROVE PendingDay' /\ Reserved'
    BY <2>2, BudgetReserve
  <2>3. ASSUME NEW prio \in Prios, CountFails(p, prio) PROVE PendingDay' /\ Reserved'
    BY <2>3, BudgetRelease DEF CountFails
  <2>. QED  BY <1>1, <2>1, <2>2, <2>3 DEF CallJson
<1>2. ASSUME NEW p \in Procs, Send(p) \/ Answer(p) \/ CooldownEnds(p)
      PROVE  PendingDay' /\ Reserved'
  <2>1. UNCHANGED <<day, calls, count>>
    BY <1>2 DEF Send, Answer, CooldownEnds, Succeeds, FailsSoftly, FailsHard,
                FailsTransiently, RejectsParam, budgetVars
  <2>. QED  BY <2>1, BudgetUnchanged
<1>3. ASSUME NEW p \in Procs, Restart(p) PROVE PendingDay' /\ Reserved'
  BY <1>3, BudgetRelease DEF Restart
<1>4. CASE Midnight
  BY <1>0, <1>4, BudgetMidnight
<1>5. CASE UNCHANGED vars
  BY <1>0, <1>5, BudgetUnchanged DEF vars, budgetVars
<1>. QED  BY <1>0, <1>1, <1>2, <1>3, <1>4, <1>5 DEF Next

\* TypeOK holds in every reachable state of the queue, the pump, the breaker
\* and the budget (llmQueue.js, llmBreaker.js).
THEOREM TypeCorrect == Spec => []TypeOK
<1>1. BudgetInv => TypeOK  BY DEF BudgetInv
<1>. QED  BY <1>1, InitBudget, StepBudget, PTL DEF Spec

\* The daily cap of consumeLlmBudget can be overshot, but by less than the
\* number of processes that share the counter.
THEOREM CapOvershootHolds == Spec => []CapOvershoot
<1>1. BudgetInv => CapOvershoot
  <2>. SUFFICES ASSUME BudgetInv, NEW d \in Days
                PROVE  calls[d] <= Cap + Cardinality(Procs) - 1
    BY DEF CapOvershoot
  <2>1. calls[d] + Cardinality(Pending(d)) <= Cap + Cardinality(Procs) - 1
    BY DEF BudgetInv, Reserved
  <2>2. calls[d] \in Nat /\ Cardinality(Pending(d)) \in Nat /\ Cardinality(Procs) \in Nat
    BY PendingFinite DEF BudgetInv, TypeOK
  <2>. QED  BY <2>1, <2>2, CapAssumption
<1>. QED  BY <1>1, InitBudget, StepBudget, PTL DEF Spec

\* With a single process the comment's hard ceiling is a fact: it is the race
\* between processes, and nothing else, that breaks it.
THEOREM HardCeilingSingle == Cardinality(Procs) = 1 => (Spec => []HardCeiling)
<1>. SUFFICES ASSUME Cardinality(Procs) = 1 PROVE Spec => []HardCeiling
  OBVIOUS
<1>1. TypeOK /\ CapOvershoot => HardCeiling
  BY CapAssumption DEF CapOvershoot, HardCeiling, TypeOK
<1>. QED  BY <1>1, TypeCorrect, CapOvershootHolds, PTL

\* Neither a restart nor midnight takes back what a day has counted.
THEOREM CountPersistsHolds == Spec => CountPersists
<1>1. BudgetInv /\ [Next]_vars => (\A d \in Days : calls'[d] >= calls[d])
  <2>. SUFFICES ASSUME BudgetInv, [Next]_vars, NEW d \in Days
                PROVE  calls'[d] >= calls[d]
    OBVIOUS
  <2>1. calls[d] \in Nat  BY DEF BudgetInv, TypeOK
  <2>2. ASSUME NEW p \in Procs, CountCall(p) PROVE calls'[d] >= calls[d]
    BY <2>1, <2>2 DEF CountCall, BudgetInv, TypeOK
  <2>3. CASE UNCHANGED calls
    BY <2>1, <2>3
  <2>4. (\E p \in Procs : CountCall(p)) \/ UNCHANGED calls
    BY DEF Next, CallJson, CheckBudget, CountFails, Send, Answer, Succeeds, FailsSoftly,
           FailsHard, FailsTransiently, RejectsParam, CooldownEnds, Restart, Midnight,
           vars, budgetVars
  <2>. QED  BY <2>2, <2>3, <2>4
<1>. QED  BY <1>1, InitBudget, StepBudget, PTL DEF Spec, CountPersists

-----------------------------------------------------------------------------
(* The breaker.                                                            *)

\* A breaker that is open has a failure behind it that no success has cleared
\* (recordHardFailure, recordSuccess; llmBreaker.js).
THEOREM BreakerJustifiedHolds == Spec => []BreakerJustified
<1>1. Init => BreakerJustified  BY DEF Init, BreakerJustified, Closed
<1>2. BudgetInv /\ BreakerJustified /\ [Next]_vars => BreakerJustified'
  <2>. SUFFICES ASSUME BudgetInv, BreakerJustified, [Next]_vars, NEW q \in Procs,
                       breaker'[q].open
                PROVE  unhealthy'[q] /\ breaker'[q].fails >= Threshold
    BY DEF BreakerJustified
  <2>0. /\ breaker \in [Procs -> [fails : Nat, open : BOOLEAN, cooled : BOOLEAN]]
        /\ unhealthy \in [Procs -> BOOLEAN]
        /\ Threshold \in Nat
    BY BoundsAssumption DEF BudgetInv, TypeOK
  <2>1. breaker[q].open => unhealthy[q] /\ breaker[q].fails >= Threshold
    BY DEF BreakerJustified
  <2>2. CASE UNCHANGED <<breaker, unhealthy>>  BY <2>1, <2>2
  <2>3. ASSUME NEW p \in Procs, Succeeds(p) \/ Restart(p)
        PROVE  unhealthy'[q] /\ breaker'[q].fails >= Threshold
    <3>1. breaker' = [breaker EXCEPT ![p] = Closed] /\ unhealthy' = [unhealthy EXCEPT ![p] = FALSE]
      BY <2>3 DEF Succeeds, Restart
    <3>2. q # p  BY <2>0, <3>1 DEF Closed
    <3>. QED  BY <2>0, <2>1, <3>1, <3>2
  <2>4. ASSUME NEW p \in Procs, FailsHard(p)
        PROVE  unhealthy'[q] /\ breaker'[q].fails >= Threshold
    <3>1. /\ breaker' = [breaker EXCEPT ![p] = AfterHardFailure(breaker[p])]
          /\ unhealthy' = [unhealthy EXCEPT ![p] = TRUE]
      BY <2>4 DEF FailsHard
    <3>2. AfterHardFailure(breaker[p]).open => AfterHardFailure(breaker[p]).fails >= Threshold
      BY <2>0 DEF AfterHardFailure
    <3>3. CASE q = p  BY <2>0, <3>1, <3>2, <3>3
    <3>4. CASE q # p  BY <2>0, <2>1, <3>1, <3>4
    <3>. QED  BY <3>3, <3>4
  <2>5. ASSUME NEW p \in Procs, CooldownEnds(p)
        PROVE  unhealthy'[q] /\ breaker'[q].fails >= Threshold
    <3>1. breaker' = [breaker EXCEPT ![p].cooled = TRUE] /\ unhealthy' = unhealthy
      BY <2>5 DEF CooldownEnds
    <3>2. breaker'[q].open = breaker[q].open /\ breaker'[q].fails = breaker[q].fails
      BY <2>0, <3>1
    <3>. QED  BY <2>1, <3>1, <3>2
  <2>6. \/ UNCHANGED <<breaker, unhealthy>>
        \/ \E p \in Procs : Succeeds(p) \/ Restart(p) \/ FailsHard(p) \/ CooldownEnds(p)
    BY DEF Next, CallJson, CountCall, CheckBudget, CountFails, Enqueue, Send, Answer,
           FailsSoftly, FailsTransiently, RejectsParam, Midnight, vars, pumpVars
  <2>. QED  BY <2>2, <2>3, <2>4, <2>5, <2>6
<1>3. Spec => []BudgetInv  BY InitBudget, StepBudget, PTL DEF Spec
<1>. QED  BY <1>1, <1>2, <1>3, PTL DEF Spec

-----------------------------------------------------------------------------
(* Sums.  What a sum over a finite set is, and how it moves with one of    *)
(* its values, is an induction over the subsets; it is stated here for a   *)
(* set of instances (FromZero, FromEmpty), which needs no operator         *)
(* parameter.                                                              *)

First(s) == CHOOSE x \in s : TRUE

\* g sums the values of f over the subsets of S.
IsSums(g, f, S) ==
  g = [s \in SUBSET S |-> IF s = {} THEN 0 ELSE f[First(s)] + g[s \ {First(s)}]]

Sums(f, S) == CHOOSE g : IsSums(g, f, S)

LEMMA FirstIn == ASSUME NEW s, s # {} PROVE First(s) \in s
  BY DEF First

\* Induction over the naturals and over the subsets of a finite set, for a set
\* of instances instead of a predicate.
LEMMA FromZero ==
  ASSUME NEW G \in SUBSET Nat, 0 \in G, \A n \in G : n + 1 \in G
  PROVE  G = Nat
<1>. SUFFICES ASSUME G # Nat PROVE FALSE  OBVIOUS
<1>1. PICK n \in Nat \ G : \A k \in Nat \ G : n <= k
  <2>1. Nat \ G \in SUBSET Nat /\ Nat \ G # {}  OBVIOUS
  <2>. QED  BY <2>1, LeastNat
<1>2. n # 0 /\ n - 1 \in Nat  BY <1>1
<1>3. n - 1 \in G  BY <1>1, <1>2
<1>4. (n - 1) + 1 = n  BY <1>1
<1>. QED  BY <1>1, <1>3, <1>4

LEMMA FromEmpty ==
  ASSUME NEW S, IsFiniteSet(S), NEW G, {} \in G,
         \A s \in SUBSET S : s # {} /\ s \ {First(s)} \in G => s \in G
  PROVE  SUBSET S \subseteq G
<1>1. PICK N : N = {n \in Nat : \A s \in SUBSET S : Cardinality(s) = n => s \in G}  OBVIOUS
<1>2. \A s \in SUBSET S : IsFiniteSet(s) /\ Cardinality(s) \in Nat
  BY FS_Subset, FS_CardinalityType
<1>3. 0 \in N
  <2>1. \A s \in SUBSET S : Cardinality(s) = 0 => s = {}  BY <1>2, FS_EmptySet
  <2>. QED  BY <1>1, <2>1
<1>4. ASSUME NEW n \in N PROVE n + 1 \in N
  <2>1. n \in Nat  BY <1>1
  <2>2. ASSUME NEW s \in SUBSET S, Cardinality(s) = n + 1 PROVE s \in G
    <3>1. s # {}
      <4>1. Cardinality({}) = 0  BY FS_EmptySet
      <4>. QED  BY <2>1, <2>2, <4>1
    <3>2. First(s) \in s  BY <3>1, FirstIn
    <3>3. Cardinality(s \ {First(s)}) = Cardinality(s) - 1  BY <1>2, <3>2, FS_RemoveElement
    <3>4. Cardinality(s \ {First(s)}) = n  BY <2>1, <2>2, <3>3
    <3>5. s \ {First(s)} \in G  BY <1>1, <3>4
    <3>. QED  BY <3>1, <3>5
  <2>. QED  BY <1>1, <2>1, <2>2
<1>5. N = Nat
  <2>1. N \in SUBSET Nat  BY <1>1
  <2>. QED  BY <1>3, <1>4, <2>1, FromZero
<1>. QED  BY <1>1, <1>2, <1>5

\* Partial sums, over the subsets of at most n elements.
Upto(S, n) == {s \in SUBSET S : Cardinality(s) <= n}
PartSums(g, f, S, n) ==
  g = [s \in Upto(S, n) |-> IF s = {} THEN 0 ELSE f[First(s)] + g[s \ {First(s)}]]

LEMMA SumsExist ==
  ASSUME NEW S, IsFiniteSet(S), NEW f
  PROVE  IsSums(Sums(f, S), f, S)
<1>1. PICK N : N = {n \in Nat : \E g : PartSums(g, f, S, n)}  OBVIOUS
<1>2. \A s \in SUBSET S : IsFiniteSet(s) /\ Cardinality(s) \in Nat
  BY FS_Subset, FS_CardinalityType
<1>3. 0 \in N
  <2>1. \A s \in Upto(S, 0) : s = {}  BY <1>2, FS_EmptySet DEF Upto
  <2>2. PartSums([s \in Upto(S, 0) |-> 0], f, S, 0)  BY <2>1 DEF PartSums
  <2>. QED  BY <1>1, <2>2
<1>4. ASSUME NEW n \in N PROVE n + 1 \in N
  <2>1. PICK g : PartSums(g, f, S, n)  BY <1>1
  <2>2. PICK h : h = [s \in Upto(S, n + 1) |->
                        IF s = {} THEN 0 ELSE f[First(s)] + g[s \ {First(s)}]]
    OBVIOUS
  <2>3. n \in Nat  BY <1>1
  <2>4. \A s \in Upto(S, n) : s \in Upto(S, n + 1) /\ h[s] = g[s]
    <3>. SUFFICES ASSUME NEW s \in Upto(S, n) PROVE s \in Upto(S, n + 1) /\ h[s] = g[s]
      OBVIOUS
    <3>1. s \in Upto(S, n + 1)  BY <1>2, <2>3 DEF Upto
    <3>2. h[s] = IF s = {} THEN 0 ELSE f[First(s)] + g[s \ {First(s)}]  BY <2>2, <3>1
    <3>3. g[s] = IF s = {} THEN 0 ELSE f[First(s)] + g[s \ {First(s)}]
      BY <2>1 DEF PartSums
    <3>. QED  BY <3>1, <3>2, <3>3
  <2>5. ASSUME NEW s \in Upto(S, n + 1), s # {} PROVE s \ {First(s)} \in Upto(S, n)
    <3>1. First(s) \in s /\ s \in SUBSET S  BY <2>5, FirstIn DEF Upto
    <3>2. Cardinality(s \ {First(s)}) = Cardinality(s) - 1  BY <1>2, <3>1, FS_RemoveElement
    <3>3. Cardinality(s) \in Nat /\ Cardinality(s) <= n + 1  BY <1>2, <3>1 DEF Upto
    <3>4. Cardinality(s \ {First(s)}) <= n  BY <2>3, <3>2, <3>3
    <3>. QED  BY <3>1, <3>4 DEF Upto
  <2>6. \A s \in Upto(S, n + 1) : s # {} => h[s \ {First(s)}] = g[s \ {First(s)}]
    BY <2>4, <2>5
  <2>7. PartSums(h, f, S, n + 1)  BY <2>2, <2>6 DEF PartSums
  <2>. QED  BY <1>1, <2>3, <2>7
<1>5. N = Nat
  <2>1. N \in SUBSET Nat  BY <1>1
  <2>. QED  BY <1>3, <1>4, <2>1, FromZero
<1>6. Cardinality(S) \in Nat  BY <1>2
<1>7. PICK g : PartSums(g, f, S, Cardinality(S))  BY <1>1, <1>5, <1>6
<1>8. Upto(S, Cardinality(S)) = SUBSET S  BY FS_Subset DEF Upto
<1>9. IsSums(g, f, S)  BY <1>7, <1>8 DEF PartSums, IsSums
<1>. QED  BY <1>9 DEF Sums

LEMMA SumsUnique ==
  ASSUME NEW S, IsFiniteSet(S), NEW f, NEW g, NEW h, IsSums(g, f, S), IsSums(h, f, S)
  PROVE  g = h
<1>1. PICK G : G = {s \in SUBSET S : g[s] = h[s]}  OBVIOUS
<1>2. /\ g = [s \in SUBSET S |-> g[s]] /\ h = [s \in SUBSET S |-> h[s]]
      /\ \A s \in SUBSET S :
           /\ g[s] = IF s = {} THEN 0 ELSE f[First(s)] + g[s \ {First(s)}]
           /\ h[s] = IF s = {} THEN 0 ELSE f[First(s)] + h[s \ {First(s)}]
  BY DEF IsSums
<1>3. {} \in G  BY <1>1, <1>2
<1>4. \A s \in SUBSET S : s # {} /\ s \ {First(s)} \in G => s \in G  BY <1>1, <1>2
<1>5. SUBSET S \subseteq G  BY <1>3, <1>4, FromEmpty
<1>. QED  BY <1>1, <1>2, <1>5

\* The equations of a sum, which is a natural number.
LEMMA SumsAre ==
  ASSUME NEW S, IsFiniteSet(S), NEW f \in [S -> Nat]
  PROVE  /\ Sums(f, S) \in [SUBSET S -> Nat]
         /\ Sums(f, S)[{}] = 0
         /\ \A s \in SUBSET S : s # {} =>
              Sums(f, S)[s] = f[First(s)] + Sums(f, S)[s \ {First(s)}]
<1>1. PICK g : g = Sums(f, S)  OBVIOUS
<1>2. g = [s \in SUBSET S |-> IF s = {} THEN 0 ELSE f[First(s)] + g[s \ {First(s)}]]
  <2>1. IsSums(g, f, S)  BY <1>1, SumsExist
  <2>. QED  BY <2>1 DEF IsSums
<1>3. /\ g[{}] = 0
      /\ \A s \in SUBSET S : s # {} => g[s] = f[First(s)] + g[s \ {First(s)}]
  BY <1>2
<1>4. PICK G : G = {s \in SUBSET S : g[s] \in Nat}  OBVIOUS
<1>5. ASSUME NEW s \in SUBSET S, s # {}, s \ {First(s)} \in G PROVE s \in G
  <2>1. f[First(s)] \in Nat  BY <1>5, FirstIn
  <2>2. g[s \ {First(s)}] \in Nat  BY <1>4, <1>5
  <2>3. g[s] = f[First(s)] + g[s \ {First(s)}]  BY <1>3, <1>5
  <2>4. g[s] \in Nat  BY <2>1, <2>2, <2>3
  <2>. QED  BY <1>4, <2>4
<1>6. {} \in G  BY <1>3, <1>4
<1>7. SUBSET S \subseteq G  BY <1>5, <1>6, FromEmpty
<1>. QED  BY <1>1, <1>2, <1>3, <1>4, <1>7

\* One value of a sum changes.
LEMMA SumsMove ==
  ASSUME NEW S, IsFiniteSet(S), NEW f \in [S -> Nat], NEW h \in [S -> Nat],
         NEW p \in S, \A x \in S \ {p} : h[x] = f[x]
  PROVE  Sums(h, S)[S] + f[p] = Sums(f, S)[S] + h[p]
<1>1. PICK F : F = Sums(f, S)  OBVIOUS
<1>2. PICK H : H = Sums(h, S)  OBVIOUS
<1>3. /\ F \in [SUBSET S -> Nat] /\ F[{}] = 0
      /\ \A s \in SUBSET S : s # {} => F[s] = f[First(s)] + F[s \ {First(s)}]
  BY <1>1, SumsAre
<1>4. /\ H \in [SUBSET S -> Nat] /\ H[{}] = 0
      /\ \A s \in SUBSET S : s # {} => H[s] = h[First(s)] + H[s \ {First(s)}]
  BY <1>2, SumsAre
<1>5. PICK G : G = {s \in SUBSET S : IF p \in s THEN H[s] + f[p] = F[s] + h[p]
                                              ELSE H[s] = F[s]}
  OBVIOUS
<1>6. {} \in G  BY <1>3, <1>4, <1>5
<1>7. ASSUME NEW s \in SUBSET S, s # {}, s \ {First(s)} \in G PROVE s \in G
  <2>1. PICK x : x = First(s)  OBVIOUS
  <2>2. PICK r : r = s \ {x}  OBVIOUS
  <2>3. x \in s /\ x \in S /\ r \in SUBSET S  BY <1>7, <2>1, <2>2, FirstIn
  <2>4. H[s] = h[x] + H[r] /\ F[s] = f[x] + F[r]  BY <1>3, <1>4, <1>7, <2>1, <2>2
  <2>5. H[r] \in Nat /\ F[r] \in Nat /\ h[x] \in Nat /\ f[x] \in Nat /\ h[p] \in Nat /\ f[p] \in Nat
    BY <1>3, <1>4, <2>3
  <2>6. r \in G  BY <1>7, <2>1, <2>2
  <2>7. CASE x = p
    <3>1. H[r] = F[r]  BY <1>5, <2>2, <2>6, <2>7
    <3>2. H[s] + f[p] = F[s] + h[p]  BY <2>4, <2>5, <2>7, <3>1
    <3>. QED  BY <1>5, <2>3, <2>7, <3>2
  <2>8. CASE x # p
    <3>1. h[x] = f[x] /\ (p \in s <=> p \in r)  BY <2>2, <2>3, <2>8
    <3>2. CASE p \in s
      <4>1. H[r] + f[p] = F[r] + h[p]  BY <1>5, <2>6, <3>1, <3>2
      <4>2. H[s] + f[p] = F[s] + h[p]  BY <2>4, <2>5, <3>1, <4>1
      <4>. QED  BY <1>5, <3>2, <4>2
    <3>3. CASE p \notin s
      <4>1. H[r] = F[r]  BY <1>5, <2>6, <3>1, <3>3
      <4>2. H[s] = F[s]  BY <2>4, <3>1, <4>1
      <4>. QED  BY <1>5, <3>3, <4>2
    <3>. QED  BY <3>2, <3>3
  <2>. QED  BY <2>7, <2>8
<1>8. SUBSET S \subseteq G  BY <1>6, <1>7, FromEmpty
<1>9. S \in G  BY <1>8
<1>. QED  BY <1>1, <1>2, <1>5, <1>9

\* A sum of zeros.
LEMMA SumsZero ==
  ASSUME NEW S, IsFiniteSet(S), NEW f \in [S -> Nat], \A x \in S : f[x] = 0
  PROVE  Sums(f, S)[S] = 0
<1>1. PICK F : F = Sums(f, S)  OBVIOUS
<1>2. /\ F \in [SUBSET S -> Nat] /\ F[{}] = 0
      /\ \A s \in SUBSET S : s # {} => F[s] = f[First(s)] + F[s \ {First(s)}]
  BY <1>1, SumsAre
<1>3. PICK G : G = {s \in SUBSET S : F[s] = 0}  OBVIOUS
<1>4. {} \in G  BY <1>2, <1>3
<1>5. ASSUME NEW s \in SUBSET S, s # {}, s \ {First(s)} \in G PROVE s \in G
  <2>1. f[First(s)] = 0  BY <1>5, FirstIn
  <2>. QED  BY <1>2, <1>3, <1>5, <2>1
<1>6. SUBSET S \subseteq G  BY <1>4, <1>5, FromEmpty
<1>. QED  BY <1>1, <1>3, <1>6

\* The operators of the community modules are these sums.
LEMMA SumFunctionIs ==
  ASSUME NEW S, NEW f \in [S -> Nat]
  PROVE  SumFunction(f) = Sums(f, S)[S]
<1>1. DOMAIN f = S  OBVIOUS
<1>. QED  BY <1>1 DEF SumFunction, SumFunctionOnSet, FoldFunctionOnSet, MapThenFoldSet,
                  Sums, IsSums, First

-----------------------------------------------------------------------------
(* The calls in memory.                                                    *)

LEMMA MemoryIs ==
  ASSUME NEW m \in [Procs -> Nat], \A p \in Procs : m[p] = InMemory(p)
  PROVE  MapThenSumSet(InMemory, Procs) = Sums(m, Procs)[Procs]
<1>1. \A s \in SUBSET Procs : s # {} => InMemory(First(s)) = m[First(s)]
  BY FirstIn
<1>2. PICK k : k = CHOOSE g : g = [s \in SUBSET Procs |->
                 IF s = {} THEN 0 ELSE InMemory(First(s)) + g[s \ {First(s)}]]
  OBVIOUS
<1>3. IsSums(Sums(m, Procs), m, Procs)  BY ProcsAssumption, SumsExist
<1>4. \E g : g = [s \in SUBSET Procs |->
                    IF s = {} THEN 0 ELSE InMemory(First(s)) + g[s \ {First(s)}]]
  <2>1. PICK g : IsSums(g, m, Procs)  BY <1>3
  <2>2. g = [s \in SUBSET Procs |->
                    IF s = {} THEN 0 ELSE InMemory(First(s)) + g[s \ {First(s)}]]
    BY <1>1, <2>1 DEF IsSums
  <2>. QED BY <2>2
<1>5. k = [s \in SUBSET Procs |->
             IF s = {} THEN 0 ELSE InMemory(First(s)) + k[s \ {First(s)}]]
  BY <1>2, <1>4
<1>6. IsSums(k, m, Procs)  BY <1>1, <1>5 DEF IsSums
<1>7. k = Sums(m, Procs)  BY <1>3, <1>6, ProcsAssumption, SumsUnique
<1>. QED  BY <1>2, <1>7 DEF MapThenSumSet, MapThenFoldSet, First

LEMMA MemoryIsNext ==
  ASSUME NEW m \in [Procs -> Nat], \A p \in Procs : m[p] = InMemory(p)'
  PROVE  MapThenSumSet(InMemory, Procs)' = Sums(m, Procs)[Procs]
<1>1. \A s \in SUBSET Procs : s # {} => InMemory(First(s))' = m[First(s)]
  BY FirstIn
<1>2. PICK k : k = CHOOSE g : g = [s \in SUBSET Procs |->
                 IF s = {} THEN 0 ELSE InMemory(First(s))' + g[s \ {First(s)}]]
  OBVIOUS
<1>3. IsSums(Sums(m, Procs), m, Procs)  BY ProcsAssumption, SumsExist
<1>4. \E g : g = [s \in SUBSET Procs |->
                    IF s = {} THEN 0 ELSE InMemory(First(s))' + g[s \ {First(s)}]]
  <2>1. PICK g : IsSums(g, m, Procs)  BY <1>3
  <2>2. g = [s \in SUBSET Procs |->
                    IF s = {} THEN 0 ELSE InMemory(First(s))' + g[s \ {First(s)}]]
    BY <1>1, <2>1 DEF IsSums
  <2>. QED BY <2>2
<1>5. k = [s \in SUBSET Procs |->
             IF s = {} THEN 0 ELSE InMemory(First(s))' + k[s \ {First(s)}]]
  BY <1>2, <1>4
<1>6. IsSums(k, m, Procs)  BY <1>1, <1>5 DEF IsSums
<1>7. k = Sums(m, Procs)  BY <1>3, <1>6, ProcsAssumption, SumsUnique
<1>. QED  BY <1>2, <1>7 DEF MapThenSumSet, MapThenFoldSet, First

\* A process holds a natural number of calls.
LEMMA MemoryNat ==
  ASSUME TypeOK, NEW p \in Procs
  PROVE  /\ SumFunction(queue[p]) = Sums(queue[p], Prios)[Prios]
         /\ SumFunction(queue[p]) \in Nat /\ InMemory(p) \in Nat
<1>1. queue[p] \in [Prios -> Nat]  BY DEF TypeOK
<1>2. SumFunction(queue[p]) = Sums(queue[p], Prios)[Prios]  BY <1>1, SumFunctionIs
<1>3. Sums(queue[p], Prios) \in [SUBSET Prios -> Nat]  BY <1>1, BoundsAssumption, SumsAre
<1>. QED  BY <1>2, <1>3 DEF InMemory

LEMMA MemoryNatNext ==
  ASSUME TypeOK', NEW p \in Procs
  PROVE  /\ SumFunction(queue'[p]) = Sums(queue'[p], Prios)[Prios]
         /\ SumFunction(queue'[p]) \in Nat /\ InMemory(p)' \in Nat
<1>1. queue'[p] \in [Prios -> Nat]  BY DEF TypeOK
<1>2. SumFunction(queue'[p]) = Sums(queue'[p], Prios)[Prios]  BY <1>1, SumFunctionIs
<1>3. Sums(queue'[p], Prios) \in [SUBSET Prios -> Nat]  BY <1>1, BoundsAssumption, SumsAre
<1>. QED  BY <1>2, <1>3 DEF InMemory

\* The calls of all processes move with those of the one that takes a step.
LEMMA MemoryMoves ==
  ASSUME TypeOK, TypeOK', NEW p \in Procs,
         \A q \in Procs \ {p} : queue'[q] = queue[q] /\ flight'[q] = flight[q]
  PROVE  /\ MapThenSumSet(InMemory, Procs) \in Nat /\ MapThenSumSet(InMemory, Procs)' \in Nat
         /\ MapThenSumSet(InMemory, Procs)' + InMemory(p)
              = MapThenSumSet(InMemory, Procs) + InMemory(p)'
<1>1. PICK m : m = [q \in Procs |-> InMemory(q)]  OBVIOUS
<1>2. PICK n : n = [q \in Procs |-> InMemory(q)']  OBVIOUS
<1>3. m \in [Procs -> Nat] /\ \A q \in Procs : m[q] = InMemory(q)  BY <1>1, MemoryNat
<1>4. n \in [Procs -> Nat] /\ \A q \in Procs : n[q] = InMemory(q)'  BY <1>2, MemoryNatNext
<1>5. \A q \in Procs \ {p} : n[q] = m[q]  BY <1>3, <1>4 DEF InMemory
<1>6. Sums(n, Procs)[Procs] + m[p] = Sums(m, Procs)[Procs] + n[p]
  BY <1>3, <1>4, <1>5, ProcsAssumption, SumsMove
<1>7. Sums(m, Procs) \in [SUBSET Procs -> Nat] /\ Sums(n, Procs) \in [SUBSET Procs -> Nat]
  BY <1>3, <1>4, ProcsAssumption, SumsAre
<1>8. MapThenSumSet(InMemory, Procs) = Sums(m, Procs)[Procs]  BY <1>3, MemoryIs
<1>9. MapThenSumSet(InMemory, Procs)' = Sums(n, Procs)[Procs]  BY <1>4, MemoryIsNext
<1>. QED  BY <1>3, <1>4, <1>6, <1>7, <1>8, <1>9

\* A call that is let in is held once.
LEMMA EnqueueMemory ==
  ASSUME TypeOK, TypeOK', NEW p \in Procs, NEW prio \in Prios, Enqueue(p, prio)
  PROVE  /\ InMemory(p)' = InMemory(p) + 1
         /\ \A q \in Procs \ {p} : queue'[q] = queue[q] /\ flight'[q] = flight[q]
<1>1. CASE flight[p] = NoCall
  <2>1. flight' = [flight EXCEPT ![p] = Waiting(p, prio)] /\ queue' = queue
    BY <1>1 DEF Enqueue
  <2>2. flight'[p] = Waiting(p, prio)  BY <2>1 DEF TypeOK
  <2>3. flight'[p] # NoCall  BY <2>2 DEF Waiting, NoCall
  <2>4. \A q \in Procs \ {p} : flight'[q] = flight[q]  BY <2>1 DEF TypeOK
  <2>. QED  BY <1>1, <2>1, <2>3, <2>4, MemoryNat DEF InMemory
<1>2. CASE flight[p] # NoCall
  <2>1. queue' = [queue EXCEPT ![p][prio] = @ + 1] /\ flight' = flight  BY <1>2 DEF Enqueue
  <2>2. queue[p] \in [Prios -> Nat] /\ queue'[p] \in [Prios -> Nat]  BY DEF TypeOK
  <2>3. /\ queue'[p][prio] = queue[p][prio] + 1
        /\ \A i \in Prios \ {prio} : queue'[p][i] = queue[p][i]
    BY <2>1, <2>2 DEF TypeOK
  <2>4. Sums(queue'[p], Prios)[Prios] + queue[p][prio]
          = Sums(queue[p], Prios)[Prios] + queue'[p][prio]
    <3>1. PICK f, h : f = queue[p] /\ h = queue'[p]  OBVIOUS
    <3>2. /\ f \in [Prios -> Nat] /\ h \in [Prios -> Nat] /\ IsFiniteSet(Prios)
          /\ \A i \in Prios \ {prio} : h[i] = f[i]
      BY <2>2, <2>3, <3>1, BoundsAssumption
    <3>3. Sums(h, Prios)[Prios] + f[prio] = Sums(f, Prios)[Prios] + h[prio]  BY <3>2, SumsMove
    <3>. QED  BY <3>1, <3>3
  <2>5. SumFunction(queue'[p]) = SumFunction(queue[p]) + 1
    BY <2>2, <2>3, <2>4, MemoryNat, MemoryNatNext
  <2>6. \A q \in Procs \ {p} : queue'[q] = queue[q]  BY <2>1 DEF TypeOK
  <2>. QED  BY <1>2, <2>1, <2>5, <2>6, MemoryNat DEF InMemory
<1>. QED  BY <1>1, <1>2

\* A call that is settled is held no longer; the pump's next one still is.
LEMMA SettleMemory ==
  ASSUME TypeOK, TypeOK', NEW p \in Procs, flight[p].phase = "sent", Settle(p)
  PROVE  /\ InMemory(p) = InMemory(p)' + 1
         /\ \A q \in Procs \ {p} : queue'[q] = queue[q] /\ flight'[q] = flight[q]
<1>0. flight[p] # NoCall  BY DEF NoCall
<1>1. CASE \A i \in Prios : queue[p][i] = 0
  <2>1. flight' = [flight EXCEPT ![p] = NoCall] /\ queue' = queue  BY <1>1 DEF Settle
  <2>2. flight'[p] = NoCall /\ \A q \in Procs \ {p} : flight'[q] = flight[q]
    BY <2>1 DEF TypeOK
  <2>. QED  BY <1>0, <2>1, <2>2, MemoryNat DEF InMemory
<1>2. CASE ~(\A i \in Prios : queue[p][i] = 0)
  <2>1. PICK k : k = NextPrio(p)  OBVIOUS
  <2>2. k \in Prios /\ queue[p][k] > 0  BY <1>2, <2>1, NextPrioType
  <2>3. flight' = [flight EXCEPT ![p] = Waiting(p, k)] /\ queue' = [queue EXCEPT ![p][k] = @ - 1]
    BY <1>2, <2>1 DEF Settle
  <2>4. queue[p] \in [Prios -> Nat] /\ queue'[p] \in [Prios -> Nat]  BY DEF TypeOK
  <2>5. /\ queue'[p][k] = queue[p][k] - 1
        /\ \A i \in Prios \ {k} : queue'[p][i] = queue[p][i]
    BY <2>2, <2>3, <2>4 DEF TypeOK
  <2>6. Sums(queue'[p], Prios)[Prios] + queue[p][k] = Sums(queue[p], Prios)[Prios] + queue'[p][k]
    <3>1. PICK f, h : f = queue[p] /\ h = queue'[p]  OBVIOUS
    <3>2. /\ f \in [Prios -> Nat] /\ h \in [Prios -> Nat] /\ IsFiniteSet(Prios)
          /\ \A i \in Prios \ {k} : h[i] = f[i]
      BY <2>4, <2>5, <3>1, BoundsAssumption
    <3>3. Sums(h, Prios)[Prios] + f[k] = Sums(f, Prios)[Prios] + h[k]  BY <2>2, <3>2, SumsMove
    <3>. QED  BY <3>1, <3>3
  <2>7. SumFunction(queue'[p]) + 1 = SumFunction(queue[p])
    BY <2>2, <2>4, <2>5, <2>6, MemoryNat, MemoryNatNext
  <2>8. flight'[p] = Waiting(p, k) /\ \A q \in Procs \ {p} : flight'[q] = flight[q]
    BY <2>3 DEF TypeOK
  <2>9. flight'[p] # NoCall  BY <2>8 DEF Waiting, NoCall
  <2>10. \A q \in Procs \ {p} : queue'[q] = queue[q]  BY <2>3 DEF TypeOK
  <2>. QED  BY <1>0, <2>7, <2>8, <2>9, <2>10, MemoryNat, MemoryNatNext DEF InMemory
<1>. QED  BY <1>1, <1>2

\* The ledger: what was let in against what ended, died or is held.
LEMMA Balance ==
  ASSUME NEW u \in Nat, NEW l \in Nat, NEW t \in Nat, NEW t1 \in Nat, NEW i \in Nat, NEW i1 \in Nat,
         t1 + i = t + i1
  PROVE  /\ i1 = i + 1 => u + l + t1 = u + l + t + 1
         /\ i = i1 + 1 => u + 1 + l + t1 = u + l + t
         /\ i1 = i => t1 = t
         /\ i1 = 0 => u + (l + i) + t1 = u + l + t
  OBVIOUS

CallsInv == BudgetInv /\ lost \in Nat /\ NoCallDropped

LEMMA InitCalls == Init => CallsInv
<1>. SUFFICES ASSUME Init PROVE CallsInv  OBVIOUS
<1>1. BudgetInv  BY InitBudget
<1>2. ASSUME NEW p \in Procs PROVE InMemory(p) = 0
  <2>1. queue[p] = [prio \in Prios |-> 0] /\ flight[p] = NoCall  BY DEF Init
  <2>2. Sums(queue[p], Prios)[Prios] = 0
    <3>1. queue[p] \in [Prios -> Nat] /\ \A i \in Prios : queue[p][i] = 0  BY <2>1
    <3>. QED  BY <3>1, BoundsAssumption, SumsZero
  <2>. QED  BY <1>1, <2>1, <2>2, MemoryNat DEF BudgetInv, InMemory
<1>3. PICK m : m = [p \in Procs |-> 0]  OBVIOUS
<1>4. m \in [Procs -> Nat] /\ \A p \in Procs : m[p] = InMemory(p) /\ m[p] = 0  BY <1>2, <1>3
<1>5. MapThenSumSet(InMemory, Procs) = 0
  <2>1. MapThenSumSet(InMemory, Procs) = Sums(m, Procs)[Procs]  BY <1>4, MemoryIs
  <2>2. Sums(m, Procs)[Procs] = 0  BY <1>4, ProcsAssumption, SumsZero
  <2>. QED  BY <2>1, <2>2
<1>. QED  BY <1>1, <1>5 DEF Init, CallsInv, NoCallDropped

LEMMA StepCalls == CallsInv /\ [Next]_vars => CallsInv'
<1>. SUFFICES ASSUME CallsInv, [Next]_vars PROVE CallsInv'  OBVIOUS
<1>0. BudgetInv' /\ TypeOK /\ TypeOK' /\ PendingDay  BY StepBudget DEF CallsInv, BudgetInv
<1>. DEFINE Held == MapThenSumSet(InMemory, Procs)
<1>1. /\ admitted \in Nat /\ usage \in Nat /\ lost \in Nat
      /\ admitted = usage + lost + Held
  BY <1>0 DEF CallsInv, NoCallDropped, TypeOK
<1>. HIDE DEF Held
<1>2. ASSUME NEW p \in Procs,
             \A q \in Procs \ {p} : queue'[q] = queue[q] /\ flight'[q] = flight[q],
             \/ InMemory(p)' = InMemory(p) + 1 /\ admitted' = admitted + 1
                  /\ UNCHANGED <<usage, lost>>
             \/ InMemory(p) = InMemory(p)' + 1 /\ usage' = usage + 1
                  /\ UNCHANGED <<admitted, lost>>
             \/ InMemory(p)' = InMemory(p) /\ UNCHANGED <<admitted, usage, lost>>
             \/ InMemory(p)' = 0 /\ lost' = lost + InMemory(p) /\ UNCHANGED <<admitted, usage>>
      PROVE  CallsInv'
  <2>1. Held \in Nat /\ Held' \in Nat /\ Held' + InMemory(p) = Held + InMemory(p)'
    BY <1>0, <1>2, MemoryMoves DEF Held
  <2>2. InMemory(p) \in Nat /\ InMemory(p)' \in Nat  BY <1>0, MemoryNat, MemoryNatNext
  <2>3. PICK i, i1 : i = InMemory(p) /\ i1 = InMemory(p)'  OBVIOUS
  <2>4. PICK t, t1 : t = Held /\ t1 = Held'  OBVIOUS
  <2>5. /\ i \in Nat /\ i1 \in Nat /\ t \in Nat /\ t1 \in Nat /\ t1 + i = t + i1
    BY <2>1, <2>2, <2>3, <2>4
  <2>6. /\ i1 = i + 1 => usage + lost + t1 = usage + lost + t + 1
        /\ i = i1 + 1 => usage + 1 + lost + t1 = usage + lost + t
        /\ i1 = i => t1 = t
        /\ i1 = 0 => usage + (lost + i) + t1 = usage + lost + t
    BY <1>1, <2>5, Balance
  <2>7. lost' \in Nat /\ admitted' = usage' + lost' + t1
    <3>1. CASE i1 = i + 1 /\ admitted' = admitted + 1 /\ UNCHANGED <<usage, lost>>
      BY <1>1, <2>4, <2>6, <3>1
    <3>2. CASE i = i1 + 1 /\ usage' = usage + 1 /\ UNCHANGED <<admitted, lost>>
      BY <1>1, <2>4, <2>6, <3>2
    <3>3. CASE i1 = i /\ UNCHANGED <<admitted, usage, lost>>
      BY <1>1, <2>4, <2>6, <3>3
    <3>4. CASE i1 = 0 /\ lost' = lost + i /\ UNCHANGED <<admitted, usage>>
      <4>1. lost' \in Nat  BY <1>1, <2>5, <3>4
      <4>. QED  BY <1>1, <2>4, <2>6, <3>4, <4>1
    <3>. QED  BY <1>2, <2>3, <3>1, <3>2, <3>3, <3>4
  <2>. QED  BY <1>0, <2>4, <2>7 DEF CallsInv, NoCallDropped, Held
<1>3. ASSUME NEW p \in Procs, CountCall(p) PROVE CallsInv'
  <2>1. Enqueue(p, count[p].prio) /\ count[p].prio \in Prios
    BY <1>0, <1>3 DEF CountCall, PendingDay
  <2>2. admitted' = admitted + 1 /\ UNCHANGED <<usage, lost>>  BY <2>1 DEF Enqueue
  <2>3. /\ InMemory(p)' = InMemory(p) + 1
        /\ \A q \in Procs \ {p} : queue'[q] = queue[q] /\ flight'[q] = flight[q]
    BY <1>0, <2>1, EnqueueMemory
  <2>. QED  BY <1>2, <2>2, <2>3
<1>4. ASSUME NEW p \in Procs, NEW prio \in Prios, CountFails(p, prio) PROVE CallsInv'
  <2>1. Enqueue(p, prio)  BY <1>4 DEF CountFails
  <2>2. admitted' = admitted + 1 /\ UNCHANGED <<usage, lost>>  BY <2>1 DEF Enqueue
  <2>3. /\ InMemory(p)' = InMemory(p) + 1
        /\ \A q \in Procs \ {p} : queue'[q] = queue[q] /\ flight'[q] = flight[q]
    BY <1>0, <2>1, EnqueueMemory
  <2>. QED  BY <1>2, <2>2, <2>3
<1>5. ASSUME NEW p \in Procs, Settle(p), Answered(p), UNCHANGED <<admitted, lost>>
      PROVE  CallsInv'
  <2>1. flight[p].phase = "sent" /\ usage' = usage + 1  BY <1>5 DEF Answered, Settle
  <2>2. /\ InMemory(p) = InMemory(p)' + 1
        /\ \A q \in Procs \ {p} : queue'[q] = queue[q] /\ flight'[q] = flight[q]
    BY <1>0, <1>5, <2>1, SettleMemory
  <2>. QED  BY <1>2, <1>5, <2>1, <2>2
\* The pump keeps the call it works on.
<1>6. ASSUME NEW p \in Procs, NEW x, flight' = [flight EXCEPT ![p] = x],
             x # NoCall, flight[p] # NoCall, UNCHANGED <<queue, admitted, usage, lost>>
      PROVE  CallsInv'
  <2>1. flight'[p] = x /\ \A q \in Procs \ {p} : flight'[q] = flight[q]
    BY <1>0, <1>6 DEF TypeOK
  <2>2. InMemory(p)' = InMemory(p)  BY <1>6, <2>1 DEF InMemory
  <2>. QED  BY <1>2, <1>6, <2>1, <2>2
<1>7. ASSUME NEW p \in Procs, Send(p) PROVE CallsInv'
  <2>1. flight[p] \in Calls /\ flight[p].phase = "wait"  BY <1>0, <1>7 DEF Send, TypeOK
  <2>2. PICK x : x = [flight[p] EXCEPT !.phase = "sent"]  OBVIOUS
  <2>3. flight' = [flight EXCEPT ![p] = x] /\ UNCHANGED <<queue, admitted, usage, lost>>
    BY <1>0, <1>7, <2>2 DEF Send, TypeOK
  <2>4. x # NoCall /\ flight[p] # NoCall  BY <2>1, <2>2 DEF NoCall, Calls
  <2>. QED  BY <1>6, <2>3, <2>4
<1>8. ASSUME NEW p \in Procs, FailsTransiently(p), flight[p].attempt < Retries PROVE CallsInv'
  <2>1. flight[p] \in Calls /\ flight[p].phase = "sent"
    BY <1>0, <1>8 DEF FailsTransiently, Answered, TypeOK
  <2>2. PICK x : x = [flight[p] EXCEPT !.phase = "wait", !.attempt = flight[p].attempt + 1]
    OBVIOUS
  <2>3. flight' = [flight EXCEPT ![p] = x] /\ UNCHANGED <<queue, admitted, usage, lost>>
    BY <1>0, <1>8, <2>2 DEF FailsTransiently, TypeOK
  <2>4. x # NoCall /\ flight[p] # NoCall
    <3>1. x.phase = "wait"
      <4>1. PICK d, k, a : flight[p] = [day |-> d, prio |-> k, phase |-> "sent", attempt |-> a]
        BY <2>1 DEF Calls
      <4>. QED  BY <2>2, <4>1
    <3>. QED  BY <2>1, <3>1 DEF NoCall
  <2>. QED  BY <1>6, <2>3, <2>4
<1>9. ASSUME NEW p \in Procs, NEW param \in Params, RejectsParam(p, param) PROVE CallsInv'
  <2>1. flight[p] \in Calls /\ flight[p].phase = "sent"
    BY <1>0, <1>9 DEF RejectsParam, Answered, TypeOK
  <2>2. PICK x : x = [flight[p] EXCEPT !.phase = "wait"]  OBVIOUS
  <2>3. flight' = [flight EXCEPT ![p] = x] /\ UNCHANGED <<queue, admitted, usage, lost>>
    BY <1>0, <1>9, <2>2 DEF RejectsParam, TypeOK
  <2>4. x # NoCall /\ flight[p] # NoCall  BY <2>1, <2>2 DEF NoCall, Calls
  <2>. QED  BY <1>6, <2>3, <2>4
<1>10. ASSUME NEW p \in Procs, Restart(p) PROVE CallsInv'
  <2>1. /\ queue' = [queue EXCEPT ![p] = [prio \in Prios |-> 0]]
        /\ flight' = [flight EXCEPT ![p] = NoCall]
        /\ lost' = lost + InMemory(p) /\ UNCHANGED <<admitted, usage>>
    BY <1>10 DEF Restart
  <2>2. /\ queue'[p] = [prio \in Prios |-> 0] /\ flight'[p] = NoCall
        /\ \A q \in Procs \ {p} : queue'[q] = queue[q] /\ flight'[q] = flight[q]
    BY <1>0, <2>1 DEF TypeOK
  <2>3. Sums(queue'[p], Prios)[Prios] = 0
    <3>1. /\ queue'[p] \in [Prios -> Nat] /\ \A i \in Prios : queue'[p][i] = 0
      BY <2>2
    <3>. QED  BY <3>1, BoundsAssumption, SumsZero
  <2>4. InMemory(p)' = 0  BY <1>0, <2>2, <2>3, MemoryNatNext DEF InMemory
  <2>. QED  BY <1>2, <2>1, <2>2, <2>4
<1>11. CASE UNCHANGED <<queue, flight, admitted, usage, lost>>
  <2>1. PICK p \in Procs : TRUE  BY ProcsAssumption
  <2>2. InMemory(p)' = InMemory(p)  BY <1>11 DEF InMemory
  <2>. QED  BY <1>2, <1>11, <2>2
<1>12. ASSUME NEW p \in Procs, Answer(p) PROVE CallsInv'
  <2>1. CASE Succeeds(p)  BY <1>5, <2>1 DEF Succeeds
  <2>2. CASE FailsSoftly(p)  BY <1>5, <2>2 DEF FailsSoftly
  <2>3. CASE FailsHard(p)  BY <1>5, <2>3 DEF FailsHard
  <2>4. CASE FailsTransiently(p) /\ ~(flight[p].attempt < Retries)
    BY <1>5, <2>4 DEF FailsTransiently
  <2>. QED  BY <1>8, <1>9, <1>12, <2>1, <2>2, <2>3, <2>4 DEF Answer
<1>13. ASSUME NEW p \in Procs, CallJson(p) PROVE CallsInv'
  <2>1. ASSUME NEW prio \in Prios, CheckBudget(p, prio) PROVE CallsInv'
    BY <1>11, <2>1 DEF CheckBudget, pumpVars
  <2>. QED  BY <1>3, <1>4, <1>13, <2>1 DEF CallJson
<1>14. ASSUME NEW p \in Procs, CooldownEnds(p) PROVE CallsInv'
  BY <1>11, <1>14 DEF CooldownEnds
<1>15. CASE Midnight \/ UNCHANGED vars
  BY <1>11, <1>15 DEF Midnight, vars, pumpVars
<1>. QED  BY <1>7, <1>10, <1>12, <1>13, <1>14, <1>15 DEF Next

\* Every admitted call is queued, being worked on, settled with exactly one
\* usage row, or died with its process: the pump drops and repeats none.
THEOREM NoCallDroppedHolds == Spec => []NoCallDropped
<1>1. CallsInv => NoCallDropped  BY DEF CallsInv
<1>. QED  BY <1>1, InitCalls, StepCalls, PTL DEF Spec

-----------------------------------------------------------------------------
(***************************************************************************)
(* Theorems about the job queue, for any singleton ids, dispatches and     *)
(* Workers that share it.                                                  *)
(*                                                                         *)
(* That the wait list is the set of waiting jobs needs to be known of the  *)
(* list as a sequence (Once, Elems): Redis appends to it, pushes a stalled *)
(* job to its front, pops it and cuts from its middle.  That a job runs    *)
(* once more than it stalled at most is inductive only with the fact that  *)
(* one which waits has a run less (Sound).                                 *)
(***************************************************************************)

\* The elements of a list, and a list that holds each of them once.
Elems(s) == {s[i] : i \in DOMAIN s}
Once(s)  == \A i, k \in DOMAIN s : s[i] = s[k] => i = k

LEMMA ListAppend ==
  ASSUME NEW S, NEW s \in Seq(S), NEW n \in S, n \notin Elems(s), Once(s)
  PROVE  LET t == Append(s, n)
         IN  t \in Seq(S) /\ Once(t) /\ Elems(t) = Elems(s) \cup {n}
<1> DEFINE t == Append(s, n)
<1>1. t \in Seq(S) /\ Len(t) = Len(s) + 1  OBVIOUS
<1>2. \A i \in 1 .. Len(s) + 1 : t[i] = IF i <= Len(s) THEN s[i] ELSE n  OBVIOUS
<1> HIDE DEF t
<1>3. Once(t)  BY <1>1, <1>2 DEF Once, Elems
<1>4. Elems(t) = Elems(s) \cup {n}  BY <1>1, <1>2 DEF Elems
<1>5. t \in Seq(S) /\ Once(t) /\ Elems(t) = Elems(s) \cup {n}  BY <1>1, <1>3, <1>4
<1>. QED  BY <1>5 DEF t

LEMMA ListPush ==
  ASSUME NEW S, NEW s \in Seq(S), NEW n \in S, n \notin Elems(s), Once(s)
  PROVE  LET t == <<n>> \o s
         IN  t \in Seq(S) /\ Once(t) /\ Elems(t) = Elems(s) \cup {n}
<1> DEFINE t == <<n>> \o s
<1>1. t \in Seq(S) /\ Len(t) = Len(s) + 1  OBVIOUS
<1>2. \A i \in 1 .. Len(s) + 1 : t[i] = IF i = 1 THEN n ELSE s[i - 1]  OBVIOUS
<1> HIDE DEF t
<1>3. Once(t)
  <2>. SUFFICES ASSUME NEW i \in 1 .. Len(s) + 1, NEW k \in 1 .. Len(s) + 1, t[i] = t[k]
                PROVE  i = k
    BY <1>1 DEF Once
  <2>1. ASSUME NEW x \in 1 .. Len(s) PROVE s[x] # n  BY DEF Elems
  <2>2. CASE i = 1 \/ k = 1  BY <1>2, <2>1, <2>2
  <2>3. CASE i # 1 /\ k # 1
    <3>1. s[i - 1] = s[k - 1] /\ i - 1 \in DOMAIN s /\ k - 1 \in DOMAIN s  BY <1>2, <2>3
    <3>. QED  BY <3>1 DEF Once
  <2>. QED  BY <2>2, <2>3
<1>4. \A i \in 1 .. Len(s) : t[i + 1] = s[i]  BY <1>1, <1>2
<1>5. Elems(t) = Elems(s) \cup {n}
  <2>1. Len(s) \in Nat /\ DOMAIN s = 1 .. Len(s) /\ DOMAIN t = 1 .. Len(s) + 1  BY <1>1
  <2>2. Elems(t) \subseteq Elems(s) \cup {n}
    <3> SUFFICES ASSUME NEW i \in 1 .. Len(s) + 1 PROVE t[i] \in Elems(s) \cup {n}
      BY <2>1 DEF Elems
    <3>. QED  BY <1>2, <2>1 DEF Elems
  <2>3. n \in Elems(t)  BY <1>2, <2>1 DEF Elems
  <2>4. ASSUME NEW i \in 1 .. Len(s) PROVE s[i] \in Elems(t)
    <3>1. i + 1 \in DOMAIN t /\ t[i + 1] = s[i]  BY <1>4, <2>1
    <3>. QED  BY <3>1 DEF Elems
  <2>. QED  BY <2>1, <2>2, <2>3, <2>4 DEF Elems
<1>6. t \in Seq(S) /\ Once(t) /\ Elems(t) = Elems(s) \cup {n}  BY <1>1, <1>3, <1>5
<1>. QED  BY <1>6 DEF t

LEMMA ListTail ==
  ASSUME NEW S, NEW s \in Seq(S), s # << >>, Once(s)
  PROVE  LET t == Tail(s)
         IN  /\ t \in Seq(S) /\ Once(t) /\ Elems(t) = Elems(s) \ {Head(s)}
             /\ Head(s) \in Elems(s) /\ Head(s) \in S
<1> DEFINE t == Tail(s)
<1>1. t \in Seq(S) /\ Len(t) = Len(s) - 1 /\ Len(s) \in Nat \ {0}  OBVIOUS
<1>2. \A i \in 1 .. Len(s) - 1 : t[i] = s[i + 1]  OBVIOUS
<1>3. Head(s) = s[1]  OBVIOUS
<1> HIDE DEF t
<1>4. Once(t)
  <2> SUFFICES ASSUME NEW i \in 1 .. Len(s) - 1, NEW k \in 1 .. Len(s) - 1, t[i] = t[k]
               PROVE  i = k
    BY <1>1 DEF Once
  <2>1. s[i + 1] = s[k + 1] /\ i + 1 \in DOMAIN s /\ k + 1 \in DOMAIN s  BY <1>1, <1>2
  <2>. QED  BY <2>1 DEF Once
<1>5. Elems(t) \subseteq Elems(s) \ {s[1]}  BY <1>1, <1>2 DEF Elems, Once
<1>6. \A i \in 2 .. Len(s) : t[i - 1] = s[i] /\ i - 1 \in 1 .. Len(t)  BY <1>1, <1>2
<1>7. Elems(s) \ {s[1]} \subseteq Elems(t)  BY <1>1, <1>6 DEF Elems
<1>8. s[1] \in Elems(s) /\ s[1] \in S  BY <1>1 DEF Elems
<1>9. t \in Seq(S) /\ Once(t) /\ Elems(t) = Elems(s) \ {Head(s)}
  BY <1>1, <1>3, <1>4, <1>5, <1>7
<1>. QED  BY <1>3, <1>8, <1>9 DEF t

LEMMA ListCut ==
  ASSUME NEW S, NEW s \in Seq(S), NEW j \in 1 .. Len(s), Once(s)
  PROVE  LET t == SubSeq(s, 1, j - 1) \o SubSeq(s, j + 1, Len(s))
         IN  t \in Seq(S) /\ Once(t) /\ Elems(t) = Elems(s) \ {s[j]}
<1> DEFINE a == SubSeq(s, 1, j - 1)
           b == SubSeq(s, j + 1, Len(s))
           t == a \o b
<1>1. Len(s) \in Nat /\ j \in Nat /\ j >= 1 /\ j <= Len(s)  OBVIOUS
<1>2. a \in Seq(S) /\ Len(a) = j - 1 /\ \A i \in 1 .. j - 1 : a[i] = s[i]
  BY <1>1
<1>3. b \in Seq(S) /\ Len(b) = Len(s) - j /\ \A i \in 1 .. Len(s) - j : b[i] = s[j + i]
  BY <1>1
<1> HIDE DEF a, b
<1>4. t \in Seq(S) /\ Len(t) = Len(a) + Len(b)
  <2>1. a \in Seq(S) /\ b \in Seq(S)  BY <1>2, <1>3
  <2>. QED  BY <2>1
<1>5. \A i \in 1 .. Len(a) + Len(b) : t[i] = IF i <= Len(a) THEN a[i] ELSE b[i - Len(a)]
  BY <1>2, <1>3
<1> HIDE DEF t
<1>6. Len(t) = Len(s) - 1  BY <1>1, <1>2, <1>3, <1>4
<1>7. \A i \in 1 .. Len(s) - 1 : t[i] = IF i < j THEN s[i] ELSE s[i + 1]
  <2> TAKE i \in 1 .. Len(s) - 1
  <2>1. CASE i < j  BY <1>1, <1>2, <1>3, <1>5, <2>1
  <2>2. CASE ~(i < j)
    <3>1. i - (j - 1) \in 1 .. Len(s) - j /\ j + (i - (j - 1)) = i + 1  BY <1>1, <2>2
    <3>2. Len(a) = j - 1 /\ i \in 1 .. Len(a) + Len(b) /\ ~(i <= Len(a))
      BY <1>1, <1>2, <1>3, <2>2
    <3>3. t[i] = b[i - Len(a)]  BY <1>5, <3>2
    <3>4. t[i] = b[i - (j - 1)]  BY <3>2, <3>3
    <3>. QED  BY <1>3, <2>2, <3>1, <3>4
  <2>. QED  BY <2>1, <2>2
<1>8. Once(t)
  <2>. SUFFICES ASSUME NEW i \in 1 .. Len(s) - 1, NEW k \in 1 .. Len(s) - 1, t[i] = t[k]
                PROVE  i = k
    BY <1>4, <1>6 DEF Once
  <2>1. PICK x : x = IF i < j THEN i ELSE i + 1  OBVIOUS
  <2>2. PICK y : y = IF k < j THEN k ELSE k + 1  OBVIOUS
  <2>3. x \in DOMAIN s /\ y \in DOMAIN s  BY <1>1, <2>1, <2>2
  <2>4. s[x] = s[y]  BY <1>7, <2>1, <2>2
  <2>5. x = y  BY <2>3, <2>4 DEF Once
  <2>. QED  BY <1>1, <2>1, <2>2, <2>5
<1>9. Elems(t) \subseteq Elems(s) \ {s[j]}  BY <1>1, <1>4, <1>6, <1>7 DEF Elems, Once
<1>10. ASSUME NEW i \in 1 .. Len(s), i # j PROVE s[i] \in Elems(t)
  <2>1. CASE i < j
    <3>1. i \in DOMAIN t /\ t[i] = s[i]  BY <1>1, <1>4, <1>6, <1>7, <2>1
    <3>. QED  BY <3>1 DEF Elems
  <2>2. CASE i > j
    <3>1. i - 1 \in DOMAIN t /\ t[i - 1] = s[i]  BY <1>1, <1>4, <1>6, <1>7, <2>2
    <3>. QED  BY <3>1 DEF Elems
  <2>. QED  BY <1>1, <1>10, <2>1, <2>2
<1>11. Elems(s) \ {s[j]} \subseteq Elems(t)  BY <1>1, <1>10 DEF Elems
<1>12. t \in Seq(S) /\ Once(t) /\ Elems(t) = Elems(s) \ {s[j]}  BY <1>4, <1>8, <1>9, <1>11
<1>. QED  BY <1>12 DEF a, b, t

\* A set of naturals with a member has a least one; BullMQ's list holds an id
\* once, so that the first occurrence is the only one.
LEMMA RemoveOnce ==
  ASSUME NEW S, NEW s \in Seq(S), NEW n \in S, Once(s)
  PROVE  LET t == RemoveFirst(s, n)
         IN  t \in Seq(S) /\ Once(t) /\ Elems(t) = Elems(s) \ {n}
<1>1. CASE n \in Elems(s)
  <2>1. PICK j \in 1 .. Len(s) : s[j] = n  BY <1>1 DEF Elems
  <2>2. {i \in 1 .. Len(s) : s[i] = n} = {j}  BY <2>1 DEF Once
  <2>3. Min({j}) = j  BY DEF Min
  <2>4. SelectInSeq(s, LAMBDA v : v = n) = j  BY <2>2, <2>3 DEF SelectInSeq
  <2>5. RemoveFirst(s, n) = RemoveAt(s, SelectInSeq(s, LAMBDA v : v = n))
    BY <2>1 DEF RemoveFirst
  <2>6. RemoveFirst(s, n) = SubSeq(s, 1, j - 1) \o SubSeq(s, j + 1, Len(s))
    BY <2>4, <2>5 DEF RemoveAt
  <2>. QED  BY <2>1, <2>6, ListCut
<1>2. CASE n \notin Elems(s)
  <2>1. RemoveFirst(s, n) = s  BY <1>2 DEF RemoveFirst, Elems
  <2>. QED  BY <1>2, <2>1
<1>. QED  BY <1>1, <1>2

-----------------------------------------------------------------------------
JobType == [state : JobStates, after : SUBSET Dispatches,
            lock : Workers \cup {NoOne}, stalls : Nat, runs : Nat]
DispType == [pc : Steps \cup {"idle"}, name : Names, outcome : Outcomes]

\* A job that holds a lock is active.  It has been stalled before each run but
\* the first, so one that waits has a run less than one that was fetched.
Sound(j) ==
  /\ j.lock # NoOne => j.state = "active"
  /\ j.runs <= j.stalls + 1
  /\ j.state = "waiting" => j.runs <= j.stalls
  /\ j.stalls <= MaxStalled

JobsOK ==
  /\ job \in [Names -> JobType] /\ \A n \in Names : Sound(job[n])
  /\ waiting \in Seq(Names) /\ Once(waiting)
  /\ Elems(waiting) = {n \in Names : job[n].state = "waiting"}
WireOK ==
  /\ wire \in Seq(Commands)
  /\ disp \in [Dispatches -> DispType]
  /\ run \in [Workers -> Names \cup {NoOne}]
  /\ crashes \in Nat
JobInv == JobsOK /\ WireOK

LEMMA JobsInit == ASSUME JobInit PROVE JobInv
<1> USE DEF JobInit
<1>1. ASSUME NEW n \in Names
      PROVE  /\ job[n] \in JobType /\ Sound(job[n]) /\ job[n].state # "waiting"
  <2>1. PICK x \in {"none", "completed", "unknown"} :
          job[n] = [state |-> x, after |-> {}, lock |-> NoOne, stalls |-> 0, runs |-> 0]
    BY <1>1 DEF NoJob
  <2>. QED  BY <2>1, NoOneAssumption, JobBoundsAssumption DEF JobType, JobStates, Sound
<1>2. job \in [Names -> JobType]  BY <1>1
<1>3. waiting = << >> /\ waiting \in Seq(Names)  OBVIOUS
<1>4. Once(waiting) /\ Elems(waiting) = {}  BY <1>3 DEF Once, Elems
<1>5. JobsOK  BY <1>1, <1>2, <1>3, <1>4 DEF JobsOK
<1>6. wire \in Seq(Commands) /\ run \in [Workers -> Names \cup {NoOne}] /\ crashes \in Nat
  OBVIOUS
<1>7. disp \in [Dispatches -> DispType]  BY DEF DispType, Outcomes
<1>. QED  BY <1>5, <1>6, <1>7 DEF JobInv, WireOK

\* What is to be shown of a step that changes one job.
LEMMA JobSet ==
  ASSUME JobsOK, NEW n \in Names, NEW j \in JobType, Sound(j),
         job' = [job EXCEPT ![n] = j],
         waiting' \in Seq(Names), Once(waiting'),
         Elems(waiting') = IF j.state = "waiting" THEN Elems(waiting) \cup {n}
                                                   ELSE Elems(waiting) \ {n}
  PROVE  JobsOK'
<1>1. job'[n] = j /\ job' \in [Names -> JobType]  BY DEF JobsOK
<1>2. \A m \in Names \ {n} : job'[m] = job[m]  BY DEF JobsOK
<1>3. \A m \in Names : Sound(job'[m])  BY <1>1, <1>2 DEF JobsOK
<1>4. Elems(waiting') = {m \in Names : job'[m].state = "waiting"}
  BY <1>1, <1>2 DEF JobsOK
<1>. QED  BY <1>1, <1>3, <1>4 DEF JobsOK, Sound

\* A job that is not waiting and stays so leaves the list alone.
LEMMA JobKept ==
  ASSUME JobsOK, NEW n \in Names, NEW j \in JobType, Sound(j),
         job' = [job EXCEPT ![n] = j], j.state # "waiting",
         job[n].state # "waiting", UNCHANGED waiting
  PROVE  JobsOK'
<1>1. Elems(waiting') = Elems(waiting) \ {n} /\ Once(waiting') /\ waiting' \in Seq(Names)
  BY DEF JobsOK
<1>. QED  BY <1>1, JobSet

LEMMA JobsSame == ASSUME JobsOK, UNCHANGED <<job, waiting>> PROVE JobsOK'
BY DEF JobsOK, Sound

-----------------------------------------------------------------------------
(* The connection.                                                         *)

LEMMA SendsOK ==
  ASSUME WireOK, NEW d \in Dispatches, NEW op \in Steps,
         NEW rest \in Seq(Commands), Sends(d, op, rest), UNCHANGED <<run, crashes>>
  PROVE  WireOK'
<1>1. disp[d].name \in Names  BY DEF WireOK, DispType
<1>2. Command(d, op, disp[d].name) \in Commands
  BY <1>1 DEF Command, Commands, InProgress
<1>3. wire' \in Seq(Commands)  BY <1>2 DEF Sends
<1>4. disp' \in [Dispatches -> DispType]
  BY DEF Sends, WireOK, DispType
<1>. QED  BY <1>3, <1>4 DEF WireOK

LEMMA EndsOK ==
  ASSUME WireOK, NEW d \in Dispatches, NEW o \in Outcomes, Ends(d, o),
         wire' \in Seq(Commands), UNCHANGED <<run, crashes>>
  PROVE  WireOK'
BY DEF WireOK, DispType, Ends

LEMMA WireSame ==
  ASSUME WireOK, wire' \in Seq(Commands), UNCHANGED <<disp, run, crashes>>
  PROVE  WireOK'
BY DEF WireOK

\* The oldest command, and the wire without it.
LEMMA HeadOK ==
  ASSUME WireOK, wire # << >>
  PROVE  /\ Head(wire) \in Commands /\ Tail(wire) \in Seq(Commands)
         /\ Head(wire).by # NoOne => Head(wire).by \in Dispatches
         /\ Head(wire).name \in Names /\ Head(wire).after \in SUBSET Dispatches
<1>1. Head(wire) \in Commands /\ Tail(wire) \in Seq(Commands)  BY DEF WireOK
<1>. QED  BY <1>1 DEF Commands

\* Changing each command in place keeps a sequence of commands one.
LEMMA WireMap ==
  ASSUME WireOK, NEW f, DOMAIN f = DOMAIN wire, f = [i \in DOMAIN f |-> f[i]],
         \A i \in DOMAIN wire : f[i] \in Commands
  PROVE  f \in Seq(Commands)
<1>1. DOMAIN wire = 1 .. Len(wire) /\ Len(wire) \in Nat  BY DEF WireOK
<1>2. f \in [1 .. Len(wire) -> Commands]  BY <1>1
<1>. QED  BY <1>1, <1>2, SeqDef

LEMMA RejectedOK ==
  ASSUME WireOK, NEW d \in Dispatches, NEW o \in Outcomes,
         NEW rest \in Seq(Commands), StepRejected(d, o, rest),
         UNCHANGED <<run, crashes>>
  PROVE  WireOK'
<1>1. "add" \in Steps  BY DEF Steps
<1>2. CASE disp[d].pc = "remove"  BY <1>1, <1>2, SendsOK DEF StepRejected
<1>3. CASE disp[d].pc # "remove"  BY <1>3, EndsOK DEF StepRejected
<1>. QED  BY <1>2, <1>3

LEMMA BeginStep ==
  ASSUME JobInv, NEW d \in Dispatches, NEW n \in Names, Begin(d, n)
  PROVE  JobInv'
<1> USE DEF JobInv
<1>1. ASSUME NEW m \in Names
      PROVE  /\ job'[m] \in JobType /\ Sound(job'[m])
             /\ job'[m].state = job[m].state
  <2>1. job[m] \in JobType /\ Sound(job[m])  BY DEF JobsOK
  <2>2. PICK st, af, lk, sl, rn :
          job[m] = [state |-> st, after |-> af, lock |-> lk, stalls |-> sl, runs |-> rn]
    BY <2>1 DEF JobType
  <2>3. job'[m] = [job[m] EXCEPT !.after = @ \ {d}]  BY DEF Begin
  <2>4. job'[m] = [state |-> st, after |-> af \ {d}, lock |-> lk, stalls |-> sl, runs |-> rn]
    BY <2>2, <2>3
  <2>. QED  BY <2>1, <2>2, <2>4 DEF JobType, Sound
<1>2. job' \in [Names -> JobType]
  <2>1. job' = [m \in Names |-> job'[m]]  BY DEF Begin
  <2>. QED  BY <1>1, <2>1
<1>3. JobsOK'  BY <1>1, <1>2 DEF JobsOK, Begin, Sound
<1>4. Command(d, "getJob", n) \in Commands
  BY DEF Command, Commands, Steps
<1> DEFINE f == [i \in DOMAIN wire |-> [wire[i] EXCEPT !.after = @ \ {d}]]
<1>5. ASSUME NEW i \in DOMAIN wire PROVE f[i] \in Commands
  <2>1. wire[i] \in Commands  BY DEF WireOK
  <2>2. PICK by, op, nm, af : wire[i] = [by |-> by, op |-> op, name |-> nm, after |-> af]
    BY <2>1 DEF Commands
  <2>3. f[i] = [by |-> by, op |-> op, name |-> nm, after |-> af \ {d}]  BY <2>2
  <2>. QED  BY <2>1, <2>2, <2>3 DEF Commands
<1>6. DOMAIN f = DOMAIN wire /\ f = [i \in DOMAIN f |-> f[i]]  OBVIOUS
<1>7. wire' = Append(f, Command(d, "getJob", n))  BY DEF Begin
<1> HIDE DEF f
<1>8. f \in Seq(Commands)  BY <1>5, <1>6, WireMap
<1>9. wire' \in Seq(Commands)  BY <1>4, <1>7, <1>8
<1>10. disp' \in [Dispatches -> DispType]
  BY DEF Begin, WireOK, DispType, Steps, Outcomes
<1>11. WireOK'  BY <1>9, <1>10 DEF WireOK, Begin
<1>. QED  BY <1>3, <1>11

LEMMA TimeoutStep ==
  ASSUME JobInv, NEW d \in Dispatches, Timeout(d) PROVE JobInv'
<1> USE DEF JobInv
<1> DEFINE f == [i \in DOMAIN wire |-> IF wire[i].by = d THEN [wire[i] EXCEPT !.by = NoOne]
                                                         ELSE wire[i]]
<1>1. ASSUME NEW i \in DOMAIN wire PROVE f[i] \in Commands
  <2>1. wire[i] \in Commands  BY DEF WireOK
  <2>2. PICK by, op, nm, af : wire[i] = [by |-> by, op |-> op, name |-> nm, after |-> af]
    BY <2>1 DEF Commands
  <2>3. [wire[i] EXCEPT !.by = NoOne] = [by |-> NoOne, op |-> op, name |-> nm, after |-> af]
    BY <2>2
  <2>. QED  BY <2>1, <2>2, <2>3 DEF Commands
<1>2. DOMAIN f = DOMAIN wire /\ f = [i \in DOMAIN f |-> f[i]]  OBVIOUS
<1>3. StepRejected(d, "timeout", f)  BY DEF Timeout
<1> HIDE DEF f
<1>4. f \in Seq(Commands)  BY <1>1, <1>2, WireMap
<1>5. UNCHANGED <<job, waiting, run, crashes>>  BY DEF Timeout
<1>6. "timeout" \in Outcomes  BY DEF Outcomes
<1>. QED  BY <1>3, <1>4, <1>5, <1>6, JobsSame, RejectedOK

LEMMA RejectStep == ASSUME JobInv, Reject PROVE JobInv'
<1> USE DEF JobInv
<1>1. wire # << >> /\ UNCHANGED <<job, waiting, run, crashes>>  BY DEF Reject
<1>2. CASE Head(wire).by = NoOne
  BY <1>1, <1>2, HeadOK, JobsSame, WireSame DEF Reject
<1>3. CASE Head(wire).by # NoOne
  <2>1. StepRejected(Head(wire).by, "failed", Tail(wire))  BY <1>3 DEF Reject
  <2>2. "failed" \in Outcomes  BY DEF Outcomes
  <2>. QED  BY <1>1, <1>3, <2>1, <2>2, HeadOK, JobsSame, RejectedOK
<1>. QED  BY <1>2, <1>3

\* What Redis does to the keys.
LEMMA DeliverJobs ==
  ASSUME JobInv, Deliver PROVE JobsOK'
<1> USE DEF JobInv
<1>0. wire # << >>  BY DEF Deliver
<1>1. PICK c : c = Head(wire)  OBVIOUS
<1>2. c \in Commands /\ c.name \in Names /\ c.after \in SUBSET Dispatches
  BY <1>0, <1>1, HeadOK
<1>3. CASE DeliverGetJob(c) \/ DeliverGetState(c)
  BY <1>3, JobsSame DEF DeliverGetJob, DeliverGetState
<1>4. CASE DeliverRemove(c)
  <2>1. CASE job[c.name].lock = NoOne
    <3>1. job' = [job EXCEPT ![c.name] = NoJob]
      BY <1>4, <2>1 DEF DeliverRemove
    <3>2. NoJob \in JobType /\ Sound(NoJob) /\ NoJob.state # "waiting"
      BY NoOneAssumption, JobBoundsAssumption DEF NoJob, JobType, JobStates, Sound
    <3>3. waiting' = RemoveFirst(waiting, c.name)
      BY <1>4, <2>1 DEF DeliverRemove
    <3>4. /\ waiting' \in Seq(Names) /\ Once(waiting')
          /\ Elems(waiting') = Elems(waiting) \ {c.name}
      BY <1>2, <3>3, RemoveOnce DEF JobsOK
    <3>. QED  BY <1>2, <3>1, <3>2, <3>4, JobSet
  <2>2. CASE job[c.name].lock # NoOne
    BY <1>4, <2>2, JobsSame DEF DeliverRemove
  <2>. QED  BY <2>1, <2>2
<1>5. CASE DeliverAdd(c)
  <2>1. CASE job[c.name].state = "none"
    <3>1. PICK j : j = [NoJob EXCEPT !.state = "waiting", !.after = c.after]  OBVIOUS
    <3>2. j = [state |-> "waiting", after |-> c.after, lock |-> NoOne, stalls |-> 0, runs |-> 0]
      BY <3>1 DEF NoJob
    <3>3. j \in JobType /\ Sound(j) /\ j.state = "waiting"
      BY <1>2, <3>2, NoOneAssumption, JobBoundsAssumption DEF JobType, JobStates, Sound
    <3>4. job' = [job EXCEPT ![c.name] = j] /\ waiting' = Append(waiting, c.name)
      BY <1>5, <2>1, <3>1 DEF DeliverAdd
    <3>5. c.name \notin Elems(waiting)  BY <1>2, <2>1 DEF JobsOK
    <3>6. /\ waiting' \in Seq(Names) /\ Once(waiting')
          /\ Elems(waiting') = Elems(waiting) \cup {c.name}
      BY <1>2, <3>4, <3>5, ListAppend DEF JobsOK
    <3>. QED  BY <1>2, <3>3, <3>4, <3>6, JobSet
  <2>2. CASE job[c.name].state # "none"
    BY <1>5, <2>2, JobsSame DEF DeliverAdd
  <2>. QED  BY <2>1, <2>2
<1>. QED  BY <1>1, <1>3, <1>4, <1>5 DEF Deliver

\* What its reply makes the caller do.
LEMMA DeliverWire == ASSUME JobInv, Deliver PROVE WireOK'
<1> USE DEF JobInv
<1>0. wire # << >> /\ UNCHANGED <<run, crashes>>  BY DEF Deliver
<1>1. PICK c : c = Head(wire)  OBVIOUS
<1>2. c.by # NoOne => c.by \in Dispatches  BY <1>0, <1>1, HeadOK
<1>3. Tail(wire) \in Seq(Commands)  BY <1>0, HeadOK
<1>4. ASSUME NEW op \in Steps, Sends(c.by, op, Tail(wire)), c.by # NoOne PROVE WireOK'
  BY <1>0, <1>2, <1>3, <1>4, SendsOK
<1>5. ASSUME NEW o \in Outcomes, Ends(c.by, o), wire' = Tail(wire), c.by # NoOne
      PROVE  WireOK'
  BY <1>0, <1>2, <1>3, <1>5, EndsOK
<1>6. CASE wire' = Tail(wire) /\ UNCHANGED disp  BY <1>0, <1>3, <1>6, WireSame
<1>7. {"getState", "remove", "add"} \subseteq Steps  BY DEF Steps
<1>8. {"held", "enqueued", "noop"} \subseteq Outcomes  BY DEF Outcomes
<1>9. CASE DeliverGetJob(c)
  <2>1. CASE c.by = NoOne  BY <1>6, <1>9, <2>1 DEF DeliverGetJob
  <2>2. CASE c.by # NoOne
    BY <1>4, <1>7, <1>9, <2>2 DEF DeliverGetJob
  <2>. QED  BY <2>1, <2>2
<1>10. CASE DeliverGetState(c)
  <2>1. CASE c.by = NoOne  BY <1>6, <1>10, <2>1 DEF DeliverGetState
  <2>2. CASE c.by # NoOne /\ job[c.name].state \in DedupHoldingStates
    <3>1. wire' = Tail(wire) /\ Ends(c.by, "held")
      BY <1>10, <2>2 DEF DeliverGetState
    <3>. QED  BY <1>5, <1>8, <2>2, <3>1
  <2>3. CASE c.by # NoOne /\ job[c.name].state \notin DedupHoldingStates
    <3>1. Sends(c.by, "remove", Tail(wire))
      BY <1>10, <2>3 DEF DeliverGetState
    <3>. QED  BY <1>4, <1>7, <2>3, <3>1
  <2>. QED  BY <2>1, <2>2, <2>3
<1>11. CASE DeliverRemove(c)
  <2>1. CASE c.by = NoOne  BY <1>6, <1>11, <2>1 DEF DeliverRemove
  <2>2. CASE c.by # NoOne  BY <1>4, <1>7, <1>11, <2>2 DEF DeliverRemove
  <2>. QED  BY <2>1, <2>2
<1>12. CASE DeliverAdd(c)
  <2>1. CASE c.by = NoOne  BY <1>6, <1>12, <2>1 DEF DeliverAdd
  <2>2. CASE c.by # NoOne
    <3>1. PICK o : o = AddOutcome(c.by, job'[c.name])  OBVIOUS
    <3>2. o \in Outcomes  BY <1>8, <3>1 DEF AddOutcome
    <3>3. Ends(c.by, o) /\ wire' = Tail(wire)  BY <1>12, <2>2, <3>1 DEF DeliverAdd
    <3>. QED  BY <1>5, <2>2, <3>2, <3>3
  <2>. QED  BY <2>1, <2>2
<1>. QED  BY <1>1, <1>9, <1>10, <1>11, <1>12 DEF Deliver

-----------------------------------------------------------------------------
(* The Workers.                                                            *)

LEMMA FetchStep ==
  ASSUME JobInv, NEW w \in Workers, Fetch(w) PROVE JobInv'
<1> USE DEF JobInv
<1>1. waiting # << >> /\ UNCHANGED <<wire, disp, crashes>>  BY DEF Fetch
<1>2. PICK n : n = Head(waiting)  OBVIOUS
<1>3. PICK t : t = Tail(waiting)  OBVIOUS
<1>4. /\ t \in Seq(Names) /\ Once(t) /\ Elems(t) = Elems(waiting) \ {n}
      /\ n \in Elems(waiting) /\ n \in Names
  BY <1>1, <1>2, <1>3, ListTail DEF JobsOK
<1>5. job[n].state = "waiting" /\ job[n] \in JobType /\ Sound(job[n])  BY <1>4 DEF JobsOK
<1>6. PICK st, af, lk, sl, rn :
        job[n] = [state |-> st, after |-> af, lock |-> lk, stalls |-> sl, runs |-> rn]
  BY <1>5 DEF JobType
<1>7. PICK j : j = [state |-> "active", after |-> af, lock |-> w, stalls |-> sl, runs |-> rn + 1]
  OBVIOUS
<1>8. j \in JobType /\ Sound(j) /\ j.state # "waiting"
  BY <1>5, <1>6, <1>7 DEF JobType, JobStates, Sound
<1>9. job' = [job EXCEPT ![n] = j]
  <2>1. job' = [job EXCEPT ![n].state = "active", ![n].lock = w, ![n].runs = @ + 1]
    BY <1>2 DEF Fetch
  <2>2. [job[n] EXCEPT !.state = "active", !.lock = w, !.runs = @ + 1] = j
    <3>1. PICK a : a = [job[n] EXCEPT !.state = "active"]  OBVIOUS
    <3>2. a = [state |-> "active", after |-> af, lock |-> lk, stalls |-> sl, runs |-> rn]
      BY <1>6, <3>1
    <3>3. PICK b : b = [a EXCEPT !.lock = w]  OBVIOUS
    <3>4. b = [state |-> "active", after |-> af, lock |-> w, stalls |-> sl, runs |-> rn]
      BY <3>2, <3>3
    <3>5. [b EXCEPT !.runs = rn + 1] = j  BY <1>7, <3>4
    <3>6. [job[n] EXCEPT !.state = "active", !.lock = w, !.runs = @ + 1]
            = [b EXCEPT !.runs = job[n].runs + 1]
      BY <3>1, <3>3
    <3>. QED  BY <1>6, <3>5, <3>6
  <2>3. job' = [job EXCEPT ![n] =
                  [job[n] EXCEPT !.state = "active", !.lock = w, !.runs = @ + 1]]
    BY <1>4, <2>1 DEF JobsOK
  <2>. QED  BY <2>2, <2>3
<1>10. waiting' = t /\ run' = [run EXCEPT ![w] = n]  BY <1>2, <1>3 DEF Fetch
<1>11. JobsOK'  BY <1>4, <1>8, <1>9, <1>10, JobSet
<1>12. WireOK'  BY <1>1, <1>4, <1>10 DEF WireOK
<1>. QED  BY <1>11, <1>12

LEMMA FinishStep ==
  ASSUME JobInv, NEW w \in Workers, Finish(w) PROVE JobInv'
<1> USE DEF JobInv
<1>1. UNCHANGED <<waiting, wire, disp, crashes>> /\ run' = [run EXCEPT ![w] = NoOne]
  BY DEF Finish
<1>2. PICK n : n = run[w]  OBVIOUS
<1>3. n \in Names /\ w # NoOne  BY <1>2, NoOneAssumption, JobBoundsAssumption DEF Finish, WireOK
<1>4. JobsOK'
  <2>1. CASE job[n].lock = w
    <3>1. job[n].state = "active" /\ job[n] \in JobType /\ Sound(job[n])
      BY <1>3, <2>1 DEF JobsOK, Sound
    <3>2. PICK r \in {"completed", "failed"} : job' = [job EXCEPT ![n] = Finished(@, r)]
      BY <1>2, <2>1 DEF Finish
    <3>3. PICK st, af, lk, sl, rn :
            job[n] = [state |-> st, after |-> af, lock |-> lk, stalls |-> sl, runs |-> rn]
      BY <3>1 DEF JobType
    <3>4. PICK j : j = [state |-> r, after |-> af, lock |-> NoOne, stalls |-> sl, runs |-> rn]
      OBVIOUS
    <3>5. Finished(job[n], r) = j
      <4>1. PICK a : a = [job[n] EXCEPT !.state = r]  OBVIOUS
      <4>2. a = [state |-> r, after |-> af, lock |-> lk, stalls |-> sl, runs |-> rn]
        BY <3>3, <4>1
      <4>3. [a EXCEPT !.lock = NoOne] = j  BY <3>4, <4>2
      <4>4. Finished(job[n], r) = [a EXCEPT !.lock = NoOne]  BY <4>1 DEF Finished
      <4>. QED  BY <4>3, <4>4
    <3>6. j \in JobType /\ Sound(j) /\ j.state # "waiting"
      BY <3>1, <3>3, <3>4, NoOneAssumption, JobBoundsAssumption DEF JobType, JobStates, Sound
    <3>7. job' = [job EXCEPT ![n] = j]  BY <1>3, <3>2, <3>5 DEF JobsOK
    <3>. QED  BY <1>1, <1>3, <3>1, <3>6, <3>7, JobKept
  <2>2. CASE job[n].lock # w  BY <1>1, <1>2, <2>2, JobsSame DEF Finish
  <2>. QED  BY <2>1, <2>2
<1>5. WireOK'  BY <1>1 DEF WireOK
<1>. QED  BY <1>4, <1>5

LEMMA LoseLockStep ==
  ASSUME JobInv, NEW n \in Names, LoseLock(n) PROVE JobInv'
<1> USE DEF JobInv
<1>1. UNCHANGED <<waiting, wire, disp, run, crashes>>  BY DEF LoseLock
<1>2. job[n].state = "active" /\ job[n] \in JobType /\ Sound(job[n])
  BY DEF LoseLock, JobsOK
<1>3. PICK st, af, lk, sl, rn :
        job[n] = [state |-> st, after |-> af, lock |-> lk, stalls |-> sl, runs |-> rn]
  BY <1>2 DEF JobType
<1>4. PICK j : j = [state |-> st, after |-> af, lock |-> NoOne, stalls |-> sl, runs |-> rn]
  OBVIOUS
<1>5. [job[n] EXCEPT !.lock = NoOne] = j  BY <1>3, <1>4
<1>6. job' = [job EXCEPT ![n] = j]  BY <1>5 DEF LoseLock, JobsOK
<1>7. j \in JobType /\ Sound(j) /\ j.state # "waiting"
  BY <1>2, <1>3, <1>4, NoOneAssumption, JobBoundsAssumption DEF JobType, Sound
<1>8. JobsOK'  BY <1>1, <1>2, <1>6, <1>7, JobKept
<1>9. WireOK'  BY <1>1 DEF WireOK
<1>. QED  BY <1>8, <1>9

LEMMA StallStep ==
  ASSUME JobInv, NEW n \in Names, StallCheck(n) PROVE JobInv'
<1> USE DEF JobInv
<1>1. UNCHANGED <<wire, disp, run, crashes>>  BY DEF StallCheck
<1>2. job[n].state = "active" /\ job[n].lock = NoOne /\ job[n] \in JobType /\ Sound(job[n])
  BY DEF StallCheck, JobsOK
<1>3. PICK st, af, lk, sl, rn :
        job[n] = [state |-> st, after |-> af, lock |-> lk, stalls |-> sl, runs |-> rn]
  BY <1>2 DEF JobType
<1>4. CASE job[n].stalls < MaxStalled
  <2>1. PICK j : j = [state |-> "waiting", after |-> af, lock |-> lk, stalls |-> sl + 1, runs |-> rn]
    OBVIOUS
  <2>2. [job[n] EXCEPT !.state = "waiting", !.stalls = @ + 1] = j
    <3>1. PICK a : a = [job[n] EXCEPT !.state = "waiting"]  OBVIOUS
    <3>2. a = [state |-> "waiting", after |-> af, lock |-> lk, stalls |-> sl, runs |-> rn]
      BY <1>3, <3>1
    <3>3. [a EXCEPT !.stalls = sl + 1] = j  BY <2>1, <3>2
    <3>4. [job[n] EXCEPT !.state = "waiting", !.stalls = @ + 1] = [a EXCEPT !.stalls = job[n].stalls + 1]
      BY <3>1
    <3>. QED  BY <1>3, <3>3, <3>4
  <2>3. job' = [job EXCEPT ![n].state = "waiting", ![n].stalls = @ + 1]
        /\ waiting' = <<n>> \o waiting
    BY <1>4 DEF StallCheck
  <2>4. job' = [job EXCEPT ![n] = j]  BY <2>2, <2>3 DEF JobsOK
  <2>5. j \in JobType /\ Sound(j) /\ j.state = "waiting"
    BY <1>2, <1>3, <1>4, <2>1, NoOneAssumption, JobBoundsAssumption DEF JobType, JobStates, Sound
  <2>6. n \notin Elems(waiting)  BY <1>2 DEF JobsOK
  <2>7. /\ waiting' \in Seq(Names) /\ Once(waiting')
        /\ Elems(waiting') = Elems(waiting) \cup {n}
    BY <2>3, <2>6, ListPush DEF JobsOK
  <2>8. JobsOK'  BY <2>4, <2>5, <2>7, JobSet
  <2>. QED  BY <1>1, <2>8 DEF WireOK
<1>5. CASE ~(job[n].stalls < MaxStalled)
  <2>1. PICK j : j = [state |-> "failed", after |-> af, lock |-> lk, stalls |-> sl, runs |-> rn]
    OBVIOUS
  <2>2. [job[n] EXCEPT !.state = "failed"] = j  BY <1>3, <2>1
  <2>3. job' = [job EXCEPT ![n].state = "failed"] /\ UNCHANGED waiting
    BY <1>5 DEF StallCheck
  <2>4. job' = [job EXCEPT ![n] = j]  BY <2>2, <2>3 DEF JobsOK
  <2>5. j \in JobType /\ Sound(j) /\ j.state # "waiting"
    BY <1>2, <1>3, <2>1, NoOneAssumption, JobBoundsAssumption DEF JobType, JobStates, Sound
  <2>6. JobsOK'  BY <1>2, <2>3, <2>4, <2>5, JobKept
  <2>. QED  BY <1>1, <2>6 DEF WireOK
<1>. QED  BY <1>4, <1>5

LEMMA JobsStep ==
  ASSUME JobInv, [JobNext]_jobVars PROVE JobInv'
<1>1. ASSUME NEW d \in Dispatches, NEW n \in Names, Begin(d, n) PROVE JobInv'
  BY <1>1, BeginStep
<1>2. CASE Deliver  BY <1>2, DeliverJobs, DeliverWire DEF JobInv
<1>3. CASE Reject  BY <1>3, RejectStep
<1>4. ASSUME NEW d \in Dispatches, Timeout(d) PROVE JobInv'  BY <1>4, TimeoutStep
<1>5. ASSUME NEW w \in Workers, Fetch(w) PROVE JobInv'  BY <1>5, FetchStep
<1>6. ASSUME NEW w \in Workers, Finish(w) PROVE JobInv'  BY <1>6, FinishStep
<1>7. ASSUME NEW n \in Names, LoseLock(n) PROVE JobInv'  BY <1>7, LoseLockStep
<1>8. ASSUME NEW n \in Names, StallCheck(n) PROVE JobInv'  BY <1>8, StallStep
<1>9. CASE Crash
  <2>1. UNCHANGED <<job, waiting, wire, disp>> /\ crashes' = crashes + 1
        /\ run' = [w \in Workers |-> NoOne]
    BY <1>9 DEF Crash
  <2>2. JobsOK'  BY <2>1, JobsSame DEF JobInv
  <2>3. WireOK'  BY <2>1 DEF JobInv, WireOK
  <2>. QED  BY <2>2, <2>3 DEF JobInv
<1>10. CASE UNCHANGED jobVars
  <2>1. UNCHANGED <<job, waiting, wire, disp, run, crashes>>  BY <1>10 DEF jobVars
  <2>2. JobsOK'  BY <2>1, JobsSame DEF JobInv
  <2>. QED  BY <2>1, <2>2 DEF JobInv, WireOK
<1>. QED
  BY <1>1, <1>2, <1>3, <1>4, <1>5, <1>6, <1>7, <1>8, <1>9, <1>10
  DEF JobNext, Tick, DispatchStep, WorkerStep

LEMMA JobInvImplies == ASSUME JobInv PROVE QueueInv
<1>1. JobTypeOK
  BY DEF JobInv, JobsOK, WireOK, JobType, DispType, JobTypeOK
<1>2. ToSet(waiting) = Elems(waiting)  BY DEF ToSet, Elems
<1>3. QueueConsistent
  BY <1>2 DEF JobInv, JobsOK, Sound, Once, QueueConsistent
<1>4. RunsBounded
  <2> SUFFICES ASSUME NEW n \in Names PROVE job[n].runs <= 1 + MaxStalled
    BY DEF RunsBounded
  <2>1. job[n] \in JobType /\ Sound(job[n])  BY DEF JobInv, JobsOK
  <2>2. job[n].runs \in Nat /\ job[n].stalls \in Nat  BY <2>1 DEF JobType
  <2>. QED  BY <2>1, <2>2, NoOneAssumption, JobBoundsAssumption DEF Sound
<1>. QED  BY <1>1, <1>3, <1>4 DEF QueueInv

\* No interleaving of late commands, lapsed locks, stalls and crashes puts one
\* job id into the queue twice or runs one job more often than the stall
\* allowance, whatever the jobs, dispatches and Workers of the queue.
THEOREM QueueInvHolds == JobSpec => []QueueInv
<1>1. JobInit => JobInv  BY JobsInit
<1>2. JobInv /\ [JobNext]_jobVars => JobInv'  BY JobsStep
<1>3. JobInv => QueueInv  BY JobInvImplies
<1>. QED  BY <1>1, <1>2, <1>3, PTL DEF JobSpec
=============================================================================

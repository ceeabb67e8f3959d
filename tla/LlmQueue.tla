------------------------------ MODULE LlmQueue ------------------------------
(***************************************************************************)
(* The LLM caller (realityIndex/llmQueue.js, llmBreaker.js): in each       *)
(* process callJson checks the breaker, counts the call against the daily  *)
(* cap in the shared database and hands it to a serial priority queue,     *)
(* whose pump makes the request, retries transient errors and feeds the    *)
(* breaker.  The web, worker and scheduler processes share only the        *)
(* database.                                                               *)
(*                                                                         *)
(* A process is one JavaScript thread: between the SELECT and the INSERT   *)
(* of consumeLlmBudget nothing else of that process runs, but the other    *)
(* processes do.                                                           *)
(***************************************************************************)
EXTENDS Naturals, FiniteSets, FiniteSetsExt, Functions

CONSTANTS
  Procs,       \* processes that call callJson
  Prios,       \* priorities, the smallest is served first
  Cap,         \* LLM_DAILY_CALL_CAP
  Retries,     \* length of the retry backoff list
  Threshold,   \* consecutive hard failures that open the breaker
  Params,      \* request parameters a model may reject, dropped on a 400
  LastDay,     \* bound: UTC days
  MaxDbErrors, \* bound: failures of the counter's statements
  MaxRestarts  \* bound: process restarts

ASSUME ProcsAssumption == IsFiniteSet(Procs) /\ Procs # {}
ASSUME CapAssumption == Cap \in Nat
ASSUME BoundsAssumption ==
  /\ Prios \subseteq Nat /\ IsFiniteSet(Prios) /\ Retries \in Nat /\ Threshold \in Nat \ {0}
  /\ LastDay \in Nat \ {0} /\ MaxDbErrors \in Nat /\ MaxRestarts \in Nat

VARIABLES
  day,       \* the current UTC day
  calls,     \* calls[d]: the sum over tasks of llm_daily_calls for day d
  count,     \* count[p]: the call whose INSERT comes next, or NoCall
  queue,     \* queue[p][prio]: calls waiting in p's queue
  flight,    \* flight[p]: the call p's pump is working on, or NoCall
  breaker,   \* breaker[p]
  unhealthy, \* unhealthy[p]: a hard failure was reported, no success since
  dropped,   \* dropped[p]: parameters the model rejected in this process
  admitted,  \* calls that passed consumeLlmBudget
  usage,     \* llm_usage rows
  lost,      \* admitted calls that died with their process
  dbErrors, restarts

budgetVars == <<day, calls, count, dbErrors>>
pumpVars   == <<queue, flight, breaker, unhealthy, dropped, usage>>
vars == <<budgetVars, pumpVars, admitted, lost, restarts>>

Days   == 1 .. LastDay
NoCall == [day |-> 0, prio |-> 0, phase |-> "none", attempt |-> 0]
Closed == [fails |-> 0, open |-> FALSE, cooled |-> FALSE]

Waiting(p, prio) == [day |-> 0, prio |-> prio, phase |-> "wait", attempt |-> 0]

Calls == [day : {0} \cup Days, prio : {0} \cup Prios,
          phase : {"none", "insert", "wait", "sent"}, attempt : 0 .. Retries]

TypeOK ==
  /\ day \in Days
  /\ calls \in [Days -> Nat]
  /\ count \in [Procs -> Calls]
  /\ queue \in [Procs -> [Prios -> Nat]]
  /\ flight \in [Procs -> Calls]
  /\ breaker \in [Procs -> [fails : Nat, open : BOOLEAN, cooled : BOOLEAN]]
  /\ unhealthy \in [Procs -> BOOLEAN]
  /\ dropped \in [Procs -> SUBSET Params]
  /\ admitted \in Nat /\ usage \in Nat
  /\ dbErrors \in Nat /\ restarts \in Nat

Init ==
  /\ day = 1
  /\ calls = [d \in Days |-> 0]
  /\ count = [p \in Procs |-> NoCall]
  /\ queue = [p \in Procs |-> [prio \in Prios |-> 0]]
  /\ flight = [p \in Procs |-> NoCall]
  /\ breaker = [p \in Procs |-> Closed]
  /\ unhealthy = [p \in Procs |-> FALSE]
  /\ dropped = [p \in Procs |-> {}]
  /\ admitted = 0 /\ usage = 0 /\ lost = 0 /\ dbErrors = 0 /\ restarts = 0

-----------------------------------------------------------------------------
(* callJson: breaker, budget, queue.                                       *)

IsOpen(p) == breaker[p].open /\ ~breaker[p].cooled

\* p's thread is between two statements of consumeLlmBudget.
Busy(p) == count[p] # NoCall

\* enqueue: an idle pump takes the call up at once.
Enqueue(p, prio) ==
  /\ IF flight[p] = NoCall
     THEN flight' = [flight EXCEPT ![p] = Waiting(p, prio)] /\ UNCHANGED queue
     ELSE queue' = [queue EXCEPT ![p][prio] = @ + 1] /\ UNCHANGED flight
  /\ admitted' = admitted + 1
  /\ UNCHANGED <<breaker, unhealthy, dropped, usage, lost, restarts>>

\* Mutant: the comparison with the cap lets one call more through.
CheckBudgetOffByOne(p, prio) ==
  /\ ~Busy(p) /\ ~IsOpen(p)
  /\ calls[day] <= Cap
  /\ count' = [count EXCEPT ![p] =
                 [day |-> day, prio |-> prio, phase |-> "insert", attempt |-> 0]]
  /\ UNCHANGED <<day, calls, dbErrors, pumpVars, admitted, lost, restarts>>

\* The SELECT of consumeLlmBudget finds room; the day is read once.
CheckBudget(p, prio) ==
  /\ ~Busy(p) /\ ~IsOpen(p)
  /\ calls[day] < Cap
  /\ count' = [count EXCEPT ![p] =
                 [day |-> day, prio |-> prio, phase |-> "insert", attempt |-> 0]]
  /\ UNCHANGED <<day, calls, dbErrors, pumpVars, admitted, lost, restarts>>

\* The INSERT ... ON CONFLICT DO UPDATE, and the call is let through.
CountCall(p) ==
  /\ Busy(p)
  /\ calls' = [calls EXCEPT ![count[p].day] = @ + 1]
  /\ count' = [count EXCEPT ![p] = NoCall]
  /\ Enqueue(p, count[p].prio)
  /\ UNCHANGED <<day, dbErrors>>

\* Fail-open: either statement throws and the call is let through uncounted.
CountFails(p, prio) ==
  /\ ~IsOpen(p)
  /\ Busy(p) => count[p].prio = prio
  /\ dbErrors < MaxDbErrors
  /\ dbErrors' = dbErrors + 1
  /\ count' = [count EXCEPT ![p] = NoCall]
  /\ Enqueue(p, prio)
  /\ UNCHANGED <<day, calls>>

-----------------------------------------------------------------------------
(* The pump and rawCallAnthropic's attempts.                               *)

\* The call that leaves the queue: best priority, oldest first.
NextPrio(p) == CHOOSE i \in Prios : queue[p][i] > 0 /\ \A k \in Prios : queue[p][k] > 0 => i <= k

\* Mutant: the pump peeks instead of shifting.
SettlePeeks(p) ==
  /\ usage' = usage + 1
  /\ flight' = [flight EXCEPT ![p] = IF \A i \in Prios : queue[p][i] = 0 THEN NoCall
                                    ELSE Waiting(p, NextPrio(p))]
  /\ UNCHANGED queue

\* p's call ends with a usage row and the pump shifts the next one.
Settle(p) ==
  /\ usage' = usage + 1
  /\ IF \A i \in Prios : queue[p][i] = 0
     THEN flight' = [flight EXCEPT ![p] = NoCall] /\ UNCHANGED queue
     ELSE /\ flight' = [flight EXCEPT ![p] = Waiting(p, NextPrio(p))]
          /\ queue' = [queue EXCEPT ![p][NextPrio(p)] = @ - 1]

\* The request goes out, after the wait for an RPM slot or the retry backoff.
Send(p) ==
  /\ ~Busy(p) /\ flight[p].phase = "wait"
  /\ flight' = [flight EXCEPT ![p].phase = "sent"]
  /\ UNCHANGED <<budgetVars, queue, breaker, unhealthy, dropped, usage, admitted, lost, restarts>>

Answered(p) == ~Busy(p) /\ flight[p].phase = "sent"

\* Mutant: a success leaves the breaker as it is.
SucceedsKeepsBreaker(p) ==
  /\ Answered(p)
  /\ unhealthy' = [unhealthy EXCEPT ![p] = FALSE]
  /\ Settle(p)
  /\ UNCHANGED <<budgetVars, breaker, dropped, admitted, lost, restarts>>

\* onSuccess: the breaker closes, whoever the call was.
Succeeds(p) ==
  /\ Answered(p)
  /\ breaker' = [breaker EXCEPT ![p] = Closed]
  /\ unhealthy' = [unhealthy EXCEPT ![p] = FALSE]
  /\ Settle(p)
  /\ UNCHANGED <<budgetVars, dropped, admitted, lost, restarts>>

\* Refusals, empty texts and errors that are neither transient nor hard.
FailsSoftly(p) ==
  /\ Answered(p)
  /\ Settle(p)
  /\ UNCHANGED <<budgetVars, breaker, unhealthy, dropped, admitted, lost, restarts>>

\* recordHardFailure: open at the threshold, re-open for a new cooldown.
\* The model counts failures up to the threshold only, where they stop mattering.
AfterHardFailure(b) ==
  IF b.open \/ b.fails + 1 >= Threshold
  THEN [fails |-> Threshold, open |-> TRUE, cooled |-> FALSE]
  ELSE [b EXCEPT !.fails = @ + 1]

FailsHard(p) ==
  /\ Answered(p)
  /\ breaker' = [breaker EXCEPT ![p] = AfterHardFailure(@)]
  /\ unhealthy' = [unhealthy EXCEPT ![p] = TRUE]
  /\ Settle(p)
  /\ UNCHANGED <<budgetVars, dropped, admitted, lost, restarts>>

\* Mutant: retries without end.
FailsTransientlyForEver(p) ==
  /\ Answered(p)
  /\ flight' = [flight EXCEPT ![p].phase = "wait"]
  /\ UNCHANGED <<budgetVars, queue, breaker, unhealthy, dropped, usage, admitted, lost, restarts>>

\* A transient error is retried until the backoff list is used up.
FailsTransiently(p) ==
  /\ Answered(p)
  /\ IF flight[p].attempt < Retries
     THEN /\ flight' = [flight EXCEPT ![p].phase = "wait", ![p].attempt = @ + 1]
          /\ UNCHANGED <<queue, usage>>
     ELSE Settle(p)
  /\ UNCHANGED <<budgetVars, breaker, unhealthy, dropped, admitted, lost, restarts>>

\* The model rejects a parameter: it is dropped for the process and the attempt
\* repeated without costing a retry.
RejectsParam(p, param) ==
  /\ Answered(p)
  /\ param \notin dropped[p]
  /\ dropped' = [dropped EXCEPT ![p] = @ \cup {param}]
  /\ flight' = [flight EXCEPT ![p].phase = "wait"]
  /\ UNCHANGED <<budgetVars, queue, breaker, unhealthy, usage, admitted, lost, restarts>>

Answer(p) ==
  \/ Succeeds(p) \/ FailsSoftly(p) \/ FailsHard(p) \/ FailsTransiently(p)
  \/ \E param \in Params : RejectsParam(p, param)

-----------------------------------------------------------------------------
(* The environment.                                                        *)

CooldownEnds(p) ==
  /\ IsOpen(p)
  /\ breaker' = [breaker EXCEPT ![p].cooled = TRUE]
  /\ UNCHANGED <<budgetVars, queue, flight, unhealthy, dropped, usage, admitted, lost, restarts>>

Midnight ==
  /\ day < LastDay
  /\ day' = day + 1
  /\ UNCHANGED <<calls, count, dbErrors, pumpVars, admitted, lost, restarts>>

\* Calls in p's memory: in the queue and with the pump.
InMemory(p) == SumFunction(queue[p]) + (IF flight[p] = NoCall THEN 0 ELSE 1)

\* The process dies and starts again: only the database survives.
Restart(p) ==
  /\ restarts < MaxRestarts
  /\ restarts' = restarts + 1
  /\ lost' = lost + InMemory(p)
  /\ count' = [count EXCEPT ![p] = NoCall]
  /\ queue' = [queue EXCEPT ![p] = [prio \in Prios |-> 0]]
  /\ flight' = [flight EXCEPT ![p] = NoCall]
  /\ breaker' = [breaker EXCEPT ![p] = Closed]
  /\ unhealthy' = [unhealthy EXCEPT ![p] = FALSE]
  /\ dropped' = [dropped EXCEPT ![p] = {}]
  /\ UNCHANGED <<day, calls, dbErrors, admitted, usage>>

-----------------------------------------------------------------------------
CallJson(p) == CountCall(p) \/ \E prio \in Prios : CheckBudget(p, prio) \/ CountFails(p, prio)

Next ==
  \/ \E p \in Procs : CallJson(p) \/ Send(p) \/ Answer(p) \/ CooldownEnds(p) \/ Restart(p)
  \/ Midnight

Spec == Init /\ [][Next]_vars

\* A process runs its own statements and its pump, every request ends (it has a
\* timeout) and transient errors are not endless within one call (Retries).
FairSpec ==
  /\ Spec
  /\ \A p \in Procs : WF_vars(CountCall(p)) /\ WF_vars(Send(p)) /\ WF_vars(Answer(p))

-----------------------------------------------------------------------------
(* Properties.                                                             *)

\* SELECT and INSERT are two statements of several processes, so the daily cap
\* can be overshot, but never by more than one call per other process, however
\* calls, midnights and restarts interleave.
CapOvershoot == \A d \in Days : calls[d] <= Cap + Cardinality(Procs) - 1

\* A restart does not reset the count (llmQueue.js, the budget section), nor
\* does midnight: what a day has counted stays counted.
CountPersists == [][\A d \in Days : calls'[d] >= calls[d]]_vars

\* Every admitted call is queued, being worked on, settled with exactly one
\* usage row, or died with its process: the pump drops and repeats none.
NoCallDropped ==
  admitted = usage + lost + MapThenSumSet(InMemory, Procs)

\* A breaker that is open has a failure behind it that no success has cleared.
BreakerJustified ==
  \A p \in Procs : breaker[p].open => unhealthy[p] /\ breaker[p].fails >= Threshold

\* Every call that is queued or in flight ends, whatever mix of transient
\* errors and rejected parameters it meets.
PumpDrains == \A p \in Procs : []<>(flight[p] = NoCall)

-----------------------------------------------------------------------------
(* A statement of the code's comments, true of a single process only.      *)

\* "A hard global ceiling on generation calls per UTC day, across every task."
HardCeiling == \A d \in Days : calls[d] <= Cap
=============================================================================

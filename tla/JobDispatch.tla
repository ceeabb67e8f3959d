---------------------------- MODULE JobDispatch ----------------------------
(***************************************************************************)
(* The scheduler's dispatch of singleton cycle jobs and the BullMQ queue   *)
(* and Workers that run them (jobs/queues.js, jobs/workerProcess.js,       *)
(* services/scheduler.js runDispatch).                                     *)
(*                                                                         *)
(* A dispatch is four Redis round trips, getJob, getState, remove and add, *)
(* each raced against a deadline.  The command behind a lost race cannot   *)
(* be cancelled, so it stays on the connection and may land later.  Redis  *)
(* answers one connection in order, which is why the wire is a sequence.   *)
(*                                                                         *)
(* job.timestamp is compared with the caller's enqueuedAt only, so a job   *)
(* carries the set of dispatches that had started when it was created      *)
(* instead of a clock reading.                                             *)
(*                                                                         *)
(* QueueProofs extends this module and LlmQueue: no name is in both.       *)
(***************************************************************************)
EXTENDS Naturals, Sequences, FiniteSets, SequencesExt

CONSTANTS
  Names,       \* names of the jobs that share one queue; each has one job id
  Dispatches,  \* runDispatch calls that may be in progress at once
  Workers,     \* BullMQ Workers registered on the queue, concurrency 1 each
  MaxStalled,  \* BullMQ's maxStalledCount
  MaxWire,     \* bound: a dispatch starts only below this many commands
  MaxCrashes,  \* bound: worker-process crashes
  NoOne        \* no dispatch, no worker, no job

ASSUME NoOneAssumption == NoOne \notin Dispatches \cup Workers \cup Names
ASSUME JobBoundsAssumption ==
  MaxStalled \in Nat /\ MaxWire \in Nat /\ MaxCrashes \in Nat

VARIABLES
  job,      \* job[n]: the hash behind n's singleton job id
  waiting,  \* the wait list, oldest first
  wire,     \* commands on the producer connection, oldest first
  disp,     \* disp[d]: step, job name and last outcome of a dispatch
  run,      \* run[w]: the job that Worker w is executing, or NoOne
  crashes

jobVars == <<job, waiting, wire, disp, run, crashes>>

JobStates == {"none", "waiting", "active", "completed", "failed", "unknown"}
Steps     == {"getJob", "getState", "remove", "add"}
Outcomes  == {"none", "enqueued", "held", "noop", "timeout", "failed"}

NoJob == [state |-> "none", after |-> {}, lock |-> NoOne, stalls |-> 0, runs |-> 0]

Commands == [by : Dispatches \cup {NoOne}, op : Steps, name : Names,
             after : SUBSET Dispatches]

JobTypeOK ==
  /\ job \in [Names -> [state : JobStates, after : SUBSET Dispatches,
                        lock : Workers \cup {NoOne}, stalls : Nat, runs : Nat]]
  /\ waiting \in Seq(Names)
  /\ wire \in Seq(Commands)
  /\ disp \in [Dispatches -> [pc : Steps \cup {"idle"}, name : Names,
                              outcome : Outcomes]]
  /\ run \in [Workers -> Names \cup {NoOne}]
  /\ crashes \in Nat

JobInit ==
  /\ job \in [Names -> {NoJob, [NoJob EXCEPT !.state = "completed"],
                               [NoJob EXCEPT !.state = "unknown"]}]
  /\ waiting = <<>>
  /\ wire = <<>>
  /\ disp \in [Dispatches -> [pc : {"idle"}, name : Names, outcome : {"none"}]]
  /\ run = [w \in Workers |-> NoOne]
  /\ crashes = 0

-----------------------------------------------------------------------------
(* The dispatch.                                                           *)

InProgress == {d \in Dispatches : disp[d].pc # "idle"}

\* Mutant: the rule before the fix, which cleared terminal states only.
DedupHoldsUnknown == {"active", "waiting", "unknown"}

\* States in which an existing singleton blocks a new one.
DedupHoldingStates == {"active"}

\* The command a dispatch sends; add stamps the new job's timestamp now.
Command(d, op, n) ==
  [by |-> d, op |-> op, name |-> n,
   after |-> IF op = "add" THEN InProgress ELSE {}]

Ends(d, outcome) == disp' = [disp EXCEPT ![d].pc = "idle", ![d].outcome = outcome]

\* d moves on to its next round trip; rest is the wire without the last one.
Sends(d, op, rest) ==
  /\ disp' = [disp EXCEPT ![d].pc = op]
  /\ wire' = Append(rest, Command(d, op, disp[d].name))

\* enqueuedAt is read here: nothing created earlier counts as this call's.
Begin(d, n) ==
  /\ disp[d].pc = "idle"
  /\ Len(wire) < MaxWire
  /\ disp' = [disp EXCEPT ![d] = [pc |-> "getJob", name |-> n, outcome |-> "none"]]
  /\ job' = [m \in Names |-> [job[m] EXCEPT !.after = @ \ {d}]]
  /\ wire' = Append([i \in DOMAIN wire |-> [wire[i] EXCEPT !.after = @ \ {d}]],
                    Command(d, "getJob", n))
  /\ UNCHANGED <<waiting, run, crashes>>

\* A rejected or timed-out remove is caught and the add goes out all the same;
\* any other step that rejects ends the dispatch.
StepRejected(d, outcome, rest) ==
  IF disp[d].pc = "remove"
  THEN Sends(d, "add", rest)
  ELSE Ends(d, outcome) /\ wire' = rest

\* Mutant: getState is awaited without a deadline.
TimeoutNotOnGetState(d) ==
  /\ disp[d].pc \notin {"idle", "getState"}
  /\ StepRejected(d, "timeout",
       [i \in DOMAIN wire |-> IF wire[i].by = d THEN [wire[i] EXCEPT !.by = NoOne]
                                                ELSE wire[i]])
  /\ UNCHANGED <<job, waiting, run, crashes>>

\* The deadline wins the race: the command stays on the wire, owned by nobody.
Timeout(d) ==
  /\ disp[d].pc # "idle"
  /\ StepRejected(d, "timeout",
       [i \in DOMAIN wire |-> IF wire[i].by = d THEN [wire[i] EXCEPT !.by = NoOne]
                                                ELSE wire[i]])
  /\ UNCHANGED <<job, waiting, run, crashes>>

\* The connection drops the oldest command unexecuted.
Reject ==
  /\ wire # <<>>
  /\ LET d == Head(wire).by
     IN  IF d = NoOne THEN wire' = Tail(wire) /\ UNCHANGED disp
                      ELSE StepRejected(d, "failed", Tail(wire))
  /\ UNCHANGED <<job, waiting, run, crashes>>

-----------------------------------------------------------------------------
(* Redis executes the oldest command and its caller, if any is still       *)
(* waiting for it, reads the reply.                                        *)

DeliverGetJob(c) ==
  /\ c.op = "getJob"
  /\ IF c.by = NoOne
     THEN wire' = Tail(wire) /\ UNCHANGED disp
     ELSE Sends(c.by, IF job[c.name].state = "none" THEN "add" ELSE "getState", Tail(wire))
  /\ UNCHANGED <<job, waiting>>

DeliverGetState(c) ==
  /\ c.op = "getState"
  /\ CASE c.by = NoOne -> wire' = Tail(wire) /\ UNCHANGED disp
       [] c.by # NoOne /\ job[c.name].state \in DedupHoldingStates ->
            wire' = Tail(wire) /\ Ends(c.by, "held")
       [] OTHER -> Sends(c.by, "remove", Tail(wire))
  /\ UNCHANGED <<job, waiting>>

\* A job whose lock a worker holds cannot be removed.  Another is taken off the
\* list, which holds an id at most once (QueueConsistent).
DeliverRemove(c) ==
  /\ c.op = "remove"
  /\ IF job[c.name].lock = NoOne
     THEN /\ job' = [job EXCEPT ![c.name] = NoJob]
          /\ waiting' = RemoveFirst(waiting, c.name)
     ELSE UNCHANGED <<job, waiting>>
  /\ IF c.by = NoOne THEN wire' = Tail(wire) /\ UNCHANGED disp
                     ELSE Sends(c.by, "add", Tail(wire))

\* Mutant: whatever add returns is taken for a new job.
AddAlwaysEnqueued(d, j) == "enqueued"

\* The freshness check: a job created before this call began is not this call's.
AddOutcome(d, j) == IF d \in j.after THEN "enqueued" ELSE "noop"

\* A duplicate id is not an error: add hands back the job that is there.
DeliverAdd(c) ==
  /\ c.op = "add"
  /\ IF job[c.name].state = "none"
     THEN /\ job' = [job EXCEPT ![c.name] =
                       [NoJob EXCEPT !.state = "waiting", !.after = c.after]]
          /\ waiting' = Append(waiting, c.name)
     ELSE UNCHANGED <<job, waiting>>
  /\ IF c.by = NoOne THEN UNCHANGED disp
                     ELSE Ends(c.by, AddOutcome(c.by, job'[c.name]))
  /\ wire' = Tail(wire)

Deliver ==
  /\ wire # <<>>
  /\ LET c == Head(wire)
     IN  DeliverGetJob(c) \/ DeliverGetState(c) \/ DeliverRemove(c) \/ DeliverAdd(c)
  /\ UNCHANGED <<run, crashes>>

-----------------------------------------------------------------------------
(* The Workers.                                                            *)

Fetch(w) ==
  /\ run[w] = NoOne
  /\ waiting # <<>>
  /\ LET n == Head(waiting)
     IN  /\ job' = [job EXCEPT ![n].state = "active", ![n].lock = w, ![n].runs = @ + 1]
         /\ run' = [run EXCEPT ![w] = n]
  /\ waiting' = Tail(waiting)
  /\ UNCHANGED <<wire, disp, crashes>>

\* Mutant: a finished job keeps its lock.
FinishedKeepsLock(j, result) == [j EXCEPT !.state = result]

\* What becomes of a job whose processor returned or threw: attempts is 1.
Finished(j, result) == [j EXCEPT !.state = result, !.lock = NoOne]

\* Without the lock moveToFinished fails and the job is left where it is.
Finish(w) ==
  /\ run[w] # NoOne
  /\ LET n == run[w]
     IN  IF job[n].lock = w
         THEN \E result \in {"completed", "failed"} :
                job' = [job EXCEPT ![n] = Finished(@, result)]
         ELSE UNCHANGED job
  /\ run' = [run EXCEPT ![w] = NoOne]
  /\ UNCHANGED <<waiting, wire, disp, crashes>>

\* The lock lapses: its holder is gone, or a synchronous cycle kept the
\* renewal timer from firing.
LoseLock(n) ==
  /\ job[n].state = "active" /\ job[n].lock # NoOne
  /\ job' = [job EXCEPT ![n].lock = NoOne]
  /\ UNCHANGED <<waiting, wire, disp, run, crashes>>

\* The holder is not running the job any more, so nothing renews its lock.
Orphaned(n) == job[n].lock # NoOne /\ run[job[n].lock] # n
ExpireLock(n) == Orphaned(n) /\ LoseLock(n)

\* The stalled check: back to the front of the queue once, then failed.
StallCheck(n) ==
  /\ job[n].state = "active" /\ job[n].lock = NoOne
  /\ IF job[n].stalls < MaxStalled
     THEN /\ job' = [job EXCEPT ![n].state = "waiting", ![n].stalls = @ + 1]
          /\ waiting' = <<n>> \o waiting
     ELSE /\ job' = [job EXCEPT ![n].state = "failed"]
          /\ UNCHANGED waiting
  /\ UNCHANGED <<wire, disp, run, crashes>>

\* The worker process dies and restarts; its locks outlive it.
Crash ==
  /\ crashes < MaxCrashes
  /\ crashes' = crashes + 1
  /\ run' = [w \in Workers |-> NoOne]
  /\ UNCHANGED <<job, waiting, wire, disp>>

-----------------------------------------------------------------------------
DispatchStep == Deliver \/ Reject \/ \E d \in Dispatches : Timeout(d)
WorkerStep ==
  \/ \E w \in Workers : Fetch(w) \/ Finish(w)
  \/ \E n \in Names : LoseLock(n) \/ StallCheck(n)
  \/ Crash
Tick == \E d \in Dispatches, n \in Names : Begin(d, n)
JobNext == Tick \/ DispatchStep \/ WorkerStep

JobSpec == JobInit /\ [][JobNext]_jobVars

\* The deadline timers fire and the worker process makes progress.  A Worker
\* blocks on the wait list, so a job offered again and again is fetched.
\* Nothing is assumed of Redis' answers or of the cron.
Fairness ==
  /\ \A d \in Dispatches : WF_jobVars(Timeout(d))
  /\ \A w \in Workers : SF_jobVars(Fetch(w)) /\ WF_jobVars(Finish(w))
  /\ \A n \in Names : WF_jobVars(ExpireLock(n)) /\ WF_jobVars(StallCheck(n))

FairJobSpec == JobSpec /\ Fairness

\* From some point on Redis answers within the deadline, and the cron ticks.
RedisHealthy ==
  /\ <>[][~Reject /\ \A d \in Dispatches : ~Timeout(d)]_jobVars
  /\ WF_jobVars(Deliver)
  /\ \A n \in Names : []<><<\E d \in Dispatches : Begin(d, n)>>_jobVars

-----------------------------------------------------------------------------
(* Properties.                                                             *)

\* The wait list holds each waiting singleton once and nothing else, and a
\* locked job is an active one: no interleaving of late commands, stalls and
\* fetches puts one job id in the queue twice (the singleton ids of JOB_IDS).
QueueConsistent ==
  /\ \A i, k \in DOMAIN waiting : waiting[i] = waiting[k] => i = k
  /\ ToSet(waiting) = {n \in Names : job[n].state = "waiting"}
  /\ \A n \in Names : job[n].lock # NoOne => job[n].state = "active"

\* One enqueued job starts at most once more than BullMQ's stall allowance,
\* whatever fails or lapses: attempts is 1, so a cycle that threw is never
\* retried into a second post or film.
RunsBounded == \A n \in Names : job[n].runs <= 1 + MaxStalled

\* The three together, in whatever order late commands, stalls and crashes come.
QueueInv == JobTypeOK /\ QueueConsistent /\ RunsBounded

\* Every dispatch settles, even when Redis never answers: the hang that took
\* ingestion down without a log line cannot recur.
DispatchSettles == \A d \in Dispatches : (disp[d].pc # "idle") ~> (disp[d].pc = "idle")

\* A dispatch that reported "Enqueued" is followed by a run of its job, unless
\* it is dispatched again or another dispatch of the job fails halfway, having
\* cleared it.  The freshness check is what keeps a dead singleton from being
\* reported as enqueued.
Enqueued(d) == disp[d].pc = "idle" /\ disp[d].outcome = "enqueued"
Superseded(d) ==
  \/ disp[d].pc # "idle"
  \/ \E e \in Dispatches : disp[e].name = disp[d].name /\ disp[e].outcome \in {"timeout", "failed"}
EnqueuedRuns ==
  \A d \in Dispatches :
    Enqueued(d) ~> (Superseded(d) \/ job[disp[d].name].runs > 0)

\* A dispatch ends, and what it reported then holds.
DispatchKept == DispatchSettles /\ EnqueuedRuns

\* Once Redis answers and as long as the cron ticks, no job id is dead for ever:
\* from whatever state its key is in, each singleton keeps being run.
NoDeadSingleton ==
  RedisHealthy => \A n \in Names : []<>(job[n].state = "active")

=============================================================================

------------------------------- MODULE Push --------------------------------
(* Web push.  A broadcast takes the best story nobody was told of to every   *)
(* device (breakingNewsPusher.js): the worker starts one behind each         *)
(* ingestion and does not wait for it, an administrator starts one in the    *)
(* web process.  The dispatcher takes an alert on an event to the devices    *)
(* of the users who watch it (watchlistPushDispatcher.js), every quarter of  *)
(* an hour, in the web process, under a flag.                                *)
(*                                                                           *)
(* Both list the devices, send to them a slice at a time, count what comes   *)
(* back (pushService.js) and write down at the end that the message is out.  *)
(* An answer is two statements, the count and the verdict; the processes     *)
(* share the rows, so that anything may come between them.                   *)
EXTENDS Integers, FiniteSets

CONSTANTS
    Devices, Articles, Alerts, Users,
    Owner,          \* Owner[d]: the user a device belongs to
    Follows,        \* Follows[d]: stories on the topics of a device
    Slice,          \* concurrency
    MaxFailures,    \* MAX_CONSECUTIVE_FAILURES
    Window,         \* LOOKBACK_MS, in runs of the dispatcher
    MaxFaults,      \* bound: deaths, failed writes, late runs
    Casts,          \* bound: the devices and messages one behaviour may have
    None

ASSUME NumbersAssumption ==
    /\ Slice \in Nat \ {0} /\ MaxFailures \in Nat \ {0}
    /\ Window \in Nat \ {0} /\ MaxFaults \in Nat
ASSUME OwnerAssumption ==
    Owner \in [Devices -> Users] /\ Follows \in [Devices -> SUBSET Articles]
ASSUME NoneAssumption == None \notin Nat \cup Articles \cup Alerts \cup Users
ASSUME MessagesAssumption == Articles \cap Alerts = {}

\* The story of the worker, of the administrator; the dispatcher.
Broadcasts == {"ingest", "admin"}
Runs       == Broadcasts \cup {"watch"}
Processes  == {{"ingest"}, {"admin", "watch"}}    \* the worker, the web process
Messages   == Articles \cup Alerts
Items      == Messages \X Devices

VARIABLES
    sub,        \* sub[d]: the row in push_subscriptions
    age,        \* age[m]: runs of the dispatcher since; None: no message
    pushed,     \* the rows of pushed_articles and pushed_anomalies
    run,        \* run[r], or Off
    agenda,     \* alerts the dispatcher has still to look at
    list,       \* devices it has listed for its alert and still to come to
    got, slack, \* history: see Outbox
    streak,     \* history: failures in a row since d was reached or subscribed
    crossed,    \* history: verdicts that something else came before
    reach,      \* history: who has had a device ever since the alert
    faults,
    cast        \* the one of Casts

vars == <<sub, age, pushed, run, agenda, list, got, slack, streak, crossed, reach, faults, cast>>
rows    == <<sub, streak, reach>>
history == <<got, slack, streak, crossed, reach>>

Off   == [msg |-> None, who |-> None, todo |-> {}, wait |-> {}, doomed |-> {}]
NoSub == [known |-> FALSE, active |-> FALSE, failures |-> 0]

Active == {d \in Devices : sub[d].active}
Of(who) == {d \in Devices : Owner[d] \in who}
Busy(r) == run[r].msg # None
Held(m) == m \in agenda \/ \E r \in Runs : run[r].msg = m

Init ==
    /\ sub = [d \in Devices |-> NoSub]
    /\ age = [m \in Messages |-> None] /\ pushed = {}
    /\ run = [r \in Runs |-> Off] /\ agenda = {} /\ list = {}
    /\ got = [i \in Items |-> 0] /\ slack = [i \in Items |-> 0]
    /\ streak = [d \in Devices |-> 0] /\ crossed = {} /\ reach = {}
    /\ faults = 0 /\ cast \in Casts

Fault == faults < MaxFaults /\ faults' = faults + 1

-----------------------------------------------------------------------------
(* The rows.                                                                 *)

\* A write to the row of d, and who still has a device behind it.
Put(d, r) ==
    /\ sub' = [sub EXCEPT ![d] = r]
    /\ reach' = {p \in reach : \E e \in Of({p[2]}) : sub'[e].active}

\* d is as good as new, whatever is about to be said of it.
Overtakes(d) ==
    crossed' = crossed \cup {<<r, d>> : r \in {x \in Runs : d \in run[x].doomed}}

Upserted     == [known |-> TRUE, active |-> TRUE, failures |-> 0]

\* POST /subscribe
Subscribe(d) ==
    /\ d \in cast.devices
    /\ Put(d, Upserted)
    /\ streak' = [streak EXCEPT ![d] = 0]
    /\ Overtakes(d)
    /\ UNCHANGED <<age, pushed, run, agenda, list, got, slack, faults, cast>>

Unsubscribe(d) ==
    /\ sub[d].known
    /\ Put(d, NoSub)
    /\ UNCHANGED <<age, pushed, run, agenda, list, got, slack, streak, crossed, faults, cast>>

-----------------------------------------------------------------------------
(* A run.                                                                    *)

\* Whoever another run has listed for the same message is listed again.
Doubled(m, listed) ==
    slack' = [i \in Items |->
                 IF i[1] = m /\ i[2] \in listed /\ \E r \in Runs : run[r].msg = m THEN slack[i] + 1 ELSE slack[i]]

Unrecorded(m) == age[m] # None /\ <<m, None>> \notin pushed

\* One story; with nobody to tell it is written down at once.
Broadcast(r, m) ==
    LET listed == {d \in Active : m \in Follows[d]}
    IN  /\ ~Busy(r) /\ Unrecorded(m)
        /\ IF listed = {} THEN pushed' = pushed \cup {<<m, None>>} /\ UNCHANGED <<run, slack, cast>>
           ELSE /\ run' = [run EXCEPT ![r] = [Off EXCEPT !.msg = m, !.todo = listed]]
                /\ Doubled(m, listed)
                /\ UNCHANGED pushed
        /\ UNCHANGED <<sub, age, agenda, list, got, streak, crossed, reach, faults, cast>>

\* Users this alert has not been recorded for.  Mutant: everybody.
FreshAll(n) == Users
Fresh(n) == {u \in Users : <<n, u>> \notin pushed}

\* The cron of the dispatcher.  A quarter that finds it at work is skipped.
Idle == agenda = {} /\ ~Busy("watch")

\* Mutant: an alert is looked at once.
RecentOnce(n) == age[n] = 0
\* Younger than LOOKBACK_MS, which is twice the cron's period.
Recent(n) == age[n] # None /\ age[n] < Window

\* Messages that are no longer news; another may come in the place of each.
Leave(gone) ==
    /\ \A m \in gone : ~Held(m)
    /\ pushed' = {p \in pushed : p[1] \notin gone}
    /\ reach' = {p \in reach : p[1] \notin gone}
    /\ got' = [i \in Items |-> IF i[1] \in gone THEN 0 ELSE got[i]]
    /\ slack' = [i \in Items |-> IF i[1] \in gone THEN 0 ELSE slack[i]]

Quarter ==
    /\ IF Idle THEN UNCHANGED faults ELSE Fault
    /\ agenda' = IF Idle THEN {n \in Alerts : Recent(n)} ELSE agenda
    /\ Leave({n \in Alerts : age[n] = Window})
    /\ age' = [m \in Messages |->
                 IF m \in Articles \/ age[m] = None THEN age[m]
                 ELSE IF age[m] < Window THEN age[m] + 1 ELSE None]
    /\ UNCHANGED <<sub, run, list, streak, crossed, cast>>

\* Users without a device are marked, but only when nobody else is left; they
\* wait for the next quarter otherwise.
Dispatch(n) ==
    LET listed == Of(Fresh(n)) \cap Active
    IN  /\ n \in agenda /\ ~Busy("watch")
        /\ agenda' = agenda \ {n}
        /\ list' = listed
        /\ pushed' = IF listed = {} THEN pushed \cup ({n} \X Fresh(n)) ELSE pushed
        /\ run' = [run EXCEPT !["watch"].msg = IF listed = {} THEN None ELSE n]
        /\ UNCHANGED <<sub, age, history, faults, cast>>

\* The devices of one user after those of the other.
NextUser ==
    LET w == run["watch"]
    IN  /\ w.msg # None /\ w.who = None
        /\ \E d \in list :
             /\ run' = [run EXCEPT !["watch"] =
                          [@ EXCEPT !.who = Owner[d], !.todo = list \cap Of({Owner[d]})]]
             /\ list' = list \ Of({Owner[d]})
        /\ UNCHANGED <<sub, age, pushed, agenda, history, faults, cast>>

-----------------------------------------------------------------------------
(* Sending.                                                                  *)

NextSlice(r) ==
    /\ run[r].wait = {} /\ run[r].doomed = {} /\ run[r].todo # {}
    /\ \E slice \in SUBSET run[r].todo :
         /\ slice # {} /\ Cardinality(slice) <= Slice
         /\ Cardinality(slice) = Slice \/ slice = run[r].todo
         /\ run' = [run EXCEPT ![r].todo = @ \ slice, ![r].wait = slice]
    /\ UNCHANGED <<sub, age, pushed, agenda, list, history, faults, cast>>

Reached(items) == got' = [i \in Items |-> IF i \in items THEN got[i] + 1 ELSE got[i]]

\* Mutant: a success does not start the count again.
OnceMore(row) == row
\* failure_count after a success
StartOver(row) == [row EXCEPT !.failures = 0]

\* markPushSent(endpoint, true).  A row that is gone stays gone, one that was
\* switched off stays off.
Accepted(r, d) ==
    /\ d \in run[r].wait
    /\ run' = [run EXCEPT ![r].wait = @ \ {d}]
    /\ Put(d, StartOver(sub[d]))
    /\ Reached({<<run[r].msg, d>>})
    /\ streak' = [streak EXCEPT ![d] = 0]
    /\ Overtakes(d)
    /\ UNCHANGED <<age, pushed, agenda, list, slack, faults, cast>>

\* Counted as far as the verdict asks.
OneMore(failures) == IF failures < MaxFailures THEN failures + 1 ELSE failures

\* Mutant: only 404 and 410 switch a device off.
GoneOnly(failures, gone) == gone
Verdict(failures, gone) == gone \/ failures >= MaxFailures

\* markPushSent(endpoint, false).  The gateway says that the device is gone, or
\* anything else, or nothing in time: then it may have been reached.
Failed(r, d, gone, reached) ==
    LET failures == IF sub[d].known THEN OneMore(sub[d].failures) ELSE 0
    IN  /\ d \in run[r].wait
        /\ ~(gone /\ reached)
        /\ run' = [run EXCEPT ![r].wait = @ \ {d},
                              ![r].doomed = IF Verdict(failures, gone) THEN @ \cup {d} ELSE @]
        /\ Put(d, [sub[d] EXCEPT !.failures = failures])
        /\ Reached(IF reached THEN {<<run[r].msg, d>>} ELSE {})
        /\ streak' = [streak EXCEPT ![d] =
                        IF gone THEN MaxFailures ELSE OneMore(@)]
        /\ UNCHANGED <<age, pushed, agenda, list, slack, crossed, faults, cast>>

\* disablePushSubscription
Disable(r, d) ==
    /\ d \in run[r].doomed
    /\ run' = [run EXCEPT ![r].doomed = @ \ {d}]
    /\ Put(d, [sub[d] EXCEPT !.active = FALSE])
    /\ crossed' = crossed \ {<<r, d>>}
    /\ UNCHANGED <<age, pushed, agenda, list, got, slack, streak, faults, cast>>

\* The run goes on to its next user or is over.
Through(r) ==
    /\ run[r].todo = {} /\ run[r].wait = {} /\ run[r].doomed = {} /\ Busy(r)
    /\ r = "watch" => run[r].who # None
    /\ run' = [run EXCEPT ![r] =
                 IF r = "watch" /\ list # {} THEN [Off EXCEPT !.msg = run[r].msg] ELSE Off]

\* recordArticlePush, insertPushed
Record(r) ==
    /\ Through(r)
    /\ pushed' = pushed \cup {<<run[r].msg, run[r].who>>}
    /\ UNCHANGED <<sub, age, agenda, list, history, faults, cast>>

\* Whoever was reached will be sent it again.
Slipped(items) ==
    slack' = [i \in Items |-> IF i \in items /\ got'[i] > 0 THEN slack[i] + 1 ELSE slack[i]]

Recipients(r) ==
    {run[r].msg} \X (IF run[r].who = None THEN Devices ELSE Of({run[r].who}))

\* The database is locked, or full: the run's error is logged.
RecordFails(r) ==
    /\ Through(r) /\ Fault
    /\ got' = got /\ Slipped(Recipients(r))
    /\ UNCHANGED <<sub, age, pushed, agenda, list, streak, crossed, reach, cast>>

\* A process dies, with the requests it has out.
Crash(process) ==
    LET dying == {r \in process : Busy(r)}
    IN  /\ dying # {} /\ Fault
        /\ run' = [r \in Runs |-> IF r \in process THEN Off ELSE run[r]]
        /\ agenda' = IF "watch" \in process THEN {} ELSE agenda
        /\ list' = IF "watch" \in process THEN {} ELSE list
        /\ \E out \in SUBSET UNION {{run[r].msg} \X run[r].wait : r \in dying} :
             Reached(out)
        /\ Slipped(UNION {Recipients(r) : r \in dying})
        /\ crossed' = {p \in crossed : p[1] \notin process}
        /\ UNCHANGED <<sub, age, pushed, streak, reach, cast>>

-----------------------------------------------------------------------------
(* News.                                                                     *)

Arrives(m) ==
    /\ age[m] = None
    /\ m \in cast.messages
    /\ age' = [age EXCEPT ![m] = 0]
    /\ reach' = IF m \in Alerts THEN reach \cup ({m} \X {Owner[d] : d \in Active}) ELSE reach
    /\ UNCHANGED <<sub, pushed, run, agenda, list, got, slack, streak, crossed, faults, cast>>

\* A story that is half an hour old.
Ages(m) ==
    /\ m \in Articles /\ age[m] # None
    /\ Leave({m})
    /\ age' = [age EXCEPT ![m] = None]
    /\ UNCHANGED <<sub, run, agenda, list, streak, crossed, faults, cast>>

Answer(r, d) ==
    \/ Accepted(r, d) \/ Disable(r, d)
    \/ \E gone, reached \in BOOLEAN : Failed(r, d, gone, reached)

Progress(r) ==
    \/ NextSlice(r) \/ Record(r) \/ RecordFails(r) \/ \E d \in Devices : Answer(r, d)
    \/ r = "watch" /\ (NextUser \/ \E n \in Alerts : Dispatch(n))

Next ==
    \/ \E d \in Devices : Subscribe(d) \/ Unsubscribe(d)
    \/ \E m \in Messages : Arrives(m) \/ Ages(m)
    \/ \E r \in Broadcasts, m \in Articles : Broadcast(r, m)
    \/ Quarter
    \/ \E r \in Runs : Progress(r)
    \/ \E process \in Processes : Crash(process)

(* Fairness: a request ends, by its timeout at the latest, and the run goes  *)
(* on.  Nothing is assumed of the devices, the news or the crons.            *)
Fairness == \A r \in Runs : WF_vars(Progress(r))

Spec == Init /\ [][Next]_vars /\ Fairness

-----------------------------------------------------------------------------
(* Properties.                                                               *)

TypeOK ==
    /\ sub \in [Devices -> [known : BOOLEAN, active : BOOLEAN, failures : 0 .. MaxFailures]]
    /\ list \subseteq Devices
    /\ age \in [Messages -> 0 .. Window \cup {None}]
    /\ pushed \subseteq (Articles \X {None}) \cup (Alerts \X Users)
    /\ run \in [Runs -> [msg : Messages \cup {None}, who : Users \cup {None},
                         todo : SUBSET Devices, wait : SUBSET Devices, doomed : SUBSET Devices]]
    /\ agenda \subseteq Alerts
    /\ got \in [Items -> Nat] /\ slack \in [Items -> Nat]
    /\ streak \in [Devices -> 0 .. MaxFailures]
    /\ crossed \subseteq Runs \X Devices /\ reach \subseteq Alerts \X Users
    /\ faults \in 0 .. MaxFaults /\ cast \in Casts

Promise == INSTANCE Outbox

(* A device gets a story, or an alert, once, and once more for each slip: a  *)
(* death or a failed write before the record, an administrator's broadcast   *)
(* of the story the worker's is still busy with.                             *)
SentOnce == Promise!Spec

(* A device is switched off after MAX_CONSECUTIVE_FAILURES in a row, or when *)
(* its gateway calls it gone, whoever of the runs counted them; unless a     *)
(* success or a new subscription came between count and verdict.             *)
DisabledJustified ==
    [][\A d \in Devices :
         sub[d].active /\ sub'[d].known /\ ~sub'[d].active
         => streak[d] = MaxFailures \/ \E r \in Runs : <<r, d>> \in crossed]_vars

(* An alert is not forgotten before it was sent to, or tried for, every user *)
(* who watches the event and had a device all the time since: one skipped,   *)
(* failed or killed run of the dispatcher is made up for by the next.        *)
AlertTried ==
    [][\A n \in Alerts, u \in Users :
         age[n] # None /\ age'[n] = None /\ <<n, u>> \in reach => <<n, u>> \in pushed]_vars

(* "Retried on every cycle forever": no device that is not reached any more. *)
DeadDropped ==
    \A d \in Devices :
        ~ /\ []<>(\E r \in Runs : d \in run[r].wait)
          /\ <>[][~Subscribe(d) /\ \A r \in Runs : ~Accepted(r, d)]_vars
=============================================================================

----------------------------- MODULE PushProofs -----------------------------
(***************************************************************************)
(* Theorems about the push notifications, for any devices, users, stories  *)
(* and alerts.                                                             *)
(*                                                                         *)
(* The promise is Outbox's: a device gets a message once, and once more    *)
(* for each slip.  It is not inductive.  What a run has listed and not yet *)
(* sent counts as received (Pending), and a message that no run has in     *)
(* hand and no row records must not have been received yet, apart from the *)
(* slips (Unsent): those are the facts a run relies on when it lists.      *)
(*                                                                         *)
(* A device switched off needs that the row counts no more failures than   *)
(* there were in a row and that a verdict on its way had its failures      *)
(* (Reasons).  An alert that ages out untried must have been passed over   *)
(* once per quarter of an hour, and each time costs a fault (Tries).       *)
(***************************************************************************)
EXTENDS Push, TLAPS

RunType == [msg : Messages \cup {None}, who : Users \cup {None},
            todo : SUBSET Devices, wait : SUBSET Devices, doomed : SUBSET Devices]

\* What a run holds: stories are broadcast, alerts are taken to one user after
\* the other, and a run without a message has nothing else.
Shape ==
    /\ \A r \in Runs : run[r].msg = None => run[r] = Off
    /\ \A r \in Runs : run[r].todo \cap run[r].wait = {}
    /\ \A r \in Broadcasts : run[r].who = None /\ run[r].msg \in Articles \cup {None}
    /\ run["watch"].msg \in Alerts \cup {None}
    /\ run["watch"].msg = None => list = {}
    /\ run["watch"].who = None => run["watch"].todo = {} /\ run["watch"].wait = {}
    /\ \A d \in run["watch"].todo \cup run["watch"].wait : Owner[d] = run["watch"].who
    /\ \A d \in list : Owner[d] # run["watch"].who

ToCome(r, d) == d \in run[r].todo \/ d \in run[r].wait \/ (r = "watch" /\ d \in list)
One(P) == IF P THEN 1 ELSE 0
Pending(m, d) ==
    One(run["ingest"].msg = m /\ ToCome("ingest", d))
    + One(run["admin"].msg = m /\ ToCome("admin", d))
    + One(run["watch"].msg = m /\ ToCome("watch", d))

Counted ==
    \A m \in Messages, d \in Devices :
        got[<<m, d>>] + Pending(m, d) <= slack[<<m, d>>] + 1

\* Nobody has m for d in hand, and no row says that it was sent.
Untouched(m, d) ==
    IF m \in Articles
    THEN <<m, None>> \notin pushed /\ \A r \in Broadcasts : run[r].msg # m
    ELSE /\ <<m, Owner[d]>> \notin pushed
         /\ ~(run["watch"].msg = m /\ run["watch"].who = Owner[d])

Unsent ==
    \A m \in Messages, d \in Devices :
        Untouched(m, d) => got[<<m, d>>] <= slack[<<m, d>>]

IInv == TypeOK /\ Shape /\ Counted /\ Unsent

Kept == IInv' /\ [Promise!Step]_<<got, slack>>

-----------------------------------------------------------------------------
LEMMA RunsAre == /\ Runs = {"ingest", "admin", "watch"} /\ Broadcasts = {"ingest", "admin"}
                 /\ Messages = Articles \cup Alerts
  BY DEF Runs, Broadcasts, Messages

LEMMA InitHolds == Init => IInv /\ Promise!Init
<1>. SUFFICES ASSUME Init PROVE IInv /\ Promise!Init  OBVIOUS
<1>. USE DEF Init
<1>1. TypeOK
  BY NumbersAssumption DEF TypeOK, NoSub, Off, Runs, Broadcasts
<1>2. Shape  BY RunsAre DEF Shape, Off
<1>3. Counted
  BY RunsAre DEF Counted, Pending, One, ToCome, Off, Items
<1>4. Unsent  BY DEF Unsent, Items
<1>. QED  BY <1>1, <1>2, <1>3, <1>4 DEF IInv, Promise!Init

-----------------------------------------------------------------------------
(* The rows of the devices and the news: nothing is sent.                  *)

LEMMA RowsStep ==
  ASSUME IInv, UNCHANGED <<pushed, run, list, got, slack>>, TypeOK'
  PROVE  Kept
<1>1. Shape' /\ Counted' /\ Unsent'
  BY DEF IInv, Shape, Counted, Unsent, Untouched, Pending, ToCome
<1>. QED  BY <1>1 DEF Kept, IInv

LEMMA PutType ==
  ASSUME TypeOK, NEW d \in Devices,
         NEW r \in [known : BOOLEAN, active : BOOLEAN, failures : 0 .. MaxFailures], Put(d, r)
  PROVE  /\ sub' \in [Devices -> [known : BOOLEAN, active : BOOLEAN, failures : 0 .. MaxFailures]]
         /\ reach' \subseteq Alerts \X Users
  BY DEF TypeOK, Put

LEMMA OvertakesType ==
  ASSUME TypeOK, NEW d \in Devices, Overtakes(d)
  PROVE  crossed' \subseteq Runs \X Devices
  BY DEF TypeOK, Overtakes

LEMMA SubscribeStep ==
  ASSUME IInv, NEW d \in Devices, Subscribe(d) PROVE Kept
<1>1. Upserted \in [known : BOOLEAN, active : BOOLEAN, failures : 0 .. MaxFailures]
  BY NumbersAssumption DEF Upserted
<1>2. /\ sub' \in [Devices -> [known : BOOLEAN, active : BOOLEAN, failures : 0 .. MaxFailures]]
      /\ reach' \subseteq Alerts \X Users
      /\ crossed' \subseteq Runs \X Devices
  BY <1>1, PutType, OvertakesType DEF Subscribe, IInv
<1>3. streak' \in [Devices -> 0 .. MaxFailures]
  BY NumbersAssumption DEF Subscribe, IInv, TypeOK
<1>4. TypeOK'  BY <1>2, <1>3 DEF Subscribe, IInv, TypeOK
<1>. QED  BY <1>4, RowsStep DEF Subscribe

LEMMA UnsubscribeStep ==
  ASSUME IInv, NEW d \in Devices, Unsubscribe(d) PROVE Kept
<1>1. NoSub \in [known : BOOLEAN, active : BOOLEAN, failures : 0 .. MaxFailures]
  BY NumbersAssumption DEF NoSub
<1>2. /\ sub' \in [Devices -> [known : BOOLEAN, active : BOOLEAN, failures : 0 .. MaxFailures]]
      /\ reach' \subseteq Alerts \X Users
  BY <1>1, PutType DEF Unsubscribe, IInv
<1>3. TypeOK'  BY <1>2 DEF Unsubscribe, IInv, TypeOK
<1>. QED  BY <1>3, RowsStep DEF Unsubscribe

LEMMA ArrivesStep ==
  ASSUME IInv, NEW m \in Messages, Arrives(m) PROVE Kept
<1>1. age' \in [Messages -> 0 .. Window \cup {None}]
  BY NumbersAssumption DEF Arrives, IInv, TypeOK
<1>2. reach' \subseteq Alerts \X Users
  BY OwnerAssumption DEF Arrives, IInv, TypeOK, Active
<1>3. TypeOK'  BY <1>1, <1>2 DEF Arrives, IInv, TypeOK
<1>. QED  BY <1>3, RowsStep DEF Arrives

-----------------------------------------------------------------------------
(* Messages that leave.                                                    *)

LEMMA LeaveStep ==
  ASSUME IInv, NEW gone \in SUBSET Messages, Leave(gone),
         age' \in [Messages -> 0 .. Window \cup {None}],
         agenda' \subseteq Alerts, faults' \in 0 .. MaxFaults,
         UNCHANGED <<sub, run, list, streak, crossed, cast>>
  PROVE  Kept
<1>. USE DEF IInv
<1>1. /\ got' \in [Items -> Nat] /\ slack' \in [Items -> Nat]
      /\ pushed' \subseteq pushed /\ reach' \subseteq reach
  BY DEF Leave, TypeOK
<1>2. TypeOK'  BY <1>1 DEF TypeOK
<1>3. Shape'  BY DEF Shape
<1>4. ASSUME NEW m \in Messages, NEW d \in Devices
      PROVE  /\ m \in gone => /\ got'[<<m, d>>] = 0 /\ slack'[<<m, d>>] = 0
                              /\ \A r \in Runs : run[r].msg # m
             /\ m \notin gone => /\ got'[<<m, d>>] = got[<<m, d>>]
                                 /\ slack'[<<m, d>>] = slack[<<m, d>>]
  BY DEF Leave, Held, Items
<1>5. Counted'
  <2>. SUFFICES ASSUME NEW m \in Messages, NEW d \in Devices
                PROVE  got'[<<m, d>>] + Pending(m, d)' <= slack'[<<m, d>>] + 1
    BY DEF Counted
  <2>1. Pending(m, d)' = Pending(m, d)  BY DEF Pending, ToCome
  <2>2. CASE m \in gone
    BY <1>4, <2>1, <2>2, RunsAre DEF Pending, One
  <2>3. CASE m \notin gone  BY <1>4, <2>1, <2>3 DEF Counted
  <2>. QED  BY <2>2, <2>3
<1>6. Unsent'
  <2>. SUFFICES ASSUME NEW m \in Messages, NEW d \in Devices, Untouched(m, d)'
                PROVE  got'[<<m, d>>] <= slack'[<<m, d>>]
    BY DEF Unsent
  <2>1. CASE m \in gone  BY <1>4, <2>1
  <2>2. CASE m \notin gone
    <3>1. \A x : <<m, x>> \in pushed => <<m, x>> \in pushed'  BY <2>2 DEF Leave
    <3>2. Untouched(m, d)  BY <3>1 DEF Untouched
    <3>. QED  BY <1>4, <2>2, <3>2 DEF Unsent
  <2>. QED  BY <2>1, <2>2
<1>7. Promise!Step
  <2>1. \A i \in Items : (slack'[i] >= slack[i] /\ got'[i] = got[i]) \/ got'[i] = 0
    BY DEF Leave, TypeOK
  <2>. QED  BY <1>1, <2>1 DEF Promise!Step, Promise!Renew
<1>. QED  BY <1>2, <1>3, <1>5, <1>6, <1>7 DEF Kept

LEMMA QuarterStep == ASSUME IInv, Quarter PROVE Kept
<1>1. age' \in [Messages -> 0 .. Window \cup {None}]
  BY NumbersAssumption, RunsAre, NoneAssumption DEF Quarter, IInv, TypeOK
<1>2. agenda' \subseteq Alerts  BY DEF Quarter, IInv, TypeOK
<1>3. faults' \in 0 .. MaxFaults
  BY NumbersAssumption DEF Quarter, Fault, IInv, TypeOK
<1>4. {n \in Alerts : age[n] = Window} \in SUBSET Messages  BY RunsAre
<1>. QED  BY <1>1, <1>2, <1>3, <1>4, LeaveStep DEF Quarter

LEMMA AgesStep == ASSUME IInv, NEW m \in Messages, Ages(m) PROVE Kept
<1>1. /\ age' \in [Messages -> 0 .. Window \cup {None}]
      /\ agenda' \subseteq Alerts /\ faults' \in 0 .. MaxFaults
  BY DEF Ages, IInv, TypeOK
<1>. QED  BY <1>1, LeaveStep DEF Ages
-----------------------------------------------------------------------------
(* A run lists its recipients.                                             *)

LEMMA RunIs ==
  ASSUME TypeOK, NEW r \in Runs
  PROVE  /\ run[r] \in RunType
         /\ run[r].todo \subseteq Devices /\ run[r].wait \subseteq Devices
         /\ run[r].doomed \subseteq Devices
  BY DEF TypeOK, RunType

LEMMA OneIs == ASSUME NEW P \in BOOLEAN PROVE One(P) \in {0, 1} /\ (One(P) = 1 <=> P)
  BY DEF One

LEMMA PendingIs ==
  ASSUME NEW m \in Messages, NEW d \in Devices
  PROVE  Pending(m, d) \in Nat
  BY DEF Pending, One

\* Only stories are broadcast, only alerts are the dispatcher's.
LEMMA Apart ==
  ASSUME Shape, NEW m \in Messages
  PROVE  /\ m \in Articles => run["watch"].msg # m
         /\ m \notin Articles => \A r \in Broadcasts : run[r].msg # m
  BY NoneAssumption, MessagesAssumption, RunsAre DEF Shape

LEMMA BroadcastStep ==
  ASSUME IInv, NEW r \in Broadcasts, NEW m \in Articles, Broadcast(r, m)
  PROVE  Kept
<1>. DEFINE listed == {d \in Active : m \in Follows[d]}
<1>. USE DEF IInv
<1>0. m \in Messages /\ listed \in SUBSET Devices /\ r \in Runs /\ m # None
  BY RunsAre, NoneAssumption DEF Active
<1>1. CASE listed = {}
  <2>1. pushed' = pushed \cup {<<m, None>>} /\ UNCHANGED <<run, list, got, slack>>
    BY <1>1 DEF Broadcast
  <2>2. TypeOK'  BY <1>1, <2>1 DEF Broadcast, TypeOK
  <2>3. Shape'  BY <2>1 DEF Shape
  <2>4. Counted'
    <3>1. \A n \in Messages, d \in Devices : Pending(n, d)' = Pending(n, d)
      BY <2>1 DEF Pending, ToCome
    <3>. QED  BY <2>1, <3>1 DEF Counted
  <2>5. Unsent'
    <3>1. \A n \in Messages, d \in Devices : Untouched(n, d)' => Untouched(n, d)
      BY <2>1 DEF Untouched
    <3>. QED  BY <2>1, <3>1 DEF Unsent
  <2>. QED  BY <2>1, <2>2, <2>3, <2>4, <2>5 DEF Kept
<1>2. CASE listed # {}
  <2>1. /\ run' = [run EXCEPT ![r] = [Off EXCEPT !.msg = m, !.todo = listed]]
        /\ run[r].msg = None
        /\ Doubled(m, listed)
        /\ <<m, None>> \notin pushed
        /\ UNCHANGED <<sub, age, pushed, agenda, list, got, streak, crossed, reach, faults, cast>>
    BY <1>2 DEF Broadcast, Busy, Unrecorded
  <2>2. /\ run'[r] = [msg |-> m, who |-> None, todo |-> listed, wait |-> {}, doomed |-> {}]
        /\ \A x \in Runs \ {r} : run'[x] = run[x]
    BY <1>0, <2>1 DEF TypeOK, Off
  <2>3. slack' \in [Items -> Nat] /\ \A i \in Items : slack'[i] >= slack[i]
    BY <2>1 DEF Doubled, TypeOK
  <2>4. TypeOK'
    <3>1. [Off EXCEPT !.msg = m, !.todo = listed] \in RunType
      BY <1>0 DEF Off, RunType
    <3>2. run' \in [Runs -> RunType]
      BY <1>0, <2>1, <3>1 DEF TypeOK, RunType
    <3>. QED  BY <2>1, <2>3, <3>2 DEF TypeOK, RunType
  <2>5. Shape'
    <3>1. run'["watch"] = run["watch"] /\ r # "watch"  BY <2>2, RunsAre
    <3>2. \A x \in Runs : /\ run'[x].msg = None => run'[x] = Off
                          /\ run'[x].todo \cap run'[x].wait = {}
      BY <1>0, <2>2 DEF Shape
    <3>3. \A x \in Broadcasts : run'[x].who = None /\ run'[x].msg \in Articles \cup {None}
      BY <2>2, RunsAre DEF Shape
    <3>. QED  BY <2>1, <3>1, <3>2, <3>3 DEF Shape
  <2>6. ASSUME NEW n \in Messages, NEW d \in Devices
        PROVE  IF n = m /\ d \in listed
               THEN /\ Pending(n, d)' = Pending(n, d) + 1
                    /\ (\A x \in Runs : run[x].msg # n) => Pending(n, d) = 0
                    /\ (\E x \in Runs : run[x].msg = n) =>
                         slack'[<<n, d>>] = slack[<<n, d>>] + 1
               ELSE Pending(n, d)' = Pending(n, d)
    <3>1. CASE r = "ingest"
      BY <1>0, <2>1, <2>2, <3>1, RunsAre, NoneAssumption
      DEF Pending, ToCome, One, Doubled, Items, Shape, Off
    <3>2. CASE r = "admin"
      BY <1>0, <2>1, <2>2, <3>2, RunsAre, NoneAssumption
      DEF Pending, ToCome, One, Doubled, Items, Shape, Off
    <3>. QED  BY <3>1, <3>2, RunsAre
  <2>7. Counted'
    <3>. SUFFICES ASSUME NEW n \in Messages, NEW d \in Devices
                  PROVE  got'[<<n, d>>] + Pending(n, d)' <= slack'[<<n, d>>] + 1
      BY DEF Counted
    <3>1. /\ <<n, d>> \in Items /\ got[<<n, d>>] \in Nat /\ slack[<<n, d>>] \in Nat
          /\ slack'[<<n, d>>] \in Nat /\ Pending(n, d) \in Nat
          /\ got[<<n, d>>] + Pending(n, d) <= slack[<<n, d>>] + 1
          /\ slack'[<<n, d>>] >= slack[<<n, d>>]
      BY <2>3, PendingIs DEF TypeOK, Items, Counted
    <3>2. CASE n = m /\ d \in listed /\ \A x \in Runs : run[x].msg # n
      <4>1. Untouched(n, d)  BY <2>1, <3>2, RunsAre DEF Untouched
      <4>. QED  BY <2>1, <2>6, <3>1, <3>2, <4>1 DEF Unsent
    <3>3. CASE n = m /\ d \in listed /\ \E x \in Runs : run[x].msg = n
      BY <2>1, <2>6, <3>1, <3>3
    <3>4. CASE ~(n = m /\ d \in listed)  BY <2>1, <2>6, <3>1, <3>4
    <3>. QED  BY <3>2, <3>3, <3>4
  <2>8. Unsent'
    <3>. SUFFICES ASSUME NEW n \in Messages, NEW d \in Devices, Untouched(n, d)'
                  PROVE  got'[<<n, d>>] <= slack'[<<n, d>>]
      BY DEF Unsent
    <3>1. Untouched(n, d)
      <4>1. run[r].msg = None /\ \A x \in Runs \ {r} : run'[x] = run[x]  BY <2>1, <2>2
      <4>2. r # "watch" /\ run'["watch"] = run["watch"]  BY <2>2, RunsAre
      <4>3. n # None  BY NoneAssumption, RunsAre
      <4>. QED  BY <2>1, <4>1, <4>2, <4>3, RunsAre DEF Untouched
    <3>2. <<n, d>> \in Items  BY DEF Items
    <3>. QED  BY <2>1, <2>3, <3>1, <3>2 DEF Unsent, TypeOK
  <2>9. Promise!Step
    BY <2>1, <2>3 DEF Promise!Step, TypeOK
  <2>. QED  BY <2>4, <2>5, <2>7, <2>8, <2>9 DEF Kept
<1>. QED  BY <1>1, <1>2

LEMMA DispatchStep ==
  ASSUME IInv, NEW n \in Alerts, Dispatch(n) PROVE Kept
<1>. DEFINE listed == Of(Fresh(n)) \cap Active
<1>. USE DEF IInv
<1>0. /\ n \in Messages /\ n \notin Articles /\ n # None /\ "watch" \in Runs
      /\ listed \in SUBSET Devices
      /\ run["watch"] = Off /\ list = {}
  BY RunsAre, NoneAssumption, MessagesAssumption DEF Of, Dispatch, Busy, Shape
<1>1. /\ run' = [run EXCEPT !["watch"].msg = IF listed = {} THEN None ELSE n]
      /\ list' = listed
      /\ pushed' = IF listed = {} THEN pushed \cup ({n} \X Fresh(n)) ELSE pushed
      /\ UNCHANGED <<sub, age, got, slack, streak, crossed, reach, faults, cast>>
      /\ agenda' = agenda \ {n}
  BY DEF Dispatch, history
<1>2. /\ run'["watch"].msg = IF listed = {} THEN None ELSE n
      /\ run'["watch"].who = None /\ run'["watch"].todo = {} /\ run'["watch"].wait = {}
      /\ run'["watch"].doomed = {}
      /\ \A x \in Runs \ {"watch"} : run'[x] = run[x]
  BY <1>0, <1>1 DEF TypeOK, Off
<1>3. TypeOK'
  <2>1. run' \in [Runs -> RunType]
    <3>1. [Off EXCEPT !.msg = IF listed = {} THEN None ELSE n] \in RunType
      BY <1>0 DEF Off, RunType
    <3>. QED  BY <1>0, <1>1, <3>1 DEF TypeOK, RunType
  <2>2. pushed' \subseteq (Articles \X {None}) \cup (Alerts \X Users)
    BY <1>1 DEF TypeOK, Fresh
  <2>. QED  BY <1>0, <1>1, <2>1, <2>2 DEF TypeOK, RunType
<1>4. Shape'
  <2>1. (run'["watch"].msg = None) => run'["watch"] = Off
    <3>1. [Off EXCEPT !.msg = None] = Off  BY DEF Off
    <3>2. run'["watch"] = [Off EXCEPT !.msg = IF listed = {} THEN None ELSE n]
      BY <1>0, <1>1 DEF TypeOK
    <3>. QED  BY <1>0, <1>2, <3>1, <3>2
  <2>2. \A d \in listed : Owner[d] # None
    BY OwnerAssumption, NoneAssumption, <1>0
  <2>. QED  BY <1>0, <1>1, <1>2, <2>1, <2>2, RunsAre DEF Shape
<1>5. ASSUME NEW m \in Messages, NEW d \in Devices
      PROVE  IF m = n /\ d \in listed
             THEN /\ Pending(m, d) = 0 /\ Pending(m, d)' = 1
                  /\ Untouched(m, d)
             ELSE Pending(m, d)' = Pending(m, d)
  <2>1. CASE m = n /\ d \in listed
    <3>1. \A r \in Broadcasts : run[r].msg # m  BY <1>0, <2>1, Apart
    <3>2. Pending(m, d) = 0 /\ Pending(m, d)' = 1
      BY <1>0, <1>1, <1>2, <2>1, <3>1, RunsAre DEF Pending, One, ToCome, Off
    <3>3. <<m, Owner[d]>> \notin pushed  BY <2>1 DEF Of, Fresh
    <3>. QED  BY <1>0, <2>1, <3>2, <3>3 DEF Untouched, Off
  <2>2. CASE ~(m = n /\ d \in listed)
    <3>1. ~(run["watch"].msg = m /\ ToCome("watch", d))  BY <1>0 DEF ToCome, Off
    <3>2. ~(run'["watch"].msg = m /\ ToCome("watch", d)')
      BY <1>0, <1>1, <1>2, <2>2 DEF ToCome
    <3>. QED  BY <1>2, <2>2, <3>1, <3>2, RunsAre DEF Pending, One, ToCome
  <2>. QED  BY <2>1, <2>2
<1>6. Counted'
  <2>. SUFFICES ASSUME NEW m \in Messages, NEW d \in Devices
                PROVE  got'[<<m, d>>] + Pending(m, d)' <= slack'[<<m, d>>] + 1
    BY DEF Counted
  <2>1. got[<<m, d>>] \in Nat /\ slack[<<m, d>>] \in Nat  BY DEF TypeOK, Items
  <2>. QED  BY <1>1, <1>5, <2>1 DEF Counted, Unsent
<1>7. Unsent'
  <2>. SUFFICES ASSUME NEW m \in Messages, NEW d \in Devices, Untouched(m, d)'
                PROVE  got'[<<m, d>>] <= slack'[<<m, d>>]
    BY DEF Unsent
  <2>1. Untouched(m, d)
    BY <1>0, <1>1, <1>2, OwnerAssumption, NoneAssumption, RunsAre DEF Untouched, Off
  <2>. QED  BY <1>1, <2>1 DEF Unsent
<1>. QED  BY <1>1, <1>3, <1>4, <1>6, <1>7 DEF Kept
LEMMA NextUserStep == ASSUME IInv, NextUser PROVE Kept
<1>. USE DEF IInv
<1>1. PICK d \in list :
        /\ run["watch"].msg # None /\ run["watch"].who = None
        /\ run' = [run EXCEPT !["watch"] =
                     [@ EXCEPT !.who = Owner[d], !.todo = list \cap Of({Owner[d]})]]
        /\ list' = list \ Of({Owner[d]})
        /\ UNCHANGED <<sub, age, pushed, agenda, got, slack, streak, crossed, reach, faults, cast>>
  BY DEF NextUser, history
<1>2. /\ "watch" \in Runs /\ d \in Devices /\ Owner[d] \in Users /\ Owner[d] # None
      /\ list \subseteq Devices /\ run["watch"] \in RunType
      /\ run["watch"].todo = {} /\ run["watch"].wait = {}
  BY <1>1, RunsAre, RunIs, OwnerAssumption, NoneAssumption DEF TypeOK, Shape
<1>3. /\ run'["watch"].msg = run["watch"].msg /\ run'["watch"].who = Owner[d]
      /\ run'["watch"].todo = list \cap Of({Owner[d]}) /\ run'["watch"].wait = {}
      /\ run'["watch"] \in RunType
      /\ \A x \in Runs \ {"watch"} : run'[x] = run[x]
  BY <1>1, <1>2 DEF TypeOK, RunType
<1>4. TypeOK'
  <2>1. run' \in [Runs -> RunType]  BY <1>1, <1>3 DEF TypeOK, RunType
  <2>. QED  BY <1>1, <1>2, <2>1 DEF TypeOK, RunType
<1>5. Shape'
  <2>1. \A x \in Runs : /\ run'[x].msg = None => run'[x] = Off
                        /\ run'[x].todo \cap run'[x].wait = {}
    BY <1>1, <1>3 DEF Shape
  <2>2. \A x \in Broadcasts : run'[x].who = None /\ run'[x].msg \in Articles \cup {None}
    BY <1>3, RunsAre DEF Shape
  <2>3. \A x \in run'["watch"].todo : Owner[x] = Owner[d]  BY <1>3 DEF Of
  <2>4. \A x \in list' : Owner[x] # Owner[d]  BY <1>1, <1>2 DEF Of
  <2>. QED  BY <1>1, <1>2, <1>3, <2>1, <2>2, <2>3, <2>4 DEF Shape
<1>6. ASSUME NEW m \in Messages, NEW e \in Devices PROVE Pending(m, e)' = Pending(m, e)
  <2>1. ToCome("watch", e)' <=> ToCome("watch", e)
    BY <1>1, <1>2, <1>3 DEF ToCome
  <2>2. \A x \in Broadcasts : ToCome(x, e)' <=> ToCome(x, e)
    BY <1>3, RunsAre DEF ToCome
  <2>. QED  BY <1>3, <2>1, <2>2, RunsAre DEF Pending
<1>7. Counted'  BY <1>1, <1>6 DEF Counted
<1>8. \A m \in Messages, e \in Devices : Untouched(m, e)' => Untouched(m, e)
  BY <1>1, <1>2, <1>3, OwnerAssumption, NoneAssumption, RunsAre DEF Untouched
<1>9. Unsent'  BY <1>1, <1>8 DEF Unsent
<1>. QED  BY <1>1, <1>4, <1>5, <1>7, <1>9 DEF Kept

-----------------------------------------------------------------------------
(* A run sends.                                                            *)

\* Nothing is listed, sent or recorded: the run orders what it has.
LEMMA ReorderStep ==
  ASSUME IInv, NEW r \in Runs, NEW w \in RunType,
         run'[r] = w, \A x \in Runs \ {r} : run'[x] = run[x],
         w.msg = run[r].msg, w.who = run[r].who, run[r].msg # None,
         w.todo \cup w.wait = run[r].todo \cup run[r].wait, w.todo \cap w.wait = {},
         UNCHANGED <<pushed, list, got, slack>>, TypeOK'
  PROVE  Kept
<1>. USE DEF IInv
<1>1. run'[r] = w /\ \A x \in Runs \ {r} : run'[x] = run[x]  OBVIOUS
<1>2. \A x \in Runs : run'[x].msg = run[x].msg /\ run'[x].who = run[x].who
  BY <1>1
<1>3. \A x \in Runs, d \in Devices : ToCome(x, d)' <=> ToCome(x, d)
  BY <1>1 DEF ToCome
<1>4. Shape'
  <2>1. \A x \in Runs : run'[x].msg = None => run'[x] = Off  BY <1>1 DEF Shape
  <2>2. \A x \in Runs : run'[x].todo \cap run'[x].wait = {}  BY <1>1 DEF Shape
  <2>3. run'["watch"].todo \cup run'["watch"].wait = run["watch"].todo \cup run["watch"].wait
    BY <1>1, RunsAre
  <2>4. "watch" \in Runs /\ \A x \in Broadcasts : x \in Runs  BY RunsAre
  <2>5. \A x \in Broadcasts : run'[x].who = None /\ run'[x].msg \in Articles \cup {None}
    BY <1>2, <2>4 DEF Shape
  <2>. QED  BY <1>2, <2>1, <2>2, <2>3, <2>4, <2>5 DEF Shape
<1>5. Counted'
  <2>1. \A m \in Messages, d \in Devices : Pending(m, d)' = Pending(m, d)
    BY <1>2, <1>3, RunsAre DEF Pending
  <2>. QED  BY <2>1 DEF Counted
<1>6. Unsent'
  <2>1. \A m \in Messages, d \in Devices : Untouched(m, d)' => Untouched(m, d)
    BY <1>2, RunsAre DEF Untouched
  <2>. QED  BY <2>1 DEF Unsent
<1>. QED  BY <1>4, <1>5, <1>6 DEF Kept

LEMMA NextSliceStep == ASSUME IInv, NEW r \in Runs, NextSlice(r) PROVE Kept
<1>1. PICK slice \in SUBSET run[r].todo :
        /\ run[r].wait = {} /\ run[r].todo # {}
        /\ run' = [run EXCEPT ![r].todo = @ \ slice, ![r].wait = slice]
        /\ UNCHANGED <<sub, age, pushed, agenda, list, got, slack, streak, crossed, reach, faults, cast>>
  BY DEF NextSlice, history
<1>. DEFINE w == [run[r] EXCEPT !.todo = run[r].todo \ slice, !.wait = slice]
<1>2. /\ w \in RunType /\ w.msg = run[r].msg /\ w.who = run[r].who
      /\ w.todo = run[r].todo \ slice /\ w.wait = slice
  BY <1>1, RunIs DEF IInv, RunType
<1>3. run'[r] = w /\ \A x \in Runs \ {r} : run'[x] = run[x]
  BY <1>1 DEF IInv, TypeOK, RunType
<1>4. run[r].msg # None  BY <1>1 DEF IInv, Shape, Off
<1>5. TypeOK'
  <2>1. run' \in [Runs -> RunType]  BY <1>1, <1>2, <1>3 DEF IInv, TypeOK, RunType
  <2>. QED  BY <1>1, <2>1 DEF IInv, TypeOK, RunType
<1>6. /\ w.todo \cup w.wait = run[r].todo \cup run[r].wait /\ w.todo \cap w.wait = {}
  BY <1>1, <1>2
<1>. HIDE DEF w
<1>. QED  BY <1>1, <1>2, <1>3, <1>4, <1>5, <1>6, ReorderStep

LEMMA DisableStep == ASSUME IInv, NEW r \in Runs, NEW d \in Devices, Disable(r, d) PROVE Kept
<1>. DEFINE w == [run[r] EXCEPT !.doomed = @ \ {d}]
<1>1. /\ run' = [run EXCEPT ![r].doomed = @ \ {d}]
      /\ d \in run[r].doomed
      /\ UNCHANGED <<age, pushed, agenda, list, got, slack, streak, faults, cast>>
      /\ crossed' = crossed \ {<<r, d>>}
  BY DEF Disable
<1>2. /\ w \in RunType /\ w.msg = run[r].msg /\ w.who = run[r].who
      /\ w.todo = run[r].todo /\ w.wait = run[r].wait
  BY <1>1, RunIs DEF IInv, RunType
<1>3. run[r].msg # None
  <2>1. run[r] = Off => run[r].doomed = {}  BY DEF Off
  <2>2. run[r].msg = None => run[r] = Off  BY DEF IInv, Shape
  <2>. QED  BY <1>1, <2>1, <2>2
<1>4. [sub[d] EXCEPT !.active = FALSE] \in [known : BOOLEAN, active : BOOLEAN, failures : 0 .. MaxFailures]
  <2>1. sub[d] \in [known : BOOLEAN, active : BOOLEAN, failures : 0 .. MaxFailures]
    BY DEF IInv, TypeOK
  <2>. QED  BY <2>1
<1>5. /\ sub' \in [Devices -> [known : BOOLEAN, active : BOOLEAN, failures : 0 .. MaxFailures]]
      /\ reach' \subseteq Alerts \X Users
  BY <1>4, PutType DEF Disable, IInv
<1>6. TypeOK'
  <2>1. run' \in [Runs -> RunType]  BY <1>1, <1>2 DEF IInv, TypeOK, RunType
  <2>. QED  BY <1>1, <1>5, <2>1 DEF IInv, TypeOK, RunType
<1>7. run'[r] = w /\ \A x \in Runs \ {r} : run'[x] = run[x]
  BY <1>1 DEF IInv, TypeOK
<1>8. w.todo \cap w.wait = {}  BY <1>2 DEF IInv, Shape
<1>. HIDE DEF w
<1>. QED  BY <1>1, <1>2, <1>3, <1>6, <1>7, <1>8, ReorderStep

\* One request is over; it may have reached the device.
LEMMA AnswerStep ==
  ASSUME IInv, NEW r \in Runs, NEW d \in run[r].wait, NEW w \in RunType,
         NEW reached \in BOOLEAN,
         run'[r] = w, \A x \in Runs \ {r} : run'[x] = run[x],
         w.msg = run[r].msg, w.who = run[r].who, w.todo = run[r].todo, w.wait = run[r].wait \ {d},
         Reached(IF reached THEN {<<run[r].msg, d>>} ELSE {}),
         UNCHANGED <<pushed, list, slack>>, TypeOK'
  PROVE  Kept
<1>. USE DEF IInv
<1>. DEFINE msg == run[r].msg
<1>1. run'[r] = w /\ \A x \in Runs \ {r} : run'[x] = run[x]  OBVIOUS
<1>2. /\ msg # None /\ msg \in Messages /\ d \in Devices
      /\ d \notin run[r].todo /\ (r = "watch" => d \notin list)
  <2>1. msg # None  BY DEF Shape, Off
  <2>2. r = "watch" => d \notin list  BY DEF Shape
  <2>. QED  BY <2>1, <2>2, RunIs DEF Shape, RunType
<1>3. \A x \in Runs : run'[x].msg = run[x].msg /\ run'[x].who = run[x].who  BY <1>1
<1>4. Shape'
  <2>1. \A x \in Runs : run'[x].msg = None => run'[x] = Off  BY <1>1, <1>2 DEF Shape
  <2>2. \A x \in Runs : run'[x].todo \cap run'[x].wait = {}  BY <1>1 DEF Shape
  <2>3. /\ run'["watch"].todo = run["watch"].todo
        /\ run'["watch"].wait \subseteq run["watch"].wait
    BY <1>1, RunsAre
  <2>4. "watch" \in Runs /\ \A x \in Broadcasts : x \in Runs  BY RunsAre
  <2>5. \A x \in Broadcasts : run'[x].who = None /\ run'[x].msg \in Articles \cup {None}
    BY <1>3, <2>4 DEF Shape
  <2>6. run'["watch"].who = None => run'["watch"].todo = {} /\ run'["watch"].wait = {}
    BY <1>3, <2>3, <2>4 DEF Shape
  <2>. QED  BY <1>3, <2>1, <2>2, <2>3, <2>4, <2>5, <2>6 DEF Shape
<1>5. /\ \A m \in Messages, e \in Devices :
           <<m, e>> # <<msg, d>> => got'[<<m, e>>] = got[<<m, e>>]
      /\ got'[<<msg, d>>] = IF reached THEN got[<<msg, d>>] + 1 ELSE got[<<msg, d>>]
  BY <1>2 DEF Reached, Items, TypeOK
<1>6. \A x \in Runs, e \in Devices : ToCome(x, e)' <=> ToCome(x, e) /\ ~(x = r /\ e = d)
  BY <1>1, <1>2 DEF ToCome
<1>7. ToCome(r, d)  BY DEF ToCome
<1>8. ASSUME NEW m \in Messages, NEW e \in Devices
      PROVE  Pending(m, e)' = IF m = msg /\ e = d THEN Pending(m, e) - 1 ELSE Pending(m, e)
  <2>1. CASE m = msg /\ e = d
    <3>1. CASE r = "ingest"
      BY <1>3, <1>6, <1>7, <2>1, <3>1, RunsAre DEF Pending, One
    <3>2. CASE r = "admin"
      BY <1>3, <1>6, <1>7, <2>1, <3>2, RunsAre DEF Pending, One
    <3>3. CASE r = "watch"
      BY <1>3, <1>6, <1>7, <2>1, <3>3, RunsAre DEF Pending, One
    <3>. QED  BY <3>1, <3>2, <3>3, RunsAre
  <2>2. CASE ~(m = msg /\ e = d)
    <3>1. \A x \in Runs : (run'[x].msg = m /\ ToCome(x, e)') <=> (run[x].msg = m /\ ToCome(x, e))
      BY <1>3, <1>6, <2>2
    <3>. QED  BY <2>2, <3>1, RunsAre DEF Pending
  <2>. QED  BY <2>1, <2>2
<1>9. \A m \in Messages, e \in Devices :
        /\ got[<<m, e>>] \in Nat /\ slack[<<m, e>>] \in Nat /\ Pending(m, e) \in Nat
        /\ got[<<m, e>>] + Pending(m, e) <= slack[<<m, e>>] + 1
  BY PendingIs DEF TypeOK, Items, Counted
<1>10. Counted'
  <2>. SUFFICES ASSUME NEW m \in Messages, NEW e \in Devices
                PROVE  got'[<<m, e>>] + Pending(m, e)' <= slack'[<<m, e>>] + 1
    BY DEF Counted
  <2>1. CASE m = msg /\ e = d  BY <1>2, <1>5, <1>8, <1>9, <2>1
  <2>2. CASE ~(m = msg /\ e = d)
    <3>1. <<m, e>> # <<msg, d>>  BY <2>2
    <3>. QED  BY <1>5, <1>8, <1>9, <2>2, <3>1
  <2>. QED  BY <2>1, <2>2
<1>11. Unsent'
  <2>. SUFFICES ASSUME NEW m \in Messages, NEW e \in Devices, Untouched(m, e)'
                PROVE  got'[<<m, e>>] <= slack'[<<m, e>>]
    BY DEF Unsent
  <2>1. Untouched(m, e)  BY <1>3, RunsAre DEF Untouched
  <2>2. ~(m = msg /\ e = d)
    <3>. SUFFICES ASSUME m = msg, e = d PROVE FALSE  OBVIOUS
    <3>1. CASE r = "watch"
      <4>1. m \notin Articles  BY <3>1, RunsAre, Apart
      <4>2. run["watch"].who = Owner[d]  BY <3>1 DEF Shape
      <4>. QED  BY <2>1, <3>1, <4>1, <4>2 DEF Untouched
    <3>2. CASE r \in Broadcasts
      <4>1. m \in Articles  BY <1>2, <3>2 DEF Shape
      <4>. QED  BY <2>1, <3>2, <4>1 DEF Untouched
    <3>. QED  BY <3>1, <3>2, RunsAre
  <2>3. <<m, e>> # <<msg, d>>  BY <2>2
  <2>. QED  BY <1>5, <2>1, <2>3 DEF Unsent
<1>12. Promise!Step
  <2>1. got[<<msg, d>>] <= slack[<<msg, d>>] \/ got'[<<msg, d>>] = got[<<msg, d>>]
    <3>1. Pending(msg, d) >= 1
      BY <1>2, <1>8, <1>9, PendingIs, RunsAre, <1>7 DEF Pending, One
    <3>. QED  BY <1>2, <1>9, <3>1
  <2>2. ASSUME NEW i \in Items
        PROVE  slack'[i] >= slack[i] /\ (got'[i] = got[i] \/ Promise!Deliver(i))
    <3>1. PICK m \in Messages, e \in Devices : i = <<m, e>>  BY DEF Items
    <3>. QED  BY <1>2, <1>5, <1>9, <2>1, <3>1 DEF Promise!Deliver
  <2>. QED  BY <2>2 DEF Promise!Step, TypeOK
<1>. QED  BY <1>4, <1>10, <1>11, <1>12 DEF Kept
LEMMA ReachedType ==
  ASSUME TypeOK, NEW items, Reached(items) PROVE got' \in [Items -> Nat]
  BY DEF TypeOK, Reached

LEMMA AcceptedStep == ASSUME IInv, NEW r \in Runs, NEW d \in Devices, Accepted(r, d) PROVE Kept
<1>. DEFINE w == [run[r] EXCEPT !.wait = @ \ {d}]
<1>1. /\ d \in run[r].wait
      /\ run' = [run EXCEPT ![r].wait = @ \ {d}]
      /\ Reached({<<run[r].msg, d>>})
      /\ streak' = [streak EXCEPT ![d] = 0]
      /\ UNCHANGED <<age, pushed, agenda, list, slack, faults, cast>>
  BY DEF Accepted
<1>2. /\ w \in RunType /\ w.msg = run[r].msg /\ w.who = run[r].who
      /\ w.todo = run[r].todo /\ w.wait = run[r].wait \ {d}
  BY <1>1, RunIs DEF IInv, RunType
<1>3. run'[r] = w /\ \A x \in Runs \ {r} : run'[x] = run[x]
  BY <1>1 DEF IInv, TypeOK, RunType
<1>4. StartOver(sub[d]) \in [known : BOOLEAN, active : BOOLEAN, failures : 0 .. MaxFailures]
  BY NumbersAssumption DEF IInv, TypeOK, StartOver
<1>5. /\ sub' \in [Devices -> [known : BOOLEAN, active : BOOLEAN, failures : 0 .. MaxFailures]]
      /\ reach' \subseteq Alerts \X Users
      /\ crossed' \subseteq Runs \X Devices
  BY <1>4, PutType, OvertakesType DEF Accepted, IInv
<1>6. TypeOK'
  <2>1. run' \in [Runs -> RunType]  BY <1>1, <1>2, <1>3 DEF IInv, TypeOK, RunType
  <2>2. streak' \in [Devices -> 0 .. MaxFailures]
    BY <1>1, NumbersAssumption DEF IInv, TypeOK
  <2>3. got' \in [Items -> Nat]  BY <1>1, ReachedType DEF IInv
  <2>. QED  BY <1>1, <1>5, <2>1, <2>2, <2>3 DEF IInv, TypeOK, RunType
<1>7. Reached(IF TRUE THEN {<<run[r].msg, d>>} ELSE {})  BY <1>1
<1>. HIDE DEF w
<1>. QED  BY <1>1, <1>2, <1>3, <1>6, <1>7, AnswerStep

LEMMA FailedStep ==
  ASSUME IInv, NEW r \in Runs, NEW d \in Devices,
         NEW gone \in BOOLEAN, NEW reached \in BOOLEAN, Failed(r, d, gone, reached)
  PROVE  Kept
<1>. DEFINE failures == IF sub[d].known THEN OneMore(sub[d].failures) ELSE 0
            doomed == IF Verdict(failures, gone) THEN run[r].doomed \cup {d} ELSE run[r].doomed
            w == [run[r] EXCEPT !.wait = @ \ {d}, !.doomed = doomed]
<1>0. failures \in 0 .. MaxFailures
  BY NumbersAssumption DEF IInv, TypeOK, OneMore
<1>1. /\ d \in run[r].wait
      /\ run' = [run EXCEPT ![r].wait = @ \ {d}, ![r].doomed = doomed]
      /\ Reached(IF reached THEN {<<run[r].msg, d>>} ELSE {})
      /\ Put(d, [sub[d] EXCEPT !.failures = failures])
      /\ streak' = [streak EXCEPT ![d] = IF gone THEN MaxFailures ELSE OneMore(@)]
      /\ UNCHANGED <<age, pushed, agenda, list, slack, crossed, faults, cast>>
  BY DEF Failed
<1>. HIDE DEF failures
<1>2. /\ w \in RunType /\ w.msg = run[r].msg /\ w.who = run[r].who
      /\ w.todo = run[r].todo /\ w.wait = run[r].wait \ {d}
  BY <1>1, RunIs DEF IInv, RunType
<1>3. run'[r] = w /\ \A x \in Runs \ {r} : run'[x] = run[x]
  BY <1>1 DEF IInv, TypeOK, RunType
<1>4. [sub[d] EXCEPT !.failures = failures] \in [known : BOOLEAN, active : BOOLEAN, failures : 0 .. MaxFailures]
  BY <1>0 DEF IInv, TypeOK
<1>5. /\ sub' \in [Devices -> [known : BOOLEAN, active : BOOLEAN, failures : 0 .. MaxFailures]]
      /\ reach' \subseteq Alerts \X Users
  BY <1>1, <1>4, PutType DEF IInv
<1>6. TypeOK'
  <2>1. run' \in [Runs -> RunType]  BY <1>1, <1>2, <1>3 DEF IInv, TypeOK, RunType
  <2>2. streak' \in [Devices -> 0 .. MaxFailures]
    BY <1>1, NumbersAssumption DEF IInv, TypeOK, OneMore
  <2>3. got' \in [Items -> Nat]  BY <1>1, ReachedType DEF IInv
  <2>. QED  BY <1>1, <1>5, <2>1, <2>2, <2>3 DEF IInv, TypeOK, RunType
<1>. HIDE DEF w, doomed
<1>. QED  BY <1>1, <1>2, <1>3, <1>6, AnswerStep

-----------------------------------------------------------------------------
(* A run ends, by its record or without one.                               *)

LEMMA ThroughRun ==
  ASSUME IInv, NEW r \in Runs, Through(r)
  PROVE  /\ run[r].todo = {} /\ run[r].wait = {} /\ run[r].msg # None
         /\ r = "watch" => run[r].who # None
         /\ run'[r] = [Off EXCEPT !.msg = IF r = "watch" /\ list # {} THEN run[r].msg ELSE None]
         /\ \A x \in Runs \ {r} : run'[x] = run[x]
         /\ run' \in [Runs -> RunType]
<1>1. /\ run[r].todo = {} /\ run[r].wait = {} /\ run[r].msg # None
      /\ r = "watch" => run[r].who # None
      /\ run' = [run EXCEPT ![r] =
                   IF r = "watch" /\ list # {} THEN [Off EXCEPT !.msg = run[r].msg] ELSE Off]
  BY DEF Through, Busy
<1>2. Off = [Off EXCEPT !.msg = None]  BY DEF Off
<1>3. run'[r] = [Off EXCEPT !.msg = IF r = "watch" /\ list # {} THEN run[r].msg ELSE None]
  <2>1. run'[r] = IF r = "watch" /\ list # {} THEN [Off EXCEPT !.msg = run[r].msg] ELSE Off
    BY <1>1 DEF IInv, TypeOK
  <2>2. CASE r = "watch" /\ list # {}  BY <2>1, <2>2
  <2>3. CASE ~(r = "watch" /\ list # {})  BY <1>2, <2>1, <2>3
  <2>. QED  BY <2>2, <2>3
<1>4. \A x \in Runs \ {r} : run'[x] = run[x]  BY <1>1 DEF IInv, TypeOK
<1>5. run'[r] \in RunType  BY <1>3, RunIs DEF IInv, RunType, Off
<1>. QED  BY <1>1, <1>3, <1>4, <1>5 DEF IInv, TypeOK, RunType

LEMMA ThroughShape ==
  ASSUME IInv, NEW r \in Runs, Through(r), list' = list
  PROVE  /\ Shape'
         /\ \A m \in Messages, d \in Devices : Pending(m, d)' = Pending(m, d)
<1>. DEFINE msg == IF r = "watch" /\ list # {} THEN run[r].msg ELSE None
<1>. USE DEF IInv
<1>1. /\ run[r].todo = {} /\ run[r].wait = {} /\ run[r].msg # None
      /\ r = "watch" => run[r].who # None
      /\ \A x \in Runs \ {r} : run'[x] = run[x]
  BY ThroughRun
<1>2. /\ run'[r].msg = msg /\ run'[r].who = None /\ run'[r].todo = {} /\ run'[r].wait = {}
      /\ msg = None => run'[r] = Off
  <2>1. run'[r] = [Off EXCEPT !.msg = msg]  BY ThroughRun
  <2>. HIDE DEF msg
  <2>. QED  BY <2>1 DEF Off
<1>3. r = "watch" => (msg = None <=> list = {})  BY <1>1
<1>4. \A d \in list : Owner[d] # None
  BY OwnerAssumption, NoneAssumption DEF TypeOK
<1>5. Shape'
  <2>1. CASE r = "watch"
    <3>1. \A x \in Runs : (run'[x].msg = None => run'[x] = Off) /\ run'[x].todo \cap run'[x].wait = {}
      BY <1>1, <1>2, <2>1 DEF Shape
    <3>2. \A x \in Broadcasts : run'[x].who = None /\ run'[x].msg \in Articles \cup {None}
      BY <1>1, <2>1, RunsAre DEF Shape
    <3>3. run'["watch"].msg \in Alerts \cup {None}  BY <1>2, <2>1 DEF Shape
    <3>. HIDE DEF msg
    <3>. QED  BY <1>2, <1>3, <1>4, <2>1, <3>1, <3>2, <3>3 DEF Shape
  <2>2. CASE r \in Broadcasts
    <3>1. run'["watch"] = run["watch"] /\ msg = None  BY <1>1, <2>2, RunsAre
    <3>2. \A x \in Runs : (run'[x].msg = None => run'[x] = Off) /\ run'[x].todo \cap run'[x].wait = {}
      BY <1>1, <1>2, <3>1 DEF Shape
    <3>3. \A x \in Broadcasts : run'[x].who = None /\ run'[x].msg \in Articles \cup {None}
      BY <1>1, <1>2, <3>1, RunsAre DEF Shape
    <3>. QED  BY <3>1, <3>2, <3>3 DEF Shape
  <2>. QED  BY <2>1, <2>2, RunsAre
<1>6. ASSUME NEW m \in Messages, NEW d \in Devices, NEW x \in Runs
      PROVE  (run'[x].msg = m /\ ToCome(x, d)') <=> (run[x].msg = m /\ ToCome(x, d))
  <2>1. m # None  BY NoneAssumption, RunsAre
  <2>2. CASE x # r  BY <1>1, <2>2 DEF ToCome
  <2>3. CASE x = r /\ r = "watch"  BY <1>1, <1>2, <2>1, <2>3 DEF ToCome
  <2>4. CASE x = r /\ r # "watch"  BY <1>1, <1>2, <2>1, <2>4 DEF ToCome
  <2>. QED  BY <2>2, <2>3, <2>4
<1>7. \A m \in Messages, d \in Devices : Pending(m, d)' = Pending(m, d)
  BY <1>6, RunsAre DEF Pending
<1>. QED  BY <1>5, <1>7

\* What nobody has in hand any more was in the hands of this run.
LEMMA ThroughTouched ==
  ASSUME IInv, NEW r \in Runs, Through(r), pushed' \in {pushed, pushed \cup {<<run[r].msg, run[r].who>>}},
         NEW m \in Messages, NEW d \in Devices, Untouched(m, d)', ~Untouched(m, d)
  PROVE  /\ run[r].msg = m /\ pushed' = pushed
         /\ run[r].who \in {None, Owner[d]}
         /\ <<m, d>> \in Recipients(r)
<1>. USE DEF IInv
<1>1. \A x \in Runs \ {r} : run'[x] = run[x]  BY ThroughRun
<1>2. CASE m \in Articles
  <2>1. PICK x \in Broadcasts : run[x].msg = m /\ run'[x].msg # m
    BY <1>2 DEF Untouched
  <2>2. x = r  BY <1>1, <2>1, RunsAre
  <2>3. run[r].who = None  BY <2>1, <2>2 DEF Shape
  <2>4. pushed' = pushed  BY <1>2, <2>1, <2>2, <2>3 DEF Untouched
  <2>. QED  BY <2>1, <2>2, <2>3, <2>4 DEF Recipients
<1>3. CASE m \notin Articles
  <2>1. run["watch"].msg = m /\ run["watch"].who = Owner[d]
    BY <1>3 DEF Untouched
  <2>2. r = "watch"
    BY <1>1, <1>3, <2>1, RunsAre DEF Untouched
  <2>3. pushed' = pushed  BY <1>3, <2>1, <2>2 DEF Untouched
  <2>4. d \in Of({run[r].who})  BY <2>1, <2>2 DEF Of
  <2>5. run[r].who # None  BY ThroughRun, <2>2
  <2>. QED  BY <2>1, <2>2, <2>3, <2>4, <2>5 DEF Recipients
<1>. QED  BY <1>2, <1>3

LEMMA RecordStep == ASSUME IInv, NEW r \in Runs, Record(r) PROVE Kept
<1>. USE DEF IInv
<1>1. /\ Through(r) /\ pushed' = pushed \cup {<<run[r].msg, run[r].who>>}
      /\ UNCHANGED <<sub, age, agenda, list, got, slack, streak, crossed, reach, faults, cast>>
  BY DEF Record, history
<1>2. run' \in [Runs -> RunType]  BY <1>1, ThroughRun
<1>3. <<run[r].msg, run[r].who>> \in (Articles \X {None}) \cup (Alerts \X Users)
  <2>1. run[r].msg # None /\ (r = "watch" => run[r].who # None)  BY <1>1, ThroughRun
  <2>2. run[r].who \in Users \cup {None}  BY RunIs DEF RunType
  <2>. QED  BY <2>1, <2>2, RunsAre DEF Shape
<1>4. TypeOK'  BY <1>1, <1>2, <1>3 DEF TypeOK, RunType
<1>5. Shape' /\ \A m \in Messages, d \in Devices : Pending(m, d)' = Pending(m, d)
  BY <1>1, ThroughShape
<1>7. Counted'  BY <1>1, <1>5 DEF Counted
<1>6. Unsent'
  <2>. SUFFICES ASSUME NEW m \in Messages, NEW d \in Devices, Untouched(m, d)'
                PROVE  got'[<<m, d>>] <= slack'[<<m, d>>]
    BY DEF Unsent
  <2>1. CASE Untouched(m, d)  BY <1>1, <2>1 DEF Unsent
  <2>2. CASE ~Untouched(m, d)
    <3>1. pushed' = pushed /\ run[r].msg = m /\ run[r].who \in {None, Owner[d]}
      BY <1>1, <2>2, ThroughTouched
    <3>2. <<m, run[r].who>> \in pushed'  BY <1>1, <3>1
    <3>3. CASE m \in Articles
      <4>1. run[r].who = None
        <5>1. r # "watch"  BY <3>1, <3>3, Apart
        <5>. QED  BY <5>1, RunsAre DEF Shape
      <4>. QED  BY <3>2, <3>3, <4>1 DEF Untouched
    <3>4. CASE m \notin Articles
      <4>1. run[r].who = Owner[d]
        <5>1. r = "watch"  BY <3>1, <3>4, Apart, RunsAre
        <5>. QED  BY <1>1, <3>1, <5>1, ThroughRun
      <4>. QED  BY <3>2, <3>4, <4>1 DEF Untouched
    <3>. QED  BY <3>3, <3>4
  <2>. QED  BY <2>1, <2>2
<1>. QED  BY <1>1, <1>4, <1>5, <1>6, <1>7 DEF Kept

LEMMA SlippedIs ==
  ASSUME TypeOK, NEW items \in SUBSET Items, Slipped(items), got' \in [Items -> Nat]
  PROVE  /\ slack' \in [Items -> Nat]
         /\ \A i \in Items : slack'[i] >= slack[i]
         /\ \A i \in items : got'[i] > 0 => slack'[i] = slack[i] + 1
<1>1. \A i \in Items : slack'[i] \in Nat /\ slack'[i] >= slack[i]
  BY DEF Slipped, TypeOK
<1>2. slack' \in [Items -> Nat]  BY <1>1 DEF Slipped
<1>3. \A i \in items : got'[i] > 0 => slack'[i] = slack[i] + 1  BY DEF Slipped
<1>. QED  BY <1>1, <1>2, <1>3

LEMMA RecipientsAre ==
  ASSUME TypeOK, NEW r \in Runs, run[r].msg # None PROVE Recipients(r) \in SUBSET Items
  BY RunIs DEF Recipients, Items, RunType, Of

LEMMA RecordFailsStep == ASSUME IInv, NEW r \in Runs, RecordFails(r) PROVE Kept
<1>. USE DEF IInv
<1>1. /\ Through(r) /\ Fault /\ got' = got /\ Slipped(Recipients(r))
      /\ UNCHANGED <<sub, age, pushed, agenda, list, streak, crossed, reach, cast>>
  BY DEF RecordFails
<1>2. run' \in [Runs -> RunType] /\ run[r].msg # None  BY <1>1, ThroughRun
<1>3. /\ slack' \in [Items -> Nat] /\ \A i \in Items : slack'[i] >= slack[i]
      /\ \A i \in Recipients(r) : got[i] > 0 => slack'[i] = slack[i] + 1
  BY <1>1, <1>2, RecipientsAre, SlippedIs DEF TypeOK
<1>4. faults' \in 0 .. MaxFaults  BY <1>1, NumbersAssumption DEF Fault, TypeOK
<1>5. TypeOK'  BY <1>1, <1>2, <1>3, <1>4 DEF TypeOK, RunType
<1>6. Shape'  BY <1>1, ThroughShape
<1>7. \A m \in Messages, d \in Devices :
        /\ <<m, d>> \in Items /\ got[<<m, d>>] \in Nat /\ slack[<<m, d>>] \in Nat
        /\ slack'[<<m, d>>] \in Nat /\ Pending(m, d) \in Nat
        /\ slack'[<<m, d>>] >= slack[<<m, d>>]
        /\ got[<<m, d>>] + Pending(m, d) <= slack[<<m, d>>] + 1
  BY <1>3, PendingIs DEF TypeOK, Items, Counted
<1>8. Counted'
  <2>1. \A m \in Messages, d \in Devices : Pending(m, d)' = Pending(m, d)
    BY <1>1, ThroughShape
  <2>2. ASSUME NEW m \in Messages, NEW d \in Devices
        PROVE  got'[<<m, d>>] + Pending(m, d)' <= slack'[<<m, d>>] + 1
    <3>1. Pending(m, d)' = Pending(m, d) /\ got' = got  BY <1>1, <2>1
    <3>2. got'[<<m, d>>] = got[<<m, d>>]  BY <3>1
    <3>. HIDE DEF IInv
    <3>. QED  BY <1>7, <3>1, <3>2
  <2>. QED  BY <2>2 DEF Counted
<1>9. Unsent'
  <2>. SUFFICES ASSUME NEW m \in Messages, NEW d \in Devices, Untouched(m, d)'
                PROVE  got'[<<m, d>>] <= slack'[<<m, d>>]
    BY DEF Unsent
  <2>1. CASE Untouched(m, d)  BY <1>1, <1>7, <2>1 DEF Unsent
  <2>2. CASE ~Untouched(m, d)
    <3>1. <<m, d>> \in Recipients(r)  BY <1>1, <2>2, ThroughTouched
    <3>. QED  BY <1>1, <1>3, <1>7, <3>1
  <2>. QED  BY <2>1, <2>2
<1>10. Promise!Step  BY <1>1, <1>3 DEF Promise!Step, TypeOK
<1>. QED  BY <1>5, <1>6, <1>8, <1>9, <1>10 DEF Kept
-----------------------------------------------------------------------------
(* A process dies with its runs.                                           *)

LEMMA CrashStep ==
  ASSUME IInv, NEW process \in Processes, Crash(process) PROVE Kept
<1>. USE DEF IInv
<1>. DEFINE dying == {r \in process : Busy(r)}
            slipping == UNION {Recipients(r) : r \in dying}
<1>1. PICK out \in SUBSET UNION {{run[r].msg} \X run[r].wait : r \in dying} :
        /\ Fault
        /\ run' = [r \in Runs |-> IF r \in process THEN Off ELSE run[r]]
        /\ agenda' = IF "watch" \in process THEN {} ELSE agenda
        /\ list' = IF "watch" \in process THEN {} ELSE list
        /\ Reached(out) /\ Slipped(slipping)
        /\ crossed' = {p \in crossed : p[1] \notin process}
        /\ UNCHANGED <<sub, age, pushed, streak, reach, cast>>
  BY DEF Crash
<1>2. process \subseteq Runs  BY RunsAre DEF Processes
<1>3. \A r \in Runs : run'[r] = IF r \in process THEN Off ELSE run[r]  BY <1>1
<1>4. \A r \in dying : run[r].msg # None /\ r \in Runs /\ r \in process
  BY <1>2 DEF Busy
<1>5. slipping \in SUBSET Items
  <2>1. \A r \in dying : Recipients(r) \in SUBSET Items  BY <1>4, RecipientsAre
  <2>. QED  BY <2>1
<1>6. got' \in [Items -> Nat]  BY <1>1, ReachedType
<1>7. /\ slack' \in [Items -> Nat] /\ \A i \in Items : slack'[i] >= slack[i]
      /\ \A i \in slipping : got'[i] > 0 => slack'[i] = slack[i] + 1
  BY <1>1, <1>5, <1>6, SlippedIs
<1>8. TypeOK'
  <2>1. run' \in [Runs -> RunType]
    <3>1. Off \in RunType  BY DEF Off, RunType
    <3>. QED  BY <1>1, <3>1, RunIs
  <2>2. faults' \in 0 .. MaxFaults  BY <1>1, NumbersAssumption DEF Fault, TypeOK
  <2>. QED  BY <1>1, <1>6, <1>7, <2>1, <2>2 DEF TypeOK, RunType
<1>9. Shape'
  <2>0. Off.msg = None /\ Off.who = None /\ Off.todo = {} /\ Off.wait = {}  BY DEF Off
  <2>1. ASSUME NEW r \in Runs
        PROVE  (run'[r].msg = None => run'[r] = Off) /\ run'[r].todo \cap run'[r].wait = {}
    <3>1. CASE r \in process
      <4>1. run'[r] = Off  BY <1>3, <3>1
      <4>. QED  BY <2>0, <4>1
    <3>2. CASE r \notin process
      <4>1. run'[r] = run[r]  BY <1>3, <3>2
      <4>. QED  BY <4>1 DEF Shape
    <3>. QED  BY <3>1, <3>2
  <2>2. \A r \in Broadcasts : run'[r].who = None /\ run'[r].msg \in Articles \cup {None}
    BY <1>3, RunsAre DEF Shape, Off
  <2>3. CASE "watch" \in process
    <3>1. run'["watch"] = Off /\ list' = {}  BY <1>1, <1>3, <2>3, RunsAre
    <3>2. /\ run'["watch"].msg = None /\ run'["watch"].who = None
          /\ run'["watch"].todo = {} /\ run'["watch"].wait = {}
      BY <2>0, <3>1
    <3>. QED  BY <2>1, <2>2, <3>1, <3>2 DEF Shape
  <2>4. CASE "watch" \notin process
    <3>1. run'["watch"] = run["watch"] /\ list' = list  BY <1>1, <1>3, <2>4, RunsAre
    <3>. QED  BY <2>1, <2>2, <3>1 DEF Shape
  <2>. QED  BY <2>3, <2>4
<1>10. ASSUME NEW r \in Runs, NEW m \in Messages, NEW d \in Devices
       PROVE  (run'[r].msg = m /\ ToCome(r, d)')
                <=> (r \notin process /\ run[r].msg = m /\ ToCome(r, d))
  <2>1. m # None  BY NoneAssumption, RunsAre
  <2>2. CASE r \in process  BY <1>3, <2>1, <2>2 DEF Off
  <2>3. CASE r \notin process  BY <1>1, <1>3, <2>3 DEF ToCome
  <2>. QED  BY <2>2, <2>3
<1>11. ASSUME NEW m \in Messages, NEW d \in Devices, <<m, d>> \in out
       PROVE  \E r \in dying : run[r].msg = m /\ d \in run[r].wait
  BY <1>11
<1>12. ASSUME NEW m \in Messages, NEW d \in Devices
       PROVE  /\ Pending(m, d)' \in Nat /\ Pending(m, d) \in Nat
              /\ Pending(m, d)' <= Pending(m, d)
              /\ <<m, d>> \in out => Pending(m, d)' + 1 <= Pending(m, d)
  <2>1. \A r \in Runs : (run'[r].msg = m /\ ToCome(r, d)') => (run[r].msg = m /\ ToCome(r, d))
    BY <1>10
  <2>2. Pending(m, d)' <= Pending(m, d)  BY <2>1, RunsAre DEF Pending, One
  <2>3. ASSUME <<m, d>> \in out PROVE Pending(m, d)' + 1 <= Pending(m, d)
    <3>1. PICK r \in dying : run[r].msg = m /\ d \in run[r].wait  BY <1>11, <2>3
    <3>2. /\ r \in Runs /\ run[r].msg = m /\ ToCome(r, d)
          /\ ~(run'[r].msg = m /\ ToCome(r, d)')
      BY <1>4, <1>10, <3>1 DEF ToCome
    <3>3. CASE r = "ingest"  BY <2>1, <3>2, <3>3, RunsAre DEF Pending, One
    <3>4. CASE r = "admin"  BY <2>1, <3>2, <3>4, RunsAre DEF Pending, One
    <3>5. CASE r = "watch"  BY <2>1, <3>2, <3>5, RunsAre DEF Pending, One
    <3>. QED  BY <3>2, <3>3, <3>4, <3>5, RunsAre
  <2>4. Pending(m, d)' \in Nat  BY DEF Pending, One
  <2>. QED  BY <2>2, <2>3, <2>4, PendingIs
<1>13. ASSUME NEW m \in Messages, NEW d \in Devices
       PROVE  /\ <<m, d>> \in Items
              /\ got[<<m, d>>] \in Nat /\ slack[<<m, d>>] \in Nat /\ slack'[<<m, d>>] \in Nat
              /\ got[<<m, d>>] + Pending(m, d) <= slack[<<m, d>>] + 1
              /\ slack'[<<m, d>>] >= slack[<<m, d>>]
              /\ got'[<<m, d>>] = IF <<m, d>> \in out THEN got[<<m, d>>] + 1 ELSE got[<<m, d>>]
  <2>1. <<m, d>> \in Items  BY DEF Items
  <2>. QED  BY <1>1, <1>7, <2>1 DEF Counted, TypeOK, Reached
<1>14. Counted'
  <2>. SUFFICES ASSUME NEW m \in Messages, NEW d \in Devices
                PROVE  got'[<<m, d>>] + Pending(m, d)' <= slack'[<<m, d>>] + 1
    BY DEF Counted
  <2>. QED  BY <1>12, <1>13
<1>15. Unsent'
  <2>. SUFFICES ASSUME NEW m \in Messages, NEW d \in Devices, Untouched(m, d)'
                PROVE  got'[<<m, d>>] <= slack'[<<m, d>>]
    BY DEF Unsent
  <2>1. m # None  BY NoneAssumption, RunsAre
  <2>2. CASE <<m, d>> \in slipping  BY <1>7, <1>12, <1>13, <2>2
  <2>3. CASE <<m, d>> \notin slipping
    <3>1. ASSUME NEW r \in process, run[r].msg = m, run[r].who \in {None, Owner[d]}
          PROVE FALSE
      <4>1. r \in dying  BY <2>1, <3>1 DEF Busy
      <4>2. <<m, d>> \in Recipients(r)  BY <3>1 DEF Recipients, Of
      <4>. QED  BY <2>3, <4>1, <4>2
    <3>2. Untouched(m, d)
      <4>1. CASE m \in Articles
        <5>1. ASSUME NEW r \in Broadcasts, run[r].msg = m PROVE FALSE
          <6>1. r \in Runs /\ run[r].who = None  BY RunsAre DEF Shape
          <6>2. r \in process  BY <1>3, <4>1, <5>1, <6>1 DEF Untouched
          <6>. QED  BY <3>1, <5>1, <6>1, <6>2
        <5>. QED  BY <1>1, <4>1, <5>1 DEF Untouched
      <4>2. CASE m \notin Articles
        <5>1. ASSUME run["watch"].msg = m, run["watch"].who = Owner[d] PROVE FALSE
          <6>1. "watch" \in process  BY <1>3, <4>2, <5>1, RunsAre DEF Untouched
          <6>. QED  BY <3>1, <5>1, <6>1
        <5>. QED  BY <1>1, <4>2, <5>1 DEF Untouched
      <4>. QED  BY <4>1, <4>2
    <3>3. <<m, d>> \notin out
      <4>. SUFFICES ASSUME <<m, d>> \in out PROVE FALSE  OBVIOUS
      <4>1. PICK r \in dying : run[r].msg = m /\ d \in run[r].wait  BY <1>11
      <4>2. run[r].who \in {None, Owner[d]}
        BY <1>4, <4>1, RunsAre DEF Shape
      <4>. QED  BY <1>4, <3>1, <4>1, <4>2
    <3>. QED  BY <1>13, <3>2, <3>3 DEF Unsent
  <2>. QED  BY <2>2, <2>3
<1>16. Promise!Step
  <2>1. ASSUME NEW i \in Items
        PROVE  slack'[i] >= slack[i] /\ (got'[i] = got[i] \/ Promise!Deliver(i))
    <3>1. PICK m \in Messages, d \in Devices : i = <<m, d>>  BY DEF Items
    <3>. QED  BY <1>12, <1>13, <3>1 DEF Promise!Deliver
  <2>. QED  BY <1>6, <1>7, <2>1 DEF Promise!Step
<1>. QED  BY <1>8, <1>9, <1>14, <1>15, <1>16 DEF Kept

-----------------------------------------------------------------------------
LEMMA NextStep == IInv /\ [Next]_vars => Kept
<1>. SUFFICES ASSUME IInv, [Next]_vars PROVE Kept  OBVIOUS
<1>1. CASE \E d \in Devices : Subscribe(d) \/ Unsubscribe(d)
  BY <1>1, SubscribeStep, UnsubscribeStep
<1>2. CASE \E m \in Messages : Arrives(m) \/ Ages(m)  BY <1>2, ArrivesStep, AgesStep
<1>3. CASE \E r \in Broadcasts, m \in Articles : Broadcast(r, m)  BY <1>3, BroadcastStep
<1>4. CASE Quarter  BY <1>4, QuarterStep
<1>5. CASE \E r \in Runs : Progress(r)
  <2>. PICK r \in Runs : Progress(r)  BY <1>5
  <2>1. CASE NextSlice(r)  BY <2>1, NextSliceStep
  <2>2. CASE Record(r)  BY <2>2, RecordStep
  <2>3. CASE RecordFails(r)  BY <2>3, RecordFailsStep
  <2>4. CASE \E d \in Devices : Answer(r, d)
    <3>. PICK d \in Devices : Answer(r, d)  BY <2>4
    <3>. QED  BY AcceptedStep, DisableStep, FailedStep DEF Answer
  <2>5. CASE NextUser  BY <2>5, NextUserStep
  <2>6. CASE \E n \in Alerts : Dispatch(n)  BY <2>6, DispatchStep
  <2>. QED  BY <2>1, <2>2, <2>3, <2>4, <2>5, <2>6 DEF Progress
<1>6. CASE \E process \in Processes : Crash(process)  BY <1>6, CrashStep
<1>7. CASE UNCHANGED vars
  <2>1. UNCHANGED <<pushed, run, list, got, slack>>  BY <1>7 DEF vars
  <2>2. TypeOK'  BY <1>7 DEF IInv, TypeOK, vars
  <2>. QED  BY <2>1, <2>2, RowsStep
<1>. QED  BY <1>1, <1>2, <1>3, <1>4, <1>5, <1>6, <1>7 DEF Next

\* Every variable keeps its type, whatever the processes do to the rows they
\* share.
THEOREM TypeCorrect == Spec => []TypeOK
<1>1. Init => IInv  BY InitHolds
<1>2. IInv /\ [Next]_vars => IInv'  BY NextStep DEF Kept
<1>3. IInv => TypeOK  BY DEF IInv
<1>. QED  BY <1>1, <1>2, <1>3, PTL DEF Spec

\* The broadcasts and the dispatcher implement Outbox: a device gets a story
\* or an alert once, and once more for each slip.
THEOREM SentOnceHolds == Spec => SentOnce
<1>1. Init => IInv /\ Promise!Init  BY InitHolds
<1>2. IInv /\ [Next]_vars => IInv' /\ [Promise!Step]_<<got, slack>>  BY NextStep DEF Kept
<1>. QED  BY <1>1, <1>2, PTL DEF Spec, SentOnce, Promise!Spec

-----------------------------------------------------------------------------
(* Switched off for a reason.  The count in the row never exceeds the      *)
(* failures in a row, whoever counted them, and a verdict that is still to *)
(* be carried out has its failures or was overtaken.                       *)

Counts == \A d \in Devices : sub[d].failures <= streak[d]
Verdicts ==
    \A r \in Runs, d \in Devices :
        d \in run[r].doomed => streak[d] = MaxFailures \/ <<r, d>> \in crossed
Reasons == Counts /\ Verdicts

\* The count of one more failure.
LEMMA OneMoreIs ==
  ASSUME NEW a \in 0 .. MaxFailures, NEW b \in 0 .. MaxFailures, a <= b
  PROVE  /\ OneMore(a) \in 0 .. MaxFailures /\ OneMore(b) \in 0 .. MaxFailures
         /\ OneMore(a) <= OneMore(b)
         /\ a = MaxFailures => OneMore(a) = MaxFailures
  BY NumbersAssumption DEF OneMore

LEMMA RowIs ==
  ASSUME TypeOK, NEW d \in Devices
  PROVE  sub[d].failures \in 0 .. MaxFailures /\ streak[d] \in 0 .. MaxFailures
  BY DEF TypeOK

\* A row is written to: every other row stays.
LEMMA PutIs ==
  ASSUME TypeOK, NEW d \in Devices, NEW r, Put(d, r)
  PROVE  \A e \in Devices : sub'[e] = IF e = d THEN r ELSE sub[e]
  BY DEF TypeOK, Put

\* A success or a new subscription: the count starts again, and whoever was
\* about to switch the device off has been overtaken.
LEMMA OvertakesReasons ==
  ASSUME TypeOK, Reasons, NEW d \in Devices, NEW r, Put(d, r), r.failures = 0,
         streak' = [streak EXCEPT ![d] = 0], Overtakes(d),
         \A x \in Runs : run'[x].doomed = run[x].doomed
  PROVE  Reasons'
<1>1. \A e \in Devices : sub'[e] = IF e = d THEN r ELSE sub[e]  BY PutIs
<1>2. \A e \in Devices : streak'[e] = IF e = d THEN 0 ELSE streak[e]  BY DEF TypeOK
<1>3. Counts'  BY <1>1, <1>2 DEF Reasons, Counts
<1>4. Verdicts'
  <2>. SUFFICES ASSUME NEW x \in Runs, NEW e \in Devices, e \in run'[x].doomed
                PROVE  streak'[e] = MaxFailures \/ <<x, e>> \in crossed'
    BY DEF Verdicts
  <2>1. e \in run[x].doomed  OBVIOUS
  <2>2. crossed \subseteq crossed' /\ (e = d => <<x, e>> \in crossed')
    BY <2>1 DEF Overtakes
  <2>. QED  BY <1>2, <2>1, <2>2 DEF Reasons, Verdicts
<1>. QED  BY <1>3, <1>4 DEF Reasons

LEMMA SubscribeReasons ==
  ASSUME TypeOK, Reasons, NEW d \in Devices, Subscribe(d) PROVE Reasons'
<1>1. /\ Put(d, Upserted) /\ streak' = [streak EXCEPT ![d] = 0] /\ Overtakes(d)
      /\ UNCHANGED run
  BY DEF Subscribe
<1>2. Upserted.failures = 0  BY DEF Upserted
<1>. QED  BY <1>1, <1>2, OvertakesReasons

LEMMA UnsubscribeReasons ==
  ASSUME TypeOK, Reasons, NEW d \in Devices, Unsubscribe(d) PROVE Reasons'
<1>1. Put(d, NoSub) /\ UNCHANGED <<run, streak, crossed>>  BY DEF Unsubscribe
<1>2. \A e \in Devices : sub'[e] = IF e = d THEN NoSub ELSE sub[e]  BY <1>1, PutIs
<1>3. NoSub.failures = 0  BY DEF NoSub
<1>4. Counts'
  BY <1>1, <1>2, <1>3, RowIs DEF Reasons, Counts
<1>. QED  BY <1>1, <1>4 DEF Reasons, Verdicts

LEMMA AcceptedReasons ==
  ASSUME TypeOK, Reasons, NEW r \in Runs, NEW d \in Devices, Accepted(r, d) PROVE Reasons'
<1>1. /\ run' = [run EXCEPT ![r].wait = @ \ {d}]
      /\ Put(d, StartOver(sub[d])) /\ streak' = [streak EXCEPT ![d] = 0] /\ Overtakes(d)
  BY DEF Accepted
<1>2. \A x \in Runs : run'[x].doomed = run[x].doomed  BY <1>1 DEF TypeOK
<1>3. StartOver(sub[d]).failures = 0  BY DEF StartOver, TypeOK
<1>. QED  BY <1>1, <1>2, <1>3, OvertakesReasons

LEMMA FailedReasons ==
  ASSUME TypeOK, Reasons, NEW r \in Runs, NEW d \in Devices,
         NEW gone \in BOOLEAN, NEW reached \in BOOLEAN, Failed(r, d, gone, reached)
  PROVE  Reasons'
<1>. DEFINE failures == IF sub[d].known THEN OneMore(sub[d].failures) ELSE 0
            counted == IF gone THEN MaxFailures ELSE OneMore(streak[d])
<1>1. /\ run' = [run EXCEPT ![r].wait = @ \ {d},
                            ![r].doomed = IF Verdict(failures, gone) THEN @ \cup {d} ELSE @]
      /\ Put(d, [sub[d] EXCEPT !.failures = failures])
      /\ streak' = [streak EXCEPT ![d] = counted]
      /\ crossed' = crossed
  BY DEF Failed
<1>2. \A e \in Devices :
        /\ sub'[e] = IF e = d THEN [sub[d] EXCEPT !.failures = failures] ELSE sub[e]
        /\ streak'[e] = IF e = d THEN counted ELSE streak[e]
  BY <1>1, PutIs DEF TypeOK
<1>3. [sub[d] EXCEPT !.failures = failures].failures = failures
  <2>1. sub[d] \in [known : BOOLEAN, active : BOOLEAN, failures : 0 .. MaxFailures]
    BY DEF TypeOK
  <2>. HIDE DEF failures
  <2>. QED  BY <2>1
<1>4. /\ failures \in 0 .. MaxFailures /\ counted \in 0 .. MaxFailures /\ failures <= counted
      /\ streak[d] = MaxFailures => counted = MaxFailures
  <2>1. /\ sub[d].failures \in 0 .. MaxFailures /\ streak[d] \in 0 .. MaxFailures
        /\ sub[d].failures <= streak[d]
    BY RowIs DEF Reasons, Counts
  <2>2. /\ OneMore(sub[d].failures) \in 0 .. MaxFailures
        /\ OneMore(streak[d]) \in 0 .. MaxFailures
        /\ OneMore(sub[d].failures) <= OneMore(streak[d])
        /\ streak[d] = MaxFailures => OneMore(streak[d]) = MaxFailures
    BY <2>1, OneMoreIs
  <2>. QED  BY <2>2, NumbersAssumption
<1>5. Verdict(failures, gone) => counted = MaxFailures
  <2>. HIDE DEF failures
  <2>. QED  BY <1>4, NumbersAssumption DEF Verdict
<1>6. Counts'
  <2>. HIDE DEF failures, counted
  <2>. QED  BY <1>2, <1>3, <1>4 DEF Reasons, Counts
<1>7. ASSUME NEW x \in Runs, NEW e \in Devices, e \in run'[x].doomed
      PROVE  e \in run[x].doomed \/ (e = d /\ Verdict(failures, gone))
  <2>. HIDE DEF failures
  <2>. QED  BY <1>1, <1>7 DEF TypeOK
<1>8. Verdicts'
  <2>. SUFFICES ASSUME NEW x \in Runs, NEW e \in Devices, e \in run'[x].doomed
                PROVE  streak'[e] = MaxFailures \/ <<x, e>> \in crossed'
    BY DEF Verdicts
  <2>. HIDE DEF failures, counted
  <2>. QED  BY <1>1, <1>2, <1>4, <1>5, <1>7 DEF Reasons, Verdicts
<1>. QED  BY <1>6, <1>8 DEF Reasons

LEMMA DisableReasons ==
  ASSUME TypeOK, Reasons, NEW r \in Runs, NEW d \in Devices, Disable(r, d) PROVE Reasons'
<1>1. /\ run' = [run EXCEPT ![r].doomed = @ \ {d}]
      /\ Put(d, [sub[d] EXCEPT !.active = FALSE])
      /\ crossed' = crossed \ {<<r, d>>} /\ streak' = streak
  BY DEF Disable
<1>2. \A e \in Devices :
        sub'[e] = IF e = d THEN [sub[d] EXCEPT !.active = FALSE] ELSE sub[e]
  BY <1>1, PutIs
<1>3. [sub[d] EXCEPT !.active = FALSE].failures = sub[d].failures  BY DEF TypeOK
<1>4. Counts'  BY <1>1, <1>2, <1>3 DEF Reasons, Counts
<1>5. \A x \in Runs, e \in Devices :
        e \in run'[x].doomed => e \in run[x].doomed /\ ~(x = r /\ e = d)
  BY <1>1 DEF TypeOK
<1>6. Verdicts'
  <2>. SUFFICES ASSUME NEW x \in Runs, NEW e \in Devices, e \in run'[x].doomed
                PROVE  streak'[e] = MaxFailures \/ <<x, e>> \in crossed'
    BY DEF Verdicts
  <2>. QED  BY <1>1, <1>5 DEF Reasons, Verdicts
<1>. QED  BY <1>4, <1>6 DEF Reasons

\* Every other step leaves the rows, and what is said of a device, alone.
LEMMA QuietReasons ==
  ASSUME Reasons, UNCHANGED <<sub, streak, crossed>>,
         \A x \in Runs : run'[x].doomed \subseteq run[x].doomed
  PROVE  Reasons'
  BY DEF Reasons, Counts, Verdicts

LEMMA CrashReasons ==
  ASSUME TypeOK, Reasons, NEW process \in Processes, Crash(process) PROVE Reasons'
<1>1. /\ run' = [r \in Runs |-> IF r \in process THEN Off ELSE run[r]]
      /\ crossed' = {p \in crossed : p[1] \notin process}
      /\ UNCHANGED <<sub, streak>>
  BY DEF Crash
<1>2. Counts'  BY <1>1 DEF Reasons, Counts
<1>3. Verdicts'
  <2>. SUFFICES ASSUME NEW x \in Runs, NEW e \in Devices, e \in run'[x].doomed
                PROVE  streak'[e] = MaxFailures \/ <<x, e>> \in crossed'
    BY DEF Verdicts
  <2>1. x \notin process /\ e \in run[x].doomed  BY <1>1 DEF Off
  <2>. QED  BY <1>1, <2>1 DEF Reasons, Verdicts
<1>. QED  BY <1>2, <1>3 DEF Reasons

\* The steps that neither write to a row nor judge a device.
LEMMA DoomedKept ==
  ASSUME IInv,
         \/ \E r \in Broadcasts, m \in Articles : Broadcast(r, m)
         \/ NextUser \/ \E n \in Alerts : Dispatch(n)
         \/ \E r \in Runs : NextSlice(r) \/ Record(r) \/ RecordFails(r)
         \/ UNCHANGED run
  PROVE  \A x \in Runs : run'[x].doomed \subseteq run[x].doomed
<1>0. "watch" \in Runs /\ Broadcasts \subseteq Runs /\ TypeOK  BY RunsAre DEF IInv
<1>1. CASE \E r \in Broadcasts, m \in Articles : Broadcast(r, m)
  <2>. PICK r \in Broadcasts, m \in Articles : Broadcast(r, m)  BY <1>1
  <2>1. \/ UNCHANGED run
        \/ run' = [run EXCEPT ![r] = [Off EXCEPT !.msg = m, !.todo = {d \in Active : m \in Follows[d]}]]
    BY DEF Broadcast
  <2>. QED  BY <1>0, <2>1 DEF TypeOK, Off
<1>2. CASE NextUser
  <2>1. PICK d \in list :
          run' = [run EXCEPT !["watch"] =
                    [@ EXCEPT !.who = Owner[d], !.todo = list \cap Of({Owner[d]})]]
    BY <1>2 DEF NextUser
  <2>2. run'["watch"].doomed = run["watch"].doomed  BY <1>0, <2>1 DEF TypeOK
  <2>. QED  BY <1>0, <2>1, <2>2 DEF TypeOK
<1>3. CASE \E n \in Alerts : Dispatch(n)  BY <1>0, <1>3 DEF Dispatch, TypeOK
<1>4. CASE \E r \in Runs : NextSlice(r)  BY <1>0, <1>4 DEF NextSlice, TypeOK
<1>5. CASE \E r \in Runs : Record(r) \/ RecordFails(r)
  <2>. PICK r \in Runs : Through(r)  BY <1>5 DEF Record, RecordFails
  <2>1. /\ run'[r] = [Off EXCEPT !.msg = IF r = "watch" /\ list # {} THEN run[r].msg ELSE None]
        /\ \A x \in Runs \ {r} : run'[x] = run[x]
    BY ThroughRun
  <2>2. run'[r].doomed = {}  BY <2>1 DEF Off
  <2>. QED  BY <2>1, <2>2
<1>. QED  BY <1>1, <1>2, <1>3, <1>4, <1>5

LEMMA ReasonsKept == IInv /\ Reasons /\ [Next]_vars => Reasons'
<1>. SUFFICES ASSUME IInv, Reasons, [Next]_vars PROVE Reasons'  OBVIOUS
<1>0. TypeOK  BY DEF IInv
<1>1. CASE \E d \in Devices : Subscribe(d) \/ Unsubscribe(d)
  BY <1>0, <1>1, SubscribeReasons, UnsubscribeReasons
<1>2. CASE \E m \in Messages : Arrives(m) \/ Ages(m)
  <2>1. UNCHANGED <<sub, streak, crossed, run>>  BY <1>2 DEF Arrives, Ages
  <2>. QED  BY <2>1, QuietReasons
<1>3. CASE \E r \in Broadcasts, m \in Articles : Broadcast(r, m)
  <2>1. UNCHANGED <<sub, streak, crossed>>  BY <1>3 DEF Broadcast
  <2>. QED  BY <1>3, <2>1, DoomedKept, QuietReasons
<1>4. CASE Quarter
  <2>1. UNCHANGED <<sub, streak, crossed, run>>  BY <1>4 DEF Quarter
  <2>. QED  BY <2>1, QuietReasons
<1>5. CASE \E r \in Runs : Progress(r)
  <2>. PICK r \in Runs : Progress(r)  BY <1>5
  <2>1. CASE \E d \in Devices : Answer(r, d)
    <3>. PICK d \in Devices : Answer(r, d)  BY <2>1
    <3>. QED  BY <1>0, AcceptedReasons, DisableReasons, FailedReasons DEF Answer
  <2>2. CASE NextSlice(r) \/ Record(r) \/ RecordFails(r)
    <3>1. UNCHANGED <<sub, streak, crossed>>
      BY <2>2 DEF NextSlice, Record, RecordFails, history
    <3>. QED  BY <2>2, <3>1, DoomedKept, QuietReasons
  <2>3. CASE NextUser \/ \E n \in Alerts : Dispatch(n)
    <3>1. UNCHANGED <<sub, streak, crossed>>  BY <2>3 DEF NextUser, Dispatch, history
    <3>. QED  BY <2>3, <3>1, DoomedKept, QuietReasons
  <2>. QED  BY <2>1, <2>2, <2>3 DEF Progress
<1>6. CASE \E process \in Processes : Crash(process)  BY <1>0, <1>6, CrashReasons
<1>7. CASE UNCHANGED vars
  <2>1. UNCHANGED <<sub, streak, crossed, run>>  BY <1>7 DEF vars
  <2>. QED  BY <2>1, QuietReasons
<1>. QED  BY <1>1, <1>2, <1>3, <1>4, <1>5, <1>6, <1>7 DEF Next

\* Only a verdict switches a known device off.
LEMMA OnlyDisable ==
  ASSUME TypeOK, [Next]_vars, NEW d \in Devices,
         sub[d].active, sub'[d].known, ~sub'[d].active
  PROVE  \E r \in Runs : Disable(r, d)
<1>1. CASE \E e \in Devices : Subscribe(e) \/ Unsubscribe(e)
  <2>. PICK e \in Devices : Subscribe(e) \/ Unsubscribe(e)  BY <1>1
  <2>1. Put(e, Upserted) \/ Put(e, NoSub)  BY DEF Subscribe, Unsubscribe
  <2>2. sub'[d] \in {sub[d], Upserted, NoSub}  BY <2>1, PutIs
  <2>. QED  BY <2>2 DEF Upserted, NoSub
<1>2. CASE sub' = sub  BY <1>2
<1>3. CASE \E r \in Runs, e \in Devices : Answer(r, e)
  <2>. PICK r \in Runs, e \in Devices : Answer(r, e)  BY <1>3
  <2>0. sub[e] \in [known : BOOLEAN, active : BOOLEAN, failures : 0 .. MaxFailures]
    BY DEF TypeOK
  <2>1. CASE Accepted(r, e)
    <3>1. Put(e, StartOver(sub[e]))  BY <2>1 DEF Accepted
    <3>2. StartOver(sub[e]).active = sub[e].active  BY <2>0 DEF StartOver
    <3>3. sub'[d].active = sub[d].active  BY <3>1, <3>2, PutIs
    <3>. QED  BY <3>3
  <2>2. CASE \E gone, reached \in BOOLEAN : Failed(r, e, gone, reached)
    <3>1. PICK n : Put(e, [sub[e] EXCEPT !.failures = n])  BY <2>2 DEF Failed
    <3>2. [sub[e] EXCEPT !.failures = n].active = sub[e].active  BY <2>0
    <3>3. sub'[d].active = sub[d].active  BY <3>1, <3>2, PutIs
    <3>. QED  BY <3>3
  <2>3. CASE Disable(r, e)
    <3>1. Put(e, [sub[e] EXCEPT !.active = FALSE])  BY <2>3 DEF Disable
    <3>2. e = d  BY <3>1, PutIs
    <3>. QED  BY <2>3, <3>2
  <2>. QED  BY <2>1, <2>2, <2>3 DEF Answer
<1>4. CASE UNCHANGED vars  BY <1>4 DEF vars
<1>. QED
  BY <1>1, <1>2, <1>3, <1>4
  DEF Next, Progress, Arrives, Ages, Broadcast, Quarter, NextSlice, Record, RecordFails,
      NextUser, Dispatch, Crash

\* A device is switched off after MaxFailures failures in a row or when its
\* gateway calls it gone, unless a success or a new subscription came between
\* the count and the verdict: two runs may count at the same time.
THEOREM DisabledJustifiedHolds == Spec => DisabledJustified
<1>1. Init => IInv /\ Reasons
  <2>1. Init => Reasons  BY DEF Init, Reasons, Counts, Verdicts, NoSub, Off
  <2>. QED  BY <2>1, InitHolds
<1>2. IInv /\ Reasons /\ [Next]_vars => IInv' /\ Reasons'
  BY NextStep, ReasonsKept DEF Kept
<1>3. ASSUME IInv, Reasons, [Next]_vars
      PROVE  [\A d \in Devices :
                sub[d].active /\ sub'[d].known /\ ~sub'[d].active
                => streak[d] = MaxFailures \/ \E r \in Runs : <<r, d>> \in crossed]_vars
  <2>. SUFFICES ASSUME NEW d \in Devices,
                       sub[d].active, sub'[d].known, ~sub'[d].active
                PROVE  streak[d] = MaxFailures \/ \E r \in Runs : <<r, d>> \in crossed
    OBVIOUS
  <2>1. PICK r \in Runs : Disable(r, d)  BY <1>3, OnlyDisable DEF IInv
  <2>2. d \in run[r].doomed  BY <2>1 DEF Disable
  <2>. QED  BY <1>3, <2>2 DEF Reasons, Verdicts
<1>. QED  BY <1>1, <1>2, <1>3, PTL DEF Spec, DisabledJustified

-----------------------------------------------------------------------------
(* No alert is forgotten.  A user who has had a device all the time since   *)
(* an alert loses one chance of being sent it for each fault, and has one   *)
(* still to come while the alert is on the agenda, or in hand with this     *)
(* user or one of the user's devices still to be looked at.                 *)

Chance(n, u) ==
    \/ n \in agenda
    \/ run["watch"].msg = n /\ (run["watch"].who = u \/ \E d \in list : Owner[d] = u)
Reachable == \A p \in reach : \E e \in Of({p[2]}) : sub[e].active
Waiting(n, u) == age[n] # None /\ <<n, u>> \in reach /\ <<n, u>> \notin pushed
Tries ==
    \A n \in Alerts, u \in Users :
        Waiting(n, u) => age[n] <= faults + One(Chance(n, u))
TriesInv == Reachable /\ Tries

LEMMA AgeIs ==
  ASSUME TypeOK, NEW n \in Alerts
  PROVE  /\ age[n] # None => age[n] \in 0 .. Window
         /\ faults \in Nat /\ None \notin Nat /\ n \in Messages
         /\ \A P \in BOOLEAN : One(P) \in 0 .. 1
  BY NumbersAssumption, NoneAssumption, RunsAre DEF TypeOK, One

\* The steps after which nobody waits who did not before, with no chance less
\* but for a fault.
LEMMA TriesStep ==
  ASSUME TypeOK, TypeOK', Tries,
         \A n \in Alerts, u \in Users : Waiting(n, u)' =>
            /\ Waiting(n, u) /\ age'[n] = age[n]
            /\ faults' = faults + 1 \/ (faults' = faults /\ (Chance(n, u) => Chance(n, u)'))
  PROVE  Tries'
<1>. SUFFICES ASSUME NEW n \in Alerts, NEW u \in Users, Waiting(n, u)'
              PROVE  age'[n] <= faults' + One(Chance(n, u)')
  BY DEF Tries, One
<1>1. Waiting(n, u) /\ age'[n] = age[n]
      /\ (faults' = faults + 1 \/ (faults' = faults /\ (Chance(n, u) => Chance(n, u)')))
  OBVIOUS
<1>2. age[n] <= faults + One(Chance(n, u)) /\ age[n] \in Nat /\ faults \in Nat
  BY <1>1, AgeIs DEF Tries, Waiting
<1>3. /\ Chance(n, u) \in BOOLEAN /\ Chance(n, u)' \in BOOLEAN
  BY DEF Chance
<1>. QED  BY <1>1, <1>2, <1>3 DEF One

\* The rows of the devices: whoever is still to be reached has a device.
LEMMA PutReachable ==
  ASSUME NEW d \in Devices, NEW r, Put(d, r) PROVE Reachable' /\ reach' \subseteq reach
  BY DEF Put, Reachable

\* Nothing happens to the alert, and reach only shrinks with the rows.
LEMMA AsideTries ==
  ASSUME TypeOK, TypeOK', Tries, reach' \subseteq reach,
         UNCHANGED <<age, agenda, list, faults>>, pushed \subseteq pushed',
         run'["watch"].msg = run["watch"].msg, run'["watch"].who = run["watch"].who
  PROVE  Tries'
<1>1. \A n \in Alerts, u \in Users : Waiting(n, u)' => Waiting(n, u)  BY DEF Waiting
<1>2. \A n \in Alerts, u \in Users : Chance(n, u) => Chance(n, u)'  BY DEF Chance
<1>. QED  BY <1>1, <1>2, TriesStep

LEMMA RowsTries ==
  ASSUME IInv, TypeOK', TriesInv, NEW d \in Devices,
         \/ Subscribe(d) \/ Unsubscribe(d)
         \/ \E r \in Runs : Answer(r, d)
  PROVE  TriesInv'
<1>1. PICK row : Put(d, row)
  BY DEF Subscribe, Unsubscribe, Answer, Accepted, Disable, Failed
<1>2. Reachable' /\ reach' \subseteq reach  BY <1>1, PutReachable
<1>3. UNCHANGED <<age, agenda, list, faults, pushed>>
  BY DEF Subscribe, Unsubscribe, Answer, Accepted, Disable, Failed
<1>4. run'["watch"].msg = run["watch"].msg /\ run'["watch"].who = run["watch"].who
  <2>1. CASE Subscribe(d) \/ Unsubscribe(d)  BY <2>1 DEF Subscribe, Unsubscribe
  <2>2. CASE \E r \in Runs : Accepted(r, d) \/ Disable(r, d)
    BY <2>2, RunsAre DEF Accepted, Disable, IInv, TypeOK
  <2>3. CASE \E r \in Runs, gone, reached \in BOOLEAN : Failed(r, d, gone, reached)
    <3>1. PICK r \in Runs, gone \in BOOLEAN, reached \in BOOLEAN : Failed(r, d, gone, reached)
      BY <2>3
    <3>2. PICK judged \in BOOLEAN :
            run' = [run EXCEPT ![r].wait = @ \ {d},
                               ![r].doomed = IF judged THEN @ \cup {d} ELSE @]
      BY <3>1 DEF Failed, Verdict
    <3>3. run \in [Runs -> RunType] /\ "watch" \in Runs
      BY RunsAre DEF IInv, TypeOK, RunType
    <3>4. ASSUME NEW x \in Runs PROVE run'[x].msg = run[x].msg /\ run'[x].who = run[x].who
      <4>1. CASE judged  BY <3>2, <3>3, <4>1 DEF RunType
      <4>2. CASE ~judged  BY <3>2, <3>3, <4>2 DEF RunType
      <4>. QED  BY <4>1, <4>2
    <3>. QED  BY <3>3, <3>4
  <2>. QED  BY <2>1, <2>2, <2>3 DEF Answer
<1>5. Tries'  BY <1>2, <1>3, <1>4, AsideTries DEF IInv, TriesInv
<1>. QED  BY <1>2, <1>5 DEF TriesInv

\* The rows stay, and nobody has had a device ever since who has not.
LEMMA ReachableKept ==
  ASSUME Reachable, sub' = sub, reach' \subseteq reach PROVE Reachable'
  BY DEF Reachable

\* A broadcast, and the slices of any run.
LEMMA BesidesTries ==
  ASSUME IInv, TypeOK', TriesInv,
         \/ \E r \in Broadcasts, m \in Articles : Broadcast(r, m)
         \/ \E r \in Runs : NextSlice(r)
         \/ UNCHANGED vars
  PROVE  TriesInv'
<1>1. /\ UNCHANGED <<sub, age, agenda, list, faults, reach>> /\ pushed \subseteq pushed'
  BY DEF Broadcast, NextSlice, history, vars
<1>2. run'["watch"].msg = run["watch"].msg /\ run'["watch"].who = run["watch"].who
  <2>1. CASE \E r \in Broadcasts, m \in Articles : Broadcast(r, m)
    <3>1. run'["watch"] = run["watch"]  BY <2>1, RunsAre DEF Broadcast, IInv, TypeOK
    <3>. QED  BY <3>1
  <2>2. CASE \E r \in Runs : NextSlice(r)
    <3>1. PICK r \in Runs, slice \in SUBSET Devices :
            run' = [run EXCEPT ![r].todo = @ \ slice, ![r].wait = slice]
      BY <2>2, RunIs DEF NextSlice, IInv
    <3>. QED  BY <3>1, RunsAre DEF IInv, TypeOK
  <2>. QED  BY <2>1, <2>2 DEF vars
<1>3. Tries'  BY <1>1, <1>2, AsideTries DEF IInv, TriesInv
<1>. QED  BY <1>1, <1>3, ReachableKept DEF TriesInv

\* A new alert is as old as nothing, and whoever has a device may be reached.
LEMMA ArrivesTries ==
  ASSUME IInv, TypeOK', TriesInv, NEW m \in Messages, Arrives(m) PROVE TriesInv'
<1>1. /\ age' = [age EXCEPT ![m] = 0]
      /\ reach' = IF m \in Alerts THEN reach \cup ({m} \X {Owner[d] : d \in Active}) ELSE reach
      /\ UNCHANGED <<sub, pushed, run, agenda, list, faults>>
  BY DEF Arrives
<1>2. Reachable'
  <2>. SUFFICES ASSUME NEW p \in reach' PROVE \E e \in Of({p[2]}) : sub'[e].active
    BY DEF Reachable
  <2>1. CASE p \in reach  BY <1>1, <2>1 DEF TriesInv, Reachable
  <2>2. CASE p \notin reach
    <3>1. PICK d \in Active : p = <<m, Owner[d]>>  BY <1>1, <2>2
    <3>. QED  BY <1>1, <3>1 DEF Active, Of
  <2>. QED  BY <2>1, <2>2
<1>3. Tries'
  <2>. SUFFICES ASSUME NEW n \in Alerts, NEW u \in Users, Waiting(n, u)'
                PROVE  age'[n] <= faults' + One(Chance(n, u)')
    BY DEF Tries
  <2>1. One(Chance(n, u)') \in 0 .. 1 /\ faults' \in Nat /\ faults \in Nat
    BY <1>1, AgeIs DEF One, IInv
  <2>2. CASE n = m
    <3>1. age'[n] = 0  BY <1>1, <2>2 DEF IInv, TypeOK
    <3>. QED  BY <2>1, <3>1
  <2>3. CASE n # m
    <3>1. Waiting(n, u) /\ age'[n] = age[n] /\ (Chance(n, u)' <=> Chance(n, u))
      BY <1>1, <2>3, RunsAre DEF Waiting, Chance, IInv, TypeOK
    <3>. QED  BY <1>1, <3>1 DEF TriesInv, Tries, One
  <2>. QED  BY <2>2, <2>3
<1>. QED  BY <1>2, <1>3 DEF TriesInv

\* A story that leaves is no alert.
LEMMA AgesTries ==
  ASSUME IInv, TypeOK', TriesInv, NEW m \in Messages, Ages(m) PROVE TriesInv'
<1>1. /\ m \in Articles /\ Leave({m}) /\ age' = [age EXCEPT ![m] = None]
      /\ UNCHANGED <<sub, run, agenda, list, faults>>
  BY DEF Ages
<1>2. reach' \subseteq reach  BY <1>1 DEF Leave
<1>3. ASSUME NEW n \in Alerts, NEW u \in Users, Waiting(n, u)'
      PROVE  Waiting(n, u) /\ age'[n] = age[n] /\ (Chance(n, u) => Chance(n, u)')
  <2>1. n # m /\ n \in Messages  BY <1>1, MessagesAssumption, RunsAre
  <2>2. age'[n] = age[n]  BY <1>1, <2>1 DEF IInv, TypeOK
  <2>3. <<n, u>> \in pushed => <<n, u>> \in pushed'  BY <1>1, <2>1 DEF Leave
  <2>. QED  BY <1>1, <1>2, <1>3, <2>2, <2>3 DEF Waiting, Chance
<1>4. Tries'  BY <1>1, <1>3, TriesStep DEF IInv, TriesInv
<1>. QED  BY <1>1, <1>2, <1>4, ReachableKept DEF TriesInv

\* A quarter of an hour: one that finds the dispatcher at work is a fault, and
\* any other finds nothing in hand and puts what is recent on the agenda.
LEMMA QuarterTries == ASSUME IInv, TypeOK', TriesInv, Quarter PROVE TriesInv'
<1>. DEFINE gone == {n \in Alerts : age[n] = Window}
<1>1. /\ IF Idle THEN UNCHANGED faults ELSE faults' = faults + 1
      /\ agenda' = IF Idle THEN {n \in Alerts : Recent(n)} ELSE agenda
      /\ pushed' = {p \in pushed : p[1] \notin gone}
      /\ reach' = {p \in reach : p[1] \notin gone}
      /\ age' = [m \in Messages |->
                   IF m \in Articles \/ age[m] = None THEN age[m]
                   ELSE IF age[m] < Window THEN age[m] + 1 ELSE None]
      /\ UNCHANGED <<sub, run, list>>
  BY DEF Quarter, Leave, Fault
<1>2. Tries'
  <2>. SUFFICES ASSUME NEW n \in Alerts, NEW u \in Users, Waiting(n, u)'
                PROVE  age'[n] <= faults' + One(Chance(n, u)')
    BY DEF Tries
  <2>1. n \in Messages /\ n \notin Articles  BY MessagesAssumption, RunsAre
  <2>2. age[n] # None /\ age[n] < Window /\ age'[n] = age[n] + 1
    BY <1>1, <2>1 DEF Waiting
  <2>3. age[n] \in Nat /\ age[n] # Window /\ faults \in Nat
    BY <2>2, AgeIs, NumbersAssumption DEF IInv
  <2>4. Waiting(n, u)  BY <1>1, <2>2, <2>3 DEF Waiting
  <2>5. age[n] <= faults + One(Chance(n, u))  BY <2>4 DEF TriesInv, Tries
  <2>6. CASE Idle
    <3>1. run["watch"].msg = None /\ agenda = {}  BY <2>6 DEF Idle, Busy
    <3>2. ~Chance(n, u)  BY <3>1, NoneAssumption DEF Chance
    <3>3. Chance(n, u)'  BY <1>1, <2>2, <2>6 DEF Chance, Recent
    <3>. QED  BY <1>1, <2>2, <2>3, <2>5, <2>6, <3>2, <3>3 DEF One
  <2>7. CASE ~Idle
    <3>1. Chance(n, u)' <=> Chance(n, u)  BY <1>1, <2>7 DEF Chance
    <3>2. CASE Chance(n, u)  BY <1>1, <2>2, <2>3, <2>5, <2>7, <3>1, <3>2 DEF One
    <3>3. CASE ~Chance(n, u)  BY <1>1, <2>2, <2>3, <2>5, <2>7, <3>1, <3>3 DEF One
    <3>. QED  BY <3>2, <3>3
  <2>. QED  BY <2>6, <2>7
<1>3. reach' \subseteq reach  BY <1>1
<1>. QED  BY <1>1, <1>2, <1>3, ReachableKept DEF TriesInv

\* The alert comes off the agenda and into the hand: whoever has had a device
\* all the time has one now, and it is listed.
LEMMA DispatchTries ==
  ASSUME IInv, TypeOK', TriesInv, NEW m \in Alerts, Dispatch(m) PROVE TriesInv'
<1>. DEFINE listed == Of(Fresh(m)) \cap Active
<1>1. /\ run["watch"].msg = None /\ agenda' = agenda \ {m} /\ list' = listed
      /\ pushed' = IF listed = {} THEN pushed \cup ({m} \X Fresh(m)) ELSE pushed
      /\ run' = [run EXCEPT !["watch"].msg = IF listed = {} THEN None ELSE m]
      /\ UNCHANGED <<sub, age, reach, faults>>
  BY DEF Dispatch, Busy, history
<1>2. run'["watch"].msg = IF listed = {} THEN None ELSE m
  BY <1>1, RunsAre DEF IInv, TypeOK
<1>3. ASSUME NEW n \in Alerts, NEW u \in Users, Waiting(n, u)'
      PROVE  Waiting(n, u) /\ age'[n] = age[n] /\ (Chance(n, u) => Chance(n, u)')
  <2>1. Waiting(n, u)  BY <1>1, <1>3 DEF Waiting
  <2>2. n # None  BY NoneAssumption
  <2>3. CASE n # m  BY <1>1, <2>1, <2>2, <2>3 DEF Chance
  <2>4. CASE n = m
    <3>1. u \in Fresh(m)  BY <2>1, <2>4 DEF Waiting, Fresh
    <3>2. listed # {}  BY <1>1, <1>3, <2>4, <3>1 DEF Waiting
    <3>3. PICK e \in Of({u}) : sub[e].active
      BY <2>1, <2>4 DEF Waiting, TriesInv, Reachable
    <3>4. e \in listed /\ Owner[e] = u  BY <3>1, <3>3 DEF Of, Active
    <3>. QED  BY <1>1, <1>2, <2>1, <2>4, <3>2, <3>4 DEF Chance
  <2>. QED  BY <1>1, <2>3, <2>4
<1>4. Tries'  BY <1>1, <1>3, TriesStep DEF IInv, TriesInv
<1>. QED  BY <1>1, <1>4, ReachableKept DEF TriesInv

LEMMA NextUserTries == ASSUME IInv, TypeOK', TriesInv, NextUser PROVE TriesInv'
<1>1. PICK d \in list :
        /\ run["watch"].who = None
        /\ run' = [run EXCEPT !["watch"] =
                     [@ EXCEPT !.who = Owner[d], !.todo = list \cap Of({Owner[d]})]]
        /\ list' = list \ Of({Owner[d]})
        /\ UNCHANGED <<sub, age, pushed, agenda, reach, faults>>
  BY DEF NextUser, history
<1>2. run'["watch"].msg = run["watch"].msg /\ run'["watch"].who = Owner[d]
  <2>1. run["watch"] \in RunType  BY RunIs, RunsAre DEF IInv
  <2>2. run'["watch"] = [run["watch"] EXCEPT !.who = Owner[d], !.todo = list \cap Of({Owner[d]})]
    BY <1>1, RunsAre DEF IInv, TypeOK
  <2>. QED  BY <2>1, <2>2 DEF RunType
<1>3. ASSUME NEW n \in Alerts, NEW u \in Users, Waiting(n, u)'
      PROVE  Waiting(n, u) /\ age'[n] = age[n] /\ (Chance(n, u) => Chance(n, u)')
  <2>1. u # None  BY NoneAssumption
  <2>2. \A e \in list : Owner[e] = u => e \in list' \/ u = Owner[d]
    BY <1>1 DEF Of
  <2>. QED  BY <1>1, <1>2, <1>3, <2>1, <2>2 DEF Waiting, Chance
<1>4. Tries'  BY <1>1, <1>3, TriesStep DEF IInv, TriesInv
<1>. QED  BY <1>1, <1>4, ReachableKept DEF TriesInv

\* The user is written down, and the run goes on to those still listed.
LEMMA RecordTries ==
  ASSUME IInv, TypeOK', TriesInv, NEW r \in Runs, Record(r) PROVE TriesInv'
<1>1. /\ Through(r) /\ pushed' = pushed \cup {<<run[r].msg, run[r].who>>}
      /\ UNCHANGED <<sub, age, agenda, list, reach, faults>>
  BY DEF Record, history
<1>2. /\ run'[r] = [Off EXCEPT !.msg = IF r = "watch" /\ list # {} THEN run[r].msg ELSE None]
      /\ \A x \in Runs \ {r} : run'[x] = run[x]
  BY <1>1, ThroughRun
<1>3. ASSUME NEW n \in Alerts, NEW u \in Users, Waiting(n, u)'
      PROVE  Waiting(n, u) /\ age'[n] = age[n] /\ (Chance(n, u) => Chance(n, u)')
  <2>1. Waiting(n, u) /\ <<n, u>> # <<run[r].msg, run[r].who>>
    BY <1>1, <1>3 DEF Waiting
  <2>2. CASE r # "watch"
    <3>1. run'["watch"] = run["watch"]  BY <1>2, <2>2, RunsAre
    <3>. QED  BY <1>1, <2>1, <3>1 DEF Chance
  <2>3. CASE r = "watch"
    <3>1. list # {} => run'["watch"].msg = run["watch"].msg  BY <1>2, <2>3 DEF Off
    <3>. QED  BY <1>1, <2>1, <2>3, <3>1 DEF Chance
  <2>. QED  BY <2>2, <2>3
<1>4. Tries'  BY <1>1, <1>3, TriesStep DEF IInv, TriesInv
<1>. QED  BY <1>1, <1>4, ReachableKept DEF TriesInv

\* A fault is the loss of one chance at most.
LEMMA FaultTries ==
  ASSUME IInv, TypeOK', TriesInv,
         \/ \E r \in Runs : RecordFails(r)
         \/ \E process \in Processes : Crash(process)
  PROVE  TriesInv'
<1>1. UNCHANGED <<sub, age, pushed, reach>> /\ faults' = faults + 1
  BY DEF RecordFails, Crash, Fault
<1>2. \A n \in Alerts, u \in Users : Waiting(n, u)' => Waiting(n, u)  BY <1>1 DEF Waiting
<1>3. Tries'  BY <1>1, <1>2, TriesStep DEF IInv, TriesInv
<1>. QED  BY <1>1, <1>3, ReachableKept DEF TriesInv

LEMMA TriesKept == IInv /\ TriesInv /\ [Next]_vars => TriesInv'
<1>. SUFFICES ASSUME IInv, TriesInv, [Next]_vars PROVE TriesInv'  OBVIOUS
<1>0. TypeOK'  BY NextStep DEF Kept, IInv
<1>1. CASE \E d \in Devices : Subscribe(d) \/ Unsubscribe(d)  BY <1>0, <1>1, RowsTries
<1>2. CASE \E m \in Messages : Arrives(m) \/ Ages(m)
  BY <1>0, <1>2, ArrivesTries, AgesTries
<1>3. CASE \/ \E r \in Broadcasts, m \in Articles : Broadcast(r, m)
           \/ UNCHANGED vars
  BY <1>0, <1>3, BesidesTries
<1>4. CASE Quarter  BY <1>0, <1>4, QuarterTries
<1>5. CASE \E r \in Runs : Progress(r)
  <2>. PICK r \in Runs : Progress(r)  BY <1>5
  <2>1. CASE NextSlice(r)  BY <1>0, <2>1, BesidesTries
  <2>2. CASE Record(r)  BY <1>0, <2>2, RecordTries
  <2>3. CASE RecordFails(r)  BY <1>0, <2>3, FaultTries
  <2>4. CASE \E d \in Devices : Answer(r, d)  BY <1>0, <2>4, RowsTries
  <2>5. CASE NextUser  BY <1>0, <2>5, NextUserTries
  <2>6. CASE \E n \in Alerts : Dispatch(n)  BY <1>0, <2>6, DispatchTries
  <2>. QED  BY <2>1, <2>2, <2>3, <2>4, <2>5, <2>6 DEF Progress
<1>6. CASE \E process \in Processes : Crash(process)  BY <1>0, <1>6, FaultTries
<1>. QED  BY <1>1, <1>2, <1>3, <1>4, <1>5, <1>6 DEF Next

\* Only the quarter forgets an alert, and only one that is out of the window
\* and that nobody has in hand.
LEMMA OnlyQuarter ==
  ASSUME IInv, [Next]_vars, NEW n \in Alerts, age[n] # None, age'[n] = None
  PROVE  age[n] = Window /\ ~Held(n)
<1>1. n \in Messages /\ None \notin Nat  BY RunsAre, NoneAssumption
<1>2. CASE Quarter
  <2>1. age[n] \in 0 .. Window  BY <1>1, AgeIs DEF IInv
  <2>2. ~(age[n] < Window)
    <3>1. age[n] + 1 # None  BY <1>1, <2>1, NumbersAssumption
    <3>2. n \notin Articles  BY MessagesAssumption
    <3>. QED  BY <1>1, <1>2, <3>1, <3>2 DEF Quarter
  <2>3. age[n] = Window  BY <2>1, <2>2, NumbersAssumption
  <2>. QED  BY <1>2, <2>3 DEF Quarter, Leave
<1>3. CASE \E m \in Messages : Arrives(m) \/ Ages(m)
  <2>. PICK m \in Messages : Arrives(m) \/ Ages(m)  BY <1>3
  <2>1. CASE Arrives(m)
    <3>1. age' = [age EXCEPT ![m] = 0] /\ 0 # None  BY <1>1, <2>1 DEF Arrives
    <3>. QED  BY <1>1, <3>1 DEF IInv, TypeOK
  <2>2. CASE Ages(m)
    <3>1. age' = [age EXCEPT ![m] = None] /\ n # m
      BY <2>2, MessagesAssumption DEF Ages
    <3>. QED  BY <1>1, <3>1 DEF IInv, TypeOK
  <2>. QED  BY <2>1, <2>2
<1>5. CASE \E d \in Devices : Subscribe(d) \/ Unsubscribe(d)
  BY <1>5 DEF Subscribe, Unsubscribe
<1>6. CASE \E r \in Broadcasts, m \in Articles : Broadcast(r, m)  BY <1>6 DEF Broadcast
<1>7. CASE \E r \in Runs : Progress(r)
  <2>. PICK r \in Runs : Progress(r)  BY <1>7
  <2>1. CASE NextSlice(r) \/ Record(r) \/ RecordFails(r) \/ NextUser
    BY <2>1 DEF NextSlice, Record, RecordFails, NextUser
  <2>2. CASE \E m \in Alerts : Dispatch(m)  BY <2>2 DEF Dispatch
  <2>3. CASE \E d \in Devices : Answer(r, d)
    BY <2>3 DEF Answer, Accepted, Disable, Failed
  <2>. QED  BY <2>1, <2>2, <2>3 DEF Progress
<1>8. CASE \E process \in Processes : Crash(process)  BY <1>8 DEF Crash
<1>9. CASE UNCHANGED vars  BY <1>9 DEF vars
<1>. QED  BY <1>2, <1>3, <1>5, <1>6, <1>7, <1>8, <1>9 DEF Next

\* Whoever had a device all the time since an alert that is forgotten untried
\* lost a chance in every quarter of the window: that takes as many faults.
LEMMA UntriedTakesFaults ==
  ASSUME IInv, TriesInv, [Next]_vars, NEW n \in Alerts, NEW u \in Users,
         age[n] # None, age'[n] = None, <<n, u>> \in reach, <<n, u>> \notin pushed
  PROVE  Window <= faults
<1>1. age[n] = Window /\ ~Held(n)  BY OnlyQuarter
<1>2. ~Chance(n, u)  BY <1>1, RunsAre DEF Held, Chance
<1>3. age[n] <= faults + One(Chance(n, u))  BY DEF TriesInv, Tries, Waiting
<1>. QED  BY <1>1, <1>2, <1>3, AgeIs DEF One, IInv

\* An alert is not forgotten before it was sent to, or tried for, every user
\* who watches the event and had a device all the time since: each skipped,
\* failed or killed run of the dispatcher is made up for by the next, as long
\* as there are fewer of them than quarters in the lookback window.
THEOREM AlertTriedHolds == ASSUME MaxFaults < Window PROVE Spec => AlertTried
<1>1. Init => IInv /\ TriesInv
  <2>1. Init => TriesInv  BY DEF Init, TriesInv, Reachable, Tries, Waiting
  <2>. QED  BY <2>1, InitHolds
<1>2. IInv /\ TriesInv /\ [Next]_vars => IInv' /\ TriesInv'
  BY NextStep, TriesKept DEF Kept
<1>3. ASSUME IInv, TriesInv, [Next]_vars
      PROVE  [\A n \in Alerts, u \in Users :
                age[n] # None /\ age'[n] = None /\ <<n, u>> \in reach
                => <<n, u>> \in pushed]_vars
  <2>. SUFFICES ASSUME NEW n \in Alerts, NEW u \in Users, age[n] # None, age'[n] = None,
                       <<n, u>> \in reach, <<n, u>> \notin pushed
                PROVE  FALSE
    OBVIOUS
  <2>1. Window <= faults  BY <1>3, UntriedTakesFaults
  <2>2. faults <= MaxFaults  BY <1>3, NumbersAssumption DEF IInv, TypeOK
  <2>3. faults \in Nat  BY <1>3, NumbersAssumption DEF IInv, TypeOK
  <2>. QED  BY <2>1, <2>2, <2>3, NumbersAssumption
<1>. QED  BY <1>1, <1>2, <1>3, PTL DEF Spec, AlertTried
=============================================================================

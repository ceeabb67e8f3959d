-------------------------- MODULE SocialCycleProofs --------------------------
(***************************************************************************)
(* Proofs about SocialCycle for any number of processes, concurrent        *)
(* cycles, platforms, stories and events, and any hang threshold.          *)
(*                                                                         *)
(* SingleFlight and HeartbeatHonest rest on facts that neither states:     *)
(* start times never repeat, a running cycle that has lost the flag of its *)
(* process is already hung (Owner), and a completion that has read the     *)
(* heartbeat row is not older than any cycle it does not overtake          *)
(* (Unwritten).                                                            *)
(*                                                                         *)
(* DuplicatesExplained counts the cycles that may still ship a story;      *)
(* PickedOnce follows an event's carousel from its post to its row.        *)
(***************************************************************************)
EXTENDS SocialCycle, SequenceTheorems, FiniteSetTheorems, TLAPS

Cycle == [pc : {"idle", "select", "prepare", "post", "answer", "complete", "error"},
          proc : Procs \cup {None}, startedAt : Times, dry : BOOLEAN,
          todo : Seq(Plats), article : Articles \cup {None},
          event : Events \cup {None}, fallback : BOOLEAN]

\* A visit in progress has a platform and a story; a running cycle a process.
Shape ==
  \A c \in Cycles :
    /\ cyc[c].pc \in {"prepare", "post", "answer"}
         => cyc[c].todo # <<>> /\ cyc[c].article \in Articles
    /\ Running(c) => cyc[c].proc \in Procs

\* Nothing started in the future, and no start time was given out twice.
Starts ==
  /\ lastStart <= now
  /\ heartbeat.startedAt <= lastStart
  /\ \A c \in Cycles : Running(c) => cyc[c].startedAt <= lastStart
  /\ \A c, d \in Cycles :
       Running(c) /\ Running(d) /\ c # d /\ cyc[c].startedAt # 0
         => cyc[d].startedAt # cyc[c].startedAt

\* A running cycle holds the flag of its process or is hung.
Owner ==
  \A c \in Cycles :
    Running(c) /\ cyc[c].startedAt # 0
      => \/ inFlight[cyc[c].proc] = cyc[c].startedAt
         \/ now - cyc[c].startedAt > HangAge

TypeInv == TypeOK /\ Shape
FlightInv == TypeInv /\ Starts /\ Owner /\ SingleFlight

\* A completion between its SELECT and its upsert belongs to the newest of the
\* cycles that have not overtaken it.
Unwritten ==
  \A c \in Cycles : Writing(c) => \A t \in open \ overtaken : t <= cyc[c].startedAt

BeatInv == TypeInv /\ Starts /\ HeartbeatHonest /\ Unwritten

\* The steps that end a cycle.
Closing(c) == Complete(c) \/ BothRowsFail(c) \/ RecordEnd(c) \/ RecordEndFails(c)

-----------------------------------------------------------------------------
(* Types.                                                                  *)

LEMMA PlatformsType == Platforms \in Seq(Plats)
  BY PlatformsAssumption DEF Plats, Range

LEMMA IdleType == Idle \in Cycle
  BY TimesAssumption DEF Idle, Cycle, Times

LEMMA TodoTail ==
  ASSUME NEW s \in Seq(Plats), s # <<>>
  PROVE  Tail(s) \in Seq(Plats) /\ Head(s) \in Plats
  BY HeadTailProperties

\* What Leave, Choose and the pc changes do to one cycle.
LEMMA LeaveType ==
  ASSUME NEW x \in Cycle, x.todo # <<>>
  PROVE  [x EXCEPT !.pc = "select", !.todo = Tail(@), !.article = None,
                   !.event = None, !.fallback = FALSE] \in Cycle
<1>1. Tail(x.todo) \in Seq(Plats)  BY TodoTail DEF Cycle
<1>. QED  BY <1>1 DEF Cycle

\* A step that touches one cycle only, keeping its identity, keeps the shape.
LEMMA OneCycle ==
  ASSUME TypeInv, NEW c \in Cycles, NEW y \in Cycle,
         cyc' = [cyc EXCEPT ![c] = y],
         y.pc \in {"prepare", "post", "answer"} => y.todo # <<>> /\ y.article \in Articles,
         y.pc # "idle" => y.proc \in Procs
  PROVE  cyc' \in [Cycles -> Cycle] /\ Shape'
<1>1. cyc \in [Cycles -> Cycle]  BY DEF TypeInv, TypeOK, Cycle
<1>2. cyc' \in [Cycles -> Cycle]  BY <1>1
<1>3. \A d \in Cycles : cyc'[d] = IF d = c THEN y ELSE cyc[d]  BY <1>1
<1>. QED  BY <1>2, <1>3 DEF TypeInv, Shape, Running

THEOREM InitType == Init => TypeInv
<1>. SUFFICES ASSUME Init PROVE TypeInv  OBVIOUS
<1>1. cyc \in [Cycles -> Cycle]  BY IdleType DEF Init
<1>2. Shape  BY <1>1 DEF Init, Shape, Running, Idle
<1>3. \A pl \in Plats, a \in Articles : NoRow \in [status : {"none", "posted", "failed"},
                      at : Times, event : Events \cup {None}]
  BY TimesAssumption DEF NoRow, Times
<1>. QED  BY <1>1, <1>2, <1>3, TimesAssumption DEF Init, TypeInv, TypeOK, Cycle, Times

\* Leaving a platform, whatever else the step does.
LEMMA LeaveShape ==
  ASSUME TypeInv, NEW c \in Cycles, cyc[c].pc \in {"select", "prepare", "post", "answer"},
         cyc[c].todo # <<>>, Leave(c)
  PROVE  cyc' \in [Cycles -> Cycle] /\ Shape'
<1>. DEFINE y == [cyc[c] EXCEPT !.pc = "select", !.todo = Tail(@), !.article = None,
                                !.event = None, !.fallback = FALSE]
<1>1. cyc[c] \in Cycle  BY DEF TypeInv, TypeOK, Cycle
<1>2. y \in Cycle  BY <1>1, LeaveType
<1>3. y.pc = "select" /\ y.proc = cyc[c].proc  BY <1>1 DEF Cycle
<1>4. cyc[c].proc \in Procs  BY DEF TypeInv, Shape, Running
<1>4a. cyc \in [Cycles -> Cycle]  BY DEF TypeInv, TypeOK, Cycle
<1>5. cyc' = [cyc EXCEPT ![c] = y]  BY <1>1, <1>4a DEF Leave, Cycle
<1>. HIDE DEF y
<1>. QED  BY <1>2, <1>3, <1>4, <1>5, OneCycle

\* Changing the pc, the story, the event or the fallback of a running cycle.
LEMMA PatchShape ==
  ASSUME TypeInv, NEW c \in Cycles, Running(c), cyc[c].todo # <<>>,
         NEW pc \in {"prepare", "post", "answer"}, NEW a \in Articles,
         NEW e \in Events \cup {None}, NEW b \in BOOLEAN,
         cyc' = [cyc EXCEPT ![c].pc = pc, ![c].article = a, ![c].event = e, ![c].fallback = b]
  PROVE  cyc' \in [Cycles -> Cycle] /\ Shape'
<1>. DEFINE y == [cyc[c] EXCEPT !.pc = pc, !.article = a, !.event = e, !.fallback = b]
<1>1. cyc \in [Cycles -> Cycle] /\ cyc[c] \in Cycle  BY DEF TypeInv, TypeOK, Cycle
<1>2. y \in Cycle  BY <1>1 DEF Cycle
<1>3. /\ y.pc = pc /\ y.article = a /\ y.todo = cyc[c].todo /\ y.proc = cyc[c].proc
  BY <1>1 DEF Cycle
<1>4. cyc[c].proc \in Procs  BY DEF TypeInv, Shape
<1>5. cyc' = [cyc EXCEPT ![c] = y]  BY <1>1 DEF Cycle
<1>. HIDE DEF y
<1>. QED  BY <1>2, <1>3, <1>4, <1>5, OneCycle

LEMMA UpsertType ==
  ASSUME TypeInv, NEW c \in Cycles, NEW status \in {"posted", "failed"},
         NEW e \in Events \cup {None}, Upsert(c, status, e)
  PROVE  rows' \in [Plats -> [Articles -> [status : {"none", "posted", "failed"}, at : Times,
                                           event : Events \cup {None}]]]
<1>. DEFINE Row == [status : {"none", "posted", "failed"}, at : Times, event : Events \cup {None}]
            r == [status |-> status, at |-> IF status = "posted" THEN now ELSE 0, event |-> e]
<1>1. r \in Row
  <2>1. now \in Times /\ 0 \in Times  BY TimesAssumption DEF TypeInv, TypeOK, Times
  <2>. QED  BY <2>1
<1>2. rows \in [Plats -> [Articles -> Row]]  BY DEF TypeInv, TypeOK
<1>3. rows' = [rows EXCEPT ![Here(c)][cyc[c].article] = r]  BY DEF Upsert
<1>. HIDE DEF Row, r
<1>. DEFINE h == Here(c) a == cyc[c].article
<1>4. rows' = [rows EXCEPT ![h][a] = r]  BY <1>3
<1>. HIDE DEF h, a
<1>5. CASE h \in Plats
  <2>1. [rows[h] EXCEPT ![a] = r] \in [Articles -> Row]  BY <1>1, <1>2, <1>5
  <2>2. rows' \in [Plats -> [Articles -> Row]]  BY <1>2, <1>4, <2>1
  <2>. QED  BY <2>2 DEF Row
<1>6. CASE h \notin Plats
  <2>1. rows' = rows  BY <1>2, <1>4, <1>6
  <2>. QED  BY <1>2, <2>1 DEF Row
<1>. QED  BY <1>5, <1>6

LEMMA RecordFailedType ==
  ASSUME TypeInv, NEW c \in Cycles, cyc[c].pc \in {"post", "answer"}, RecordFailed(c)
  PROVE  /\ cyc' \in [Cycles -> Cycle] /\ Shape'
         /\ rows' \in [Plats -> [Articles -> [status : {"none", "posted", "failed"}, at : Times,
                                              event : Events \cup {None}]]]
<1>1. cyc[c].todo # <<>>  BY DEF TypeInv, Shape
<1>. QED  BY <1>1, LeaveShape, UpsertType DEF RecordFailed

\* What ends a cycle: it is gone, or is about to write its heartbeat.
LEMMA EndIs ==
  ASSUME TypeInv, NEW c \in Cycles, NEW phase \in {"complete", "error"}, End(c, phase)
  PROVE  \E y \in Cycle :
           /\ cyc' = [cyc EXCEPT ![c] = y]
           /\ \/ y = Idle /\ Release(c)
              \/ /\ y.pc = phase /\ y.todo = cyc[c].todo /\ y.proc = cyc[c].proc
                 /\ y.startedAt = cyc[c].startedAt
                 /\ inFlight' = inFlight
<1>1. cyc \in [Cycles -> Cycle] /\ cyc[c] \in Cycle  BY DEF TypeInv, TypeOK, Cycle
<1>2. CASE Beats(c) /\ OwnsRow(c)
  <2>1. PICK y : y = [cyc[c] EXCEPT !.pc = phase]  OBVIOUS
  <2>2. cyc' = [cyc EXCEPT ![c] = y]  BY <1>1, <1>2, <2>1 DEF End
  <2>3. /\ y \in Cycle /\ y.pc = phase /\ y.todo = cyc[c].todo /\ y.proc = cyc[c].proc
        /\ y.startedAt = cyc[c].startedAt
    BY <1>1, <2>1 DEF Cycle
  <2>. QED  BY <1>2, <2>2, <2>3 DEF End
<1>3. CASE ~(Beats(c) /\ OwnsRow(c))
  BY <1>3, IdleType DEF End, Return
<1>. QED  BY <1>2, <1>3

LEMMA ClosingIs ==
  ASSUME TypeInv, NEW c \in Cycles, Closing(c)
  PROVE  /\ Running(c) /\ UNCHANGED <<now, posts, lastStart, overlaps>>
         /\ heartbeat' = heartbeat \/ heartbeat' = [phase |-> cyc[c].pc,
                                                    startedAt |-> cyc[c].startedAt]
         /\ \E y \in Cycle :
              /\ cyc' = [cyc EXCEPT ![c] = y]
              /\ \/ y = Idle /\ Release(c)
                 \/ /\ y.pc \in {"complete", "error"} /\ y.todo = cyc[c].todo
                    /\ y.proc = cyc[c].proc /\ y.startedAt = cyc[c].startedAt
                    /\ inFlight' = inFlight
<1>1. Running(c)
  BY DEF Closing, Complete, BothRowsFail, RecordEnd, RecordEndFails, Writing, Running
<1>2. UNCHANGED <<now, posts, lastStart, overlaps>>
  BY DEF Closing, Complete, BothRowsFail, RecordEnd, RecordEndFails, End, starts
<1>3. heartbeat' = heartbeat \/ heartbeat' = [phase |-> cyc[c].pc, startedAt |-> cyc[c].startedAt]
  BY DEF Closing, Complete, BothRowsFail, RecordEnd, RecordEndFails, End
<1>4. CASE End(c, "complete") \/ End(c, "error")
  <2>1. PICK phase \in {"complete", "error"} : End(c, phase)  BY <1>4
  <2>. QED  BY <1>1, <1>2, <1>3, <2>1, EndIs
<1>5. CASE Return(c)
  BY <1>1, <1>2, <1>3, <1>5, IdleType DEF Return
<1>. QED  BY <1>4, <1>5 DEF Closing, Complete, BothRowsFail, RecordEnd, RecordEndFails

LEMMA ClosingType ==
  ASSUME TypeInv, NEW c \in Cycles, Closing(c)
  PROVE  TypeInv'
<1>1. PICK y \in Cycle :
        /\ cyc' = [cyc EXCEPT ![c] = y]
        /\ \/ y = Idle /\ Release(c)
           \/ /\ y.pc \in {"complete", "error"} /\ y.todo = cyc[c].todo
              /\ y.proc = cyc[c].proc /\ y.startedAt = cyc[c].startedAt
              /\ inFlight' = inFlight
  BY ClosingIs
<1>2. cyc[c].proc \in Procs /\ UNCHANGED <<now, posts, lastStart, overlaps>>
  BY ClosingIs DEF TypeInv, Shape
<1>3. cyc' \in [Cycles -> Cycle] /\ Shape'
  <2>1. y.pc \notin {"prepare", "post", "answer"} /\ (y.pc # "idle" => y.proc \in Procs)
    BY <1>1, <1>2 DEF Idle
  <2>. QED  BY <1>1, <2>1, OneCycle
<1>4. inFlight' \in [Procs -> Times]
  <2>1. inFlight \in [Procs -> Times] /\ 0 \in Times
    BY TimesAssumption DEF TypeInv, TypeOK, Times
  <2>2. \/ inFlight' = inFlight
        \/ inFlight' = [inFlight EXCEPT ![cyc[c].proc] = 0]
    BY <1>1 DEF Release
  <2>. QED  BY <2>1, <2>2
<1>5. heartbeat' \in [phase : {"none", "start", "complete", "error"}, startedAt : Times]
  <2>1. heartbeat \in [phase : {"none", "start", "complete", "error"}, startedAt : Times]
        /\ cyc[c].startedAt \in Times
    BY DEF TypeInv, TypeOK
  <2>2. \/ heartbeat' = heartbeat
        \/ /\ heartbeat' = [phase |-> cyc[c].pc, startedAt |-> cyc[c].startedAt]
           /\ cyc[c].pc \in {"complete", "error"}
    BY DEF Closing, Complete, BothRowsFail, RecordEnd, RecordEndFails, End, Writing
  <2>. QED  BY <2>1, <2>2
<1>6. open' \subseteq open /\ overtaken' = overtaken
  BY DEF Closing, Complete, BothRowsFail, RecordEnd, RecordEndFails, End, starts
<1>7. faults' \in Nat /\ pokes' = pokes
  BY DEF Closing, Complete, BothRowsFail, RecordEnd, RecordEndFails, counts, Fault,
         TypeInv, TypeOK
<1>. QED  BY <1>2, <1>3, <1>4, <1>5, <1>6, <1>7 DEF TypeInv, TypeOK, Cycle, posts

\* The flag is taken by a start that runs a cycle and by one that throws.
LEMMA TakeFlagType ==
  ASSUME TypeInv, NEW p \in Procs, NEW dry \in BOOLEAN, TakeFlag(p), Dispatch(p, dry)
  PROVE  /\ inFlight' \in [Procs -> Times] /\ lastStart' \in Times /\ pokes' \in Nat
  BY TimesAssumption DEF TakeFlag, Dispatch, TypeInv, TypeOK, Times

LEMMA OccupyType ==
  ASSUME TypeInv, NEW c \in Cycles, NEW p \in Procs, NEW t \in Times, NEW dry \in BOOLEAN,
         NEW todo \in Seq(Plats), Occupy(c, p, t, dry, todo)
  PROVE  cyc' \in [Cycles -> Cycle] /\ Shape' /\ overlaps' \in Nat
<1>. DEFINE y == [Idle EXCEPT !.pc = "select", !.proc = p, !.startedAt = t, !.dry = dry,
                              !.todo = todo]
<1>1. y \in Cycle  BY IdleType DEF Cycle
<1>2. y.pc = "select" /\ y.proc = p  BY IdleType DEF Cycle
<1>3. cyc' = [cyc EXCEPT ![c] = y]  BY DEF Occupy
<1>4. overlaps' \in Nat  BY DEF Occupy, TypeInv, TypeOK
<1>. HIDE DEF y
<1>. QED  BY <1>1, <1>2, <1>3, <1>4, OneCycle

-----------------------------------------------------------------------------
(* Every step keeps the types.                                             *)

LEMMA SelectType ==
  ASSUME TypeInv, NEW c \in Cycles, Select(c)
  PROVE  cyc' \in [Cycles -> Cycle] /\ Shape'
<1>1. CASE Leave(c)  BY <1>1, LeaveShape DEF Select
<1>2. ASSUME NEW a \in Articles, NEW e \in Events \cup {None}, Choose(c, a, e)
      PROVE  cyc' \in [Cycles -> Cycle] /\ Shape'
  <2>1. cyc \in [Cycles -> Cycle] /\ cyc[c] \in Cycle  BY DEF TypeInv, TypeOK, Cycle
  <2>2. cyc' = [cyc EXCEPT ![c].pc = "prepare", ![c].article = a, ![c].event = e,
                           ![c].fallback = cyc[c].fallback]
    BY <1>2, <2>1 DEF Choose, Cycle
  <2>3. Running(c) /\ cyc[c].todo # <<>> /\ cyc[c].fallback \in BOOLEAN
    BY <2>1 DEF Select, Running, Cycle
  <2>. QED  BY <2>2, <2>3, PatchShape
<1>3. \A e \in Pickable : e \in Events /\ Leads(e) \subseteq Articles
  BY DEF Pickable, Leads, Unposted
<1>4. Unposted(Here(c)) \subseteq Articles  BY DEF Unposted
<1>. QED  BY <1>1, <1>2, <1>3, <1>4 DEF Select

LEMMA PrepareType ==
  ASSUME TypeInv, NEW c \in Cycles, Prepare(c)
  PROVE  cyc' \in [Cycles -> Cycle] /\ Shape'
<1>0. cyc[c].todo # <<>> /\ cyc[c].article \in Articles  BY DEF Prepare, TypeInv, Shape
<1>1. CASE Leave(c)  BY <1>0, <1>1, LeaveShape DEF Prepare
<1>2. CASE ~Leave(c)
  <2>1. cyc \in [Cycles -> Cycle] /\ cyc[c] \in Cycle  BY DEF TypeInv, TypeOK, Cycle
  <2>2. PICK e \in DeckChoices(c) : cyc' = [cyc EXCEPT ![c].pc = "post", ![c].event = e]
    BY <1>2 DEF Prepare
  <2>3. e \in Events \cup {None}
    BY <1>0, <2>1, EventsAssumption DEF DeckChoices, Cycle
  <2>4. cyc' = [cyc EXCEPT ![c].pc = "post", ![c].article = cyc[c].article, ![c].event = e,
                           ![c].fallback = cyc[c].fallback]
    BY <2>1, <2>2 DEF Cycle
  <2>5. Running(c) /\ cyc[c].fallback \in BOOLEAN  BY <2>1 DEF Prepare, Running, Cycle
  <2>. QED  BY <1>0, <2>3, <2>4, <2>5, PatchShape
<1>. QED  BY <1>1, <1>2

LEMMA ShipType ==
  ASSUME TypeInv, NEW c \in Cycles, Ship(c)
  PROVE  /\ cyc' \in [Cycles -> Cycle] /\ Shape'
         /\ shipped' \in [Plats -> [Articles -> Nat]]
         /\ decks' \in [Events -> Nat]
<1>0. cyc[c].todo # <<>> /\ cyc[c].article \in Articles  BY DEF Ship, TypeInv, Shape
<1>1. cyc \in [Cycles -> Cycle] /\ cyc[c] \in Cycle  BY DEF TypeInv, TypeOK, Cycle
<1>2. cyc' \in [Cycles -> Cycle] /\ Shape'
  <2>1. cyc' = [cyc EXCEPT ![c].pc = "answer", ![c].article = cyc[c].article,
                           ![c].event = cyc[c].event, ![c].fallback = cyc[c].fallback]
    BY <1>1 DEF Ship, Cycle
  <2>2. /\ Running(c) /\ cyc[c].fallback \in BOOLEAN
        /\ cyc[c].event \in Events \cup {None}
    BY <1>1 DEF Ship, Running, Cycle
  <2>. QED  BY <1>0, <2>1, <2>2, PatchShape
<1>3. Here(c) \in Plats
  BY <1>0, <1>1, TodoTail DEF Here, Cycle
<1>4. shipped' \in [Plats -> [Articles -> Nat]]
  <2>. DEFINE h == Here(c) a == cyc[c].article
  <2>1. shipped' = [shipped EXCEPT ![h][a] = @ + 1] /\ h \in Plats /\ a \in Articles
    BY <1>0, <1>3 DEF Ship
  <2>2. shipped \in [Plats -> [Articles -> Nat]]  BY DEF TypeInv, TypeOK
  <2>. HIDE DEF h, a
  <2>3. shipped[h][a] + 1 \in Nat  BY <2>1, <2>2
  <2>4. [shipped[h] EXCEPT ![a] = @ + 1] \in [Articles -> Nat]  BY <2>1, <2>2, <2>3
  <2>. QED  BY <2>1, <2>2, <2>4
<1>5. decks' \in [Events -> Nat]
  <2>. DEFINE e == cyc[c].event
  <2>1. decks' = IF e = None THEN decks ELSE [decks EXCEPT ![e] = @ + 1]  BY DEF Ship
  <2>2. decks \in [Events -> Nat]  BY DEF TypeInv, TypeOK
  <2>3. e \in Events \cup {None}  BY <1>1 DEF Cycle
  <2>. HIDE DEF e
  <2>4. CASE e \in Events
    <3>1. decks[e] + 1 \in Nat  BY <2>2, <2>4
    <3>. QED  BY <2>1, <2>2, <2>4, <3>1
  <2>. QED  BY <2>1, <2>2, <2>3, <2>4
<1>. QED  BY <1>2, <1>4, <1>5

LEMMA AnsweredType ==
  ASSUME TypeInv, NEW c \in Cycles, Answered(c)
  PROVE  /\ cyc' \in [Cycles -> Cycle] /\ Shape'
         /\ rows' \in [Plats -> [Articles -> [status : {"none", "posted", "failed"}, at : Times,
                                              event : Events \cup {None}]]]
<1>1. CASE Conflicts(c)  BY <1>1, RecordFailedType DEF Answered
<1>2. CASE ~Conflicts(c)
  <2>1. cyc[c].todo # <<>>  BY DEF Answered, TypeInv, Shape
  <2>2. cyc[c].event \in Events \cup {None}  BY DEF TypeInv, TypeOK
  <2>. QED  BY <1>2, <2>1, <2>2, LeaveShape, UpsertType DEF Answered
<1>. QED  BY <1>1, <1>2

LEMMA PostFailsType ==
  ASSUME TypeInv, NEW c \in Cycles, PostFails(c)
  PROVE  /\ cyc' \in [Cycles -> Cycle] /\ Shape'
         /\ rows' \in [Plats -> [Articles -> [status : {"none", "posted", "failed"}, at : Times,
                                              event : Events \cup {None}]]]
<1>0. cyc[c].todo # <<>> /\ cyc[c].article \in Articles /\ Running(c)
  BY DEF PostFails, TypeInv, Shape, Running
<1>1. CASE RecordFailed(c)  BY <1>1, RecordFailedType DEF PostFails
<1>2. CASE ~RecordFailed(c)
  <2>1. cyc \in [Cycles -> Cycle] /\ cyc[c] \in Cycle  BY DEF TypeInv, TypeOK, Cycle
  <2>2. cyc' = [cyc EXCEPT ![c].pc = "post", ![c].article = cyc[c].article,
                           ![c].event = cyc[c].event, ![c].fallback = TRUE]
    BY <1>2, <2>1 DEF PostFails, Cycle
  <2>3. cyc[c].event \in Events \cup {None}  BY <2>1 DEF Cycle
  <2>4. rows' = rows  BY <1>2 DEF PostFails
  <2>. QED  BY <1>0, <2>2, <2>3, <2>4, PatchShape DEF TypeInv, TypeOK
<1>. QED  BY <1>1, <1>2

\* TypeOK is kept when every variable that changes is typed.
LEMMA StepType == TypeInv /\ [Next]_vars => TypeInv'
<1>. SUFFICES ASSUME TypeInv, [Next]_vars PROVE TypeInv'  OBVIOUS
<1>. USE TimesAssumption DEF TypeInv, TypeOK, Cycle
<1>. DEFINE CycOK == cyc' \in [Cycles -> Cycle] /\ Shape'
<1>1. ASSUME NEW c \in Cycles, Select(c) PROVE TypeInv'
  BY <1>1, SelectType DEF Select, posts, counts, starts
<1>2. ASSUME NEW c \in Cycles, Prepare(c) PROVE TypeInv'
  BY <1>2, PrepareType DEF Prepare, posts, counts, starts
<1>3. ASSUME NEW c \in Cycles, Ship(c) PROVE TypeInv'
  BY <1>3, ShipType DEF Ship, counts, starts
<1>4. ASSUME NEW c \in Cycles, Answered(c) PROVE TypeInv'
  BY <1>4, AnsweredType DEF Answered, counts, starts
<1>5. ASSUME NEW c \in Cycles, PostFails(c) PROVE TypeInv'
  <2>1. CycOK  BY <1>5, PostFailsType
  <2>2. rows' \in [Plats -> [Articles -> [status : {"none", "posted", "failed"}, at : Times,
                                          event : Events \cup {None}]]]
    BY <1>5, PostFailsType
  <2>3. faults' \in Nat  BY <1>5 DEF PostFails, Fault
  <2>4. UNCHANGED <<now, inFlight, heartbeat, shipped, decks, open, overtaken, lastStart,
                    overlaps, pokes>>
    BY <1>5 DEF PostFails, starts
  <2>. QED  BY <2>1, <2>2, <2>3, <2>4
<1>6. ASSUME NEW c \in Cycles, PostedRowFails(c) PROVE TypeInv'
  BY <1>6, RecordFailedType DEF PostedRowFails, Fault, starts
<1>7. ASSUME NEW c \in Cycles, Closing(c) PROVE TypeInv'
  <2>1. TypeInv  OBVIOUS
  <2>. HIDE DEF TypeInv, TypeOK
  <2>. QED  BY <1>7, <2>1, ClosingType
<1>8. ASSUME NEW p \in Procs, StartThrows(p) PROVE TypeInv'
  <2>1. inFlight' \in [Procs -> Times] /\ lastStart' \in Times /\ pokes' \in Nat
    <3>1. TypeInv  OBVIOUS
    <3>. HIDE DEF TypeInv, TypeOK
    <3>. QED  BY <1>8, <3>1, TakeFlagType DEF StartThrows
  <2>2. faults' \in Nat  BY <1>8 DEF StartThrows, Fault
  <2>3. UNCHANGED <<now, heartbeat, cyc, posts, open, overtaken, overlaps>>
    BY <1>8 DEF StartThrows
  <2>. QED  BY <2>1, <2>2, <2>3 DEF posts, Shape, Running
<1>9. ASSUME NEW c \in Cycles, NEW p \in Procs, NEW dry \in BOOLEAN, Start(c, p, dry)
      PROVE  TypeInv'
  <2>1. CycOK /\ overlaps' \in Nat
    BY <1>9, OccupyType, PlatformsType DEF Start
  <2>2. inFlight' \in [Procs -> Times] /\ lastStart' \in Times /\ pokes' \in Nat
    <3>1. TypeInv  OBVIOUS
    <3>. HIDE DEF TypeInv, TypeOK
    <3>. QED  BY <1>9, <3>1, TakeFlagType DEF Start
  <2>3. /\ heartbeat' \in [phase : {"none", "start", "complete", "error"}, startedAt : Times]
        /\ open' \subseteq Times /\ overtaken' \subseteq Times
    BY <1>9 DEF Start
  <2>4. UNCHANGED <<now, posts, faults>>  BY <1>9 DEF Start
  <2>. QED  BY <2>1, <2>2, <2>3, <2>4 DEF posts
<1>10. ASSUME NEW c \in Cycles, NEW p \in Procs, NEW pl \in Plats, NEW dry \in BOOLEAN,
              Poke(c, p, pl, dry)
       PROVE  TypeInv'
  <2>1. 0 \in Times /\ <<pl>> \in Seq(Plats)  BY DEF Times
  <2>1a. Occupy(c, p, 0, dry, <<pl>>)  BY <1>10 DEF Poke
  <2>1b. TypeInv  OBVIOUS
  <2>. HIDE DEF TypeInv, TypeOK
  <2>2. CycOK /\ overlaps' \in Nat  BY <2>1, <2>1a, <2>1b, OccupyType
  <2>. USE DEF TypeInv, TypeOK
  <2>. QED  BY <1>10, <2>2 DEF Poke, posts, starts
<1>11. ASSUME NEW p \in Procs, Crash(p) PROVE TypeInv'
  <2>1. CycOK
    <3>1. cyc' \in [Cycles -> Cycle]  BY <1>11, IdleType DEF Crash
    <3>2. \A c \in Cycles : cyc'[c] = Idle \/ cyc'[c] = cyc[c]  BY <1>11 DEF Crash
    <3>3. Idle.pc = "idle"  BY DEF Idle
    <3>. QED  BY <3>1, <3>2, <3>3 DEF Shape, Running
  <2>2. inFlight' \in [Procs -> Times]
    <3>1. 0 \in Times  BY DEF Times
    <3>. QED  BY <1>11, <3>1 DEF Crash
  <2>. QED  BY <1>11, <2>1, <2>2 DEF Crash, Fault, posts, starts
<1>12. CASE Tick
  <2>1. now' \in Times \ {0}  BY <1>12 DEF Tick, Times
  <2>. QED  BY <1>12, <2>1 DEF Tick, posts, counts, starts, Shape, Running
<1>13. CASE UNCHANGED vars
  BY <1>13 DEF vars, posts, counts, starts, Shape, Running
<1>. HIDE DEF TypeInv, TypeOK
<1>14. ASSUME NEW c \in Cycles, Visit(c) PROVE TypeInv'
  BY <1>1, <1>2, <1>3, <1>4, <1>5, <1>6, <1>7, <1>14 DEF Visit, Closing
<1>15. ASSUME NEW c \in Cycles, NEW p \in Procs, Begin(c, p) PROVE TypeInv'
  BY <1>9, <1>10, <1>15 DEF Begin
<1>. QED  BY <1>7, <1>8, <1>11, <1>12, <1>13, <1>14, <1>15 DEF Next, Closing

\* TypeOK is an invariant.
THEOREM TypeCorrect == Spec => []TypeOK
<1>1. Spec => []TypeInv  BY InitType, StepType, PTL DEF Spec
<1>2. TypeInv => TypeOK  BY DEF TypeInv
<1>. QED  BY <1>1, <1>2, PTL

-----------------------------------------------------------------------------
(* What a step does to the running cycles.                                 *)

\* The visits' steps keep who a cycle is and do not start one.
SameCycles ==
  \A c \in Cycles :
    Running(c)' => /\ Running(c)
                   /\ cyc'[c].startedAt = cyc[c].startedAt
                   /\ cyc'[c].proc = cyc[c].proc

LEMMA SameOne ==
  ASSUME TypeInv, TypeInv', NEW c \in Cycles, Running(c),
         \A d \in Cycles \ {c} : cyc'[d] = cyc[d],
         cyc'[c].startedAt = cyc[c].startedAt, cyc'[c].proc = cyc[c].proc
  PROVE  SameCycles
  BY DEF SameCycles, Running

LEMMA LeaveSame ==
  ASSUME TypeInv, TypeInv', NEW c \in Cycles, Running(c), Leave(c)
  PROVE  SameCycles
<1>1. cyc \in [Cycles -> Cycle] /\ cyc[c] \in Cycle  BY DEF TypeInv, TypeOK, Cycle
<1>2. /\ \A d \in Cycles \ {c} : cyc'[d] = cyc[d]
      /\ cyc'[c].startedAt = cyc[c].startedAt /\ cyc'[c].proc = cyc[c].proc
  BY <1>1 DEF Leave, Cycle
<1>. QED  BY <1>2, SameOne

\* Every step of a visit that does not end the cycle.
LEMMA VisitSame ==
  ASSUME TypeInv, TypeInv', NEW c \in Cycles,
         Select(c) \/ Prepare(c) \/ Ship(c) \/ Answered(c) \/ PostFails(c) \/ PostedRowFails(c)
  PROVE  SameCycles /\ UNCHANGED <<now, inFlight, heartbeat, starts>>
<1>1. UNCHANGED <<now, inFlight, heartbeat, starts>>
  BY DEF Select, Prepare, Ship, Answered, PostFails, PostedRowFails
<1>2. Running(c)
  BY DEF Select, Prepare, Ship, Answered, PostFails, PostedRowFails, Running
<1>3. CASE Leave(c)  BY <1>1, <1>2, <1>3, LeaveSame
<1>4. CASE ~Leave(c)
  <2>1. cyc \in [Cycles -> Cycle] /\ cyc[c] \in Cycle  BY DEF TypeInv, TypeOK, Cycle
  <2>2. ASSUME NEW a, NEW e, NEW b, NEW pc,
               \/ cyc' = [cyc EXCEPT ![c].pc = pc, ![c].article = a, ![c].event = e]
               \/ cyc' = [cyc EXCEPT ![c].pc = pc, ![c].event = e]
               \/ cyc' = [cyc EXCEPT ![c].pc = pc]
               \/ cyc' = [cyc EXCEPT ![c].pc = pc, ![c].fallback = b]
        PROVE  SameCycles
    <3>1. /\ \A d \in Cycles \ {c} : cyc'[d] = cyc[d]
          /\ cyc'[c].startedAt = cyc[c].startedAt /\ cyc'[c].proc = cyc[c].proc
      BY <2>1, <2>2 DEF Cycle
    <3>. QED  BY <1>2, <3>1, SameOne
  <2>3. CASE Select(c)
    <3>1. PICK a, e : Choose(c, a, e)  BY <1>4, <2>3 DEF Select
    <3>. QED  BY <1>1, <2>2, <3>1 DEF Choose
  <2>4. CASE Prepare(c)
    <3>1. PICK e : cyc' = [cyc EXCEPT ![c].pc = "post", ![c].event = e]
      BY <1>4, <2>4 DEF Prepare
    <3>. QED  BY <1>1, <2>2, <3>1
  <2>5. CASE Ship(c)  BY <1>1, <2>2, <2>5 DEF Ship
  <2>6. CASE Answered(c)  BY <1>4, <2>6 DEF Answered, RecordFailed
  <2>7. CASE PostFails(c)
    <3>1. cyc' = [cyc EXCEPT ![c].pc = "post", ![c].fallback = TRUE]
      BY <1>4, <2>7 DEF PostFails, RecordFailed
    <3>. QED  BY <1>1, <2>2, <3>1
  <2>8. CASE PostedRowFails(c)  BY <1>4, <2>8 DEF PostedRowFails, RecordFailed
  <2>. QED  BY <2>3, <2>4, <2>5, <2>6, <2>7, <2>8
<1>. QED  BY <1>1, <1>3, <1>4

\* Ending c leaves every other cycle alone, and c one that has lost nothing but
\* perhaps its flag, and then it is gone.
LEMMA ClosingSame ==
  ASSUME TypeInv, NEW c \in Cycles, Closing(c)
  PROVE  SameCycles /\ (inFlight' = inFlight \/ (~Running(c)' /\ Release(c)))
<1>1. cyc \in [Cycles -> Cycle]  BY DEF TypeInv, TypeOK, Cycle
<1>2. PICK y \in Cycle :
        /\ cyc' = [cyc EXCEPT ![c] = y]
        /\ \/ y = Idle /\ Release(c)
           \/ /\ y.pc \in {"complete", "error"} /\ y.todo = cyc[c].todo
              /\ y.proc = cyc[c].proc /\ y.startedAt = cyc[c].startedAt
              /\ inFlight' = inFlight
  BY ClosingIs
<1>3. cyc'[c] = y /\ \A d \in Cycles \ {c} : cyc'[d] = cyc[d]  BY <1>1, <1>2
<1>4. Running(c)  BY ClosingIs
<1>5. Idle.pc = "idle"  BY DEF Idle
<1>. QED  BY <1>2, <1>3, <1>4, <1>5 DEF SameCycles, Running

\* So does the crash of a process, whose own cycles are gone.
LEMMA CrashSame ==
  ASSUME TypeInv, NEW p \in Procs, Crash(p)
  PROVE  SameCycles /\ \A c \in Cycles : Running(c)' => cyc'[c].proc # p
<1>1. \A c \in Cycles : cyc'[c] = IF cyc[c].proc = p THEN Idle ELSE cyc[c]  BY DEF Crash
<1>2. Idle.pc = "idle"  BY DEF Idle
<1>. QED  BY <1>1, <1>2 DEF SameCycles, Running

\* A new cycle is the only one that changes.
LEMMA OccupySame ==
  ASSUME TypeInv, NEW c \in Cycles, NEW p \in Procs, NEW t \in Times, NEW dry, NEW todo,
         Occupy(c, p, t, dry, todo)
  PROVE  /\ cyc'[c].startedAt = t /\ cyc'[c].proc = p
         /\ \A d \in Cycles \ {c} : cyc'[d] = cyc[d]
<1>1. cyc \in [Cycles -> Cycle]  BY DEF TypeInv, TypeOK, Cycle
<1>. QED  BY <1>1, IdleType DEF Occupy, Cycle

\* Facts about times the arithmetic below needs.
LEMMA TimesNat ==
  ASSUME TypeInv
  PROVE  /\ HangAge \in Nat /\ now \in Nat /\ now > 0 /\ lastStart \in Nat
         /\ heartbeat.startedAt \in Nat
         /\ \A c \in Cycles : cyc[c].startedAt \in Nat
         /\ \A p \in Procs : inFlight[p] \in Nat
         /\ open \subseteq Nat
  BY TimesAssumption DEF TypeInv, TypeOK, Times

LEMMA TimesNatNext ==
  ASSUME TypeInv'
  PROVE  /\ now' \in Nat /\ lastStart' \in Nat /\ heartbeat'.startedAt \in Nat
         /\ \A c \in Cycles : cyc'[c].startedAt \in Nat
         /\ \A p \in Procs : inFlight'[p] \in Nat
  BY TimesAssumption DEF TypeInv, TypeOK, Times

-----------------------------------------------------------------------------
(* Start times never repeat.                                               *)

LEMMA StartsStep == TypeInv /\ TypeInv' /\ Starts /\ [Next]_vars => Starts'
<1>. SUFFICES ASSUME TypeInv, TypeInv', Starts, [Next]_vars PROVE Starts'  OBVIOUS
<1>0. ASSUME SameCycles, lastStart' >= lastStart, lastStart' <= now', lastStart' \in Nat,
             now' \in Nat, now' >= now, heartbeat'.startedAt \in Nat,
             heartbeat'.startedAt <= lastStart
      PROVE  Starts'
  BY <1>0, TimesNat DEF Starts, SameCycles, Running
<1>1. ASSUME NEW c \in Cycles,
             Select(c) \/ Prepare(c) \/ Ship(c) \/ Answered(c) \/ PostFails(c) \/ PostedRowFails(c)
      PROVE  Starts'
  BY <1>0, <1>1, VisitSame, TimesNat DEF Starts, starts
<1>2. ASSUME NEW c \in Cycles, Closing(c) PROVE Starts'
  <2>1. Running(c) /\ lastStart' = lastStart /\ now' = now  BY <1>2, ClosingIs
  <2>2. heartbeat'.startedAt <= lastStart /\ heartbeat'.startedAt \in Nat
    BY <1>2, <2>1, ClosingIs, TimesNat DEF Starts
  <2>3. SameCycles  BY <1>2, ClosingSame
  <2>. QED  BY <1>0, <2>1, <2>2, <2>3, TimesNat DEF Starts
<1>3. ASSUME NEW c \in Cycles, NEW p \in Procs, NEW dry \in BOOLEAN, Start(c, p, dry)
      PROVE  Starts'
  <2>1. /\ cyc'[c].startedAt = now
        /\ \A d \in Cycles \ {c} : cyc'[d] = cyc[d]
    <3>1. now \in Times /\ Occupy(c, p, now, dry, Platforms)
      BY <1>3 DEF Start, TypeInv, TypeOK
    <3>. QED  BY <3>1, OccupySame
  <2>2. lastStart' = now /\ now' = now /\ lastStart < now  BY <1>3 DEF Start, TakeFlag
  <2>3. heartbeat'.startedAt <= now
    BY <1>3, TimesNat DEF Start, Starts
  <2>4. \A d \in Cycles \ {c} : Running(d)' => Running(d) /\ cyc'[d].startedAt < now
    BY <2>1, <2>2, TimesNat DEF Starts, Running
  <2>. QED  BY <2>1, <2>2, <2>3, <2>4, TimesNat DEF Starts, Running
<1>4. ASSUME NEW c \in Cycles, NEW p \in Procs, NEW pl \in Plats, NEW dry \in BOOLEAN,
             Poke(c, p, pl, dry)
      PROVE  Starts'
  <2>1. /\ cyc'[c].startedAt = 0
        /\ \A d \in Cycles \ {c} : cyc'[d] = cyc[d]
    <3>1. 0 \in Times /\ Occupy(c, p, 0, dry, <<pl>>)
      BY <1>4, TimesAssumption DEF Poke, Times
    <3>. QED  BY <3>1, OccupySame
  <2>2. UNCHANGED <<now, lastStart, heartbeat>>  BY <1>4 DEF Poke, starts
  <2>. QED  BY <2>1, <2>2, TimesNat DEF Starts, Running
<1>5. ASSUME NEW p \in Procs, Crash(p) PROVE Starts'
  <2>1. UNCHANGED <<now, lastStart, heartbeat>>  BY <1>5 DEF Crash, starts
  <2>. QED  BY <1>0, <1>5, <2>1, CrashSame, TimesNat DEF Starts
<1>6. CASE Tick
  BY <1>6, TimesNat DEF Tick, Starts, starts, Running
<1>7. CASE UNCHANGED vars
  BY <1>7 DEF vars, Starts, starts, Running
<1>8. ASSUME NEW p \in Procs, StartThrows(p) PROVE Starts'
  <2>1. UNCHANGED <<now, heartbeat, cyc>> /\ lastStart' = now
    BY <1>8 DEF StartThrows, TakeFlag
  <2>2. SameCycles  BY <2>1 DEF SameCycles, Running
  <2>. QED  BY <1>0, <2>1, <2>2, TimesNat DEF Starts
<1>. QED
  BY <1>1, <1>2, <1>3, <1>4, <1>5, <1>6, <1>7, <1>8 DEF Next, Visit, Begin, Closing

-----------------------------------------------------------------------------
(* Single flight.                                                          *)

LEMMA FlightStep == FlightInv /\ TypeInv' /\ Starts' /\ [Next]_vars => Owner' /\ SingleFlight'
<1>. SUFFICES ASSUME FlightInv, TypeInv', Starts', [Next]_vars PROVE Owner' /\ SingleFlight'
  OBVIOUS
<1>. USE DEF FlightInv
<1>0. ASSUME SameCycles, now' \in Nat, now' >= now,
             \A c \in Cycles : Running(c)' /\ cyc[c].startedAt # 0
               => \/ inFlight'[cyc[c].proc] = inFlight[cyc[c].proc]
                  \/ inFlight[cyc[c].proc] # cyc[c].startedAt
      PROVE  Owner' /\ SingleFlight'
  BY <1>0, TimesNat, TimesNatNext DEF Owner, SingleFlight, SameCycles, Running
<1>1. ASSUME NEW c \in Cycles,
             Select(c) \/ Prepare(c) \/ Ship(c) \/ Answered(c) \/ PostFails(c) \/ PostedRowFails(c)
      PROVE  Owner' /\ SingleFlight'
  BY <1>0, <1>1, VisitSame, TimesNat
<1>2. ASSUME NEW c \in Cycles, Closing(c) PROVE Owner' /\ SingleFlight'
  <2>2. Running(c) /\ now' = now  BY <1>2, ClosingIs
  <2>3. SameCycles /\ (inFlight' = inFlight \/ (~Running(c)' /\ Release(c)))
    BY <1>2, ClosingSame
  <2>4. ASSUME NEW d \in Cycles, Running(d)', cyc[d].startedAt # 0,
               inFlight[cyc[d].proc] = cyc[d].startedAt
        PROVE  inFlight'[cyc[d].proc] = inFlight[cyc[d].proc]
    <3>. SUFFICES ASSUME inFlight' # inFlight
                  PROVE  inFlight'[cyc[d].proc] = inFlight[cyc[d].proc]
      OBVIOUS
    <3>1. Running(d) /\ d # c  BY <2>3, <2>4 DEF SameCycles
    <3>2. cyc[c].startedAt # cyc[d].startedAt
      BY <2>2, <2>4, <3>1 DEF Starts
    <3>3. cyc[d].proc \in Procs /\ cyc[c].proc \in Procs
      BY <2>2, <3>1 DEF TypeInv, Shape
    <3>4. inFlight \in [Procs -> Times]  BY DEF TypeInv, TypeOK
    <3>5. CASE inFlight' = inFlight  BY <3>5
    <3>6. CASE inFlight[cyc[c].proc] = cyc[c].startedAt
               /\ inFlight' = [inFlight EXCEPT ![cyc[c].proc] = 0]
      <4>1. cyc[c].proc # cyc[d].proc  BY <2>4, <3>2, <3>6
      <4>. QED  BY <3>3, <3>4, <3>6, <4>1
    <3>. QED  BY <2>3, <3>5, <3>6 DEF Release
  <2>. QED  BY <1>0, <2>2, <2>3, <2>4, TimesNat
<1>9. ASSUME NEW p \in Procs, TakeFlag(p), NEW d \in Cycles, Running(d), cyc[d].proc = p,
             cyc[d].startedAt # 0
      PROVE  now - cyc[d].startedAt > HangAge
  <2>1. \/ inFlight[p] = cyc[d].startedAt
        \/ now - cyc[d].startedAt > HangAge
    BY <1>9 DEF Owner
  <2>2. inFlight[p] = 0 \/ now - inFlight[p] > HangAge  BY <1>9 DEF TakeFlag, MayStart
  <2>. QED  BY <1>9, <2>1, <2>2
<1>3. ASSUME NEW c \in Cycles, NEW p \in Procs, NEW dry \in BOOLEAN, Start(c, p, dry)
      PROVE  Owner' /\ SingleFlight'
  <2>1. /\ cyc'[c].startedAt = now /\ cyc'[c].proc = p
        /\ \A d \in Cycles \ {c} : cyc'[d] = cyc[d]
    <3>1. now \in Times /\ Occupy(c, p, now, dry, Platforms)
      BY <1>3 DEF Start, TypeInv, TypeOK
    <3>. QED  BY <3>1, OccupySame
  <2>2. now' = now /\ lastStart < now  BY <1>3 DEF Start, TakeFlag
  <2>3. inFlight'[p] = now /\ \A q \in Procs \ {p} : inFlight'[q] = inFlight[q]
    BY <1>3 DEF Start, TakeFlag, TypeInv, TypeOK
  <2>4. \A d \in Cycles \ {c} : Running(d)' => Running(d) /\ cyc[d].startedAt < now
    BY <2>1, <2>2, TimesNat DEF Starts, Running
  <2>5. ASSUME NEW d \in Cycles \ {c}, Running(d)', cyc[d].proc = p, cyc[d].startedAt # 0
        PROVE  now - cyc[d].startedAt > HangAge
    BY <1>3, <1>9, <2>4, <2>5 DEF Start
  <2>6. \A d \in Cycles : Running(d)' => cyc'[d].proc \in Procs
    BY DEF TypeInv, Shape
  <2>7. Owner'
    <3>. SUFFICES ASSUME NEW d \in Cycles, Running(d)', cyc'[d].startedAt # 0
                  PROVE  \/ inFlight'[cyc'[d].proc] = cyc'[d].startedAt
                         \/ now' - cyc'[d].startedAt > HangAge
      BY DEF Owner
    <3>1. CASE d = c  BY <2>1, <2>3, <3>1
    <3>2. CASE d # c /\ cyc[d].proc = p  BY <2>1, <2>2, <2>5, <3>2
    <3>3. CASE d # c /\ cyc[d].proc # p
      BY <2>1, <2>2, <2>3, <2>4, <2>6, <3>3 DEF Owner
    <3>. QED  BY <3>1, <3>2, <3>3
  <2>8. SingleFlight'
    <3>. SUFFICES ASSUME NEW d \in Cycles, NEW e \in Cycles, Running(d)', Running(e)', d # e,
                         cyc'[d].proc = cyc'[e].proc, cyc'[d].startedAt # 0,
                         cyc'[e].startedAt >= cyc'[d].startedAt
                  PROVE  cyc'[e].startedAt - cyc'[d].startedAt > HangAge
      BY DEF SingleFlight
    <3>1. CASE e = c  BY <2>1, <2>5, <3>1
    <3>2. CASE d = c  BY <2>1, <2>4, <3>2, TimesNat
    <3>3. CASE d # c /\ e # c  BY <2>1, <2>4, <3>3 DEF SingleFlight
    <3>. QED  BY <3>1, <3>2, <3>3
  <2>. QED  BY <2>7, <2>8
<1>4. ASSUME NEW c \in Cycles, NEW p \in Procs, NEW pl \in Plats, NEW dry \in BOOLEAN,
             Poke(c, p, pl, dry)
      PROVE  Owner' /\ SingleFlight'
  <2>1. /\ cyc'[c].startedAt = 0
        /\ \A d \in Cycles \ {c} : cyc'[d] = cyc[d]
    <3>1. 0 \in Times /\ Occupy(c, p, 0, dry, <<pl>>)
      BY <1>4, TimesAssumption DEF Poke, Times
    <3>. QED  BY <3>1, OccupySame
  <2>2. UNCHANGED <<now, inFlight>>  BY <1>4 DEF Poke
  <2>3. \A d \in Cycles \ {c} : Running(d)' = Running(d)  BY <2>1 DEF Running
  <2>4. Owner'  BY <2>1, <2>2, <2>3 DEF Owner
  <2>5. SingleFlight'  BY <2>1, <2>3, TimesNat DEF SingleFlight
  <2>. QED  BY <2>4, <2>5
<1>5. ASSUME NEW p \in Procs, Crash(p) PROVE Owner' /\ SingleFlight'
  <2>1. SameCycles /\ \A c \in Cycles : Running(c)' => cyc'[c].proc # p  BY <1>5, CrashSame
  <2>2. now' = now /\ inFlight' = [inFlight EXCEPT ![p] = 0]  BY <1>5 DEF Crash
  <2>3. inFlight \in [Procs -> Times]  BY DEF TypeInv, TypeOK
  <2>4. \A c \in Cycles : Running(c)' => inFlight'[cyc[c].proc] = inFlight[cyc[c].proc]
    <3>. SUFFICES ASSUME NEW c \in Cycles, Running(c)'
                  PROVE  inFlight'[cyc[c].proc] = inFlight[cyc[c].proc]
      OBVIOUS
    <3>1. cyc[c].proc # p /\ Running(c)  BY <2>1 DEF SameCycles
    <3>2. cyc[c].proc \in Procs  BY <3>1 DEF TypeInv, Shape
    <3>. QED  BY <2>2, <2>3, <3>1, <3>2
  <2>. QED  BY <1>0, <2>1, <2>2, <2>4, TimesNat
<1>6. CASE Tick
  <2>1. SameCycles /\ now' = now + 1 /\ inFlight' = inFlight
    BY <1>6 DEF Tick, SameCycles, Running
  <2>. QED  BY <1>0, <2>1, TimesNat
<1>7. CASE UNCHANGED vars
  BY <1>7 DEF vars, Owner, SingleFlight, Running
<1>8. ASSUME NEW p \in Procs, StartThrows(p) PROVE Owner' /\ SingleFlight'
  <2>1. TakeFlag(p) /\ cyc' = cyc /\ now' = now  BY <1>8 DEF StartThrows
  <2>2. \A q \in Procs \ {p} : inFlight'[q] = inFlight[q]
    BY <2>1 DEF TakeFlag, TypeInv, TypeOK
  <2>3. Owner'
    <3>. SUFFICES ASSUME NEW d \in Cycles, Running(d), cyc[d].startedAt # 0
                  PROVE  \/ inFlight'[cyc[d].proc] = cyc[d].startedAt
                         \/ now - cyc[d].startedAt > HangAge
      BY <2>1 DEF Owner, Running
    <3>1. CASE cyc[d].proc = p  BY <1>9, <2>1, <3>1
    <3>2. CASE cyc[d].proc # p
      <4>1. cyc[d].proc \in Procs  BY DEF TypeInv, Shape
      <4>. QED  BY <2>2, <3>2, <4>1 DEF Owner
    <3>. QED  BY <3>1, <3>2
  <2>4. SingleFlight'  BY <2>1 DEF SingleFlight, Running
  <2>. QED  BY <2>3, <2>4
<1>. QED
  BY <1>1, <1>2, <1>3, <1>4, <1>5, <1>6, <1>7, <1>8 DEF Next, Visit, Begin, Closing

LEMMA InitFlight == Init => Starts /\ Owner /\ SingleFlight /\ HeartbeatHonest /\ Unwritten
<1>. SUFFICES ASSUME Init
              PROVE  Starts /\ Owner /\ SingleFlight /\ HeartbeatHonest /\ Unwritten
  OBVIOUS
<1>1. \A c \in Cycles : ~Running(c)  BY DEF Init, Running, Idle
<1>. QED
  BY <1>1 DEF Init, Starts, Owner, SingleFlight, HeartbeatHonest, Unwritten

\* However many cycles hang and finish late, two cycles of one process that
\* run at the same time were started more than HangAge apart.
THEOREM SingleFlightHolds == Spec => []SingleFlight
<1>1. Init => FlightInv  BY InitType, InitFlight DEF FlightInv
<1>2. FlightInv /\ [Next]_vars => FlightInv'
  BY StepType, StartsStep, FlightStep DEF FlightInv
<1>3. FlightInv => SingleFlight  BY DEF FlightInv
<1>. QED  BY <1>1, <1>2, <1>3, PTL DEF Spec

-----------------------------------------------------------------------------
(* The heartbeat.                                                          *)

LEMMA BeatStep == BeatInv /\ TypeInv' /\ [Next]_vars => HeartbeatHonest' /\ Unwritten'
<1>. SUFFICES ASSUME BeatInv, TypeInv', [Next]_vars PROVE HeartbeatHonest' /\ Unwritten'
  OBVIOUS
<1>. USE DEF BeatInv
<1>1. ASSUME UNCHANGED <<heartbeat, open, overtaken>>,
             \A c \in Cycles : Writing(c)' => Writing(c) /\ cyc'[c].startedAt = cyc[c].startedAt
      PROVE  HeartbeatHonest' /\ Unwritten'
  BY <1>1 DEF HeartbeatHonest, HonestAbout, Unwritten
<1>2. ASSUME NEW c \in Cycles, NEW phase \in {"complete", "error"}, End(c, phase)
      PROVE  HeartbeatHonest' /\ Unwritten'
  <2>1. heartbeat' = heartbeat /\ overtaken' = overtaken /\ open' \subseteq open
    BY <1>2 DEF End
  <2>2. HeartbeatHonest'  BY <2>1 DEF HeartbeatHonest, HonestAbout
  <2>3. PICK y \in Cycle : /\ cyc' = [cyc EXCEPT ![c] = y]
                           /\ y = Idle \/ y.startedAt = cyc[c].startedAt
    BY <1>2, EndIs
  <2>4. \A d \in Cycles : cyc'[d] = IF d = c THEN y ELSE cyc[d]
    BY <2>3 DEF TypeInv, TypeOK
  <2>5. CASE Beats(c) /\ OwnsRow(c)
    <3>1. \A t \in open \ overtaken : t <= cyc[c].startedAt
      BY <2>5, TimesNat DEF OwnsRow, HeartbeatHonest, HonestAbout
    <3>. QED  BY <2>1, <2>2, <2>3, <2>4, <3>1 DEF Unwritten, Writing, Idle
  <2>6. CASE ~(Beats(c) /\ OwnsRow(c))
    <3>1. cyc'[c] = Idle  BY <1>2, <2>4, <2>6 DEF End, Return, TypeInv, TypeOK
    <3>. QED  BY <2>1, <2>2, <2>4, <3>1 DEF Unwritten, Writing, Idle
  <2>. QED  BY <2>5, <2>6
<1>3. ASSUME NEW c \in Cycles, Return(c)
      PROVE  \A d \in Cycles : Writing(d)' => Writing(d) /\ cyc'[d].startedAt = cyc[d].startedAt
  <2>1. \A d \in Cycles : cyc'[d] = IF d = c THEN Idle ELSE cyc[d]
    BY <1>3 DEF Return, TypeInv, TypeOK
  <2>. QED  BY <2>1 DEF Writing, Idle
<1>4. ASSUME NEW c \in Cycles, RecordEnd(c) PROVE HeartbeatHonest' /\ Unwritten'
  <2>1. /\ heartbeat'.startedAt = cyc[c].startedAt /\ overtaken' = overtaken
        /\ open' = open \ {cyc[c].startedAt}
    BY <1>4 DEF RecordEnd
  <2>2. \A t \in open \ overtaken : t <= cyc[c].startedAt
    BY <1>4 DEF RecordEnd, Unwritten
  <2>3. HeartbeatHonest'  BY <2>1, <2>2 DEF HeartbeatHonest, HonestAbout
  <2>4. Unwritten'
    BY <1>3, <1>4, <2>1 DEF RecordEnd, Unwritten
  <2>. QED  BY <2>3, <2>4
<1>5. ASSUME NEW c \in Cycles, RecordEndFails(c) PROVE HeartbeatHonest' /\ Unwritten'
  <2>1. CASE End(c, "error")  BY <1>2, <2>1
  <2>2. CASE Return(c) /\ UNCHANGED <<heartbeat, starts>>
    BY <1>1, <1>3, <2>2 DEF starts
  <2>. QED  BY <1>5, <2>1, <2>2 DEF RecordEndFails
<1>6. ASSUME NEW c \in Cycles, NEW p \in Procs, NEW dry \in BOOLEAN, NEW t \in Times,
             NEW todo, ~Running(c), Occupy(c, p, t, dry, todo)
      PROVE  \A d \in Cycles : Writing(d)' => Writing(d) /\ cyc'[d].startedAt = cyc[d].startedAt
  <2>1. \A d \in Cycles \ {c} : cyc'[d] = cyc[d]  BY <1>6, OccupySame
  <2>2. cyc'[c].pc = "select"  BY <1>6, IdleType DEF Occupy, TypeInv, TypeOK, Cycle
  <2>. QED  BY <2>1, <2>2 DEF Writing
<1>7. ASSUME NEW c \in Cycles, NEW p \in Procs, NEW dry \in BOOLEAN, Start(c, p, dry)
      PROVE  HeartbeatHonest' /\ Unwritten'
  <2>1. now \in Times /\ ~Running(c) /\ Occupy(c, p, now, dry, Platforms)
    BY <1>7 DEF Start, TypeInv, TypeOK
  <2>2. \A d \in Cycles : Writing(d)' => Writing(d) /\ cyc'[d].startedAt = cyc[d].startedAt
    BY <1>6, <2>1
  <2>3. CASE dry  BY <1>1, <1>7, <2>2, <2>3 DEF Start
  <2>4. CASE ~dry
    <3>1. /\ heartbeat' = [phase |-> "start", startedAt |-> now] /\ open' = open \cup {now}
          /\ overtaken' = IF \E d \in Cycles : Writing(d) THEN overtaken \cup {now}
                          ELSE overtaken
          /\ lastStart < now
      BY <1>7, <2>4 DEF Start, TakeFlag
    <3>2. \A t \in open \ overtaken : t <= now
      BY <3>1, TimesNat DEF Starts, HeartbeatHonest, HonestAbout
    <3>3. HeartbeatHonest'  BY <3>1, <3>2, TimesNat DEF HeartbeatHonest, HonestAbout
    <3>4. Unwritten'
      <4>1. CASE \E d \in Cycles : Writing(d)
        <5>1. open' \ overtaken' \subseteq open \ overtaken  BY <3>1, <4>1
        <5>. QED  BY <2>2, <5>1 DEF Unwritten
      <4>2. CASE ~\E d \in Cycles : Writing(d)
        BY <2>2, <4>2 DEF Unwritten
      <4>. QED  BY <4>1, <4>2
    <3>. QED  BY <3>3, <3>4
  <2>. QED  BY <2>3, <2>4
<1>8. ASSUME NEW c \in Cycles, NEW p \in Procs, NEW pl \in Plats, NEW dry \in BOOLEAN,
             Poke(c, p, pl, dry)
      PROVE  HeartbeatHonest' /\ Unwritten'
  <2>1. 0 \in Times /\ ~Running(c) /\ Occupy(c, p, 0, dry, <<pl>>)
    BY <1>8, TimesAssumption DEF Poke, Times
  <2>2. \A d \in Cycles : Writing(d)' => Writing(d) /\ cyc'[d].startedAt = cyc[d].startedAt
    BY <1>6, <2>1
  <2>. QED  BY <1>1, <1>8, <2>2 DEF Poke, starts
<1>9. ASSUME NEW c \in Cycles,
             Select(c) \/ Prepare(c) \/ Ship(c) \/ Answered(c) \/ PostFails(c) \/ PostedRowFails(c)
      PROVE  HeartbeatHonest' /\ Unwritten'
  <2>1. UNCHANGED <<heartbeat, open, overtaken>>
    BY <1>9 DEF Select, Prepare, Ship, Answered, PostFails, PostedRowFails, starts
  <2>2. cyc \in [Cycles -> Cycle] /\ c \in Cycles  BY DEF TypeInv, TypeOK, Cycle
  <2>3. ASSUME \A d \in Cycles \ {c} : cyc'[d] = cyc[d], ~Writing(c)'
        PROVE  HeartbeatHonest' /\ Unwritten'
    BY <1>1, <2>1, <2>3 DEF Writing
  <2>4. cyc[c] \in Cycle  BY <2>2
  <2>5. CASE Leave(c)
    <3>1. cyc'[c].pc = "select" /\ \A d \in Cycles \ {c} : cyc'[d] = cyc[d]
      BY <2>2, <2>4, <2>5 DEF Leave, Cycle
    <3>. QED  BY <2>3, <3>1 DEF Writing
  <2>6. ASSUME NEW pc \in {"prepare", "post", "answer"}, NEW a, NEW e, NEW b,
               \/ cyc' = [cyc EXCEPT ![c].pc = pc, ![c].article = a, ![c].event = e]
               \/ cyc' = [cyc EXCEPT ![c].pc = pc, ![c].event = e]
               \/ cyc' = [cyc EXCEPT ![c].pc = pc]
               \/ cyc' = [cyc EXCEPT ![c].pc = pc, ![c].fallback = b]
        PROVE  HeartbeatHonest' /\ Unwritten'
    <3>1. cyc'[c].pc = pc /\ \A d \in Cycles \ {c} : cyc'[d] = cyc[d]
      BY <2>2, <2>4, <2>6 DEF Cycle
    <3>. QED  BY <2>3, <3>1 DEF Writing
  <2>7. CASE Select(c) /\ ~Leave(c)
    <3>1. PICK a, e : Choose(c, a, e)  BY <2>7 DEF Select
    <3>. QED  BY <2>6, <3>1 DEF Choose
  <2>8. CASE Prepare(c) /\ ~Leave(c)
    <3>1. PICK e : cyc' = [cyc EXCEPT ![c].pc = "post", ![c].event = e]
      BY <2>8 DEF Prepare
    <3>. QED  BY <2>6, <3>1
  <2>9. CASE Ship(c)  BY <2>6, <2>9 DEF Ship
  <2>10. CASE PostFails(c) /\ ~Leave(c)
    <3>1. cyc' = [cyc EXCEPT ![c].pc = "post", ![c].fallback = TRUE]
      BY <2>10 DEF PostFails, RecordFailed
    <3>. QED  BY <2>6, <3>1
  <2>11. Answered(c) \/ PostedRowFails(c) => Leave(c)
    BY DEF Answered, PostedRowFails, RecordFailed
  <2>. QED  BY <1>9, <2>5, <2>7, <2>8, <2>9, <2>10, <2>11
<1>10. ASSUME NEW p \in Procs, Crash(p) \/ StartThrows(p) PROVE HeartbeatHonest' /\ Unwritten'
  <2>1. UNCHANGED <<heartbeat, open, overtaken>>  BY <1>10 DEF Crash, StartThrows, starts
  <2>2. \A d \in Cycles : cyc'[d] = cyc[d] \/ cyc'[d] = Idle  BY <1>10 DEF Crash, StartThrows
  <2>. QED  BY <1>1, <2>1, <2>2 DEF Writing, Idle
<1>11. CASE Tick \/ UNCHANGED vars
  BY <1>1, <1>11 DEF Tick, vars, starts, Writing
<1>12. ASSUME NEW c \in Cycles, Visit(c) PROVE HeartbeatHonest' /\ Unwritten'
  BY <1>2, <1>9, <1>12 DEF Visit, BothRowsFail, Complete
<1>13. ASSUME NEW c \in Cycles, NEW p \in Procs, Begin(c, p) PROVE HeartbeatHonest' /\ Unwritten'
  BY <1>7, <1>8, <1>13 DEF Begin
<1>. QED  BY <1>4, <1>5, <1>10, <1>11, <1>12, <1>13 DEF Next

\* The heartbeat row belongs to no older cycle than the newest one, and does not
\* report that one as ended while it is not, unless that one began elsewhere
\* between a completion's SELECT and its upsert.
THEOREM HeartbeatHonestHolds == Spec => []HeartbeatHonest
<1>1. Init => BeatInv  BY InitType, InitFlight DEF BeatInv
<1>2. BeatInv /\ [Next]_vars => BeatInv'
  BY StepType, StartsStep, BeatStep DEF BeatInv
<1>3. BeatInv => HeartbeatHonest  BY DEF BeatInv
<1>. QED  BY <1>1, <1>2, <1>3, PTL DEF Spec

OneProcess == \A p, q \in Procs : p = q

LEMMA AloneStep ==
  ASSUME OneProcess, TypeInv, overtaken = {}, [Next]_vars
  PROVE  overtaken' = {}
<1>1. ASSUME NEW c \in Cycles, NEW p \in Procs, NEW dry \in BOOLEAN, Start(c, p, dry)
      PROVE  overtaken' = {}
  <2>1. \A d \in Cycles : Writing(d) => cyc[d].proc = p
    BY DEF OneProcess, TypeInv, Shape, Writing, Running
  <2>2. ~\E d \in Cycles : Writing(d)  BY <1>1, <2>1 DEF Start, TakeFlag, Yielded
  <2>. QED  BY <1>1, <2>2 DEF Start
<1>. QED
  BY <1>1 DEF Next, Visit, Begin, Poke, Select, Prepare, Ship, Answered, PostFails,
              PostedRowFails, BothRowsFail, Complete, RecordEnd, RecordEndFails, End,
              StartThrows, Crash, Tick, vars, starts

\* With one process no start comes between a SELECT and its upsert, and the
\* heartbeat is honest about every cycle.
THEOREM AloneHonestHolds == Spec => []AloneHonest
<1>1. Spec => []TypeInv  BY InitType, StepType, PTL DEF Spec
<1>2. Init => (OneProcess => overtaken = {})  BY DEF Init
<1>3. TypeInv /\ (OneProcess => overtaken = {}) /\ [Next]_vars
        => (OneProcess => overtaken = {})'
  BY AloneStep DEF OneProcess
<1>4. Spec => [](OneProcess => overtaken = {})  BY <1>1, <1>2, <1>3, PTL DEF Spec
<1>5. HeartbeatHonest /\ (OneProcess => overtaken = {}) => AloneHonest
  BY DEF OneProcess, HeartbeatHonest, AloneHonest
<1>. QED  BY <1>4, <1>5, HeartbeatHonestHolds, PTL

-----------------------------------------------------------------------------
(* How often a story goes out.  A cycle that may still ship a story counts  *)
(* as having shipped it (Counted).  A story whose row is missing, and that  *)
(* no cycle is about to ship or has shipped and not recorded, went out only *)
(* for an overlap or a fault (Unrecorded), which is what a new cycle that   *)
(* overlaps none relies on.                                                 *)

\* The story has no row on the platform.
New(pl, a) == rows[pl][a].status = "none"

\* The cycle is at the visit of pl with story a.
Visiting(x, pl, a) ==
  x.pc \in {"prepare", "post", "answer"} /\ Head(x.todo) = pl /\ x.article = a

\* The cycle may still ship a on pl: it is about to, or has pl on its list
\* while the story is new.
MayShip(x, new, pl, a) ==
  \/ Visiting(x, pl, a) /\ x.pc # "answer"
  \/ new /\ x.pc # "idle" /\ pl \in Range(x.todo) /\ ~Visiting(x, pl, a)

Shippers(pl, a) == {c \in Cycles : MayShip(cyc[c], New(pl, a), pl, a)}
Visitors(pl, a) == {c \in Cycles : Visiting(cyc[c], pl, a)}

CountedAt(pl, a) ==
  shipped[pl][a] + Cardinality(Shippers(pl, a)) <= 1 + overlaps + faults

UnrecordedAt(pl, a) ==
  New(pl, a) /\ Shippers(pl, a) = {} /\ Visitors(pl, a) = {}
    => shipped[pl][a] <= overlaps + faults

ShipInv == \A pl \in Plats, a \in Articles : CountedAt(pl, a) /\ UnrecordedAt(pl, a)

One(condition) == IF condition THEN 1 ELSE 0

LEMMA SlotsFinite ==
  ASSUME NEW S \in SUBSET Cycles PROVE IsFiniteSet(S) /\ Cardinality(S) \in Nat
  BY SlotsAssumption, FS_Subset, FS_CardinalityType

\* One cycle may enter a set of cycles; others only leave it.
LEMMA OneEnters ==
  ASSUME NEW S \in SUBSET Cycles, NEW T \in SUBSET Cycles, NEW c, T \ {c} \subseteq S
  PROVE  /\ Cardinality(S) \in Nat /\ Cardinality(T) \in Nat
         /\ Cardinality(T) + One(c \in S) <= Cardinality(S) + One(c \in T)
         /\ c \in S => Cardinality(S) >= 1
<1>1. /\ IsFiniteSet(S) /\ IsFiniteSet(T)
      /\ Cardinality(S) \in Nat /\ Cardinality(T) \in Nat
  BY SlotsFinite
<1>2. /\ Cardinality(S \ {c}) = Cardinality(S) - One(c \in S)
      /\ Cardinality(T \ {c}) = Cardinality(T) - One(c \in T)
  <2>1. Cardinality(S \ {c}) = IF c \in S THEN Cardinality(S) - 1 ELSE Cardinality(S)
    BY <1>1, FS_RemoveElement
  <2>2. Cardinality(T \ {c}) = IF c \in T THEN Cardinality(T) - 1 ELSE Cardinality(T)
    BY <1>1, FS_RemoveElement
  <2>. QED  BY <1>1, <2>1, <2>2 DEF One
<1>3. Cardinality(T \ {c}) <= Cardinality(S \ {c})
  <2>1. T \ {c} \subseteq S \ {c} /\ IsFiniteSet(S \ {c})  BY SlotsFinite
  <2>. QED  BY <2>1, FS_Subset
<1>4. Cardinality(S \ {c}) \in Nat  BY SlotsFinite
<1>5. One(c \in S) \in Nat /\ One(c \in T) \in Nat /\ (c \in S => One(c \in S) = 1)
  BY DEF One
<1>. QED  BY <1>1, <1>2, <1>3, <1>4, <1>5

LEMMA Counts ==
  ASSUME TypeInv, NEW pl \in Plats, NEW a \in Articles
  PROVE  shipped[pl][a] \in Nat /\ overlaps \in Nat /\ faults \in Nat
  BY DEF TypeInv, TypeOK

LEMMA CountsNext ==
  ASSUME TypeInv', NEW pl \in Plats, NEW a \in Articles
  PROVE  shipped'[pl][a] \in Nat /\ overlaps' \in Nat /\ faults' \in Nat
  BY DEF TypeInv, TypeOK

LEMMA ShippersMove ==
  ASSUME TypeInv, NEW c \in Cycles, NEW y, cyc' = [cyc EXCEPT ![c] = y],
         NEW pl, NEW a, New(pl, a)' => New(pl, a)
  PROVE  /\ Cardinality(Shippers(pl, a)) \in Nat /\ Cardinality(Shippers(pl, a)') \in Nat
         /\ Cardinality(Shippers(pl, a)') + One(MayShip(cyc[c], New(pl, a), pl, a))
              <= Cardinality(Shippers(pl, a)) + One(MayShip(y, New(pl, a)', pl, a))
         /\ MayShip(cyc[c], New(pl, a), pl, a) => Cardinality(Shippers(pl, a)) >= 1
<1>1. PICK S : S = Shippers(pl, a)  OBVIOUS
<1>2. PICK T : T = Shippers(pl, a)'  OBVIOUS
<1>3. \A d : d \in S <=> d \in Cycles /\ MayShip(cyc[d], New(pl, a), pl, a)
  BY <1>1 DEF Shippers
<1>4. \A d : d \in T <=> d \in Cycles /\ MayShip(cyc'[d], New(pl, a)', pl, a)
  BY <1>2 DEF Shippers, MayShip, Visiting
<1>5. cyc'[c] = y /\ \A d \in Cycles \ {c} : cyc'[d] = cyc[d]
  BY DEF TypeInv, TypeOK
<1>6. \A x : MayShip(x, New(pl, a)', pl, a) => MayShip(x, New(pl, a), pl, a)
  BY DEF MayShip
<1>7. S \in SUBSET Cycles /\ T \in SUBSET Cycles /\ T \ {c} \subseteq S
  BY <1>3, <1>4, <1>5, <1>6
<1>8. /\ c \in S <=> MayShip(cyc[c], New(pl, a), pl, a)
      /\ c \in T <=> MayShip(y, New(pl, a)', pl, a)
  BY <1>3, <1>4, <1>5
<1>9. /\ One(c \in S) = One(MayShip(cyc[c], New(pl, a), pl, a))
      /\ One(c \in T) = One(MayShip(y, New(pl, a)', pl, a))
  BY <1>8 DEF One
<1>10. /\ Cardinality(S) \in Nat /\ Cardinality(T) \in Nat
       /\ Cardinality(T) + One(c \in S) <= Cardinality(S) + One(c \in T)
       /\ c \in S => Cardinality(S) >= 1
  BY <1>7, OneEnters
<1>. QED  BY <1>1, <1>2, <1>8, <1>9, <1>10

\* One cycle moves on, for a story and a platform.
LEMMA CountedKept ==
  ASSUME TypeInv, TypeInv', NEW pl \in Plats, NEW a \in Articles, CountedAt(pl, a),
         NEW c \in Cycles, NEW y, cyc' = [cyc EXCEPT ![c] = y],
         New(pl, a)' => New(pl, a),
         shipped'[pl][a] + One(MayShip(y, New(pl, a)', pl, a)) + overlaps + faults
           <= shipped[pl][a] + One(MayShip(cyc[c], New(pl, a), pl, a)) + overlaps' + faults'
  PROVE  CountedAt(pl, a)'
<1>1. /\ Cardinality(Shippers(pl, a)) \in Nat /\ Cardinality(Shippers(pl, a)') \in Nat
      /\ Cardinality(Shippers(pl, a)') + One(MayShip(cyc[c], New(pl, a), pl, a))
           <= Cardinality(Shippers(pl, a)) + One(MayShip(y, New(pl, a)', pl, a))
  BY ShippersMove
<1>2. /\ One(MayShip(cyc[c], New(pl, a), pl, a)) \in Nat
      /\ One(MayShip(y, New(pl, a)', pl, a)) \in Nat
  BY DEF One
<1>3. shipped[pl][a] + Cardinality(Shippers(pl, a)) <= 1 + overlaps + faults
  BY DEF CountedAt
<1>4. shipped'[pl][a] + Cardinality(Shippers(pl, a)') <= 1 + overlaps' + faults'
  BY <1>1, <1>2, <1>3, Counts, CountsNext
<1>. QED  BY <1>4 DEF CountedAt

LEMMA UnrecordedKept ==
  ASSUME TypeInv, TypeInv', NEW pl \in Plats, NEW a \in Articles,
         CountedAt(pl, a), UnrecordedAt(pl, a),
         NEW c \in Cycles, NEW y, cyc' = [cyc EXCEPT ![c] = y],
         New(pl, a)' => New(pl, a), overlaps' + faults' >= overlaps + faults,
         \/ ~New(pl, a)' \/ Visiting(y, pl, a) \/ MayShip(y, TRUE, pl, a)
         \/ /\ shipped'[pl][a] = shipped[pl][a]
            /\ \/ overlaps' + faults' > overlaps + faults
               \/ ~Visiting(cyc[c], pl, a) \/ MayShip(cyc[c], TRUE, pl, a)
  PROVE  UnrecordedAt(pl, a)'
<1>. SUFFICES ASSUME New(pl, a)', Shippers(pl, a)' = {}, Visitors(pl, a)' = {}
              PROVE  shipped'[pl][a] <= overlaps' + faults'
  BY DEF UnrecordedAt
<1>1. cyc'[c] = y /\ \A d \in Cycles \ {c} : cyc'[d] = cyc[d]
  BY DEF TypeInv, TypeOK
<1>2. \A d \in Cycles : ~MayShip(cyc'[d], TRUE, pl, a) /\ ~Visiting(cyc'[d], pl, a)
  BY DEF Shippers, Visitors, MayShip, Visiting
<1>3. /\ shipped'[pl][a] = shipped[pl][a]
      /\ \/ overlaps' + faults' > overlaps + faults
         \/ ~Visiting(cyc[c], pl, a) \/ MayShip(cyc[c], TRUE, pl, a)
  BY <1>1, <1>2
<1>4. \A d \in Cycles \ {c} : ~MayShip(cyc[d], TRUE, pl, a) /\ ~Visiting(cyc[d], pl, a)
  BY <1>1, <1>2
<1>5. MayShip(cyc[c], TRUE, pl, a) => MayShip(cyc[c], New(pl, a), pl, a)
  BY DEF MayShip
<1>6. /\ Cardinality(Shippers(pl, a)) \in Nat
      /\ MayShip(cyc[c], New(pl, a), pl, a) => Cardinality(Shippers(pl, a)) >= 1
  BY ShippersMove
<1>7. shipped[pl][a] + Cardinality(Shippers(pl, a)) <= 1 + overlaps + faults
  BY DEF CountedAt
<1>8. CASE overlaps' + faults' > overlaps + faults
  <2>1. shipped[pl][a] <= 1 + overlaps + faults  BY <1>6, <1>7, Counts
  <2>. QED  BY <1>3, <1>8, <2>1, Counts, CountsNext
<1>9. CASE MayShip(cyc[c], TRUE, pl, a)
  <2>1. shipped[pl][a] <= overlaps + faults  BY <1>5, <1>6, <1>7, <1>9, Counts
  <2>. QED  BY <1>3, <2>1, Counts, CountsNext
<1>10. CASE ~Visiting(cyc[c], pl, a) /\ ~MayShip(cyc[c], TRUE, pl, a)
  <2>1. Shippers(pl, a) = {} /\ Visitors(pl, a) = {}
    BY <1>4, <1>10 DEF Shippers, Visitors, MayShip
  <2>2. shipped[pl][a] <= overlaps + faults  BY <2>1 DEF UnrecordedAt
  <2>. QED  BY <1>3, <2>2, Counts, CountsNext
<1>. QED  BY <1>3, <1>8, <1>9, <1>10

PairKept(pl, a) == CountedAt(pl, a)' /\ UnrecordedAt(pl, a)'

\* The platforms left after a visit were left before it, and the one that is
\* visited is the first of them.
LEMMA TodoRange ==
  ASSUME NEW s \in Seq(Plats), s # <<>>
  PROVE  Range(Tail(s)) \subseteq Range(s) /\ Head(s) \in Range(s)
<1>1. /\ Tail(s) \in Seq(Plats) /\ Len(Tail(s)) = Len(s) - 1 /\ Len(s) >= 1
      /\ \A i \in 1 .. Len(Tail(s)) : Tail(s)[i] = s[i + 1]
      /\ Head(s) = s[1]
  BY HeadTailProperties, EmptySeq
<1>2. DOMAIN s = 1 .. Len(s) /\ Len(s) \in Nat /\ DOMAIN Tail(s) = 1 .. Len(Tail(s))
  BY <1>1
<1>3. \A i \in 1 .. Len(Tail(s)) : i + 1 \in 1 .. Len(s)  BY <1>1, <1>2
<1>4. 1 \in 1 .. Len(s)  BY <1>1, <1>2
<1>. QED  BY <1>1, <1>2, <1>3, <1>4 DEF Range

\* A cycle leaves a visit.
LEMMA LeaveIs ==
  ASSUME TypeInv, NEW c \in Cycles, cyc[c].todo # <<>>, Leave(c)
  PROVE  \E y \in Cycle : /\ cyc' = [cyc EXCEPT ![c] = y]
                          /\ y.pc = "select" /\ y.todo = Tail(cyc[c].todo)
                          /\ Range(y.todo) \subseteq Range(cyc[c].todo)
<1>1. cyc \in [Cycles -> Cycle] /\ cyc[c] \in Cycle  BY DEF TypeInv, TypeOK, Cycle
<1>2. PICK y : y = [cyc[c] EXCEPT !.pc = "select", !.todo = Tail(cyc[c].todo), !.article = None,
                                  !.event = None, !.fallback = FALSE]
  OBVIOUS
<1>3. cyc' = [cyc EXCEPT ![c] = y]  BY <1>1, <1>2 DEF Leave, Cycle
<1>4. cyc[c].todo \in Seq(Plats)  BY <1>1 DEF Cycle
<1>5. y.pc = "select" /\ y.todo = Tail(cyc[c].todo)  BY <1>1, <1>2 DEF Cycle
<1>6. y \in Cycle  BY <1>1, <1>2, <1>4, TodoTail DEF Cycle
<1>. QED  BY <1>3, <1>4, <1>5, <1>6, TodoRange

\* A cycle moves on, and neither ships nor records.
LEMMA QuietKept ==
  ASSUME TypeInv, TypeInv', ShipInv, NEW pl \in Plats, NEW a \in Articles,
         NEW c \in Cycles, NEW y, cyc' = [cyc EXCEPT ![c] = y], cyc[c].pc # "answer",
         New(pl, a)' <=> New(pl, a), shipped'[pl][a] = shipped[pl][a],
         UNCHANGED <<overlaps, faults>>,
         MayShip(y, New(pl, a), pl, a) => MayShip(cyc[c], New(pl, a), pl, a)
  PROVE  PairKept(pl, a)
<1>1. CountedAt(pl, a) /\ UnrecordedAt(pl, a)  BY DEF ShipInv
<1>2. /\ shipped[pl][a] \in Nat /\ overlaps \in Nat /\ faults \in Nat
      /\ overlaps' = overlaps /\ faults' = faults
  BY Counts
<1>3. PICK m : m = One(MayShip(cyc[c], New(pl, a), pl, a))  OBVIOUS
<1>4. PICK n : n = One(MayShip(y, New(pl, a)', pl, a))  OBVIOUS
<1>5. m \in Nat /\ n \in Nat /\ n <= m
  <2>1. MayShip(y, New(pl, a)', pl, a) <=> MayShip(y, New(pl, a), pl, a)  BY DEF MayShip
  <2>. QED  BY <1>3, <1>4, <2>1 DEF One
<1>6. shipped'[pl][a] + n + overlaps + faults <= shipped[pl][a] + m + overlaps' + faults'
  BY <1>2, <1>5
<1>7. CountedAt(pl, a)'  BY <1>1, <1>3, <1>4, <1>6, CountedKept
<1>8. ~Visiting(cyc[c], pl, a) \/ MayShip(cyc[c], TRUE, pl, a)  BY DEF MayShip
<1>9. overlaps' + faults' >= overlaps + faults  BY <1>2
<1>10. UnrecordedAt(pl, a)'  BY <1>1, <1>8, <1>9, UnrecordedKept
<1>. QED  BY <1>7, <1>10 DEF PairKept

LEMMA OneMore ==
  ASSUME NEW s \in Nat, NEW m \in {0, 1}, NEW n \in {0, 1}, NEW o \in Nat, NEW f \in Nat,
         NEW o1 \in Nat, NEW f1 \in Nat, o1 + f1 = o + f + 1
  PROVE  s + n + o + f <= s + m + o1 + f1 /\ o1 + f1 > o + f /\ o1 + f1 >= o + f
  OBVIOUS

\* The same for the price of an overlap or a fault, whatever the cycle does.
LEMMA DisturbedKept ==
  ASSUME TypeInv, TypeInv', ShipInv, NEW pl \in Plats, NEW a \in Articles,
         NEW c \in Cycles, NEW y, cyc' = [cyc EXCEPT ![c] = y],
         New(pl, a)' <=> New(pl, a), shipped'[pl][a] = shipped[pl][a],
         overlaps' + faults' = overlaps + faults + 1
  PROVE  PairKept(pl, a)
<1>1. CountedAt(pl, a) /\ UnrecordedAt(pl, a)  BY DEF ShipInv
<1>2. /\ shipped[pl][a] \in Nat /\ overlaps \in Nat /\ faults \in Nat
      /\ overlaps' \in Nat /\ faults' \in Nat
  BY Counts, CountsNext
<1>3. PICK m : m = One(MayShip(cyc[c], New(pl, a), pl, a))  OBVIOUS
<1>4. PICK n : n = One(MayShip(y, New(pl, a)', pl, a))  OBVIOUS
<1>5. m \in {0, 1} /\ n \in {0, 1}  BY <1>3, <1>4 DEF One
<1>6. /\ shipped[pl][a] + n + overlaps + faults <= shipped[pl][a] + m + overlaps' + faults'
      /\ overlaps' + faults' > overlaps + faults /\ overlaps' + faults' >= overlaps + faults
  <2>1. PICK s, o, f, o1, f1 : /\ s = shipped[pl][a] /\ o = overlaps /\ f = faults
                               /\ o1 = overlaps' /\ f1 = faults'
    OBVIOUS
  <2>2. s \in Nat /\ o \in Nat /\ f \in Nat /\ o1 \in Nat /\ f1 \in Nat  BY <1>2, <2>1
  <2>3. o1 + f1 = o + f + 1  BY <2>1
  <2>4. s + n + o + f <= s + m + o1 + f1 /\ o1 + f1 > o + f /\ o1 + f1 >= o + f
    BY <1>5, <2>2, <2>3, OneMore
  <2>. QED  BY <2>1, <2>4
<1>7. CountedAt(pl, a)'  BY <1>1, <1>3, <1>4, <1>6, CountedKept
<1>8. UnrecordedAt(pl, a)'  BY <1>1, <1>6, UnrecordedKept
<1>. QED  BY <1>7, <1>8 DEF PairKept

\* The visit ends with the story's row.
LEMMA RecordedKept ==
  ASSUME TypeInv, TypeInv', ShipInv, NEW pl \in Plats, NEW a \in Articles,
         NEW c \in Cycles, cyc[c].pc \in {"post", "answer"}, Leave(c),
         NEW status \in {"posted", "failed"}, NEW e \in Events \cup {None},
         Upsert(c, status, e), shipped' = shipped, overlaps' = overlaps,
         faults' \in {faults, faults + 1}
  PROVE  PairKept(pl, a)
<1>1. CountedAt(pl, a) /\ UnrecordedAt(pl, a)  BY DEF ShipInv
<1>2. cyc[c].todo # <<>> /\ cyc[c].article \in Articles  BY DEF TypeInv, Shape
<1>3. PICK y \in Cycle : /\ cyc' = [cyc EXCEPT ![c] = y]
                         /\ y.pc = "select" /\ y.todo = Tail(cyc[c].todo)
                         /\ Range(y.todo) \subseteq Range(cyc[c].todo)
  BY <1>2, LeaveIs
<1>4. cyc[c] \in Cycle /\ Here(c) \in Plats
  BY <1>2, TodoTail DEF TypeInv, TypeOK, Cycle, Here
<1>5. PICK h, b : h = Here(c) /\ b = cyc[c].article  OBVIOUS
<1>6. PICK r : r = [status |-> status, at |-> IF status = "posted" THEN now ELSE 0, event |-> e]
  OBVIOUS
<1>7. rows' = [rows EXCEPT ![h][b] = r] /\ r.status # "none" /\ h \in Plats /\ b \in Articles
  BY <1>2, <1>4, <1>5, <1>6 DEF Upsert
<1>8. /\ DOMAIN rows = Plats /\ DOMAIN rows[h] = Articles
  BY <1>7 DEF TypeInv, TypeOK
<1>9. /\ shipped'[pl][a] = shipped[pl][a] /\ shipped[pl][a] \in Nat
       /\ overlaps' = overlaps /\ overlaps \in Nat /\ faults \in Nat
  BY Counts
<1>10. faults' = faults \/ faults' = faults + 1
  OBVIOUS
<1>11. overlaps' + faults' >= overlaps + faults
  <2>1. CASE faults' = faults  BY <1>9, <2>1
  <2>2. CASE faults' = faults + 1  BY <1>9, <2>2
  <2>. QED  BY <1>10, <2>1, <2>2
<1>12. ASSUME NEW m \in Nat, NEW n \in Nat, n <= m
       PROVE  shipped'[pl][a] + n + overlaps + faults
                <= shipped[pl][a] + m + overlaps' + faults'
  <2>1. CASE faults' = faults  BY <1>9, <1>12, <2>1
  <2>2. CASE faults' = faults + 1  BY <1>9, <1>12, <2>2
  <2>. QED  BY <1>10, <2>1, <2>2
<1>13. CASE pl = h /\ a = b
  <2>1. ~New(pl, a)'  BY <1>7, <1>8, <1>13 DEF New
  <2>2. ~MayShip(y, New(pl, a)', pl, a)  BY <1>3, <2>1 DEF MayShip, Visiting
  <2>3. UnrecordedAt(pl, a)'  BY <2>1 DEF UnrecordedAt
  <2>4. PICK m : m = One(MayShip(cyc[c], New(pl, a), pl, a))  OBVIOUS
  <2>5. PICK n : n = One(MayShip(y, New(pl, a)', pl, a))  OBVIOUS
  <2>6. m \in Nat /\ n = 0  BY <2>2, <2>4, <2>5 DEF One
  <2>7. shipped'[pl][a] + n + overlaps + faults <= shipped[pl][a] + m + overlaps' + faults'
    BY <1>12, <2>6
  <2>8. CountedAt(pl, a)'  BY <1>1, <1>3, <2>1, <2>4, <2>5, <2>7, CountedKept
  <2>. QED  BY <2>3, <2>8 DEF PairKept
<1>14. CASE ~(pl = h /\ a = b)
  <2>1. New(pl, a)' <=> New(pl, a)  BY <1>7, <1>8, <1>14 DEF New
  <2>2. ~Visiting(cyc[c], pl, a)  BY <1>5, <1>14 DEF Visiting, Here
  <2>3. MayShip(y, New(pl, a), pl, a) => MayShip(cyc[c], New(pl, a), pl, a)
    BY <1>3, <2>2 DEF MayShip, Visiting
  <2>4. PICK m : m = One(MayShip(cyc[c], New(pl, a), pl, a))  OBVIOUS
  <2>5. PICK n : n = One(MayShip(y, New(pl, a)', pl, a))  OBVIOUS
  <2>6. m \in Nat /\ n \in Nat /\ n <= m
    <3>1. MayShip(y, New(pl, a)', pl, a) <=> MayShip(y, New(pl, a), pl, a)
      BY <2>1 DEF MayShip
    <3>. QED  BY <2>3, <2>4, <2>5, <3>1 DEF One
  <2>7. shipped'[pl][a] + n + overlaps + faults <= shipped[pl][a] + m + overlaps' + faults'
    BY <1>12, <2>6
  <2>8. CountedAt(pl, a)'  BY <1>1, <1>3, <2>1, <2>4, <2>5, <2>7, CountedKept
  <2>9. overlaps' + faults' >= overlaps + faults  BY <1>11
  <2>10. shipped'[pl][a] = shipped[pl][a]  OBVIOUS
  <2>11. UnrecordedAt(pl, a)'
    BY <1>1, <1>3, <2>1, <2>2, <2>9, <2>10, UnrecordedKept
  <2>. QED  BY <2>8, <2>11 DEF PairKept
<1>. QED  BY <1>13, <1>14

LEMMA SelectKept ==
  ASSUME TypeInv, TypeInv', ShipInv, NEW c \in Cycles, Select(c),
         NEW pl \in Plats, NEW a \in Articles
  PROVE  PairKept(pl, a)
<1>1. /\ cyc[c].pc = "select" /\ cyc[c].todo # <<>> /\ UNCHANGED <<overlaps, faults>>
      /\ shipped' = shipped /\ (New(pl, a)' <=> New(pl, a))
  BY DEF Select, posts, counts, New
<1>2. cyc \in [Cycles -> Cycle] /\ cyc[c] \in Cycle /\ cyc[c].todo \in Seq(Plats)
  BY DEF TypeInv, TypeOK, Cycle
<1>3. CASE Leave(c)
  <2>1. PICK y \in Cycle : /\ cyc' = [cyc EXCEPT ![c] = y]
                           /\ y.pc = "select" /\ y.todo = Tail(cyc[c].todo)
                           /\ Range(y.todo) \subseteq Range(cyc[c].todo)
    BY <1>1, <1>3, LeaveIs
  <2>2. MayShip(y, New(pl, a), pl, a) => MayShip(cyc[c], New(pl, a), pl, a)
    BY <1>1, <2>1 DEF MayShip, Visiting
  <2>. QED  BY <1>1, <2>1, <2>2, QuietKept
<1>4. ASSUME NEW b \in Unposted(Here(c)), NEW e, Choose(c, b, e)
      PROVE  PairKept(pl, a)
  <2>1. PICK y : y = [cyc[c] EXCEPT !.pc = "prepare", !.article = b, !.event = e]  OBVIOUS
  <2>2. cyc' = [cyc EXCEPT ![c] = y]  BY <1>2, <1>4, <2>1 DEF Choose
  <2>3. y.pc = "prepare" /\ y.article = b /\ y.todo = cyc[c].todo
    BY <1>2, <2>1 DEF Cycle
  <2>4. rows[Here(c)][b].status = "none"  BY <1>4 DEF Unposted
  <2>5. Visiting(y, pl, a) => New(pl, a) /\ pl \in Range(cyc[c].todo)
    BY <1>1, <1>2, <2>3, <2>4, TodoRange DEF Visiting, New, Here
  <2>6. MayShip(y, New(pl, a), pl, a) => MayShip(cyc[c], New(pl, a), pl, a)
    BY <1>1, <2>3, <2>5 DEF MayShip, Visiting
  <2>7. cyc[c].pc # "answer" /\ shipped'[pl][a] = shipped[pl][a]  BY <1>1
  <2>. QED  BY <1>1, <2>2, <2>6, <2>7, QuietKept
<1>5. Leave(c) \/ \E b \in Unposted(Here(c)) : \E e : Choose(c, b, e)
  BY DEF Select, Leads
<1>. QED  BY <1>3, <1>4, <1>5

LEMMA PrepareKept ==
  ASSUME TypeInv, TypeInv', ShipInv, NEW c \in Cycles, Prepare(c),
         NEW pl \in Plats, NEW a \in Articles
  PROVE  PairKept(pl, a)
<1>1. /\ cyc[c].pc = "prepare" /\ cyc[c].todo # <<>> /\ UNCHANGED <<overlaps, faults>>
      /\ shipped' = shipped /\ (New(pl, a)' <=> New(pl, a))
  BY DEF Prepare, posts, counts, New, TypeInv, Shape
<1>2. cyc \in [Cycles -> Cycle] /\ cyc[c] \in Cycle  BY DEF TypeInv, TypeOK, Cycle
<1>3. CASE Leave(c)
  <2>1. PICK y \in Cycle : /\ cyc' = [cyc EXCEPT ![c] = y]
                           /\ y.pc = "select" /\ y.todo = Tail(cyc[c].todo)
                           /\ Range(y.todo) \subseteq Range(cyc[c].todo)
    BY <1>1, <1>3, LeaveIs
  <2>2. MayShip(y, New(pl, a), pl, a) => MayShip(cyc[c], New(pl, a), pl, a)
    BY <1>1, <2>1 DEF MayShip, Visiting
  <2>. QED  BY <1>1, <2>1, <2>2, QuietKept
<1>4. CASE ~Leave(c)
  <2>0. PICK e : cyc' = [cyc EXCEPT ![c].pc = "post", ![c].event = e]
    BY <1>4 DEF Prepare
  <2>1. PICK y : y = [cyc[c] EXCEPT !.pc = "post", !.event = e]  OBVIOUS
  <2>2. cyc' = [cyc EXCEPT ![c] = y]  BY <1>2, <2>0, <2>1
  <2>3. y.pc = "post" /\ y.article = cyc[c].article /\ y.todo = cyc[c].todo
    BY <1>2, <2>1 DEF Cycle
  <2>4. MayShip(y, New(pl, a), pl, a) => MayShip(cyc[c], New(pl, a), pl, a)
    BY <1>1, <2>3 DEF MayShip, Visiting
  <2>. QED  BY <1>1, <2>2, <2>4, QuietKept
<1>. QED  BY <1>3, <1>4

LEMMA ShipKept ==
  ASSUME TypeInv, TypeInv', ShipInv, NEW c \in Cycles, Ship(c),
         NEW pl \in Plats, NEW a \in Articles
  PROVE  PairKept(pl, a)
<1>0. CountedAt(pl, a) /\ UnrecordedAt(pl, a)  BY DEF ShipInv
<1>1. /\ cyc[c].pc = "post" /\ cyc[c].todo # <<>> /\ cyc[c].article \in Articles
      /\ overlaps' = overlaps /\ faults' = faults /\ (New(pl, a)' <=> New(pl, a))
      /\ cyc' = [cyc EXCEPT ![c].pc = "answer"]
  BY DEF Ship, counts, New, TypeInv, Shape
<1>2. cyc \in [Cycles -> Cycle] /\ cyc[c] \in Cycle  BY DEF TypeInv, TypeOK, Cycle
<1>3. PICK y : y = [cyc[c] EXCEPT !.pc = "answer"]  OBVIOUS
<1>4. cyc' = [cyc EXCEPT ![c] = y]  BY <1>1, <1>2, <1>3
<1>5. y.pc = "answer" /\ y.article = cyc[c].article /\ y.todo = cyc[c].todo
  BY <1>2, <1>3 DEF Cycle
<1>6. PICK h, b : h = Here(c) /\ b = cyc[c].article  OBVIOUS
<1>7. /\ h \in Plats /\ b \in Articles
      /\ shipped' = [shipped EXCEPT ![h][b] = @ + 1]
  BY <1>1, <1>2, <1>6, TodoTail DEF Here, Cycle, Ship
<1>8. /\ shipped \in [Plats -> [Articles -> Nat]] /\ shipped[pl][a] \in Nat
      /\ overlaps \in Nat /\ faults \in Nat
  BY DEF TypeInv, TypeOK
<1>9. Visiting(y, pl, a) <=> pl = h /\ a = b  BY <1>5, <1>6 DEF Visiting, Here
<1>10. Visiting(cyc[c], pl, a) <=> pl = h /\ a = b  BY <1>1, <1>6 DEF Visiting, Here
<1>11. PICK m : m = One(MayShip(cyc[c], New(pl, a), pl, a))  OBVIOUS
<1>12. PICK n : n = One(MayShip(y, New(pl, a)', pl, a))  OBVIOUS
<1>13. CASE pl = h /\ a = b
  <2>1. shipped'[pl][a] = shipped[pl][a] + 1  BY <1>7, <1>8, <1>13
  <2>2. m = 1 /\ n = 0
    BY <1>1, <1>5, <1>9, <1>10, <1>11, <1>12, <1>13 DEF MayShip, One
  <2>3. shipped'[pl][a] + n + overlaps + faults <= shipped[pl][a] + m + overlaps' + faults'
    BY <1>1, <1>8, <2>1, <2>2
  <2>4. CountedAt(pl, a)'  BY <1>0, <1>1, <1>4, <1>11, <1>12, <2>3, CountedKept
  <2>5. Visiting(y, pl, a) /\ overlaps' + faults' >= overlaps + faults
    BY <1>1, <1>8, <1>9, <1>13
  <2>6. UnrecordedAt(pl, a)'  BY <1>0, <1>1, <1>4, <2>5, UnrecordedKept
  <2>. QED  BY <2>4, <2>6 DEF PairKept
<1>14. CASE ~(pl = h /\ a = b)
  <2>1. shipped'[pl][a] = shipped[pl][a]  BY <1>7, <1>8, <1>14
  <2>2. MayShip(y, New(pl, a), pl, a) => MayShip(cyc[c], New(pl, a), pl, a)
    BY <1>1, <1>5, <1>9, <1>10, <1>14 DEF MayShip
  <2>3. cyc[c].pc # "answer" /\ UNCHANGED <<overlaps, faults>>  BY <1>1
  <2>. QED  BY <1>1, <1>4, <2>1, <2>2, <2>3, QuietKept
<1>. QED  BY <1>13, <1>14

LEMMA OutcomeKept ==
  ASSUME TypeInv, TypeInv', ShipInv, NEW c \in Cycles,
         Answered(c) \/ PostFails(c) \/ PostedRowFails(c),
         NEW pl \in Plats, NEW a \in Articles
  PROVE  PairKept(pl, a)
<1>1. /\ cyc[c].pc \in {"post", "answer"} /\ cyc[c].todo # <<>>
      /\ shipped' = shipped /\ overlaps' = overlaps /\ faults' \in {faults, faults + 1}
      /\ cyc[c].event \in Events \cup {None}
  BY DEF Answered, PostFails, PostedRowFails, Fault, counts, TypeInv, TypeOK, Shape
<1>2. CASE RecordFailed(c) \/ (Upsert(c, "posted", cyc[c].event) /\ Leave(c))
  BY <1>1, <1>2, RecordedKept DEF RecordFailed
<1>3. CASE PostFails(c) /\ ~RecordFailed(c)
  <2>1. /\ cyc' = [cyc EXCEPT ![c].pc = "post", ![c].fallback = TRUE]
        /\ New(pl, a)' <=> New(pl, a)
    BY <1>3 DEF PostFails, New
  <2>2. cyc \in [Cycles -> Cycle] /\ cyc[c] \in Cycle  BY DEF TypeInv, TypeOK, Cycle
  <2>3. PICK y : y = [cyc[c] EXCEPT !.pc = "post", !.fallback = TRUE]  OBVIOUS
  <2>4. cyc' = [cyc EXCEPT ![c] = y]  BY <2>1, <2>2, <2>3
  <2>5. y.pc = "post" /\ y.article = cyc[c].article /\ y.todo = cyc[c].todo
    BY <2>2, <2>3 DEF Cycle
  <2>6. CASE cyc[c].pc = "post" /\ faults' = faults
    <3>1. MayShip(y, New(pl, a), pl, a) => MayShip(cyc[c], New(pl, a), pl, a)
      BY <2>5, <2>6 DEF MayShip, Visiting
    <3>. QED  BY <1>1, <2>1, <2>4, <2>6, <3>1, QuietKept
  <2>7. CASE faults' = faults + 1
    <3>1. overlaps' + faults' = overlaps + faults + 1  BY <1>1, <2>7, Counts
    <3>. QED  BY <1>1, <2>1, <2>4, <3>1, DisturbedKept
  <2>. QED  BY <1>3, <2>6, <2>7 DEF PostFails, Fault
<1>. QED  BY <1>2, <1>3 DEF Answered, PostedRowFails

LEMMA ClosingKept ==
  ASSUME TypeInv, TypeInv', ShipInv, NEW c \in Cycles, Closing(c),
         NEW pl \in Plats, NEW a \in Articles
  PROVE  PairKept(pl, a)
<1>1. PICK y \in Cycle :
        /\ cyc' = [cyc EXCEPT ![c] = y]
        /\ \/ y = Idle
           \/ y.pc \in {"complete", "error"} /\ y.todo = cyc[c].todo
  BY ClosingIs
<1>2. /\ shipped'[pl][a] = shipped[pl][a] /\ overlaps' = overlaps
      /\ New(pl, a)' <=> New(pl, a)
  BY ClosingIs DEF posts, New
<1>3. CASE faults' = faults + 1
  <2>1. overlaps' + faults' = overlaps + faults + 1  BY <1>2, <1>3, Counts
  <2>. QED  BY <1>1, <1>2, <2>1, DisturbedKept
<1>4. CASE Complete(c) \/ RecordEnd(c)
  <2>1. cyc[c].pc \in {"select", "complete", "error"} /\ UNCHANGED <<overlaps, faults>>
    BY <1>4 DEF Complete, RecordEnd, Writing, counts
  <2>2. MayShip(y, New(pl, a), pl, a) => MayShip(cyc[c], New(pl, a), pl, a)
    BY <1>1, <2>1 DEF MayShip, Visiting, Idle
  <2>. QED  BY <1>1, <1>2, <2>1, <2>2, QuietKept
<1>. QED  BY <1>3, <1>4 DEF Closing, BothRowsFail, RecordEndFails, Fault

\* A new cycle overlaps another, or finds no one visiting.
LEMMA OccupyKept ==
  ASSUME TypeInv, TypeInv', ShipInv, NEW c \in Cycles, ~Running(c), NEW p, NEW t, NEW dry,
         NEW todo, Occupy(c, p, t, dry, todo), UNCHANGED <<posts, faults>>,
         NEW pl \in Plats, NEW a \in Articles
  PROVE  PairKept(pl, a)
<1>0. CountedAt(pl, a) /\ UnrecordedAt(pl, a)  BY DEF ShipInv
<1>1. PICK y : /\ y = [Idle EXCEPT !.pc = "select", !.proc = p, !.startedAt = t, !.dry = dry,
                                   !.todo = todo]
               /\ cyc' = [cyc EXCEPT ![c] = y]
  BY DEF Occupy
<1>2. y.pc = "select"  BY <1>1 DEF Idle
<1>3. /\ shipped'[pl][a] = shipped[pl][a] /\ faults' = faults
      /\ New(pl, a)' <=> New(pl, a)
  BY DEF posts, New
<1>4. CASE Overlapping
  <2>1. overlaps' = overlaps + 1  BY <1>4 DEF Occupy
  <2>2. overlaps' + faults' = overlaps + faults + 1  BY <1>3, <2>1, Counts
  <2>. QED  BY <1>1, <1>3, <2>2, DisturbedKept
<1>5. CASE ~Overlapping
  <2>1. overlaps' = overlaps  BY <1>5, Counts DEF Occupy
  <2>2. \A d \in Cycles : cyc[d].pc = "idle"  BY <1>5 DEF Overlapping, Running
  <2>3. Shippers(pl, a) = {} /\ Visitors(pl, a) = {} /\ ~Visiting(cyc[c], pl, a)
    BY <2>2 DEF Shippers, Visitors, MayShip, Visiting
  <2>4. UnrecordedAt(pl, a)'
    <3>1. overlaps' + faults' >= overlaps + faults  BY <1>3, <2>1, Counts
    <3>. QED  BY <1>0, <1>1, <1>3, <2>3, <3>1, UnrecordedKept
  <2>5. CASE ~New(pl, a)
    <3>1. ~MayShip(y, New(pl, a)', pl, a)  BY <1>2, <1>3, <2>5 DEF MayShip, Visiting
    <3>2. PICK m : m = One(MayShip(cyc[c], New(pl, a), pl, a))  OBVIOUS
    <3>3. m \in Nat /\ One(MayShip(y, New(pl, a)', pl, a)) = 0  BY <3>1, <3>2 DEF One
    <3>4. shipped'[pl][a] + 0 + overlaps + faults <= shipped[pl][a] + m + overlaps' + faults'
      BY <1>3, <2>1, <3>3, Counts
    <3>5. CountedAt(pl, a)'  BY <1>0, <1>1, <1>3, <3>2, <3>3, <3>4, CountedKept
    <3>. QED  BY <2>4, <3>5 DEF PairKept
  <2>6. CASE New(pl, a)
    <3>1. shipped[pl][a] <= overlaps + faults  BY <1>0, <2>3, <2>6 DEF UnrecordedAt
    <3>2. /\ Cardinality(Shippers(pl, a)') \in Nat
          /\ Cardinality(Shippers(pl, a)') + One(MayShip(cyc[c], New(pl, a), pl, a))
               <= Cardinality(Shippers(pl, a)) + One(MayShip(y, New(pl, a)', pl, a))
      BY <1>1, <1>3, ShippersMove
    <3>3. Cardinality(Shippers(pl, a)) = 0  BY <2>3, FS_EmptySet
    <3>4. /\ One(MayShip(cyc[c], New(pl, a), pl, a)) \in Nat
          /\ One(MayShip(y, New(pl, a)', pl, a)) \in {0, 1}
      BY DEF One
    <3>5. Cardinality(Shippers(pl, a)') <= 1  BY <3>2, <3>3, <3>4
    <3>6. shipped'[pl][a] + Cardinality(Shippers(pl, a)') <= 1 + overlaps' + faults'
      BY <1>3, <2>1, <3>1, <3>2, <3>5, Counts
    <3>7. CountedAt(pl, a)'  BY <3>6 DEF CountedAt
    <3>. QED  BY <2>4, <3>7 DEF PairKept
  <2>. QED  BY <2>5, <2>6
<1>. QED  BY <1>4, <1>5

LEMMA CrashKept ==
  ASSUME TypeInv, TypeInv', ShipInv, NEW p \in Procs, Crash(p),
         NEW pl \in Plats, NEW a \in Articles
  PROVE  PairKept(pl, a)
<1>0. CountedAt(pl, a) /\ UnrecordedAt(pl, a)  BY DEF ShipInv
<1>1. /\ shipped'[pl][a] = shipped[pl][a] /\ overlaps' = overlaps /\ faults' = faults + 1
      /\ New(pl, a)' <=> New(pl, a)
      /\ \A c \in Cycles : cyc'[c] = Idle \/ cyc'[c] = cyc[c]
  BY DEF Crash, Fault, posts, New
<1>2. PICK S : S = Shippers(pl, a)  OBVIOUS
<1>3. PICK T : T = Shippers(pl, a)'  OBVIOUS
<1>4. \A d : d \in S <=> d \in Cycles /\ MayShip(cyc[d], New(pl, a), pl, a)
  BY <1>2 DEF Shippers
<1>5. \A d : d \in T <=> d \in Cycles /\ MayShip(cyc'[d], New(pl, a), pl, a)
  BY <1>1, <1>3 DEF Shippers, MayShip, Visiting
<1>6. ~MayShip(Idle, New(pl, a), pl, a)  BY DEF MayShip, Visiting, Idle
<1>7. S \in SUBSET Cycles /\ T \in SUBSET S  BY <1>1, <1>4, <1>5, <1>6
<1>8. Cardinality(S) \in Nat /\ Cardinality(T) \in Nat /\ Cardinality(T) <= Cardinality(S)
  BY <1>7, SlotsFinite, FS_Subset
<1>9. shipped[pl][a] + Cardinality(S) <= 1 + overlaps + faults
  BY <1>0, <1>2 DEF CountedAt
<1>10. /\ shipped'[pl][a] + Cardinality(T) <= 1 + overlaps' + faults'
       /\ shipped'[pl][a] <= overlaps' + faults'
  BY <1>1, <1>8, <1>9, Counts
<1>. QED  BY <1>3, <1>10 DEF PairKept, CountedAt, UnrecordedAt

LEMMA ShipStep == TypeInv /\ TypeInv' /\ ShipInv /\ [Next]_vars => ShipInv'
<1>. SUFFICES ASSUME TypeInv, TypeInv', ShipInv, [Next]_vars,
                     NEW pl \in Plats, NEW a \in Articles
              PROVE  PairKept(pl, a)
  BY DEF ShipInv, PairKept, Plats
<1>1. ASSUME NEW c \in Cycles, Visit(c) PROVE PairKept(pl, a)
  BY <1>1, SelectKept, PrepareKept, ShipKept, OutcomeKept, ClosingKept DEF Visit, Closing
<1>2. ASSUME NEW c \in Cycles, NEW p \in Procs, Begin(c, p) PROVE PairKept(pl, a)
  <2>1. ASSUME NEW dry \in BOOLEAN, Start(c, p, dry) PROVE PairKept(pl, a)
    BY <2>1, OccupyKept DEF Start
  <2>2. ASSUME NEW dry \in BOOLEAN, NEW h \in Plats, Poke(c, p, h, dry) PROVE PairKept(pl, a)
    BY <2>2, OccupyKept DEF Poke
  <2>. QED  BY <1>2, <2>1, <2>2 DEF Begin
<1>3. CASE Tick \/ UNCHANGED vars
  <2>1. UNCHANGED <<cyc, rows, shipped, overlaps, faults>>
    BY <1>3 DEF Tick, vars, posts, counts
  <2>2. Shippers(pl, a)' = Shippers(pl, a) /\ Visitors(pl, a)' = Visitors(pl, a)
    BY <2>1 DEF Shippers, Visitors, MayShip, Visiting, New
  <2>3. CountedAt(pl, a) /\ UnrecordedAt(pl, a)  BY DEF ShipInv
  <2>4. shipped'[pl][a] = shipped[pl][a] /\ (New(pl, a)' <=> New(pl, a))  BY <2>1 DEF New
  <2>. QED  BY <2>1, <2>2, <2>3, <2>4 DEF PairKept, CountedAt, UnrecordedAt
<1>4. ASSUME NEW p \in Procs, StartThrows(p) PROVE PairKept(pl, a)
  <2>1. UNCHANGED <<cyc, rows, shipped, overlaps>> /\ faults' = faults + 1
    BY <1>4 DEF StartThrows, Fault, posts
  <2>2. Shippers(pl, a)' = Shippers(pl, a) /\ Visitors(pl, a)' = Visitors(pl, a)
    BY <2>1 DEF Shippers, Visitors, MayShip, Visiting, New
  <2>3. CountedAt(pl, a) /\ UnrecordedAt(pl, a)  BY DEF ShipInv
  <2>4. shipped'[pl][a] = shipped[pl][a] /\ (New(pl, a)' <=> New(pl, a))  BY <2>1 DEF New
  <2>5. Cardinality(Shippers(pl, a)) \in Nat  BY SlotsFinite DEF Shippers
  <2>6. CountedAt(pl, a)'  BY <2>1, <2>2, <2>3, <2>4, <2>5, Counts DEF CountedAt
  <2>7. UnrecordedAt(pl, a)'  BY <2>1, <2>2, <2>3, <2>4, Counts DEF UnrecordedAt
  <2>. QED  BY <2>6, <2>7 DEF PairKept
<1>5. ASSUME NEW c \in Cycles, RecordEnd(c) \/ RecordEndFails(c) PROVE PairKept(pl, a)
  BY <1>5, ClosingKept DEF Closing
<1>. QED  BY <1>1, <1>2, <1>3, <1>4, <1>5, CrashKept DEF Next

LEMMA InitShip == Init => ShipInv
<1>. SUFFICES ASSUME Init, NEW pl \in Plats, NEW a \in Articles
              PROVE  CountedAt(pl, a) /\ UnrecordedAt(pl, a)
  BY DEF ShipInv
<1>1. shipped[pl][a] = 0 /\ overlaps = 0 /\ faults = 0 /\ \A c \in Cycles : cyc[c] = Idle
  BY DEF Init
<1>2. Shippers(pl, a) = {}  BY <1>1 DEF Shippers, MayShip, Visiting, Idle
<1>3. Cardinality(Shippers(pl, a)) = 0  BY <1>2, FS_EmptySet
<1>. QED  BY <1>1, <1>3 DEF CountedAt, UnrecordedAt

\* A story goes out twice on a platform only after an overlap, a crash, a lost
\* answer or a failed write, and at most once more for each.
THEOREM DuplicatesExplainedHolds == Spec => []DuplicatesExplained
<1>1. Spec => []TypeInv  BY InitType, StepType, PTL DEF Spec
<1>2. TypeInv /\ TypeInv' /\ ShipInv /\ [Next]_vars => ShipInv'  BY ShipStep
<1>3. TypeInv /\ ShipInv => DuplicatesExplained
  <2>. SUFFICES ASSUME TypeInv, ShipInv, NEW pl \in Plats, NEW a \in Articles
                PROVE  shipped[pl][a] <= 1 + overlaps + faults
    BY DEF DuplicatesExplained
  <2>1. shipped[pl][a] + Cardinality(Shippers(pl, a)) <= 1 + overlaps + faults
    BY DEF ShipInv, CountedAt
  <2>2. Cardinality(Shippers(pl, a)) \in Nat  BY SlotsFinite DEF Shippers
  <2>. QED  BY <2>1, <2>2, Counts
<1>4. Spec => []ShipInv  BY <1>1, <1>2, InitShip, PTL DEF Spec
<1>. QED  BY <1>1, <1>3, <1>4, PTL

-----------------------------------------------------------------------------
(* PickedOnce.  As long as nothing overlapped and nothing failed there is   *)
(* one cycle at most, the story of its visit has no row yet, and an event   *)
(* whose carousel went out has its posted row or is the one whose answer    *)
(* that cycle awaits: a cycle that selects finds the event retired.         *)

Calm == overlaps + faults = 0

\* The story of a visit is not recorded, and only Instagram posts events.
AtWork(x) ==
  x.pc \in {"prepare", "post", "answer"}
    => /\ New(Head(x.todo), x.article)
       /\ x.event # None => Head(x.todo) = Instagram

RowOf(e) ==
  \E a \in Articles : rows[Instagram][a].status = "posted" /\ rows[Instagram][a].event = e
Awaited(e) == \E c \in Cycles : cyc[c].pc = "answer" /\ cyc[c].event = e

DeckKnown(e) == decks[e] > 0 => Instagram \in Plats /\ (RowOf(e) \/ Awaited(e))

Alone(c) == \A d \in Cycles : Running(d) => d = c

DeckInv ==
  Calm => /\ \A c, d \in Cycles : Running(c) /\ Running(d) => c = d
          /\ \A c \in Cycles : AtWork(cyc[c])
          /\ \A e \in Events : DeckKnown(e)

LEMMA ZeroSum ==
  ASSUME NEW m \in Nat, NEW n \in Nat, m + n = 0
  PROVE  m = 0 /\ n = 0
  OBVIOUS

LEMMA CalmIs ==
  ASSUME TypeInv, TypeInv', Calm'
  PROVE  /\ overlaps' = 0 /\ faults' = 0
         /\ (overlaps' = overlaps /\ faults' = faults => Calm)
<1>1. overlaps' \in Nat /\ faults' \in Nat  BY DEF TypeInv, TypeOK
<1>2. overlaps' + faults' = 0  BY DEF Calm
<1>3. overlaps' = 0 /\ faults' = 0  BY <1>1, <1>2, ZeroSum
<1>4. CASE overlaps' = overlaps /\ faults' = faults
  <2>1. overlaps + faults = 0  BY <1>2, <1>4
  <2>. QED  BY <1>3, <2>1 DEF Calm
<1>. QED  BY <1>3, <1>4

\* The only cycle at work takes a step.
LEMMA LoneStep ==
  ASSUME TypeInv, TypeInv', DeckInv, Calm, NEW c \in Cycles, Alone(c),
         NEW y, cyc' = [cyc EXCEPT ![c] = y], AtWork(y)',
         \A e \in Events : DeckKnown(e)'
  PROVE  DeckInv'
<1>1. \A d \in Cycles : cyc'[d] = IF d = c THEN y ELSE cyc[d]  BY DEF TypeInv, TypeOK
<1>2. \A d \in Cycles \ {c} : cyc'[d].pc = "idle"  BY <1>1 DEF Alone, Running
<1>3. \A d \in Cycles : Running(d)' => d = c  BY <1>2 DEF Running
<1>4. \A d \in Cycles : AtWork(cyc[d])'
  <2>. SUFFICES ASSUME NEW d \in Cycles PROVE AtWork(cyc[d])'  OBVIOUS
  <2>1. CASE d = c
    <3>1. cyc'[d] = y  BY <1>1, <2>1
    <3>. QED  BY <3>1 DEF AtWork, New
  <2>2. CASE d # c  BY <1>2, <2>2 DEF AtWork
  <2>. QED  BY <2>1, <2>2
<1>. QED  BY <1>3, <1>4 DEF DeckInv

\* A step before the post, or after its end, that records nothing.
LEMMA DeckQuiet ==
  ASSUME TypeInv, TypeInv', DeckInv, Calm, NEW c \in Cycles, Alone(c),
         cyc[c].pc # "answer", decks' = decks, rows' = rows
  PROVE  \A e \in Events : DeckKnown(e)'
<1>1. \A d \in Cycles : cyc[d].pc # "answer"  BY DEF Alone, Running
<1>2. \A e \in Events : ~Awaited(e)  BY <1>1 DEF Awaited
<1>. QED  BY <1>2 DEF DeckInv, DeckKnown, RowOf

\* A row that is written first keeps the posted rows of the others.
LEMMA RowKept ==
  ASSUME TypeInv, NEW h \in Plats, NEW b \in Articles, NEW r, New(h, b),
         rows' = [rows EXCEPT ![h][b] = r], NEW e \in Events, Instagram \in Plats, RowOf(e)
  PROVE  RowOf(e)'
<1>1. PICK a \in Articles : /\ rows[Instagram][a].status = "posted"
                            /\ rows[Instagram][a].event = e
  BY DEF RowOf
<1>2. DOMAIN rows = Plats /\ DOMAIN rows[h] = Articles  BY DEF TypeInv, TypeOK
<1>3. ~(Instagram = h /\ a = b)  BY <1>1 DEF New
<1>4. rows'[Instagram][a] = rows[Instagram][a]  BY <1>2, <1>3
<1>. QED  BY <1>1, <1>4 DEF RowOf

\* Whoever runs beside no one else.
LEMMA AloneIs ==
  ASSUME DeckInv, Calm, NEW c \in Cycles, Running(c)
  PROVE  Alone(c) /\ AtWork(cyc[c])
  BY DEF DeckInv, Alone

LEMMA SelectDeck ==
  ASSUME TypeInv, TypeInv', DeckInv, Calm, NEW c \in Cycles, Select(c)
  PROVE  DeckInv'
<1>1. /\ cyc[c].pc = "select" /\ cyc[c].todo # <<>> /\ rows' = rows /\ decks' = decks
      /\ Running(c)
  BY DEF Select, posts, Running
<1>2. Alone(c) /\ \A e \in Events : DeckKnown(e)'  BY <1>1, AloneIs, DeckQuiet
<1>3. cyc \in [Cycles -> Cycle] /\ cyc[c] \in Cycle  BY DEF TypeInv, TypeOK, Cycle
<1>4. CASE Leave(c)
  <2>1. PICK y \in Cycle : cyc' = [cyc EXCEPT ![c] = y] /\ y.pc = "select"
    BY <1>1, <1>4, LeaveIs
  <2>2. AtWork(y)'  BY <2>1 DEF AtWork
  <2>. QED  BY <1>2, <2>1, <2>2, LoneStep
<1>5. ASSUME NEW b \in Unposted(Here(c)), NEW e, Choose(c, b, e),
             e # None => Here(c) = Instagram
      PROVE  DeckInv'
  <2>1. PICK y : y = [cyc[c] EXCEPT !.pc = "prepare", !.article = b, !.event = e]  OBVIOUS
  <2>2. cyc' = [cyc EXCEPT ![c] = y]  BY <1>3, <1>5, <2>1 DEF Choose
  <2>3. y.article = b /\ y.event = e /\ y.todo = cyc[c].todo  BY <1>3, <2>1 DEF Cycle
  <2>4. Head(y.todo) = Here(c)  BY <2>3 DEF Here
  <2>5. New(Head(y.todo), y.article)'  BY <1>1, <1>5, <2>3, <2>4 DEF Unposted, New
  <2>6. AtWork(y)'  BY <1>5, <2>3, <2>4, <2>5 DEF AtWork, New
  <2>. QED  BY <1>2, <2>2, <2>6, LoneStep
<1>6. \/ Leave(c)
      \/ \E b \in Unposted(Here(c)) : \E e : Choose(c, b, e) /\ (e # None => Here(c) = Instagram)
  BY DEF Select, Leads
<1>. QED  BY <1>4, <1>5, <1>6

LEMMA PrepareDeck ==
  ASSUME TypeInv, TypeInv', DeckInv, Calm, NEW c \in Cycles, Prepare(c)
  PROVE  DeckInv'
<1>1. /\ cyc[c].pc = "prepare" /\ cyc[c].todo # <<>> /\ rows' = rows /\ decks' = decks
      /\ Running(c)
  BY DEF Prepare, posts, Running, TypeInv, Shape
<1>2. Alone(c) /\ AtWork(cyc[c]) /\ \A e \in Events : DeckKnown(e)'
  BY <1>1, AloneIs, DeckQuiet
<1>3. cyc \in [Cycles -> Cycle] /\ cyc[c] \in Cycle  BY DEF TypeInv, TypeOK, Cycle
<1>4. CASE Leave(c)
  <2>1. PICK y \in Cycle : cyc' = [cyc EXCEPT ![c] = y] /\ y.pc = "select"
    BY <1>1, <1>4, LeaveIs
  <2>2. AtWork(y)'  BY <2>1 DEF AtWork
  <2>. QED  BY <1>2, <2>1, <2>2, LoneStep
<1>5. CASE ~Leave(c)
  <2>1. PICK e \in DeckChoices(c) : cyc' = [cyc EXCEPT ![c].pc = "post", ![c].event = e]
    BY <1>5 DEF Prepare
  <2>2. PICK y : y = [cyc[c] EXCEPT !.pc = "post", !.event = e]  OBVIOUS
  <2>3. cyc' = [cyc EXCEPT ![c] = y]  BY <1>3, <2>1, <2>2
  <2>4. y.article = cyc[c].article /\ y.event = e /\ y.todo = cyc[c].todo
    BY <1>3, <2>2 DEF Cycle
  <2>5. e # None => Head(y.todo) = Instagram  BY <2>1, <2>4 DEF DeckChoices, Here
  <2>6. New(Head(y.todo), y.article)'  BY <1>1, <1>2, <2>4 DEF AtWork, New
  <2>7. AtWork(y)'  BY <2>4, <2>5, <2>6 DEF AtWork, New
  <2>. QED  BY <1>2, <2>3, <2>7, LoneStep
<1>. QED  BY <1>4, <1>5

\* The deck that goes out is the one whose answer is awaited.
LEMMA ShipDeck ==
  ASSUME TypeInv, TypeInv', DeckInv, Calm, NEW c \in Cycles, Ship(c)
  PROVE  DeckInv'
<1>1. /\ cyc[c].pc = "post" /\ cyc[c].todo # <<>> /\ rows' = rows /\ Running(c)
      /\ cyc' = [cyc EXCEPT ![c].pc = "answer"]
      /\ decks' = IF cyc[c].event = None THEN decks
                  ELSE [decks EXCEPT ![cyc[c].event] = @ + 1]
  BY DEF Ship, Running, TypeInv, Shape
<1>2. Alone(c) /\ AtWork(cyc[c])  BY <1>1, AloneIs
<1>3. cyc \in [Cycles -> Cycle] /\ cyc[c] \in Cycle  BY DEF TypeInv, TypeOK, Cycle
<1>4. PICK y : y = [cyc[c] EXCEPT !.pc = "answer"]  OBVIOUS
<1>5. cyc' = [cyc EXCEPT ![c] = y]  BY <1>1, <1>3, <1>4
<1>6. /\ y.pc = "answer" /\ y.article = cyc[c].article /\ y.event = cyc[c].event
      /\ y.todo = cyc[c].todo
  BY <1>3, <1>4 DEF Cycle
<1>7. AtWork(y)'  BY <1>1, <1>2, <1>6 DEF AtWork, New
<1>8. ASSUME NEW e \in Events PROVE DeckKnown(e)'
  <2>1. CASE cyc[c].event = e
    <3>1. cyc'[c] = y  BY <1>3, <1>5
    <3>2. Awaited(e)'  BY <1>6, <2>1, <3>1 DEF Awaited
    <3>3. Head(cyc[c].todo) = Instagram
      BY <1>1, <1>2, <2>1, NoneAssumption DEF AtWork
    <3>4. Instagram \in Plats  BY <1>1, <1>3, <3>3, TodoTail DEF Cycle
    <3>. QED  BY <3>2, <3>4 DEF DeckKnown
  <2>2. CASE cyc[c].event # e
    <3>1. decks'[e] = decks[e]  BY <1>1, <2>2 DEF TypeInv, TypeOK
    <3>2. \A d \in Cycles : cyc[d].pc # "answer"  BY <1>1, <1>2 DEF Alone, Running
    <3>3. ~Awaited(e) /\ DeckKnown(e)  BY <3>2 DEF Awaited, DeckInv
    <3>4. RowOf(e)' <=> RowOf(e)  BY <1>1 DEF RowOf
    <3>. QED  BY <3>1, <3>3, <3>4 DEF DeckKnown
  <2>. QED  BY <2>1, <2>2
<1>. QED  BY <1>2, <1>5, <1>7, <1>8, LoneStep

\* A visit ends with its row: the row of the event that was shipped, or one
\* that finds that event recorded.
LEMMA RecordDeck ==
  ASSUME TypeInv, TypeInv', DeckInv, Calm, NEW c \in Cycles, cyc[c].pc \in {"post", "answer"},
         Leave(c), NEW status \in {"posted", "failed"}, NEW ev \in Events \cup {None},
         Upsert(c, status, ev), decks' = decks,
         cyc[c].pc = "answer"
           => Conflicts(c) \/ (status = "posted" /\ ev = cyc[c].event)
  PROVE  DeckInv'
<1>1. cyc[c].todo # <<>> /\ cyc[c].article \in Articles /\ Running(c)
  BY DEF TypeInv, Shape, Running
<1>2. Alone(c) /\ AtWork(cyc[c])  BY <1>1, AloneIs
<1>3. PICK y \in Cycle : cyc' = [cyc EXCEPT ![c] = y] /\ y.pc = "select"
  BY <1>1, LeaveIs
<1>4. AtWork(y)'  BY <1>3 DEF AtWork
<1>5. cyc[c] \in Cycle /\ Here(c) \in Plats
  BY <1>1, TodoTail DEF TypeInv, TypeOK, Cycle, Here
<1>6. PICK h, b : h = Here(c) /\ b = cyc[c].article  OBVIOUS
<1>7. PICK r : r = [status |-> status, at |-> IF status = "posted" THEN now ELSE 0, event |-> ev]
  OBVIOUS
<1>8. /\ rows' = [rows EXCEPT ![h][b] = r] /\ r.status = status /\ r.event = ev
      /\ h \in Plats /\ b \in Articles
  BY <1>1, <1>5, <1>6, <1>7 DEF Upsert
<1>9. New(h, b)  BY <1>2, <1>6 DEF AtWork, Here
<1>10. ASSUME NEW e \in Events, decks'[e] > 0
       PROVE  Instagram \in Plats /\ RowOf(e)'
  <2>1. Instagram \in Plats /\ (RowOf(e) \/ Awaited(e))
    BY <1>10 DEF DeckInv, DeckKnown
  <2>2. CASE RowOf(e)  BY <1>8, <1>9, <2>1, <2>2, RowKept
  <2>3. CASE ~RowOf(e)
    <3>1. cyc[c].pc = "answer" /\ cyc[c].event = e
      BY <1>2, <2>1, <2>3 DEF Awaited, Alone, Running
    <3>2. h = Instagram  BY <1>2, <1>6, <3>1, NoneAssumption DEF AtWork, Here
    <3>3. ~Conflicts(c)  BY <1>6, <2>3, <3>1, <3>2 DEF Conflicts, RowOf
    <3>4. status = "posted" /\ ev = e  BY <3>1, <3>3
    <3>5. rows'[h][b] = r  BY <1>8 DEF TypeInv, TypeOK
    <3>6. RowOf(e)'  BY <1>8, <3>2, <3>4, <3>5 DEF RowOf
    <3>. QED  BY <2>1, <3>6
  <2>. QED  BY <2>1, <2>2, <2>3
<1>11. \A e \in Events : DeckKnown(e)'  BY <1>10 DEF DeckKnown
<1>. QED  BY <1>2, <1>3, <1>4, <1>11, LoneStep

LEMMA OutcomeDeck ==
  ASSUME TypeInv, TypeInv', DeckInv, Calm, NEW c \in Cycles, Answered(c) \/ PostFails(c),
         faults' = faults
  PROVE  DeckInv'
<1>1. /\ cyc[c].pc \in {"post", "answer"} /\ decks' = decks /\ Running(c)
      /\ cyc[c].event \in Events \cup {None} /\ faults \in Nat
  BY DEF Answered, PostFails, Running, TypeInv, TypeOK
<1>2. CASE Answered(c) /\ Conflicts(c)
  <2>1. Leave(c) /\ Upsert(c, "failed", None)  BY <1>2 DEF Answered, RecordFailed
  <2>. QED  BY <1>1, <1>2, <2>1, RecordDeck
<1>3. CASE Answered(c) /\ ~Conflicts(c)
  <2>1. Leave(c) /\ Upsert(c, "posted", cyc[c].event)  BY <1>3 DEF Answered
  <2>. QED  BY <1>1, <2>1, RecordDeck
<1>4. CASE PostFails(c)
  <2>1. cyc[c].pc = "post"  BY <1>1, <1>4 DEF PostFails, Fault
  <2>2. CASE RecordFailed(c)
    <3>1. Leave(c) /\ Upsert(c, "failed", None)  BY <2>2 DEF RecordFailed
    <3>. QED  BY <1>1, <2>1, <3>1, RecordDeck
  <2>3. CASE ~RecordFailed(c)
    <3>1. cyc' = [cyc EXCEPT ![c].pc = "post", ![c].fallback = TRUE] /\ rows' = rows
      BY <1>4, <2>3 DEF PostFails
    <3>2. cyc \in [Cycles -> Cycle] /\ cyc[c] \in Cycle  BY DEF TypeInv, TypeOK, Cycle
    <3>3. PICK y : y = [cyc[c] EXCEPT !.pc = "post", !.fallback = TRUE]  OBVIOUS
    <3>4. cyc' = [cyc EXCEPT ![c] = y]  BY <3>1, <3>2, <3>3
    <3>5. /\ y.article = cyc[c].article /\ y.event = cyc[c].event /\ y.todo = cyc[c].todo
      BY <3>2, <3>3 DEF Cycle
    <3>6. Alone(c) /\ AtWork(cyc[c])  BY <1>1, AloneIs
    <3>7. AtWork(y)'  BY <2>1, <3>1, <3>5, <3>6 DEF AtWork, New
    <3>8. \A e \in Events : DeckKnown(e)'  BY <1>1, <2>1, <3>1, <3>6, DeckQuiet
    <3>. QED  BY <3>4, <3>6, <3>7, <3>8, LoneStep
  <2>. QED  BY <2>2, <2>3
<1>. QED  BY <1>2, <1>3, <1>4

LEMMA ClosingDeck ==
  ASSUME TypeInv, TypeInv', DeckInv, Calm, NEW c \in Cycles, Complete(c) \/ RecordEnd(c)
  PROVE  DeckInv'
<1>1. Closing(c) /\ cyc[c].pc \in {"select", "complete", "error"}
  BY DEF Closing, Complete, RecordEnd, Writing
<1>2. rows' = rows /\ decks' = decks /\ Running(c)  BY <1>1, ClosingIs DEF posts
<1>3. Alone(c) /\ \A e \in Events : DeckKnown(e)'  BY <1>1, <1>2, AloneIs, DeckQuiet
<1>4. PICK y \in Cycle : /\ cyc' = [cyc EXCEPT ![c] = y]
                         /\ y = Idle \/ y.pc \in {"complete", "error"}
  BY <1>1, ClosingIs
<1>5. AtWork(y)'  BY <1>4 DEF AtWork, Idle
<1>. QED  BY <1>3, <1>4, <1>5, LoneStep

\* A cycle that overlaps none finds no cycle running.
LEMMA OccupyDeck ==
  ASSUME TypeInv, TypeInv', DeckInv, Calm, NEW c \in Cycles, ~Running(c), NEW p, NEW t, NEW dry,
         NEW todo, Occupy(c, p, t, dry, todo), UNCHANGED posts, overlaps' = overlaps
  PROVE  DeckInv'
<1>1. ~Overlapping  BY DEF Occupy, TypeInv, TypeOK
<1>2. Alone(c) /\ cyc[c].pc # "answer" /\ rows' = rows /\ decks' = decks
  BY <1>1 DEF Overlapping, Alone, Running, posts
<1>3. \A e \in Events : DeckKnown(e)'  BY <1>2, DeckQuiet
<1>4. PICK y : y = [Idle EXCEPT !.pc = "select", !.proc = p, !.startedAt = t, !.dry = dry,
                                !.todo = todo]
  OBVIOUS
<1>5. y.pc = "select"  BY <1>4 DEF Idle
<1>6. cyc' = [cyc EXCEPT ![c] = y] /\ AtWork(y)'  BY <1>4, <1>5 DEF Occupy, AtWork
<1>. QED  BY <1>2, <1>3, <1>6, LoneStep

LEMMA DeckStep == TypeInv /\ TypeInv' /\ DeckInv /\ [Next]_vars => DeckInv'
<1>. SUFFICES ASSUME TypeInv, TypeInv', DeckInv, [Next]_vars, Calm'
              PROVE  DeckInv'
  BY DEF DeckInv
<1>0. /\ overlaps' = 0 /\ faults' = 0
      /\ (overlaps' = overlaps /\ faults' = faults => Calm)
      /\ overlaps \in Nat /\ faults \in Nat
  BY CalmIs DEF TypeInv, TypeOK
<1>1. ~Fault  BY <1>0 DEF Fault
<1>2. ASSUME NEW c \in Cycles, Visit(c) PROVE DeckInv'
  <2>1. ~PostedRowFails(c) /\ ~BothRowsFail(c)  BY <1>1 DEF PostedRowFails, BothRowsFail
  <2>2. overlaps' = overlaps /\ faults' = faults
    BY <1>1, <1>2, <2>1 DEF Visit, Select, Prepare, Ship, Answered, PostFails, Complete, counts
  <2>3. Calm  BY <1>0, <2>2
  <2>. QED
    BY <1>2, <2>1, <2>2, <2>3, SelectDeck, PrepareDeck, ShipDeck, OutcomeDeck, ClosingDeck
    DEF Visit
<1>3. ASSUME NEW c \in Cycles, NEW p \in Procs, NEW t, NEW dry, NEW todo, ~Running(c),
             Occupy(c, p, t, dry, todo), UNCHANGED <<posts, faults>>
      PROVE  DeckInv'
  <2>1. overlaps' = overlaps  BY <1>0, <1>3 DEF Occupy
  <2>2. Calm  BY <1>0, <1>3, <2>1
  <2>. QED  BY <1>3, <2>1, <2>2, OccupyDeck
<1>4. ASSUME NEW c \in Cycles, NEW p \in Procs, Begin(c, p) PROVE DeckInv'
  <2>1. ASSUME NEW dry \in BOOLEAN, Start(c, p, dry) PROVE DeckInv'
    BY <1>3, <2>1 DEF Start
  <2>2. ASSUME NEW dry \in BOOLEAN, NEW h \in Plats, Poke(c, p, h, dry) PROVE DeckInv'
    BY <1>3, <2>2 DEF Poke
  <2>. QED  BY <1>4, <2>1, <2>2 DEF Begin
<1>5. CASE Tick \/ UNCHANGED vars
  <2>1. UNCHANGED <<cyc, rows, decks, overlaps, faults>>
    BY <1>5 DEF Tick, vars, posts, counts
  <2>2. Calm  BY <1>0, <2>1
  <2>. QED  BY <2>1, <2>2 DEF DeckInv, Running, AtWork, New, DeckKnown, RowOf, Awaited
<1>6. /\ \A p \in Procs : ~Crash(p) /\ ~StartThrows(p)
      /\ \A c \in Cycles : ~RecordEndFails(c)
  BY <1>1 DEF Crash, StartThrows, RecordEndFails
<1>7. ASSUME NEW c \in Cycles, RecordEnd(c) PROVE DeckInv'
  <2>1. Calm  BY <1>0, <1>7 DEF RecordEnd, counts
  <2>. QED  BY <1>7, <2>1, ClosingDeck
<1>. QED  BY <1>2, <1>4, <1>5, <1>6, <1>7 DEF Next

LEMMA InitDeck == Init => DeckInv
<1>. SUFFICES ASSUME Init PROVE DeckInv  OBVIOUS
<1>1. \A c \in Cycles : cyc[c].pc = "idle"  BY DEF Init, Idle
<1>2. \A e \in Events : decks[e] = 0  BY DEF Init
<1>. QED  BY <1>1, <1>2 DEF DeckInv, Running, AtWork, DeckKnown

\* What a lone cycle selects has not gone out.
LEMMA SelectFresh ==
  ASSUME TypeInv, DeckInv, Calm, NEW c \in Cycles, Select(c), NEW e \in Events,
         cyc'[c].event = e
  PROVE  decks[e] = 0
<1>1. cyc[c].pc = "select" /\ Running(c) /\ cyc[c].todo # <<>>  BY DEF Select, Running
<1>2. Alone(c)  BY <1>1, AloneIs
<1>3. cyc \in [Cycles -> Cycle] /\ cyc[c] \in Cycle  BY DEF TypeInv, TypeOK, Cycle
<1>4. ~Leave(c)
  <2>. SUFFICES ASSUME Leave(c) PROVE FALSE  OBVIOUS
  <2>1. cyc'[c].event = None  BY <1>3 DEF Leave, Cycle
  <2>. QED  BY <2>1, NoneAssumption
<1>5. ASSUME NEW a, NEW f, Choose(c, a, f) PROVE f = e
  BY <1>3, <1>5 DEF Choose, Cycle
<1>6. e \in Pickable
  BY <1>4, <1>5, NoneAssumption DEF Select
<1>7. ~RowOf(e)  BY <1>6 DEF Pickable, Retired, RowOf
<1>8. ~Awaited(e)  BY <1>1, <1>2 DEF Awaited, Alone, Running
<1>9. ~(decks[e] > 0)  BY <1>7, <1>8 DEF DeckInv, DeckKnown
<1>. QED  BY <1>9 DEF TypeInv, TypeOK

\* An event is not picked for a carousel again once one of it went out, unless
\* cycles overlapped or something failed.
THEOREM PickedOnceHolds == Spec => PickedOnce
<1>1. Spec => []TypeInv  BY InitType, StepType, PTL DEF Spec
<1>2. TypeInv /\ TypeInv' /\ DeckInv /\ [Next]_vars => DeckInv'  BY DeckStep
<1>3. Spec => []DeckInv  BY <1>1, <1>2, InitDeck, PTL DEF Spec
<1>4. TypeInv /\ DeckInv /\ [Next]_vars
        => [\A c \in Cycles : \A e \in Events :
              Select(c) /\ cyc'[c].event = e /\ overlaps + faults = 0 => decks[e] = 0]_vars
  BY SelectFresh DEF Calm
<1>. QED  BY <1>1, <1>3, <1>4, PTL DEF Spec, PickedOnce
=============================================================================

-------------------------- MODULE EventGraphProofs --------------------------
(***************************************************************************)
(* Theorems about the event graph, for any articles, outlets, clusters,    *)
(* events, runs and scoring.                                               *)
(*                                                                         *)
(* Nothing the properties say is inductive: a run acts on a snapshot that  *)
(* is minutes old.  General says what is so of a run whatever happens      *)
(* beside it.  Single says what a run knows that was alone from its        *)
(* beginning: the events it holds are still open, its memory has every     *)
(* article readers see in them (CandOpen, Covers), none that is not linked *)
(* unless links were taken away meanwhile (Exact), and two outlets in what *)
(* it is about to write (Voices).  Alone says when a run has been that.    *)
(***************************************************************************)
EXTENDS EventGraph, FiniteSetTheorems, TLAPS

RunType ==
    [pc : {"off", "load", "merge", "link", "mark", "apply", "insert", "break"},
     cand : SUBSET Events, unread : SUBSET Events, mem : [Events -> SUBSET Articles],
     aids : [Clusters -> SUBSET Articles],
     won : [Clusters -> Events \cup {None}], taken : SUBSET Events,
     job : [event : Events \cup {None}, ids : SUBSET Articles,
            absorbed : Events \cup {None}, cluster : Clusters \cup {None}],
     kept : SUBSET Events, gone : SUBSET Articles]

\* A step of a run: what it holds by then.
Known(w) ==
    /\ w.pc = "off" => w = Off
    /\ w.pc \in {"off", "break"} => \A c \in Clusters : w.aids[c] = {}
    /\ w.pc = "break" => w.cand = {} /\ \A e \in Events : w.mem[e] = {}
    /\ w.pc \notin {"link", "mark", "insert"} => w.job = NoJob
    /\ w.pc \in {"link", "mark"} => w.job.event \in Events
    /\ w.pc = "mark" => w.job.absorbed \in Events
    /\ w.pc = "insert" => /\ w.job.cluster \in Clusters
                          /\ w.job.event = None /\ w.job.absorbed = None

\* Articles a run has in memory.
Held(w, a) ==
    \/ \E e \in Events : a \in w.mem[e]
    \/ \E c \in Clusters : a \in w.aids[c]
    \/ a \in w.job.ids

\* What is so of every run, however many are under way: it deals with rows
\* that exist, knows what was not yet swept when it began for gone, and holds
\* deleted articles only while they are linked or gone.
General(w) ==
    /\ Known(w)
    /\ \A e \in Events :
         ev[e] = NoEvent => e \notin w.cand /\ w.job.event # e /\ w.job.absorbed # e
    /\ w.pc # "off" => unswept \subseteq w.gone
    /\ \A a \in Articles \ live : Held(w, a) => a \in w.gone \/ Linked(a)

\* The merge of two events is under way.
Merging(w) == w.pc \in {"link", "mark"} /\ w.job.absorbed # None

\* The events in memory are open, the one being absorbed is no longer there.
CandOpen(w) ==
    /\ \A e \in w.cand : Open(e)
    /\ Merging(w) => /\ w.job.event \in w.cand /\ w.job.absorbed \notin w.cand
                     /\ w.job.absorbed \in Events /\ Open(w.job.absorbed)

\* Until the merges are over, memory has every article that readers see, of
\* the events that have been read; a merge has linked what it has not to link.
Covers(w) ==
    /\ w.pc = "load" =>
         \A e \in w.cand \ w.unread : links[e] \cap live \subseteq w.mem[e]
    /\ w.pc = "merge" \/ Merging(w) =>
         \A e \in w.cand : links[e] \cap live \subseteq w.mem[e]
    /\ w.pc = "link" /\ Merging(w) =>
         /\ links[w.job.absorbed] \cap live \subseteq w.job.ids \cup links[w.job.event]
         /\ w.job.ids \subseteq w.mem[w.job.event]
    /\ w.pc = "mark" => links[w.job.absorbed] \cap live \subseteq links[w.job.event]

\* And it has no article that is not linked, or about to be, unless some were
\* taken away.
Exact(w) ==
    w.gone = {} =>
        \A e \in w.cand : \A a \in w.mem[e] :
            a \in links[e] \/ (w.pc = "link" /\ w.job.event = e /\ a \in w.job.ids)

\* The articles of these have two outlets.
TwoOutlets(ids) == Cardinality({Outlet[a] : a \in ids}) >= 2
Voices(w) ==
    w.gone = {} =>
        /\ w.pc = "link" /\ w.job.absorbed = None => TwoOutlets(links[w.job.event] \cup w.job.ids)
        /\ w.pc = "insert" => TwoOutlets(w.job.ids)

\* What is so of a run that was alone all the time.
Single(w) == CandOpen(w) /\ Covers(w) /\ Exact(w) /\ Voices(w)

FreshEmpty == \A e \in Events : ev[e] = NoEvent => links[e] = {}
Alone == ~overlapped => /\ \A r, o \in Runs : r # o => At(r, "off") \/ At(o, "off")
                        /\ \A r \in Runs : Single(run[r])

IInv ==
    /\ TypeOK /\ FreshEmpty
    /\ \A r \in Runs : General(run[r])
    /\ Alone
    /\ MergedReachesOpen

-----------------------------------------------------------------------------
LEMMA RunIs ==
  ASSUME TypeOK, NEW r \in Runs
  PROVE  /\ run[r] \in RunType
         /\ run[r].pc \in {"off", "load", "merge", "link", "mark", "apply", "insert", "break"}
         /\ run[r].cand \subseteq Events /\ run[r].unread \subseteq Events
         /\ run[r].mem \in [Events -> SUBSET Articles]
         /\ run[r].aids \in [Clusters -> SUBSET Articles]
         /\ run[r].won \in [Clusters -> Events \cup {None}] /\ run[r].taken \subseteq Events
         /\ run[r].job \in [event : Events \cup {None}, ids : SUBSET Articles,
                            absorbed : Events \cup {None}, cluster : Clusters \cup {None}]
         /\ run[r].kept \subseteq Events /\ run[r].gone \subseteq Articles
  BY DEF TypeOK, RunType

LEMMA OffIs ==
  /\ Off \in RunType /\ Off.pc = "off" /\ Off.cand = {} /\ Off.job = NoJob /\ Off.gone = {}
  /\ \A e \in Events : Off.mem[e] = {}
  /\ \A c \in Clusters : Off.aids[c] = {}
  /\ NoJob.event = None /\ NoJob.ids = {} /\ NoJob.absorbed = None /\ NoJob.cluster = None
  /\ NoJob \in [event : Events \cup {None}, ids : SUBSET Articles,
                absorbed : Events \cup {None}, cluster : Clusters \cup {None}]
  BY DEF Off, NoJob, RunType

LEMMA SetIs ==
  ASSUME TypeOK, NEW r \in Runs, NEW w \in RunType, Set(r, w)
  PROVE  /\ run' \in [Runs -> RunType] /\ run'[r] = w
         /\ \A o \in Runs \ {r} : run'[o] = run[o]
  BY DEF Set, TypeOK, RunType

LEMMA RowIs ==
  ASSUME TypeOK, NEW e \in Events
  PROVE  /\ ev[e] \in EventRow \cup {NoEvent} /\ links[e] \subseteq Articles
         /\ Open(e) => ev[e] \in EventRow /\ ev[e] # NoEvent
         /\ ev[e] = NoEvent <=> ev[e].status = "none"
         /\ ev[e].status = "merged" => ev[e].claim = None /\ ev[e] \in EventRow
  BY DEF TypeOK, EventRow, NoEvent, Open

\* A run that is off holds nothing and is afraid of nothing.
LEMMA OffGeneral == General(Off) /\ Single(Off)
<1>1. General(Off)  BY OffIs, NoneAssumption DEF General, Known, Held
<1>2. Single(Off)
  BY OffIs DEF Single, CandOpen, Covers, Exact, Voices, Merging
<1>. QED  BY <1>1, <1>2

\* A run that was alone before its step is alone after it.
LEMMA OthersOff ==
  ASSUME IInv, NEW r \in Runs, ~At(r, "off"), ~overlapped
  PROVE  /\ \A o \in Runs \ {r} : At(o, "off")
         /\ Single(run[r])
  BY DEF IInv, Alone

LEMMA InitHolds == Init => IInv
<1>. SUFFICES ASSUME Init PROVE IInv  OBVIOUS
<1>1. \A r \in Runs : run[r] = Off  BY DEF Init
<1>2. TypeOK
  <2>1. run \in [Runs -> RunType]  BY OffIs DEF Init
  <2>2. ev \in [Events -> EventRow \cup {NoEvent}] /\ \A e \in Events : ev[e].status = "none"
    BY DEF Init, NoEvent
  <2>3. links \in [Events -> SUBSET Articles] /\ live = Articles /\ unswept = {}
    BY DEF Init
  <2>4. overlapped = FALSE /\ manuals \in 0 .. MaxManual /\ faults \in 0 .. MaxFaults
    BY BoundAssumption DEF Init
  <2>. QED  BY <2>1, <2>2, <2>3, <2>4 DEF TypeOK, RunType
<1>3. FreshEmpty  BY DEF Init, FreshEmpty
<1>4. \A r \in Runs : General(run[r]) /\ Single(run[r])  BY <1>1, OffGeneral
<1>5. Alone  BY <1>1, <1>4, OffIs DEF Alone, At
<1>6. MergedReachesOpen  BY DEF Init, MergedReachesOpen, NoEvent
<1>. QED  BY <1>2, <1>3, <1>4, <1>5, <1>6 DEF IInv

-----------------------------------------------------------------------------
(* A step of the run r that leaves it as w and no article without links.   *)

LEMMA StepKeeps ==
  ASSUME IInv, NEW r \in Runs, NEW w \in RunType, Set(r, w),
         ev' \in [Events -> EventRow \cup {NoEvent}],
         \A e \in Events : ev'[e].status = "merged" => ev'[e].claim = None,
         \A e \in Events : ev'[e] = NoEvent => ev[e] = NoEvent,
         links' \in [Events -> SUBSET Articles],
         \A a \in Articles : Linked(a) => Linked(a)',
         FreshEmpty',
         live' = live, unswept' = unswept,
         overlapped' \in BOOLEAN, overlapped => overlapped',
         manuals' \in 0 .. MaxManual, faults' \in 0 .. MaxFaults,
         ~overlapped' => \A o \in Runs \ {r} : At(o, "off"),
         General(w)', ~overlapped' => Single(w)', MergedReachesOpen'
  PROVE  IInv'
<1>1. run' \in [Runs -> RunType] /\ run'[r] = w /\ \A o \in Runs \ {r} : run'[o] = run[o]
  BY SetIs DEF IInv
<1>2. TypeOK'  BY <1>1 DEF IInv, TypeOK, RunType
<1>3. \A a \in Articles : Linked(a) => Linked(a)'  OBVIOUS
<1>4. ASSUME NEW o \in Runs PROVE General(run[o])'
  <2>1. CASE o = r  BY <1>1, <2>1
  <2>2. CASE o # r
    <3>1. PICK v : v = run[o]  OBVIOUS
    <3>2. General(v)  BY <3>1 DEF IInv
    <3>3. General(v)'  BY <1>3, <3>2 DEF General
    <3>. QED  BY <1>1, <2>2, <3>1, <3>3
  <2>. QED  BY <2>1, <2>2
<1>5. Alone'
  <2>. SUFFICES ASSUME ~overlapped'
                PROVE  /\ \A x, o \in Runs : x # o => At(x, "off")' \/ At(o, "off")'
                       /\ \A o \in Runs : Single(run[o])'
    BY DEF Alone
  <2>1. \A o \in Runs \ {r} : run'[o] = Off
    BY <1>1 DEF IInv, General, Known, At
  <2>2. Single(Off)'  BY OffGeneral, PTL
  <2>3. \A o \in Runs : Single(run[o])'
    <3>. SUFFICES ASSUME NEW o \in Runs PROVE Single(run[o])'  OBVIOUS
    <3>1. CASE o = r  BY <1>1, <3>1
    <3>2. CASE o # r
      <4>1. run'[o] = Off  BY <2>1, <3>2
      <4>. QED  BY <2>2, <4>1
    <3>. QED  BY <3>1, <3>2
  <2>4. \A x, o \in Runs : x # o => At(x, "off")' \/ At(o, "off")'
    BY <2>1, OffIs DEF At
  <2>. QED  BY <2>3, <2>4
<1>. QED  BY <1>2, <1>4, <1>5 DEF IInv

-----------------------------------------------------------------------------
(* The redirects.                                                          *)

\* Tombstones stay as they are, and what is open stays open.
LEMMA ReachKept ==
  ASSUME IInv, overlapped => overlapped',
         ~overlapped' =>
           /\ \A e \in Events : ev'[e].status = "merged" =>
                ev[e].status = "merged" /\ ev'[e].into = ev[e].into
           /\ \A e \in Events : ev[e].status = "merged" => ev'[e].status = "merged"
           /\ \A e \in Events : Open(e) => Open(e)'
  PROVE  MergedReachesOpen'
<1>. SUFFICES ASSUME ~overlapped', NEW e \in Events, ev'[e].status = "merged",
                     NEW S \in SUBSET Events, e \in S,
                     \A f \in S : ev'[f].status = "merged" /\ ev'[f].into # None
                                  => ev'[f].into \in S
              PROVE  \E f \in S : Open(f)'
  BY DEF MergedReachesOpen, LeadsToOpen
<1>1. \A f \in S : ev[f].status = "merged" /\ ev[f].into # None => ev[f].into \in S
  OBVIOUS
<1>2. ~overlapped /\ ev[e].status = "merged"  OBVIOUS
<1>3. \E f \in S : Open(f)
  BY <1>1, <1>2 DEF IInv, MergedReachesOpen, LeadsToOpen
<1>. QED  BY <1>3

\* Another one is absorbed into an open event.
LEMMA ReachExtended ==
  ASSUME IInv, NEW a \in Events, NEW s \in Events,
         overlapped \/ (a # s /\ Open(a) /\ Open(s)),
         ev' = [ev EXCEPT ![a] = [@ EXCEPT !.status = "merged", !.claim = None, !.into = s]],
         overlapped' = overlapped
  PROVE  MergedReachesOpen'
<1>. SUFFICES ASSUME ~overlapped, NEW e \in Events, ev'[e].status = "merged",
                     NEW S \in SUBSET Events, e \in S,
                     \A f \in S : ev'[f].status = "merged" /\ ev'[f].into # None
                                  => ev'[f].into \in S
              PROVE  \E f \in S : Open(f)'
  BY DEF MergedReachesOpen, LeadsToOpen
<1>1. /\ Open(a) /\ Open(s) /\ s # None /\ s # a /\ ev[a] \in EventRow
      /\ \A f \in Events \ {a} : ev'[f] = ev[f]
  BY RowIs, NoneAssumption DEF IInv, TypeOK
<1>2. ev'[a].status = "merged" /\ ev'[a].into = s
  BY <1>1 DEF IInv, TypeOK, EventRow
<1>3. Open(s)' /\ \A f \in Events \ {a} : Open(f) => Open(f)'  BY <1>1 DEF Open
<1>4. CASE a \in S
  <2>1. s \in S  BY <1>1, <1>2, <1>4
  <2>. QED  BY <1>3, <2>1
<1>5. CASE a \notin S
  <2>1. ev[e].status = "merged"  BY <1>1, <1>5
  <2>2. \A f \in S : ev[f].status = "merged" /\ ev[f].into # None => ev[f].into \in S
    BY <1>1, <1>5
  <2>3. PICK f \in S : Open(f)  BY <2>1, <2>2 DEF IInv, MergedReachesOpen, LeadsToOpen
  <2>. QED  BY <1>3, <1>5, <2>3
<1>. QED  BY <1>4, <1>5

-----------------------------------------------------------------------------
(* The steps that leave the rows alone.                                    *)

LEMMA QuietStep ==
  ASSUME IInv, NEW r \in Runs, NEW w \in RunType, Set(r, w),
         UNCHANGED <<ev, links, live, unswept>>,
         overlapped' \in BOOLEAN, overlapped => overlapped',
         manuals' \in 0 .. MaxManual, faults' \in 0 .. MaxFaults,
         ~overlapped' => \A o \in Runs \ {r} : At(o, "off"),
         General(w), ~overlapped' => Single(w)
  PROVE  IInv'
<1>1. General(w)' /\ (~overlapped' => Single(w)')
  BY DEF General, Linked, Single, CandOpen, Covers, Exact, Voices, Open
<1>2. MergedReachesOpen'
  <2>1. \A e \in Events : Open(e) => Open(e)'  BY DEF Open
  <2>. QED  BY <2>1, ReachKept
<1>3. FreshEmpty'  BY DEF IInv, FreshEmpty
<1>4. \A a \in Articles : Linked(a) => Linked(a)'  BY DEF Linked
<1>. QED  BY <1>1, <1>2, <1>3, <1>4, StepKeeps DEF IInv, TypeOK

LEMMA OffStep ==
  ASSUME IInv, NEW r \in Runs, Set(r, Off), ~At(r, "off"),
         UNCHANGED <<ev, links, live, unswept, overlapped, bounds>>
  PROVE  IInv'
<1>1. ~overlapped' => \A o \in Runs \ {r} : At(o, "off")  BY OthersOff
<1>. QED  BY <1>1, OffIs, OffGeneral, QuietStep DEF IInv, TypeOK, bounds

LEMMA BeginStep == ASSUME IInv, NEW r \in Runs, Begin(r) PROVE IInv'
<1>. DEFINE opened == {e \in Events : Open(e)}
            v == [Off EXCEPT !.pc = "load", !.cand = opened, !.unread = opened,
                             !.gone = unswept]
<1>1. PICK w : w = v  OBVIOUS
<1>2. /\ w.pc = "load" /\ w.cand = {e \in Events : Open(e)} /\ w.gone = unswept
      /\ w.unread = w.cand /\ w.mem = Off.mem /\ w.aids = Off.aids /\ w.job = NoJob
      /\ w.won = Off.won /\ w.taken = {} /\ w.kept = {}
  BY <1>1 DEF Off
<1>3. w \in RunType
  <2>1. unswept \subseteq Articles /\ opened \subseteq Events
    BY DEF IInv, TypeOK
  <2>. QED  BY <1>1, <2>1 DEF Off, RunType, NoJob
<1>4. General(w)
  <2>1. Known(w)  BY <1>2, OffIs DEF Known
  <2>2. \A e \in Events :
          ev[e] = NoEvent => e \notin w.cand /\ w.job.event # e /\ w.job.absorbed # e
    BY <1>2, OffIs, NoneAssumption DEF Open, NoEvent
  <2>3. \A a \in Articles : Held(w, a) => Linked(a)
    BY <1>2, OffIs DEF Held, Linked
  <2>. QED  BY <1>2, <2>1, <2>2, <2>3 DEF General
<1>5. Single(w)
  BY <1>2, OffIs DEF Single, CandOpen, Covers, Exact, Voices, Merging
<1>6. /\ overlapped' \in BOOLEAN /\ (overlapped => overlapped')
      /\ ~overlapped' => \A o \in Runs \ {r} : At(o, "off")
  BY DEF Begin, IInv, TypeOK
<1>7. manuals' \in 0 .. MaxManual /\ faults' \in 0 .. MaxFaults
  BY BoundAssumption DEF Begin, IInv, TypeOK
<1>8. Set(r, w) /\ UNCHANGED <<ev, links, live, unswept>>  BY <1>1 DEF Begin
<1>. QED  BY <1>3, <1>4, <1>5, <1>6, <1>7, <1>8, QuietStep

LEMMA OnStep ==
  ASSUME IInv, NEW r \in Runs, NEW w \in RunType, Set(r, w), ~At(r, "off"),
         UNCHANGED <<ev, links, live, unswept, overlapped, bounds>>,
         General(w), ~overlapped => Single(w)
  PROVE  IInv'
<1>1. ~overlapped' => \A o \in Runs \ {r} : At(o, "off")  BY OthersOff
<1>2. /\ overlapped' \in BOOLEAN /\ manuals' \in 0 .. MaxManual /\ faults' \in 0 .. MaxFaults
      /\ UNCHANGED <<ev, links, live, unswept>>
  BY DEF IInv, TypeOK, bounds
<1>. QED  BY <1>1, <1>2, QuietStep

LEMMA ReadEventStep ==
  ASSUME IInv, NEW r \in Runs, NEW e \in Events, ReadEvent(r, e) PROVE IInv'
<1>1. PICK w : w = [run[r] EXCEPT !.unread = @ \ {e}, !.mem[e] = links[e]]  OBVIOUS
<1>2. run[r] \in RunType /\ run[r].pc = "load" /\ General(run[r]) /\ links[e] \subseteq Articles
  BY RunIs, RowIs DEF ReadEvent, At, IInv
<1>3. /\ w.pc = "load" /\ w.cand = run[r].cand /\ w.unread = run[r].unread \ {e}
      /\ w.job = run[r].job /\ w.gone = run[r].gone /\ w.aids = run[r].aids
      /\ w.mem[e] = links[e] /\ \A f \in Events \ {e} : w.mem[f] = run[r].mem[f]
  BY <1>1, <1>2 DEF RunType
<1>4. w \in RunType
  <2>1. [run[r].mem EXCEPT ![e] = links[e]] \in [Events -> SUBSET Articles]
    BY <1>2 DEF RunType
  <2>2. w = [run[r] EXCEPT !.unread = @ \ {e}, !.mem = [run[r].mem EXCEPT ![e] = links[e]]]
    BY <1>1, <1>2 DEF RunType
  <2>. QED  BY <1>2, <2>1, <2>2 DEF RunType
<1>5. General(w)
  <2>1. Known(w)  BY <1>2, <1>3 DEF General, Known
  <2>2. \A a \in Articles : Held(w, a) => Held(run[r], a) \/ Linked(a)
    BY <1>3 DEF Held, Linked
  <2>. QED  BY <1>2, <1>3, <2>1, <2>2 DEF General
<1>6. ASSUME ~overlapped PROVE Single(w)
  <2>1. Single(run[r]) /\ run[r].job = NoJob
    BY <1>2, <1>6, OthersOff DEF At, General, Known
  <2>2. CandOpen(w)  BY <1>2, <1>3, <2>1 DEF Single, CandOpen, Merging
  <2>3. Covers(w)
    <3>1. \A f \in run[r].cand \ run[r].unread : links[f] \cap live \subseteq run[r].mem[f]
      BY <1>2, <2>1 DEF Single, Covers
    <3>2. \A f \in w.cand \ w.unread : links[f] \cap live \subseteq w.mem[f]
      BY <1>2, <1>3, <3>1 DEF RunType
    <3>. QED  BY <1>3, <3>2 DEF Covers, Merging
  <2>4. Exact(w)  BY <1>2, <1>3, <2>1 DEF Single, Exact, RunType
  <2>5. Voices(w)  BY <1>3 DEF Voices
  <2>. QED  BY <2>2, <2>3, <2>4, <2>5 DEF Single
<1>7. /\ Set(r, w) /\ ~At(r, "off")
      /\ UNCHANGED <<ev, links, live, unswept, overlapped, bounds>>
  BY <1>1, <1>2 DEF ReadEvent, At
<1>. QED  BY <1>4, <1>5, <1>6, <1>7, OnStep

LEMMA LoadClusterStep ==
  ASSUME IInv, NEW r \in Runs, NEW c \in Clusters, LoadCluster(r, c) PROVE IInv'
<1>1. PICK w : w = [run[r] EXCEPT !.aids[c] = Alive(Named[c])]  OBVIOUS
<1>2. run[r] \in RunType /\ run[r].pc = "load" /\ General(run[r])
  BY RunIs DEF LoadCluster, At, IInv
<1>3. /\ w.pc = "load" /\ w.cand = run[r].cand /\ w.unread = run[r].unread
      /\ w.job = run[r].job /\ w.gone = run[r].gone /\ w.mem = run[r].mem
      /\ w.aids[c] = Alive(Named[c]) /\ \A d \in Clusters \ {c} : w.aids[d] = run[r].aids[d]
  BY <1>1, <1>2 DEF RunType
<1>4. w \in RunType
  <2>1. [run[r].aids EXCEPT ![c] = Alive(Named[c])] \in [Clusters -> SUBSET Articles]
    BY <1>2, ClusterAssumption DEF RunType, Alive
  <2>2. w = [run[r] EXCEPT !.aids = [run[r].aids EXCEPT ![c] = Alive(Named[c])]]
    BY <1>1, <1>2 DEF RunType
  <2>. QED  BY <1>2, <2>1, <2>2 DEF RunType
<1>5. General(w)
  <2>1. Known(w)  BY <1>2, <1>3 DEF General, Known
  <2>2. \A a \in Articles \ live : Held(w, a) => Held(run[r], a)
    BY <1>3 DEF Held, Alive
  <2>. QED  BY <1>2, <1>3, <2>1, <2>2 DEF General
<1>6. ASSUME ~overlapped PROVE Single(w)
  <2>1. Single(run[r])  BY <1>2, <1>6, OthersOff DEF At
  <2>. QED  BY <1>2, <1>3, <2>1
    DEF Single, CandOpen, Covers, Exact, Voices, Merging
<1>7. /\ Set(r, w) /\ ~At(r, "off")
      /\ UNCHANGED <<ev, links, live, unswept, overlapped, bounds>>
  BY <1>1, <1>2 DEF LoadCluster, At
<1>. QED  BY <1>4, <1>5, <1>6, <1>7, OnStep

LEMMA LoadedStep == ASSUME IInv, NEW r \in Runs, Loaded(r) PROVE IInv'
<1>1. PICK w : w = [run[r] EXCEPT !.pc = "merge"]  OBVIOUS
<1>2. /\ run[r] \in RunType /\ run[r].pc = "load" /\ run[r].unread = {}
      /\ General(run[r])
  BY RunIs DEF Loaded, At, IInv
<1>3. /\ w.pc = "merge" /\ w.cand = run[r].cand /\ w.job = run[r].job
      /\ w.gone = run[r].gone /\ w.mem = run[r].mem /\ w.aids = run[r].aids
      /\ w \in RunType
  BY <1>1, <1>2 DEF RunType
<1>4. General(w)
  <2>1. Known(w)  BY <1>2, <1>3 DEF General, Known
  <2>2. \A a \in Articles : Held(w, a) => Held(run[r], a)  BY <1>3 DEF Held
  <2>. QED  BY <1>2, <1>3, <2>1, <2>2 DEF General
<1>5. ASSUME ~overlapped PROVE Single(w)
  <2>1. Single(run[r])  BY <1>2, <1>5, OthersOff DEF At
  <2>. QED  BY <1>2, <1>3, <2>1
    DEF Single, CandOpen, Covers, Exact, Voices, Merging
<1>6. /\ Set(r, w) /\ ~At(r, "off")
      /\ UNCHANGED <<ev, links, live, unswept, overlapped, bounds>>
  BY <1>1, <1>2 DEF Loaded, At
<1>. QED  BY <1>3, <1>4, <1>5, <1>6, OnStep

LEMMA MergeStep ==
  ASSUME IInv, NEW r \in Runs, NEW s \in Events, NEW a \in Events, Merge(r, s, a)
  PROVE  IInv'
<1>1. PICK w : w = [run[r] EXCEPT !.pc = "link", !.job = Job(s, run[r].mem[a], a, None),
                                  !.cand = @ \ {a}, !.mem[s] = @ \cup run[r].mem[a],
                                  !.mem[a] = {}]
  OBVIOUS
<1>2. /\ run[r].pc = "merge" /\ s \in run[r].cand /\ a \in run[r].cand /\ a # s
      /\ General(run[r])
  BY DEF Merge, At, IInv
<1>3. /\ w.pc = "link" /\ w.cand = run[r].cand \ {a} /\ w.aids = run[r].aids
      /\ w.gone = run[r].gone
      /\ w.job = [event |-> s, ids |-> run[r].mem[a], absorbed |-> a, cluster |-> None]
      /\ w.mem = [run[r].mem EXCEPT ![s] = @ \cup run[r].mem[a], ![a] = {}]
  BY <1>1, RunIs DEF IInv, RunType, Job
<1>4. \A e \in Events : w.mem[e] = IF e = a THEN {}
                                   ELSE IF e = s THEN run[r].mem[s] \cup run[r].mem[a]
                                   ELSE run[r].mem[e]
  BY <1>2, <1>3, RunIs DEF IInv
<1>5. w \in RunType
  <2>1. /\ w.mem \in [Events -> SUBSET Articles]
        /\ w.job \in [event : Events \cup {None}, ids : SUBSET Articles,
                      absorbed : Events \cup {None}, cluster : Clusters \cup {None}]
    BY <1>3, RunIs DEF IInv
  <2>2. PICK v \in RunType : v = run[r]  BY RunIs DEF IInv
  <2>3. w.cand \subseteq Events  BY <1>3, <2>2 DEF RunType
  <2>4. w = [pc |-> "link", cand |-> w.cand, unread |-> v.unread, mem |-> w.mem, aids |-> v.aids, won |-> v.won,
             taken |-> v.taken, job |-> w.job, kept |-> v.kept, gone |-> v.gone]
    BY <1>1, <2>2 DEF RunType
  <2>. QED  BY <1>3, <2>1, <2>2, <2>3, <2>4 DEF RunType
<1>6. General(w)
  <2>1. Known(w)  BY <1>3 DEF Known
  <2>2. \A x \in Articles : Held(w, x) => Held(run[r], x)
    <3>1. \A x \in Articles : x \in w.job.ids => x \in run[r].mem[a]  BY <1>3
    <3>2. \A e \in Events : \A x \in w.mem[e] : x \in run[r].mem[e] \/ x \in run[r].mem[a]
      BY <1>4
    <3>. QED  BY <1>3, <3>1, <3>2 DEF Held
  <2>3. \A e \in Events :
          ev[e] = NoEvent => e \notin w.cand /\ w.job.event # e /\ w.job.absorbed # e
    BY <1>2, <1>3 DEF General
  <2>4. unswept \subseteq w.gone  BY <1>2, <1>3 DEF General
  <2>. QED  BY <1>2, <1>3, <2>1, <2>2, <2>3, <2>4 DEF General
<1>7. ASSUME ~overlapped PROVE Single(w)
  <2>1. Single(run[r])  BY <1>2, <1>7, OthersOff DEF At
  <2>2. a # None  BY NoneAssumption
  <2>3. CandOpen(w)  BY <1>2, <1>3, <2>1 DEF Single, CandOpen
  <2>4. Covers(w)
    <3>1. \A e \in run[r].cand : links[e] \cap live \subseteq run[r].mem[e]
      BY <1>2, <2>1 DEF Single, Covers
    <3>2. w.mem[s] = run[r].mem[s] \cup run[r].mem[a]  BY <1>2, <1>4
    <3>. QED  BY <1>2, <1>3, <1>4, <3>1, <3>2, RunIs DEF Covers, IInv
  <2>5. Exact(w)
    <3>. SUFFICES ASSUME w.gone = {}, NEW e \in w.cand, NEW x \in w.mem[e]
                  PROVE  x \in links[e] \/ (w.job.event = e /\ x \in w.job.ids)
      BY <1>3 DEF Exact
    <3>1. e \in run[r].cand /\ e # a /\ e \in Events  BY <1>3, RunIs DEF IInv
    <3>2. \A y \in run[r].mem[e] : y \in links[e]
      BY <1>2, <1>3, <2>1, <3>1 DEF Single, Exact
    <3>3. CASE e = s
      <4>1. x \in run[r].mem[s] \/ x \in run[r].mem[a]  BY <1>2, <1>4, <3>3
      <4>. QED  BY <1>3, <3>2, <3>3, <4>1
    <3>4. CASE e # s
      <4>1. x \in run[r].mem[e]  BY <1>4, <3>1, <3>4
      <4>. QED  BY <3>2, <4>1
    <3>. QED  BY <3>3, <3>4
  <2>6. Voices(w)  BY <1>3, <2>2 DEF Voices
  <2>. QED  BY <2>3, <2>4, <2>5, <2>6 DEF Single
<1>8. /\ Set(r, w) /\ ~At(r, "off")
      /\ UNCHANGED <<ev, links, live, unswept, overlapped, bounds>>
  BY <1>1, <1>2 DEF Merge, At
<1>. QED  BY <1>5, <1>6, <1>7, <1>8, OnStep

-----------------------------------------------------------------------------
(* A cluster's turn.                                                       *)

\* Two outlets are two outlets still with more articles.
LEMMA TwoOutletsIs ==
  ASSUME NEW ids \in SUBSET Articles, NEW more \in SUBSET Articles,
         ~Refused(ids), \A a \in ids \cap live : a \in more
  PROVE  TwoOutlets(more)
<1>. DEFINE X == Outlets(ids)
            Y == {Outlet[a] : a \in more}
<1>1. IsFiniteSet(more)  BY ClusterAssumption, FS_Subset
<1>2. IsFiniteSet(Y)
  <2>. DEFINE out == [a \in more |-> Outlet[a]]
  <2>1. out \in Surjection(more, {out[a] : a \in more})  BY DEF Surjection
  <2>2. {out[a] : a \in more} = Y  OBVIOUS
  <2>. QED  BY <1>1, <2>1, <2>2, FS_Surjection
<1>3. X \subseteq Y  BY DEF Outlets
<1>4. /\ IsFiniteSet(X) /\ Cardinality(X) <= Cardinality(Y)
      /\ Cardinality(X) \in Nat /\ Cardinality(Y) \in Nat
  BY <1>2, <1>3, FS_Subset, FS_CardinalityType
<1>5. ~(Cardinality(X) < 2)  BY DEF Refused
<1>. QED  BY <1>4, <1>5 DEF TwoOutlets

\* A run whose cluster's turn is over; and one that is about to link it.
WithoutIs(w, r, c) ==
    /\ w \in RunType
    /\ w.pc = "apply" /\ w.cand = run[r].cand /\ w.mem = run[r].mem /\ w.job = run[r].job
    /\ w.gone = run[r].gone /\ w.aids = [run[r].aids EXCEPT ![c] = {}]
LinkingIs(w, r, c, e) ==
    /\ w \in RunType
    /\ w.pc = "link" /\ w.cand = run[r].cand /\ w.gone = run[r].gone
    /\ w.job = [event |-> e, ids |-> run[r].aids[c], absorbed |-> None, cluster |-> c]
    /\ w.aids = [run[r].aids EXCEPT ![c] = {}]
    /\ \A f \in Events \ {e} : w.mem[f] = run[r].mem[f]
    /\ \A a \in w.mem[e] : a \in run[r].mem[e] \/ a \in run[r].aids[c]
    /\ run[r].mem[e] \subseteq w.mem[e]

LEMMA WithoutFields ==
  ASSUME NEW r \in Runs, NEW c \in Clusters, run[r] \in RunType
  PROVE  WithoutIs(Without(r, c), r, c)
<1>1. PICK w : w = Without(r, c)  OBVIOUS
<1>2. /\ w.pc = "apply" /\ w.cand = run[r].cand /\ w.mem = run[r].mem /\ w.job = run[r].job
      /\ w.gone = run[r].gone /\ w.aids = [run[r].aids EXCEPT ![c] = {}]
      /\ w.won = [run[r].won EXCEPT ![c] = None]
  BY <1>1 DEF Without, RunType
<1>3. /\ w.aids \in [Clusters -> SUBSET Articles]
      /\ w.won \in [Clusters -> Events \cup {None}]
  BY <1>2 DEF RunType
<1>4. w = [run[r] EXCEPT !.pc = "apply", !.aids = w.aids, !.won = w.won]
  BY <1>1, <1>2 DEF Without, RunType
<1>5. w \in RunType  BY <1>3, <1>4 DEF RunType
<1>. QED  BY <1>1, <1>2, <1>5 DEF WithoutIs

LEMMA LinkingFields ==
  ASSUME NEW r \in Runs, NEW c \in Clusters, run[r] \in RunType, NEW e \in Events
  PROVE  LinkingIs(Linking(r, c, e), r, c, e)
<1>1. PICK v : v = Without(r, c)  OBVIOUS
<1>2. WithoutIs(v, r, c)  BY <1>1, WithoutFields
<1>3. PICK w : w = [v EXCEPT !.pc = "link", !.job = Job(e, run[r].aids[c], None, c)]
  OBVIOUS
<1>4. w = Linking(r, c, e)  BY <1>1, <1>3 DEF Linking
<1>5. Job(e, run[r].aids[c], None, c) \in
         [event : Events \cup {None}, ids : SUBSET Articles,
          absorbed : Events \cup {None}, cluster : Clusters \cup {None}]
  BY DEF Job, RunType
<1>6. w \in RunType  BY <1>2, <1>3, <1>5 DEF WithoutIs, RunType
<1>7. /\ w.pc = "link" /\ w.cand = v.cand /\ w.mem = v.mem /\ w.gone = v.gone
      /\ w.job = Job(e, run[r].aids[c], None, c) /\ w.aids = v.aids
  BY <1>2, <1>3 DEF WithoutIs, RunType
<1>. QED  BY <1>2, <1>4, <1>6, <1>7 DEF WithoutIs, LinkingIs, Job

\* What the turn of c leaves of the run.
LEMMA TurnIs ==
  ASSUME IInv, NEW r \in Runs, NEW c \in Clusters, Turn(r, c)
  PROVE  /\ ~At(r, "off") /\ run[r].pc \in {"merge", "apply"} /\ run[r].job = NoJob
         /\ General(run[r]) /\ (~overlapped => Single(run[r]))
         /\ run[r].aids[c] \subseteq Articles
<1>1. run[r].pc \in {"merge", "apply"} /\ General(run[r])  BY DEF Turn, IInv
<1>2. ~At(r, "off")  BY <1>1 DEF At
<1>. QED  BY <1>1, <1>2, OthersOff, RunIs DEF General, Known, IInv

\* The run goes on to the next cluster.
LEMMA PassedBy ==
  ASSUME IInv, NEW r \in Runs, NEW c \in Clusters, Turn(r, c), NEW w, WithoutIs(w, r, c)
  PROVE  General(w) /\ (~overlapped => Single(w))
<1>. USE DEF WithoutIs
<1>1. /\ run[r].pc \in {"merge", "apply"} /\ run[r].job = NoJob
      /\ General(run[r]) /\ (~overlapped => Single(run[r]))
  BY TurnIs
<1>2. General(w)
  <2>1. Known(w)  BY <1>1 DEF Known
  <2>2. \A a \in Articles : Held(w, a) => Held(run[r], a)
    BY RunIs DEF Held, IInv
  <2>. QED  BY <1>1, <2>1, <2>2 DEF General
<1>3. ASSUME ~overlapped PROVE Single(w)
  BY <1>1, <1>3 DEF Single, CandOpen, Covers, Exact, Voices, Merging
<1>. QED  BY <1>2, <1>3

\* The links of this cluster to the event e are next.
LEMMA Chosen ==
  ASSUME IInv, NEW r \in Runs, NEW c \in Clusters, Turn(r, c), NEW e \in Events, NEW w,
         Open(e) \/ e \in run[r].cand, LinkingIs(w, r, c, e),
         ~overlapped /\ run[r].gone = {} => TwoOutlets(links[e] \cup run[r].aids[c])
  PROVE  General(w) /\ (~overlapped => Single(w))
<1>. USE DEF LinkingIs
<1>1. /\ run[r].pc \in {"merge", "apply"} /\ run[r].job = NoJob
      /\ General(run[r]) /\ (~overlapped => Single(run[r]))
  BY TurnIs
<1>2. General(w)
  <2>1. Known(w)  BY DEF Known
  <2>2. \A a \in Articles : Held(w, a) => Held(run[r], a)
    BY RunIs DEF Held, IInv
  <2>3. ev[e] # NoEvent  BY <1>1, RowIs DEF General, IInv
  <2>4. \A f \in Events :
          ev[f] = NoEvent => f \notin w.cand /\ w.job.event # f /\ w.job.absorbed # f
    BY <1>1, <2>3, NoneAssumption DEF General
  <2>. QED  BY <1>1, <2>1, <2>2, <2>4 DEF General
<1>3. ASSUME ~overlapped PROVE Single(w)
  <2>1. Single(run[r])  BY <1>1, <1>3
  <2>2. CandOpen(w) /\ Covers(w)
    BY <2>1 DEF Single, CandOpen, Covers, Merging
  <2>3. Exact(w)
    <3>. SUFFICES ASSUME w.gone = {}, NEW f \in w.cand, NEW x \in w.mem[f]
                  PROVE  x \in links[f] \/ (w.job.event = f /\ x \in w.job.ids)
      BY DEF Exact
    <3>1. f \in Events /\ \A y \in run[r].mem[f] : y \in links[f]
      BY <1>1, <2>1, RunIs DEF Single, Exact, IInv
    <3>. QED  BY <3>1
  <2>4. Voices(w)  BY <1>3 DEF Voices
  <2>. QED  BY <2>2, <2>3, <2>4 DEF Single
<1>. QED  BY <1>2, <1>3

LEMMA HoldStep == ASSUME IInv, NEW r \in Runs, NEW c \in Clusters, Hold(r, c) PROVE IInv'
<1>1. Turn(r, c)  BY DEF Hold, Undecided
<1>2. PICK w : w = Without(r, c)  OBVIOUS
<1>3. WithoutIs(w, r, c)  BY <1>2, RunIs, WithoutFields DEF IInv
<1>4. General(w) /\ (~overlapped => Single(w))  BY <1>1, <1>3, PassedBy
<1>5. /\ Set(r, w) /\ ~At(r, "off") /\ w \in RunType
      /\ UNCHANGED <<ev, links, live, unswept, overlapped, bounds>>
  BY <1>1, <1>2, <1>3, TurnIs DEF Hold, Done, WithoutIs
<1>. QED  BY <1>4, <1>5, OnStep

\* The candidate's articles in memory and the cluster's have two outlets in
\* the rows as well.
LEMMA BothVoices ==
  ASSUME IInv, NEW r \in Runs, NEW c \in Clusters, Turn(r, c), NEW e \in run[r].cand,
         ~overlapped, run[r].gone = {}, ~Refused(run[r].mem[e] \cup run[r].aids[c])
  PROVE  TwoOutlets(links[e] \cup run[r].aids[c])
<1>1. /\ run[r].pc \in {"merge", "apply"} /\ Single(run[r]) /\ e \in Events
      /\ run[r].aids[c] \subseteq Articles /\ run[r].mem[e] \subseteq Articles
  BY TurnIs, RunIs DEF IInv
<1>2. \A a \in run[r].mem[e] : a \in links[e]  BY <1>1 DEF Single, Exact
<1>3. links[e] \subseteq Articles  BY <1>1, RowIs DEF IInv
<1>. QED  BY <1>1, <1>2, <1>3, TwoOutletsIs

LEMMA AbsorbStep ==
  ASSUME IInv, NEW r \in Runs, NEW c \in Clusters, NEW e \in Events,
         NEW d \in Clusters \cup {None}, Absorb(r, c, e, d)
  PROVE  IInv'
<1>1. Turn(r, c) /\ e \in run[r].cand /\ d # c  BY DEF Absorb, Undecided
<1>2. run[r] \in RunType  BY RunIs DEF IInv
<1>3. PICK v : v = Settled(r, e, d)  OBVIOUS
<1>4. /\ v \in RunType
      /\ v.cand = run[r].cand /\ v.mem = run[r].mem /\ v.aids = run[r].aids
      /\ v.gone = run[r].gone /\ v.job = run[r].job
  BY <1>2, <1>3 DEF Settled, RunType
<1>5. PICK w : w = [v EXCEPT !.pc = "apply", !.aids[c] = {}]  OBVIOUS
<1>6. /\ w.pc = "apply" /\ w.cand = run[r].cand /\ w.mem = run[r].mem
      /\ w.job = run[r].job /\ w.gone = run[r].gone
      /\ w.aids = [run[r].aids EXCEPT ![c] = {}]
  BY <1>4, <1>5 DEF RunType
<1>7. w \in RunType
  <2>1. w.aids \in [Clusters -> SUBSET Articles]  BY <1>2, <1>6 DEF RunType
  <2>2. w = [v EXCEPT !.pc = "apply", !.aids = w.aids]  BY <1>4, <1>5 DEF RunType
  <2>. QED  BY <1>4, <2>1, <2>2 DEF RunType
<1>8. ~At(r, "off") /\ run[r].aids[c] \subseteq Articles  BY <1>1, TurnIs
<1>9. UNCHANGED <<ev, links, live, unswept, overlapped, bounds>>  BY DEF Absorb
<1>. DEFINE ids == run[r].mem[e] \cup run[r].aids[c]
<1>10. CASE Refused(ids)
  <2>1. Set(r, w)  BY <1>3, <1>5, <1>10 DEF Absorb
  <2>2. General(w) /\ (~overlapped => Single(w))  BY <1>1, <1>6, <1>7, PassedBy DEF WithoutIs
  <2>. QED  BY <1>7, <1>8, <1>9, <2>1, <2>2, OnStep
<1>11. CASE ~Refused(ids)
  <2>1. PICK x : x = [w EXCEPT !.pc = "link", !.job = Job(e, run[r].aids[c], None, c),
                               !.mem[e] = ids]
    OBVIOUS
  <2>2. Set(r, x)  BY <1>3, <1>5, <1>11, <2>1 DEF Absorb
  <2>3. /\ x.pc = "link" /\ x.cand = run[r].cand /\ x.gone = run[r].gone
        /\ x.job = [event |-> e, ids |-> run[r].aids[c], absorbed |-> None, cluster |-> c]
        /\ x.aids = [run[r].aids EXCEPT ![c] = {}]
        /\ x.mem = [run[r].mem EXCEPT ![e] = ids]
    BY <1>6, <1>7, <2>1 DEF RunType, Job
  <2>4. x \in RunType
    <3>1. x.mem \in [Events -> SUBSET Articles]  BY <1>2, <1>8, <2>3 DEF RunType
    <3>2. x.job \in [event : Events \cup {None}, ids : SUBSET Articles,
                     absorbed : Events \cup {None}, cluster : Clusters \cup {None}]
      BY <1>8, <2>3
    <3>3. x = [w EXCEPT !.pc = "link", !.job = x.job, !.mem = x.mem]
      BY <1>7, <2>1, <2>3 DEF RunType
    <3>. QED  BY <1>7, <3>1, <3>2, <3>3 DEF RunType
  <2>5. LinkingIs(x, r, c, e)  BY <1>2, <2>3, <2>4 DEF LinkingIs, RunType
  <2>6. ~overlapped /\ run[r].gone = {} => TwoOutlets(links[e] \cup run[r].aids[c])
    BY <1>1, <1>11, BothVoices
  <2>7. Open(e) \/ e \in run[r].cand  BY <1>1
  <2>8. General(x) /\ (~overlapped => Single(x))
    BY <1>1, <2>5, <2>6, <2>7, Chosen
  <2>. QED  BY <1>8, <1>9, <2>2, <2>4, <2>8, OnStep
<1>. QED  BY <1>10, <1>11

LEMMA AdoptStep == ASSUME IInv, NEW r \in Runs, NEW c \in Clusters, Adopt(r, c) PROVE IInv'
<1>1. Turn(r, c)  BY DEF Adopt, Undecided
<1>2. /\ ~At(r, "off") /\ run[r].aids[c] \subseteq Articles /\ run[r] \in RunType
  BY <1>1, TurnIs, RunIs DEF IInv
<1>3. UNCHANGED <<ev, links, live, unswept, overlapped, bounds>>  BY DEF Adopt
<1>4. PICK e \in Adopted(r, c) :
        IF Refused(links[e] \cup run[r].aids[c]) THEN Done(r, c) ELSE Set(r, Linking(r, c, e))
  BY DEF Adopt
<1>5. e \in Events /\ Open(e) /\ links[e] \subseteq Articles
  BY <1>4, RowIs DEF Adopted, Holders, IInv
<1>6. CASE Refused(links[e] \cup run[r].aids[c])
  <2>1. PICK w : w = Without(r, c)  OBVIOUS
  <2>2. WithoutIs(w, r, c)  BY <1>2, <2>1, WithoutFields
  <2>3. Set(r, w)  BY <1>4, <1>6, <2>1 DEF Done
  <2>4. General(w) /\ (~overlapped => Single(w))  BY <1>1, <2>2, PassedBy
  <2>. QED  BY <1>2, <1>3, <2>2, <2>3, <2>4, OnStep DEF WithoutIs
<1>7. CASE ~Refused(links[e] \cup run[r].aids[c])
  <2>1. PICK w : w = Linking(r, c, e)  OBVIOUS
  <2>2. LinkingIs(w, r, c, e)  BY <1>2, <1>5, <2>1, LinkingFields
  <2>3. Set(r, w)  BY <1>4, <1>7, <2>1
  <2>4. TwoOutlets(links[e] \cup run[r].aids[c])  BY <1>2, <1>5, <1>7, TwoOutletsIs
  <2>5. General(w) /\ (~overlapped => Single(w))
    BY <1>1, <1>5, <2>2, <2>4, Chosen
  <2>. QED  BY <1>2, <1>3, <2>2, <2>3, <2>5, OnStep DEF LinkingIs
<1>. QED  BY <1>6, <1>7

\* Claims and redirects of rows that stay open or merged.
LEMMA RowsStep ==
  ASSUME IInv, NEW r \in Runs, NEW w \in RunType, Set(r, w), ~At(r, "off"),
         UNCHANGED <<links, live, unswept, overlapped, bounds>>,
         ev' \in [Events -> EventRow \cup {NoEvent}],
         \A e \in Events : ev'[e].status = "merged" => ev'[e].claim = None,
         \A e \in Events : ev'[e] = NoEvent <=> ev[e] = NoEvent,
         \A e \in Events : ev'[e].status = ev[e].status,
         ~overlapped => \A e \in Events : ev[e].status = "merged" => ev'[e].into = ev[e].into,
         General(w), ~overlapped => Single(w)
  PROVE  IInv'
<1>1. \A e \in Events : Open(e)' <=> Open(e)  BY DEF Open
<1>2. General(w)'  BY DEF General, Linked
<1>3. ~overlapped' => Single(w)'
  <2>1. w.cand \subseteq Events  BY DEF RunType
  <2>2. CandOpen(w) => CandOpen(w)'  BY <1>1, <2>1 DEF CandOpen
  <2>. QED  BY <2>2 DEF Single, Covers, Exact, Voices
<1>4. MergedReachesOpen'  BY <1>1, ReachKept
<1>5. FreshEmpty'  BY DEF IInv, FreshEmpty
<1>6. ~overlapped' => \A o \in Runs \ {r} : At(o, "off")  BY OthersOff
<1>7. \A a \in Articles : Linked(a) => Linked(a)'  BY DEF Linked
<1>. QED  BY <1>2, <1>3, <1>4, <1>5, <1>6, <1>7, StepKeeps DEF IInv, TypeOK, bounds

LEMMA MatchStep ==
  ASSUME IInv, NEW r \in Runs, NEW c \in Clusters, NEW e \in Events, Match(r, c, e)
  PROVE  IInv'
<1>1. Turn(r, c) /\ e \in run[r].cand  BY DEF Match
<1>2. /\ ~At(r, "off") /\ run[r].aids[c] \subseteq Articles /\ run[r] \in RunType
  BY <1>1, TurnIs, RunIs DEF IInv
<1>3. UNCHANGED <<links, live, unswept, overlapped, bounds>>  BY DEF Match
<1>4. CASE Refused(run[r].mem[e] \cup run[r].aids[c])
  <2>1. PICK v : v = Without(r, c)  OBVIOUS
  <2>2. WithoutIs(v, r, c)  BY <1>2, <2>1, WithoutFields
  <2>3. PICK w : w = [v EXCEPT !.taken = @ \cup {e}]  OBVIOUS
  <2>4. WithoutIs(w, r, c)  BY <2>2, <2>3 DEF WithoutIs, RunType
  <2>5. Set(r, w) /\ UNCHANGED ev  BY <1>4, <2>1, <2>3 DEF Match
  <2>6. General(w) /\ (~overlapped => Single(w))  BY <1>1, <2>4, PassedBy
  <2>. QED  BY <1>2, <1>3, <2>4, <2>5, <2>6, OnStep DEF WithoutIs
<1>5. CASE ~Refused(run[r].mem[e] \cup run[r].aids[c])
  <2>1. PICK v : v = Linking(r, c, e)  OBVIOUS
  <2>2. LinkingIs(v, r, c, e)  BY <1>2, <2>1, LinkingFields
  <2>3. PICK w : w = [v EXCEPT !.taken = @ \cup {e}]  OBVIOUS
  <2>4. LinkingIs(w, r, c, e)  BY <2>2, <2>3 DEF LinkingIs, RunType
  <2>5. Set(r, w) /\ ev' \in {ev, [ev EXCEPT ![e].into = None]}
    BY <1>5, <2>1, <2>3 DEF Match
  <2>6. ~overlapped /\ run[r].gone = {} => TwoOutlets(links[e] \cup run[r].aids[c])
    BY <1>1, <1>5, BothVoices
  <2>7. General(w) /\ (~overlapped => Single(w))  BY <1>1, <2>4, <2>6, Chosen
  <2>8. CASE ev' = ev
    BY <1>2, <1>3, <2>4, <2>5, <2>7, <2>8, OnStep DEF LinkingIs
  <2>9. CASE ev' = [ev EXCEPT ![e].into = None]
    <3>1. ev[e] # NoEvent /\ ev[e] \in EventRow
      BY <1>1, RowIs DEF IInv, General
    <3>2. ev'[e] = [ev[e] EXCEPT !.into = None] /\ \A f \in Events \ {e} : ev'[f] = ev[f]
      BY <2>9 DEF IInv, TypeOK
    <3>3. /\ ev'[e] \in EventRow /\ ev'[e].status = ev[e].status /\ ev'[e].claim = ev[e].claim
          /\ ev'[e] # NoEvent
      BY <3>1, <3>2 DEF EventRow, NoEvent
    <3>4. /\ ev' \in [Events -> EventRow \cup {NoEvent}]
          /\ \A f \in Events : ev'[f].status = "merged" => ev'[f].claim = None
          /\ \A f \in Events : ev'[f] = NoEvent <=> ev[f] = NoEvent
          /\ \A f \in Events : ev'[f].status = ev[f].status
      <4>1. ev' \in [Events -> EventRow \cup {NoEvent}]
        BY <2>9, <3>2, <3>3 DEF IInv, TypeOK
      <4>. QED  BY <3>1, <3>2, <3>3, <4>1, RowIs DEF IInv
    <3>5. ~overlapped => \A f \in Events : ev[f].status = "merged" => ev'[f].into = ev[f].into
      <4>1. ~overlapped => Open(e)
        BY <1>1, TurnIs DEF Single, CandOpen
      <4>. QED  BY <3>2, <4>1 DEF Open
    <3>. QED  BY <1>2, <1>3, <2>4, <2>5, <2>7, <3>4, <3>5, RowsStep DEF LinkingIs
  <2>. QED  BY <2>5, <2>8, <2>9
<1>. QED  BY <1>4, <1>5

LEMMA CreateStep == ASSUME IInv, NEW r \in Runs, NEW c \in Clusters, Create(r, c) PROVE IInv'
<1>1. Turn(r, c)  BY DEF Create, Undecided
<1>2. /\ ~At(r, "off") /\ run[r].aids[c] \subseteq Articles /\ run[r] \in RunType
      /\ run[r].pc \in {"merge", "apply"} /\ run[r].job = NoJob
      /\ General(run[r]) /\ (~overlapped => Single(run[r]))
  BY <1>1, TurnIs, RunIs DEF IInv
<1>3. UNCHANGED <<links, live, unswept, overlapped, bounds>>  BY DEF Create
<1>4. PICK v : v = Without(r, c)  OBVIOUS
<1>5. WithoutIs(v, r, c)  BY <1>2, <1>4, WithoutFields
<1>6. CASE Refused(run[r].aids[c])
  <2>1. Set(r, v) /\ UNCHANGED ev  BY <1>4, <1>6 DEF Create, Done
  <2>2. General(v) /\ (~overlapped => Single(v))  BY <1>1, <1>5, PassedBy
  <2>. QED  BY <1>2, <1>3, <1>5, <2>1, <2>2, OnStep DEF WithoutIs
<1>7. CASE ~Refused(run[r].aids[c])
  <2>1. PICK w : w = [v EXCEPT !.pc = "insert", !.job = Job(None, run[r].aids[c], None, c)]
    OBVIOUS
  <2>2. Set(r, w) /\ ev' = Released(c)  BY <1>4, <1>7, <2>1 DEF Create
  <2>3. /\ w \in RunType /\ w.pc = "insert" /\ w.cand = run[r].cand /\ w.mem = run[r].mem
        /\ w.gone = run[r].gone /\ w.aids = [run[r].aids EXCEPT ![c] = {}]
        /\ w.job = [event |-> None, ids |-> run[r].aids[c], absorbed |-> None, cluster |-> c]
    <3>1. Job(None, run[r].aids[c], None, c) \in
             [event : Events \cup {None}, ids : SUBSET Articles,
              absorbed : Events \cup {None}, cluster : Clusters \cup {None}]
      BY <1>2 DEF Job
    <3>2. w \in RunType  BY <1>5, <2>1, <3>1 DEF WithoutIs, RunType
    <3>. QED  BY <1>5, <2>1, <3>2 DEF WithoutIs, RunType, Job
  <2>4. General(w)
    <3>1. Known(w)  BY <2>3 DEF Known
    <3>2. \A a \in Articles : Held(w, a) => Held(run[r], a)  BY <1>2, <2>3 DEF Held, RunType
    <3>. QED  BY <1>2, <2>3, <3>1, <3>2, NoneAssumption DEF General
  <2>5. ASSUME ~overlapped PROVE Single(w)
    <3>1. Single(run[r])  BY <1>2, <2>5
    <3>2. TwoOutlets(w.job.ids)  BY <1>2, <1>7, <2>3, TwoOutletsIs
    <3>. QED  BY <1>2, <2>3, <3>1, <3>2
      DEF Single, CandOpen, Covers, Exact, Voices, Merging
  <2>6. \A e \in Events :
           /\ ev'[e] \in EventRow \cup {NoEvent}
           /\ ev'[e].status = "merged" => ev'[e].claim = None
           /\ ev'[e] = NoEvent <=> ev[e] = NoEvent
           /\ ev'[e].status = ev[e].status
           /\ ev[e].status = "merged" => ev'[e].into = ev[e].into
    <3>. SUFFICES ASSUME NEW e \in Events
                  PROVE  /\ ev'[e] \in EventRow \cup {NoEvent}
                         /\ ev'[e].status = "merged" => ev'[e].claim = None
                         /\ ev'[e] = NoEvent <=> ev[e] = NoEvent
                         /\ ev'[e].status = ev[e].status
                         /\ ev[e].status = "merged" => ev'[e].into = ev[e].into
      OBVIOUS
    <3>1. CASE e \in Holders(c)
      <4>1. ev'[e] = [ev[e] EXCEPT !.claim = None]  BY <2>2, <3>1 DEF Released
      <4>2. ev[e] # NoEvent /\ ev[e] \in EventRow
        BY <3>1, RowIs, NoneAssumption DEF Holders, NoEvent, IInv
      <4>. QED  BY <4>1, <4>2 DEF EventRow, NoEvent
    <3>2. CASE e \notin Holders(c)
      <4>1. ev'[e] = ev[e]  BY <2>2, <3>2 DEF Released
      <4>. QED  BY <4>1, RowIs DEF IInv
    <3>. QED  BY <3>1, <3>2
  <2>7. ev' \in [Events -> EventRow \cup {NoEvent}]  BY <2>2, <2>6 DEF Released
  <2>. QED  BY <1>2, <1>3, <2>2, <2>3, <2>4, <2>5, <2>6, <2>7, RowsStep
<1>. QED  BY <1>6, <1>7

LEMMA AppliedStep == ASSUME IInv, NEW r \in Runs, Applied(r) PROVE IInv'
<1>1. /\ ~At(r, "off") /\ General(run[r])
      /\ UNCHANGED <<ev, links, live, unswept, overlapped, bounds>>
  BY DEF Applied, At, IInv
<1>2. CASE r = Cron
  <2>1. PICK w : w = [Off EXCEPT !.pc = "break", !.gone = run[r].gone]  OBVIOUS
  <2>2. /\ w.pc = "break" /\ w.gone = run[r].gone /\ w.cand = {} /\ w.job = NoJob
        /\ w.mem = Off.mem /\ w.aids = Off.aids
    BY <2>1 DEF Off
  <2>3. w \in RunType
    <3>1. run[r].gone \subseteq Articles  BY RunIs DEF IInv
    <3>. QED  BY <2>1, <3>1, OffIs DEF RunType
  <2>4. Set(r, w)  BY <1>2, <2>1 DEF Applied
  <2>5. General(w)
    <3>1. Known(w)  BY <2>2, OffIs DEF Known
    <3>2. \A a \in Articles : ~Held(w, a)  BY <2>2, OffIs DEF Held
    <3>3. unswept \subseteq w.gone  BY <1>1, <2>2 DEF General, At
    <3>. QED  BY <2>2, <3>1, <3>2, <3>3, OffIs, NoneAssumption DEF General
  <2>6. Single(w)  BY <2>2, OffIs DEF Single, CandOpen, Covers, Exact, Voices, Merging
  <2>. QED  BY <1>1, <2>3, <2>4, <2>5, <2>6, OnStep
<1>3. CASE r # Cron
  <2>1. Set(r, Off)  BY <1>3 DEF Applied
  <2>. QED  BY <1>1, <2>1, OffStep
<1>. QED  BY <1>2, <1>3

LEMMA BrokenStep == ASSUME IInv, Broken PROVE IInv'
  BY OffStep DEF Broken, At, Runs

-----------------------------------------------------------------------------
(* The statements.                                                         *)

LEMMA NewRowIs == Fresh # {} => NewRow \in Events /\ ev[NewRow] = NoEvent
  BY DEF NewRow, Fresh

LEMMA InsertStep == ASSUME IInv, NEW r \in Runs, Insert(r) PROVE IInv'
<1>. DEFINE c == run[r].job.cluster
<1>1. /\ run[r].pc = "insert" /\ ~At(r, "off") /\ run[r] \in RunType /\ General(run[r])
      /\ UNCHANGED <<links, live, unswept, overlapped, bounds>>
      /\ c \in Clusters /\ run[r].job.absorbed = None
  BY RunIs DEF Insert, At, IInv, General, Known
<1>2. ~overlapped => Single(run[r])  BY <1>1, OthersOff
<1>3. CASE Holders(c) # {} \/ Fresh = {}
  <2>1. PICK w : w = [run[r] EXCEPT !.pc = "apply", !.job = NoJob]  OBVIOUS
  <2>2. Set(r, w) /\ UNCHANGED ev  BY <1>3, <2>1 DEF Insert
  <2>3. /\ w \in RunType /\ w.pc = "apply" /\ w.job = NoJob /\ w.cand = run[r].cand
        /\ w.mem = run[r].mem /\ w.aids = run[r].aids /\ w.gone = run[r].gone
    BY <1>1, <2>1, OffIs DEF RunType
  <2>4. General(w)
    <3>1. Known(w)  BY <2>3 DEF Known
    <3>2. \A a \in Articles : Held(w, a) => Held(run[r], a)  BY <2>3, OffIs DEF Held
    <3>. QED  BY <1>1, <2>3, <3>1, <3>2, OffIs, NoneAssumption DEF General
  <2>5. ASSUME ~overlapped PROVE Single(w)
    <3>1. Single(run[r])  BY <1>2, <2>5
    <3>. QED  BY <1>1, <2>3, <3>1 DEF Single, CandOpen, Covers, Exact, Voices, Merging
  <2>. QED  BY <1>1, <2>2, <2>3, <2>4, <2>5, OnStep
<1>4. CASE ~(Holders(c) # {} \/ Fresh = {})
  <2>1. PICK e : e = NewRow  OBVIOUS
  <2>2. e \in Events /\ ev[e] = NoEvent /\ links[e] = {}
    BY <1>4, <2>1, NewRowIs DEF IInv, FreshEmpty
  <2>3. PICK row : row = [status |-> "open", claim |-> c, into |-> None, started |-> Born[c]]
    OBVIOUS
  <2>4. row \in EventRow /\ row.status = "open" /\ row # NoEvent
    <3>1. Born[c] \in 0 .. Late  BY <1>1, ClusterAssumption DEF Late
    <3>. QED  BY <1>1, <2>3, <3>1 DEF EventRow, NoEvent
  <2>5. PICK w : w = [run[r] EXCEPT !.pc = "link", !.job.event = e]  OBVIOUS
  <2>6. ev' = [ev EXCEPT ![e] = row] /\ Set(r, w)
    BY <1>4, <2>1, <2>3, <2>5 DEF Insert
  <2>7. /\ w \in RunType /\ w.pc = "link" /\ w.cand = run[r].cand /\ w.mem = run[r].mem
        /\ w.aids = run[r].aids /\ w.gone = run[r].gone /\ w.job.event = e
        /\ w.job.ids = run[r].job.ids /\ w.job.absorbed = None
    <3>1. [run[r].job EXCEPT !.event = e] \in
             [event : Events \cup {None}, ids : SUBSET Articles,
              absorbed : Events \cup {None}, cluster : Clusters \cup {None}]
      BY <1>1, <2>2 DEF RunType
    <3>2. w = [run[r] EXCEPT !.pc = "link", !.job = [run[r].job EXCEPT !.event = e]]
      BY <1>1, <2>5 DEF RunType
    <3>3. w \in RunType  BY <1>1, <3>1, <3>2 DEF RunType
    <3>. QED  BY <1>1, <3>1, <3>2, <3>3 DEF RunType
  <2>8. ev'[e] = row /\ \A f \in Events \ {e} : ev'[f] = ev[f]
    BY <2>2, <2>6 DEF IInv, TypeOK
  <2>9. /\ ev' \in [Events -> EventRow \cup {NoEvent}]
        /\ \A f \in Events : ev'[f].status = "merged" => ev'[f].claim = None
        /\ \A f \in Events : ev'[f] = NoEvent => ev[f] = NoEvent
    <3>1. ev' \in [Events -> EventRow \cup {NoEvent}]
      BY <2>4, <2>6 DEF IInv, TypeOK
    <3>. QED  BY <2>2, <2>4, <2>8, <3>1, RowIs DEF IInv
  <2>10. General(w)'
    <3>1. Known(w)  BY <2>2, <2>7 DEF Known
    <3>2. \A a \in Articles : Held(w, a) => Held(run[r], a)  BY <2>7 DEF Held
    <3>3. \A f \in Events :
            ev'[f] = NoEvent => f \notin w.cand /\ w.job.event # f /\ w.job.absorbed # f
      BY <1>1, <2>4, <2>7, <2>8, <2>9, NoneAssumption DEF General
    <3>4. \A a \in Articles \ live : Held(w, a) => a \in w.gone \/ Linked(a)
      BY <1>1, <2>7, <3>2 DEF General
    <3>5. unswept \subseteq w.gone  BY <1>1, <2>7 DEF General
    <3>. QED  BY <1>1, <3>1, <3>3, <3>4, <3>5 DEF General, Linked
  <2>11. \A f \in Events : Open(f) => Open(f)'  BY <2>2, <2>4, <2>8 DEF Open
  <2>12. ASSUME ~overlapped' PROVE Single(w)'
    <3>1. Single(run[r])  BY <1>1, <1>2, <2>12
    <3>2. CandOpen(w)'
      BY <1>1, <2>7, <2>11, <3>1 DEF Single, CandOpen, Merging, RunType
    <3>3. Covers(w)'  BY <2>7 DEF Covers, Merging
    <3>4. Exact(w)'  BY <1>1, <2>7, <3>1 DEF Single, Exact
    <3>5. Voices(w)'
      <4>1. links[e] \cup run[r].job.ids = run[r].job.ids  BY <2>2
      <4>2. run[r].gone = {} => TwoOutlets(run[r].job.ids)
        BY <1>1, <3>1 DEF Single, Voices
      <4>. QED  BY <1>1, <2>7, <4>1, <4>2 DEF Voices
    <3>. QED  BY <3>2, <3>3, <3>4, <3>5 DEF Single
  <2>13. MergedReachesOpen'
    BY <1>1, <2>2, <2>4, <2>8, <2>11, ReachKept DEF NoEvent
  <2>14. FreshEmpty'  BY <1>1, <2>9 DEF IInv, FreshEmpty
  <2>15. ~overlapped' => \A o \in Runs \ {r} : At(o, "off")  BY <1>1, OthersOff
  <2>16. \A a \in Articles : Linked(a) => Linked(a)'  BY <1>1 DEF Linked
  <2>. QED
    BY <1>1, <2>6, <2>7, <2>9, <2>10, <2>12, <2>13, <2>14, <2>15, <2>16, StepKeeps
    DEF IInv, TypeOK, bounds
<1>. QED  BY <1>3, <1>4

\* More links, for an event that exists.
LEMMA LinksGrow ==
  ASSUME IInv, NEW e \in Events, ev[e] # NoEvent, NEW ids \in SUBSET Articles,
         links' = [links EXCEPT ![e] = @ \cup ids], UNCHANGED ev
  PROVE  /\ links'[e] = links[e] \cup ids /\ \A f \in Events \ {e} : links'[f] = links[f]
         /\ links' \in [Events -> SUBSET Articles]
         /\ \A f \in Events : links[f] \subseteq links'[f]
         /\ FreshEmpty' /\ (\A a \in Articles : Linked(a) => Linked(a)')
<1>1. links'[e] = links[e] \cup ids /\ \A f \in Events \ {e} : links'[f] = links[f]
  BY DEF IInv, TypeOK
<1>2. links' \in [Events -> SUBSET Articles]  BY DEF IInv, TypeOK
<1>3. \A f \in Events : links[f] \subseteq links'[f]  BY <1>1
<1>4. FreshEmpty'  BY <1>1 DEF IInv, FreshEmpty
<1>. QED  BY <1>1, <1>2, <1>3, <1>4 DEF Linked

LEMMA LinkLastStep ==
  ASSUME IInv, NEW r \in Runs, Link(r), run[r].job.ids = {} PROVE IInv'
<1>. DEFINE e == run[r].job.event
<1>1. /\ run[r].pc = "link" /\ ~At(r, "off") /\ run[r] \in RunType /\ General(run[r])
      /\ UNCHANGED <<ev, links, live, unswept, overlapped, bounds>>
      /\ e \in Events
      /\ Set(r, IF run[r].job.absorbed # None THEN [run[r] EXCEPT !.pc = "mark"]
                ELSE [run[r] EXCEPT !.pc = "apply", !.job = NoJob])
  BY RunIs DEF Link, At, IInv, General, Known
<1>2. ~overlapped => Single(run[r])  BY <1>1, OthersOff
<1>3. CASE run[r].job.absorbed # None
  <2>1. PICK w : w = [run[r] EXCEPT !.pc = "mark"]  OBVIOUS
  <2>2. Set(r, w)  BY <1>1, <1>3, <2>1
  <2>3. /\ w \in RunType /\ w.pc = "mark" /\ w.cand = run[r].cand /\ w.mem = run[r].mem
        /\ w.aids = run[r].aids /\ w.gone = run[r].gone /\ w.job = run[r].job
        /\ w.job.absorbed \in Events
    BY <1>1, <1>3, <2>1 DEF RunType
  <2>4. General(w)
    <3>1. Known(w)  BY <1>1, <2>3 DEF Known
    <3>2. \A a \in Articles : Held(w, a) => Held(run[r], a)  BY <2>3 DEF Held
    <3>. QED  BY <1>1, <2>3, <3>1, <3>2 DEF General
  <2>5. ASSUME ~overlapped PROVE Single(w)
    <3>1. Single(run[r]) /\ Merging(run[r])  BY <1>1, <1>2, <1>3, <2>5 DEF Merging
    <3>2. CandOpen(w)  BY <1>1, <2>3, <3>1 DEF Single, CandOpen, Merging
    <3>3. Covers(w)
      <4>1. /\ \A f \in run[r].cand : links[f] \cap live \subseteq run[r].mem[f]
            /\ links[run[r].job.absorbed] \cap live \subseteq run[r].job.ids \cup links[e]
        BY <1>1, <3>1 DEF Single, Covers
      <4>. QED  BY <1>1, <2>3, <4>1 DEF Covers
    <3>4. Exact(w)  BY <1>1, <2>3, <3>1 DEF Single, Exact
    <3>5. Voices(w)  BY <2>3 DEF Voices
    <3>. QED  BY <3>2, <3>3, <3>4, <3>5 DEF Single
  <2>. QED  BY <1>1, <2>2, <2>3, <2>4, <2>5, OnStep
<1>4. CASE run[r].job.absorbed = None
  <2>1. PICK w : w = [run[r] EXCEPT !.pc = "apply", !.job = NoJob]  OBVIOUS
  <2>2. Set(r, w)  BY <1>1, <1>4, <2>1
  <2>3. /\ w \in RunType /\ w.pc = "apply" /\ w.cand = run[r].cand /\ w.mem = run[r].mem
        /\ w.aids = run[r].aids /\ w.gone = run[r].gone /\ w.job = NoJob
    BY <1>1, <2>1, OffIs DEF RunType
  <2>4. General(w)
    <3>1. Known(w)  BY <1>1, <2>3 DEF Known
    <3>2. \A a \in Articles : Held(w, a) => Held(run[r], a)  BY <2>3, OffIs DEF Held
    <3>. QED  BY <1>1, <2>3, <3>1, <3>2, OffIs, NoneAssumption DEF General
  <2>5. ASSUME ~overlapped PROVE Single(w)
    <3>1. Single(run[r])  BY <1>1, <1>2, <2>5
    <3>2. CandOpen(w)  BY <1>1, <2>3, <3>1 DEF Single, CandOpen, Merging
    <3>3. Exact(w)  BY <1>1, <2>3, <3>1 DEF Single, Exact
    <3>. QED  BY <2>3, <3>2, <3>3 DEF Single, Covers, Voices, Merging
  <2>. QED  BY <1>1, <2>2, <2>3, <2>4, <2>5, OnStep
<1>. QED  BY <1>3, <1>4

LEMMA LinkStep == ASSUME IInv, NEW r \in Runs, Link(r) PROVE IInv'
<1>. DEFINE e == run[r].job.event
            ids == run[r].job.ids
            x == FirstOf(ids)
<1>. SUFFICES ASSUME ids # {} PROVE IInv'  BY LinkLastStep
<1>1. PICK w : w = [run[r] EXCEPT !.job.ids = ids \ {x}]  OBVIOUS
<1>2. /\ run[r].pc = "link" /\ ~At(r, "off") /\ run[r] \in RunType /\ General(run[r])
      /\ UNCHANGED <<ev, live, unswept, overlapped, bounds>>
      /\ e \in Events /\ ev[e] # NoEvent /\ ids \subseteq Articles /\ x \in ids
      /\ links' = [links EXCEPT ![e] = @ \cup {x}] /\ Set(r, w)
  BY <1>1, RunIs DEF Link, At, IInv, General, Known, FirstOf
<1>3. ~overlapped => Single(run[r])  BY <1>2, OthersOff
<1>4. /\ links'[e] = links[e] \cup {x} /\ \A f \in Events \ {e} : links'[f] = links[f]
      /\ links' \in [Events -> SUBSET Articles]
      /\ \A f \in Events : links[f] \subseteq links'[f]
      /\ FreshEmpty' /\ (\A a \in Articles : Linked(a) => Linked(a)')
  <2>1. {x} \in SUBSET Articles  BY <1>2
  <2>. HIDE DEF x, e
  <2>. QED  BY <1>2, <2>1, LinksGrow
<1>5. /\ w \in RunType /\ w.pc = "link" /\ w.cand = run[r].cand /\ w.mem = run[r].mem
      /\ w.aids = run[r].aids /\ w.gone = run[r].gone /\ w.job.event = e
      /\ w.job.absorbed = run[r].job.absorbed /\ w.job.ids = ids \ {x}
  <2>1. [run[r].job EXCEPT !.ids = ids \ {x}] \in
           [event : Events \cup {None}, ids : SUBSET Articles,
            absorbed : Events \cup {None}, cluster : Clusters \cup {None}]
    BY <1>2 DEF RunType
  <2>2. w = [run[r] EXCEPT !.job = [run[r].job EXCEPT !.ids = ids \ {x}]]
    BY <1>1, <1>2 DEF RunType
  <2>. HIDE DEF x
  <2>. QED  BY <1>2, <2>1, <2>2 DEF RunType
<1>6. \A f \in Events : Open(f)' <=> Open(f)  BY <1>2 DEF Open
<1>7. MergedReachesOpen'  BY <1>2, <1>6, ReachKept
<1>8. ~overlapped' => \A o \in Runs \ {r} : At(o, "off")  BY <1>2, OthersOff
<1>. HIDE DEF x, e, ids
<1>9. General(w)'
  <2>1. Known(w)  BY <1>2, <1>5 DEF Known
  <2>2. \A a \in Articles : Held(w, a) => Held(run[r], a)  BY <1>5 DEF Held, ids
  <2>. QED  BY <1>2, <1>4, <1>5, <2>1, <2>2 DEF General, e
<1>10. ASSUME ~overlapped' PROVE Single(w)'
  <2>1. Single(run[r])  BY <1>2, <1>3, <1>10
  <2>2. CandOpen(w)'
    BY <1>2, <1>5, <1>6, <2>1 DEF Single, CandOpen, Merging, RunType, e
  <2>3. Covers(w)'
    <3>. SUFFICES ASSUME Merging(w)
                  PROVE  /\ \A f \in w.cand : links'[f] \cap live \subseteq w.mem[f]
                         /\ links'[w.job.absorbed] \cap live \subseteq w.job.ids \cup links'[e]
                         /\ w.job.ids \subseteq w.mem[e]
      BY <1>2, <1>5 DEF Covers, Merging
    <3>1. /\ \A f \in run[r].cand : links[f] \cap live \subseteq run[r].mem[f]
          /\ links[run[r].job.absorbed] \cap live \subseteq ids \cup links[e]
          /\ ids \subseteq run[r].mem[e]
          /\ run[r].job.absorbed # e /\ run[r].job.absorbed \in Events
      BY <1>2, <1>5, <2>1 DEF Single, Covers, CandOpen, Merging, e, ids
    <3>2. \A f \in run[r].cand : links'[f] \cap live \subseteq run[r].mem[f]
      BY <1>2, <1>4, <3>1 DEF RunType
    <3>. QED  BY <1>4, <1>5, <3>1, <3>2
  <2>4. Exact(w)'
    <3>1. ASSUME run[r].gone = {}, NEW f \in run[r].cand, NEW a \in run[r].mem[f]
          PROVE  a \in links'[f] \/ (f = e /\ a \in ids \ {x})
      <4>1. f \in Events  BY <1>2 DEF RunType
      <4>2. a \in links[f] \/ (f = e /\ a \in ids)
        BY <2>1, <3>1 DEF Single, Exact, e, ids
      <4>. QED  BY <1>4, <4>1, <4>2
    <3>. QED  BY <1>5, <3>1 DEF Exact
  <2>5. Voices(w)'
    <3>1. links'[e] \cup (ids \ {x}) = links[e] \cup ids  BY <1>2, <1>4
    <3>2. run[r].gone = {} /\ run[r].job.absorbed = None => TwoOutlets(links[e] \cup ids)
      BY <1>2, <2>1 DEF Single, Voices, e, ids
    <3>. QED  BY <1>5, <3>1, <3>2 DEF Voices
  <2>. QED  BY <2>2, <2>3, <2>4, <2>5 DEF Single
<1>. QED
  BY <1>2, <1>4, <1>5, <1>7, <1>8, <1>9, <1>10, StepKeeps DEF IInv, TypeOK, bounds

LEMMA MarkMergedStep == ASSUME IInv, NEW r \in Runs, MarkMerged(r) PROVE IInv'
<1>. DEFINE a == run[r].job.absorbed
            s == run[r].job.event
<1>1. /\ run[r].pc = "mark" /\ ~At(r, "off") /\ run[r] \in RunType /\ General(run[r])
      /\ UNCHANGED <<links, live, unswept, overlapped, bounds>>
      /\ a \in Events /\ s \in Events /\ ev[a] # NoEvent /\ ev[a] \in EventRow
      /\ ev' = [ev EXCEPT ![a] = [@ EXCEPT !.status = "merged", !.claim = None, !.into = s]]
  BY RunIs, RowIs DEF MarkMerged, At, IInv, General, Known
<1>2. ~overlapped => Single(run[r])  BY <1>1, OthersOff
<1>3. PICK w : w = [run[r] EXCEPT !.pc = "merge", !.job = NoJob]  OBVIOUS
<1>4. /\ Set(r, w) /\ w \in RunType /\ w.pc = "merge" /\ w.job = NoJob
      /\ w.cand = run[r].cand /\ w.mem = run[r].mem /\ w.aids = run[r].aids
      /\ w.gone = run[r].gone
  BY <1>1, <1>3, OffIs DEF MarkMerged, RunType
<1>5. /\ ev'[a] = [ev[a] EXCEPT !.status = "merged", !.claim = None, !.into = s]
      /\ \A e \in Events \ {a} : ev'[e] = ev[e]
  BY <1>1 DEF IInv, TypeOK
<1>6. /\ ev'[a] \in EventRow /\ ev'[a].status = "merged" /\ ev'[a].claim = None
      /\ ev'[a] # NoEvent
  <2>. PICK old : old = ev[a]  OBVIOUS
  <2>. PICK t : t = s  OBVIOUS
  <2>. PICK new : new = ev'[a]  OBVIOUS
  <2>1. new = [old EXCEPT !.status = "merged", !.claim = None, !.into = t]
    BY <1>5
  <2>2. old \in EventRow /\ t \in Events  BY <1>1
  <2>3. /\ new.status = "merged" /\ new.claim = None /\ new.into = t
        /\ new.started = old.started
        /\ new = [status |-> "merged", claim |-> None, into |-> t, started |-> old.started]
    BY <2>1, <2>2 DEF EventRow
  <2>4. new \in EventRow /\ new # NoEvent  BY <2>2, <2>3 DEF EventRow, NoEvent
  <2>. QED  BY <2>3, <2>4
<1>7. /\ ev' \in [Events -> EventRow \cup {NoEvent}]
      /\ \A e \in Events : ev'[e].status = "merged" => ev'[e].claim = None
      /\ \A e \in Events : ev'[e] = NoEvent => ev[e] = NoEvent
  <2>1. ev' \in [Events -> EventRow \cup {NoEvent}]
    BY <1>1, <1>5, <1>6 DEF IInv, TypeOK
  <2>. QED  BY <1>5, <1>6, <2>1, RowIs DEF IInv
<1>8. General(w)'
  <2>1. Known(w)  BY <1>4 DEF Known
  <2>2. \A x \in Articles : Held(w, x) => Held(run[r], x)  BY <1>4, OffIs DEF Held
  <2>3. \A e \in Events :
          ev'[e] = NoEvent => e \notin w.cand /\ w.job.event # e /\ w.job.absorbed # e
    BY <1>1, <1>4, <1>7, OffIs, NoneAssumption DEF General
  <2>4. \A x \in Articles \ live : Held(w, x) => x \in w.gone \/ Linked(x)
    BY <1>1, <1>4, <2>2 DEF General
  <2>5. unswept \subseteq w.gone  BY <1>1, <1>4 DEF General
  <2>. QED  BY <1>1, <2>1, <2>3, <2>4, <2>5 DEF General, Linked
<1>9. ASSUME ~overlapped' PROVE Single(w)'
  <2>1. Single(run[r]) /\ Merging(run[r])
    BY <1>1, <1>2, <1>9, NoneAssumption DEF Merging
  <2>2. a \notin run[r].cand  BY <2>1 DEF Single, CandOpen
  <2>3. CandOpen(w)'
    BY <1>1, <1>4, <1>5, <2>1, <2>2, OffIs DEF Single, CandOpen, Open, Merging, RunType
  <2>4. Covers(w)'  BY <1>1, <1>4, <2>1 DEF Single, Covers, Merging
  <2>5. Exact(w)'  BY <1>1, <1>4, <2>1 DEF Single, Exact
  <2>6. Voices(w)'  BY <1>4 DEF Voices
  <2>. QED  BY <2>3, <2>4, <2>5, <2>6 DEF Single
<1>10. MergedReachesOpen'
  <2>1. ~overlapped => a # s /\ Open(a) /\ Open(s)
    BY <1>1, <1>2, NoneAssumption DEF Single, CandOpen, Merging
  <2>. QED  BY <1>1, <2>1, ReachExtended
<1>11. FreshEmpty'  BY <1>1, <1>7 DEF IInv, FreshEmpty
<1>12. ~overlapped' => \A o \in Runs \ {r} : At(o, "off")  BY <1>1, OthersOff
<1>13. \A x \in Articles : Linked(x) => Linked(x)'  BY <1>1 DEF Linked
<1>. QED
  BY <1>1, <1>4, <1>7, <1>8, <1>9, <1>10, <1>11, <1>12, <1>13, StepKeeps
  DEF IInv, TypeOK, bounds

LEMMA CrashStep == ASSUME IInv, NEW r \in Runs, Crash(r) PROVE IInv'
<1>1. /\ ~At(r, "off") /\ Set(r, Off) /\ faults' \in 0 .. MaxFaults
      /\ UNCHANGED <<ev, links, live, unswept, overlapped, manuals>>
  BY BoundAssumption DEF Crash, At, IInv, TypeOK
<1>2. /\ links' \in [Events -> SUBSET Articles] /\ FreshEmpty'
      /\ \A a \in Articles : Linked(a) => Linked(a)'
  BY <1>1 DEF IInv, TypeOK, FreshEmpty, Linked
<1>3. General(Off)' /\ Single(Off)'  BY OffGeneral, PTL
<1>4. MergedReachesOpen'
  <2>1. \A e \in Events : Open(e)' <=> Open(e)  BY <1>1 DEF Open
  <2>. QED  BY <1>1, <2>1, ReachKept
<1>5. ~overlapped' => \A o \in Runs \ {r} : At(o, "off")  BY <1>1, OthersOff
<1>. QED  BY <1>1, <1>2, <1>3, <1>4, <1>5, OffIs, StepKeeps DEF IInv, TypeOK

-----------------------------------------------------------------------------
(* The breaker and the prune.                                              *)

LEMMA SplitStep ==
  ASSUME IInv, NEW e \in Events, NEW core \in Groups(e), NEW spun \in Groups(e),
         Split(e, core, spun)
  PROVE  IInv'
<1>1. /\ run[Cron].pc = "break" /\ ~At(Cron, "off") /\ Cron \in Runs /\ Open(e)
      /\ run[Cron] \in RunType /\ General(run[Cron])
      /\ UNCHANGED <<live, unswept, overlapped, bounds>>
  BY RunIs DEF Split, At, IInv, Runs
<1>2. PICK n : n = NewRow  OBVIOUS
<1>3. n \in Events /\ ev[n] = NoEvent /\ n # e
  BY <1>1, <1>2, NewRowIs DEF Split, Open, NoEvent
<1>4. PICK new : new = [status |-> "open", claim |-> None, into |-> None, started |-> Late]
  OBVIOUS
<1>5. new \in EventRow /\ new.status = "open" /\ new # NoEvent
  BY <1>4 DEF EventRow, NoEvent, Late
<1>6. /\ ev' = [ev EXCEPT ![n] = new]
      /\ links' = [links EXCEPT ![e] = @ \ spun, ![n] = spun]
  BY <1>2, <1>4 DEF Split
<1>7. /\ ev'[n] = new /\ \A f \in Events \ {n} : ev'[f] = ev[f]
      /\ links'[n] = spun /\ links'[e] = links[e] \ spun
      /\ \A f \in Events \ {n, e} : links'[f] = links[f]
  BY <1>3, <1>6 DEF IInv, TypeOK
<1>8. spun \subseteq links[e] /\ spun \subseteq Articles
  BY RowIs DEF Groups, IInv
<1>9. /\ ev' \in [Events -> EventRow \cup {NoEvent}]
      /\ links' \in [Events -> SUBSET Articles]
  BY <1>5, <1>6, <1>8 DEF IInv, TypeOK
<1>10. /\ \A f \in Events : ev'[f].status = "merged" => ev'[f].claim = None
       /\ \A f \in Events : ev'[f] = NoEvent => ev[f] = NoEvent
  BY <1>3, <1>5, <1>7, RowIs DEF IInv
<1>11. ASSUME NEW a \in Articles, Linked(a) PROVE Linked(a)'
  <2>1. PICK f \in Events : a \in links[f]  BY <1>11 DEF Linked
  <2>2. f # n  BY <1>3, <2>1 DEF IInv, FreshEmpty
  <2>3. a \in links'[f] \/ a \in links'[n]  BY <1>7, <2>1, <2>2
  <2>. QED  BY <1>3, <2>3 DEF Linked
<1>12. FreshEmpty'  BY <1>3, <1>5, <1>7 DEF IInv, FreshEmpty
<1>13. PICK w : w = [run[Cron] EXCEPT !.kept = @ \cup {e}]  OBVIOUS
<1>14. /\ Set(Cron, w) /\ w \in RunType /\ w.pc = "break" /\ w.job = run[Cron].job
       /\ w.cand = run[Cron].cand /\ w.mem = run[Cron].mem /\ w.aids = run[Cron].aids
       /\ w.gone = run[Cron].gone
  BY <1>1, <1>13 DEF Split, RunType
<1>15. /\ w.cand = {} /\ w.job = NoJob /\ (\A f \in Events : w.mem[f] = {})
       /\ \A c \in Clusters : w.aids[c] = {}
  BY <1>1, <1>14 DEF General, Known
<1>16. General(w)'
  <2>1. Known(w)  BY <1>14, <1>15 DEF Known
  <2>2. \A a \in Articles : ~Held(w, a)  BY <1>15, OffIs DEF Held
  <2>3. unswept \subseteq w.gone  BY <1>1, <1>14 DEF General
  <2>. QED  BY <1>1, <1>15, <2>1, <2>2, <2>3, OffIs, NoneAssumption DEF General
<1>17. Single(w)'
  BY <1>14, <1>15 DEF Single, CandOpen, Covers, Exact, Voices, Merging
<1>18. MergedReachesOpen'
  <2>1. \A f \in Events : Open(f) => Open(f)'  BY <1>3, <1>5, <1>7 DEF Open
  <2>. QED  BY <1>1, <1>3, <1>5, <1>7, <2>1, ReachKept DEF NoEvent
<1>19. ~overlapped' => \A o \in Runs \ {Cron} : At(o, "off")  BY <1>1, OthersOff
<1>. QED
  BY <1>1, <1>9, <1>10, <1>11, <1>12, <1>14, <1>16, <1>17, <1>18, <1>19, StepKeeps
  DEF IInv, TypeOK, bounds

LEMMA MissedIs ==
  ASSUME TypeOK, NEW ids \in SUBSET Articles, Missed(ids), NEW r \in Runs
  PROVE  /\ run' \in [Runs -> RunType]
         /\ run'[r].pc = run[r].pc /\ run'[r].cand = run[r].cand /\ run'[r].mem = run[r].mem
         /\ run'[r].aids = run[r].aids /\ run'[r].job = run[r].job
         /\ run'[r].unread = run[r].unread
         /\ run[r].gone \subseteq run'[r].gone
         /\ At(r, "off") => run'[r] = run[r]
         /\ ~At(r, "off") => run'[r].gone = run[r].gone \cup ids
<1>1. \A o \in Runs : run[o] \in RunType  BY RunIs
<1>2. \A o \in Runs : [run[o] EXCEPT !.gone = @ \cup ids] \in RunType  BY <1>1 DEF RunType
<1>3. run' \in [Runs -> RunType]  BY <1>1, <1>2 DEF Missed
<1>4. run'[r] = IF At(r, "off") THEN run[r]
                ELSE [run[r] EXCEPT !.gone = run[r].gone \cup ids]
  BY DEF Missed
<1>. QED  BY <1>1, <1>3, <1>4 DEF RunType

\* Articles are pruned or links taken away: every run knows them for gone.
LEMMA MissedStep ==
  ASSUME IInv, NEW ids \in SUBSET Articles, Missed(ids),
         ev' = ev, links' \in [Events -> SUBSET Articles],
         \A e \in Events : links'[e] \subseteq links[e],
         live' \subseteq live, unswept' \subseteq Articles \ live',
         unswept' \subseteq unswept \cup ids,
         \A a \in Articles \ live' : a \in ids \/ (a \notin live /\ (Linked(a) => Linked(a)')),
         ~overlapped => \A r \in Runs :
            \/ run[r].pc \in {"off", "break"}
            \/ /\ ids = {} => links' = links
               /\ \A e \in Events : links[e] \cap live' \subseteq links'[e],
         overlapped' = overlapped,
         manuals' \in 0 .. MaxManual, faults' \in 0 .. MaxFaults
  PROVE  IInv'
<1>1. \A r \in Runs : /\ run'[r].pc = run[r].pc /\ run'[r].cand = run[r].cand
                      /\ run'[r].mem = run[r].mem /\ run'[r].aids = run[r].aids
                      /\ run'[r].job = run[r].job /\ run'[r].unread = run[r].unread
                      /\ run[r].gone \subseteq run'[r].gone
                      /\ At(r, "off") => run'[r] = run[r]
                      /\ ~At(r, "off") => run'[r].gone = run[r].gone \cup ids
  <2>. TAKE r \in Runs
  <2>. QED  BY MissedIs DEF IInv
<1>2. run' \in [Runs -> RunType]
  <2>1. Cron \in Runs  BY DEF Runs
  <2>. QED  BY <2>1, MissedIs DEF IInv
<1>3. TypeOK'  BY <1>2 DEF IInv, TypeOK, RunType
<1>4. FreshEmpty'  BY DEF IInv, FreshEmpty
<1>5. \A e \in Events : Open(e)' <=> Open(e)  BY DEF Open
<1>6. MergedReachesOpen'  BY <1>5, ReachKept
<1>7. ASSUME NEW r \in Runs PROVE General(run[r])'
  <2>1. PICK v : v = run[r]  OBVIOUS
  <2>2. PICK w : w = run'[r]  OBVIOUS
  <2>3. General(v)  BY <2>1 DEF IInv
  <2>4. /\ w.pc = v.pc /\ w.cand = v.cand /\ w.mem = v.mem /\ w.aids = v.aids
        /\ w.job = v.job /\ v.gone \subseteq w.gone /\ (v.pc = "off" => w = v)
        /\ (v.pc # "off" => ids \subseteq w.gone)
    BY <1>1, <2>1, <2>2 DEF At
  <2>5. Known(w)  BY <2>3, <2>4 DEF General, Known
  <2>6. \A a \in Articles : Held(w, a) <=> Held(v, a)  BY <2>4 DEF Held
  <2>7. v.pc # "off" => unswept' \subseteq w.gone  BY <2>3, <2>4 DEF General
  <2>8. ASSUME NEW a \in Articles \ live', Held(w, a)
        PROVE  a \in w.gone \/ Linked(a)'
    <3>1. v.pc # "off"  BY <2>3, <2>6, <2>8, OffIs DEF General, Known, Held
    <3>2. CASE a \in ids  BY <2>4, <3>1, <3>2
    <3>3. CASE a \notin live /\ (Linked(a) => Linked(a)')
      BY <2>3, <2>4, <2>6, <2>8, <3>3 DEF General
    <3>. QED  BY <3>2, <3>3
  <2>9. General(w)'  BY <2>3, <2>4, <2>5, <2>7, <2>8 DEF General
  <2>. QED  BY <2>2, <2>9
<1>8. Alone'
  <2>. SUFFICES ASSUME ~overlapped'
                PROVE  /\ \A x, o \in Runs : x # o => At(x, "off")' \/ At(o, "off")'
                       /\ \A o \in Runs : Single(run[o])'
    BY DEF Alone
  <2>1. \A x, o \in Runs : x # o => At(x, "off")' \/ At(o, "off")'
    BY <1>1 DEF IInv, Alone, At
  <2>2. ASSUME NEW r \in Runs PROVE Single(run[r])'
    <3>1. PICK v : v = run[r]  OBVIOUS
    <3>2. PICK w : w = run'[r]  OBVIOUS
    <3>3. Single(v) /\ Known(v) /\ v \in RunType
      BY <3>1, RunIs DEF IInv, Alone, General
    <3>4. /\ w.pc = v.pc /\ w.cand = v.cand /\ w.mem = v.mem /\ w.aids = v.aids
          /\ w.job = v.job /\ v.gone \subseteq w.gone /\ w.unread = v.unread
          /\ (v.pc # "off" => w.gone = v.gone \cup ids)
      BY <1>1, <3>1, <3>2 DEF At
    <3>5. CASE v.pc \in {"off", "break"}
      <4>1. v.cand = {}  BY <3>3, <3>5, OffIs DEF Known
      <4>. HIDE <3>3
      <4>2. Single(w)'
        BY <3>4, <3>5, <4>1 DEF Single, CandOpen, Covers, Exact, Voices, Merging
      <4>. QED  BY <3>2, <4>2
    <3>6. CASE v.pc \notin {"off", "break"}
      <4>1. /\ ids = {} => links' = links
            /\ \A e \in Events : links[e] \cap live' \subseteq links'[e]
        BY <3>1, <3>6
      <4>2. CandOpen(w)'
        BY <1>5, <3>3, <3>4 DEF Single, CandOpen, Merging, RunType
      <4>3. w.gone = {} => v.gone = {} /\ links' = links
        BY <3>4, <3>6, <4>1
      <4>4. Covers(w)'
        <5>1. \A e \in Events : links'[e] \cap live' \subseteq links[e] \cap live
          OBVIOUS
        <5>2. /\ w.pc = "load" =>
                   \A e \in w.cand \ w.unread : links'[e] \cap live' \subseteq w.mem[e]
              /\ w.pc = "merge" \/ Merging(w) =>
                   \A e \in w.cand : links'[e] \cap live' \subseteq w.mem[e]
          BY <3>3, <3>4, <5>1 DEF Single, Covers, Merging, RunType
        <5>3. w.pc = "link" /\ Merging(w) =>
                /\ links'[w.job.absorbed] \cap live' \subseteq w.job.ids \cup links'[w.job.event]
                /\ w.job.ids \subseteq w.mem[w.job.event]
          BY <3>3, <3>4, <4>1, <5>1 DEF Single, Covers, CandOpen, Merging, Known
        <5>4. w.pc = "mark" => links'[w.job.absorbed] \cap live' \subseteq links'[w.job.event]
          BY <3>3, <3>4, <4>1, <5>1 DEF Single, Covers, Known
        <5>. QED  BY <5>2, <5>3, <5>4 DEF Covers, Merging
      <4>5. Exact(w)'  BY <3>3, <3>4, <4>3 DEF Single, Exact
      <4>6. Voices(w)'  BY <3>3, <3>4, <4>3 DEF Single, Voices
      <4>7. Single(w)'  BY <4>2, <4>4, <4>5, <4>6 DEF Single
      <4>. QED  BY <3>2, <4>7
    <3>. QED  BY <3>5, <3>6
  <2>. QED  BY <2>1, <2>2
<1>. QED  BY <1>3, <1>4, <1>6, <1>7, <1>8 DEF IInv

LEMMA DetachStep ==
  ASSUME IInv, NEW e \in Events, NEW drop, Detach(e, drop)
  PROVE  IInv'
<1>1. /\ run[Cron].pc = "break" /\ ~At(Cron, "off") /\ Cron \in Runs
      /\ drop \subseteq links[e] /\ drop \subseteq Articles
      /\ links' = [links EXCEPT ![e] = @ \ drop] /\ Missed(drop \ live)
      /\ UNCHANGED <<ev, live, unswept, overlapped, bounds>>
  BY RowIs DEF Detach, At, IInv, Runs
<1>2. /\ links'[e] = links[e] \ drop /\ \A f \in Events \ {e} : links'[f] = links[f]
      /\ links' \in [Events -> SUBSET Articles]
  BY <1>1 DEF IInv, TypeOK
<1>3. \A f \in Events : links'[f] \subseteq links[f]  BY <1>2
<1>4. \A a \in Articles \ live' :
        a \in drop \ live \/ (a \notin live /\ (Linked(a) => Linked(a)'))
  BY <1>1, <1>2 DEF Linked
<1>5. ~overlapped => \A r \in Runs : run[r].pc \in {"off", "break"}
  BY <1>1, OthersOff DEF At
<1>6. /\ unswept' \subseteq Articles \ live' /\ unswept' \subseteq unswept \cup (drop \ live)
      /\ live' \subseteq live /\ drop \ live \in SUBSET Articles
      /\ manuals' \in 0 .. MaxManual /\ faults' \in 0 .. MaxFaults
  BY <1>1 DEF IInv, TypeOK, bounds
<1>. QED  BY <1>1, <1>2, <1>3, <1>4, <1>5, <1>6, MissedStep

LEMMA PruneStep == ASSUME IInv, NEW a \in Articles, Prune(a) PROVE IInv'
<1>1. /\ Missed({a}) /\ live' = live \ {a} /\ unswept' = unswept \cup {a}
      /\ UNCHANGED <<ev, links, overlapped, manuals>> /\ faults' \in 0 .. MaxFaults
  BY BoundAssumption DEF Prune, IInv, TypeOK
<1>2. \A x \in Articles \ live' : x \in {a} \/ (x \notin live /\ (Linked(x) => Linked(x)'))
  BY <1>1 DEF Linked
<1>3. \A e \in Events : links[e] \cap live' \subseteq links'[e]
  BY <1>1
<1>4. /\ unswept' \subseteq Articles \ live' /\ live' \subseteq live
      /\ links' \in [Events -> SUBSET Articles] /\ manuals' \in 0 .. MaxManual
      /\ \A e \in Events : links'[e] \subseteq links[e]
  BY <1>1 DEF IInv, TypeOK
<1>. QED  BY <1>1, <1>2, <1>3, <1>4, MissedStep

LEMMA SweepStep == ASSUME IInv, Sweep PROVE IInv'
<1>. DEFINE ids == UNION {links[e] \ live : e \in Events}
<1>1. /\ Missed(ids) /\ unswept' = {} /\ links' = [e \in Events |-> links[e] \cap live]
      /\ UNCHANGED <<ev, live, overlapped, bounds>>
  BY DEF Sweep
<1>2. ids \in SUBSET Articles  BY RowIs DEF IInv
<1>3. \A a \in Articles \ live : a \in ids \/ ~Linked(a)  BY DEF Linked
<1>4. ids = {} => links' = links
  <2>1. ids = {} => \A e \in Events : links[e] \cap live = links[e]  OBVIOUS
  <2>2. links = [e \in Events |-> links[e]]  BY DEF IInv, TypeOK
  <2>. QED  BY <1>1, <2>1, <2>2
<1>5. \A e, f \in Events : links[e] \cap live \subseteq links[f]
                           => links'[e] \cap live' \subseteq links'[f]
  BY <1>1
<1>6. /\ unswept' \subseteq Articles \ live' /\ live' \subseteq live
      /\ unswept' \subseteq unswept \cup ids
      /\ links' \in [Events -> SUBSET Articles]
      /\ manuals' \in 0 .. MaxManual /\ faults' \in 0 .. MaxFaults
      /\ \A e \in Events : links'[e] \subseteq links[e]
  BY <1>1 DEF IInv, TypeOK, bounds
<1>7. \A a \in Articles \ live' : a \in ids \/ (a \notin live /\ (Linked(a) => Linked(a)'))
  BY <1>1, <1>3
<1>. HIDE DEF ids
<1>. QED  BY <1>1, <1>2, <1>4, <1>5, <1>6, <1>7, MissedStep

LEMMA ApplyStep == ASSUME IInv, NEW r \in Runs, NEW c \in Clusters, Apply(r, c) PROVE IInv'
<1>1. CASE \E e \in Events : Match(r, c, e) \/ \E d \in Clusters \cup {None} : Absorb(r, c, e, d)
  <2>1. PICK e \in Events : Match(r, c, e) \/ \E d \in Clusters \cup {None} : Absorb(r, c, e, d)
    BY <1>1
  <2>2. CASE Match(r, c, e)  BY <2>2, MatchStep
  <2>3. CASE \E d \in Clusters \cup {None} : Absorb(r, c, e, d)  BY <2>3, AbsorbStep
  <2>. QED  BY <2>1, <2>2, <2>3
<1>2. CASE Hold(r, c)  BY <1>2, HoldStep
<1>3. CASE Adopt(r, c)  BY <1>3, AdoptStep
<1>4. CASE Create(r, c)  BY <1>4, CreateStep
<1>. QED  BY <1>1, <1>2, <1>3, <1>4 DEF Apply

LEMMA PromoterStep == ASSUME IInv, NEW r \in Runs, Promoter(r) PROVE IInv'
<1>1. CASE \E s, a \in Events : Merge(r, s, a)  BY <1>1, MergeStep
<1>2. CASE \E c \in Clusters : LoadCluster(r, c) \/ Apply(r, c)
  BY <1>2, LoadClusterStep, ApplyStep
<1>3. CASE Begin(r)  BY <1>3, BeginStep
<1>4. CASE Loaded(r)  BY <1>4, LoadedStep
<1>5. CASE MarkMerged(r)  BY <1>5, MarkMergedStep
<1>6. CASE Insert(r)  BY <1>6, InsertStep
<1>7. CASE Link(r)  BY <1>7, LinkStep
<1>8. CASE Applied(r)  BY <1>8, AppliedStep
<1>9. CASE \E e \in Events : ReadEvent(r, e)  BY <1>9, ReadEventStep
<1>. QED  BY <1>1, <1>2, <1>3, <1>4, <1>5, <1>6, <1>7, <1>8, <1>9 DEF Promoter

LEMMA BreakerStep == ASSUME IInv, Breaker PROVE IInv'
<1>1. CASE Broken  BY <1>1, BrokenStep
<1>2. CASE \E e \in Events : \E core, spun \in Groups(e) : Split(e, core, spun)
  BY <1>2, SplitStep
<1>3. CASE \E e \in Events : \E drop \in SUBSET links[e] : Detach(e, drop)
  BY <1>3, DetachStep
<1>. QED  BY <1>1, <1>2, <1>3 DEF Breaker

LEMMA StutterStep == ASSUME IInv, UNCHANGED vars PROVE IInv'
<1>1. /\ UNCHANGED <<ev, links, live, unswept, run, overlapped, manuals, faults>>
  BY DEF vars, bounds
<1>2. TypeOK'  BY <1>1 DEF IInv, TypeOK
<1>3. FreshEmpty'  BY <1>1 DEF IInv, FreshEmpty
<1>4. \A r \in Runs : General(run[r])'  BY <1>1 DEF IInv, General, Linked
<1>5. \A r \in Runs : Single(run[r])' <=> Single(run[r])
  BY <1>1 DEF Single, CandOpen, Covers, Exact, Voices, Open
<1>6. Alone'  BY <1>1, <1>5 DEF IInv, Alone, At
<1>7. MergedReachesOpen'
  <2>1. \A e \in Events : Open(e) => Open(e)'  BY <1>1 DEF Open
  <2>. QED  BY <1>1, <2>1, ReachKept
<1>. QED  BY <1>2, <1>3, <1>4, <1>6, <1>7 DEF IInv

LEMMA NextStep == IInv /\ [Next]_vars => IInv'
<1>. SUFFICES ASSUME IInv, [Next]_vars PROVE IInv'  OBVIOUS
<1>1. CASE \E r \in Runs : Promoter(r) \/ Crash(r)  BY <1>1, PromoterStep, CrashStep
<1>2. CASE Breaker  BY <1>2, BreakerStep
<1>3. CASE Sweep  BY <1>3, SweepStep
<1>4. CASE \E a \in Articles : Prune(a)  BY <1>4, PruneStep
<1>5. CASE UNCHANGED vars  BY <1>5, StutterStep
<1>. QED  BY <1>1, <1>2, <1>3, <1>4, <1>5 DEF Next

LEMMA Inductive == Spec => []IInv
  BY InitHolds, NextStep, PTL DEF Spec

(* In every reachable state the tables and the runs have their types, and  *)
(* while the promoter runs one at a time the redirects of a merged event   *)
(* lead to an open one.                                                    *)
THEOREM GraphInvHolds == Spec => []GraphInv
<1>1. IInv => GraphInv  BY DEF IInv, GraphInv
<1>. QED  BY <1>1, Inductive, PTL

-----------------------------------------------------------------------------
(* What a step does to the articles.                                       *)

\* Readers find them where they were, unless pruned.
Stays == \A e \in Events : (Open(e) => Open(e)') /\ links[e] \cap live' \subseteq links'[e]
\* A new link is one that a run holds.
FromRuns ==
    \A a \in Articles : Linked(a)' => Linked(a) \/ (live' = live /\ \E r \in Runs : Held(run[r], a))

LEMMA RowsAlone ==
  ASSUME UNCHANGED links, live' \subseteq live, \A e \in Events : Open(e) => Open(e)'
  PROVE  Stays /\ FromRuns
  BY DEF Stays, FromRuns, Linked

LEMMA ApplyMoves ==
  ASSUME IInv, NEW r \in Runs, NEW c \in Clusters, Apply(r, c) PROVE Stays /\ FromRuns
<1>1. CASE Hold(r, c) \/ Adopt(r, c)
  BY <1>1, RowsAlone DEF Hold, Adopt, Open
<1>2. CASE \E e \in Events : \E d \in Clusters \cup {None} : Absorb(r, c, e, d)
  BY <1>2, RowsAlone DEF Absorb, Open
<1>3. CASE \E e \in Events : Match(r, c, e)
  <2>1. PICK e \in Events : Match(r, c, e)  BY <1>3
  <2>2. UNCHANGED <<links, live>> /\ ev' \in {ev, [ev EXCEPT ![e].into = None]}
    BY <2>1 DEF Match
  <2>3. ASSUME NEW f \in Events, Open(f) PROVE Open(f)'
    <3>1. ev[f] \in EventRow  BY <2>3, RowIs DEF IInv
    <3>2. ev'[f] = ev[f] \/ ev'[f] = [ev[f] EXCEPT !.into = None]
      BY <2>2 DEF IInv, TypeOK
    <3>. QED  BY <2>3, <3>1, <3>2 DEF Open, EventRow
  <2>. QED  BY <2>2, <2>3, RowsAlone
<1>4. CASE Create(r, c)
  <2>1. UNCHANGED <<links, live>> /\ (ev' = ev \/ ev' = Released(c))
    BY <1>4 DEF Create
  <2>2. ASSUME NEW f \in Events, Open(f) PROVE Open(f)'
    <3>1. ev[f] \in EventRow  BY <2>2, RowIs DEF IInv
    <3>2. ev'[f] = ev[f] \/ ev'[f] = [ev[f] EXCEPT !.claim = None]
      BY <2>1 DEF Released
    <3>. QED  BY <2>2, <3>1, <3>2 DEF Open, EventRow
  <2>. QED  BY <2>1, <2>2, RowsAlone
<1>. QED  BY <1>1, <1>2, <1>3, <1>4 DEF Apply

LEMMA LinkMoves ==
  ASSUME IInv, NEW r \in Runs, Link(r) PROVE Stays /\ FromRuns
<1>. DEFINE e == run[r].job.event
            x == FirstOf(run[r].job.ids)
<1>1. UNCHANGED <<ev, live>> /\ run[r].pc = "link"  BY DEF Link, At
<1>2. CASE links' = links  BY <1>1, <1>2, RowsAlone DEF Open
<1>3. CASE links' # links
  <2>1. links' = [links EXCEPT ![e] = @ \cup {x}] /\ x \in run[r].job.ids
    BY <1>3 DEF Link, FirstOf
  <2>2. e \in Events  BY <1>1 DEF IInv, General, Known
  <2>. HIDE DEF x
  <2>3. /\ links'[e] = links[e] \cup {x}
        /\ \A f \in Events \ {e} : links'[f] = links[f]
    BY <2>1, <2>2 DEF IInv, TypeOK
  <2>4. Held(run[r], x)  BY <2>1 DEF Held
  <2>. HIDE DEF e
  <2>5. FromRuns  BY <1>1, <2>2, <2>3, <2>4 DEF FromRuns, Linked
  <2>6. Stays  BY <1>1, <2>2, <2>3 DEF Stays, Open
  <2>. QED  BY <2>5, <2>6
<1>. QED  BY <1>2, <1>3

\* The breaker's two ways to move links.
Splits == \E e \in Events : \E core, spun \in Groups(e) : Split(e, core, spun)
Detaches == \E e \in Events : \E drop \in SUBSET links[e] : Detach(e, drop)

LEMMA StepMoves ==
  ASSUME IInv, [Next]_vars
  PROVE  /\ FromRuns
         /\ Stays \/ (\E r \in Runs : MarkMerged(r)) \/ Splits \/ Detaches
<1>1. CASE \E r \in Runs : Promoter(r) \/ Crash(r)
  <2>1. PICK r \in Runs : Promoter(r) \/ Crash(r)  BY <1>1
  <2>2. CASE Link(r)  BY <2>2, LinkMoves
  <2>3. CASE \E c \in Clusters : Apply(r, c)  BY <2>3, ApplyMoves
  <2>4. CASE \/ Begin(r) \/ Loaded(r) \/ Applied(r) \/ Crash(r)
             \/ (\E e \in Events : ReadEvent(r, e)) \/ (\E c \in Clusters : LoadCluster(r, c))
             \/ \E s, a \in Events : Merge(r, s, a)
    <3>1. UNCHANGED <<ev, links, live>>
      BY <2>4 DEF Begin, Loaded, Applied, Crash, ReadEvent, LoadCluster, Merge
    <3>. QED  BY <3>1, RowsAlone DEF Open
  <2>5. CASE Insert(r)
    <3>1. UNCHANGED <<links, live>>  BY <2>5 DEF Insert
    <3>2. ASSUME NEW f \in Events, Open(f) PROVE Open(f)'
      <4>1. ev'[f] = ev[f] \/ (f = NewRow /\ Fresh # {})
        BY <2>5 DEF Insert, IInv, TypeOK
      <4>. QED  BY <3>2, <4>1, NewRowIs DEF Open, NoEvent
    <3>. QED  BY <3>1, <3>2, RowsAlone
  <2>6. CASE MarkMerged(r)
    <3>1. UNCHANGED links  BY <2>6 DEF MarkMerged
    <3>. QED  BY <2>1, <2>6, <3>1 DEF FromRuns, Linked
  <2>. QED  BY <2>1, <2>2, <2>3, <2>4, <2>5, <2>6 DEF Promoter
<1>2. CASE Breaker
  <2>1. CASE Broken
    <3>1. UNCHANGED <<ev, links, live>>  BY <2>1 DEF Broken
    <3>. QED  BY <3>1, RowsAlone DEF Open
  <2>2. CASE Splits
    <3>1. PICK e \in Events : \E core, spun \in Groups(e) : Split(e, core, spun)
      BY <2>2 DEF Splits
    <3>2. PICK spun \in Groups(e) : links' = [links EXCEPT ![e] = @ \ spun, ![NewRow] = spun]
      BY <3>1 DEF Split
    <3>3. \A f \in Events : links'[f] \subseteq links[f] \cup links[e]
      BY <3>2 DEF IInv, TypeOK, Groups
    <3>. QED  BY <2>2, <3>3 DEF FromRuns, Linked
  <2>3. CASE Detaches
    <3>1. PICK e \in Events : \E drop \in SUBSET links[e] : Detach(e, drop)
      BY <2>3 DEF Detaches
    <3>2. PICK drop : links' = [links EXCEPT ![e] = @ \ drop]  BY <3>1 DEF Detach
    <3>3. \A f \in Events : links'[f] \subseteq links[f]  BY <3>2 DEF IInv, TypeOK
    <3>. QED  BY <2>3, <3>3 DEF FromRuns, Linked
  <2>. QED  BY <1>2, <2>1, <2>2, <2>3 DEF Breaker, Splits, Detaches
<1>3. CASE Sweep
  <2>1. ev' = ev /\ live' = live /\ \A e \in Events : links'[e] = links[e] \cap live
    BY <1>3 DEF Sweep
  <2>. QED  BY <2>1 DEF Stays, FromRuns, Linked, Open
<1>4. CASE \E a \in Articles : Prune(a)
  <2>1. UNCHANGED <<ev, links>> /\ live' \subseteq live  BY <1>4 DEF Prune
  <2>. QED  BY <2>1, RowsAlone DEF Open
<1>5. CASE UNCHANGED vars
  <2>1. UNCHANGED <<ev, links, live>>  BY <1>5 DEF vars
  <2>. QED  BY <2>1, RowsAlone DEF Open
<1>. QED  BY <1>1, <1>2, <1>3, <1>4, <1>5 DEF Next

(* No article that readers see in an open event is lost to them while it   *)
(* lives and the breaker does not detach it: whoever merges, splits, dies  *)
(* or prunes, as long as the promoter runs one at a time.                  *)
THEOREM NoStoryLostHolds == Spec => NoStoryLost
<1>. DEFINE Found(a) == \/ InOpen(a)' \/ overlapped'
                        \/ \E e \in Events : a \in links[e] /\ Detach(e, links[e] \ links'[e])
<1>1. ASSUME IInv, [Next]_vars, NEW a \in live', InOpen(a) PROVE Found(a)
  <2>1. PICK e \in Events : Open(e) /\ a \in links[e]  BY <1>1 DEF InOpen
  <2>2. CASE Stays  BY <1>1, <2>1, <2>2 DEF Stays, InOpen
  <2>3. CASE \E r \in Runs : MarkMerged(r)
    <3>1. PICK r \in Runs : MarkMerged(r)  BY <2>3
    <3>. DEFINE x == run[r].job.absorbed
                s == run[r].job.event
    <3>2. /\ run[r].pc = "mark" /\ ~At(r, "off") /\ run[r] \in RunType /\ General(run[r])
          /\ UNCHANGED <<links, live, overlapped>> /\ x \in Events /\ s \in Events
          /\ ev' = [ev EXCEPT ![x] = [@ EXCEPT !.status = "merged", !.claim = None, !.into = s]]
      BY <1>1, <3>1, RunIs DEF MarkMerged, At, IInv, General, Known
    <3>3. \A f \in Events \ {x} : ev'[f] = ev[f]  BY <1>1, <3>2 DEF IInv, TypeOK
    <3>4. CASE overlapped  BY <3>2, <3>4
    <3>5. CASE ~overlapped
      <4>1. Single(run[r]) /\ Merging(run[r])
        BY <1>1, <3>2, <3>5, OthersOff, NoneAssumption DEF Merging
      <4>2. /\ links[x] \cap live \subseteq links[s] /\ x # s /\ Open(s)
        BY <3>2, <4>1 DEF Single, Covers, CandOpen
      <4>3. CASE e = x  BY <1>1, <2>1, <3>2, <3>3, <4>2, <4>3 DEF InOpen, Open
      <4>4. CASE e # x  BY <2>1, <3>2, <3>3, <4>4 DEF InOpen, Open
      <4>. QED  BY <4>3, <4>4
    <3>. QED  BY <3>4, <3>5
  <2>4. CASE Splits
    <3>. PICK f \in Events : \E core, spun \in Groups(f) : Split(f, core, spun)
      BY <2>4 DEF Splits
    <3>1. PICK core \in Groups(f), spun \in Groups(f) : Split(f, core, spun)
      OBVIOUS
    <3>2. PICK n : n = NewRow  OBVIOUS
    <3>3. /\ n \in Events /\ ev[n] = NoEvent /\ n # f /\ n # e
          /\ links' = [links EXCEPT ![f] = @ \ spun, ![n] = spun]
          /\ ev' = [ev EXCEPT ![n] = [status |-> "open", claim |-> None, into |-> None,
                                      started |-> Late]]
      <4>1. Open(f) /\ Fresh # {}  BY <3>1 DEF Split
      <4>2. n \in Events /\ ev[n] = NoEvent  BY <3>2, <4>1, NewRowIs
      <4>3. n # f /\ n # e  BY <2>1, <4>1, <4>2 DEF Open, NoEvent
      <4>. QED  BY <3>1, <3>2, <4>2, <4>3 DEF Split
    <3>4. Open(n)' /\ Open(e)'  BY <1>1, <2>1, <3>3 DEF Open, IInv, TypeOK
    <3>5. a \in links'[n] \/ a \in links'[e]
      BY <1>1, <2>1, <3>3 DEF IInv, TypeOK
    <3>. QED  BY <2>1, <3>3, <3>4, <3>5 DEF InOpen
  <2>5. CASE Detaches
    <3>. PICK f \in Events : \E drop \in SUBSET links[f] : Detach(f, drop)
      BY <2>5 DEF Detaches
    <3>1. PICK drop \in SUBSET links[f] : Detach(f, drop)
      OBVIOUS
    <3>2. ev' = ev /\ links' = [links EXCEPT ![f] = @ \ drop]  BY <3>1 DEF Detach
    <3>3. links'[f] = links[f] \ drop /\ \A g \in Events \ {f} : links'[g] = links[g]
      BY <1>1, <3>2 DEF IInv, TypeOK
    <3>4. links[f] \ links'[f] = drop  BY <3>1, <3>3
    <3>5. CASE e = f /\ a \in drop  BY <2>1, <3>1, <3>4, <3>5
    <3>6. CASE ~(e = f /\ a \in drop)  BY <2>1, <3>2, <3>3, <3>6 DEF InOpen, Open
    <3>. QED  BY <3>5, <3>6
  <2>. QED  BY <1>1, <2>2, <2>3, <2>4, <2>5, StepMoves
<1>2. IInv /\ [Next]_vars => [\A a \in live' : InOpen(a) => Found(a)]_vars  BY <1>1
<1>. QED  BY <1>2, Inductive, PTL DEF Spec, NoStoryLost

(* An event grows to two outlets at least, by what the rows say, although  *)
(* the run judged by its memory: unless two ran at once or links were      *)
(* taken away meanwhile.                                                   *)
THEOREM TwoVoicesHolds == Spec => TwoVoices
<1>. DEFINE Voiced(r) == Link(r) /\ run[r].job.ids = {} /\ run[r].job.absorbed = None
                         /\ run[r].gone = {} /\ ~overlapped
                         => Cardinality({Outlet[a] : a \in links'[run[r].job.event]}) >= 2
<1>1. ASSUME IInv, NEW r \in Runs PROVE Voiced(r)
  <2>. SUFFICES ASSUME Link(r), run[r].job.ids = {}, run[r].job.absorbed = None,
                       run[r].gone = {}, ~overlapped
                PROVE  TwoOutlets(links'[run[r].job.event])
    BY DEF TwoOutlets
  <2>1. /\ run[r].pc = "link" /\ ~At(r, "off") /\ run[r].job.event \in Events
        /\ links' = links
    BY <1>1 DEF Link, At, IInv, General, Known
  <2>2. Single(run[r])  BY <1>1, <2>1, OthersOff
  <2>3. TwoOutlets(links[run[r].job.event] \cup run[r].job.ids)
    BY <2>1, <2>2 DEF Single, Voices
  <2>4. links'[run[r].job.event] = links[run[r].job.event] \cup run[r].job.ids
    BY <2>1
  <2>. QED  BY <2>3, <2>4
<1>2. IInv /\ [Next]_vars => [\A r \in Runs : Voiced(r)]_vars  BY <1>1
<1>. QED  BY <1>2, Inductive, PTL DEF Spec, TwoVoices

(* A link to an article that was pruned comes back only from a run that    *)
(* was under way when it went.                                             *)
THEOREM NoDanglingRebornHolds == Spec => NoDanglingReborn
<1>. DEFINE Excused(a) == Linked(a)' => Linked(a) \/ \E r \in Runs : a \in run[r].gone
<1>1. ASSUME IInv, [Next]_vars, NEW a \in Articles \ live' PROVE Excused(a)
  <2>. SUFFICES ASSUME Linked(a)', ~Linked(a) PROVE \E r \in Runs : a \in run[r].gone
    OBVIOUS
  <2>1. PICK r \in Runs : live' = live /\ Held(run[r], a)
    BY <1>1, StepMoves DEF FromRuns
  <2>2. General(run[r])  BY <1>1 DEF IInv
  <2>. QED  BY <1>1, <2>1, <2>2 DEF General
<1>2. IInv /\ [Next]_vars => [\A a \in Articles \ live' : Excused(a)]_vars  BY <1>1
<1>. QED  BY <1>2, Inductive, PTL DEF Spec, NoDanglingReborn

-----------------------------------------------------------------------------
(* Without the refresh.                                                    *)

\* The run of the web process never begins, and the worker's never meets it.
Solo == ~overlapped /\ At(Manual, "off")

LEMMA SoloStep == ASSUME MaxManual = 0, IInv, Solo, [Next]_vars PROVE Solo'
<1>1. manuals = 0  BY DEF IInv, TypeOK
<1>2. run \in [Runs -> RunType] /\ Cron # Manual /\ Manual \in Runs
  BY BoundAssumption, NoneAssumption DEF IInv, TypeOK, RunType, Runs
<1>3. ASSUME NEW w, Set(Cron, w), ~overlapped' PROVE Solo'
  BY <1>2, <1>3 DEF Solo, Set, At
<1>4. ~Promoter(Manual) /\ ~Crash(Manual)
  <2>1. ~Begin(Manual)  BY <1>1 DEF Begin
  <2>2. /\ ~Loaded(Manual) /\ (\A e \in Events : ~ReadEvent(Manual, e))
        /\ (\A c \in Clusters : ~LoadCluster(Manual, c)) /\ ~MarkMerged(Manual) /\ ~Insert(Manual) /\ ~Link(Manual)
        /\ ~Applied(Manual) /\ ~Crash(Manual)
        /\ \A s, a \in Events : ~Merge(Manual, s, a)
    BY DEF Solo, At, Loaded, ReadEvent, LoadCluster, MarkMerged, Insert, Link, Applied, Crash, Merge
  <2>3. \A c \in Clusters : ~Apply(Manual, c)
    BY DEF Solo, At, Apply, Hold, Adopt, Create, Match, Absorb, Undecided, Turn
  <2>. QED  BY <2>1, <2>2, <2>3 DEF Promoter
<1>5. CASE Begin(Cron)
  <2>1. ~overlapped'  BY <1>2, <1>5 DEF Begin, Solo, Runs
  <2>. QED  BY <1>3, <1>5, <2>1 DEF Begin
<1>6. CASE \/ Loaded(Cron) \/ (\E e \in Events : ReadEvent(Cron, e))
           \/ (\E c \in Clusters : LoadCluster(Cron, c)) \/ MarkMerged(Cron) \/ Insert(Cron) \/ Link(Cron)
           \/ Applied(Cron) \/ Crash(Cron) \/ \E s, a \in Events : Merge(Cron, s, a)
  <2>1. ~overlapped'
    BY <1>6 DEF Solo, Loaded, ReadEvent, LoadCluster, MarkMerged, Insert, Link, Applied, Crash, Merge
  <2>2. \E w : Set(Cron, w)
    BY <1>6 DEF Loaded, ReadEvent, LoadCluster, MarkMerged, Insert, Link, Applied, Crash, Merge
  <2>. QED  BY <1>3, <2>1, <2>2
<1>7. CASE \E c \in Clusters : Apply(Cron, c)
  <2>1. PICK c \in Clusters : Apply(Cron, c)  BY <1>7
  <2>2. ~overlapped'
    BY <2>1 DEF Solo, Apply, Hold, Adopt, Create, Match, Absorb
  <2>3. CASE Hold(Cron, c) \/ Adopt(Cron, c) \/ Create(Cron, c)
    <3>1. \E w : Set(Cron, w)  BY <2>3 DEF Hold, Adopt, Create, Done
    <3>. QED  BY <1>3, <2>2, <3>1
  <2>4. CASE \E e \in Events : Match(Cron, c, e)
    <3>1. \E w : Set(Cron, w)  BY <2>4 DEF Match
    <3>. QED  BY <1>3, <2>2, <3>1
  <2>5. CASE \E e \in Events : \E d \in Clusters \cup {None} : Absorb(Cron, c, e, d)
    <3>1. \E w : Set(Cron, w)  BY <2>5 DEF Absorb
    <3>. QED  BY <1>3, <2>2, <3>1
  <2>. QED  BY <2>1, <2>3, <2>4, <2>5 DEF Apply
<1>8. CASE Breaker
  <2>1. CASE Broken
    <3>1. Set(Cron, Off) /\ overlapped' = overlapped  BY <2>1 DEF Broken
    <3>. QED  BY <1>3, <3>1 DEF Solo
  <2>2. CASE \E e \in Events : \E core, spun \in Groups(e) : Split(e, core, spun)
    <3>1. (\E w : Set(Cron, w)) /\ overlapped' = overlapped  BY <2>2 DEF Split
    <3>. QED  BY <1>3, <3>1 DEF Solo
  <2>3. CASE \E e \in Events : \E drop \in SUBSET links[e] : Detach(e, drop)
    BY <1>2, <2>3 DEF Detach, Missed, Solo, At
  <2>. QED  BY <1>8, <2>1, <2>2, <2>3 DEF Breaker
<1>9. CASE Sweep \/ (\E a \in Articles : Prune(a)) \/ UNCHANGED vars
  BY <1>2, <1>9 DEF Sweep, Prune, Missed, Solo, At, vars
<1>. QED  BY <1>4, <1>5, <1>6, <1>7, <1>8, <1>9 DEF Next, Promoter, Runs

(* Where POST /api/news/refresh is never asked for, the slug of a merged     *)
(* event is an alias for its survivor without any proviso: what the other    *)
(* run finds is the work of the refresh and of nothing else.                 *)
THEOREM DurableIdentityAlone == MaxManual = 0 => (Spec => []DurableIdentity)
<1>. SUFFICES ASSUME MaxManual = 0 PROVE Spec => []DurableIdentity  OBVIOUS
<1>1. Init => Solo  BY OffIs DEF Init, Solo, At, Runs
<1>2. Solo /\ IInv /\ [Next]_vars => Solo'  BY SoloStep
<1>3. Solo /\ IInv => DurableIdentity
  BY DEF IInv, Solo, MergedReachesOpen, DurableIdentity
<1>. QED  BY <1>1, <1>2, <1>3, Inductive, PTL DEF Spec
=============================================================================

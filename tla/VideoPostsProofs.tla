-------------------------- MODULE VideoPostsProofs --------------------------
(***************************************************************************)
(* Theorems about the short-video loop, for any articles, surfaces, caps,  *)
(* intervals and number of overlapping runs.                               *)
(*                                                                         *)
(* That an upload is never repeated without cause is not inductive: a run  *)
(* that has listed an article may upload it later, whatever the row says   *)
(* by then.  So the runs that may still upload an article are counted with *)
(* its uploads (Explained), and an article that is not published and in    *)
(* nobody's hands has one upload less (Unpublished): that is what the next *)
(* run, which reads the row only, relies on.                               *)
(*                                                                         *)
(* The pace needs to know which posts of a surface the loop may lose sight *)
(* of: each has a deadline overrun, fault or overlap to be charged to, also*)
(* while the run that will be charged is still ahead of the surface        *)
(* (LostAt); what is not lost is counted when the next run asks            *)
(* (ClaimsAt).  A post that is on no row is in a call's hands (Records).   *)
(***************************************************************************)
EXTENDS VideoPosts, FiniteSetTheorems, TLAPS

RowType == [status : {"none", "pending", "published", "failed"},
            attempts : Nat, updated : Nat, published : Nat]
CycType == [pc : {"idle", "pick", "upload", "accepted", "channels"} \cup Stages,
            startedAt : Nat, todo : SUBSET Articles,
            article : Articles \cup {None}, step : 1 .. Len(Surfaces) + 1]
LateType == [article : Articles, surface : SurfaceSet, stage : Stages]

InHand == {"upload", "accepted", "channels"} \cup Stages

\* Runs that list a, that are about to upload it, and both.
Listing(a)   == {c \in Cycles : a \in cyc[c].todo}
Uploading(a) == {c \in Cycles : cyc[c].pc = "upload" /\ cyc[c].article = a}
May(a)       == Listing(a) \cup Uploading(a)

Shape ==
  \A c \in Cycles :
    /\ cyc[c].pc = "idle" => cyc[c] = Idle
    /\ cyc[c].pc \in InHand => cyc[c].article \in Articles \ cyc[c].todo
    /\ cyc[c].pc \in Stages => cyc[c].step <= Len(Surfaces)

\* Without an overlap one run is under way, and has in its hands and on its
\* list what is not published.
Single ==
  overlaps = 0 =>
    /\ \A c, d \in Cycles : Running(c) /\ Running(d) => c = d
    /\ \A c \in Cycles :
         /\ \A a \in cyc[c].todo : ~Published(a)
         /\ cyc[c].pc \in {"upload", "accepted"} => ~Published(cyc[c].article)

Explained ==
  \A a \in Articles : uploads[a] + Cardinality(May(a)) <= 1 + faults + overlaps

Unpublished ==
  \A a \in Articles :
    /\ ~Published(a) /\ May(a) = {}
    /\ \A c \in Cycles : ~(cyc[c].pc = "accepted" /\ cyc[c].article = a)
    => uploads[a] <= faults + overlaps

Attempted ==
  \A a \in Articles :
    /\ uploads[a] + Cardinality(Uploading(a)) <= row[a].attempts
    /\ row[a].attempts + Cardinality(Listing(a)) <= 2 + overlaps
    /\ row[a].status = "none" => row[a].attempts = 0

IInv == TypeOK /\ Shape /\ Single /\ Explained /\ Unpublished /\ Attempted /\ PendingHasCall

StaysPublished == \A a \in Articles : overlaps = 0 /\ Published(a) => Published(a)'

-----------------------------------------------------------------------------
LEMMA SetsAre ==
  ASSUME NEW a
  PROVE  /\ IsFiniteSet(Listing(a)) /\ Cardinality(Listing(a)) \in Nat
         /\ IsFiniteSet(Uploading(a)) /\ Cardinality(Uploading(a)) \in Nat
         /\ IsFiniteSet(May(a)) /\ Cardinality(May(a)) \in Nat
         /\ Cardinality(Uploading(a)) <= Cardinality(May(a))
<1>1. /\ Listing(a) \in SUBSET Cycles /\ Uploading(a) \in SUBSET Cycles
      /\ May(a) \in SUBSET Cycles /\ Uploading(a) \in SUBSET May(a)
  BY DEF Listing, Uploading, May
<1>2. IsFiniteSet(Listing(a)) /\ IsFiniteSet(Uploading(a)) /\ IsFiniteSet(May(a))
  BY <1>1, SetsAssumption, FS_Subset
<1>3. Cardinality(Uploading(a)) <= Cardinality(May(a))  BY <1>1, <1>2, FS_Subset
<1>. QED  BY <1>2, <1>3, FS_CardinalityType

LEMMA CycIs == ASSUME TypeOK, NEW c \in Cycles PROVE cyc[c] \in CycType
  BY DEF TypeOK, CycType

LEMMA IdleIs == Idle \in CycType /\ Idle.pc = "idle" /\ Idle.todo = {} /\ Idle.article = None
<1>1. Len(Surfaces) \in Nat  BY SurfacesAssumption
<1>2. 1 \in 1 .. Len(Surfaces) + 1  BY <1>1
<1>. QED  BY <1>2 DEF Idle, CycType

\* A slot whose run changes, and with it the sets that are counted.
LEMMA SlotIs ==
  ASSUME TypeOK, NEW c \in Cycles, NEW w \in CycType, cyc' = [cyc EXCEPT ![c] = w]
  PROVE  /\ cyc'[c] = w /\ \A d \in Cycles \ {c} : cyc'[d] = cyc[d]
         /\ cyc' \in [Cycles -> CycType]
  BY CycIs DEF TypeOK

LEMMA InitHolds == Init => IInv
<1>. SUFFICES ASSUME Init PROVE IInv  OBVIOUS
<1>1. \A c \in Cycles : cyc[c] = Idle  BY DEF Init
<1>2. TypeOK
  <2>1. cyc \in [Cycles -> CycType]  BY <1>1, IdleIs DEF Init
  <2>2. /\ row \in [Articles -> RowType]
        /\ column \in [Articles -> [Columns -> {"null", "pending", "posted", "failed", "skipped"}]]
        /\ uploads \in [Articles -> Nat] /\ posts \in [Articles -> [SurfaceSet -> Nat]]
    BY DEF Init, RowType
  <2>3. /\ now \in Nat /\ inFlight \in Nat /\ late = {}
        /\ abandoned \in Nat /\ faults \in Nat /\ overlaps \in Nat
    BY DEF Init
  <2>. QED  BY <2>1, <2>2, <2>3 DEF TypeOK, CycType, RowType
<1>3. \A a \in Articles : /\ Listing(a) = {} /\ Uploading(a) = {} /\ May(a) = {}
                          /\ uploads[a] = 0 /\ row[a].attempts = 0 /\ ~Published(a)
  BY <1>1, IdleIs DEF Listing, Uploading, May, Init, Published
<1>4. Shape  BY <1>1, IdleIs DEF Shape, InHand, Stages
<1>5. Single  BY <1>1, IdleIs DEF Single, Running
<1>6. Cardinality({}) = 0  BY FS_EmptySet
<1>7. faults = 0 /\ overlaps = 0  BY DEF Init
<1>8. Explained /\ Unpublished /\ Attempted
  <2>1. \A a \in Articles : /\ Cardinality(May(a)) = 0 /\ Cardinality(Listing(a)) = 0
                            /\ Cardinality(Uploading(a)) = 0
    BY <1>3, <1>6
  <2>2. Explained  BY <1>3, <1>7, <2>1 DEF Explained
  <2>3. Unpublished  BY <1>3, <1>7 DEF Unpublished
  <2>4. Attempted  BY <1>3, <1>7, <2>1 DEF Attempted
  <2>. QED  BY <2>2, <2>3, <2>4
<1>9. PendingHasCall
  <2>1. \A s \in Fetched : Column[s] \in Columns  BY SurfacesAssumption DEF Columns
  <2>2. \A a \in Articles, s \in Fetched : column[a][Column[s]] = "null"
    BY <2>1 DEF Init
  <2>. QED  BY <2>2 DEF PendingHasCall
<1>. QED  BY <1>2, <1>4, <1>5, <1>8, <1>9 DEF IInv

-----------------------------------------------------------------------------
(* Steps that leave uploads, statuses, attempts and lists alone.           *)

LEMMA QuietStep ==
  ASSUME IInv, UNCHANGED <<uploads, overlaps>>, faults' \in Nat, faults' >= faults,
         \A a \in Articles : row'[a].status = row[a].status /\ row'[a].attempts = row[a].attempts,
         \A c \in Cycles :
           \/ cyc'[c] = cyc[c]
           \/ /\ {cyc[c].pc, cyc'[c].pc} \subseteq {"channels"} \cup Stages
              /\ cyc'[c].todo = cyc[c].todo /\ cyc'[c].article = cyc[c].article
              /\ cyc'[c].pc \in Stages => cyc'[c].step <= Len(Surfaces)
  PROVE  /\ Shape' /\ Single' /\ Explained' /\ Unpublished' /\ Attempted' /\ StaysPublished
<1>. USE DEF IInv
<1>1. Shape'  BY DEF Shape, InHand, Stages
<1>2. \A a \in Articles : Published(a)' <=> Published(a)  BY DEF Published
<1>3. Single'
  <2>1. \A c \in Cycles : /\ Running(c)' <=> Running(c)
                          /\ cyc'[c].todo = cyc[c].todo
                          /\ cyc'[c].pc \in {"upload", "accepted"} => cyc'[c] = cyc[c]
    BY DEF Running, Stages
  <2>2. overlaps' = overlaps  OBVIOUS
  <2>3. \A c \in Cycles : cyc'[c].pc \in {"upload", "accepted"} => cyc[c].article \in Articles
    BY <2>1 DEF Shape, InHand
  <2>. QED  BY <1>2, <2>1, <2>2, <2>3, CycIs DEF Single, CycType
<1>4. \A a \in Articles : /\ Listing(a)' = Listing(a) /\ Uploading(a)' = Uploading(a)
                          /\ May(a)' = May(a)
  BY DEF Listing, Uploading, May, Stages
<1>5. \A a \in Articles : uploads[a] \in Nat /\ Cardinality(May(a)) \in Nat
  BY SetsAre DEF TypeOK
<1>6. faults \in Nat /\ overlaps \in Nat  BY DEF TypeOK
<1>7. Explained'
  <2>1. \A a \in Articles : Cardinality(May(a))' = Cardinality(May(a))  BY <1>4
  <2>2. \A a \in Articles : uploads[a] + Cardinality(May(a)) <= 1 + faults + overlaps
    BY DEF Explained
  <2>. HIDE DEF IInv
  <2>. QED  BY <1>5, <1>6, <2>1, <2>2 DEF Explained
<1>8. Unpublished'
  <2>1. \A c \in Cycles, a \in Articles :
          (cyc'[c].pc = "accepted" /\ cyc'[c].article = a) <=> (cyc[c].pc = "accepted" /\ cyc[c].article = a)
    BY DEF Stages
  <2>2. ASSUME NEW a \in Articles, ~Published(a), May(a) = {},
               \A c \in Cycles : ~(cyc[c].pc = "accepted" /\ cyc[c].article = a)
        PROVE  uploads[a] <= faults' + overlaps
    <3>1. uploads[a] <= faults + overlaps  BY <2>2 DEF Unpublished
    <3>. HIDE DEF IInv
    <3>. QED  BY <1>5, <1>6, <3>1
  <2>. QED  BY <1>2, <1>4, <2>1, <2>2 DEF Unpublished
<1>9. Attempted'
  <2>1. \A a \in Articles : /\ Cardinality(Uploading(a))' = Cardinality(Uploading(a))
                            /\ Cardinality(Listing(a))' = Cardinality(Listing(a))
    BY <1>4
  <2>. QED  BY <2>1 DEF Attempted
<1>10. StaysPublished  BY <1>2 DEF StaysPublished
<1>. QED  BY <1>1, <1>3, <1>7, <1>8, <1>9, <1>10

-----------------------------------------------------------------------------
(* Calls to the surfaces.                                                  *)

LEMMA CallsKept ==
  ASSUME IInv, UNCHANGED <<column, late>>, faults' \in Nat, faults' >= faults,
         \A c \in Cycles : cyc[c].pc \in Stages => cyc'[c] = cyc[c]
  PROVE  PendingHasCall'
<1>. USE DEF IInv
<1>1. faults \in Nat  BY DEF TypeOK
<1>. SUFFICES ASSUME NEW a \in Articles, NEW s \in Fetched, column[a][Column[s]] = "pending",
                     faults' = 0
              PROVE  \/ \E c \in Cycles : /\ cyc'[c].article = a /\ cyc'[c].pc \in Stages
                                          /\ AtSurface(c, s)'
                     \/ \E l \in late : l.article = a /\ l.surface = s
  BY DEF PendingHasCall
<1>2. faults = 0  BY <1>1
<1>3. CASE \E l \in late : l.article = a /\ l.surface = s  BY <1>3
<1>4. CASE \E c \in Cycles : cyc[c].article = a /\ cyc[c].pc \in Stages /\ AtSurface(c, s)
  <2>1. PICK c \in Cycles : cyc[c].article = a /\ cyc[c].pc \in Stages /\ AtSurface(c, s)
    BY <1>4
  <2>2. cyc'[c] = cyc[c]  BY <2>1
  <2>. QED  BY <2>1, <2>2 DEF AtSurface
<1>. QED  BY <1>2, <1>3, <1>4 DEF PendingHasCall

LEMMA AtOne ==
  ASSUME IInv, NEW c \in Cycles, NEW s \in SurfaceSet, AtSurface(c, s)
  PROVE  /\ cyc[c].article \in Articles /\ Column[s] \in Columns
         /\ cyc[c].step \in Nat /\ cyc[c].step + 1 \in 1 .. Len(Surfaces) + 1
         /\ \A t : AtSurface(c, t) => t = s
<1>1. cyc[c].step \in 1 .. Len(Surfaces) + 1 /\ cyc[c].step <= Len(Surfaces)
  BY CycIs DEF IInv, CycType, AtSurface
<1>2. Len(Surfaces) \in Nat  BY SurfacesAssumption
<1>3. cyc[c].article \in Articles  BY DEF IInv, Shape, InHand, AtSurface
<1>. QED  BY <1>1, <1>2, <1>3 DEF AtSurface, Columns

\* One call begins, goes on or ends.
LEMMA CallKeeps ==
  ASSUME IInv, NEW c \in Cycles, NEW t \in SurfaceSet, AtSurface(c, t),
         NEW w \in CycType, cyc' = [cyc EXCEPT ![c] = w],
         late \subseteq late', faults' \in Nat, faults' >= faults,
         \A a \in Articles, k \in Columns :
           (a # cyc[c].article \/ k # Column[t]) => column'[a][k] = column[a][k],
         t \in Fetched => \/ column'[cyc[c].article][Column[t]] # "pending"
                          \/ /\ w.pc \in Stages /\ w.article = cyc[c].article
                             /\ w.step = cyc[c].step
  PROVE  PendingHasCall'
<1>. USE DEF IInv
<1>1. faults \in Nat  BY DEF TypeOK
<1>2. cyc'[c] = w /\ \A d \in Cycles \ {c} : cyc'[d] = cyc[d]  BY SlotIs
<1>. SUFFICES ASSUME NEW a \in Articles, NEW s \in Fetched, column'[a][Column[s]] = "pending",
                     faults' = 0
              PROVE  \/ \E d \in Cycles : /\ cyc'[d].article = a /\ cyc'[d].pc \in Stages
                                          /\ AtSurface(d, s)'
                     \/ \E l \in late' : l.article = a /\ l.surface = s
  BY DEF PendingHasCall
<1>3. faults = 0  BY <1>1
<1>4. Column[s] \in Columns /\ s \in SurfaceSet  BY SurfacesAssumption DEF Columns
<1>5. CASE a = cyc[c].article /\ s = t
  <2>1. w.pc \in Stages /\ w.article = a /\ w.step = cyc[c].step  BY <1>5
  <2>. QED  BY <1>2, <1>5, <2>1 DEF AtSurface
<1>6. CASE ~(a = cyc[c].article /\ s = t)
  <2>1. a # cyc[c].article \/ Column[s] # Column[t]  BY <1>6, SurfacesAssumption
  <2>2. column[a][Column[s]] = "pending"  BY <1>4, <2>1
  <2>3. CASE \E l \in late : l.article = a /\ l.surface = s  BY <2>3
  <2>4. CASE \E d \in Cycles : cyc[d].article = a /\ cyc[d].pc \in Stages /\ AtSurface(d, s)
    <3>1. PICK d \in Cycles : cyc[d].article = a /\ cyc[d].pc \in Stages /\ AtSurface(d, s)
      BY <2>4
    <3>2. d # c  BY <1>6, <3>1, AtOne
    <3>3. cyc'[d] = cyc[d]  BY <1>2, <3>2
    <3>. QED  BY <3>1, <3>3 DEF AtSurface
  <2>. QED  BY <1>3, <2>2, <2>3, <2>4 DEF PendingHasCall
<1>. QED  BY <1>5, <1>6

Status == {"null", "pending", "posted", "failed", "skipped"}

LEMMA MarkIs ==
  ASSUME TypeOK, NEW a \in Articles, NEW s \in SurfaceSet, NEW st \in Status, Mark(a, s, st)
  PROVE  /\ column' \in [Articles -> [Columns -> Status]] /\ row' \in [Articles -> RowType]
         /\ \A x \in Articles : row'[x].status = row[x].status /\ row'[x].attempts = row[x].attempts
         /\ \A x \in Articles : row'[x].published = row[x].published
         /\ \A x \in Articles, k \in Columns :
              column'[x][k] = IF x = a /\ k = Column[s] THEN st ELSE column[x][k]
<1>1. Column[s] \in Columns  BY DEF Columns
<1>2. column \in [Articles -> [Columns -> Status]]  BY DEF TypeOK, Status
<1>3. column' = [column EXCEPT ![a][Column[s]] = st]  BY DEF Mark
<1>4. /\ column' \in [Articles -> [Columns -> Status]]
      /\ \A x \in Articles, k \in Columns :
           column'[x][k] = IF x = a /\ k = Column[s] THEN st ELSE column[x][k]
  BY <1>1, <1>2, <1>3
<1>5. row \in [Articles -> RowType] /\ now \in Nat  BY DEF TypeOK, RowType
<1>6. /\ row' \in [Articles -> RowType]
      /\ \A x \in Articles : row'[x].status = row[x].status /\ row'[x].attempts = row[x].attempts
      /\ \A x \in Articles : row'[x].published = row[x].published
  <2>. DEFINE u == IF row[a].status = "pending" THEN now ELSE 0
  <2>1. u \in Nat  BY <1>5
  <2>2. row' = [row EXCEPT ![a].updated = u]  BY DEF Mark
  <2>. HIDE DEF u
  <2>. QED  BY <1>5, <2>1, <2>2 DEF RowType
<1>. QED  BY <1>4, <1>6

LEMMA NoteIs ==
  ASSUME TypeOK, NEW a \in Articles, NEW s \in SurfaceSet, NEW st \in Status, Note(a, s, st)
  PROVE  /\ column' \in [Articles -> [Columns -> Status]] /\ row' \in [Articles -> RowType]
         /\ \A x \in Articles : row'[x].status = row[x].status /\ row'[x].attempts = row[x].attempts
         /\ \A x \in Articles : row'[x].published = row[x].published
         /\ \A x \in Articles, k \in Columns :
              x # a \/ k # Column[s] => column'[x][k] = column[x][k]
         /\ s \in Recording => column'[a][Column[s]] = st
         /\ s \in Fetched => column'[a][Column[s]] = st
         /\ s \notin Recording => column' = column
<1>1. CASE s \in Recording
  <2>1. Mark(a, s, st)  BY <1>1 DEF Note
  <2>2. Column[s] \in Columns  BY DEF Columns
  <2>3. /\ column' \in [Articles -> [Columns -> Status]] /\ row' \in [Articles -> RowType]
        /\ \A x \in Articles : row'[x].status = row[x].status /\ row'[x].attempts = row[x].attempts
        /\ \A x \in Articles : row'[x].published = row[x].published
        /\ \A x \in Articles, k \in Columns :
             column'[x][k] = IF x = a /\ k = Column[s] THEN st ELSE column[x][k]
    BY <2>1, MarkIs
  <2>4. column'[a][Column[s]] = st  BY <2>2, <2>3
  <2>5. \A x \in Articles, k \in Columns :
          x # a \/ k # Column[s] => column'[x][k] = column[x][k]
    BY <2>3
  <2>. QED  BY <1>1, <2>3, <2>4, <2>5
<1>2. CASE s \notin Recording
  <2>1. row \in [Articles -> RowType] /\ column \in [Articles -> [Columns -> Status]]
    BY DEF TypeOK, RowType, Status
  <2>. QED  BY <1>2, <2>1, SurfacesAssumption DEF Note
<1>. QED  BY <1>1, <1>2

\* A step of the calls: what the two parts of the invariant ask of it.
LEMMA SurfaceStep ==
  ASSUME IInv, NEW c \in Cycles, NEW t \in SurfaceSet, AtSurface(c, t),
         NEW w \in CycType, cyc' = [cyc EXCEPT ![c] = w],
         w.pc \in {"channels"} \cup Stages, w.todo = cyc[c].todo, w.article = cyc[c].article,
         w.pc \in Stages => w.step <= Len(Surfaces),
         late \subseteq late', late' \subseteq LateType,
         UNCHANGED <<now, inFlight, uploads, overlaps>>,
         posts' \in [Articles -> [SurfaceSet -> Nat]],
         abandoned' \in Nat, faults' \in Nat, faults' >= faults,
         column' \in [Articles -> [Columns -> Status]], row' \in [Articles -> RowType],
         \A x \in Articles : row'[x].status = row[x].status /\ row'[x].attempts = row[x].attempts,
         \A x \in Articles, k \in Columns :
              x # cyc[c].article \/ k # Column[t] => column'[x][k] = column[x][k],
         t \in Fetched => \/ column'[cyc[c].article][Column[t]] # "pending"
                          \/ w.pc \in Stages /\ w.step = cyc[c].step
  PROVE  IInv' /\ StaysPublished
<1>1. /\ cyc'[c] = w /\ \A d \in Cycles \ {c} : cyc'[d] = cyc[d]
      /\ cyc' \in [Cycles -> CycType]
  BY SlotIs DEF IInv
<1>2. TypeOK'  BY <1>1 DEF IInv, TypeOK, CycType, RowType, LateType, Status
<1>3. cyc[c].pc \in {"channels"} \cup Stages  BY DEF AtSurface
<1>4. Shape' /\ Single' /\ Explained' /\ Unpublished' /\ Attempted' /\ StaysPublished
  BY <1>1, <1>3, QuietStep
<1>5. PendingHasCall'  BY CallKeeps
<1>. QED  BY <1>2, <1>4, <1>5 DEF IInv

LEMMA NextSurfaceIs ==
  ASSUME IInv, NEW c \in Cycles, NEW t \in SurfaceSet, AtSurface(c, t), NextSurface(c)
  PROVE  \E w \in CycType : /\ cyc' = [cyc EXCEPT ![c] = w] /\ w.pc = "channels"
                            /\ w.todo = cyc[c].todo /\ w.article = cyc[c].article
<1>. DEFINE n == cyc[c].step + 1
            w == [cyc[c] EXCEPT !.pc = "channels", !.step = n]
<1>1. n \in 1 .. Len(Surfaces) + 1  BY AtOne
<1>2. cyc' = [cyc EXCEPT ![c] = w]  BY DEF NextSurface
<1>. HIDE DEF n
<1>3. w \in CycType /\ w.pc = "channels" /\ w.todo = cyc[c].todo /\ w.article = cyc[c].article
  BY <1>1, CycIs DEF IInv, CycType
<1>. QED  BY <1>2, <1>3

LEMMA SkipStep == ASSUME IInv, NEW c \in Cycles, Skip(c) PROVE IInv' /\ StaysPublished
<1>1. PICK t \in SurfaceSet : AtSurface(c, t) /\ Note(cyc[c].article, t, "skipped")
  BY DEF Skip
<1>2. PICK w \in CycType : /\ cyc' = [cyc EXCEPT ![c] = w] /\ w.pc = "channels"
                           /\ w.todo = cyc[c].todo /\ w.article = cyc[c].article
  BY <1>1, NextSurfaceIs DEF Skip
<1>3. /\ UNCHANGED <<now, inFlight, late, uploads, posts, abandoned, faults, overlaps>>
  BY DEF Skip, history, counters
<1>4. /\ late' \subseteq LateType /\ posts' \in [Articles -> [SurfaceSet -> Nat]]
      /\ abandoned' \in Nat /\ faults' \in Nat /\ faults' >= faults /\ late \subseteq late'
  BY <1>3 DEF IInv, TypeOK, LateType
<1>5. cyc[c].article \in Articles  BY <1>1, AtOne
<1>6. /\ column' \in [Articles -> [Columns -> Status]] /\ row' \in [Articles -> RowType]
      /\ \A x \in Articles : row'[x].status = row[x].status /\ row'[x].attempts = row[x].attempts
      /\ \A x \in Articles, k \in Columns :
           x # cyc[c].article \/ k # Column[t] => column'[x][k] = column[x][k]
      /\ t \in Fetched => column'[cyc[c].article][Column[t]] = "skipped"
  BY <1>1, <1>5, NoteIs DEF IInv, Status
<1>7. w.pc \notin Stages  BY <1>2 DEF Stages
<1>. QED  BY <1>1, <1>2, <1>3, <1>4, <1>6, <1>7, SurfaceStep

LEMMA BeginStep == ASSUME IInv, NEW c \in Cycles, Begin(c) PROVE IInv' /\ StaysPublished
<1>1. PICK t \in SurfaceSet :
        /\ AtSurface(c, t)
        /\ IF t \in Fetched THEN Mark(cyc[c].article, t, "pending") ELSE UNCHANGED <<column, row>>
  BY DEF Begin
<1>. DEFINE w == [cyc[c] EXCEPT !.pc = "call"]
<1>2. cyc' = [cyc EXCEPT ![c] = w]  BY DEF Begin
<1>3. /\ w \in CycType /\ w.pc = "call" /\ w.todo = cyc[c].todo /\ w.article = cyc[c].article
      /\ w.step = cyc[c].step
  BY CycIs DEF IInv, CycType, Stages
<1>. HIDE DEF w
<1>4. UNCHANGED <<now, inFlight, late, uploads, posts, abandoned, faults, overlaps>>
  BY DEF Begin, history, counters
<1>5. /\ late' \subseteq LateType /\ posts' \in [Articles -> [SurfaceSet -> Nat]]
      /\ abandoned' \in Nat /\ faults' \in Nat /\ faults' >= faults /\ late \subseteq late'
  BY <1>4 DEF IInv, TypeOK, LateType
<1>6. cyc[c].article \in Articles  BY <1>1, AtOne
<1>7. /\ column' \in [Articles -> [Columns -> Status]] /\ row' \in [Articles -> RowType]
      /\ \A x \in Articles : row'[x].status = row[x].status /\ row'[x].attempts = row[x].attempts
      /\ \A x \in Articles, k \in Columns :
           x # cyc[c].article \/ k # Column[t] => column'[x][k] = column[x][k]
  <2>1. CASE t \in Fetched
    <3>1. Mark(cyc[c].article, t, "pending")  BY <1>1, <2>1
    <3>2. "pending" \in Status /\ TypeOK  BY DEF Status, IInv
    <3>. QED  BY <1>6, <3>1, <3>2, MarkIs
  <2>2. CASE t \notin Fetched
    BY <1>1, <2>2 DEF IInv, TypeOK, RowType, Status
  <2>. QED  BY <2>1, <2>2
<1>8. w.pc \in Stages /\ w.pc \in {"channels"} \cup Stages /\ w.step <= Len(Surfaces)
  BY <1>1, <1>3 DEF Stages, AtSurface
<1>. QED  BY <1>1, <1>2, <1>3, <1>4, <1>5, <1>7, <1>8, SurfaceStep

LEMMA PostStep == ASSUME IInv, NEW c \in Cycles, Post(c) PROVE IInv' /\ StaysPublished
<1>1. PICK t \in SurfaceSet : /\ AtSurface(c, t)
                              /\ posts' = [posts EXCEPT ![cyc[c].article][t] = @ + 1]
  BY DEF Post
<1>. DEFINE w == [cyc[c] EXCEPT !.pc = "answer"]
<1>2. cyc' = [cyc EXCEPT ![c] = w]  BY DEF Post
<1>3. /\ w \in CycType /\ w.pc = "answer" /\ w.todo = cyc[c].todo /\ w.article = cyc[c].article
      /\ w.step = cyc[c].step
  BY CycIs DEF IInv, CycType, Stages
<1>. HIDE DEF w
<1>4. UNCHANGED <<now, row, column, inFlight, late, uploads, abandoned, faults, overlaps>>
  BY DEF Post, counters
<1>5. cyc[c].article \in Articles  BY <1>1, AtOne
<1>6. posts' \in [Articles -> [SurfaceSet -> Nat]]
  BY <1>1, <1>5 DEF IInv, TypeOK
<1>7. /\ late' \subseteq LateType /\ abandoned' \in Nat /\ faults' \in Nat /\ faults' >= faults
      /\ late \subseteq late'
      /\ column' \in [Articles -> [Columns -> Status]] /\ row' \in [Articles -> RowType]
  BY <1>4 DEF IInv, TypeOK, LateType, RowType, Status
<1>8. w.pc \in Stages /\ w.pc \in {"channels"} \cup Stages /\ w.step <= Len(Surfaces)
  BY <1>1, <1>3 DEF Stages, AtSurface
<1>. QED  BY <1>1, <1>2, <1>3, <1>4, <1>6, <1>7, <1>8, SurfaceStep

LEMMA FaultIs ==
  ASSUME TypeOK, Fault
  PROVE  /\ faults' = faults + 1 /\ faults' \in Nat /\ faults' >= faults
         /\ UNCHANGED <<abandoned, overlaps>>
  BY DEF TypeOK, Fault

\* A call that ends, and what is noted of it.
LEMMA EndsStep ==
  ASSUME IInv, NEW c \in Cycles, NEW t \in SurfaceSet, AtSurface(c, t), NEW st \in {"posted", "failed"},
         Note(cyc[c].article, t, st), NextSurface(c),
         UNCHANGED counters \/ Fault,
         UNCHANGED <<now, inFlight, late, history>>
  PROVE  IInv' /\ StaysPublished
<1>1. PICK w \in CycType : /\ cyc' = [cyc EXCEPT ![c] = w] /\ w.pc = "channels"
                           /\ w.todo = cyc[c].todo /\ w.article = cyc[c].article
  BY NextSurfaceIs
<1>2. TypeOK  BY DEF IInv
<1>3. /\ UNCHANGED <<now, inFlight, late, uploads, posts, abandoned, overlaps>>
      /\ faults' \in Nat /\ faults' >= faults
  BY <1>2, FaultIs DEF TypeOK, history, counters
<1>4. /\ late' \subseteq LateType /\ posts' \in [Articles -> [SurfaceSet -> Nat]]
      /\ abandoned' \in Nat /\ late \subseteq late'
  BY <1>2, <1>3 DEF TypeOK, LateType
<1>5. cyc[c].article \in Articles  BY AtOne
<1>6. /\ column' \in [Articles -> [Columns -> Status]] /\ row' \in [Articles -> RowType]
      /\ \A x \in Articles : row'[x].status = row[x].status /\ row'[x].attempts = row[x].attempts
      /\ \A x \in Articles, k \in Columns :
           x # cyc[c].article \/ k # Column[t] => column'[x][k] = column[x][k]
      /\ t \in Fetched => column'[cyc[c].article][Column[t]] # "pending"
  BY <1>2, <1>5, NoteIs DEF Status
<1>7. w.pc \notin Stages  BY <1>1 DEF Stages
<1>. QED  BY <1>1, <1>3, <1>4, <1>6, <1>7, SurfaceStep

LEMMA AnsweredStep == ASSUME IInv, NEW c \in Cycles, Answered(c) PROVE IInv' /\ StaysPublished
  BY EndsStep DEF Answered

LEMMA CallFailsStep == ASSUME IInv, NEW c \in Cycles, CallFails(c) PROVE IInv' /\ StaysPublished
  BY EndsStep DEF CallFails

LEMMA AbandonStep == ASSUME IInv, NEW c \in Cycles, Abandon(c) PROVE IInv' /\ StaysPublished
<1>1. PICK t \in SurfaceSet :
        /\ AtSurface(c, t)
        /\ late' = late \cup {[article |-> cyc[c].article, surface |-> t, stage |-> cyc[c].pc]}
        /\ Mark(cyc[c].article, t, "failed")
  BY DEF Abandon
<1>2. PICK w \in CycType : /\ cyc' = [cyc EXCEPT ![c] = w] /\ w.pc = "channels"
                           /\ w.todo = cyc[c].todo /\ w.article = cyc[c].article
  BY <1>1, NextSurfaceIs DEF Abandon
<1>3. /\ UNCHANGED <<now, inFlight, uploads, posts, faults, overlaps>> /\ abandoned' = abandoned + 1
      /\ cyc[c].pc \in Stages
  BY DEF Abandon, history
<1>4. cyc[c].article \in Articles  BY <1>1, AtOne
<1>5. /\ posts' \in [Articles -> [SurfaceSet -> Nat]]
      /\ abandoned' \in Nat /\ faults' \in Nat /\ faults' >= faults
  BY <1>3 DEF IInv, TypeOK
<1>6. late \subseteq late' /\ late' \subseteq LateType
  <2>1. [article |-> cyc[c].article, surface |-> t, stage |-> cyc[c].pc] \in LateType
    BY <1>3, <1>4 DEF LateType
  <2>. QED  BY <1>1, <2>1 DEF IInv, TypeOK, LateType
<1>7. /\ column' \in [Articles -> [Columns -> Status]] /\ row' \in [Articles -> RowType]
      /\ \A x \in Articles : row'[x].status = row[x].status /\ row'[x].attempts = row[x].attempts
      /\ \A x \in Articles, k \in Columns :
           x # cyc[c].article \/ k # Column[t] => column'[x][k] = column[x][k]
      /\ column'[cyc[c].article][Column[t]] = "failed"
  <2>1. "failed" \in Status /\ TypeOK /\ Column[t] \in Columns  BY DEF Status, IInv, Columns
  <2>. QED  BY <1>1, <1>4, <2>1, MarkIs
<1>8. w.pc \notin Stages  BY <1>2 DEF Stages
<1>. QED  BY <1>1, <1>2, <1>3, <1>5, <1>6, <1>7, <1>8, SurfaceStep

\* Abandoned calls.
LEMMA LateKeeps ==
  ASSUME IInv, NEW l \in late, UNCHANGED <<cyc, uploads, overlaps, faults>>,
         \A x \in Articles : row'[x].status = row[x].status /\ row'[x].attempts = row[x].attempts,
         \A x \in Articles, k \in Columns :
              x # l.article \/ k # Column[l.surface] => column'[x][k] = column[x][k],
         \A k \in late \ {l} : k \in late',
         \/ \E k \in late' : k.article = l.article /\ k.surface = l.surface
         \/ l.surface \in Fetched => column'[l.article][Column[l.surface]] # "pending"
  PROVE  /\ Shape' /\ Single' /\ Explained' /\ Unpublished' /\ Attempted' /\ StaysPublished
         /\ PendingHasCall'
<1>. USE DEF IInv
<1>1. faults' \in Nat /\ faults' >= faults  BY DEF TypeOK
<1>2. /\ Shape' /\ Single' /\ Explained' /\ Unpublished' /\ Attempted' /\ StaysPublished
  <2>1. \A c \in Cycles : cyc'[c] = cyc[c]  OBVIOUS
  <2>. HIDE DEF IInv
  <2>. QED  BY <1>1, <2>1, QuietStep
<1>3. PendingHasCall'
  <2>5. faults \in Nat  BY DEF TypeOK
  <2>6. \A c \in Cycles, s \in Fetched : AtSurface(c, s)' <=> AtSurface(c, s)
    BY DEF AtSurface
  <2>. HIDE DEF IInv
  <2>. SUFFICES ASSUME NEW a \in Articles, NEW s \in Fetched, column'[a][Column[s]] = "pending",
                       faults = 0
                PROVE  \/ \E c \in Cycles : /\ cyc[c].article = a /\ cyc[c].pc \in Stages
                                            /\ AtSurface(c, s)
                       \/ \E k \in late' : k.article = a /\ k.surface = s
    BY <2>5, <2>6 DEF PendingHasCall
  <2>. USE DEF IInv
  <2>1. Column[s] \in Columns /\ s \in SurfaceSet  BY SurfacesAssumption DEF Columns
  <2>2. l.article \in Articles /\ l.surface \in SurfaceSet  BY DEF TypeOK
  <2>3. CASE a = l.article /\ s = l.surface  BY <2>3
  <2>4. CASE ~(a = l.article /\ s = l.surface)
    <3>1. a # l.article \/ Column[s] # Column[l.surface]  BY <2>2, <2>4, SurfacesAssumption
    <3>2. column[a][Column[s]] = "pending"  BY <2>1, <3>1
    <3>. QED  BY <2>4, <3>2 DEF PendingHasCall
  <2>. QED  BY <2>3, <2>4
<1>. QED  BY <1>2, <1>3

LEMMA LatePostStep == ASSUME IInv, NEW l \in late, LatePost(l) PROVE IInv' /\ StaysPublished
<1>. DEFINE k == [l EXCEPT !.stage = "answer"]
<1>1. /\ late' = (late \ {l}) \cup {k}
      /\ posts' = [posts EXCEPT ![l.article][l.surface] = @ + 1]
      /\ UNCHANGED <<now, row, column, inFlight, cyc, uploads, abandoned, faults, overlaps>>
  BY DEF LatePost, counters
<1>2. l \in LateType  BY DEF IInv, TypeOK, LateType
<1>3. k \in LateType /\ k.article = l.article /\ k.surface = l.surface
  BY <1>2 DEF LateType, Stages
<1>. HIDE DEF k
<1>4. posts' \in [Articles -> [SurfaceSet -> Nat]]
  BY <1>1, <1>2 DEF IInv, TypeOK, LateType
<1>5. TypeOK'
  <2>1. late' \subseteq LateType  BY <1>1, <1>3 DEF IInv, TypeOK, LateType
  <2>. QED  BY <1>1, <1>4, <2>1 DEF IInv, TypeOK, LateType
<1>6. k \in late' /\ \A x \in late \ {l} : x \in late'  BY <1>1
<1>7. /\ Shape' /\ Single' /\ Explained' /\ Unpublished' /\ Attempted' /\ StaysPublished
      /\ PendingHasCall'
  BY <1>1, <1>3, <1>6, LateKeeps
<1>. QED  BY <1>5, <1>7 DEF IInv

LEMMA LateReturnStep == ASSUME IInv, NEW l \in late, LateReturn(l) PROVE IInv' /\ StaysPublished
<1>1. /\ late' = late \ {l}
      /\ UNCHANGED <<now, inFlight, cyc, uploads, posts, abandoned, faults, overlaps>>
  BY DEF LateReturn, history, counters
<1>2. PICK st \in {"posted", "failed"} : Note(l.article, l.surface, st)  BY DEF LateReturn
<1>3. l.article \in Articles /\ l.surface \in SurfaceSet  BY DEF IInv, TypeOK
<1>4. /\ column' \in [Articles -> [Columns -> Status]] /\ row' \in [Articles -> RowType]
      /\ \A x \in Articles : row'[x].status = row[x].status /\ row'[x].attempts = row[x].attempts
      /\ \A x \in Articles, k \in Columns :
           x # l.article \/ k # Column[l.surface] => column'[x][k] = column[x][k]
      /\ l.surface \in Fetched => column'[l.article][Column[l.surface]] # "pending"
  BY <1>2, <1>3, NoteIs DEF IInv, Status
<1>5. TypeOK'  BY <1>1, <1>4 DEF IInv, TypeOK, RowType, Status
<1>6. \A k \in late \ {l} : k \in late'  BY <1>1
<1>7. /\ Shape' /\ Single' /\ Explained' /\ Unpublished' /\ Attempted' /\ StaysPublished
      /\ PendingHasCall'
  BY <1>1, <1>4, <1>6, LateKeeps
<1>. QED  BY <1>5, <1>7 DEF IInv

\* The clock, and the guard of a hung run.
LEMMA GuardStep ==
  ASSUME IInv, now' \in Nat, inFlight' \in Nat,
         UNCHANGED <<row, column, cyc, late, uploads, posts, abandoned, faults, overlaps>>
  PROVE  IInv' /\ StaysPublished
<1>1. TypeOK'  BY DEF IInv, TypeOK
<1>2. faults' \in Nat /\ faults' >= faults  BY DEF IInv, TypeOK
<1>3. /\ Shape' /\ Single' /\ Explained' /\ Unpublished' /\ Attempted' /\ StaysPublished
  BY <1>2, QuietStep
<1>4. PendingHasCall'  BY <1>2, CallsKept
<1>. QED  BY <1>1, <1>3, <1>4 DEF IInv

LEMMA TickStep == ASSUME IInv, Tick PROVE IInv' /\ StaysPublished
<1>1. now' \in Nat /\ inFlight' \in Nat  BY DEF Tick, IInv, TypeOK
<1>. QED  BY <1>1, GuardStep DEF Tick, history, counters

LEMMA StartGatedStep == ASSUME IInv, StartGated PROVE IInv' /\ StaysPublished
<1>1. now' \in Nat /\ inFlight' \in Nat  BY DEF StartGated, IInv, TypeOK
<1>. QED  BY <1>1, GuardStep DEF StartGated, history, counters

-----------------------------------------------------------------------------
(* Selection and upload.                                                   *)

LEMMA IdleHas ==
  ASSUME IInv, NEW c \in Cycles, ~Running(c)
  PROVE  cyc[c] = Idle /\ cyc[c].todo = {} /\ cyc[c].pc = "idle"
  BY IdleIs DEF IInv, Shape, Running

LEMMA StartStep == ASSUME IInv, NEW c \in Cycles, Start(c) PROVE IInv' /\ StaysPublished
<1>. USE DEF IInv
<1>. DEFINE w == [Idle EXCEPT !.pc = "pick", !.startedAt = now, !.todo = {a \in Articles : Eligible(a)}]
<1>1. /\ ~Running(c) /\ inFlight' = now /\ cyc' = [cyc EXCEPT ![c] = w]
      /\ UNCHANGED <<now, row, column, late, uploads, posts, abandoned, faults>>
      /\ IF \E d \in Cycles : Running(d) THEN overlaps' = overlaps + 1 ELSE overlaps' = overlaps
  BY DEF Start, history, counters
<1>2. w \in CycType /\ w.pc = "pick" /\ w.todo = {a \in Articles : Eligible(a)}
  BY IdleIs DEF CycType, TypeOK
<1>. HIDE DEF w
<1>3. /\ cyc'[c] = w /\ \A d \in Cycles \ {c} : cyc'[d] = cyc[d]
      /\ cyc' \in [Cycles -> CycType]
  BY <1>1, <1>2, SlotIs
<1>4. cyc[c].todo = {} /\ cyc[c].pc = "idle"  BY <1>1, IdleHas
<1>5. faults \in Nat /\ overlaps \in Nat /\ overlaps' \in Nat /\ overlaps' >= overlaps
  BY <1>1 DEF TypeOK
<1>6. TypeOK'  BY <1>1, <1>3, <1>5 DEF TypeOK, CycType
<1>7. Shape'  BY <1>2, <1>3 DEF Shape, InHand, Stages
<1>8. PendingHasCall'
  <2>1. \A d \in Cycles : cyc[d].pc \in Stages => cyc'[d] = cyc[d]  BY <1>3, <1>4 DEF Stages
  <2>2. faults' \in Nat /\ faults' >= faults  BY <1>1, <1>5
  <2>. HIDE DEF IInv
  <2>. QED  BY <1>1, <2>1, <2>2, CallsKept
<1>9. \A a \in Articles : Eligible(a) => ~Published(a) /\ row[a].attempts < 2
  BY DEF Eligible, Published, Attempted
<1>10. ASSUME NEW a \in Articles
       PROVE  /\ Uploading(a)' = Uploading(a) /\ c \notin Listing(a) /\ c \notin May(a)
              /\ Listing(a)' = IF Eligible(a) THEN Listing(a) \cup {c} ELSE Listing(a)
              /\ May(a)' = IF Eligible(a) THEN May(a) \cup {c} ELSE May(a)
  BY <1>2, <1>3, <1>4 DEF Listing, Uploading, May
<1>11. ASSUME NEW a \in Articles
       PROVE  /\ Cardinality(Uploading(a))' = Cardinality(Uploading(a))
              /\ Cardinality(Listing(a))' =
                   IF Eligible(a) THEN Cardinality(Listing(a)) + 1 ELSE Cardinality(Listing(a))
              /\ Cardinality(May(a))' =
                   IF Eligible(a) THEN Cardinality(May(a)) + 1 ELSE Cardinality(May(a))
              /\ Cardinality(May(a)) \in Nat /\ Cardinality(Listing(a)) \in Nat
              /\ Cardinality(Uploading(a)) \in Nat /\ uploads[a] \in Nat /\ row[a].attempts \in Nat
  <2>1. /\ Cardinality(Listing(a) \cup {c}) = Cardinality(Listing(a)) + 1
        /\ Cardinality(May(a) \cup {c}) = Cardinality(May(a)) + 1
    BY <1>10, SetsAre, FS_AddElement
  <2>. QED  BY <1>10, <2>1, SetsAre DEF TypeOK
<1>12. CASE \E d \in Cycles : Running(d)
  <2>1. overlaps' = overlaps + 1  BY <1>1, <1>12
  <2>2. Single'  BY <1>5, <2>1 DEF Single
  <2>3. Explained' /\ Unpublished' /\ Attempted'
    <3>1. Explained'
      <4>1. \A a \in Articles : uploads[a] + Cardinality(May(a)) <= 1 + faults + overlaps
        BY DEF Explained
      <4>. HIDE DEF IInv
      <4>. QED  BY <1>1, <1>5, <1>11, <2>1, <4>1 DEF Explained
    <3>2. Unpublished'
      <4>. SUFFICES ASSUME NEW a \in Articles
                    PROVE  uploads[a] <= faults + overlaps'
        BY <1>1 DEF Unpublished
      <4>1. uploads[a] + Cardinality(May(a)) <= 1 + faults + overlaps  BY DEF Explained
      <4>. HIDE DEF IInv
      <4>. QED  BY <1>5, <1>11, <2>1, <4>1
    <3>3. Attempted'
      <4>1. \A a \in Articles :
              /\ uploads[a] + Cardinality(Uploading(a)) <= row[a].attempts
              /\ row[a].attempts + Cardinality(Listing(a)) <= 2 + overlaps
              /\ row[a].status = "none" => row[a].attempts = 0
        BY DEF Attempted
      <4>. HIDE DEF IInv
      <4>. QED  BY <1>1, <1>5, <1>11, <2>1, <4>1 DEF Attempted
    <3>. QED  BY <3>1, <3>2, <3>3
  <2>. QED  BY <1>1, <1>6, <1>7, <1>8, <2>2, <2>3 DEF StaysPublished, Published
<1>13. CASE ~\E d \in Cycles : Running(d)
  <2>1. overlaps' = overlaps  BY <1>1, <1>13
  <2>2. \A d \in Cycles : cyc[d].todo = {} /\ cyc[d].pc = "idle"
    BY <1>13, IdleHas
  <2>3. Single'
    BY <1>1, <1>2, <1>3, <1>9, <1>13, <2>2 DEF Single, Running, Published
  <2>4. \A a \in Articles : /\ Listing(a) = {} /\ Uploading(a) = {} /\ May(a) = {}
                            /\ Cardinality(Listing(a)) = 0 /\ Cardinality(May(a)) = 0
    <3>1. \A a \in Articles : Listing(a) = {} /\ Uploading(a) = {} /\ May(a) = {}
      BY <2>2 DEF Listing, Uploading, May
    <3>. QED  BY <3>1, FS_EmptySet
  <2>5. \A a \in Articles : ~Published(a) => uploads[a] <= faults + overlaps
    BY <2>2, <2>4 DEF Unpublished
  <2>6. Explained'
    <3>. SUFFICES ASSUME NEW a \in Articles
                  PROVE  uploads[a] + Cardinality(May(a))' <= 1 + faults + overlaps
      BY <1>1, <2>1 DEF Explained
    <3>1. uploads[a] + Cardinality(May(a)) <= 1 + faults + overlaps  BY DEF Explained
    <3>. HIDE DEF IInv
    <3>. QED  BY <1>5, <1>9, <1>11, <2>4, <2>5, <3>1
  <2>7. Unpublished'
    <3>. SUFFICES ASSUME NEW a \in Articles, ~Published(a)
                  PROVE  uploads[a] <= faults + overlaps
      BY <1>1, <2>1 DEF Unpublished, Published
    <3>. QED  BY <2>5
  <2>8. Attempted'
    <3>1. \A a \in Articles :
            /\ uploads[a] + Cardinality(Uploading(a)) <= row[a].attempts
            /\ row[a].attempts + Cardinality(Listing(a)) <= 2 + overlaps
            /\ row[a].status = "none" => row[a].attempts = 0
      BY DEF Attempted
    <3>2. \A a \in Articles : row[a].attempts + Cardinality(Listing(a))' <= 2 + overlaps
      <4>. TAKE a \in Articles
      <4>1. CASE Eligible(a)
        <5>. HIDE DEF IInv
        <5>. QED  BY <1>5, <1>9, <1>11, <2>4, <4>1
      <4>2. CASE ~Eligible(a)  BY <1>11, <3>1, <4>2
      <4>. QED  BY <4>1, <4>2
    <3>. HIDE DEF IInv
    <3>. QED  BY <1>1, <1>11, <2>1, <3>1, <3>2 DEF Attempted
  <2>. QED  BY <1>1, <1>6, <1>7, <1>8, <2>3, <2>6, <2>7, <2>8 DEF StaysPublished, Published
<1>. QED  BY <1>12, <1>13

Accepted(a) == \E c \in Cycles : cyc[c].pc = "accepted" /\ cyc[c].article = a

\* Steps that take runs out of the count, each for a reason.
LEMMA LeaveStep ==
  ASSUME IInv, faults' \in Nat, faults' >= faults, UNCHANGED <<uploads, overlaps>>,
         \A a \in Articles : /\ Listing(a)' \subseteq Listing(a)
                             /\ Uploading(a)' \subseteq Uploading(a)
                             /\ row'[a].attempts = row[a].attempts
                             /\ row'[a].status = "none" => row[a].status = "none",
         \A a \in Articles : \/ Published(a)' \/ Accepted(a)'
                             \/ faults' > faults
                             \/ \E c \in May(a) : c \notin May(a)'
                             \/ ~Published(a) /\ ~Accepted(a)
  PROVE  Explained' /\ Unpublished' /\ Attempted'
<1>. USE DEF IInv
<1>1. ASSUME NEW a \in Articles
      PROVE  /\ Cardinality(Listing(a)') \in Nat /\ Cardinality(Listing(a)') <= Cardinality(Listing(a))
             /\ Cardinality(Uploading(a)') \in Nat
             /\ Cardinality(Uploading(a)') <= Cardinality(Uploading(a))
             /\ Cardinality(May(a)') \in Nat /\ Cardinality(May(a)') <= Cardinality(May(a))
             /\ May(a) # {} => Cardinality(May(a)) >= 1
             /\ Cardinality(May(a)) \in Nat /\ Cardinality(Listing(a)) \in Nat
             /\ Cardinality(Uploading(a)) \in Nat /\ uploads[a] \in Nat /\ row[a].attempts \in Nat
             /\ uploads[a] + Cardinality(May(a)) <= 1 + faults + overlaps
             /\ uploads[a] + Cardinality(Uploading(a)) <= row[a].attempts
             /\ row[a].attempts + Cardinality(Listing(a)) <= 2 + overlaps
  <2>1. /\ Listing(a)' \in SUBSET Listing(a) /\ Uploading(a)' \in SUBSET Uploading(a)
        /\ May(a)' \in SUBSET May(a)
    BY DEF May
  <2>2. /\ IsFiniteSet(Listing(a)) /\ IsFiniteSet(Uploading(a)) /\ IsFiniteSet(May(a))
        /\ Cardinality(May(a)) \in Nat /\ Cardinality(Listing(a)) \in Nat
        /\ Cardinality(Uploading(a)) \in Nat
    BY SetsAre
  <2>3. /\ IsFiniteSet(Listing(a)') /\ Cardinality(Listing(a)') <= Cardinality(Listing(a))
    BY <2>1, <2>2, FS_Subset
  <2>4. /\ IsFiniteSet(Uploading(a)') /\ Cardinality(Uploading(a)') <= Cardinality(Uploading(a))
    BY <2>1, <2>2, FS_Subset
  <2>5. /\ IsFiniteSet(May(a)') /\ Cardinality(May(a)') <= Cardinality(May(a))
    BY <2>1, <2>2, FS_Subset
  <2>6. May(a) # {} => Cardinality(May(a)) # 0  BY <2>2, FS_EmptySet
  <2>7. /\ Cardinality(Listing(a)') \in Nat /\ Cardinality(Uploading(a)') \in Nat
        /\ Cardinality(May(a)') \in Nat
    BY <2>3, <2>4, <2>5, FS_CardinalityType
  <2>8. uploads[a] \in Nat /\ row[a].attempts \in Nat  BY DEF TypeOK
  <2>9. /\ uploads[a] + Cardinality(May(a)) <= 1 + faults + overlaps
        /\ uploads[a] + Cardinality(Uploading(a)) <= row[a].attempts
        /\ row[a].attempts + Cardinality(Listing(a)) <= 2 + overlaps
    BY DEF Explained, Attempted
  <2>. HIDE DEF IInv
  <2>. QED  BY <2>2, <2>3, <2>4, <2>5, <2>6, <2>7, <2>8, <2>9
<1>2. faults \in Nat /\ overlaps \in Nat  BY DEF TypeOK
<1>3. Explained'
  <2>. HIDE DEF IInv
  <2>1. \A a \in Articles : uploads[a] + Cardinality(May(a)') <= 1 + faults' + overlaps
    BY <1>1, <1>2
  <2>. QED  BY <2>1 DEF Explained
<1>4. Attempted'
  <2>1. \A a \in Articles : row[a].status = "none" => row[a].attempts = 0  BY DEF Attempted
  <2>. HIDE DEF IInv
  <2>. QED  BY <1>1, <1>2, <2>1 DEF Attempted
<1>5. Unpublished'
  <2>. SUFFICES ASSUME NEW a \in Articles, ~Published(a)', May(a)' = {}, ~Accepted(a)'
                PROVE  uploads[a] <= faults' + overlaps
    BY DEF Unpublished, Accepted
  <2>1. CASE May(a) # {} \/ faults' > faults
    <3>. HIDE DEF IInv
    <3>. QED  BY <1>1, <1>2, <2>1
  <2>2. CASE May(a) = {} /\ ~(faults' > faults)
    <3>1. ~Published(a) /\ ~Accepted(a)  BY <2>2
    <3>2. uploads[a] <= faults + overlaps  BY <2>2, <3>1 DEF Unpublished, Accepted
    <3>. HIDE DEF IInv
    <3>. QED  BY <1>1, <1>2, <3>2
  <2>. QED  BY <2>1, <2>2
<1>. QED  BY <1>3, <1>4, <1>5

LEMMA EndStep == ASSUME IInv, NEW c \in Cycles, End(c) PROVE IInv' /\ StaysPublished
<1>. USE DEF IInv
<1>1. /\ cyc[c].pc \in {"pick", "channels"} /\ cyc' = [cyc EXCEPT ![c] = Idle] /\ inFlight' = 0
      /\ UNCHANGED <<now, row, column, late, uploads, posts, abandoned, faults, overlaps>>
  BY DEF End, history, counters
<1>2. /\ cyc'[c] = Idle /\ \A d \in Cycles \ {c} : cyc'[d] = cyc[d]
      /\ cyc' \in [Cycles -> CycType]
  BY <1>1, IdleIs, SlotIs
<1>3. TypeOK'  BY <1>1, <1>2 DEF TypeOK, CycType
<1>4. Shape'  BY <1>2, IdleIs DEF Shape, InHand, Stages
<1>5. Single'  BY <1>1, <1>2, IdleIs DEF Single, Running, Published
<1>6. faults' \in Nat /\ faults' >= faults  BY <1>1 DEF TypeOK
<1>7. PendingHasCall'
  <2>1. \A d \in Cycles : cyc[d].pc \in Stages => cyc'[d] = cyc[d]  BY <1>1, <1>2 DEF Stages
  <2>. HIDE DEF IInv
  <2>. QED  BY <1>1, <1>6, <2>1, CallsKept
<1>8. \A a \in Articles : /\ Listing(a)' \subseteq Listing(a) /\ Uploading(a)' \subseteq Uploading(a)
                          /\ Published(a)' <=> Published(a)
                          /\ Accepted(a) => Accepted(a)'
  <2>1. \A a \in Articles : Listing(a)' \subseteq Listing(a) /\ Uploading(a)' \subseteq Uploading(a)
    BY <1>2, IdleIs DEF Listing, Uploading
  <2>2. \A a \in Articles : Published(a)' <=> Published(a)  BY <1>1 DEF Published
  <2>3. \A a \in Articles : Accepted(a) => Accepted(a)'  BY <1>1, <1>2 DEF Accepted
  <2>. QED  BY <2>1, <2>2, <2>3
<1>9. Explained' /\ Unpublished' /\ Attempted'
  BY <1>1, <1>6, <1>8, LeaveStep
<1>. QED  BY <1>3, <1>4, <1>5, <1>7, <1>8, <1>9 DEF StaysPublished

LEMMA UnrecordedStep == ASSUME IInv, NEW c \in Cycles, Unrecorded(c) PROVE IInv' /\ StaysPublished
<1>. USE DEF IInv
<1>1. /\ cyc[c].pc = "accepted" /\ Fault /\ cyc' = [cyc EXCEPT ![c] = Idle] /\ inFlight' = 0
      /\ UNCHANGED <<now, row, column, late, uploads, posts>>
  BY DEF Unrecorded, history
<1>2. /\ cyc'[c] = Idle /\ \A d \in Cycles \ {c} : cyc'[d] = cyc[d]
      /\ cyc' \in [Cycles -> CycType]
  BY <1>1, IdleIs, SlotIs
<1>3. /\ faults' = faults + 1 /\ faults' \in Nat /\ faults' >= faults /\ faults' > faults
      /\ UNCHANGED <<abandoned, overlaps>>
  BY <1>1, FaultIs DEF TypeOK
<1>4. TypeOK'  BY <1>1, <1>2, <1>3 DEF TypeOK, CycType
<1>5. Shape'  BY <1>2, IdleIs DEF Shape, InHand, Stages
<1>6. Single'  BY <1>1, <1>2, <1>3, IdleIs DEF Single, Running, Published
<1>7. PendingHasCall'
  <2>1. \A d \in Cycles : cyc[d].pc \in Stages => cyc'[d] = cyc[d]  BY <1>1, <1>2 DEF Stages
  <2>. HIDE DEF IInv
  <2>. QED  BY <1>1, <1>3, <2>1, CallsKept
<1>8. \A a \in Articles : Listing(a)' \subseteq Listing(a) /\ Uploading(a)' \subseteq Uploading(a)
  BY <1>2, IdleIs DEF Listing, Uploading
<1>9. Explained' /\ Unpublished' /\ Attempted'
  BY <1>1, <1>3, <1>8, LeaveStep
<1>10. StaysPublished  BY <1>1 DEF StaysPublished, Published
<1>. QED  BY <1>4, <1>5, <1>6, <1>7, <1>9, <1>10

LEMMA CrashStep == ASSUME IInv, Crash PROVE IInv' /\ StaysPublished
<1>. USE DEF IInv
<1>1. /\ Fault /\ cyc' = [c \in Cycles |-> Idle] /\ inFlight' = 0 /\ late' = {}
      /\ UNCHANGED <<now, row, column, uploads, posts>>
  BY DEF Crash, history
<1>2. /\ \A c \in Cycles : cyc'[c] = Idle
      /\ cyc' \in [Cycles -> CycType]
  BY <1>1, IdleIs
<1>3. /\ faults' = faults + 1 /\ faults' \in Nat /\ faults' >= faults /\ faults' > faults
      /\ UNCHANGED <<abandoned, overlaps>>
  BY <1>1, FaultIs DEF TypeOK
<1>4. TypeOK'  BY <1>1, <1>2, <1>3 DEF TypeOK, CycType
<1>5. Shape'  BY <1>2, IdleIs DEF Shape, InHand, Stages
<1>6. Single'  BY <1>2, IdleIs DEF Single, Running
<1>7. PendingHasCall'
  <2>1. faults' > 0  BY <1>3 DEF TypeOK
  <2>. QED  BY <2>1 DEF PendingHasCall
<1>8. \A a \in Articles : Listing(a)' \subseteq Listing(a) /\ Uploading(a)' \subseteq Uploading(a)
  BY <1>2, IdleIs DEF Listing, Uploading
<1>9. Explained' /\ Unpublished' /\ Attempted'
  BY <1>1, <1>3, <1>8, LeaveStep
<1>10. StaysPublished  BY <1>1 DEF StaysPublished, Published
<1>. QED  BY <1>4, <1>5, <1>6, <1>7, <1>9, <1>10

PublishedNext(x) == row'[x].status = "published"

LEMMA ClaimStep == ASSUME IInv, NEW c \in Cycles, Claim(c) PROVE IInv' /\ StaysPublished
<1>. USE DEF IInv
<1>1. PICK a \in cyc[c].todo :
        /\ ClaimVideoPost(a)
        /\ cyc' = [cyc EXCEPT ![c].pc = "upload", ![c].article = a, ![c].todo = @ \ {a}]
  BY DEF Claim
<1>. DEFINE w == [cyc[c] EXCEPT !.pc = "upload", !.article = a, !.todo = @ \ {a}]
<1>2. /\ cyc[c].pc = "pick" /\ cyc' = [cyc EXCEPT ![c] = w]
      /\ UNCHANGED <<now, column, inFlight, late, uploads, posts, abandoned, faults, overlaps>>
  BY <1>1 DEF Claim, history, counters
<1>3. a \in Articles /\ w \in CycType /\ w.pc = "upload" /\ w.article = a /\ w.todo = cyc[c].todo \ {a}
  BY CycIs DEF CycType
<1>. HIDE DEF w
<1>4. /\ cyc'[c] = w /\ \A d \in Cycles \ {c} : cyc'[d] = cyc[d]
      /\ cyc' \in [Cycles -> CycType]
  BY <1>2, <1>3, SlotIs
<1>5. /\ row' \in [Articles -> RowType]
      /\ row'[a].status = "pending" /\ row'[a].attempts = row[a].attempts + 1
      /\ \A x \in Articles \ {a} : row'[x] = row[x]
  <2>. DEFINE n == row[a].attempts + 1
              r == [row[a] EXCEPT !.status = "pending", !.attempts = n, !.updated = now]
  <2>1. row[a] \in RowType /\ now \in Nat /\ n \in Nat  BY <1>3 DEF TypeOK, RowType
  <2>2. r \in RowType /\ r.status = "pending" /\ r.attempts = row[a].attempts + 1
    BY <2>1 DEF RowType
  <2>3. row' = [row EXCEPT ![a] = r]  BY <1>1 DEF ClaimVideoPost
  <2>. HIDE DEF r
  <2>. QED  BY <1>3, <2>2, <2>3 DEF TypeOK, RowType
<1>6. TypeOK'  BY <1>2, <1>4, <1>5 DEF TypeOK, CycType, RowType
<1>7. Shape'  BY <1>3, <1>4 DEF Shape, InHand, Stages
<1>8. /\ ~Published(a)' /\ \A x \in Articles \ {a} : Published(x)' <=> Published(x)
  BY <1>5 DEF Published
<1>9. Single'
  <2>1. Running(c) /\ Running(c)' /\ \A d \in Cycles \ {c} : Running(d)' <=> Running(d)
    BY <1>2, <1>3, <1>4 DEF Running
  <2>2. \A x \in Articles : Published(x)' => Published(x)  BY <1>8
  <2>3. \A d \in Cycles : cyc'[d].todo \subseteq cyc[d].todo /\ cyc[d].todo \subseteq Articles
    BY <1>3, <1>4, CycIs DEF CycType
  <2>. SUFFICES ASSUME overlaps = 0
                PROVE  /\ \A d, e \in Cycles : Running(d)' /\ Running(e)' => d = e
                       /\ \A d \in Cycles :
                            /\ \A x \in cyc'[d].todo : ~Published(x)'
                            /\ cyc'[d].pc \in {"upload", "accepted"} => ~PublishedNext(cyc'[d].article)
    BY <1>2 DEF Single, PublishedNext, Published
  <2>4. \A d, e \in Cycles : Running(d)' /\ Running(e)' => d = e  BY <2>1 DEF Single
  <2>5. \A d \in Cycles : \A x \in cyc'[d].todo : ~Published(x)'  BY <2>2, <2>3 DEF Single
  <2>6. \A d \in Cycles : cyc'[d].pc \in {"upload", "accepted"} => d = c
    BY <2>1, <2>4 DEF Running
  <2>7. \A d \in Cycles : cyc'[d].pc \in {"upload", "accepted"} => ~PublishedNext(cyc'[d].article)
    BY <1>3, <1>4, <1>5, <2>6 DEF PublishedNext
  <2>. QED  BY <2>4, <2>5, <2>7
<1>10. PendingHasCall'
  <2>1. \A d \in Cycles : cyc[d].pc \in Stages => cyc'[d] = cyc[d]  BY <1>2, <1>4 DEF Stages
  <2>2. faults' \in Nat /\ faults' >= faults  BY <1>2 DEF TypeOK
  <2>. HIDE DEF IInv
  <2>. QED  BY <1>2, <2>1, <2>2, CallsKept
<1>11. /\ \A x \in Articles : May(x)' = May(x) /\ (Accepted(x)' <=> Accepted(x))
       /\ \A x \in Articles \ {a} : Listing(x)' = Listing(x) /\ Uploading(x)' = Uploading(x)
       /\ Listing(a)' = Listing(a) \ {c} /\ Uploading(a)' = Uploading(a) \cup {c}
       /\ c \in Listing(a) /\ c \notin Uploading(a) /\ c \in May(a)
  <2>1. \A x \in Articles : Accepted(x)' <=> Accepted(x)  BY <1>2, <1>3, <1>4 DEF Accepted
  <2>2. /\ \A x \in Articles \ {a} : Listing(x)' = Listing(x) /\ Uploading(x)' = Uploading(x)
        /\ Listing(a)' = Listing(a) \ {c} /\ Uploading(a)' = Uploading(a) \cup {c}
        /\ c \in Listing(a) /\ c \notin Uploading(a)
    BY <1>2, <1>3, <1>4 DEF Listing, Uploading
  <2>. QED  BY <2>1, <2>2 DEF May
<1>12. Explained'
  <2>1. \A x \in Articles : Cardinality(May(x))' = Cardinality(May(x))  BY <1>11
  <2>. QED  BY <1>2, <2>1 DEF Explained
<1>13. Unpublished'
  BY <1>2, <1>8, <1>11 DEF Unpublished, Accepted
<1>14. Attempted'
  <2>1. /\ Cardinality(Listing(a))' = Cardinality(Listing(a)) - 1
        /\ Cardinality(Uploading(a))' = Cardinality(Uploading(a)) + 1
        /\ Cardinality(Listing(a)) \in Nat /\ Cardinality(Uploading(a)) \in Nat
    <3>1. Cardinality(Listing(a) \ {c}) = Cardinality(Listing(a)) - 1
      BY <1>11, SetsAre, FS_RemoveElement
    <3>2. Cardinality(Uploading(a) \cup {c}) = Cardinality(Uploading(a)) + 1
      BY <1>11, SetsAre, FS_AddElement
    <3>. QED  BY <1>11, <3>1, <3>2, SetsAre
  <2>2. \A x \in Articles \ {a} : /\ Cardinality(Listing(x))' = Cardinality(Listing(x))
                                  /\ Cardinality(Uploading(x))' = Cardinality(Uploading(x))
    BY <1>11
  <2>3. /\ uploads[a] + Cardinality(Uploading(a)) <= row[a].attempts
        /\ row[a].attempts + Cardinality(Listing(a)) <= 2 + overlaps
        /\ uploads[a] \in Nat /\ row[a].attempts \in Nat /\ overlaps \in Nat
    BY <1>3 DEF Attempted, TypeOK
  <2>4. /\ uploads'[a] + Cardinality(Uploading(a))' <= row'[a].attempts
        /\ row'[a].attempts + Cardinality(Listing(a))' <= 2 + overlaps'
    <3>. HIDE DEF IInv
    <3>. QED  BY <1>2, <1>5, <2>1, <2>3
  <2>5. \A x \in Articles \ {a} :
          /\ uploads'[x] + Cardinality(Uploading(x))' <= row'[x].attempts
          /\ row'[x].attempts + Cardinality(Listing(x))' <= 2 + overlaps'
          /\ row'[x].status = "none" => row'[x].attempts = 0
    BY <1>2, <1>5, <2>2 DEF Attempted
  <2>. QED  BY <1>5, <2>4, <2>5 DEF Attempted
<1>15. StaysPublished
  BY <1>3, <1>8 DEF StaysPublished, Single
<1>. QED  BY <1>6, <1>7, <1>9, <1>10, <1>12, <1>13, <1>14, <1>15

LEMMA AcceptStep == ASSUME IInv, NEW c \in Cycles, Accept(c) PROVE IInv' /\ StaysPublished
<1>. USE DEF IInv
<1>0. PICK a \in Articles \ cyc[c].todo : a = cyc[c].article
  BY DEF Accept, Shape, InHand
<1>. DEFINE w == [cyc[c] EXCEPT !.pc = "accepted"]
<1>1. /\ cyc[c].pc = "upload" /\ cyc' = [cyc EXCEPT ![c] = w]
      /\ uploads' = [uploads EXCEPT ![a] = @ + 1]
      /\ UNCHANGED <<now, row, column, inFlight, late, posts, abandoned, faults, overlaps>>
  BY <1>0 DEF Accept, counters
<1>2. a \in Articles \ cyc[c].todo /\ a = cyc[c].article  BY <1>0
<1>3. w \in CycType /\ w.pc = "accepted" /\ w.article = a /\ w.todo = cyc[c].todo
  BY <1>0, CycIs DEF CycType
<1>. HIDE DEF w
<1>4. /\ cyc'[c] = w /\ \A d \in Cycles \ {c} : cyc'[d] = cyc[d]
      /\ cyc' \in [Cycles -> CycType]
  BY <1>1, <1>3, SlotIs
<1>5. uploads' \in [Articles -> Nat] /\ uploads'[a] = uploads[a] + 1
      /\ \A x \in Articles \ {a} : uploads'[x] = uploads[x]
  BY <1>1, <1>2 DEF TypeOK
<1>6. TypeOK'  BY <1>1, <1>4, <1>5 DEF TypeOK, CycType
<1>7. Shape'  BY <1>2, <1>3, <1>4 DEF Shape, InHand, Stages
<1>8. Single'
  <2>1. \A d \in Cycles : /\ Running(d)' <=> Running(d) /\ cyc'[d].todo = cyc[d].todo
                          /\ cyc'[d].article = cyc[d].article
                          /\ cyc'[d].pc \in {"upload", "accepted"} => cyc[d].pc \in {"upload", "accepted"}
    BY <1>1, <1>2, <1>3, <1>4 DEF Running
  <2>2. ASSUME overlaps = 0
        PROVE  /\ \A d \in Cycles : \A x \in cyc'[d].todo : ~Published(x)'
               /\ \A d, e \in Cycles : Running(d)' /\ Running(e)' => d = e
    <3>1. \A d, e \in Cycles : Running(d)' /\ Running(e)' => d = e
      BY <2>1, <2>2 DEF Single
    <3>2. \A d \in Cycles : \A x \in cyc[d].todo : ~Published(x)  BY <2>2 DEF Single
    <3>3. \A d \in Cycles : \A x \in cyc'[d].todo : ~Published(x)'
      <4>1. ASSUME NEW d \in Cycles, NEW x \in cyc'[d].todo PROVE row'[x].status # "published"
        <5>1. x \in cyc[d].todo  BY <1>3, <1>4
        <5>2. ~Published(x)  BY <3>2, <5>1
        <5>. QED  BY <1>1, <5>2 DEF Published
      <4>. QED  BY <4>1 DEF Published
    <3>. QED  BY <3>1, <3>3
  <2>3. ASSUME overlaps = 0, NEW d \in Cycles, cyc'[d].pc \in {"upload", "accepted"}
        PROVE  (~Published(cyc[d].article))'
    <3>1. row[cyc[d].article].status # "published"  BY <2>1, <2>3 DEF Single, Published
    <3>. QED  BY <1>1, <2>1, <3>1 DEF Published
  <2>. QED  BY <1>1, <2>2, <2>3 DEF Single
<1>9. PendingHasCall'
  <2>1. \A d \in Cycles : cyc[d].pc \in Stages => cyc'[d] = cyc[d]  BY <1>1, <1>4 DEF Stages
  <2>2. faults' \in Nat /\ faults' >= faults  BY <1>1 DEF TypeOK
  <2>. HIDE DEF IInv
  <2>. QED  BY <1>1, <2>1, <2>2, CallsKept
<1>10. /\ \A x \in Articles : Listing(x)' = Listing(x)
       /\ \A x \in Articles \ {a} : Uploading(x)' = Uploading(x) /\ May(x)' = May(x)
       /\ Uploading(a)' = Uploading(a) \ {c} /\ c \in Uploading(a)
       /\ May(a)' = May(a) \ {c} /\ c \in May(a)
  <2>1. /\ \A x \in Articles : Listing(x)' = Listing(x)
        /\ \A x \in Articles \ {a} : Uploading(x)' = Uploading(x)
        /\ Uploading(a)' = Uploading(a) \ {c} /\ c \in Uploading(a) /\ c \notin Listing(a)
    BY <1>1, <1>2, <1>3, <1>4 DEF Listing, Uploading
  <2>. QED  BY <2>1 DEF May
<1>11. /\ Cardinality(Uploading(a))' = Cardinality(Uploading(a)) - 1
       /\ Cardinality(May(a))' = Cardinality(May(a)) - 1
       /\ Cardinality(May(a)) \in Nat /\ Cardinality(Uploading(a)) \in Nat
       /\ uploads[a] \in Nat /\ row[a].attempts \in Nat /\ faults \in Nat /\ overlaps \in Nat
  <2>1. Cardinality(Uploading(a))' = Cardinality(Uploading(a)) - 1
    BY <1>10, SetsAre, FS_RemoveElement
  <2>2. Cardinality(May(a))' = Cardinality(May(a)) - 1
    BY <1>10, SetsAre, FS_RemoveElement
  <2>. QED  BY <1>2, <2>1, <2>2, SetsAre DEF TypeOK
<1>12. Explained'
  <2>1. uploads[a] + Cardinality(May(a)) <= 1 + faults + overlaps  BY <1>2 DEF Explained
  <2>2. uploads'[a] + Cardinality(May(a))' <= 1 + faults + overlaps
    <3>. HIDE DEF IInv
    <3>. QED  BY <1>5, <1>11, <2>1
  <2>3. \A x \in Articles \ {a} : Cardinality(May(x))' = Cardinality(May(x))  BY <1>10
  <2>. QED  BY <1>1, <1>5, <2>2, <2>3 DEF Explained
<1>13. Unpublished'
  <2>1. Accepted(a)'  BY <1>3, <1>4 DEF Accepted
  <2>2. \A x \in Articles \ {a} : Accepted(x) => Accepted(x)'
    BY <1>1, <1>4 DEF Accepted
  <2>. QED  BY <1>1, <1>5, <1>10, <2>1, <2>2 DEF Unpublished, Accepted, Published
<1>14. Attempted'
  <2>1. uploads[a] + Cardinality(Uploading(a)) <= row[a].attempts  BY <1>2 DEF Attempted
  <2>2. uploads'[a] + Cardinality(Uploading(a))' <= row[a].attempts
    <3>. HIDE DEF IInv
    <3>. QED  BY <1>5, <1>11, <2>1
  <2>3. \A x \in Articles : Cardinality(Listing(x))' = Cardinality(Listing(x))  BY <1>10
  <2>4. \A x \in Articles \ {a} : Cardinality(Uploading(x))' = Cardinality(Uploading(x))  BY <1>10
  <2>. QED  BY <1>1, <1>5, <2>2, <2>3, <2>4 DEF Attempted
<1>15. StaysPublished  BY <1>1 DEF StaysPublished, Published
<1>. QED  BY <1>6, <1>7, <1>8, <1>9, <1>12, <1>13, <1>14, <1>15

LEMMA RecordStep == ASSUME IInv, NEW c \in Cycles, Record(c) PROVE IInv' /\ StaysPublished
<1>. USE DEF IInv
<1>0. PICK a \in Articles \ cyc[c].todo : a = cyc[c].article
  BY DEF Record, Shape, InHand
<1>. DEFINE w == [cyc[c] EXCEPT !.pc = "channels", !.step = 1]
<1>1. /\ cyc[c].pc = "accepted" /\ cyc' = [cyc EXCEPT ![c] = w]
      /\ row' = [row EXCEPT ![a] = [@ EXCEPT !.status = "published", !.published = now, !.updated = 0]]
      /\ UNCHANGED <<now, column, inFlight, late, uploads, posts, abandoned, faults, overlaps>>
  BY <1>0 DEF Record, history, counters
<1>2. a \in Articles \ cyc[c].todo /\ a = cyc[c].article  BY <1>0
<1>3. w \in CycType /\ w.pc = "channels" /\ w.article = a /\ w.todo = cyc[c].todo
  <2>1. 1 \in 1 .. Len(Surfaces) + 1  BY SurfacesAssumption
  <2>. QED  BY <1>0, <2>1, CycIs DEF CycType
<1>. HIDE DEF w
<1>4. /\ cyc'[c] = w /\ \A d \in Cycles \ {c} : cyc'[d] = cyc[d]
      /\ cyc' \in [Cycles -> CycType]
  BY <1>1, <1>3, SlotIs
<1>5. /\ row' \in [Articles -> RowType]
      /\ row'[a].status = "published" /\ row'[a].attempts = row[a].attempts
      /\ \A x \in Articles \ {a} : row'[x] = row[x]
  <2>1. row[a] \in RowType /\ now \in Nat  BY <1>2 DEF TypeOK, RowType
  <2>. DEFINE r == [row[a] EXCEPT !.status = "published", !.published = now, !.updated = 0]
  <2>2. r \in RowType /\ r.status = "published" /\ r.attempts = row[a].attempts
    BY <2>1 DEF RowType
  <2>3. row' = [row EXCEPT ![a] = r]  BY <1>1
  <2>. HIDE DEF r
  <2>. QED  BY <1>2, <2>2, <2>3 DEF TypeOK, RowType
<1>6. TypeOK'  BY <1>1, <1>4, <1>5 DEF TypeOK, CycType, RowType
<1>7. Shape'  BY <1>2, <1>3, <1>4 DEF Shape, InHand, Stages
<1>8. Published(a)' /\ \A x \in Articles \ {a} : Published(x)' <=> Published(x)
  BY <1>5 DEF Published
<1>9. Single'
  <2>. SUFFICES ASSUME overlaps = 0
                PROVE  /\ \A d, e \in Cycles : Running(d)' /\ Running(e)' => d = e
                       /\ \A d \in Cycles :
                            /\ \A x \in cyc'[d].todo : ~Published(x)'
                            /\ cyc'[d].pc \in {"upload", "accepted"} => ~PublishedNext(cyc'[d].article)
    BY <1>1 DEF Single, PublishedNext, Published
  <2>1. \A d \in Cycles \ {c} : ~Running(d)  BY <1>1 DEF Single, Running
  <2>2. \A d \in Cycles \ {c} : cyc'[d].todo = {} /\ cyc'[d].pc = "idle"
    BY <1>4, <2>1, IdleHas
  <2>3. \A x \in cyc'[c].todo : ~Published(x)'
    BY <1>2, <1>3, <1>4, <1>8, CycIs DEF Single, CycType
  <2>. QED  BY <1>3, <1>4, <2>2, <2>3 DEF Running
<1>10. PendingHasCall'
  <2>1. \A d \in Cycles : cyc[d].pc \in Stages => cyc'[d] = cyc[d]  BY <1>1, <1>4 DEF Stages
  <2>2. faults' \in Nat /\ faults' >= faults  BY <1>1 DEF TypeOK
  <2>. HIDE DEF IInv
  <2>. QED  BY <1>1, <2>1, <2>2, CallsKept
<1>11. Explained' /\ Unpublished' /\ Attempted'
  <2>1. \A x \in Articles : Listing(x)' \subseteq Listing(x) /\ Uploading(x)' \subseteq Uploading(x)
    BY <1>3, <1>4 DEF Listing, Uploading
  <2>2. \A x \in Articles \ {a} : Accepted(x) => Accepted(x)'  BY <1>2, <1>4 DEF Accepted
  <2>3. \A x \in Articles : /\ row'[x].attempts = row[x].attempts
                            /\ row'[x].status = "none" => row[x].status = "none"
    BY <1>5
  <2>4. faults' \in Nat /\ faults' >= faults  BY <1>1 DEF TypeOK
  <2>5. \A x \in Articles : Published(x)' \/ Accepted(x)' \/ (~Published(x) /\ ~Accepted(x))
    BY <1>8, <2>2
  <2>. HIDE DEF IInv
  <2>. QED  BY <1>1, <2>1, <2>3, <2>4, <2>5, LeaveStep
<1>12. StaysPublished  BY <1>8 DEF StaysPublished
<1>. QED  BY <1>6, <1>7, <1>9, <1>10, <1>11, <1>12

LEMMA UploadFailsStep == ASSUME IInv, NEW c \in Cycles, UploadFails(c) PROVE IInv' /\ StaysPublished
<1>. USE DEF IInv
<1>0. PICK a \in Articles \ cyc[c].todo : a = cyc[c].article
  BY DEF UploadFails, Shape, InHand
<1>. DEFINE w == [cyc[c] EXCEPT !.pc = "pick", !.article = None]
<1>1. /\ cyc' = [cyc EXCEPT ![c] = w]
      /\ row' = [row EXCEPT ![a] = [@ EXCEPT !.status = "failed", !.updated = 0]]
      /\ UNCHANGED <<now, column, inFlight, late, uploads, posts>>
  BY <1>0 DEF UploadFails, MarkVideoFailed, history
<1>2. /\ cyc[c].pc \in {"upload", "accepted"} /\ cyc[c].article = a
      /\ faults' \in Nat /\ faults' >= faults /\ UNCHANGED <<abandoned, overlaps>>
      /\ cyc[c].pc = "accepted" => faults' > faults
  <2>1. CASE cyc[c].pc = "upload" /\ UNCHANGED counters  BY <1>0, <2>1 DEF TypeOK, counters
  <2>2. CASE cyc[c].pc = "accepted" /\ Fault
    <3>1. faults' = faults + 1 /\ UNCHANGED <<abandoned, overlaps>>  BY <2>2, FaultIs
    <3>. QED  BY <1>0, <2>2, <3>1 DEF TypeOK
  <2>. QED  BY <2>1, <2>2 DEF UploadFails
<1>3. a \in Articles \ cyc[c].todo /\ a = cyc[c].article  BY <1>0
<1>4. w \in CycType /\ w.pc = "pick" /\ w.article = None /\ w.todo = cyc[c].todo
  BY CycIs DEF CycType
<1>. HIDE DEF w
<1>5. /\ cyc'[c] = w /\ \A d \in Cycles \ {c} : cyc'[d] = cyc[d]
      /\ cyc' \in [Cycles -> CycType]
  BY <1>1, <1>4, SlotIs
<1>6. /\ row' \in [Articles -> RowType]
      /\ row'[a].status = "failed" /\ row'[a].attempts = row[a].attempts
      /\ \A x \in Articles \ {a} : row'[x] = row[x]
  <2>1. row[a] \in RowType  BY <1>3 DEF TypeOK, RowType
  <2>. DEFINE r == [row[a] EXCEPT !.status = "failed", !.updated = 0]
  <2>2. r \in RowType /\ r.status = "failed" /\ r.attempts = row[a].attempts
    BY <2>1 DEF RowType
  <2>3. row' = [row EXCEPT ![a] = r]  BY <1>1
  <2>. HIDE DEF r
  <2>. QED  BY <1>3, <2>2, <2>3 DEF TypeOK, RowType
<1>7. TypeOK'  BY <1>1, <1>2, <1>5, <1>6 DEF TypeOK, CycType, RowType
<1>8. Shape'  BY <1>4, <1>5 DEF Shape, InHand, Stages
<1>9. ~Published(a)' /\ \A x \in Articles \ {a} : Published(x)' <=> Published(x)
  BY <1>6 DEF Published
<1>10. Single'
  <2>. SUFFICES ASSUME overlaps = 0
                PROVE  /\ \A d, e \in Cycles : Running(d)' /\ Running(e)' => d = e
                       /\ \A d \in Cycles :
                            /\ \A x \in cyc'[d].todo : ~Published(x)'
                            /\ cyc'[d].pc \in {"upload", "accepted"} => ~PublishedNext(cyc'[d].article)
    BY <1>2 DEF Single, PublishedNext, Published
  <2>1. \A d \in Cycles \ {c} : ~Running(d)  BY <1>2 DEF Single, Running
  <2>2. \A d \in Cycles \ {c} : cyc'[d].todo = {} /\ cyc'[d].pc = "idle"
    BY <1>5, <2>1, IdleHas
  <2>3. \A x \in cyc'[c].todo : ~Published(x)'
    BY <1>3, <1>4, <1>5, <1>9, CycIs DEF Single, CycType
  <2>. QED  BY <1>4, <1>5, <2>2, <2>3 DEF Running
<1>11. PendingHasCall'
  <2>1. \A d \in Cycles : cyc[d].pc \in Stages => cyc'[d] = cyc[d]  BY <1>2, <1>5 DEF Stages
  <2>. HIDE DEF IInv
  <2>. QED  BY <1>1, <1>2, <2>1, CallsKept
<1>12. Explained' /\ Unpublished' /\ Attempted'
  <2>1. \A x \in Articles : Listing(x)' \subseteq Listing(x) /\ Uploading(x)' \subseteq Uploading(x)
    BY <1>4, <1>5 DEF Listing, Uploading
  <2>2. \A x \in Articles \ {a} : Accepted(x) => Accepted(x)'  BY <1>3, <1>5 DEF Accepted
  <2>3. \A x \in Articles : /\ row'[x].attempts = row[x].attempts
                            /\ row'[x].status = "none" => row[x].status = "none"
    BY <1>6
  <2>4. faults' > faults \/ (c \in May(a) /\ c \notin May(a)')
    BY <1>2, <1>3, <1>4, <1>5 DEF May, Listing, Uploading
  <2>5. \A x \in Articles : \/ Published(x)' \/ Accepted(x)'
                            \/ faults' > faults
                            \/ \E d \in May(x) : d \notin May(x)'
                            \/ ~Published(x) /\ ~Accepted(x)
    BY <1>9, <2>2, <2>4
  <2>. HIDE DEF IInv
  <2>. QED  BY <1>1, <1>2, <2>1, <2>3, <2>5, LeaveStep
<1>13. StaysPublished  BY <1>2, <1>9 DEF StaysPublished, Single
<1>. QED  BY <1>7, <1>8, <1>10, <1>11, <1>12, <1>13

-----------------------------------------------------------------------------
LEMMA StutterStep == ASSUME IInv, UNCHANGED vars PROVE IInv' /\ StaysPublished
<1>1. now' \in Nat /\ inFlight' \in Nat  BY DEF vars, IInv, TypeOK
<1>. QED  BY <1>1, GuardStep DEF vars, history, counters

LEMMA NextStep == ASSUME IInv, [Next]_vars PROVE IInv' /\ StaysPublished
<1>1. ASSUME NEW c \in Cycles, VideoCycle(c) PROVE IInv' /\ StaysPublished
  BY <1>1, StartStep, ClaimStep, AcceptStep, RecordStep, UploadFailsStep, UnrecordedStep,
     SkipStep, BeginStep, PostStep, AnsweredStep, CallFailsStep, AbandonStep, EndStep
  DEF VideoCycle
<1>2. ASSUME NEW l \in late, LatePost(l) \/ LateReturn(l) PROVE IInv' /\ StaysPublished
  BY <1>2, LatePostStep, LateReturnStep
<1>. QED  BY <1>1, <1>2, StartGatedStep, CrashStep, TickStep, StutterStep DEF Next

LEMMA Invariant == Spec => []IInv
  BY InitHolds, NextStep, PTL DEF Spec

\* The uploads are accounted for: a video goes up again only for a crash, a lost
\* answer, a failed write or an overlap, and never without an attempt of its own
\* on the row, of which there are two (claimVideoPost, findFreshUnvideoedArticles).
THEOREM UploadsKeptHolds == Spec => []UploadsKept
<1>1. IInv => UploadsKept
  <2>. SUFFICES ASSUME IInv, NEW a \in Articles
                PROVE  /\ uploads[a] <= 1 + faults + overlaps
                       /\ uploads[a] <= row[a].attempts /\ row[a].attempts <= 2 + overlaps
    BY DEF UploadsKept, UploadsExplained, ClaimedFirst
  <2>1. /\ uploads[a] \in Nat /\ row[a].attempts \in Nat /\ faults \in Nat /\ overlaps \in Nat
        /\ Cardinality(May(a)) \in Nat /\ Cardinality(Uploading(a)) \in Nat
        /\ Cardinality(Listing(a)) \in Nat
    BY SetsAre DEF IInv, TypeOK
  <2>2. /\ uploads[a] + Cardinality(May(a)) <= 1 + faults + overlaps
        /\ uploads[a] + Cardinality(Uploading(a)) <= row[a].attempts
        /\ row[a].attempts + Cardinality(Listing(a)) <= 2 + overlaps
    BY DEF IInv, Explained, Attempted
  <2>. HIDE DEF IInv
  <2>. QED  BY <2>1, <2>2
<1>. QED  BY <1>1, Invariant, PTL

\* The rows have their types and a row pending on a URL-fetch surface has a call
\* under way, unless a fault left it behind ("OFF 'pending' ON EVERY TERMINAL PATH").
THEOREM PostsInvHolds == Spec => []PostsInv
<1>1. IInv => PostsInv  BY DEF IInv, PostsInv
<1>. QED  BY <1>1, Invariant, PTL

\* Without overlapping runs a published row stays published, whatever the
\* surfaces, their deadlines and their late answers do.
THEOREM PublishedStaysHolds == Spec => PublishedStays
<1>1. IInv /\ [Next]_vars
        => [\A a \in Articles : overlaps = 0 /\ Published(a) => Published(a)']_vars
  BY NextStep DEF StaysPublished
<1>. QED  BY <1>1, Invariant, PTL DEF Spec, PublishedStays

-----------------------------------------------------------------------------
(* The pace.  How many posts a surface may hold is decided when a call      *)
(* begins, on rows that other runs and abandoned calls change afterwards.   *)
(* The posts the loop has lost track of (Lost) are charged to the           *)
(* deadlines, faults and overlaps, together with the runs that can still    *)
(* reach the surface (Ahead) and, among them, those that hold an article    *)
(* that is there already (Stale).  A row that is published again, late,     *)
(* brings its old posts back into the window: by then every post in it was  *)
(* made since that run began, by a run beside it (RunsInv).                 *)

Pre == {"pick", "upload", "accepted"}
Mid == {"channels"} \cup Stages

Lapses == abandoned + faults + overlaps

Ever(a)       == row[a].published > 0
AcceptedBy(a) == {c \in Cycles : cyc[c].pc = "accepted" /\ cyc[c].article = a}

EverCount(a) == IF Ever(a) THEN 1 ELSE 0

RowsInv ==
  /\ now > 0
  /\ \A a \in Articles :
       /\ row[a].published <= now
       /\ Published(a) => Ever(a)
       /\ Ever(a) => Published(a) \/ row[a].attempts >= 2
       /\ Cardinality(AcceptedBy(a)) + EverCount(a) <= uploads[a]

\* What a run may still upload was not published when it began.
MayTake(c, a) == cyc[c].pc \in Pre /\ (a \in cyc[c].todo \/ a = cyc[c].article)
SinceInv ==
  \A c \in Cycles :
    /\ cyc[c].startedAt <= now
    /\ \A a \in Articles :
         MayTake(c, a) /\ Ever(a) => row[a].published >= cyc[c].startedAt

At(c, s)       == cyc[c].pc \in Stages /\ AtSurface(c, s)
Holds(c, a, s) == cyc[c].article = a /\ At(c, s)
LateAt(a, s)   == \E l \in late : l.article = a /\ l.surface = s
Touched(a, s)  == posts[a][s] > 0 \/ LateAt(a, s)

EverInv ==
  /\ \A c \in Cycles, a \in Articles : cyc[c].pc \in Mid /\ cyc[c].article = a => Ever(a)
  /\ \A a \in Articles, s \in SurfaceSet : Touched(a, s) => Ever(a) /\ Cap[s] > 0
  /\ \A c \in Cycles, s \in SurfaceSet : At(c, s) => Cap[s] > 0

Runs      == {c \in Cycles : Running(c)}
Since(c)  == {a \in Articles : row[a].published > cyc[c].startedAt}
Beside(c) == {d \in Cycles \ {c} : cyc[d].pc \in Pre}
RunsInv ==
  /\ Cardinality(Runs) <= 1 + overlaps
  /\ \A c \in Cycles :
       cyc[c].pc \in Pre => Cardinality(Since(c)) + Cardinality(Beside(c)) <= overlaps

\* Runs that surface s is still ahead of, or whose call is at it.
Reaches(c, s) ==
  \/ cyc[c].pc \in Pre
  \/ cyc[c].pc \in Mid /\ \E i \in DOMAIN Surfaces : i >= cyc[c].step /\ Surfaces[i] = s
Takes(c, a) == a = cyc[c].article \/ (cyc[c].pc \in Pre /\ a \in cyc[c].todo)
Ahead(s) == {c \in Cycles : Reaches(c, s)}
Stale(s) == {c \in Ahead(s) : /\ ~(cyc[c].pc = "answer" /\ AtSurface(c, s))
                              /\ \E a \in Articles : Touched(a, s) /\ Takes(c, a)}
Lost(s)  == {a \in Articles : \/ LateAt(a, s)
                              \/ /\ posts[a][s] > 0 /\ column[a][Column[s]] # "posted"
                                 /\ \A c \in Cycles : ~Holds(c, a, s)}
LostAt(s) ==
  /\ Cardinality(Lost(s)) + Cardinality(Stale(s)) <= Lapses
  /\ Ahead(s) # {} => Cardinality(Lost(s)) + Cardinality(Ahead(s)) <= Lapses + 1

\* Posts of the window, made or under way.
Claims(s) == {a \in Articles : /\ row[a].published + Day > now
                               /\ Touched(a, s) \/ \E c \in Cycles : Holds(c, a, s)}
ClaimsAt(s) == Cardinality(Claims(s)) <= Cap[s] + Lapses

PaceInv ==
  overlaps = 0 => /\ \A c \in Cycles : cyc[c].pc \in Pre => RateOpen
                  /\ RateHolds

Paces == /\ RowsInv /\ SinceInv /\ EverInv /\ RunsInv /\ PaceInv
         /\ \A s \in Recording : LostAt(s) /\ ClaimsAt(s)

LEMMA FiniteIs ==
  ASSUME NEW S, S \subseteq Articles \/ S \subseteq Cycles
  PROVE  IsFiniteSet(S) /\ Cardinality(S) \in Nat
<1>1. IsFiniteSet(S)  BY SetsAssumption, FS_Subset
<1>. QED  BY <1>1, FS_CardinalityType

LEMMA NoMore ==
  ASSUME NEW T, IsFiniteSet(T), NEW S, S \subseteq T
  PROVE  /\ Cardinality(S) \in Nat /\ Cardinality(T) \in Nat
         /\ Cardinality(S) <= Cardinality(T)
<1>1. IsFiniteSet(S) /\ Cardinality(S) <= Cardinality(T)  BY FS_Subset
<1>. QED  BY <1>1, FS_CardinalityType

LEMMA OneMore ==
  ASSUME NEW T, IsFiniteSet(T), NEW x, NEW S, S \subseteq T \cup {x}
  PROVE  /\ Cardinality(S) \in Nat /\ Cardinality(T) \in Nat
         /\ Cardinality(S) <= Cardinality(T) + 1
<1>1. IsFiniteSet(T \cup {x}) /\ Cardinality(T) \in Nat
  BY FS_AddElement, FS_CardinalityType
<1>2. Cardinality(T \cup {x}) <= Cardinality(T) + 1  BY <1>1, FS_AddElement
<1>3. /\ Cardinality(S) \in Nat /\ Cardinality(T \cup {x}) \in Nat
      /\ Cardinality(S) <= Cardinality(T \cup {x})
  BY <1>1, NoMore
<1>. QED  BY <1>1, <1>2, <1>3

LEMMA OneLess ==
  ASSUME NEW T, IsFiniteSet(T), NEW x \in T, NEW S, S \subseteq T \ {x}
  PROVE  /\ Cardinality(S) \in Nat /\ Cardinality(T) \in Nat
         /\ Cardinality(S) + 1 <= Cardinality(T)
<1>1. /\ IsFiniteSet(T \ {x}) /\ Cardinality(T \ {x}) = Cardinality(T) - 1
      /\ Cardinality(T) \in Nat
  BY FS_RemoveElement, FS_CardinalityType
<1>2. /\ Cardinality(S) \in Nat /\ Cardinality(T \ {x}) \in Nat
      /\ Cardinality(S) <= Cardinality(T \ {x})
  BY <1>1, NoMore
<1>. QED  BY <1>1, <1>2

LEMMA LapsesAre == ASSUME TypeOK PROVE Lapses \in Nat /\ overlaps <= Lapses
  BY DEF TypeOK, Lapses

LEMMA SetsOfS ==
  ASSUME NEW s
  PROVE  /\ IsFiniteSet(Lost(s)) /\ Cardinality(Lost(s)) \in Nat
         /\ IsFiniteSet(Stale(s)) /\ Cardinality(Stale(s)) \in Nat
         /\ IsFiniteSet(Ahead(s)) /\ Cardinality(Ahead(s)) \in Nat
         /\ IsFiniteSet(Claims(s)) /\ Cardinality(Claims(s)) \in Nat
         /\ Stale(s) \subseteq Ahead(s) /\ Ahead(s) \subseteq Cycles
<1>1. /\ Lost(s) \subseteq Articles /\ Claims(s) \subseteq Articles
      /\ Stale(s) \subseteq Ahead(s) /\ Ahead(s) \subseteq Cycles /\ Stale(s) \subseteq Cycles
  BY DEF Lost, Claims, Stale, Ahead
<1>. QED  BY <1>1, FiniteIs

(* The four ways a step changes what is lost and who is ahead.             *)

LEMMA LostKept ==
  ASSUME NEW s, LostAt(s), Lapses \in Nat, Lapses' \in Nat, Lapses' >= Lapses,
         Lost(s)' \subseteq Lost(s), Ahead(s)' \subseteq Ahead(s), Stale(s)' \subseteq Stale(s)
  PROVE  LostAt(s)'
<1>1. /\ Cardinality(Lost(s)') <= Cardinality(Lost(s)) /\ Cardinality(Lost(s)') \in Nat
      /\ Cardinality(Ahead(s)') <= Cardinality(Ahead(s)) /\ Cardinality(Ahead(s)') \in Nat
      /\ Cardinality(Stale(s)') <= Cardinality(Stale(s)) /\ Cardinality(Stale(s)') \in Nat
  BY SetsOfS, NoMore
<1>2. Ahead(s)' # {} => Ahead(s) # {}  OBVIOUS
<1>. QED  BY <1>1, <1>2, SetsOfS DEF LostAt

\* A run passes the surface and loses its article's post, or does not.
LEMMA LostPasses ==
  ASSUME NEW s, NEW c, NEW a, LostAt(s), Lapses \in Nat, Lapses' \in Nat,
         c \in Ahead(s), Ahead(s)' \subseteq Ahead(s) \ {c}, Lost(s)' \subseteq Lost(s) \cup {a},
         \/ Lapses' >= Lapses /\ c \in Stale(s) /\ Stale(s)' \subseteq Stale(s) \ {c}
         \/ Lapses' >= Lapses + 1
  PROVE  LostAt(s)'
<1>1. /\ Cardinality(Lost(s)') <= Cardinality(Lost(s)) + 1 /\ Cardinality(Lost(s)') \in Nat
      /\ Cardinality(Ahead(s)') + 1 <= Cardinality(Ahead(s)) /\ Cardinality(Ahead(s)') \in Nat
  BY SetsOfS, OneMore, OneLess
<1>2. /\ Cardinality(Lost(s)) + Cardinality(Ahead(s)) <= Lapses + 1
      /\ Cardinality(Lost(s)) + Cardinality(Stale(s)) <= Lapses
  BY DEF LostAt
<1>3. Cardinality(Lost(s)') + Cardinality(Ahead(s)') <= Lapses' + 1  BY <1>1, <1>2, SetsOfS
<1>4. Cardinality(Lost(s)') + Cardinality(Stale(s)') <= Lapses'
  <2>1. CASE Lapses' >= Lapses /\ c \in Stale(s) /\ Stale(s)' \subseteq Stale(s) \ {c}
    <3>1. Cardinality(Stale(s)') + 1 <= Cardinality(Stale(s)) /\ Cardinality(Stale(s)') \in Nat
      BY <2>1, SetsOfS, OneLess
    <3>. QED  BY <1>1, <1>2, <2>1, <3>1, SetsOfS
  <2>2. CASE Lapses' >= Lapses + 1
    <3>1. /\ Cardinality(Stale(s)') <= Cardinality(Ahead(s)') /\ Cardinality(Stale(s)') \in Nat
      <4>1. Stale(s)' \subseteq Ahead(s)'  BY DEF Stale
      <4>2. IsFiniteSet(Ahead(s)')  BY SetsOfS, FS_Subset
      <4>. QED  BY <4>1, <4>2, NoMore
    <3>. QED  BY <1>1, <1>2, <2>2, <3>1, SetsOfS
  <2>. QED  BY <2>1, <2>2
<1>. QED  BY <1>3, <1>4 DEF LostAt

\* Another surface's deadline marks the column both share.
LEMMA LostShared ==
  ASSUME NEW s, NEW a, LostAt(s), Lapses \in Nat, Lapses' \in Nat, Lapses' >= Lapses + 1,
         Lost(s)' \subseteq Lost(s) \cup {a}, Ahead(s)' \subseteq Ahead(s),
         Stale(s)' \subseteq Stale(s)
  PROVE  LostAt(s)'
<1>1. /\ Cardinality(Lost(s)') <= Cardinality(Lost(s)) + 1 /\ Cardinality(Lost(s)') \in Nat
      /\ Cardinality(Ahead(s)') <= Cardinality(Ahead(s)) /\ Cardinality(Ahead(s)') \in Nat
      /\ Cardinality(Stale(s)') <= Cardinality(Stale(s)) /\ Cardinality(Stale(s)') \in Nat
  BY SetsOfS, NoMore, OneMore
<1>2. Ahead(s)' # {} => Ahead(s) # {}  OBVIOUS
<1>. QED  BY <1>1, <1>2, SetsOfS DEF LostAt

\* A post goes out: the other runs that take its article become stale.
LEMMA LostPosts ==
  ASSUME NEW s, NEW c, LostAt(s), Lapses \in Nat, Lapses' \in Nat, Lapses' >= Lapses,
         c \in Ahead(s), Ahead(s)' \subseteq Ahead(s), Lost(s)' \subseteq Lost(s),
         Stale(s)' \subseteq Ahead(s) \ {c}
  PROVE  LostAt(s)'
<1>1. /\ Cardinality(Lost(s)') <= Cardinality(Lost(s)) /\ Cardinality(Lost(s)') \in Nat
      /\ Cardinality(Ahead(s)') <= Cardinality(Ahead(s)) /\ Cardinality(Ahead(s)') \in Nat
      /\ Cardinality(Stale(s)') + 1 <= Cardinality(Ahead(s)) /\ Cardinality(Stale(s)') \in Nat
  BY SetsOfS, NoMore, OneLess
<1>. QED  BY <1>1, SetsOfS DEF LostAt

-----------------------------------------------------------------------------
(* What the parts of the invariant ask of a step.                          *)

LEMMA RowsKept ==
  ASSUME TypeOK, RowsInv, now' \in Nat, now' >= now, uploads' = uploads,
         \A a \in Articles : /\ row'[a].published = row[a].published
                             /\ row'[a].status = row[a].status
                             /\ row'[a].attempts = row[a].attempts
                             /\ AcceptedBy(a)' \subseteq AcceptedBy(a)
  PROVE  RowsInv'
<1>1. now' > 0  BY DEF TypeOK, RowsInv
<1>. SUFFICES ASSUME NEW a \in Articles
              PROVE  /\ row'[a].published <= now'
                     /\ Published(a)' => Ever(a)'
                     /\ Ever(a)' => Published(a)' \/ row'[a].attempts >= 2
                     /\ Cardinality(AcceptedBy(a)') + EverCount(a)' <= uploads'[a]
  BY <1>1 DEF RowsInv
<1>2. /\ row[a].published <= now
      /\ Published(a) => Ever(a)
      /\ Ever(a) => Published(a) \/ row[a].attempts >= 2
      /\ Cardinality(AcceptedBy(a)) + EverCount(a) <= uploads[a]
  BY DEF RowsInv
<1>3. row[a].published \in Nat /\ now \in Nat /\ uploads[a] \in Nat  BY DEF TypeOK
<1>4. (Ever(a)' <=> Ever(a)) /\ (Published(a)' <=> Published(a))  BY DEF Ever, Published
<1>5. EverCount(a)' = EverCount(a) /\ EverCount(a) \in Nat  BY <1>4 DEF EverCount
<1>6. /\ Cardinality(AcceptedBy(a)') <= Cardinality(AcceptedBy(a))
      /\ Cardinality(AcceptedBy(a)') \in Nat /\ Cardinality(AcceptedBy(a)) \in Nat
  <2>1. AcceptedBy(a) \subseteq Cycles  BY DEF AcceptedBy
  <2>2. IsFiniteSet(AcceptedBy(a))  BY <2>1, FiniteIs
  <2>. QED  BY <2>2, NoMore
<1>7. row'[a].published <= now'
  <2>1. row'[a].published = row[a].published  OBVIOUS
  <2>. QED  BY <1>2, <1>3, <2>1
<1>8. Cardinality(AcceptedBy(a)') + EverCount(a)' <= uploads'[a]  BY <1>2, <1>3, <1>5, <1>6
<1>9. row'[a].attempts = row[a].attempts  OBVIOUS
<1>10. /\ Published(a)' => Ever(a)'
       /\ Ever(a)' => Published(a)' \/ row'[a].attempts >= 2
  BY <1>2, <1>4, <1>9
<1>. QED  BY <1>7, <1>8, <1>10

LEMMA SinceKept ==
  ASSUME TypeOK, SinceInv, now' \in Nat, now' >= now,
         \A a \in Articles : row'[a].published = row[a].published,
         \A c \in Cycles :
           /\ cyc'[c].startedAt \in {0, cyc[c].startedAt}
           /\ \A a \in Articles : MayTake(c, a)' =>
                MayTake(c, a) /\ cyc'[c].startedAt = cyc[c].startedAt
  PROVE  SinceInv'
<1>1. \A c \in Cycles : cyc[c].startedAt <= now /\ cyc[c].startedAt \in Nat /\ now \in Nat
  BY CycIs DEF SinceInv, CycType, TypeOK
<1>2. \A c \in Cycles : cyc'[c].startedAt <= now'  BY <1>1
<1>. QED  BY <1>2 DEF SinceInv, Ever

LEMMA RunsKept ==
  ASSUME TypeOK, RunsInv, overlaps' = overlaps,
         \A a \in Articles : row'[a].published = row[a].published,
         \A c \in Cycles :
           /\ Running(c)' => Running(c)
           /\ cyc'[c].pc \in Pre => cyc[c].pc \in Pre /\ cyc'[c].startedAt = cyc[c].startedAt
  PROVE  RunsInv'
<1>1. overlaps \in Nat  BY DEF TypeOK
<1>2. Cardinality(Runs') <= 1 + overlaps
  <2>1. Runs' \subseteq Runs /\ Runs \subseteq Cycles  BY DEF Runs
  <2>2. /\ Cardinality(Runs') <= Cardinality(Runs) /\ Cardinality(Runs') \in Nat
        /\ Cardinality(Runs) \in Nat
    BY <2>1, FiniteIs, NoMore
  <2>. QED  BY <1>1, <2>2 DEF RunsInv
<1>3. ASSUME NEW c \in Cycles, cyc'[c].pc \in Pre
      PROVE  Cardinality(Since(c)') + Cardinality(Beside(c)') <= overlaps
  <2>1. cyc[c].pc \in Pre /\ cyc'[c].startedAt = cyc[c].startedAt  BY <1>3
  <2>2. Since(c)' = Since(c)  BY <2>1 DEF Since
  <2>3. Beside(c)' \subseteq Beside(c) /\ Beside(c) \subseteq Cycles  BY DEF Beside
  <2>4. /\ Cardinality(Beside(c)') <= Cardinality(Beside(c)) /\ Cardinality(Beside(c)') \in Nat
        /\ Cardinality(Beside(c)) \in Nat
    BY <2>3, FiniteIs, NoMore
  <2>5. Since(c) \subseteq Articles  BY DEF Since
  <2>6. Cardinality(Since(c)) \in Nat  BY <2>5, FiniteIs
  <2>7. Cardinality(Since(c)) + Cardinality(Beside(c)) <= overlaps  BY <2>1 DEF RunsInv
  <2>. QED  BY <1>1, <2>2, <2>4, <2>6, <2>7
<1>. QED  BY <1>2, <1>3 DEF RunsInv

InDay == {a \in Articles : Published(a) /\ row[a].published + Day > now}

LEMMA PaceKept ==
  ASSUME TypeOK, PaceInv, overlaps' = overlaps, now' \in Nat, now' >= now,
         \A a \in Articles : Published(a)' => Published(a) /\ row'[a].published = row[a].published,
         \A c \in Cycles : cyc'[c].pc \in Pre => cyc[c].pc \in Pre
  PROVE  PaceInv'
<1>. SUFFICES ASSUME overlaps = 0
              PROVE  /\ \A c \in Cycles : cyc'[c].pc \in Pre => RateOpen'
                     /\ RateHolds'
  BY DEF PaceInv
<1>1. /\ InDay' \subseteq InDay /\ InDay \subseteq Articles
  <2>1. ASSUME NEW a \in Articles, Published(a)', row'[a].published + Day > now'
        PROVE  Published(a) /\ row[a].published + Day > now
    <3>1. Published(a) /\ row'[a].published = row[a].published  BY <2>1
    <3>2. row[a].published \in Nat /\ Day \in Nat /\ now \in Nat
      BY NumbersAssumption DEF TypeOK
    <3>. QED  BY <2>1, <3>1, <3>2
  <2>. QED  BY <2>1 DEF InDay
<1>2. /\ Cardinality(InDay') <= Cardinality(InDay) /\ Cardinality(InDay') \in Nat
      /\ Cardinality(InDay) \in Nat
  BY <1>1, FiniteIs, NoMore
<1>3. RateOpen => RateOpen'
  <2>1. ASSUME RateOpen, NEW a \in Articles, Published(a)'
        PROVE  row'[a].published + MinInterval <= now'
    <3>1. Published(a) /\ row'[a].published = row[a].published  BY <2>1
    <3>2. row[a].published \in Nat /\ MinInterval \in Nat /\ now \in Nat
      BY NumbersAssumption DEF TypeOK
    <3>3. row[a].published + MinInterval <= now  BY <2>1, <3>1 DEF RateOpen
    <3>. QED  BY <3>1, <3>2, <3>3
  <2>2. ASSUME RateOpen PROVE Cardinality(InDay') < MaxPerDay
    <3>1. Cardinality(InDay) < MaxPerDay  BY <2>2 DEF RateOpen, InDay
    <3>. QED  BY <1>2, <3>1, NumbersAssumption
  <2>. QED  BY <2>1, <2>2 DEF RateOpen, InDay
<1>4. RateHolds'
  <2>1. RateHolds  BY DEF PaceInv
  <2>2. Cardinality(InDay') <= MaxPerDay
    <3>1. Cardinality(InDay) <= MaxPerDay  BY <2>1 DEF RateHolds, InDay
    <3>. QED  BY <1>2, <3>1, NumbersAssumption
  <2>3. \A a, b \in Articles :
          /\ Published(a)' /\ Published(b)' /\ a # b
          /\ row'[a].published <= row'[b].published
          => row'[a].published + MinInterval <= row'[b].published
    BY <2>1 DEF RateHolds
  <2>. QED  BY <2>2, <2>3 DEF RateHolds, InDay
<1>. QED  BY <1>3, <1>4 DEF PaceInv

LEMMA EverKept ==
  ASSUME EverInv,
         \A a \in Articles : Ever(a) => Ever(a)',
         \A c \in Cycles, a \in Articles :
            cyc'[c].pc \in Mid /\ cyc'[c].article = a =>
              Ever(a)' \/ (cyc[c].pc \in Mid /\ cyc[c].article = a),
         \A a \in Articles, s \in SurfaceSet :
            Touched(a, s)' => Touched(a, s) \/ \E c \in Cycles : Holds(c, a, s),
         \A c \in Cycles, s \in SurfaceSet : At(c, s)' => At(c, s) \/ Cap[s] > 0
  PROVE  EverInv'
<1>1. \A c \in Cycles, a \in Articles : cyc'[c].pc \in Mid /\ cyc'[c].article = a => Ever(a)'
  BY DEF EverInv
<1>2. ASSUME NEW a \in Articles, NEW s \in SurfaceSet, Touched(a, s)'
      PROVE  Ever(a)' /\ Cap[s] > 0
  <2>1. CASE Touched(a, s)  BY <2>1 DEF EverInv
  <2>2. CASE \E c \in Cycles : Holds(c, a, s)
    <3>1. PICK c \in Cycles : Holds(c, a, s)  BY <2>2
    <3>2. cyc[c].pc \in Mid /\ cyc[c].article = a /\ At(c, s)  BY <3>1 DEF Holds, At, Mid
    <3>. QED  BY <3>2 DEF EverInv
  <2>. QED  BY <1>2, <2>1, <2>2
<1>3. \A c \in Cycles, s \in SurfaceSet : At(c, s)' => Cap[s] > 0  BY DEF EverInv
<1>. QED  BY <1>1, <1>2, <1>3 DEF EverInv

LEMMA LapsesNext == ASSUME TypeOK' PROVE Lapses' \in Nat
<1>1. abandoned' \in Nat /\ faults' \in Nat /\ overlaps' \in Nat  BY DEF TypeOK
<1>2. \A i, j, k \in Nat : i + j + k \in Nat  OBVIOUS
<1>3. abandoned' + faults' + overlaps' \in Nat  BY <1>1, <1>2
<1>. QED  BY <1>3 DEF Lapses

LEMMA RecordingIs ==
  ASSUME NEW s \in Recording
  PROVE  s \in SurfaceSet /\ Cap[s] \in Nat /\ Column[s] \in Columns
  BY SurfacesAssumption DEF Columns

LEMMA ClaimsKept ==
  ASSUME NEW s \in Recording, ClaimsAt(s), Lapses \in Nat, Lapses' \in Nat, Lapses' >= Lapses,
         Claims(s)' \subseteq Claims(s)
  PROVE  ClaimsAt(s)'
<1>1. /\ Cardinality(Claims(s)') <= Cardinality(Claims(s)) /\ Cardinality(Claims(s)') \in Nat
      /\ Cardinality(Claims(s)) \in Nat /\ Cap[s] \in Nat
  BY SetsOfS, NoMore, RecordingIs
<1>. QED  BY <1>1 DEF ClaimsAt

LEMMA Window ==
  ASSUME TypeOK, NEW a \in Articles, now' \in Nat, now' >= now,
         row'[a].published = row[a].published, row'[a].published + Day > now'
  PROVE  row[a].published + Day > now
<1>1. row[a].published \in Nat /\ Day \in Nat /\ now \in Nat
  BY NumbersAssumption DEF TypeOK
<1>. QED  BY <1>1

-----------------------------------------------------------------------------
(* Steps away from the surfaces.                                           *)

\* What such a step does to a slot: a run that does not come back to a call.
SlotAloof(c) ==
  \/ cyc'[c] = cyc[c]
  \/ /\ cyc[c].pc \notin Stages /\ cyc'[c].pc \notin Stages
     /\ cyc'[c].pc \in Pre \cup Mid => cyc[c].pc \in Pre
     /\ \A a \in Articles : Takes(c, a)' => Takes(c, a)

LEMMA AloofSurfaces ==
  ASSUME IInv, UNCHANGED <<column, late, posts>>,
         Lapses \in Nat, Lapses' \in Nat, Lapses' >= Lapses,
         \A c \in Cycles : SlotAloof(c)
  PROVE  /\ \A a \in Articles, s \in SurfaceSet : Touched(a, s)' <=> Touched(a, s)
         /\ \A a \in Articles, s \in SurfaceSet, c \in Cycles : Holds(c, a, s)' <=> Holds(c, a, s)
         /\ \A c \in Cycles, s \in SurfaceSet : At(c, s)' <=> At(c, s)
         /\ \A s \in Recording : LostAt(s) => LostAt(s)'
<1>1. \A a \in Articles, s \in SurfaceSet : /\ Touched(a, s)' <=> Touched(a, s)
                                            /\ LateAt(a, s)' <=> LateAt(a, s)
  BY DEF Touched, LateAt
<1>2. \A c \in Cycles, s \in SurfaceSet : At(c, s)' <=> At(c, s)
  BY DEF SlotAloof, At, AtSurface
<1>3. \A a \in Articles, s \in SurfaceSet, c \in Cycles : Holds(c, a, s)' <=> Holds(c, a, s)
  BY <1>2 DEF SlotAloof, At, AtSurface, Holds
<1>4. ASSUME NEW s \in Recording, LostAt(s) PROVE LostAt(s)'
  <2>1. s \in SurfaceSet  BY RecordingIs
  <2>2. Lost(s)' \subseteq Lost(s)  BY <1>1, <1>3, <2>1 DEF Lost
  <2>3. \A c \in Cycles : Reaches(c, s)' => Reaches(c, s)
    BY DEF SlotAloof, Reaches, Pre, Mid
  <2>4. Ahead(s)' \subseteq Ahead(s)  BY <2>3 DEF Ahead
  <2>5. \A c \in Cycles, a \in Articles : Takes(c, a)' => Takes(c, a)
    BY DEF SlotAloof, Takes
  <2>6. \A c \in Cycles : /\ cyc[c].pc = "answer" /\ AtSurface(c, s)
                          => cyc'[c].pc = "answer" /\ AtSurface(c, s)'
    BY DEF SlotAloof, AtSurface, Stages
  <2>7. Stale(s)' \subseteq Stale(s)
    <3>. SUFFICES ASSUME NEW c \in Stale(s)' PROVE c \in Stale(s)  OBVIOUS
    <3>1. /\ c \in Ahead(s) /\ c \in Cycles /\ ~(cyc'[c].pc = "answer" /\ AtSurface(c, s)')
      BY <2>4 DEF Stale, Ahead
    <3>2. PICK a \in Articles : Touched(a, s)' /\ Takes(c, a)'  BY DEF Stale
    <3>3. Touched(a, s) /\ Takes(c, a)  BY <1>1, <2>1, <2>5, <3>1, <3>2
    <3>. QED  BY <2>6, <3>1, <3>3 DEF Stale
  <2>. QED  BY <1>4, <2>2, <2>4, <2>7, LostKept
<1>. QED  BY <1>1, <1>2, <1>3, <1>4

LEMMA AloofStep ==
  ASSUME IInv, IInv', Paces, now' >= now, UNCHANGED <<column, late, posts, overlaps>>,
         Lapses' >= Lapses,
         \A a \in Articles : /\ row'[a].published = row[a].published
                             /\ Published(a)' => Published(a),
         \A c \in Cycles :
           /\ SlotAloof(c)
           /\ cyc'[c].pc \in Mid => cyc'[c] = cyc[c]
           /\ cyc'[c].startedAt \in {0, cyc[c].startedAt}
           /\ Running(c)' => Running(c)
           /\ cyc'[c].pc \in Pre => cyc'[c].startedAt = cyc[c].startedAt,
         RowsInv'
  PROVE  Paces'
<1>0. TypeOK /\ TypeOK' /\ now' \in Nat /\ Lapses \in Nat /\ Lapses' \in Nat
  BY LapsesAre, LapsesNext DEF IInv, TypeOK
<1>1. \A c \in Cycles : SlotAloof(c)  OBVIOUS
<1>2. \A c \in Cycles : cyc'[c].pc \in Pre => cyc[c].pc \in Pre
  BY <1>1 DEF SlotAloof
<1>3. /\ \A a \in Articles, s \in SurfaceSet : Touched(a, s)' <=> Touched(a, s)
      /\ \A a \in Articles, s \in SurfaceSet, c \in Cycles : Holds(c, a, s)' <=> Holds(c, a, s)
      /\ \A c \in Cycles, s \in SurfaceSet : At(c, s)' <=> At(c, s)
      /\ \A s \in Recording : LostAt(s) => LostAt(s)'
  BY <1>0, <1>1, AloofSurfaces
<1>4. SinceInv'
  <2>1. \A c \in Cycles, a \in Articles : MayTake(c, a)' => MayTake(c, a)
    BY <1>1, <1>2 DEF SlotAloof, MayTake, Takes
  <2>2. \A c \in Cycles, a \in Articles : MayTake(c, a)' => cyc'[c].startedAt = cyc[c].startedAt
    BY DEF MayTake
  <2>3. SinceInv  BY DEF Paces
  <2>. QED  BY <1>0, <2>1, <2>2, <2>3, SinceKept
<1>5. RunsInv'
  BY <1>0, <1>2, RunsKept DEF Paces
<1>6. PaceInv'
  BY <1>0, <1>2, PaceKept DEF Paces
<1>7. EverInv'
  <2>1. \A a \in Articles : Ever(a) => Ever(a)'  BY DEF Ever
  <2>2. EverInv  BY DEF Paces
  <2>. QED  BY <1>3, <2>1, <2>2, EverKept
<1>8. ASSUME NEW s \in Recording PROVE LostAt(s)' /\ ClaimsAt(s)'
  <2>1. LostAt(s) /\ ClaimsAt(s) /\ s \in SurfaceSet  BY RecordingIs DEF Paces
  <2>2. Claims(s)' \subseteq Claims(s)
    BY <1>0, <1>3, <2>1, Window DEF Claims
  <2>. QED  BY <1>0, <1>3, <2>1, <2>2, ClaimsKept
<1>. QED  BY <1>4, <1>5, <1>6, <1>7, <1>8 DEF Paces

\* A slot that is left as it was.
LEMMA SameSlot ==
  ASSUME NEW d \in Cycles, cyc'[d] = cyc[d]
  PROVE  /\ SlotAloof(d)
         /\ cyc'[d].pc \in Mid => cyc'[d] = cyc[d]
         /\ cyc'[d].startedAt \in {0, cyc[d].startedAt}
         /\ Running(d)' => Running(d)
         /\ cyc'[d].pc \in Pre => cyc'[d].startedAt = cyc[d].startedAt
  BY DEF SlotAloof, Running

\* A slot whose run goes on before its video is recorded, and one that stops.
LEMMA PreSlot ==
  ASSUME NEW d \in Cycles, cyc[d].pc \in Pre, cyc'[d].pc \in Pre,
         cyc'[d].startedAt = cyc[d].startedAt,
         \A a \in Articles : Takes(d, a)' => Takes(d, a)
  PROVE  /\ SlotAloof(d)
         /\ cyc'[d].pc \in Mid => cyc'[d] = cyc[d]
         /\ cyc'[d].startedAt \in {0, cyc[d].startedAt}
         /\ Running(d)' => Running(d)
         /\ cyc'[d].pc \in Pre => cyc'[d].startedAt = cyc[d].startedAt
  BY DEF SlotAloof, Running, Pre, Mid, Stages

LEMMA IdleSlot ==
  ASSUME NEW d \in Cycles, cyc[d].pc \notin Stages, cyc'[d] = Idle
  PROVE  /\ SlotAloof(d)
         /\ cyc'[d].pc \in Mid => cyc'[d] = cyc[d]
         /\ cyc'[d].startedAt \in {0, cyc[d].startedAt}
         /\ Running(d)' => Running(d)
         /\ cyc'[d].pc \in Pre => cyc'[d].startedAt = cyc[d].startedAt
  BY SetsAssumption DEF SlotAloof, Running, Pre, Mid, Stages, Idle, Takes

LEMMA FaultAdds ==
  ASSUME TypeOK, Fault
  PROVE  /\ Lapses' = Lapses + 1 /\ Lapses \in Nat
         /\ UNCHANGED <<abandoned, overlaps>>
<1>1. /\ faults' = faults + 1 /\ UNCHANGED <<abandoned, overlaps>>
      /\ abandoned \in Nat /\ faults \in Nat /\ overlaps \in Nat
  BY FaultIs DEF TypeOK
<1>2. \A i, j, k \in Nat : i + (j + 1) + k = i + j + k + 1  OBVIOUS
<1>. QED  BY <1>1, <1>2, LapsesAre DEF Lapses

LEMMA ClockPaces ==
  ASSUME IInv, IInv', Paces, now' >= now,
         UNCHANGED <<row, column, cyc, late, uploads, posts, abandoned, faults, overlaps>>
  PROVE  Paces'
<1>1. Lapses' = Lapses /\ Lapses \in Nat  BY LapsesAre DEF Lapses, IInv
<1>2. TypeOK /\ TypeOK' /\ now' \in Nat  BY DEF IInv, TypeOK
<1>3. RowsInv'
  <2>1. \A a \in Articles : AcceptedBy(a)' \subseteq AcceptedBy(a)  BY DEF AcceptedBy
  <2>. QED  BY <1>2, <2>1, RowsKept DEF Paces
<1>4. \A d \in Cycles : cyc'[d] = cyc[d]  OBVIOUS
<1>5. \A a \in Articles : Published(a)' => Published(a)  BY DEF Published
<1>. QED  BY <1>1, <1>3, <1>4, <1>5, SameSlot, AloofStep

LEMMA EndPaces == ASSUME IInv, IInv', Paces, NEW c \in Cycles, End(c) \/ Unrecorded(c) PROVE Paces'
<1>1. /\ cyc[c].pc \in {"pick", "channels", "accepted"} /\ cyc' = [cyc EXCEPT ![c] = Idle]
      /\ UNCHANGED <<now, row, column, late, uploads, posts, overlaps>>
      /\ TypeOK /\ TypeOK'
  BY FaultIs DEF End, Unrecorded, history, counters, IInv
<1>2. cyc'[c] = Idle /\ \A d \in Cycles \ {c} : cyc'[d] = cyc[d]
  BY <1>1, IdleIs, SlotIs
<1>3. Lapses' >= Lapses
  <2>1. CASE End(c)  BY <1>1, <2>1, LapsesAre DEF End, counters, Lapses
  <2>2. CASE Unrecorded(c)  BY <1>1, <2>2, FaultAdds DEF Unrecorded
  <2>. QED  BY <2>1, <2>2
<1>4. now' \in Nat /\ now' >= now  BY <1>1 DEF TypeOK
<1>5. RowsInv'
  <2>1. \A a \in Articles : AcceptedBy(a)' \subseteq AcceptedBy(a)
    BY <1>2, IdleIs DEF AcceptedBy
  <2>. QED  BY <1>1, <1>4, <2>1, RowsKept DEF Paces
<1>6. \A a \in Articles : Published(a)' => Published(a)  BY <1>1 DEF Published
<1>7. cyc[c].pc \notin Stages  BY <1>1 DEF Stages
<1>8. \A d \in Cycles :
        /\ SlotAloof(d)
        /\ cyc'[d].pc \in Mid => cyc'[d] = cyc[d]
        /\ cyc'[d].startedAt \in {0, cyc[d].startedAt}
        /\ Running(d)' => Running(d)
        /\ cyc'[d].pc \in Pre => cyc'[d].startedAt = cyc[d].startedAt
  BY <1>2, <1>7, SameSlot, IdleSlot
<1>. QED  BY <1>1, <1>3, <1>4, <1>5, <1>6, <1>8, AloofStep

LEMMA AcceptedIs ==
  ASSUME NEW a
  PROVE  IsFiniteSet(AcceptedBy(a)) /\ Cardinality(AcceptedBy(a)) \in Nat
<1>1. AcceptedBy(a) \subseteq Cycles  BY DEF AcceptedBy
<1>. QED  BY <1>1, FiniteIs

LEMMA AcceptPaces == ASSUME IInv, IInv', Paces, NEW c \in Cycles, Accept(c) PROVE Paces'
<1>0. TypeOK /\ TypeOK' /\ cyc[c].pc = "upload"  BY DEF IInv, Accept
<1>. DEFINE w == [cyc[c] EXCEPT !.pc = "accepted"]
<1>1. /\ cyc' = [cyc EXCEPT ![c] = w] /\ uploads' = [uploads EXCEPT ![cyc[c].article] = @ + 1]
      /\ UNCHANGED <<now, row, column, late, posts, abandoned, faults, overlaps>>
  BY DEF Accept, counters
<1>2. /\ w \in CycType /\ w.pc = "accepted" /\ w.article = cyc[c].article
      /\ w.todo = cyc[c].todo /\ w.startedAt = cyc[c].startedAt
  BY <1>0, CycIs DEF CycType
<1>. HIDE DEF w
<1>3. cyc'[c] = w /\ \A d \in Cycles \ {c} : cyc'[d] = cyc[d]
  BY <1>0, <1>1, <1>2, SlotIs
<1>4. Lapses' = Lapses /\ Lapses \in Nat  BY <1>0, <1>1, LapsesAre DEF Lapses
<1>5. cyc[c].article \in Articles  BY <1>0 DEF IInv, Shape, InHand
<1>6. RowsInv'
  <2>1. now' > 0 /\ \A x \in Articles : /\ row'[x].published <= now'
                                        /\ Published(x)' => Ever(x)'
                                        /\ Ever(x)' => Published(x)' \/ row'[x].attempts >= 2
                                        /\ EverCount(x)' = EverCount(x)
    BY <1>1 DEF Paces, RowsInv, Ever, Published, EverCount
  <2>2. ASSUME NEW x \in Articles
        PROVE  Cardinality(AcceptedBy(x)') + EverCount(x) <= uploads'[x]
    <3>1. /\ Cardinality(AcceptedBy(x)) + EverCount(x) <= uploads[x] /\ uploads[x] \in Nat
          /\ EverCount(x) \in Nat
      BY <1>0 DEF Paces, RowsInv, TypeOK, EverCount
    <3>2. CASE x = cyc[c].article
      <4>1. AcceptedBy(x)' \subseteq AcceptedBy(x) \cup {c}  BY <1>3 DEF AcceptedBy
      <4>2. /\ Cardinality(AcceptedBy(x)') <= Cardinality(AcceptedBy(x)) + 1
            /\ Cardinality(AcceptedBy(x)') \in Nat /\ Cardinality(AcceptedBy(x)) \in Nat
        BY <4>1, AcceptedIs, OneMore
      <4>3. uploads'[x] = uploads[x] + 1  BY <1>0, <1>1, <3>2 DEF TypeOK
      <4>. QED  BY <3>1, <4>2, <4>3
    <3>3. CASE x # cyc[c].article
      <4>1. AcceptedBy(x)' \subseteq AcceptedBy(x)  BY <1>2, <1>3, <3>3 DEF AcceptedBy
      <4>2. /\ Cardinality(AcceptedBy(x)') <= Cardinality(AcceptedBy(x))
            /\ Cardinality(AcceptedBy(x)') \in Nat /\ Cardinality(AcceptedBy(x)) \in Nat
        BY <4>1, AcceptedIs, NoMore
      <4>3. uploads'[x] = uploads[x]  BY <1>0, <1>1, <3>3 DEF TypeOK
      <4>. QED  BY <3>1, <4>2, <4>3
    <3>. QED  BY <3>2, <3>3
  <2>. QED  BY <2>1, <2>2 DEF RowsInv
<1>7. now' \in Nat /\ now' >= now  BY <1>0, <1>1 DEF TypeOK
<1>8. \A a \in Articles : Published(a)' => Published(a)  BY <1>1 DEF Published
<1>9. \A d \in Cycles :
        /\ SlotAloof(d)
        /\ cyc'[d].pc \in Mid => cyc'[d] = cyc[d]
        /\ cyc'[d].startedAt \in {0, cyc[d].startedAt}
        /\ Running(d)' => Running(d)
        /\ cyc'[d].pc \in Pre => cyc'[d].startedAt = cyc[d].startedAt
  <2>1. cyc[c].pc \in Pre /\ cyc'[c].pc \in Pre /\ cyc'[c].startedAt = cyc[c].startedAt
    BY <1>0, <1>2, <1>3 DEF Pre
  <2>2. \A a \in Articles : Takes(c, a)' => Takes(c, a)
    BY <1>0, <1>2, <1>3 DEF Takes, Pre
  <2>. QED  BY <1>3, <2>1, <2>2, SameSlot, PreSlot
<1>. QED  BY <1>1, <1>4, <1>6, <1>7, <1>8, <1>9, AloofStep

\* A row that was ever published has had its attempt.
LEMMA EverAttempted ==
  ASSUME IInv, RowsInv, NEW a \in Articles, Ever(a)
  PROVE  /\ row[a].attempts >= 1
         /\ \A c \in Cycles : cyc[c].pc \in {"upload", "accepted"} /\ cyc[c].article = a
              => row[a].attempts >= 2
<1>1. /\ Cardinality(AcceptedBy(a)) + 1 <= uploads[a]
      /\ uploads[a] + Cardinality(Uploading(a)) <= row[a].attempts
      /\ uploads[a] \in Nat /\ row[a].attempts \in Nat
  BY DEF RowsInv, EverCount, IInv, TypeOK, Attempted
<1>2. /\ Cardinality(AcceptedBy(a)) \in Nat /\ Cardinality(Uploading(a)) \in Nat
  BY AcceptedIs, SetsAre
<1>3. row[a].attempts >= 1  BY <1>1, <1>2
<1>4. ASSUME NEW c \in Cycles, cyc[c].pc \in {"upload", "accepted"}, cyc[c].article = a
      PROVE  row[a].attempts >= 2
  <2>1. CASE cyc[c].pc = "upload"
    <3>1. c \in Uploading(a)  BY <1>4, <2>1 DEF Uploading
    <3>2. Cardinality(Uploading(a)) # 0  BY <3>1, SetsAre, FS_EmptySet
    <3>. QED  BY <1>1, <1>2, <3>2
  <2>2. CASE cyc[c].pc = "accepted"
    <3>1. c \in AcceptedBy(a)  BY <1>4, <2>2 DEF AcceptedBy
    <3>2. Cardinality(AcceptedBy(a)) # 0  BY <3>1, AcceptedIs, FS_EmptySet
    <3>. QED  BY <1>1, <1>2, <3>2
  <2>. QED  BY <1>4, <2>1, <2>2
<1>. QED  BY <1>3, <1>4

\* A row that changes hands, its status no longer published.
LEMMA RowTaken ==
  ASSUME IInv, IInv', RowsInv, NEW a \in Articles, now' = now, uploads' = uploads,
         row'[a].published = row[a].published, ~Published(a)',
         Ever(a) => row'[a].attempts >= 2,
         \A x \in Articles \ {a} : row'[x] = row[x],
         \A x \in Articles : AcceptedBy(x)' \subseteq AcceptedBy(x)
  PROVE  RowsInv'
<1>1. \A x \in Articles : (Ever(x)' <=> Ever(x)) /\ EverCount(x)' = EverCount(x)
  <2>1. \A x \in Articles : row'[x].published = row[x].published  OBVIOUS
  <2>. QED  BY <2>1 DEF Ever, EverCount
<1>2. ASSUME NEW x \in Articles
      PROVE  Cardinality(AcceptedBy(x)') + EverCount(x)' <= uploads'[x]
  <2>1. /\ Cardinality(AcceptedBy(x)) + EverCount(x) <= uploads[x] /\ uploads[x] \in Nat
        /\ EverCount(x) \in Nat
    BY DEF RowsInv, IInv, TypeOK, EverCount
  <2>2. /\ Cardinality(AcceptedBy(x)') <= Cardinality(AcceptedBy(x))
        /\ Cardinality(AcceptedBy(x)') \in Nat /\ Cardinality(AcceptedBy(x)) \in Nat
    BY AcceptedIs, NoMore
  <2>3. uploads'[x] = uploads[x]  OBVIOUS
  <2>. QED  BY <1>1, <2>1, <2>2, <2>3
<1>3. \A x \in Articles : row'[x].published <= now'  BY DEF RowsInv
<1>4. \A x \in Articles : Published(x)' => x # a /\ Published(x)  BY DEF Published
<1>5. ASSUME NEW x \in Articles, Ever(x)' PROVE Published(x)' \/ row'[x].attempts >= 2
  <2>1. CASE x = a  BY <1>1, <1>5, <2>1
  <2>2. CASE x # a  BY <1>1, <1>5, <2>2 DEF RowsInv, Published
  <2>. QED  BY <2>1, <2>2
<1>6. \A x \in Articles : Published(x)' => Ever(x)'  BY <1>1, <1>4 DEF RowsInv
<1>. QED  BY <1>2, <1>3, <1>5, <1>6 DEF RowsInv

LEMMA ClaimPaces == ASSUME IInv, IInv', Paces, NEW c \in Cycles, Claim(c) PROVE Paces'
<1>0. TypeOK /\ TypeOK' /\ cyc[c].pc = "pick" /\ RowsInv  BY DEF IInv, Claim, Paces
<1>1. PICK a \in cyc[c].todo :
        /\ ClaimVideoPost(a)
        /\ cyc' = [cyc EXCEPT ![c].pc = "upload", ![c].article = a, ![c].todo = @ \ {a}]
  BY DEF Claim
<1>. DEFINE w == [cyc[c] EXCEPT !.pc = "upload", !.article = a, !.todo = @ \ {a}]
<1>2. /\ cyc' = [cyc EXCEPT ![c] = w]
      /\ UNCHANGED <<now, column, late, posts, uploads, abandoned, faults, overlaps>>
  BY <1>1 DEF Claim, history, counters
<1>3. /\ a \in Articles /\ w \in CycType /\ w.pc = "upload" /\ w.article = a
      /\ w.todo = cyc[c].todo \ {a} /\ w.startedAt = cyc[c].startedAt
  BY <1>0, CycIs DEF CycType
<1>. HIDE DEF w
<1>4. cyc'[c] = w /\ \A d \in Cycles \ {c} : cyc'[d] = cyc[d]
  BY <1>0, <1>2, <1>3, SlotIs
<1>5. Lapses' = Lapses /\ Lapses \in Nat  BY <1>0, <1>2, LapsesAre DEF Lapses
<1>6. /\ row'[a].status = "pending" /\ row'[a].attempts = row[a].attempts + 1
      /\ row'[a].published = row[a].published
      /\ \A x \in Articles \ {a} : row'[x] = row[x]
  <2>1. row \in [Articles -> RowType]  BY <1>0 DEF TypeOK, RowType
  <2>. DEFINE r == [row[a] EXCEPT !.status = "pending", !.updated = now,
                                  !.attempts = row[a].attempts + 1]
  <2>2. /\ r.status = "pending" /\ r.attempts = row[a].attempts + 1
        /\ r.published = row[a].published
    BY <1>3, <2>1 DEF RowType
  <2>3. row' = [row EXCEPT ![a] = r]  BY <1>1 DEF ClaimVideoPost
  <2>. HIDE DEF r
  <2>. QED  BY <1>3, <2>1, <2>2, <2>3
<1>7. ~Published(a)'  BY <1>6 DEF Published
<1>8. RowsInv'
  <2>1. \A x \in Articles : AcceptedBy(x)' \subseteq AcceptedBy(x)
    BY <1>3, <1>4 DEF AcceptedBy
  <2>2. Ever(a) => row'[a].attempts >= 2
    <3>1. row[a].attempts \in Nat  BY <1>0, <1>3 DEF TypeOK
    <3>2. Ever(a) => row[a].attempts >= 1  BY <1>0, <1>3, EverAttempted
    <3>. QED  BY <1>6, <3>1, <3>2
  <2>. QED  BY <1>0, <1>2, <1>3, <1>6, <1>7, <2>1, <2>2, RowTaken
<1>9. now' \in Nat /\ now' >= now  BY <1>0, <1>2 DEF TypeOK
<1>10. \A x \in Articles : /\ Published(x)' => Published(x)
                           /\ row'[x].published = row[x].published
  BY <1>6, <1>7 DEF Published
<1>11. \A d \in Cycles :
        /\ SlotAloof(d)
        /\ cyc'[d].pc \in Mid => cyc'[d] = cyc[d]
        /\ cyc'[d].startedAt \in {0, cyc[d].startedAt}
        /\ Running(d)' => Running(d)
        /\ cyc'[d].pc \in Pre => cyc'[d].startedAt = cyc[d].startedAt
  <2>1. cyc[c].pc \in Pre /\ cyc'[c].pc \in Pre /\ cyc'[c].startedAt = cyc[c].startedAt
    BY <1>0, <1>3, <1>4 DEF Pre
  <2>2. \A x \in Articles : Takes(c, x)' => Takes(c, x)
    BY <1>0, <1>3, <1>4 DEF Takes, Pre
  <2>. QED  BY <1>4, <2>1, <2>2, SameSlot, PreSlot
<1>. QED  BY <1>2, <1>5, <1>8, <1>9, <1>10, <1>11, AloofStep

LEMMA UploadFailsPaces ==
  ASSUME IInv, IInv', Paces, NEW c \in Cycles, UploadFails(c) PROVE Paces'
<1>0. TypeOK /\ TypeOK' /\ cyc[c].pc \in {"upload", "accepted"} /\ RowsInv
  BY DEF IInv, UploadFails, Paces
<1>. DEFINE a == cyc[c].article
            w == [cyc[c] EXCEPT !.pc = "pick", !.article = None]
<1>1. a \in Articles  BY <1>0 DEF IInv, Shape, InHand
<1>2. /\ cyc' = [cyc EXCEPT ![c] = w] /\ MarkVideoFailed(a)
      /\ UNCHANGED <<now, column, late, posts, uploads>>
  BY DEF UploadFails, history
<1>3. /\ w \in CycType /\ w.pc = "pick" /\ w.article = None
      /\ w.todo = cyc[c].todo /\ w.startedAt = cyc[c].startedAt
  BY <1>0, CycIs DEF CycType
<1>. HIDE DEF w
<1>4. cyc'[c] = w /\ \A d \in Cycles \ {c} : cyc'[d] = cyc[d]
  BY <1>0, <1>2, <1>3, SlotIs
<1>5. Lapses' >= Lapses /\ overlaps' = overlaps
  <2>1. CASE UNCHANGED counters
    <3>1. Lapses' = Lapses /\ overlaps' = overlaps  BY <2>1 DEF counters, Lapses
    <3>. QED  BY <1>0, <3>1, LapsesAre
  <2>2. CASE Fault  BY <1>0, <2>2, FaultAdds
  <2>. QED  BY <2>1, <2>2 DEF UploadFails
<1>6. PICK b \in Articles : b = cyc[c].article  BY <1>1
<1>7. /\ row'[b].status = "failed" /\ row'[b].attempts = row[b].attempts
      /\ row'[b].published = row[b].published
      /\ \A x \in Articles \ {b} : row'[x] = row[x]
  <2>1. row \in [Articles -> RowType]  BY <1>0 DEF TypeOK, RowType
  <2>. DEFINE r == [row[b] EXCEPT !.status = "failed", !.updated = 0]
  <2>2. /\ r.status = "failed" /\ r.attempts = row[b].attempts
        /\ r.published = row[b].published
    BY <1>6, <2>1 DEF RowType
  <2>3. row' = [row EXCEPT ![b] = r]  BY <1>2, <1>6 DEF MarkVideoFailed
  <2>. HIDE DEF r
  <2>. QED  BY <1>6, <2>1, <2>2, <2>3
<1>8. ~Published(b)'  BY <1>7 DEF Published
<1>9. RowsInv'
  <2>1. \A x \in Articles : AcceptedBy(x)' \subseteq AcceptedBy(x)
    BY <1>3, <1>4 DEF AcceptedBy
  <2>2. Ever(b) => row'[b].attempts >= 2
    BY <1>0, <1>6, <1>7, EverAttempted
  <2>. QED  BY <1>0, <1>2, <1>6, <1>7, <1>8, <2>1, <2>2, RowTaken
<1>10. now' \in Nat /\ now' >= now  BY <1>0, <1>2 DEF TypeOK
<1>11. \A x \in Articles : /\ Published(x)' => Published(x)
                           /\ row'[x].published = row[x].published
  BY <1>7, <1>8 DEF Published
<1>12. \A d \in Cycles :
        /\ SlotAloof(d)
        /\ cyc'[d].pc \in Mid => cyc'[d] = cyc[d]
        /\ cyc'[d].startedAt \in {0, cyc[d].startedAt}
        /\ Running(d)' => Running(d)
        /\ cyc'[d].pc \in Pre => cyc'[d].startedAt = cyc[d].startedAt
  <2>1. cyc[c].pc \in Pre /\ cyc'[c].pc \in Pre /\ cyc'[c].startedAt = cyc[c].startedAt
    BY <1>0, <1>3, <1>4 DEF Pre
  <2>2. \A x \in Articles : Takes(c, x)' => Takes(c, x)
    BY <1>3, <1>4, <2>1, SetsAssumption DEF Takes
  <2>. QED  BY <1>4, <2>1, <2>2, SameSlot, PreSlot
<1>. QED  BY <1>2, <1>5, <1>9, <1>10, <1>11, <1>12, AloofStep

LEMMA TickPaces ==
  ASSUME IInv, IInv', Paces, Tick \/ StartGated \/ UNCHANGED vars PROVE Paces'
<1>1. now' >= now
  <2>1. now \in Nat  BY DEF IInv, TypeOK
  <2>2. now' = now + 1 \/ now' = now  BY DEF Tick, StartGated, vars
  <2>. QED  BY <2>1, <2>2
<1>2. UNCHANGED <<row, column, cyc, late, uploads, posts, abandoned, faults, overlaps>>
  BY DEF Tick, StartGated, vars, history, counters
<1>. QED  BY <1>1, <1>2, ClockPaces

-----------------------------------------------------------------------------
(* A run begins, records its video, or is killed with the rest.            *)

LEMMA EligibleIsNew ==
  ASSUME IInv, RowsInv, NEW a \in Articles, Eligible(a)
  PROVE  ~Ever(a)
<1>1. ~Published(a) /\ row[a].attempts < 2 /\ row[a].attempts \in Nat
  BY DEF Eligible, Published, IInv, Attempted, TypeOK
<1>2. ~(row[a].attempts >= 2)  BY <1>1
<1>. QED  BY <1>1, <1>2 DEF RowsInv

LEMMA StartPaces == ASSUME IInv, IInv', Paces, NEW c \in Cycles, Start(c) PROVE Paces'
<1>0. TypeOK /\ TypeOK' /\ RowsInv  BY DEF IInv, Paces
<1>. DEFINE w == [Idle EXCEPT !.pc = "pick", !.startedAt = now, !.todo = {a \in Articles : Eligible(a)}]
<1>1. /\ ~Running(c) /\ RateOpen /\ cyc' = [cyc EXCEPT ![c] = w]
      /\ UNCHANGED <<now, row, column, late, uploads, posts, abandoned, faults>>
      /\ IF \E d \in Cycles : Running(d) THEN overlaps' = overlaps + 1 ELSE overlaps' = overlaps
  BY DEF Start, history, counters
<1>2. /\ w \in CycType /\ w.pc = "pick" /\ w.todo = {a \in Articles : Eligible(a)}
      /\ w.article = None /\ w.startedAt = now
  BY <1>0, IdleIs DEF CycType, TypeOK, Idle
<1>. HIDE DEF w
<1>3. cyc'[c] = w /\ \A d \in Cycles \ {c} : cyc'[d] = cyc[d]
  BY <1>0, <1>1, <1>2, SlotIs
<1>4. cyc[c] = Idle /\ cyc[c].pc = "idle"  BY <1>1, IdleHas
<1>5. /\ overlaps \in Nat /\ overlaps' \in Nat /\ now \in Nat /\ now' \in Nat /\ now' >= now
      /\ Lapses \in Nat /\ Lapses' \in Nat /\ overlaps <= Lapses
  <2>1. overlaps' \in Nat  BY <1>0 DEF TypeOK
  <2>2. overlaps \in Nat /\ now \in Nat /\ now' = now  BY <1>0, <1>1 DEF TypeOK
  <2>3. Lapses \in Nat /\ Lapses' \in Nat /\ overlaps <= Lapses
    BY <1>0, LapsesAre, LapsesNext
  <2>. QED  BY <2>1, <2>2, <2>3
<1>6. Lapses' = IF \E d \in Cycles : Running(d) THEN Lapses + 1 ELSE Lapses
  <2>1. abandoned \in Nat /\ faults \in Nat  BY <1>0 DEF TypeOK
  <2>2. \A i, j, k \in Nat : i + j + (k + 1) = i + j + k + 1  OBVIOUS
  <2>3. CASE \E d \in Cycles : Running(d)
    <3>1. overlaps' = overlaps + 1 /\ abandoned' = abandoned /\ faults' = faults
      BY <1>1, <2>3
    <3>2. Lapses' = Lapses + 1  BY <1>5, <2>1, <2>2, <3>1 DEF Lapses
    <3>. QED  BY <2>3, <3>2
  <2>4. CASE ~\E d \in Cycles : Running(d)
    <3>1. overlaps' = overlaps /\ abandoned' = abandoned /\ faults' = faults
      BY <1>1, <2>4
    <3>2. Lapses' = Lapses  BY <3>1 DEF Lapses
    <3>. QED  BY <2>4, <3>2
  <2>. QED  BY <2>3, <2>4
<1>7. RowsInv'
  <2>1. \A a \in Articles : AcceptedBy(a)' \subseteq AcceptedBy(a)
    BY <1>2, <1>3 DEF AcceptedBy
  <2>. QED  BY <1>0, <1>1, <1>5, <2>1, RowsKept
<1>8. \A a \in Articles : Takes(c, a)' => ~Ever(a)
  BY <1>0, <1>2, <1>3, EligibleIsNew, SetsAssumption DEF Takes
<1>9. SinceInv'
  <2>1. ASSUME NEW d \in Cycles
        PROVE  /\ cyc'[d].startedAt <= now
               /\ \A a \in Articles :
                    MayTake(d, a)' /\ Ever(a) => row[a].published >= cyc'[d].startedAt
    <3>1. CASE d = c
      <4>1. \A a \in Articles : MayTake(d, a)' => Takes(c, a)'
        BY <3>1 DEF MayTake, Takes
      <4>. QED  BY <1>2, <1>3, <1>5, <1>8, <3>1, <4>1
    <3>2. CASE d # c
      BY <1>3, <3>2 DEF Paces, SinceInv, MayTake
    <3>. QED  BY <3>1, <3>2
  <2>2. \A a \in Articles : Ever(a)' <=> Ever(a)  BY <1>1 DEF Ever
  <2>. QED  BY <1>1, <2>1, <2>2 DEF SinceInv
<1>10. RunsInv'
  <2>1. Cardinality(Runs) \in Nat /\ Cardinality(Runs) <= overlaps' /\ IsFiniteSet(Runs)
    <3>1. Runs \subseteq Cycles  BY DEF Runs
    <3>2. IsFiniteSet(Runs) /\ Cardinality(Runs) \in Nat  BY <3>1, FiniteIs
    <3>3. CASE \E d \in Cycles : Running(d)
      <4>1. Cardinality(Runs) <= 1 + overlaps  BY DEF Paces, RunsInv
      <4>. QED  BY <1>1, <1>5, <3>2, <3>3, <4>1
    <3>4. CASE ~\E d \in Cycles : Running(d)
      <4>1. Runs = {}  BY <3>4 DEF Runs
      <4>2. Cardinality(Runs) = 0  BY <4>1, FS_EmptySet
      <4>. QED  BY <1>5, <3>2, <4>2
    <3>. QED  BY <3>3, <3>4
  <2>2. Cardinality(Runs') <= 1 + overlaps'
    <3>1. Runs' \subseteq Runs \cup {c}  BY <1>3 DEF Runs, Running
    <3>2. Cardinality(Runs') <= Cardinality(Runs) + 1 /\ Cardinality(Runs') \in Nat
      BY <2>1, <3>1, OneMore
    <3>. QED  BY <1>5, <2>1, <3>2
  <2>3. ASSUME NEW d \in Cycles, cyc'[d].pc \in Pre
        PROVE  Cardinality(Since(d)') + Cardinality(Beside(d)') <= overlaps'
    <3>1. CASE d = c
      <4>1. Since(d)' = {}
        <5>1. \A a \in Articles : row[a].published <= now /\ row[a].published \in Nat
          BY <1>0 DEF RowsInv, TypeOK
        <5>2. \A a \in Articles : ~(row'[a].published > cyc'[d].startedAt)
          BY <1>1, <1>2, <1>3, <1>5, <3>1, <5>1
        <5>. QED  BY <5>2 DEF Since
      <4>2. Cardinality(Since(d)') = 0  BY <4>1, FS_EmptySet
      <4>3. Beside(d)' \subseteq Runs  BY <1>3, <3>1 DEF Beside, Runs, Running, Pre
      <4>4. Cardinality(Beside(d)') <= Cardinality(Runs) /\ Cardinality(Beside(d)') \in Nat
        BY <2>1, <4>3, NoMore
      <4>. QED  BY <1>5, <2>1, <4>2, <4>4
    <3>2. CASE d # c
      <4>1. cyc'[d] = cyc[d] /\ cyc[d].pc \in Pre  BY <1>3, <2>3, <3>2
      <4>2. overlaps' = overlaps + 1  BY <1>1, <4>1 DEF Running, Pre
      <4>3. Since(d)' = Since(d) /\ Since(d) \subseteq Articles  BY <1>1, <4>1 DEF Since
      <4>4. Beside(d)' \subseteq Beside(d) \cup {c} /\ Beside(d) \subseteq Cycles
        BY <1>3 DEF Beside
      <4>5. /\ Cardinality(Beside(d)') <= Cardinality(Beside(d)) + 1
            /\ Cardinality(Beside(d)') \in Nat /\ Cardinality(Beside(d)) \in Nat
        BY <4>4, FiniteIs, OneMore
      <4>6. Cardinality(Since(d)) \in Nat  BY <4>3, FiniteIs
      <4>7. Cardinality(Since(d)) + Cardinality(Beside(d)) <= overlaps
        BY <4>1 DEF Paces, RunsInv
      <4>. QED  BY <1>5, <4>2, <4>3, <4>5, <4>6, <4>7
    <3>. QED  BY <3>1, <3>2
  <2>. QED  BY <2>2, <2>3 DEF RunsInv
<1>11. PaceInv'
  <2>. SUFFICES ASSUME overlaps' = 0 PROVE RateOpen' /\ RateHolds'  BY DEF PaceInv
  <2>1. overlaps = 0  BY <1>1, <1>5
  <2>2. RateOpen'  BY <1>1 DEF RateOpen, Published
  <2>3. RateHolds  BY <2>1 DEF Paces, PaceInv
  <2>4. RateHolds'  BY <1>1, <2>1, <2>3 DEF RateHolds, Published
  <2>. QED  BY <2>2, <2>4
<1>12. /\ \A a \in Articles, s \in SurfaceSet : /\ Touched(a, s)' <=> Touched(a, s)
                                                /\ LateAt(a, s)' <=> LateAt(a, s)
       /\ \A d \in Cycles, s \in SurfaceSet : At(d, s)' <=> At(d, s)
       /\ \A a \in Articles, s \in SurfaceSet, d \in Cycles : Holds(d, a, s)' <=> Holds(d, a, s)
  <2>1. \A a \in Articles, s \in SurfaceSet : /\ Touched(a, s)' <=> Touched(a, s)
                                              /\ LateAt(a, s)' <=> LateAt(a, s)
    BY <1>1 DEF Touched, LateAt
  <2>2. \A d \in Cycles, s \in SurfaceSet : At(d, s)' <=> At(d, s)
    BY <1>2, <1>3, <1>4 DEF At, AtSurface, Stages
  <2>3. \A a \in Articles, s \in SurfaceSet, d \in Cycles : Holds(d, a, s)' <=> Holds(d, a, s)
    BY <1>2, <1>3, <1>4 DEF Holds, At, AtSurface, Stages
  <2>. QED  BY <2>1, <2>2, <2>3
<1>13. EverInv'
  <2>1. \A a \in Articles : Ever(a) => Ever(a)'  BY <1>1 DEF Ever
  <2>2. \A d \in Cycles, a \in Articles :
          cyc'[d].pc \in Mid /\ cyc'[d].article = a => cyc[d].pc \in Mid /\ cyc[d].article = a
    BY <1>2, <1>3 DEF Mid, Stages
  <2>. QED  BY <1>12, <2>1, <2>2, EverKept DEF Paces
<1>14. ASSUME NEW s \in Recording PROVE LostAt(s)' /\ ClaimsAt(s)'
  <2>1. LostAt(s) /\ ClaimsAt(s) /\ s \in SurfaceSet  BY RecordingIs DEF Paces
  <2>2. Lost(s)' \subseteq Lost(s) /\ Claims(s)' \subseteq Claims(s)
    BY <1>1, <1>12, <2>1 DEF Lost, Claims
  <2>3. Ahead(s)' \subseteq Ahead(s) \cup {c}  BY <1>3 DEF Ahead, Reaches
  <2>4. Stale(s)' \subseteq Stale(s)
    <3>. SUFFICES ASSUME NEW d \in Stale(s)' PROVE d \in Stale(s)  OBVIOUS
    <3>1. d \in Cycles /\ Reaches(d, s)'  BY DEF Stale, Ahead
    <3>2. PICK a \in Articles : Touched(a, s)' /\ Takes(d, a)'  BY DEF Stale
    <3>3. Touched(a, s) /\ Ever(a)  BY <1>12, <2>1, <3>2 DEF Paces, EverInv
    <3>4. d # c  BY <1>8, <3>2, <3>3
    <3>5. cyc'[d] = cyc[d]  BY <1>3, <3>1, <3>4
    <3>6. ~(cyc'[d].pc = "answer" /\ AtSurface(d, s)')  BY DEF Stale
    <3>7. Takes(d, a) /\ Reaches(d, s) /\ ~(cyc[d].pc = "answer" /\ AtSurface(d, s))
      BY <3>1, <3>2, <3>5, <3>6 DEF Takes, Reaches, AtSurface
    <3>. QED  BY <3>1, <3>3, <3>7 DEF Stale, Ahead
  <2>5. LostAt(s)'
    <3>1. /\ Cardinality(Lost(s)') <= Cardinality(Lost(s)) /\ Cardinality(Lost(s)') \in Nat
          /\ Cardinality(Ahead(s)') <= Cardinality(Ahead(s)) + 1 /\ Cardinality(Ahead(s)') \in Nat
          /\ Cardinality(Stale(s)') <= Cardinality(Stale(s)) /\ Cardinality(Stale(s)') \in Nat
      BY <2>2, <2>3, <2>4, SetsOfS, NoMore, OneMore
    <3>2. Cardinality(Lost(s)) + Cardinality(Stale(s)) <= Lapses  BY <2>1 DEF LostAt
    <3>3. Cardinality(Lost(s)') + Cardinality(Stale(s)') <= Lapses'
      BY <1>5, <1>6, <3>1, <3>2, SetsOfS
    <3>4. Cardinality(Lost(s)') + Cardinality(Ahead(s)') <= Lapses' + 1
      <4>1. CASE Ahead(s) = {}
        <5>1. Cardinality(Ahead(s)) = 0  BY <4>1, FS_EmptySet
        <5>. QED  BY <1>5, <1>6, <3>1, <3>2, <5>1, SetsOfS
      <4>2. CASE Ahead(s) # {}
        <5>1. PICK d \in Cycles : Reaches(d, s)  BY <4>2 DEF Ahead
        <5>2. Running(d)  BY <5>1 DEF Reaches, Running, Pre, Mid, Stages
        <5>3. Lapses' = Lapses + 1  BY <1>6, <5>2
        <5>4. Cardinality(Lost(s)) + Cardinality(Ahead(s)) <= Lapses + 1
          BY <2>1, <4>2 DEF LostAt
        <5>. QED  BY <1>5, <3>1, <5>3, <5>4, SetsOfS
      <4>. QED  BY <4>1, <4>2
    <3>. QED  BY <3>3, <3>4 DEF LostAt
  <2>6. Lapses' >= Lapses  BY <1>5, <1>6
  <2>. QED  BY <1>5, <2>1, <2>2, <2>5, <2>6, ClaimsKept
<1>. QED  BY <1>7, <1>9, <1>10, <1>11, <1>13, <1>14 DEF Paces

\* The gate lets a publication in that keeps the spacing and the daily cap.
LEMMA RateKept ==
  ASSUME TypeOK, NEW a \in Articles, RateOpen, RateHolds, overlaps = 0, overlaps' = 0, now' = now,
         row'[a].published = now, \A x \in Articles \ {a} : row'[x] = row[x]
  PROVE  RateHolds'
<1>1. /\ \A x \in Articles : row[x].published \in Nat
      /\ MinInterval \in Nat /\ MaxPerDay \in Nat /\ Day \in Nat /\ now \in Nat
  BY NumbersAssumption DEF TypeOK
<1>2. InDay' \subseteq InDay \cup {a} /\ InDay \subseteq Articles  BY DEF InDay, Published
<1>3. Cardinality(InDay) < MaxPerDay  BY DEF RateOpen, InDay
<1>4. Cardinality(InDay') <= MaxPerDay
  <2>1. /\ Cardinality(InDay') <= Cardinality(InDay) + 1 /\ Cardinality(InDay') \in Nat
        /\ Cardinality(InDay) \in Nat
    BY <1>2, FiniteIs, OneMore
  <2>. QED  BY <1>1, <1>3, <2>1
<1>5. ASSUME NEW x \in Articles, NEW y \in Articles, Published(x)', Published(y)', x # y,
             row'[x].published <= row'[y].published
      PROVE  row'[x].published + MinInterval <= row'[y].published
  <2>1. CASE x = a
    <3>1. row'[y] = row[y] /\ Published(y)  BY <1>5, <2>1 DEF Published
    <3>2. row[y].published + MinInterval <= now  BY <3>1 DEF RateOpen
    <3>3. row'[x].published = now  BY <2>1
    <3>4. now <= row[y].published  BY <1>5, <3>1, <3>3
    <3>5. now + MinInterval <= row[y].published  BY <1>1, <3>2, <3>4
    <3>. QED  BY <3>1, <3>3, <3>5
  <2>2. CASE y = a
    <3>1. row'[x] = row[x] /\ Published(x)  BY <1>5, <2>2 DEF Published
    <3>2. row[x].published + MinInterval <= now  BY <3>1 DEF RateOpen
    <3>. QED  BY <2>2, <3>1, <3>2
  <2>3. CASE x # a /\ y # a
    <3>1. row'[x] = row[x] /\ row'[y] = row[y] /\ Published(x) /\ Published(y)
      BY <1>5, <2>3 DEF Published
    <3>. QED  BY <1>5, <3>1 DEF RateHolds
  <2>. QED  BY <2>1, <2>2, <2>3
<1>. QED  BY <1>4, <1>5 DEF RateHolds, InDay

LEMMA RecordPaces == ASSUME IInv, IInv', Paces, NEW c \in Cycles, Record(c) PROVE Paces'
<1>0. TypeOK /\ TypeOK' /\ RowsInv /\ cyc[c].pc = "accepted"  BY DEF IInv, Paces, Record
<1>1. PICK a \in Articles : a = cyc[c].article  BY <1>0 DEF IInv, Shape, InHand
<1>. DEFINE w == [cyc[c] EXCEPT !.pc = "channels", !.step = 1]
<1>2. /\ cyc' = [cyc EXCEPT ![c] = w]
      /\ row' = [row EXCEPT ![a] = [@ EXCEPT !.status = "published", !.published = now, !.updated = 0]]
      /\ UNCHANGED <<now, column, late, uploads, posts, abandoned, faults, overlaps>>
  BY <1>1 DEF Record, history, counters
<1>3. /\ w \in CycType /\ w.pc = "channels" /\ w.article = a /\ w.todo = cyc[c].todo
      /\ w.startedAt = cyc[c].startedAt
  <2>1. 1 \in 1 .. Len(Surfaces) + 1  BY SurfacesAssumption
  <2>. QED  BY <1>0, <1>1, <2>1, CycIs DEF CycType
<1>. HIDE DEF w
<1>4. cyc'[c] = w /\ \A d \in Cycles \ {c} : cyc'[d] = cyc[d]
  BY <1>0, <1>2, <1>3, SlotIs
<1>5. /\ row'[a].status = "published" /\ row'[a].attempts = row[a].attempts
      /\ row'[a].published = now /\ \A x \in Articles \ {a} : row'[x] = row[x]
  <2>1. row \in [Articles -> RowType]  BY <1>0 DEF TypeOK, RowType
  <2>. DEFINE r == [row[a] EXCEPT !.status = "published", !.published = now, !.updated = 0]
  <2>2. r.status = "published" /\ r.attempts = row[a].attempts /\ r.published = now
    BY <2>1 DEF RowType
  <2>3. row' = [row EXCEPT ![a] = r]  BY <1>2
  <2>. HIDE DEF r
  <2>. QED  BY <2>1, <2>2, <2>3
<1>6. /\ Lapses' = Lapses /\ Lapses \in Nat /\ overlaps <= Lapses /\ overlaps \in Nat
      /\ now \in Nat /\ now > 0
  BY <1>0, <1>2, LapsesAre DEF Lapses, TypeOK, RowsInv
<1>7. Ever(a)' /\ Published(a)' /\ \A x \in Articles : Ever(x) => Ever(x)'
  BY <1>5, <1>6 DEF Ever, Published
<1>8. RowsInv'
  <2>1. ASSUME NEW x \in Articles
        PROVE  Cardinality(AcceptedBy(x)') + EverCount(x)' <= uploads'[x]
    <3>1. /\ Cardinality(AcceptedBy(x)) + EverCount(x) <= uploads[x] /\ uploads[x] \in Nat
          /\ EverCount(x) \in Nat /\ uploads'[x] = uploads[x]
          /\ EverCount(x)' \in Nat /\ EverCount(x)' <= 1
      BY <1>0, <1>2 DEF RowsInv, TypeOK, EverCount
    <3>2. CASE x = a
      <4>1. AcceptedBy(x)' \subseteq AcceptedBy(x) \ {c} /\ c \in AcceptedBy(x)
        BY <1>0, <1>1, <1>3, <1>4, <3>2 DEF AcceptedBy
      <4>2. /\ Cardinality(AcceptedBy(x)') + 1 <= Cardinality(AcceptedBy(x))
            /\ Cardinality(AcceptedBy(x)') \in Nat /\ Cardinality(AcceptedBy(x)) \in Nat
        BY <4>1, AcceptedIs, OneLess
      <4>. QED  BY <3>1, <4>2
    <3>3. CASE x # a
      <4>1. AcceptedBy(x)' \subseteq AcceptedBy(x)  BY <1>3, <1>4 DEF AcceptedBy
      <4>2. /\ Cardinality(AcceptedBy(x)') <= Cardinality(AcceptedBy(x))
            /\ Cardinality(AcceptedBy(x)') \in Nat /\ Cardinality(AcceptedBy(x)) \in Nat
        BY <4>1, AcceptedIs, NoMore
      <4>3. EverCount(x)' = EverCount(x)  BY <1>5, <3>3 DEF EverCount, Ever
      <4>. QED  BY <3>1, <4>2, <4>3
    <3>. QED  BY <3>2, <3>3
  <2>2. ASSUME NEW x \in Articles
        PROVE  /\ row'[x].published <= now'
               /\ Published(x)' => Ever(x)'
               /\ Ever(x)' => Published(x)' \/ row'[x].attempts >= 2
    <3>1. CASE x = a  BY <1>2, <1>5, <1>6, <1>7, <3>1
    <3>2. CASE x # a  BY <1>0, <1>2, <1>5, <3>2 DEF RowsInv, Published, Ever
    <3>. QED  BY <3>1, <3>2
  <2>. QED  BY <1>2, <1>6, <2>1, <2>2 DEF RowsInv
<1>9. SinceInv'
  <2>1. ASSUME NEW d \in Cycles
        PROVE  /\ cyc'[d].startedAt <= now'
               /\ \A x \in Articles : MayTake(d, x)' /\ Ever(x)' => row'[x].published >= cyc'[d].startedAt
    <3>1. cyc'[d].startedAt = cyc[d].startedAt  BY <1>3, <1>4
    <3>2. cyc[d].startedAt <= now /\ cyc[d].startedAt \in Nat
      BY <1>0, CycIs DEF Paces, SinceInv, CycType
    <3>3. ASSUME NEW x \in Articles, MayTake(d, x)', Ever(x)'
          PROVE  row'[x].published >= cyc'[d].startedAt
      <4>1. MayTake(d, x)  BY <1>3, <1>4, <3>3 DEF MayTake, Pre
      <4>2. CASE x = a  BY <1>5, <1>6, <3>1, <3>2, <4>2
      <4>3. CASE x # a
        <5>1. row'[x] = row[x] /\ Ever(x)  BY <1>5, <3>3, <4>3 DEF Ever
        <5>. QED  BY <3>1, <4>1, <5>1 DEF Paces, SinceInv
      <4>. QED  BY <4>2, <4>3
    <3>. QED  BY <1>2, <3>1, <3>2, <3>3
  <2>. QED  BY <2>1 DEF SinceInv
<1>10. RunsInv'
  <2>1. Cardinality(Runs') <= 1 + overlaps'
    <3>1. Runs' \subseteq Runs /\ Runs \subseteq Cycles  BY <1>0, <1>4 DEF Runs, Running
    <3>2. /\ Cardinality(Runs') <= Cardinality(Runs) /\ Cardinality(Runs') \in Nat
          /\ Cardinality(Runs) \in Nat
      BY <3>1, FiniteIs, NoMore
    <3>3. Cardinality(Runs) <= 1 + overlaps  BY DEF Paces, RunsInv
    <3>. QED  BY <1>2, <1>6, <3>2, <3>3
  <2>2. ASSUME NEW d \in Cycles, cyc'[d].pc \in Pre
        PROVE  Cardinality(Since(d)') + Cardinality(Beside(d)') <= overlaps'
    <3>1. d # c  BY <1>3, <1>4, <2>2 DEF Pre
    <3>2. cyc'[d] = cyc[d] /\ cyc[d].pc \in Pre  BY <1>4, <2>2, <3>1
    <3>3. Since(d)' \subseteq Since(d) \cup {a} /\ Since(d) \subseteq Articles
      BY <1>5, <3>2 DEF Since
    <3>4. Beside(d)' \subseteq Beside(d) \ {c} /\ c \in Beside(d) /\ Beside(d) \subseteq Cycles
      BY <1>0, <1>3, <1>4, <3>1 DEF Beside, Pre
    <3>5. /\ Cardinality(Since(d)') <= Cardinality(Since(d)) + 1
          /\ Cardinality(Since(d)') \in Nat /\ Cardinality(Since(d)) \in Nat
      BY <3>3, FiniteIs, OneMore
    <3>6. /\ Cardinality(Beside(d)') + 1 <= Cardinality(Beside(d))
          /\ Cardinality(Beside(d)') \in Nat /\ Cardinality(Beside(d)) \in Nat
      BY <3>4, FiniteIs, OneLess
    <3>7. Cardinality(Since(d)) + Cardinality(Beside(d)) <= overlaps
      BY <3>2 DEF Paces, RunsInv
    <3>. QED  BY <1>2, <1>6, <3>5, <3>6, <3>7
  <2>. QED  BY <2>1, <2>2 DEF RunsInv
<1>11. PaceInv'
  <2>. SUFFICES ASSUME overlaps = 0
                PROVE  RateHolds' /\ \A d \in Cycles : cyc'[d].pc \notin Pre
    BY <1>2 DEF PaceInv
  <2>1. RateOpen /\ RateHolds  BY <1>0 DEF Paces, PaceInv, Pre
  <2>2. RateHolds'  BY <1>0, <1>2, <1>5, <2>1, RateKept
  <2>3. \A d \in Cycles \ {c} : ~Running(d)  BY <1>0 DEF IInv, Single, Running
  <2>. QED  BY <1>3, <1>4, <2>2, <2>3 DEF Running, Pre
<1>12. \A d \in Cycles : SlotAloof(d)
  <2>1. SlotAloof(c)  BY <1>0, <1>1, <1>3, <1>4 DEF SlotAloof, Pre, Mid, Stages, Takes
  <2>. QED  BY <1>4, <2>1 DEF SlotAloof
<1>13. /\ \A x \in Articles, s \in SurfaceSet : Touched(x, s)' <=> Touched(x, s)
       /\ \A x \in Articles, s \in SurfaceSet, d \in Cycles : Holds(d, x, s)' <=> Holds(d, x, s)
       /\ \A d \in Cycles, s \in SurfaceSet : At(d, s)' <=> At(d, s)
       /\ \A s \in Recording : LostAt(s) => LostAt(s)'
  <2>1. Lapses' \in Nat /\ Lapses' >= Lapses  BY <1>6
  <2>. QED  BY <1>2, <1>6, <1>12, <2>1, AloofSurfaces
<1>14. EverInv'
  <2>1. \A d \in Cycles, x \in Articles :
          cyc'[d].pc \in Mid /\ cyc'[d].article = x =>
            Ever(x)' \/ (cyc[d].pc \in Mid /\ cyc[d].article = x)
    BY <1>3, <1>4, <1>7
  <2>. QED  BY <1>7, <1>13, <2>1, EverKept DEF Paces
<1>15. ASSUME NEW s \in Recording PROVE LostAt(s)' /\ ClaimsAt(s)'
  <2>1. LostAt(s) /\ ClaimsAt(s) /\ s \in SurfaceSet /\ Cap[s] \in Nat
    BY RecordingIs DEF Paces
  <2>2. Claims(s)' \subseteq Claims(s) \cup {a}
    BY <1>2, <1>5, <1>13, <2>1 DEF Claims
  <2>3. CASE a \in Claims(s) \/ a \notin Claims(s)'
    <3>1. Claims(s)' \subseteq Claims(s)  BY <2>2, <2>3
    <3>2. Lapses' \in Nat /\ Lapses' >= Lapses  BY <1>6
    <3>. QED  BY <1>6, <1>13, <2>1, <3>1, <3>2, ClaimsKept
  <2>4. CASE a \notin Claims(s) /\ a \in Claims(s)'
    <3>1. Touched(a, s) \/ \E d \in Cycles : Holds(d, a, s)
      BY <1>13, <2>1, <2>4 DEF Claims
    <3>2. Ever(a) /\ Cap[s] > 0
      BY <2>1, <3>1 DEF Paces, EverInv, Holds, At, Mid
    <3>3. ~(row[a].published + Day > now)  BY <2>4, <3>1 DEF Claims
    <3>4. row[a].published >= cyc[c].startedAt
      BY <1>0, <1>1, <3>2 DEF Paces, SinceInv, MayTake, Pre
    <3>5. Claims(s) \subseteq Since(c)
      <4>1. ASSUME NEW x \in Claims(s) PROVE x \in Since(c)
        <5>1. x \in Articles /\ row[x].published + Day > now  BY DEF Claims
        <5>2. /\ row[x].published \in Nat /\ row[a].published \in Nat /\ Day \in Nat
              /\ cyc[c].startedAt \in Nat
          BY <1>0, <5>1, NumbersAssumption, CycIs DEF TypeOK, CycType
        <5>3. row[x].published > cyc[c].startedAt  BY <1>6, <3>3, <3>4, <5>1, <5>2
        <5>. QED  BY <5>1, <5>3 DEF Since
      <4>. QED  BY <4>1
    <3>6. Cardinality(Since(c)) <= overlaps
      <4>1. Cardinality(Since(c)) + Cardinality(Beside(c)) <= overlaps
        BY <1>0 DEF Paces, RunsInv, Pre
      <4>2. Since(c) \subseteq Articles /\ Beside(c) \subseteq Cycles  BY DEF Since, Beside
      <4>3. Cardinality(Since(c)) \in Nat /\ Cardinality(Beside(c)) \in Nat
        BY <4>2, FiniteIs
      <4>. QED  BY <1>6, <4>1, <4>3
    <3>7. Claims(s)' \subseteq Since(c) \cup {a} /\ Since(c) \subseteq Articles
      BY <2>2, <3>5 DEF Since
    <3>8. /\ Cardinality(Claims(s)') <= Cardinality(Since(c)) + 1
          /\ Cardinality(Claims(s)') \in Nat /\ Cardinality(Since(c)) \in Nat
      BY <3>7, FiniteIs, OneMore
    <3>9. Cardinality(Claims(s)') <= Cap[s] + Lapses'
      BY <1>6, <2>1, <3>2, <3>6, <3>8
    <3>. QED  BY <1>13, <2>1, <3>9 DEF ClaimsAt
  <2>. QED  BY <2>3, <2>4
<1>. QED  BY <1>8, <1>9, <1>10, <1>11, <1>14, <1>15 DEF Paces

\* No more articles than runs that hold them.
LEMMA HeldIs ==
  ASSUME NEW C, C \subseteq Cycles, NEW f, f = [d \in C |-> cyc[d].article],
         NEW T, T \subseteq {f[d] : d \in C}
  PROVE  IsFiniteSet(T) /\ Cardinality(T) <= Cardinality(C)
<1>. DEFINE H == {f[d] : d \in C}
<1>1. IsFiniteSet(C)  BY FiniteIs
<1>2. f \in Surjection(C, H)  BY DEF Surjection
<1>3. IsFiniteSet(H) /\ Cardinality(H) <= Cardinality(C)
  <2>. HIDE DEF H
  <2>. QED  BY <1>1, <1>2, FS_Surjection
<1>4. T \subseteq H  OBVIOUS
<1>. HIDE DEF H
<1>5. /\ Cardinality(T) <= Cardinality(H) /\ Cardinality(T) \in Nat /\ Cardinality(H) \in Nat
      /\ IsFiniteSet(T)
  BY <1>3, <1>4, NoMore, FS_Subset
<1>6. Cardinality(C) \in Nat  BY FiniteIs
<1>. QED  BY <1>3, <1>5, <1>6

LEMMA CrashPaces == ASSUME IInv, IInv', Paces, Crash PROVE Paces'
<1>0. TypeOK /\ TypeOK' /\ RowsInv /\ Fault  BY DEF IInv, Paces, Crash
<1>1. /\ cyc' = [c \in Cycles |-> Idle] /\ late' = {}
      /\ UNCHANGED <<now, row, column, uploads, posts>>
  BY DEF Crash, history
<1>2. \A c \in Cycles : cyc'[c] = Idle  BY <1>1
<1>3. Lapses' = Lapses + 1 /\ Lapses \in Nat /\ Lapses' \in Nat /\ overlaps' = overlaps
  BY <1>0, FaultAdds, LapsesNext
<1>4. now' \in Nat /\ now' >= now  BY <1>0, <1>1 DEF TypeOK
<1>5. \A c \in Cycles : /\ cyc'[c].pc \notin Pre \cup Mid \cup Stages /\ ~Running(c)'
                        /\ cyc'[c].startedAt = 0
  BY <1>2 DEF Idle, Pre, Mid, Stages, Running
<1>6. RowsInv'
  <2>1. \A a \in Articles : AcceptedBy(a)' \subseteq AcceptedBy(a)
    BY <1>2, IdleIs DEF AcceptedBy
  <2>. QED  BY <1>0, <1>1, <1>4, <2>1, RowsKept
<1>7. SinceInv'
  <2>1. \A c \in Cycles, a \in Articles : ~MayTake(c, a)'  BY <1>5 DEF MayTake
  <2>. QED  BY <1>0, <1>1, <1>4, <1>5, <2>1, SinceKept DEF Paces
<1>8. RunsInv'  BY <1>0, <1>1, <1>3, <1>5, RunsKept DEF Paces
<1>9. PaceInv'
  <2>1. \A a \in Articles : Published(a)' => Published(a) /\ row'[a].published = row[a].published
    BY <1>1 DEF Published
  <2>. QED  BY <1>0, <1>3, <1>4, <1>5, <2>1, PaceKept DEF Paces
<1>10. /\ \A a \in Articles, s \in SurfaceSet : Touched(a, s)' => posts[a][s] > 0
       /\ \A a \in Articles, s \in SurfaceSet : ~LateAt(a, s)'
       /\ \A c \in Cycles, s \in SurfaceSet : ~At(c, s)'
       /\ \A c \in Cycles, a \in Articles, s \in SurfaceSet : ~Holds(c, a, s)'
  BY <1>1, <1>5 DEF Touched, LateAt, At, Holds
<1>11. EverInv'
  <2>1. \A a \in Articles : Ever(a) => Ever(a)'  BY <1>1 DEF Ever
  <2>2. \A a \in Articles, s \in SurfaceSet : Touched(a, s)' => Touched(a, s)
    BY <1>10 DEF Touched
  <2>. QED  BY <1>5, <1>10, <2>1, <2>2, EverKept DEF Paces
<1>12. ASSUME NEW s \in Recording PROVE LostAt(s)' /\ ClaimsAt(s)'
  <2>1. LostAt(s) /\ ClaimsAt(s) /\ s \in SurfaceSet  BY RecordingIs DEF Paces
  <2>2. Claims(s)' \subseteq Claims(s)
    <3>1. \A a \in Articles : Touched(a, s)' => Touched(a, s)  BY <1>10, <2>1 DEF Touched
    <3>. QED  BY <1>1, <1>10, <2>1, <3>1 DEF Claims
  <2>3. Ahead(s)' = {} /\ Stale(s)' = {}
    BY <1>5 DEF Ahead, Stale, Reaches
  <2>4. Cardinality(Stale(s)') = 0  BY <2>3, FS_EmptySet
  <2>5. PICK f : f = [d \in Ahead(s) |-> cyc[d].article]  OBVIOUS
  <2>6. PICK H : H = {f[d] : d \in Ahead(s)}  OBVIOUS
  <2>7. IsFiniteSet(H) /\ Cardinality(H) <= Cardinality(Ahead(s))
    BY <2>5, <2>6, SetsOfS, HeldIs
  <2>8. Lost(s)' \subseteq Lost(s) \cup H
    <3>1. ASSUME NEW a \in Articles, posts[a][s] > 0, column[a][Column[s]] # "posted", a \notin Lost(s)
          PROVE  a \in H
      <4>1. PICK c \in Cycles : Holds(c, a, s)  BY <3>1 DEF Lost
      <4>2. cyc[c].article = a /\ cyc[c].pc \in Mid /\ cyc[c].step <= Len(Surfaces) /\ s = Surfaces[cyc[c].step]
        BY <4>1 DEF Holds, At, AtSurface, Mid
      <4>3. cyc[c].step \in DOMAIN Surfaces /\ cyc[c].step >= cyc[c].step
        <5>1. cyc[c].step \in 1 .. Len(Surfaces) + 1  BY <1>0, CycIs DEF CycType
        <5>2. Surfaces \in Seq(SurfaceSet)  BY SurfacesAssumption
        <5>. QED  BY <4>2, <5>1, <5>2
      <4>4. c \in Ahead(s)  BY <4>2, <4>3 DEF Ahead, Reaches
      <4>. QED  BY <2>5, <2>6, <4>2, <4>4
    <3>. QED  BY <1>1, <1>10, <2>1, <3>1 DEF Lost
  <2>9. /\ Cardinality(Lost(s)') <= Cardinality(Lost(s)) + Cardinality(Ahead(s))
        /\ Cardinality(Lost(s)') \in Nat
    <3>1. /\ IsFiniteSet(Lost(s) \cup H)
          /\ Cardinality(Lost(s) \cup H) = Cardinality(Lost(s)) + Cardinality(H) - Cardinality(Lost(s) \cap H)
      BY <2>7, SetsOfS, FS_Union
    <3>2. IsFiniteSet(Lost(s) \cap H)  BY <2>7, FS_Subset
    <3>3. Cardinality(Lost(s) \cap H) \in Nat /\ Cardinality(H) \in Nat
      BY <2>7, <3>2, FS_CardinalityType
    <3>4. /\ Cardinality(Lost(s)') <= Cardinality(Lost(s) \cup H)
          /\ Cardinality(Lost(s)') \in Nat /\ Cardinality(Lost(s) \cup H) \in Nat
      BY <2>8, <3>1, NoMore
    <3>. QED  BY <2>7, <3>1, <3>3, <3>4, SetsOfS
  <2>10. Cardinality(Lost(s)') <= Lapses + 1
    <3>1. CASE Ahead(s) = {}
      <4>1. Cardinality(Ahead(s)) = 0  BY <3>1, FS_EmptySet
      <4>. QED  BY <1>3, <2>1, <2>9, <4>1, SetsOfS DEF LostAt
    <3>2. CASE Ahead(s) # {}  BY <1>3, <2>1, <2>9, <3>2, SetsOfS DEF LostAt
    <3>. QED  BY <3>1, <3>2
  <2>11. LostAt(s)'  BY <1>3, <2>3, <2>4, <2>9, <2>10 DEF LostAt
  <2>12. Lapses' >= Lapses  BY <1>3
  <2>. QED  BY <1>3, <2>1, <2>2, <2>11, <2>12, ClaimsKept
<1>. QED  BY <1>6, <1>7, <1>8, <1>9, <1>11, <1>12 DEF Paces

-----------------------------------------------------------------------------
(* A run's steps at surface t.                                             *)

\* What they have in common.
Moves(c, t) ==
  /\ AtSurface(c, t)
  /\ \A d \in Cycles \ {c} : cyc'[d] = cyc[d]
  /\ cyc'[c].pc \in Mid /\ cyc'[c].article = cyc[c].article
  /\ cyc'[c].startedAt = cyc[c].startedAt
  /\ \A x \in Articles : /\ row'[x].published = row[x].published
                         /\ row'[x].status = row[x].status
                         /\ row'[x].attempts = row[x].attempts
  /\ \A x \in Articles, k \in Columns :
       x # cyc[c].article \/ k # Column[t] => column'[x][k] = column[x][k]
  /\ UNCHANGED <<now, uploads, overlaps>>
  /\ Lapses' \in Nat /\ Lapses' >= Lapses

Stays(c)  == cyc'[c].step = cyc[c].step
Passes(c) == cyc'[c].step = cyc[c].step + 1 /\ cyc'[c].pc = "channels"

LEMMA MovesKeep ==
  ASSUME IInv, IInv', Paces, NEW c \in Cycles, NEW t, Moves(c, t)
  PROVE  RowsInv' /\ SinceInv' /\ RunsInv' /\ PaceInv'
<1>1. TypeOK /\ TypeOK' /\ now' \in Nat /\ now' >= now /\ now' = now /\ overlaps' = overlaps
      /\ uploads' = uploads
  <2>1. TypeOK /\ TypeOK' /\ now \in Nat  BY DEF IInv, TypeOK
  <2>2. now' = now /\ overlaps' = overlaps /\ uploads' = uploads  BY DEF Moves
  <2>. QED  BY <2>1, <2>2
<1>2. /\ cyc[c].pc \in Mid /\ cyc'[c].pc \in Mid /\ cyc'[c].startedAt = cyc[c].startedAt
      /\ \A d \in Cycles \ {c} : cyc'[d] = cyc[d]
  BY DEF Moves, AtSurface, Mid
<1>3. \A d \in Cycles : /\ Running(d)' => Running(d)
                        /\ cyc'[d].startedAt = cyc[d].startedAt
                        /\ cyc'[d].pc \in Pre => cyc'[d] = cyc[d]
  BY <1>2 DEF Running, Mid, Pre, Stages
<1>4. \A x \in Articles : /\ row'[x].published = row[x].published
                          /\ row'[x].status = row[x].status
                          /\ row'[x].attempts = row[x].attempts
  BY DEF Moves
<1>5. RowsInv'
  <2>1. \A x \in Articles : AcceptedBy(x)' \subseteq AcceptedBy(x)
    BY <1>2 DEF AcceptedBy, Mid, Stages
  <2>. QED  BY <1>1, <1>4, <2>1, RowsKept DEF Paces
<1>6. SinceInv'
  <2>1. \A d \in Cycles, x \in Articles : MayTake(d, x)' => MayTake(d, x)
    BY <1>3 DEF MayTake
  <2>. QED  BY <1>1, <1>3, <1>4, <2>1, SinceKept DEF Paces
<1>7. RunsInv'  BY <1>1, <1>3, <1>4, RunsKept DEF Paces
<1>8. PaceInv'
  <2>1. \A x \in Articles : Published(x)' => Published(x)  BY <1>4 DEF Published
  <2>. QED  BY <1>1, <1>3, <1>4, <2>1, PaceKept DEF Paces
<1>. QED  BY <1>5, <1>6, <1>7, <1>8

LEMMA StepIs ==
  ASSUME TypeOK, NEW c \in Cycles, NEW t, AtSurface(c, t)
  PROVE  /\ cyc[c].step \in DOMAIN Surfaces /\ Surfaces[cyc[c].step] = t
         /\ cyc[c].step \in Nat /\ cyc[c].pc \in Mid
         /\ \A i \in DOMAIN Surfaces : i \in Nat /\ (Surfaces[i] = t => i = cyc[c].step)
<1>1. cyc[c].step \in 1 .. Len(Surfaces) + 1  BY CycIs DEF CycType
<1>2. Surfaces \in Seq(SurfaceSet)  BY SurfacesAssumption
<1>3. DOMAIN Surfaces = 1 .. Len(Surfaces) /\ Len(Surfaces) \in Nat  BY <1>2
<1>4. cyc[c].step \in DOMAIN Surfaces /\ Surfaces[cyc[c].step] = t /\ cyc[c].pc \in Mid
  BY <1>1, <1>3 DEF AtSurface, Mid
<1>. QED  BY <1>3, <1>4, SurfacesAssumption

LEMMA CursorMoves ==
  ASSUME IInv, NEW c \in Cycles, NEW t, Moves(c, t), Stays(c) \/ Passes(c), NEW s
  PROVE  /\ c \in Ahead(t)
         /\ Ahead(s)' \subseteq Ahead(s)
         /\ Passes(c) => Ahead(t)' \subseteq Ahead(t) \ {c}
         /\ s # t => ~At(c, s) /\ ~At(c, s)' /\ ~AtSurface(c, s)
         /\ Passes(c) => ~At(c, s)'
         /\ \A x \in Articles : Takes(c, x)' => Takes(c, x)
<1>0. TypeOK  BY DEF IInv
<1>1. /\ cyc[c].step \in DOMAIN Surfaces /\ Surfaces[cyc[c].step] = t
      /\ cyc[c].step \in Nat /\ cyc[c].pc \in Mid
      /\ \A i \in DOMAIN Surfaces : i \in Nat /\ (Surfaces[i] = t => i = cyc[c].step)
  BY <1>0, StepIs DEF Moves
<1>2. /\ cyc'[c].pc \in Mid /\ \A d \in Cycles \ {c} : cyc'[d] = cyc[d]
      /\ cyc'[c].article = cyc[c].article
  BY DEF Moves
<1>3. cyc'[c].step = cyc[c].step \/ cyc'[c].step = cyc[c].step + 1  BY DEF Stays, Passes
<1>4. c \in Ahead(t)  BY <1>1 DEF Ahead, Reaches
<1>5. Mid \cap Pre = {}  BY DEF Mid, Pre, Stages
<1>6. ASSUME NEW d \in Cycles, Reaches(d, s)' PROVE Reaches(d, s)
  <2>1. CASE d = c
    <3>1. PICK i \in DOMAIN Surfaces : i >= cyc'[c].step /\ Surfaces[i] = s
      BY <1>2, <1>5, <1>6, <2>1 DEF Reaches
    <3>2. i >= cyc[c].step  BY <1>1, <1>3, <3>1
    <3>. QED  BY <1>1, <2>1, <3>1, <3>2 DEF Reaches
  <2>2. CASE d # c  BY <1>2, <1>6, <2>2 DEF Reaches
  <2>. QED  BY <2>1, <2>2
<1>7. Ahead(s)' \subseteq Ahead(s)  BY <1>6 DEF Ahead
<1>8. ASSUME Passes(c) PROVE Ahead(t)' \subseteq Ahead(t) \ {c}
  <2>1. ~Reaches(c, t)'
    <3>1. cyc'[c].step = cyc[c].step + 1  BY <1>8 DEF Passes
    <3>2. \A i \in DOMAIN Surfaces : i >= cyc'[c].step => Surfaces[i] # t  BY <1>1, <3>1
    <3>. QED  BY <1>2, <1>5, <3>2 DEF Reaches
  <2>2. \A d \in Cycles \ {c} : Reaches(d, t)' => Reaches(d, t)  BY <1>2 DEF Reaches
  <2>. QED  BY <2>1, <2>2 DEF Ahead
<1>9. s # t => ~At(c, s) /\ ~AtSurface(c, s)  BY <1>1 DEF At, AtSurface
<1>10. Passes(c) => ~At(c, s)'  BY DEF Passes, At, Stages
<1>11. s # t => ~At(c, s)'
  <2>1. CASE Passes(c)  BY <1>10, <2>1
  <2>2. CASE Stays(c)  BY <1>1, <2>2 DEF Stays, At, AtSurface
  <2>. QED  BY <2>1, <2>2
<1>12. \A x \in Articles : Takes(c, x)' => Takes(c, x)  BY <1>2, <1>5 DEF Takes
<1>. QED  BY <1>4, <1>7, <1>8, <1>9, <1>10, <1>11, <1>12

\* A run takes no other slot's place at a surface.
LEMMA HoldsMoves ==
  ASSUME IInv, NEW c \in Cycles, NEW t, Moves(c, t), Stays(c) \/ Passes(c), NEW s, s # t \/ Passes(c),
         NEW d \in Cycles
  PROVE  /\ At(d, s)' => At(d, s)
         /\ \A x : Holds(d, x, s)' => Holds(d, x, s)
         /\ \A x : Holds(d, x, s) => Holds(d, x, s)' \/ (d = c /\ s = t)
         /\ d # c => Reaches(d, s)' = Reaches(d, s) /\ AtSurface(d, s)' = AtSurface(d, s)
<1>1. /\ s # t => ~At(c, s) /\ ~At(c, s)'
      /\ Passes(c) => ~At(c, s)'
  BY CursorMoves
<1>2. \A e \in Cycles \ {c} : cyc'[e] = cyc[e]  BY DEF Moves
<1>3. CASE d = c  BY <1>1, <1>3 DEF Holds
<1>4. CASE d # c
  <2>1. cyc'[d] = cyc[d]  BY <1>2, <1>4
  <2>. QED  BY <1>4, <2>1 DEF Holds, At, AtSurface, Reaches
<1>. QED  BY <1>3, <1>4

\* Runs that were not stale at s stay so while nothing new is there.
LEMMA StaleMoves ==
  ASSUME IInv, NEW c \in Cycles, NEW t, Moves(c, t), Stays(c) \/ Passes(c), NEW s, s # t \/ Passes(c),
         \A x \in Articles : Touched(x, s)' => Touched(x, s)
  PROVE  Stale(s)' \subseteq Stale(s)
<1>. SUFFICES ASSUME NEW d \in Stale(s)' PROVE d \in Stale(s)  OBVIOUS
<1>1. /\ Ahead(s)' \subseteq Ahead(s)
      /\ Passes(c) => Ahead(t)' \subseteq Ahead(t) \ {c}
      /\ s # t => ~AtSurface(c, s)
      /\ \A x \in Articles : Takes(c, x)' => Takes(c, x)
  BY CursorMoves
<1>2. d \in Ahead(s)' /\ d \in Cycles /\ ~(cyc'[d].pc = "answer" /\ AtSurface(d, s)')
  BY DEF Stale, Ahead
<1>3. PICK x \in Articles : Touched(x, s)' /\ Takes(d, x)'  BY DEF Stale
<1>4. \A e \in Cycles \ {c} : cyc'[e] = cyc[e]  BY DEF Moves
<1>5. Takes(d, x)
  <2>1. CASE d = c  BY <1>1, <1>3, <2>1
  <2>2. CASE d # c  BY <1>2, <1>3, <1>4, <2>2 DEF Takes
  <2>. QED  BY <2>1, <2>2
<1>6. ~(cyc[d].pc = "answer" /\ AtSurface(d, s))
  <2>1. CASE d = c
    <3>1. s # t  BY <1>1, <1>2, <2>1
    <3>. QED  BY <1>1, <2>1, <3>1
  <2>2. CASE d # c
    <3>1. cyc'[d] = cyc[d]  BY <1>2, <1>4, <2>2
    <3>. QED  BY <1>2, <3>1 DEF AtSurface
  <2>. QED  BY <2>1, <2>2
<1>. QED  BY <1>1, <1>2, <1>3, <1>5, <1>6 DEF Stale

\* No post of the window is new unless a run holds its article already.
LEMMA ClaimsMove ==
  ASSUME IInv, IInv', Paces, NEW c \in Cycles, NEW t, Moves(c, t), NEW s \in Recording,
         \A x \in Articles : Touched(x, s)' => Touched(x, s) \/ \E d \in Cycles : Holds(d, x, s),
         \A x \in Articles, d \in Cycles : Holds(d, x, s)' => Holds(d, x, s)
  PROVE  ClaimsAt(s)'
<1>1. ClaimsAt(s) /\ s \in SurfaceSet  BY RecordingIs DEF Paces
<1>2. TypeOK /\ Lapses \in Nat /\ Lapses' \in Nat /\ Lapses' >= Lapses
  BY LapsesAre DEF IInv, Moves
<1>3. now' = now /\ \A x \in Articles : row'[x].published = row[x].published  BY DEF Moves
<1>4. Claims(s)' \subseteq Claims(s)
  <2>. SUFFICES ASSUME NEW x \in Articles, row'[x].published + Day > now',
                       Touched(x, s)' \/ \E d \in Cycles : Holds(d, x, s)'
                PROVE  Touched(x, s) \/ \E d \in Cycles : Holds(d, x, s)
    BY <1>3 DEF Claims
  <2>1. CASE Touched(x, s)'  BY <2>1
  <2>2. CASE \E d \in Cycles : Holds(d, x, s)'
    <3>1. PICK d \in Cycles : Holds(d, x, s)'  BY <2>2
    <3>. QED  BY <3>1
  <2>. QED  BY <2>1, <2>2
<1>. QED  BY <1>1, <1>2, <1>4, ClaimsKept

\* A surface the run is not at: it can only lose the post of an article whose
\* column it shares with one that overran.
LEMMA OtherLost ==
  ASSUME IInv, IInv', Paces, NEW c \in Cycles, NEW t \in SurfaceSet, Moves(c, t), Stays(c) \/ Passes(c),
         NEW s \in Recording, s # t,
         \A x \in Articles : posts'[x][s] = posts[x][s] /\ (LateAt(x, s)' => LateAt(x, s)),
         t \in Recording \/ column' = column \/ Lapses' >= Lapses + 1
  PROVE  LostAt(s)'
<1>1. LostAt(s) /\ s \in SurfaceSet /\ Column[s] \in Columns  BY RecordingIs DEF Paces
<1>2. Lapses \in Nat /\ Lapses' \in Nat /\ Lapses' >= Lapses
  BY LapsesAre DEF IInv, Moves
<1>3. \A x \in Articles : Touched(x, s)' => Touched(x, s)  BY DEF Touched
<1>4. Stale(s)' \subseteq Stale(s)  BY <1>3, StaleMoves
<1>5. Ahead(s)' \subseteq Ahead(s)  BY CursorMoves
<1>6. PICK a : a = cyc[c].article  OBVIOUS
<1>7. ASSUME NEW x \in Articles, x \in Lost(s)', x \notin Lost(s)
      PROVE  column'[x][Column[s]] # column[x][Column[s]]
  <2>1. /\ posts[x][s] > 0 /\ column'[x][Column[s]] # "posted"
        /\ \A d \in Cycles : ~Holds(d, x, s)'
    BY <1>7 DEF Lost
  <2>2. \A d \in Cycles : ~Holds(d, x, s)  BY <2>1, HoldsMoves
  <2>. QED  BY <1>7, <2>1, <2>2 DEF Lost
<1>8. CASE t \in Recording \/ column' = column
  <2>1. \A x \in Articles : column'[x][Column[s]] = column[x][Column[s]]
    <3>1. CASE t \in Recording
      <4>1. Column[s] # Column[t]  BY <3>1, SurfacesAssumption
      <4>. QED  BY <1>1, <4>1 DEF Moves
    <3>. QED  BY <1>8, <3>1
  <2>2. Lost(s)' \subseteq Lost(s)
    <3>1. Lost(s)' \subseteq Articles  BY DEF Lost
    <3>. QED  BY <1>7, <2>1, <3>1
  <2>. QED  BY <1>1, <1>2, <1>4, <1>5, <2>2, LostKept
<1>9. CASE Lapses' >= Lapses + 1
  <2>1. \A x \in Articles : x # a => column'[x][Column[s]] = column[x][Column[s]]
    BY <1>1, <1>6 DEF Moves
  <2>2. Lost(s)' \subseteq Lost(s) \cup {a}
    <3>1. Lost(s)' \subseteq Articles  BY DEF Lost
    <3>. QED  BY <1>7, <2>1, <3>1
  <2>. QED  BY <1>1, <1>2, <1>4, <1>5, <1>9, <2>2, LostShared
<1>. QED  BY <1>8, <1>9

\* The surface the run passes: its article's post is recorded there, was there
\* before its turn, or is charged to the step.
LEMMA OwnLost ==
  ASSUME IInv, IInv', Paces, NEW c \in Cycles, NEW t \in Recording, Moves(c, t), Passes(c),
         \A x \in Articles : posts'[x][t] = posts[x][t],
         \A x \in Articles : x # cyc[c].article => (LateAt(x, t)' => LateAt(x, t)),
         \/ Lapses' >= Lapses + 1
         \/ /\ late' = late
            /\ cyc[c].pc # "answer" \/ column'[cyc[c].article][Column[t]] = "posted"
  PROVE  LostAt(t)'
<1>1. LostAt(t) /\ t \in SurfaceSet /\ Column[t] \in Columns  BY RecordingIs DEF Paces
<1>2. Lapses \in Nat /\ Lapses' \in Nat /\ Lapses' >= Lapses
  BY LapsesAre DEF IInv, Moves
<1>3. PICK a : a = cyc[c].article  OBVIOUS
<1>4. c \in Ahead(t) /\ Ahead(t)' \subseteq Ahead(t) \ {c}  BY CursorMoves
<1>5. \A x \in Articles : x # a => column'[x][Column[t]] = column[x][Column[t]]
  BY <1>1, <1>3 DEF Moves
<1>6. ASSUME NEW x \in Articles, x \in Lost(t)', x # a PROVE x \in Lost(t)
  <2>1. CASE LateAt(x, t)'  BY <1>3, <1>6, <2>1 DEF Lost
  <2>2. CASE ~LateAt(x, t)'
    <3>1. /\ posts[x][t] > 0 /\ column[x][Column[t]] # "posted"
          /\ \A d \in Cycles : ~Holds(d, x, t)'
      BY <1>5, <1>6, <2>2 DEF Lost
    <3>2. \A d \in Cycles : ~Holds(d, x, t)
      BY <1>3, <1>6, <3>1, HoldsMoves DEF Holds
    <3>. QED  BY <3>1, <3>2 DEF Lost
  <2>. QED  BY <2>1, <2>2
<1>7. Lost(t)' \subseteq Lost(t) \cup {a}
  <2>1. Lost(t)' \subseteq Articles  BY DEF Lost
  <2>. QED  BY <1>6, <2>1
<1>8. CASE Lapses' >= Lapses + 1  BY <1>1, <1>2, <1>4, <1>7, <1>8, LostPasses
<1>9. CASE late' = late
  <2>1. \A x \in Articles : LateAt(x, t)' <=> LateAt(x, t)  BY <1>9 DEF LateAt
  <2>2. \A x \in Articles : Touched(x, t)' <=> Touched(x, t)  BY <2>1 DEF Touched
  <2>3. Stale(t)' \subseteq Stale(t)  BY <2>2, StaleMoves
  <2>4. Ahead(t)' \subseteq Ahead(t)  BY <1>4
  <2>5. CASE a \notin Lost(t)'
    <3>1. Lost(t)' \subseteq Lost(t)  BY <1>7, <2>5
    <3>. QED  BY <1>1, <1>2, <2>3, <2>4, <3>1, LostKept
  <2>6. CASE a \in Lost(t)' /\ cyc[c].pc # "answer"
    <3>1. a \in Articles /\ Touched(a, t)  BY <2>1, <2>6 DEF Lost, Touched
    <3>2. c \in Stale(t)  BY <1>3, <1>4, <2>6, <3>1 DEF Stale, Takes
    <3>3. Stale(t)' \subseteq Ahead(t)'  BY DEF Stale
    <3>4. Stale(t)' \subseteq Stale(t) \ {c}  BY <1>4, <2>3, <3>3
    <3>. QED  BY <1>1, <1>2, <1>4, <1>7, <3>2, <3>4, LostPasses
  <2>7. CASE a \in Lost(t)' /\ column'[a][Column[t]] = "posted"
    <3>1. LateAt(a, t) /\ a \in Articles  BY <2>1, <2>7 DEF Lost
    <3>2. a \in Lost(t)  BY <3>1 DEF Lost
    <3>3. Lost(t)' \subseteq Lost(t)  BY <1>7, <3>2
    <3>. QED  BY <1>1, <1>2, <2>3, <2>4, <3>3, LostKept
  <2>8. cyc[c].pc # "answer" \/ column'[a][Column[t]] = "posted" \/ Lapses' >= Lapses + 1
    BY <1>3
  <2>. QED  BY <1>8, <2>5, <2>6, <2>7, <2>8
<1>. QED  BY <1>8, <1>9

\* A run passes a surface.
LEMMA PassPaces ==
  ASSUME IInv, IInv', Paces, NEW c \in Cycles, NEW t \in SurfaceSet, Moves(c, t), Passes(c),
         posts' = posts,
         \A x \in Articles, s \in SurfaceSet :
           LateAt(x, s)' => \/ LateAt(x, s)
                            \/ Lapses' >= Lapses + 1 /\ Holds(c, x, s),
         t \in Recording => \/ Lapses' >= Lapses + 1
                            \/ /\ late' = late
                               /\ cyc[c].pc # "answer" \/ column'[cyc[c].article][Column[t]] = "posted",
         t \in Recording \/ column' = column \/ Lapses' >= Lapses + 1
  PROVE  Paces'
<1>1. RowsInv' /\ SinceInv' /\ RunsInv' /\ PaceInv'  BY MovesKeep
<1>2. \A s \in SurfaceSet : s # t => ~At(c, s)  BY CursorMoves
<1>3. \A x \in Articles, s \in SurfaceSet :
        Touched(x, s)' => Touched(x, s) \/ \E d \in Cycles : Holds(d, x, s)
  BY DEF Touched
<1>4. EverInv'
  <2>1. \A a \in Articles : Ever(a) => Ever(a)'  BY DEF Ever, Moves
  <2>2. \A d \in Cycles, a \in Articles :
          cyc'[d].pc \in Mid /\ cyc'[d].article = a => cyc[d].pc \in Mid /\ cyc[d].article = a
    BY DEF Moves, AtSurface, Mid
  <2>3. \A d \in Cycles, s \in SurfaceSet : At(d, s)' => At(d, s)  BY HoldsMoves
  <2>. QED  BY <1>3, <2>1, <2>2, <2>3, EverKept DEF Paces
<1>5. ASSUME NEW s \in Recording PROVE LostAt(s)' /\ ClaimsAt(s)'
  <2>1. s \in SurfaceSet  BY RecordingIs
  <2>2. ClaimsAt(s)'
    <3>1. \A x \in Articles, d \in Cycles : Holds(d, x, s)' => Holds(d, x, s)  BY HoldsMoves
    <3>. QED  BY <1>3, <2>1, <3>1, ClaimsMove
  <2>3. CASE s = t
    <3>1. \A x \in Articles : x # cyc[c].article => (LateAt(x, t)' => LateAt(x, t))
      BY DEF Holds
    <3>. QED  BY <2>2, <2>3, <3>1, OwnLost
  <2>4. CASE s # t
    <3>1. \A x \in Articles : posts'[x][s] = posts[x][s] /\ (LateAt(x, s)' => LateAt(x, s))
      BY <1>2, <2>1, <2>4 DEF Holds
    <3>. QED  BY <2>2, <2>4, <3>1, OtherLost
  <2>. QED  BY <2>3, <2>4
<1>. QED  BY <1>1, <1>4, <1>5 DEF Paces

LEMMA NextSurfaceMoves ==
  ASSUME IInv, NEW c \in Cycles, NEW t \in SurfaceSet, AtSurface(c, t), NextSurface(c)
  PROVE  /\ \A d \in Cycles \ {c} : cyc'[d] = cyc[d]
         /\ cyc'[c].pc \in Mid /\ cyc'[c].article = cyc[c].article
         /\ cyc'[c].startedAt = cyc[c].startedAt
         /\ Passes(c)
<1>. DEFINE n == cyc[c].step + 1
            w == [cyc[c] EXCEPT !.pc = "channels", !.step = n]
<1>1. n \in 1 .. Len(Surfaces) + 1  BY AtOne
<1>2. cyc' = [cyc EXCEPT ![c] = w]  BY DEF NextSurface
<1>3. n = cyc[c].step + 1  OBVIOUS
<1>. HIDE DEF n
<1>4. /\ w \in CycType /\ w.pc = "channels" /\ w.article = cyc[c].article
      /\ w.startedAt = cyc[c].startedAt /\ w.step = n
  BY <1>1, CycIs DEF IInv, CycType
<1>. HIDE DEF w
<1>5. cyc'[c] = w /\ \A d \in Cycles \ {c} : cyc'[d] = cyc[d]
  BY <1>2, <1>4, SlotIs DEF IInv
<1>. QED  BY <1>3, <1>4, <1>5 DEF Passes, Mid

\* Its call's outcome is noted, or the surface was skipped.
LEMMA NotedPaces ==
  ASSUME IInv, IInv', Paces, NEW c \in Cycles, NEW t \in SurfaceSet, AtSurface(c, t),
         NEW st \in Status, Note(cyc[c].article, t, st), NextSurface(c),
         UNCHANGED <<now, late, uploads, posts>>,
         \/ Fault
         \/ UNCHANGED counters /\ (cyc[c].pc # "answer" \/ st = "posted")
  PROVE  Paces'
<1>1. TypeOK /\ cyc[c].article \in Articles /\ Column[t] \in Columns  BY AtOne DEF IInv
<1>2. /\ \A x \in Articles : row'[x].status = row[x].status /\ row'[x].attempts = row[x].attempts
      /\ \A x \in Articles : row'[x].published = row[x].published
      /\ \A x \in Articles, k \in Columns :
           x # cyc[c].article \/ k # Column[t] => column'[x][k] = column[x][k]
      /\ t \in Recording => column'[cyc[c].article][Column[t]] = st
      /\ t \notin Recording => column' = column
  BY <1>1, NoteIs
<1>3. /\ Lapses' \in Nat /\ Lapses' >= Lapses /\ overlaps' = overlaps
      /\ \/ Lapses' >= Lapses + 1
         \/ cyc[c].pc # "answer" \/ st = "posted"
  <2>1. CASE Fault
    <3>1. Lapses' = Lapses + 1 /\ Lapses \in Nat /\ overlaps' = overlaps
      BY <1>1, <2>1, FaultAdds
    <3>. QED  BY <3>1
  <2>2. CASE UNCHANGED counters /\ (cyc[c].pc # "answer" \/ st = "posted")
    <3>1. Lapses' = Lapses /\ overlaps' = overlaps  BY <2>2 DEF counters, Lapses
    <3>. QED  BY <1>1, <2>2, <3>1, LapsesAre
  <2>. QED  BY <2>1, <2>2
<1>4. Moves(c, t) /\ Passes(c)
  BY <1>2, <1>3, NextSurfaceMoves DEF Moves
<1>5. \A x \in Articles, s \in SurfaceSet : LateAt(x, s)' => LateAt(x, s)  BY DEF LateAt
<1>. QED  BY <1>2, <1>3, <1>4, <1>5, PassPaces

LEMMA SkipPaces == ASSUME IInv, IInv', Paces, NEW c \in Cycles, Skip(c) PROVE Paces'
<1>1. PICK t \in SurfaceSet : AtSurface(c, t) /\ Note(cyc[c].article, t, "skipped")
  BY DEF Skip
<1>2. /\ UNCHANGED <<now, late, uploads, posts>> /\ UNCHANGED counters /\ NextSurface(c)
      /\ cyc[c].pc # "answer" /\ "skipped" \in Status
  BY DEF Skip, history, Status
<1>. QED  BY <1>1, <1>2, NotedPaces

LEMMA AnsweredPaces == ASSUME IInv, IInv', Paces, NEW c \in Cycles, Answered(c) PROVE Paces'
<1>1. PICK t \in SurfaceSet : AtSurface(c, t) /\ Note(cyc[c].article, t, "posted")
  BY DEF Answered
<1>2. /\ UNCHANGED <<now, late, uploads, posts>> /\ UNCHANGED counters /\ NextSurface(c)
      /\ "posted" \in Status
  BY DEF Answered, history, Status
<1>. QED  BY <1>1, <1>2, NotedPaces

LEMMA CallFailsPaces == ASSUME IInv, IInv', Paces, NEW c \in Cycles, CallFails(c) PROVE Paces'
<1>1. PICK t \in SurfaceSet : AtSurface(c, t) /\ Note(cyc[c].article, t, "failed")
  BY DEF CallFails
<1>2. /\ UNCHANGED <<now, late, uploads, posts>> /\ NextSurface(c) /\ "failed" \in Status
      /\ \/ cyc[c].pc # "answer" /\ UNCHANGED counters
         \/ Fault
  BY DEF CallFails, history, Status
<1>. QED  BY <1>1, <1>2, NotedPaces

LEMMA AbandonPaces == ASSUME IInv, IInv', Paces, NEW c \in Cycles, Abandon(c) PROVE Paces'
<1>1. PICK t \in SurfaceSet :
        /\ AtSurface(c, t)
        /\ late' = late \cup {[article |-> cyc[c].article, surface |-> t, stage |-> cyc[c].pc]}
        /\ Mark(cyc[c].article, t, "failed")
  BY DEF Abandon
<1>2. /\ UNCHANGED <<now, uploads, posts, faults, overlaps>> /\ abandoned' = abandoned + 1
      /\ cyc[c].pc \in Stages /\ NextSurface(c)
  BY DEF Abandon, history
<1>3. TypeOK /\ cyc[c].article \in Articles /\ "failed" \in Status
  BY <1>1, AtOne DEF IInv, Status
<1>4. /\ \A x \in Articles : row'[x].status = row[x].status /\ row'[x].attempts = row[x].attempts
      /\ \A x \in Articles : row'[x].published = row[x].published
      /\ \A x \in Articles, k \in Columns :
           x # cyc[c].article \/ k # Column[t] => column'[x][k] = column[x][k]
  BY <1>1, <1>3, MarkIs
<1>5. Lapses' = Lapses + 1 /\ Lapses \in Nat
  <2>1. abandoned \in Nat /\ faults \in Nat /\ overlaps \in Nat  BY <1>3 DEF TypeOK
  <2>2. \A i, j, k \in Nat : (i + 1) + j + k = i + j + k + 1  OBVIOUS
  <2>. QED  BY <1>2, <1>3, <2>1, <2>2, LapsesAre DEF Lapses
<1>6. Lapses' \in Nat /\ Lapses' >= Lapses /\ Lapses' >= Lapses + 1  BY <1>5
<1>7. Moves(c, t) /\ Passes(c)
  BY <1>1, <1>2, <1>4, <1>6, NextSurfaceMoves DEF Moves
<1>8. \A x \in Articles, s \in SurfaceSet : LateAt(x, s)' => LateAt(x, s) \/ Holds(c, x, s)
  <2>. TAKE x \in Articles, s \in SurfaceSet
  <2>. SUFFICES ASSUME LateAt(x, s)', ~LateAt(x, s) PROVE Holds(c, x, s)  OBVIOUS
  <2>1. x = cyc[c].article /\ s = t  BY <1>1 DEF LateAt
  <2>. QED  BY <1>1, <1>2, <2>1 DEF Holds, At
<1>. QED  BY <1>2, <1>6, <1>7, <1>8, PassPaces

LEMMA BothSets ==
  ASSUME NEW S, NEW T, IsFiniteSet(S), IsFiniteSet(T)
  PROVE  /\ IsFiniteSet(S \cup T) /\ Cardinality(S \cup T) \in Nat
         /\ Cardinality(S) \in Nat /\ Cardinality(T) \in Nat
         /\ Cardinality(S \cup T) <= Cardinality(S) + Cardinality(T)
<1>1. /\ IsFiniteSet(S \cup T)
      /\ Cardinality(S \cup T) = Cardinality(S) + Cardinality(T) - Cardinality(S \cap T)
  BY FS_Union
<1>2. IsFiniteSet(S \cap T)  BY FS_Subset
<1>3. /\ Cardinality(S \cup T) \in Nat /\ Cardinality(S \cap T) \in Nat
      /\ Cardinality(S) \in Nat /\ Cardinality(T) \in Nat
  BY <1>1, <1>2, FS_CardinalityType
<1>. QED  BY <1>1, <1>3

LEMMA PostPaces == ASSUME IInv, IInv', Paces, NEW c \in Cycles, Post(c) PROVE Paces'
<1>0. TypeOK  BY DEF IInv
<1>1. PICK t \in SurfaceSet : /\ AtSurface(c, t)
                              /\ posts' = [posts EXCEPT ![cyc[c].article][t] = @ + 1]
  BY DEF Post
<1>2. PICK a \in Articles : a = cyc[c].article  BY <1>1, AtOne
<1>. DEFINE w == [cyc[c] EXCEPT !.pc = "answer"]
<1>3. /\ cyc' = [cyc EXCEPT ![c] = w] /\ cyc[c].pc = "call"
      /\ UNCHANGED <<now, row, column, late, uploads, abandoned, faults, overlaps>>
  BY DEF Post, counters
<1>4. /\ w \in CycType /\ w.pc = "answer" /\ w.article = cyc[c].article
      /\ w.startedAt = cyc[c].startedAt /\ w.step = cyc[c].step
  BY <1>0, CycIs DEF CycType, Stages
<1>. HIDE DEF w
<1>5. cyc'[c] = w /\ \A d \in Cycles \ {c} : cyc'[d] = cyc[d]
  BY <1>0, <1>3, <1>4, SlotIs
<1>6. Lapses' = Lapses /\ Lapses \in Nat  BY <1>0, <1>3, LapsesAre DEF Lapses
<1>7. Moves(c, t) /\ Stays(c)
  <2>1. Lapses' \in Nat /\ Lapses' >= Lapses  BY <1>6
  <2>. QED  BY <1>1, <1>3, <1>4, <1>5, <2>1 DEF Moves, Stays, Mid, Stages
<1>8. At(c, t) /\ At(c, t)' /\ cyc'[c].pc = "answer" /\ AtSurface(c, t)'
  BY <1>1, <1>3, <1>4, <1>5 DEF At, AtSurface, Stages
<1>9. /\ \A x \in Articles, s \in SurfaceSet : x # a \/ s # t => posts'[x][s] = posts[x][s]
      /\ \A x \in Articles, s \in SurfaceSet : LateAt(x, s)' <=> LateAt(x, s)
  BY <1>0, <1>1, <1>2, <1>3 DEF TypeOK, LateAt
<1>10. /\ \A d \in Cycles, s \in SurfaceSet : At(d, s)' => At(d, s)
       /\ \A x \in Articles, d \in Cycles, s \in SurfaceSet : Holds(d, x, s)' <=> Holds(d, x, s)
  BY <1>1, <1>3, <1>4, <1>5 DEF At, AtSurface, Holds, Stages
<1>11. \A x \in Articles, s \in SurfaceSet :
         Touched(x, s)' => Touched(x, s) \/ \E d \in Cycles : Holds(d, x, s)
  <2>. TAKE x \in Articles, s \in SurfaceSet
  <2>1. CASE x = a /\ s = t
    <3>1. Holds(c, x, s)  BY <1>2, <1>8, <2>1 DEF Holds
    <3>. QED  BY <3>1
  <2>2. CASE x # a \/ s # t  BY <1>9, <2>2 DEF Touched
  <2>. QED  BY <2>1, <2>2
<1>12. RowsInv' /\ SinceInv' /\ RunsInv' /\ PaceInv'  BY <1>7, MovesKeep
<1>13. EverInv'
  <2>1. \A x \in Articles : Ever(x) => Ever(x)'  BY <1>3 DEF Ever
  <2>2. \A d \in Cycles, x \in Articles :
          cyc'[d].pc \in Mid /\ cyc'[d].article = x => cyc[d].pc \in Mid /\ cyc[d].article = x
    BY <1>3, <1>4, <1>5 DEF Mid, Stages
  <2>. QED  BY <1>10, <1>11, <2>1, <2>2, EverKept DEF Paces
<1>14. ASSUME NEW s \in Recording PROVE LostAt(s)' /\ ClaimsAt(s)'
  <2>1. s \in SurfaceSet /\ LostAt(s)  BY RecordingIs DEF Paces
  <2>2. ClaimsAt(s)'  BY <1>7, <1>10, <1>11, <2>1, ClaimsMove
  <2>3. CASE s # t  BY <1>3, <1>7, <1>9, <2>1, <2>2, <2>3, OtherLost
  <2>4. CASE s = t
    <3>1. c \in Ahead(s) /\ Ahead(s)' \subseteq Ahead(s)  BY <1>7, <2>4, CursorMoves
    <3>2. Lost(s)' \subseteq Lost(s)
      <4>1. \A x \in Articles : x # a => posts'[x][s] = posts[x][s]  BY <1>9, <2>1
      <4>2. Holds(c, a, s)'  BY <1>2, <1>4, <1>5, <1>8, <2>4 DEF Holds
      <4>. QED  BY <1>3, <1>9, <1>10, <2>1, <4>1, <4>2 DEF Lost
    <3>3. Stale(s)' \subseteq Ahead(s) \ {c}
      <4>1. c \notin Stale(s)' /\ Stale(s)' \subseteq Ahead(s)'  BY <1>8, <2>4 DEF Stale
      <4>. QED  BY <3>1, <4>1
    <3>4. Lapses' \in Nat /\ Lapses' >= Lapses  BY <1>6
    <3>. QED  BY <1>6, <2>1, <2>2, <3>1, <3>2, <3>3, <3>4, LostPosts
  <2>. QED  BY <2>3, <2>4
<1>. QED  BY <1>12, <1>13, <1>14 DEF Paces

Counted(c, s) == {a \in Articles : /\ column[a][Column[s]] = "posted"
                                   /\ row[a].published + Day > cyc[c].startedAt}

LEMMA BeginPaces == ASSUME IInv, IInv', Paces, NEW c \in Cycles, Begin(c) PROVE Paces'
<1>0. TypeOK  BY DEF IInv
<1>1. PICK t \in SurfaceSet :
        /\ AtSurface(c, t) /\ ~CapReached(c, t)
        /\ IF t \in Fetched THEN Mark(cyc[c].article, t, "pending") ELSE UNCHANGED <<column, row>>
  BY DEF Begin
<1>2. PICK a \in Articles : a = cyc[c].article  BY <1>1, AtOne
<1>. DEFINE w == [cyc[c] EXCEPT !.pc = "call"]
<1>3. /\ cyc' = [cyc EXCEPT ![c] = w] /\ cyc[c].pc = "channels"
      /\ UNCHANGED <<now, late, uploads, posts, abandoned, faults, overlaps>>
  BY DEF Begin, history, counters
<1>4. /\ w \in CycType /\ w.pc = "call" /\ w.article = cyc[c].article
      /\ w.startedAt = cyc[c].startedAt /\ w.step = cyc[c].step
  BY <1>0, CycIs DEF CycType, Stages
<1>. HIDE DEF w
<1>5. cyc'[c] = w /\ \A d \in Cycles \ {c} : cyc'[d] = cyc[d]
  BY <1>0, <1>3, <1>4, SlotIs
<1>6. Lapses' = Lapses /\ Lapses \in Nat /\ Lapses' \in Nat /\ Lapses' >= Lapses
  BY <1>0, <1>3, LapsesAre DEF Lapses
<1>7. /\ \A x \in Articles : row'[x].status = row[x].status /\ row'[x].attempts = row[x].attempts
      /\ \A x \in Articles : row'[x].published = row[x].published
      /\ \A x \in Articles, k \in Columns :
           x # a \/ k # Column[t] => column'[x][k] = column[x][k]
      /\ t \notin Recording => column' = column
  <2>1. CASE t \in Fetched
    <3>1. Mark(a, t, "pending") /\ "pending" \in Status  BY <1>1, <1>2, <2>1 DEF Status
    <3>2. t \in Recording  BY <2>1, SurfacesAssumption
    <3>3. /\ \A x \in Articles : row'[x].status = row[x].status /\ row'[x].attempts = row[x].attempts
          /\ \A x \in Articles : row'[x].published = row[x].published
          /\ \A x \in Articles, k \in Columns :
               column'[x][k] = IF x = a /\ k = Column[t] THEN "pending" ELSE column[x][k]
      BY <1>0, <3>1, MarkIs
    <3>. QED  BY <3>2, <3>3
  <2>2. CASE t \notin Fetched  BY <1>1, <2>2
  <2>. QED  BY <2>1, <2>2
<1>8. Moves(c, t) /\ Stays(c)
  BY <1>1, <1>2, <1>3, <1>4, <1>5, <1>6, <1>7 DEF Moves, Stays, Mid, Stages
<1>9. ~At(c, t) /\ At(c, t)' /\ cyc[c].pc # "answer"
  BY <1>1, <1>3, <1>4, <1>5 DEF At, AtSurface, Stages
<1>10. /\ \A x \in Articles, s \in SurfaceSet : LateAt(x, s)' <=> LateAt(x, s)
       /\ \A x \in Articles, s \in SurfaceSet : Touched(x, s)' <=> Touched(x, s)
  BY <1>3 DEF LateAt, Touched
<1>11. /\ \A d \in Cycles \ {c}, s \in SurfaceSet : /\ At(d, s)' <=> At(d, s)
                                                    /\ AtSurface(d, s)' <=> AtSurface(d, s)
                                                    /\ \A x : Holds(d, x, s)' <=> Holds(d, x, s)
  BY <1>5 DEF At, AtSurface, Holds
<1>12. RowsInv' /\ SinceInv' /\ RunsInv' /\ PaceInv'  BY <1>8, MovesKeep
<1>13. /\ Counted(c, t) \subseteq Articles /\ Cardinality(Counted(c, t)) \in Nat
       /\ IsFiniteSet(Counted(c, t)) /\ Cap[t] \in Nat /\ Cardinality(Counted(c, t)) < Cap[t]
  <2>1. Counted(c, t) \subseteq Articles  BY DEF Counted
  <2>2. IsFiniteSet(Counted(c, t)) /\ Cardinality(Counted(c, t)) \in Nat /\ Cap[t] \in Nat
    BY <2>1, FiniteIs, SurfacesAssumption
  <2>3. ~(Cardinality(Counted(c, t)) >= Cap[t])  BY <1>1 DEF CapReached, Counted
  <2>. QED  BY <2>1, <2>2, <2>3
<1>14. EverInv'
  <2>1. \A x \in Articles : Ever(x) => Ever(x)'  BY <1>7 DEF Ever
  <2>2. \A d \in Cycles, x \in Articles :
          cyc'[d].pc \in Mid /\ cyc'[d].article = x => cyc[d].pc \in Mid /\ cyc[d].article = x
    BY <1>3, <1>4, <1>5 DEF Mid, Stages
  <2>3. Cap[t] > 0  BY <1>13
  <2>4. \A d \in Cycles, s \in SurfaceSet : At(d, s)' => At(d, s) \/ Cap[s] > 0
    <3>. TAKE d \in Cycles, s \in SurfaceSet
    <3>1. CASE d # c  BY <1>11, <3>1
    <3>2. CASE d = c /\ s # t  BY <1>8, <3>2, CursorMoves
    <3>3. CASE s = t  BY <2>3, <3>3
    <3>. QED  BY <3>1, <3>2, <3>3
  <2>. QED  BY <1>10, <2>1, <2>2, <2>4, EverKept DEF Paces
<1>15. ASSUME NEW s \in Recording, s # t PROVE LostAt(s)' /\ ClaimsAt(s)'
  <2>1. s \in SurfaceSet  BY RecordingIs
  <2>2. \A x \in Articles, d \in Cycles : Holds(d, x, s)' => Holds(d, x, s)
    BY <1>8, <1>15, HoldsMoves
  <2>3. ClaimsAt(s)'  BY <1>8, <1>10, <2>1, <2>2, ClaimsMove
  <2>4. \A x \in Articles : posts'[x][s] = posts[x][s] /\ (LateAt(x, s)' => LateAt(x, s))
    BY <1>3, <1>10, <2>1
  <2>. QED  BY <1>7, <1>8, <1>15, <2>3, <2>4, OtherLost
<1>16. ASSUME t \in Recording PROVE LostAt(t)' /\ ClaimsAt(t)'
  <2>1. LostAt(t) /\ Column[t] \in Columns  BY <1>16, RecordingIs DEF Paces
  <2>2. c \in Ahead(t) /\ Ahead(t)' \subseteq Ahead(t)  BY <1>8, CursorMoves
  <2>3. Holds(c, a, t)'  BY <1>2, <1>4, <1>5, <1>9 DEF Holds
  <2>4. \A d \in Cycles, x \in Articles : Holds(d, x, t) => Holds(d, x, t)'
    BY <1>9, <1>11 DEF Holds
  <2>5. LostAt(t)'
    <3>1. Lost(t)' \subseteq Lost(t)
      <4>. SUFFICES ASSUME NEW x \in Lost(t)' PROVE x \in Lost(t)  OBVIOUS
      <4>1. x \in Articles  BY DEF Lost
      <4>2. CASE LateAt(x, t)  BY <4>1, <4>2 DEF Lost
      <4>3. CASE ~LateAt(x, t)
        <5>1. /\ posts[x][t] > 0 /\ column'[x][Column[t]] # "posted"
              /\ \A d \in Cycles : ~Holds(d, x, t)'
          BY <1>3, <1>10, <4>1, <4>3 DEF Lost
        <5>2. x # a  BY <2>3, <5>1
        <5>3. column[x][Column[t]] # "posted"  BY <1>7, <2>1, <4>1, <5>1, <5>2
        <5>. QED  BY <2>4, <4>1, <5>1, <5>3 DEF Lost
      <4>. QED  BY <4>2, <4>3
    <3>2. Stale(t)' \subseteq Stale(t)
      <4>. SUFFICES ASSUME NEW d \in Stale(t)' PROVE d \in Stale(t)  OBVIOUS
      <4>1. d \in Ahead(t) /\ d \in Cycles /\ ~(cyc'[d].pc = "answer" /\ AtSurface(d, t)')
        BY <2>2 DEF Stale, Ahead
      <4>2. PICK x \in Articles : Touched(x, t)' /\ Takes(d, x)'  BY DEF Stale
      <4>3. Takes(d, x)
        <5>1. CASE d = c  BY <1>8, <4>2, <5>1, CursorMoves
        <5>2. CASE d # c  BY <1>5, <4>1, <4>2, <5>2 DEF Takes
        <5>. QED  BY <5>1, <5>2
      <4>4. ~(cyc[d].pc = "answer" /\ AtSurface(d, t))
        <5>1. CASE d = c  BY <1>9, <5>1
        <5>2. CASE d # c  BY <1>5, <1>11, <4>1, <5>2
        <5>. QED  BY <5>1, <5>2
      <4>. QED  BY <1>10, <4>1, <4>2, <4>3, <4>4 DEF Stale
    <3>. QED  BY <1>6, <2>1, <2>2, <3>1, <3>2, LostKept
  <2>6. PICK R : R = Ahead(t) \ {c}  OBVIOUS
  <2>7. PICK f : f = [d \in R |-> cyc[d].article]  OBVIOUS
  <2>8. PICK H : H = {f[d] : d \in R}  OBVIOUS
  <2>9. PICK P : P = Counted(c, t)  OBVIOUS
  <2>10. /\ IsFiniteSet(R) /\ Cardinality(R) = Cardinality(Ahead(t)) - 1 /\ R \subseteq Cycles
    <3>1. IsFiniteSet(Ahead(t)) /\ Ahead(t) \subseteq Cycles  BY SetsOfS
    <3>. QED  BY <2>2, <2>6, <3>1, FS_RemoveElement
  <2>11. IsFiniteSet(H) /\ Cardinality(H) <= Cardinality(Ahead(t)) - 1
    BY <2>7, <2>8, <2>10, HeldIs
  <2>12. Claims(t)' \subseteq (P \cup (Lost(t) \cup H)) \cup {a}
    <3>. SUFFICES ASSUME NEW x \in Articles, x # a, row'[x].published + Day > now',
                         Touched(x, t)' \/ \E d \in Cycles : Holds(d, x, t)'
                  PROVE  x \in P \cup (Lost(t) \cup H)
      BY DEF Claims
    <3>1. ASSUME NEW d \in Cycles, Holds(d, x, t), d # c PROVE x \in H
      <4>1. cyc[d].article = x /\ AtSurface(d, t)  BY <3>1 DEF Holds, At
      <4>2. /\ cyc[d].step \in DOMAIN Surfaces /\ Surfaces[cyc[d].step] = t
            /\ cyc[d].step \in Nat /\ cyc[d].pc \in Mid
        BY <1>0, <4>1, StepIs
      <4>3. cyc[d].step >= cyc[d].step  BY <4>2
      <4>4. d \in R  BY <2>6, <3>1, <4>2, <4>3 DEF Ahead, Reaches
      <4>. QED  BY <2>7, <2>8, <4>1, <4>4
    <3>2. CASE \E d \in Cycles : Holds(d, x, t)'
      <4>1. PICK d \in Cycles : Holds(d, x, t)'  BY <3>2
      <4>2. d # c  BY <1>2, <1>4, <1>5, <4>1 DEF Holds
      <4>3. Holds(d, x, t)  BY <1>11, <4>1, <4>2
      <4>. QED  BY <3>1, <4>2, <4>3
    <3>3. CASE LateAt(x, t)  BY <3>3 DEF Lost
    <3>4. CASE posts[x][t] > 0 /\ column[x][Column[t]] = "posted"
      <4>1. row[x].published \in Nat /\ Day \in Nat /\ now \in Nat /\ cyc[c].startedAt \in Nat
        BY <1>0, NumbersAssumption, CycIs DEF TypeOK, CycType
      <4>2. cyc[c].startedAt <= now  BY DEF Paces, SinceInv
      <4>3. row[x].published + Day > now  BY <1>3, <1>7
      <4>4. row[x].published + Day > cyc[c].startedAt  BY <4>1, <4>2, <4>3
      <4>. QED  BY <2>9, <3>4, <4>4 DEF Counted
    <3>5. CASE posts[x][t] > 0 /\ column[x][Column[t]] # "posted"
      <4>1. CASE \E d \in Cycles : Holds(d, x, t)
        <5>1. PICK d \in Cycles : Holds(d, x, t)  BY <4>1
        <5>2. d # c  BY <1>9, <5>1 DEF Holds
        <5>. QED  BY <3>1, <5>1, <5>2
      <4>2. CASE \A d \in Cycles : ~Holds(d, x, t)  BY <3>5, <4>2 DEF Lost
      <4>. QED  BY <4>1, <4>2
    <3>6. Touched(x, t)' => LateAt(x, t) \/ posts[x][t] > 0  BY <1>10 DEF Touched
    <3>. QED  BY <3>2, <3>3, <3>4, <3>5, <3>6
  <2>13. PICK L : L = Lost(t)  OBVIOUS
  <2>14. /\ IsFiniteSet(L) /\ Cardinality(L) \in Nat
         /\ Cardinality(L) + Cardinality(Ahead(t)) <= Lapses + 1 /\ Cardinality(Ahead(t)) \in Nat
    BY <2>1, <2>2, <2>13, SetsOfS DEF LostAt
  <2>15. /\ IsFiniteSet(L \cup H) /\ Cardinality(L \cup H) \in Nat /\ Cardinality(H) \in Nat
         /\ Cardinality(L \cup H) <= Cardinality(L) + Cardinality(H)
    BY <2>11, <2>14, BothSets
  <2>16. /\ IsFiniteSet(P \cup (L \cup H)) /\ Cardinality(P \cup (L \cup H)) \in Nat
         /\ Cardinality(P \cup (L \cup H)) <= Cardinality(P) + Cardinality(L \cup H)
    BY <1>13, <2>9, <2>15, BothSets
  <2>17. /\ Cardinality(Claims(t)') \in Nat
         /\ Cardinality(Claims(t)') <= Cardinality(P \cup (L \cup H)) + 1
    BY <2>12, <2>13, <2>16, OneMore
  <2>18. Cardinality(P) \in Nat /\ Cap[t] \in Nat /\ Cardinality(P) < Cap[t]  BY <1>13, <2>9
  <2>19. Cardinality(Claims(t)') <= Cap[t] + Lapses
    BY <1>6, <2>11, <2>14, <2>15, <2>16, <2>17, <2>18
  <2>. QED  BY <1>6, <2>5, <2>19 DEF ClaimsAt
<1>17. \A s \in Recording : LostAt(s)' /\ ClaimsAt(s)'  BY <1>15, <1>16
<1>. QED  BY <1>12, <1>14, <1>17 DEF Paces

-----------------------------------------------------------------------------
(* Abandoned calls: their posts are lost already.                          *)

LEMMA LateQuiet ==
  ASSUME IInv, IInv', Paces,
         UNCHANGED <<now, cyc, uploads, abandoned, faults, overlaps>>,
         \A x \in Articles : /\ row'[x].published = row[x].published
                             /\ row'[x].status = row[x].status
                             /\ row'[x].attempts = row[x].attempts,
         \A x \in Articles, s \in SurfaceSet : LateAt(x, s)' => LateAt(x, s),
         \A x \in Articles, s \in SurfaceSet : LateAt(x, s) \/ posts'[x][s] = posts[x][s],
         \A x \in Articles, s \in Recording :
           LateAt(x, s) \/ column'[x][Column[s]] = column[x][Column[s]]
  PROVE  Paces'
<1>0. TypeOK /\ TypeOK' /\ now' \in Nat /\ now' >= now
  <2>1. TypeOK /\ TypeOK' /\ now \in Nat  BY DEF IInv, TypeOK
  <2>2. now' = now  OBVIOUS
  <2>. QED  BY <2>1, <2>2
<1>1. Lapses' = Lapses /\ Lapses \in Nat  BY <1>0, LapsesAre DEF Lapses
<1>2. \A c \in Cycles : cyc'[c] = cyc[c]  OBVIOUS
<1>3. RowsInv'
  <2>1. \A x \in Articles : AcceptedBy(x)' \subseteq AcceptedBy(x)  BY DEF AcceptedBy
  <2>. QED  BY <1>0, <2>1, RowsKept DEF Paces
<1>4. SinceInv'
  <2>1. \A d \in Cycles, x \in Articles : MayTake(d, x)' => MayTake(d, x)  BY DEF MayTake
  <2>. QED  BY <1>0, <1>2, <2>1, SinceKept DEF Paces
<1>5. RunsInv'
  <2>1. \A d \in Cycles : Running(d)' => Running(d)  BY DEF Running
  <2>. QED  BY <1>0, <1>2, <2>1, RunsKept DEF Paces
<1>6. PaceInv'
  <2>1. \A x \in Articles : Published(x)' => Published(x)  BY DEF Published
  <2>. QED  BY <1>0, <1>2, <2>1, PaceKept DEF Paces
<1>7. \A d \in Cycles, s \in SurfaceSet :
        /\ At(d, s)' <=> At(d, s)
        /\ AtSurface(d, s)' <=> AtSurface(d, s)
        /\ Reaches(d, s)' <=> Reaches(d, s)
        /\ \A x : (Holds(d, x, s)' <=> Holds(d, x, s)) /\ (Takes(d, x)' <=> Takes(d, x))
  BY DEF At, AtSurface, Holds, Takes, Reaches
<1>8. \A x \in Articles, s \in SurfaceSet : Touched(x, s)' => Touched(x, s)
  BY DEF Touched
<1>9. EverInv'
  <2>1. \A x \in Articles : Ever(x) => Ever(x)'  BY DEF Ever
  <2>2. \A d \in Cycles, x \in Articles :
          cyc'[d].pc \in Mid /\ cyc'[d].article = x => cyc[d].pc \in Mid /\ cyc[d].article = x
    BY <1>2
  <2>. QED  BY <1>7, <1>8, <2>1, <2>2, EverKept DEF Paces
<1>10. ASSUME NEW s \in Recording PROVE LostAt(s)' /\ ClaimsAt(s)'
  <2>1. LostAt(s) /\ ClaimsAt(s) /\ s \in SurfaceSet  BY RecordingIs DEF Paces
  <2>2. Lost(s)' \subseteq Lost(s)
    <3>. SUFFICES ASSUME NEW x \in Lost(s)' PROVE x \in Lost(s)  OBVIOUS
    <3>1. x \in Articles  BY DEF Lost
    <3>2. CASE LateAt(x, s)  BY <3>1, <3>2 DEF Lost
    <3>3. CASE ~LateAt(x, s)  BY <1>7, <2>1, <3>1, <3>3 DEF Lost
    <3>. QED  BY <3>2, <3>3
  <2>3. Ahead(s)' \subseteq Ahead(s)  BY <1>7, <2>1 DEF Ahead
  <2>4. Stale(s)' \subseteq Stale(s)
    <3>. SUFFICES ASSUME NEW d \in Stale(s)' PROVE d \in Stale(s)  OBVIOUS
    <3>1. d \in Ahead(s) /\ d \in Cycles /\ ~(cyc'[d].pc = "answer" /\ AtSurface(d, s)')
      BY <2>3 DEF Stale, Ahead
    <3>2. PICK x \in Articles : Touched(x, s)' /\ Takes(d, x)'  BY DEF Stale
    <3>3. Touched(x, s) /\ Takes(d, x)  BY <1>7, <1>8, <2>1, <3>1, <3>2
    <3>. QED  BY <1>7, <2>1, <3>1, <3>3 DEF Stale
  <2>5. Claims(s)' \subseteq Claims(s)
    <3>1. \A x \in Articles : row'[x].published = row[x].published /\ now' = now  OBVIOUS
    <3>. QED  BY <1>7, <1>8, <2>1, <3>1 DEF Claims
  <2>6. Lapses' \in Nat /\ Lapses' >= Lapses  BY <1>1
  <2>. QED  BY <1>1, <2>1, <2>2, <2>3, <2>4, <2>5, <2>6, LostKept, ClaimsKept
<1>. QED  BY <1>3, <1>4, <1>5, <1>6, <1>9, <1>10 DEF Paces

LEMMA LatePostPaces == ASSUME IInv, IInv', Paces, NEW l \in late, LatePost(l) PROVE Paces'
<1>. DEFINE k == [l EXCEPT !.stage = "answer"]
<1>1. /\ late' = (late \ {l}) \cup {k}
      /\ posts' = [posts EXCEPT ![l.article][l.surface] = @ + 1]
      /\ UNCHANGED <<now, row, column, cyc, uploads, abandoned, faults, overlaps>>
  BY DEF LatePost, counters
<1>2. l \in LateType  BY DEF IInv, TypeOK, LateType
<1>3. k.article = l.article /\ k.surface = l.surface  BY <1>2 DEF LateType
<1>. HIDE DEF k
<1>4. \A x \in Articles, s \in SurfaceSet : LateAt(x, s)' => LateAt(x, s)
  BY <1>1, <1>3 DEF LateAt
<1>5. \A x \in Articles, s \in SurfaceSet : LateAt(x, s) \/ posts'[x][s] = posts[x][s]
  <2>. TAKE x \in Articles, s \in SurfaceSet
  <2>1. CASE x = l.article /\ s = l.surface  BY <2>1 DEF LateAt
  <2>2. CASE ~(x = l.article /\ s = l.surface)
    BY <1>1, <1>2, <2>2 DEF IInv, TypeOK, LateType
  <2>. QED  BY <2>1, <2>2
<1>. QED  BY <1>1, <1>4, <1>5, LateQuiet

LEMMA LateReturnPaces == ASSUME IInv, IInv', Paces, NEW l \in late, LateReturn(l) PROVE Paces'
<1>1. /\ late' = late \ {l}
      /\ UNCHANGED <<now, cyc, uploads, posts, abandoned, faults, overlaps>>
  BY DEF LateReturn, history, counters
<1>2. PICK st \in {"posted", "failed"} : Note(l.article, l.surface, st)  BY DEF LateReturn
<1>3. l.article \in Articles /\ l.surface \in SurfaceSet /\ TypeOK /\ st \in Status
  BY DEF IInv, TypeOK, Status
<1>4. /\ \A x \in Articles : row'[x].status = row[x].status /\ row'[x].attempts = row[x].attempts
      /\ \A x \in Articles : row'[x].published = row[x].published
      /\ \A x \in Articles, j \in Columns :
           x # l.article \/ j # Column[l.surface] => column'[x][j] = column[x][j]
      /\ l.surface \notin Recording => column' = column
  BY <1>2, <1>3, NoteIs
<1>5. \A x \in Articles, s \in SurfaceSet : LateAt(x, s)' => LateAt(x, s)
  BY <1>1 DEF LateAt
<1>6. \A x \in Articles, s \in Recording :
        LateAt(x, s) \/ column'[x][Column[s]] = column[x][Column[s]]
  <2>. TAKE x \in Articles, s \in Recording
  <2>1. Column[s] \in Columns  BY RecordingIs
  <2>2. CASE x = l.article /\ s = l.surface  BY <2>2 DEF LateAt
  <2>3. CASE l.surface \notin Recording  BY <1>4, <2>3
  <2>4. CASE l.surface \in Recording /\ ~(x = l.article /\ s = l.surface)
    <3>1. x # l.article \/ Column[s] # Column[l.surface]  BY <2>4, SurfacesAssumption
    <3>. QED  BY <1>4, <2>1, <3>1
  <2>. QED  BY <2>2, <2>3, <2>4
<1>. QED  BY <1>1, <1>4, <1>5, <1>6, LateQuiet

-----------------------------------------------------------------------------
LEMMA PacesInit == Init => Paces
<1>. SUFFICES ASSUME Init PROVE Paces  OBVIOUS
<1>0. TypeOK  BY InitHolds DEF IInv
<1>1. /\ now = 1 /\ late = {} /\ abandoned = 0 /\ faults = 0 /\ overlaps = 0
      /\ \A c \in Cycles : cyc[c] = Idle
      /\ \A a \in Articles : /\ row[a].status = "none" /\ row[a].attempts = 0
                             /\ row[a].published = 0 /\ uploads[a] = 0
      /\ \A a \in Articles, s \in SurfaceSet : posts[a][s] = 0
  BY DEF Init
<1>2. \A c \in Cycles : /\ cyc[c].pc = "idle" /\ cyc[c].startedAt = 0
                        /\ cyc[c].pc \notin Pre \cup Mid \cup Stages
  BY <1>1 DEF Idle, Pre, Mid, Stages
<1>3. \A a \in Articles : ~Ever(a) /\ ~Published(a)  BY <1>1 DEF Ever, Published
<1>4. Cardinality({}) = 0  BY FS_EmptySet
<1>5. RowsInv
  <2>1. \A a \in Articles : AcceptedBy(a) = {} /\ EverCount(a) = 0
    BY <1>2, <1>3 DEF AcceptedBy, Pre, EverCount
  <2>. QED  BY <1>1, <1>3, <1>4, <2>1 DEF RowsInv
<1>6. SinceInv  BY <1>1, <1>2, <1>3 DEF SinceInv
<1>7. \A a \in Articles, s \in SurfaceSet : ~LateAt(a, s) /\ ~Touched(a, s)
  BY <1>1 DEF LateAt, Touched
<1>8. \A c \in Cycles, s \in SurfaceSet : ~At(c, s)  BY <1>2 DEF At
<1>9. EverInv  BY <1>2, <1>7, <1>8 DEF EverInv
<1>10. RunsInv
  <2>1. Runs = {}  BY <1>2 DEF Runs, Running
  <2>2. Cardinality(Runs) <= 1 + overlaps  BY <1>1, <1>4, <2>1
  <2>. QED  BY <1>2, <2>2 DEF RunsInv
<1>11. PaceInv
  <2>1. InDay = {}  BY <1>3 DEF InDay
  <2>2. Cardinality(InDay) <= MaxPerDay  BY <1>4, <2>1, NumbersAssumption
  <2>. QED  BY <1>2, <1>3, <2>2 DEF PaceInv, RateHolds, InDay
<1>12. ASSUME NEW s \in Recording PROVE LostAt(s) /\ ClaimsAt(s)
  <2>1. s \in SurfaceSet /\ Cap[s] \in Nat  BY RecordingIs
  <2>2. Ahead(s) = {} /\ Stale(s) = {}  BY <1>2 DEF Ahead, Stale, Reaches
  <2>3. Lost(s) = {} /\ Claims(s) = {}
    BY <1>1, <1>7, <1>8, <2>1 DEF Lost, Claims, Holds
  <2>4. Lapses \in Nat  BY <1>0, LapsesAre
  <2>. QED  BY <1>4, <2>1, <2>2, <2>3, <2>4 DEF LostAt, ClaimsAt
<1>. QED  BY <1>5, <1>6, <1>9, <1>10, <1>11, <1>12 DEF Paces

LEMMA PacesNext == ASSUME IInv, Paces, [Next]_vars PROVE Paces'
<1>0. IInv'  BY NextStep
<1>1. ASSUME NEW c \in Cycles, VideoCycle(c) PROVE Paces'
  BY <1>0, <1>1, StartPaces, ClaimPaces, AcceptPaces, RecordPaces, UploadFailsPaces, EndPaces,
     SkipPaces, BeginPaces, PostPaces, AnsweredPaces, CallFailsPaces, AbandonPaces
  DEF VideoCycle
<1>2. ASSUME NEW l \in late, LatePost(l) \/ LateReturn(l) PROVE Paces'
  BY <1>0, <1>2, LatePostPaces, LateReturnPaces
<1>. QED  BY <1>0, <1>1, <1>2, CrashPaces, TickPaces DEF Next

LEMMA Paced == Spec => [](IInv /\ Paces)
<1>1. IInv /\ Paces /\ [Next]_vars => (IInv /\ Paces)'  BY NextStep, PacesNext
<1>. QED  BY InitHolds, PacesInit, <1>1, PTL DEF Spec

\* The pace: without overlapping runs the published videos keep their interval
\* and their daily cap (rateGate), and a surface's posts of a rolling day exceed
\* its cap by no more than the posts the loop has lost track of, one for each
\* deadline overrun, fault or overlap (count*PostsSince, runChannel).
THEOREM PaceHoldsHolds == Spec => []PaceHolds
<1>1. IInv /\ Paces => PaceHolds
  <2>. SUFFICES ASSUME IInv, Paces PROVE RateHolds /\ ChannelCap  BY DEF PaceHolds
  <2>1. RateHolds
    <3>1. CASE overlaps = 0  BY <3>1 DEF Paces, PaceInv
    <3>2. CASE overlaps # 0  BY <3>2 DEF RateHolds
    <3>. QED  BY <3>1, <3>2
  <2>2. ChannelCap
    <3>. SUFFICES ASSUME NEW s \in Recording
                  PROVE  Cardinality({a \in Articles : /\ posts[a][s] > 0 /\ Published(a)
                                                       /\ row[a].published + Day > now})
                           <= Cap[s] + abandoned + faults + overlaps
      BY DEF ChannelCap
    <3>1. PICK T : T = {a \in Articles : /\ posts[a][s] > 0 /\ Published(a)
                                         /\ row[a].published + Day > now}
      OBVIOUS
    <3>2. T \subseteq Claims(s)  BY <3>1 DEF Claims, Touched
    <3>3. /\ Cardinality(T) <= Cardinality(Claims(s)) /\ Cardinality(T) \in Nat
          /\ Cardinality(Claims(s)) \in Nat
      BY <3>2, SetsOfS, NoMore
    <3>4. Cardinality(Claims(s)) <= Cap[s] + Lapses  BY DEF Paces, ClaimsAt
    <3>5. abandoned \in Nat /\ faults \in Nat /\ overlaps \in Nat /\ Cap[s] \in Nat
      BY RecordingIs DEF IInv, TypeOK
    <3>6. \A i, j, k, m \in Nat : i + (j + k + m) = i + j + k + m  OBVIOUS
    <3>7. Cardinality(T) <= Cap[s] + abandoned + faults + overlaps
      BY <3>3, <3>4, <3>5, <3>6 DEF Lapses
    <3>. QED  BY <3>1, <3>7
  <2>. QED  BY <2>1, <2>2
<1>. QED  BY <1>1, Paced, PTL

-----------------------------------------------------------------------------
(* What went out is recorded.  While nothing was disturbed a run finds      *)
(* nothing of its article at the surfaces it has still to reach (Front),    *)
(* an article has at most one abandoned call at a surface (LateOnce), and   *)
(* only published articles are anywhere (OnlyPublished).                    *)

Calm == faults = 0 /\ overlaps = 0

FrontOf(c, a) ==
  /\ Published(a)
  /\ \A i \in DOMAIN Surfaces : i >= cyc[c].step =>
       /\ posts[a][Surfaces[i]] > 0 => i = cyc[c].step /\ cyc[c].pc = "answer"
       /\ ~LateAt(a, Surfaces[i])
Front ==
  \A c \in Cycles, a \in Articles : cyc[c].pc \in Mid /\ cyc[c].article = a => FrontOf(c, a)

LateOnce ==
  \A l \in late : /\ Published(l.article)
                  /\ l.stage = "call" => ~(posts[l.article][l.surface] > 0)
                  /\ \A k \in late : k.article = l.article /\ k.surface = l.surface => k = l

OnlyPublished == \A a \in Articles, s \in SurfaceSet : posts[a][s] > 0 => Published(a)

AllRecorded ==
  \A a \in Articles, s \in Recording :
    posts[a][s] > 0 => \/ column[a][Column[s]] = "posted"
                       \/ \E c \in Cycles : Holds(c, a, s)
                       \/ LateAt(a, s)
                       \/ \E t \in SurfaceSet \ {s} : Column[t] = Column[s]

Records == Front /\ LateOnce /\ OnlyPublished /\ AllRecorded

LEMMA CalmBefore == ASSUME IInv, IInv', [Next]_vars, Calm' PROVE Calm
<1>1. /\ faults \in Nat /\ overlaps \in Nat /\ faults' \in Nat /\ overlaps' \in Nat
  <2>1. TypeOK /\ TypeOK'  BY DEF IInv
  <2>. QED  BY <2>1 DEF TypeOK
<1>2. (faults' = faults \/ faults' = faults + 1) /\ (overlaps' = overlaps \/ overlaps' = overlaps + 1)
  <2>1. ASSUME NEW c \in Cycles, VideoCycle(c)
        PROVE  /\ faults' = faults \/ faults' = faults + 1
               /\ overlaps' = overlaps \/ overlaps' = overlaps + 1
    BY <2>1
    DEF VideoCycle, Start, Claim, Accept, Record, UploadFails, Unrecorded, Skip, Begin, Post,
         Answered, CallFails, Abandon, End, counters, Fault
  <2>2. ASSUME NEW l \in late, LatePost(l) \/ LateReturn(l)
        PROVE  UNCHANGED <<faults, overlaps>>
    BY <2>2 DEF LatePost, LateReturn, counters
  <2>3. ASSUME StartGated \/ Crash \/ Tick \/ UNCHANGED vars
        PROVE  overlaps' = overlaps /\ (faults' = faults \/ faults' = faults + 1)
    BY <2>3 DEF StartGated, Crash, Tick, vars, counters, Fault
  <2>. QED  BY <2>1, <2>2, <2>3 DEF Next
<1>. QED  BY <1>1, <1>2 DEF Calm

\* Steps away from the surfaces.
LEMMA AloofRecords ==
  ASSUME Records, UNCHANGED <<column, late, posts>>, Calm, StaysPublished, TypeOK,
         \A c \in Cycles : /\ cyc'[c].pc \in Mid => cyc'[c] = cyc[c]
                           /\ cyc[c].pc \in Stages => cyc'[c] = cyc[c]
  PROVE  Records'
<1>1. \A a \in Articles : Published(a) => Published(a)'  BY DEF StaysPublished, Calm
<1>2. \A a, s : LateAt(a, s)' <=> LateAt(a, s)  BY DEF LateAt
<1>3. ASSUME NEW c \in Cycles, NEW a \in Articles, cyc'[c].pc \in Mid, cyc'[c].article = a
      PROVE  FrontOf(c, a)'
  <2>1. cyc'[c] = cyc[c]  BY <1>3
  <2>2. FrontOf(c, a)  BY <1>3, <2>1 DEF Records, Front
  <2>. QED  BY <1>1, <1>2, <2>1, <2>2 DEF FrontOf
<1>4. LateOnce'
  <2>1. \A l \in late : l.article \in Articles  BY DEF TypeOK
  <2>. QED  BY <1>1, <2>1 DEF Records, LateOnce
<1>5. OnlyPublished'  BY <1>1 DEF Records, OnlyPublished
<1>6. AllRecorded'
  <2>1. \A c \in Cycles : \A a, s : Holds(c, a, s) => Holds(c, a, s)'
    BY DEF Holds, At, AtSurface
  <2>. QED  BY <1>2, <2>1 DEF Records, AllRecorded
<1>. QED  BY <1>3, <1>4, <1>5, <1>6 DEF Records, Front

LEMMA NoFault == ASSUME TypeOK, Fault, Calm' PROVE FALSE
<1>1. faults' = faults + 1 /\ faults \in Nat  BY FaultIs DEF TypeOK
<1>2. faults' = 0  BY DEF Calm
<1>. QED  BY <1>1, <1>2

LEMMA CycleRecords ==
  ASSUME IInv, IInv', StaysPublished, Records, Calm, Calm', NEW c \in Cycles,
         Start(c) \/ Claim(c) \/ Accept(c) \/ UploadFails(c) \/ Unrecorded(c) \/ End(c)
  PROVE  Records'
<1>0. TypeOK  BY DEF IInv
<1>1. ~Unrecorded(c)  BY <1>0, NoFault DEF Unrecorded
<1>2. /\ UNCHANGED <<column, late, posts>>
      /\ cyc[c].pc \notin Stages
  <2>1. CASE Start(c)  BY <2>1 DEF Start, history, Running, Stages
  <2>2. CASE Claim(c)  BY <2>2 DEF Claim, history, Stages
  <2>3. CASE Accept(c)  BY <2>3 DEF Accept, Stages
  <2>4. CASE UploadFails(c)  BY <2>4 DEF UploadFails, history, Stages
  <2>5. CASE End(c)  BY <2>5 DEF End, history, Stages
  <2>. QED  BY <1>1, <2>1, <2>2, <2>3, <2>4, <2>5
<1>3. /\ \A d \in Cycles \ {c} : cyc'[d] = cyc[d]
      /\ cyc'[c].pc \notin Mid
  <2>1. cyc \in [Cycles -> CycType]  BY <1>0 DEF TypeOK, CycType
  <2>2. CASE Start(c)
    <3>. DEFINE w == [Idle EXCEPT !.pc = "pick", !.startedAt = now,
                                  !.todo = {a \in Articles : Eligible(a)}]
    <3>1. cyc' = [cyc EXCEPT ![c] = w]  BY <2>2 DEF Start
    <3>2. w.pc = "pick"  BY IdleIs DEF CycType
    <3>. HIDE DEF w
    <3>. QED  BY <2>1, <3>1, <3>2 DEF Mid, Stages
  <2>3. CASE Claim(c)
    <3>1. PICK a \in cyc[c].todo :
            cyc' = [cyc EXCEPT ![c].pc = "upload", ![c].article = a, ![c].todo = @ \ {a}]
      BY <2>3 DEF Claim
    <3>. QED  BY <2>1, <3>1 DEF Mid, Stages, CycType
  <2>4. CASE Accept(c)  BY <2>1, <2>4 DEF Accept, Mid, Stages, CycType
  <2>5. CASE UploadFails(c)  BY <2>1, <2>5 DEF UploadFails, Mid, Stages, CycType
  <2>6. CASE End(c)  BY <2>1, <2>6, IdleIs DEF End, Mid, Stages
  <2>. QED  BY <1>1, <2>2, <2>3, <2>4, <2>5, <2>6
<1>4. \A d \in Cycles : /\ cyc'[d].pc \in Mid => cyc'[d] = cyc[d]
                        /\ cyc[d].pc \in Stages => cyc'[d] = cyc[d]
  BY <1>2, <1>3
<1>. QED  BY <1>0, <1>2, <1>4, AloofRecords

\* The run that is at the surfaces is the only one.
LEMMA OneRun ==
  ASSUME IInv, Calm, NEW c \in Cycles, Running(c)
  PROVE  \A d \in Cycles \ {c} : cyc[d].pc = "idle"
  BY DEF IInv, Single, Calm, Running

\* A video is recorded: it was not published, so it is nowhere yet.
LEMMA RecordRecords ==
  ASSUME IInv, IInv', StaysPublished, Records, Calm, NEW c \in Cycles, Record(c)
  PROVE  Records'
<1>0. TypeOK /\ cyc[c].pc = "accepted"  BY DEF IInv, Record
<1>1. PICK a \in Articles : a = cyc[c].article  BY <1>0 DEF IInv, Shape, InHand
<1>. DEFINE w == [cyc[c] EXCEPT !.pc = "channels", !.step = 1]
<1>2. /\ cyc' = [cyc EXCEPT ![c] = w] /\ UNCHANGED <<now, column, late, posts, uploads>>
      /\ row' = [row EXCEPT ![cyc[c].article] =
                  [@ EXCEPT !.status = "published", !.published = now, !.updated = 0]]
  BY DEF Record, history
<1>3. /\ cyc[c] \in CycType /\ 1 \in 1 .. Len(Surfaces) + 1
  <2>1. Len(Surfaces) \in Nat  BY SurfacesAssumption
  <2>. QED  BY <1>0, <2>1, CycIs
<1>4. /\ w \in CycType /\ w.pc = "channels" /\ w.article = cyc[c].article
  BY <1>3 DEF CycType
<1>. HIDE DEF w
<1>5. cyc'[c] = w /\ \A d \in Cycles \ {c} : cyc'[d] = cyc[d]
  BY <1>0, <1>2, <1>4, SlotIs
<1>6. \A x \in Articles : Published(x) => Published(x)'  BY DEF StaysPublished, Calm
<1>7. Published(a)'
  <2>1. row \in [Articles -> RowType]  BY <1>0 DEF TypeOK, RowType
  <2>. QED  BY <1>1, <1>2, <2>1 DEF Published, RowType
<1>8. \A x, s : LateAt(x, s)' <=> LateAt(x, s)  BY <1>2 DEF LateAt
<1>9. ~Published(a)  BY <1>0, <1>1 DEF IInv, Single, Calm
<1>10. \A i \in DOMAIN Surfaces : /\ ~(posts[a][Surfaces[i]] > 0)
                                  /\ ~LateAt(a, Surfaces[i])
  <2>. TAKE i \in DOMAIN Surfaces
  <2>1. Surfaces[i] \in SurfaceSet  BY DEF SurfaceSet
  <2>. QED  BY <1>1, <1>9, <2>1 DEF Records, OnlyPublished, LateOnce, LateAt
<1>11. ASSUME NEW d \in Cycles, NEW x \in Articles, cyc'[d].pc \in Mid, cyc'[d].article = x
       PROVE  FrontOf(d, x)'
  <2>1. CASE d = c
    <3>1. x = a  BY <1>1, <1>4, <1>5, <1>11, <2>1
    <3>. QED  BY <1>2, <1>7, <1>8, <1>10, <3>1 DEF FrontOf
  <2>2. CASE d # c
    <3>1. cyc'[d] = cyc[d]  BY <1>5, <2>2
    <3>2. FrontOf(d, x)  BY <1>11, <3>1 DEF Records, Front
    <3>. QED  BY <1>2, <1>6, <1>8, <3>1, <3>2 DEF FrontOf
  <2>. QED  BY <2>1, <2>2
<1>12. LateOnce'
  <2>1. \A l \in late : l.article \in Articles  BY <1>0 DEF TypeOK
  <2>. QED  BY <1>2, <1>6, <2>1 DEF Records, LateOnce
<1>13. OnlyPublished'  BY <1>2, <1>6 DEF Records, OnlyPublished
<1>14. AllRecorded'
  <2>1. \A d \in Cycles : \A x, s : Holds(d, x, s) => Holds(d, x, s)'
    BY <1>0, <1>5 DEF Holds, At, AtSurface, Stages
  <2>. QED  BY <1>2, <1>8, <2>1 DEF Records, AllRecorded
<1>. QED  BY <1>11, <1>12, <1>13, <1>14 DEF Records, Front

\* What Front says of the run that is at a surface.
LEMMA FrontIs ==
  ASSUME IInv, Records, Calm, NEW c \in Cycles, NEW t \in SurfaceSet, AtSurface(c, t)
  PROVE  /\ Published(cyc[c].article) /\ ~LateAt(cyc[c].article, t)
         /\ posts[cyc[c].article][t] > 0 => cyc[c].pc = "answer"
         /\ \A i \in DOMAIN Surfaces : i > cyc[c].step =>
              /\ ~(posts[cyc[c].article][Surfaces[i]] > 0)
              /\ ~LateAt(cyc[c].article, Surfaces[i])
              /\ Surfaces[i] # t
         /\ \A d \in Cycles \ {c} : cyc[d].pc = "idle"
<1>1. /\ cyc[c].step \in DOMAIN Surfaces /\ Surfaces[cyc[c].step] = t
      /\ cyc[c].step \in Nat /\ cyc[c].pc \in Mid
      /\ \A i \in DOMAIN Surfaces : i \in Nat /\ (Surfaces[i] = t => i = cyc[c].step)
  BY StepIs DEF IInv
<1>2. FrontOf(c, cyc[c].article)  BY <1>1, AtOne DEF Records, Front
<1>3. cyc[c].step >= cyc[c].step  BY <1>1
<1>4. \A i \in DOMAIN Surfaces : i > cyc[c].step => i >= cyc[c].step /\ i # cyc[c].step
  BY <1>1
<1>5. Running(c)  BY <1>1 DEF Running, Mid, Stages
<1>. QED  BY <1>1, <1>2, <1>3, <1>4, <1>5, OneRun DEF FrontOf

LEMMA PassRecords ==
  ASSUME IInv, Records, Calm, NEW c \in Cycles, NEW t \in SurfaceSet, AtSurface(c, t),
         \A d \in Cycles \ {c} : cyc'[d] = cyc[d],
         cyc'[c].article = cyc[c].article, Passes(c), posts' = posts,
         \A x \in Articles : row'[x].status = row[x].status,
         \A x \in Articles, k \in Columns :
           x # cyc[c].article \/ k # Column[t] => column'[x][k] = column[x][k],
         \/ late' = late
         \/ late' = late \cup {[article |-> cyc[c].article, surface |-> t, stage |-> cyc[c].pc]},
         t \in Recording => \/ column'[cyc[c].article][Column[t]] = "posted"
                            \/ cyc[c].pc # "answer" \/ LateAt(cyc[c].article, t)'
  PROVE  Records'
<1>0. TypeOK  BY DEF IInv
<1>1. PICK a \in Articles : a = cyc[c].article  BY AtOne
<1>2. /\ Published(a) /\ ~LateAt(a, t)
      /\ posts[a][t] > 0 => cyc[c].pc = "answer"
      /\ \A i \in DOMAIN Surfaces : i > cyc[c].step =>
           ~(posts[a][Surfaces[i]] > 0) /\ ~LateAt(a, Surfaces[i]) /\ Surfaces[i] # t
      /\ \A d \in Cycles \ {c} : cyc[d].pc = "idle"
  BY <1>1, FrontIs
<1>3. \A x \in Articles : Published(x)' <=> Published(x)  BY DEF Published
<1>4. /\ \A x \in Articles, s \in SurfaceSet : LateAt(x, s) => LateAt(x, s)'
      /\ \A x \in Articles, s \in SurfaceSet : x # a \/ s # t => (LateAt(x, s)' => LateAt(x, s))
  BY <1>1 DEF LateAt
<1>5. cyc[c].step \in Nat /\ DOMAIN Surfaces \subseteq Nat
  BY <1>0, StepIs
<1>6. ASSUME NEW d \in Cycles, NEW x \in Articles, cyc'[d].pc \in Mid, cyc'[d].article = x
      PROVE  FrontOf(d, x)'
  <2>1. d = c /\ x = a  BY <1>1, <1>2, <1>6 DEF Mid, Stages
  <2>2. \A i \in DOMAIN Surfaces : i >= cyc'[c].step => i > cyc[c].step
    BY <1>5 DEF Passes
  <2>3. \A i \in DOMAIN Surfaces : Surfaces[i] \in SurfaceSet  BY DEF SurfaceSet
  <2>4. \A i \in DOMAIN Surfaces : i >= cyc'[c].step =>
          ~(posts'[a][Surfaces[i]] > 0) /\ ~LateAt(a, Surfaces[i])'
    BY <1>2, <1>4, <2>2, <2>3
  <2>. QED  BY <1>2, <1>3, <2>1, <2>4 DEF FrontOf
<1>7. LateOnce'
  <2>1. \A l \in late : l.article \in Articles  BY <1>0 DEF TypeOK
  <2>2. CASE late' = late  BY <1>3, <2>1, <2>2 DEF Records, LateOnce
  <2>3. CASE late' = late \cup {[article |-> a, surface |-> t, stage |-> cyc[c].pc]}
    <3>1. PICK n : n = [article |-> a, surface |-> t, stage |-> cyc[c].pc]  OBVIOUS
    <3>2. n.article = a /\ n.surface = t /\ n.stage = cyc[c].pc /\ late' = late \cup {n}
      BY <2>3, <3>1
    <3>3. \A k \in late : ~(k.article = a /\ k.surface = t)  BY <1>2 DEF LateAt
    <3>4. n.stage = "call" => ~(posts[n.article][n.surface] > 0)  BY <1>2, <3>2
    <3>5. ASSUME NEW l \in late'
          PROVE  /\ Published(l.article)'
                 /\ l.stage = "call" => ~(posts[l.article][l.surface] > 0)
                 /\ \A k \in late' : k.article = l.article /\ k.surface = l.surface => k = l
      <4>1. CASE l = n  BY <1>2, <1>3, <3>2, <3>3, <3>4, <4>1
      <4>2. CASE l \in late
        <5>1. /\ Published(l.article)
              /\ l.stage = "call" => ~(posts[l.article][l.surface] > 0)
              /\ \A k \in late : k.article = l.article /\ k.surface = l.surface => k = l
          BY <4>2 DEF Records, LateOnce
        <5>2. ~(n.article = l.article /\ n.surface = l.surface)  BY <3>2, <3>3, <4>2
        <5>. QED  BY <1>3, <2>1, <3>2, <4>2, <5>1, <5>2
      <4>. QED  BY <3>2, <4>1, <4>2
    <3>. QED  BY <3>5 DEF LateOnce
  <2>. QED  BY <1>1, <2>2, <2>3
<1>8. OnlyPublished'  BY <1>3 DEF Records, OnlyPublished
<1>9. AllRecorded'
  <2>. SUFFICES ASSUME NEW x \in Articles, NEW s \in Recording, posts[x][s] > 0
                PROVE  \/ column'[x][Column[s]] = "posted"
                       \/ \E d \in Cycles : Holds(d, x, s)'
                       \/ LateAt(x, s)'
                       \/ \E u \in SurfaceSet \ {s} : Column[u] = Column[s]
    BY DEF AllRecorded
  <2>1. s \in SurfaceSet /\ Column[s] \in Columns  BY RecordingIs
  <2>2. CASE x = a /\ s = t  BY <1>1, <1>2, <2>2
  <2>3. CASE x = a /\ s # t /\ Column[s] = Column[t]  BY <2>3
  <2>4. CASE ~(x = a /\ s = t) /\ ~(x = a /\ Column[s] = Column[t])
    <3>1. column'[x][Column[s]] = column[x][Column[s]]  BY <1>1, <2>1, <2>4
    <3>2. \A d \in Cycles : ~Holds(d, x, s)
      <4>1. \A u : AtSurface(c, u) => u = t  BY AtOne
      <4>. QED  BY <1>1, <1>2, <2>4, <4>1 DEF Holds, At, Stages
    <3>. QED  BY <1>4, <2>1, <3>1, <3>2 DEF Records, AllRecorded
  <2>. QED  BY <2>2, <2>3, <2>4
<1>. QED  BY <1>6, <1>7, <1>8, <1>9 DEF Records, Front

LEMMA NotedRecords ==
  ASSUME IInv, Records, Calm, Calm', NEW c \in Cycles,
         Skip(c) \/ Answered(c) \/ CallFails(c)
  PROVE  Records'
<1>0. TypeOK  BY DEF IInv
<1>1. PICK t \in SurfaceSet, st \in Status :
        /\ AtSurface(c, t) /\ Note(cyc[c].article, t, st)
        /\ cyc[c].pc # "answer" \/ st = "posted"
  <2>1. CASE Skip(c)  BY <2>1 DEF Skip, Status
  <2>2. CASE Answered(c)  BY <2>2 DEF Answered, Status
  <2>3. CASE CallFails(c)
    <3>1. cyc[c].pc # "answer"  BY <1>0, <2>3, NoFault DEF CallFails
    <3>. QED  BY <2>3, <3>1 DEF CallFails, Status
  <2>. QED  BY <2>1, <2>2, <2>3
<1>2. NextSurface(c) /\ UNCHANGED <<late, posts>>
  BY DEF Skip, Answered, CallFails, history
<1>3. cyc[c].article \in Articles  BY <1>1, AtOne
<1>4. /\ \A x \in Articles : row'[x].status = row[x].status
      /\ \A x \in Articles, k \in Columns :
           x # cyc[c].article \/ k # Column[t] => column'[x][k] = column[x][k]
      /\ t \in Recording => column'[cyc[c].article][Column[t]] = st
  BY <1>0, <1>1, <1>3, NoteIs
<1>5. /\ \A d \in Cycles \ {c} : cyc'[d] = cyc[d]
      /\ cyc'[c].article = cyc[c].article /\ Passes(c)
  BY <1>1, <1>2, NextSurfaceMoves
<1>. QED  BY <1>1, <1>2, <1>4, <1>5, PassRecords

LEMMA AbandonRecords ==
  ASSUME IInv, Records, Calm, NEW c \in Cycles, Abandon(c) PROVE Records'
<1>1. PICK t \in SurfaceSet :
        /\ AtSurface(c, t)
        /\ late' = late \cup {[article |-> cyc[c].article, surface |-> t, stage |-> cyc[c].pc]}
        /\ Mark(cyc[c].article, t, "failed")
  BY DEF Abandon
<1>2. posts' = posts /\ NextSurface(c)  BY DEF Abandon, history
<1>3. TypeOK /\ cyc[c].article \in Articles /\ "failed" \in Status
  BY <1>1, AtOne DEF IInv, Status
<1>4. /\ \A x \in Articles : row'[x].status = row[x].status
      /\ \A x \in Articles, k \in Columns :
           x # cyc[c].article \/ k # Column[t] => column'[x][k] = column[x][k]
  BY <1>1, <1>3, MarkIs
<1>5. /\ \A d \in Cycles \ {c} : cyc'[d] = cyc[d]
      /\ cyc'[c].article = cyc[c].article /\ Passes(c)
  BY <1>1, <1>2, NextSurfaceMoves
<1>6. LateAt(cyc[c].article, t)'
  <2>1. PICK a : a = cyc[c].article  OBVIOUS
  <2>2. PICK n : n = [article |-> a, surface |-> t, stage |-> cyc[c].pc]  OBVIOUS
  <2>3. n \in late' /\ n.article = a /\ n.surface = t  BY <1>1, <2>1, <2>2
  <2>4. cyc'[c].article = a  BY <1>5, <2>1
  <2>. QED  BY <2>3, <2>4 DEF LateAt
<1>. QED  BY <1>1, <1>2, <1>4, <1>5, <1>6, PassRecords

LEMMA BeginRecords == ASSUME IInv, Records, Calm, NEW c \in Cycles, Begin(c) PROVE Records'
<1>0. TypeOK  BY DEF IInv
<1>1. PICK t \in SurfaceSet :
        /\ AtSurface(c, t)
        /\ IF t \in Fetched THEN Mark(cyc[c].article, t, "pending") ELSE UNCHANGED <<column, row>>
  BY DEF Begin
<1>2. PICK a \in Articles : a = cyc[c].article  BY <1>1, AtOne
<1>. DEFINE w == [cyc[c] EXCEPT !.pc = "call"]
<1>3. cyc' = [cyc EXCEPT ![c] = w] /\ cyc[c].pc = "channels" /\ UNCHANGED <<late, posts>>
  BY DEF Begin, history
<1>4. w \in CycType /\ w.pc = "call" /\ w.article = cyc[c].article /\ w.step = cyc[c].step
  BY <1>0, CycIs DEF CycType, Stages
<1>. HIDE DEF w
<1>5. cyc'[c] = w /\ \A d \in Cycles \ {c} : cyc'[d] = cyc[d]
  BY <1>0, <1>3, <1>4, SlotIs
<1>6. /\ \A x \in Articles : row'[x].status = row[x].status
      /\ \A x \in Articles, k \in Columns :
           ~(x = a /\ k = Column[t] /\ t \in Recording) => column'[x][k] = column[x][k]
  <2>1. CASE t \in Fetched
    <3>1. Mark(a, t, "pending") /\ "pending" \in Status /\ t \in Recording
      BY <1>1, <1>2, <2>1, SurfacesAssumption DEF Status
    <3>2. /\ \A x \in Articles : row'[x].status = row[x].status
          /\ \A x \in Articles, k \in Columns :
               column'[x][k] = IF x = a /\ k = Column[t] THEN "pending" ELSE column[x][k]
      BY <1>0, <3>1, MarkIs
    <3>. QED  BY <3>1, <3>2
  <2>2. CASE t \notin Fetched  BY <1>1, <2>2
  <2>. QED  BY <2>1, <2>2
<1>7. /\ Published(a) /\ ~LateAt(a, t) /\ ~(posts[a][t] > 0)
      /\ \A d \in Cycles \ {c} : cyc[d].pc = "idle"
  BY <1>1, <1>2, <1>3, FrontIs
<1>8. FrontOf(c, a)  BY <1>2, <1>3 DEF Records, Front, Mid
<1>9. \A x \in Articles : Published(x)' <=> Published(x)  BY <1>6 DEF Published
<1>10. \A x, s : LateAt(x, s)' <=> LateAt(x, s)  BY <1>3 DEF LateAt
<1>11. ASSUME NEW d \in Cycles, NEW x \in Articles, cyc'[d].pc \in Mid, cyc'[d].article = x
       PROVE  FrontOf(d, x)'
  <2>1. d = c /\ x = a  BY <1>2, <1>4, <1>5, <1>7, <1>11 DEF Mid, Stages
  <2>. QED  BY <1>3, <1>4, <1>5, <1>8, <1>9, <1>10, <2>1 DEF FrontOf
<1>12. LateOnce'
  <2>1. \A l \in late : l.article \in Articles  BY <1>0 DEF TypeOK
  <2>. QED  BY <1>3, <1>9, <2>1 DEF Records, LateOnce
<1>13. OnlyPublished'  BY <1>3, <1>9 DEF Records, OnlyPublished
<1>14. AllRecorded'
  <2>. SUFFICES ASSUME NEW x \in Articles, NEW s \in Recording, posts[x][s] > 0
                PROVE  \/ column'[x][Column[s]] = "posted"
                       \/ \E d \in Cycles : Holds(d, x, s)'
                       \/ LateAt(x, s)'
                       \/ \E u \in SurfaceSet \ {s} : Column[u] = Column[s]
    BY <1>3 DEF AllRecorded
  <2>1. s \in SurfaceSet /\ Column[s] \in Columns  BY RecordingIs
  <2>2. ~(x = a /\ s = t)  BY <1>7
  <2>3. ~(x = a /\ Column[s] = Column[t] /\ t \in Recording)  BY <2>2, SurfacesAssumption
  <2>4. column'[x][Column[s]] = column[x][Column[s]]  BY <1>6, <2>1, <2>3
  <2>5. \A d \in Cycles : Holds(d, x, s) => Holds(d, x, s)'
    BY <1>3, <1>5 DEF Holds, At, AtSurface, Stages
  <2>. QED  BY <1>10, <2>4, <2>5 DEF Records, AllRecorded
<1>. QED  BY <1>11, <1>12, <1>13, <1>14 DEF Records, Front

LEMMA PostRecords == ASSUME IInv, Records, Calm, NEW c \in Cycles, Post(c) PROVE Records'
<1>0. TypeOK  BY DEF IInv
<1>1. PICK t \in SurfaceSet : /\ AtSurface(c, t)
                              /\ posts' = [posts EXCEPT ![cyc[c].article][t] = @ + 1]
  BY DEF Post
<1>2. PICK a \in Articles : a = cyc[c].article  BY <1>1, AtOne
<1>. DEFINE w == [cyc[c] EXCEPT !.pc = "answer"]
<1>3. /\ cyc' = [cyc EXCEPT ![c] = w] /\ cyc[c].pc = "call"
      /\ UNCHANGED <<row, column, late>>
  BY DEF Post
<1>4. w \in CycType /\ w.pc = "answer" /\ w.article = cyc[c].article /\ w.step = cyc[c].step
  BY <1>0, CycIs DEF CycType, Stages
<1>. HIDE DEF w
<1>5. cyc'[c] = w /\ \A d \in Cycles \ {c} : cyc'[d] = cyc[d]
  BY <1>0, <1>3, <1>4, SlotIs
<1>6. \A x \in Articles, s \in SurfaceSet : x # a \/ s # t => posts'[x][s] = posts[x][s]
  BY <1>0, <1>1, <1>2 DEF TypeOK
<1>7. /\ Published(a) /\ ~LateAt(a, t)
      /\ \A d \in Cycles \ {c} : cyc[d].pc = "idle"
      /\ \A i \in DOMAIN Surfaces : i > cyc[c].step =>
           ~(posts[a][Surfaces[i]] > 0) /\ ~LateAt(a, Surfaces[i]) /\ Surfaces[i] # t
  BY <1>1, <1>2, FrontIs
<1>8. \A x \in Articles : Published(x)' <=> Published(x)  BY <1>3 DEF Published
<1>9. \A x, s : LateAt(x, s)' <=> LateAt(x, s)  BY <1>3 DEF LateAt
<1>10. /\ cyc[c].step \in Nat /\ Surfaces[cyc[c].step] = t
       /\ \A i \in DOMAIN Surfaces : i \in Nat
  BY <1>0, <1>1, StepIs
<1>11. ASSUME NEW d \in Cycles, NEW x \in Articles, cyc'[d].pc \in Mid, cyc'[d].article = x
       PROVE  FrontOf(d, x)'
  <2>1. d = c /\ x = a  BY <1>2, <1>4, <1>5, <1>7, <1>11 DEF Mid, Stages
  <2>2. ASSUME NEW i \in DOMAIN Surfaces, i >= cyc[c].step
        PROVE  /\ posts'[a][Surfaces[i]] > 0 => i = cyc[c].step
               /\ ~LateAt(a, Surfaces[i])
    <3>1. CASE i = cyc[c].step  BY <1>7, <1>10, <3>1
    <3>2. CASE i > cyc[c].step
      <4>1. Surfaces[i] \in SurfaceSet  BY DEF SurfaceSet
      <4>. QED  BY <1>6, <1>7, <3>2, <4>1
    <3>. QED  BY <1>10, <2>2, <3>1, <3>2
  <2>. QED  BY <1>4, <1>5, <1>7, <1>8, <1>9, <2>1, <2>2 DEF FrontOf
<1>12. LateOnce'
  <2>. SUFFICES ASSUME NEW l \in late
                PROVE  /\ Published(l.article)
                       /\ l.stage = "call" => ~(posts'[l.article][l.surface] > 0)
                       /\ \A k \in late : k.article = l.article /\ k.surface = l.surface => k = l
    <3>1. \A l \in late : l.article \in Articles  BY <1>0 DEF TypeOK
    <3>. QED  BY <1>3, <1>8, <3>1 DEF LateOnce
  <2>1. l.article \in Articles /\ l.surface \in SurfaceSet  BY <1>0 DEF TypeOK
  <2>2. ~(l.article = a /\ l.surface = t)  BY <1>7 DEF LateAt
  <2>3. posts'[l.article][l.surface] = posts[l.article][l.surface]  BY <1>6, <2>1, <2>2
  <2>. QED  BY <2>3 DEF Records, LateOnce
<1>13. OnlyPublished'
  <2>. SUFFICES ASSUME NEW x \in Articles, NEW s \in SurfaceSet, posts'[x][s] > 0
                PROVE  Published(x)
    BY <1>8 DEF OnlyPublished
  <2>. QED  BY <1>6, <1>7 DEF Records, OnlyPublished
<1>14. AllRecorded'
  <2>. SUFFICES ASSUME NEW x \in Articles, NEW s \in Recording, posts'[x][s] > 0
                PROVE  \/ column[x][Column[s]] = "posted"
                       \/ \E d \in Cycles : Holds(d, x, s)'
                       \/ LateAt(x, s)'
                       \/ \E u \in SurfaceSet \ {s} : Column[u] = Column[s]
    BY <1>3 DEF AllRecorded
  <2>1. s \in SurfaceSet  BY RecordingIs
  <2>2. CASE x = a /\ s = t
    <3>1. Holds(c, x, s)'
      BY <1>1, <1>2, <1>4, <1>5, <2>2 DEF Holds, At, AtSurface, Stages
    <3>. QED  BY <3>1
  <2>3. CASE ~(x = a /\ s = t)
    <3>1. posts[x][s] > 0  BY <1>6, <2>1, <2>3
    <3>2. \A d \in Cycles : Holds(d, x, s) => Holds(d, x, s)'
      BY <1>3, <1>4, <1>5 DEF Holds, At, AtSurface, Stages
    <3>. QED  BY <1>9, <3>1, <3>2 DEF Records, AllRecorded
  <2>. QED  BY <2>2, <2>3
<1>. QED  BY <1>11, <1>12, <1>13, <1>14 DEF Records, Front

LEMMA LatePostRecords == ASSUME IInv, Records, NEW l \in late, LatePost(l) PROVE Records'
<1>0. TypeOK  BY DEF IInv
<1>1. PICK k : k = [l EXCEPT !.stage = "answer"]  OBVIOUS
<1>2. /\ late' = (late \ {l}) \cup {k}
      /\ posts' = [posts EXCEPT ![l.article][l.surface] = @ + 1]
      /\ UNCHANGED <<row, column, cyc>>
  BY <1>1 DEF LatePost
<1>3. l \in LateType  BY <1>0 DEF TypeOK, LateType
<1>4. /\ k.article = l.article /\ k.surface = l.surface /\ k.stage = "answer"
      /\ l.article \in Articles /\ l.surface \in SurfaceSet
  BY <1>1, <1>3 DEF LateType
<1>5. \A x, s : LateAt(x, s)' <=> LateAt(x, s)  BY <1>2, <1>4 DEF LateAt
<1>6. \A x \in Articles, s \in SurfaceSet :
        ~(x = l.article /\ s = l.surface) => posts'[x][s] = posts[x][s]
  BY <1>0, <1>2, <1>4 DEF TypeOK
<1>7. \A x \in Articles : Published(x)' <=> Published(x)  BY <1>2 DEF Published
<1>8. /\ Published(l.article) /\ LateAt(l.article, l.surface)
      /\ \A j \in late : j.article = l.article /\ j.surface = l.surface => j = l
  BY DEF Records, LateOnce, LateAt
<1>9. ASSUME NEW d \in Cycles, NEW x \in Articles, cyc'[d].pc \in Mid, cyc'[d].article = x
      PROVE  FrontOf(d, x)'
  <2>1. FrontOf(d, x)  BY <1>2, <1>9 DEF Records, Front
  <2>2. \A i \in DOMAIN Surfaces : i >= cyc[d].step =>
          posts'[x][Surfaces[i]] = posts[x][Surfaces[i]]
    <3>. TAKE i \in DOMAIN Surfaces
    <3>1. Surfaces[i] \in SurfaceSet  BY DEF SurfaceSet
    <3>. QED  BY <1>6, <1>8, <2>1, <3>1 DEF FrontOf
  <2>3. cyc' = cyc  BY <1>2
  <2>. QED  BY <1>5, <1>7, <2>1, <2>2, <2>3 DEF FrontOf
<1>10. LateOnce'
  <2>1. ASSUME NEW j \in late'
        PROVE  /\ Published(j.article)'
               /\ j.stage = "call" => ~(posts'[j.article][j.surface] > 0)
               /\ \A i \in late' : i.article = j.article /\ i.surface = j.surface => i = j
    <3>1. CASE j = k  BY <1>2, <1>4, <1>7, <1>8, <3>1
    <3>2. CASE j # k
      <4>1. j \in late /\ j # l  BY <1>2, <2>1, <3>2
      <4>2. j.article \in Articles /\ j.surface \in SurfaceSet  BY <1>0, <4>1 DEF TypeOK
      <4>3. ~(j.article = l.article /\ j.surface = l.surface)  BY <1>8, <4>1
      <4>4. /\ Published(j.article)
            /\ j.stage = "call" => ~(posts[j.article][j.surface] > 0)
            /\ \A i \in late : i.article = j.article /\ i.surface = j.surface => i = j
        BY <4>1 DEF Records, LateOnce
      <4>. QED  BY <1>2, <1>4, <1>6, <1>7, <4>2, <4>3, <4>4
    <3>. QED  BY <3>1, <3>2
  <2>. QED  BY <2>1 DEF LateOnce
<1>11. OnlyPublished'
  <2>. SUFFICES ASSUME NEW x \in Articles, NEW s \in SurfaceSet, posts'[x][s] > 0
                PROVE  Published(x)
    BY <1>7 DEF OnlyPublished
  <2>. QED  BY <1>6, <1>8 DEF Records, OnlyPublished
<1>12. AllRecorded'
  <2>. SUFFICES ASSUME NEW x \in Articles, NEW s \in Recording, posts'[x][s] > 0
                PROVE  \/ column[x][Column[s]] = "posted"
                       \/ \E d \in Cycles : Holds(d, x, s)
                       \/ LateAt(x, s)
                       \/ \E u \in SurfaceSet \ {s} : Column[u] = Column[s]
    <3>1. \A d \in Cycles : \A x, s : Holds(d, x, s) => Holds(d, x, s)'
      BY <1>2 DEF Holds, At, AtSurface
    <3>. QED  BY <1>2, <1>5, <3>1 DEF AllRecorded
  <2>1. s \in SurfaceSet  BY RecordingIs
  <2>. QED  BY <1>6, <1>8, <2>1 DEF Records, AllRecorded
<1>. QED  BY <1>9, <1>10, <1>11, <1>12 DEF Records, Front

LEMMA LateReturnRecords == ASSUME IInv, Records, NEW l \in late, LateReturn(l) PROVE Records'
<1>0. TypeOK  BY DEF IInv
<1>1. late' = late \ {l} /\ UNCHANGED <<cyc, posts>>  BY DEF LateReturn, history
<1>2. PICK st \in Status : /\ Note(l.article, l.surface, st)
                           /\ l.stage = "call" \/ st = "posted"
  <2>1. l.stage \in Stages  BY <1>0 DEF TypeOK
  <2>. QED  BY <2>1 DEF LateReturn, Status, Stages
<1>3. l.article \in Articles /\ l.surface \in SurfaceSet  BY <1>0 DEF TypeOK
<1>4. /\ \A x \in Articles : row'[x].status = row[x].status
      /\ \A x \in Articles, j \in Columns :
           x # l.article \/ j # Column[l.surface] => column'[x][j] = column[x][j]
      /\ l.surface \in Recording => column'[l.article][Column[l.surface]] = st
  BY <1>0, <1>2, <1>3, NoteIs
<1>5. \A x \in Articles : Published(x)' <=> Published(x)  BY <1>4 DEF Published
<1>6. \A x, s : LateAt(x, s)' => LateAt(x, s)  BY <1>1 DEF LateAt
<1>7. ASSUME NEW d \in Cycles, NEW x \in Articles, cyc'[d].pc \in Mid, cyc'[d].article = x
      PROVE  FrontOf(d, x)'
  <2>1. FrontOf(d, x)  BY <1>1, <1>7 DEF Records, Front
  <2>. QED  BY <1>1, <1>5, <1>6, <2>1 DEF FrontOf
<1>8. LateOnce'
  <2>1. \A j \in late : j.article \in Articles  BY <1>0 DEF TypeOK
  <2>. QED  BY <1>1, <1>5, <2>1 DEF Records, LateOnce
<1>9. OnlyPublished'  BY <1>1, <1>5 DEF Records, OnlyPublished
<1>10. AllRecorded'
  <2>. SUFFICES ASSUME NEW x \in Articles, NEW s \in Recording, posts[x][s] > 0
                PROVE  \/ column'[x][Column[s]] = "posted"
                       \/ \E d \in Cycles : Holds(d, x, s)
                       \/ LateAt(x, s)'
                       \/ \E u \in SurfaceSet \ {s} : Column[u] = Column[s]
    <3>1. \A d \in Cycles : \A x, s : Holds(d, x, s) => Holds(d, x, s)'
      BY <1>1 DEF Holds, At, AtSurface
    <3>. QED  BY <1>1, <3>1 DEF AllRecorded
  <2>1. s \in SurfaceSet /\ Column[s] \in Columns  BY RecordingIs
  <2>2. CASE x = l.article /\ s = l.surface
    <3>1. l.stage # "call"  BY <2>2 DEF Records, LateOnce
    <3>. QED  BY <1>2, <1>4, <2>2, <3>1
  <2>3. CASE x = l.article /\ s # l.surface /\ Column[s] = Column[l.surface]  BY <1>3, <2>3
  <2>4. CASE x # l.article \/ Column[s] # Column[l.surface]
    <3>1. column'[x][Column[s]] = column[x][Column[s]]  BY <1>4, <2>1, <2>4
    <3>2. LateAt(x, s) => LateAt(x, s)'
      <4>1. ~(x = l.article /\ s = l.surface)  BY <2>4
      <4>. QED  BY <1>1, <4>1 DEF LateAt
    <3>. QED  BY <3>1, <3>2 DEF Records, AllRecorded
  <2>. QED  BY <2>2, <2>3, <2>4
<1>. QED  BY <1>7, <1>8, <1>9, <1>10 DEF Records, Front

LEMMA RecordsInit == Init => Records
<1>. SUFFICES ASSUME Init PROVE Records  OBVIOUS
<1>1. /\ late = {} /\ \A c \in Cycles : cyc[c] = Idle
      /\ \A a \in Articles, s \in SurfaceSet : posts[a][s] = 0
  BY DEF Init
<1>2. \A c \in Cycles : cyc[c].pc \notin Mid  BY <1>1 DEF Idle, Mid, Stages
<1>. QED  BY <1>1, <1>2, RecordingIs DEF Records, Front, LateOnce, OnlyPublished, AllRecorded

LEMMA RecordsNext == ASSUME IInv, Calm => Records, [Next]_vars PROVE Calm' => Records'
<1>. SUFFICES ASSUME Calm' PROVE Records'  OBVIOUS
<1>1. IInv' /\ StaysPublished  BY NextStep
<1>2. Calm /\ Records /\ TypeOK  BY <1>1, CalmBefore DEF IInv
<1>3. ASSUME NEW c \in Cycles, VideoCycle(c) PROVE Records'
  BY <1>1, <1>2, <1>3, CycleRecords, RecordRecords, NotedRecords, BeginRecords, PostRecords,
     AbandonRecords
  DEF VideoCycle
<1>4. ASSUME NEW l \in late, LatePost(l) \/ LateReturn(l) PROVE Records'
  BY <1>2, <1>4, LatePostRecords, LateReturnRecords
<1>5. ~Crash  BY <1>2, NoFault DEF Crash
<1>6. ASSUME StartGated \/ Tick \/ UNCHANGED vars PROVE Records'
  <2>1. UNCHANGED <<column, late, posts, cyc>>
    BY <1>6 DEF StartGated, Tick, vars, history
  <2>2. \A c \in Cycles : cyc'[c] = cyc[c]  BY <2>1
  <2>. QED  BY <1>1, <1>2, <2>1, <2>2, AloofRecords
<1>. QED  BY <1>3, <1>4, <1>5, <1>6 DEF Next

\* What went out is recorded as posted once its call has returned, although the
\* call may have overrun its deadline and been marked failed (runChannel, the
\* markVideo* functions), unless another surface writes the same column.
THEOREM PostRecordedHolds == Spec => []PostRecorded
<1>1. IInv /\ (Calm => Records) /\ [Next]_vars => (IInv /\ (Calm => Records))'
  BY NextStep, RecordsNext
<1>2. Init => IInv /\ (Calm => Records)  BY InitHolds, RecordsInit
<1>3. IInv /\ (Calm => Records) => PostRecorded
  <2>. SUFFICES ASSUME IInv, Calm => Records, faults + overlaps = 0 PROVE PostRecorded
    BY DEF PostRecorded
  <2>1. faults \in Nat /\ overlaps \in Nat  BY DEF IInv, TypeOK
  <2>2. faults = 0 /\ overlaps = 0  BY <2>1
  <2>3. AllRecorded  BY <2>2 DEF Calm, Records
  <2>. QED  BY <2>3 DEF AllRecorded, PostRecorded, Holds, At, LateAt
<1>. QED  BY <1>1, <1>2, <1>3, PTL DEF Spec
=============================================================================

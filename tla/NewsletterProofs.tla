--------------------------- MODULE NewsletterProofs ---------------------------
(***************************************************************************)
(* Theorems about the newsletter, for any subscribers, number of runs under *)
(* way, windows and parts of the day.                                      *)
(*                                                                         *)
(* The promise is Outbox's: a mail comes once, and once more for each slip. *)
(* A run mails what it has listed without looking again, so what is listed *)
(* counts as received (Counted); and what no run lists and no stamp on the *)
(* row records was not received but for the slips (Unsent).  The digest is *)
(* an item of the day: its stamp and the last digest received age together *)
(* as long as no mail went unstamped, and an old one has been renewed      *)
(* (Aged).  That is what a run relies on, which reads the rows only.       *)
(***************************************************************************)
EXTENDS Newsletter, FiniteSetTheorems, TLAPS

RowType == [known : BOOLEAN, edition : Editions, off : BOOLEAN,
            verified : Ages(Before["d3"]) \cup {None},
            created : Ages(Before["reminder"]), sent : Ages(OnePerDay) \cup {None},
            stamps : SUBSET OneOff]
RunType == [job : Jobs \cup {None}, kind : Kinds \cup {None}, todo : SUBSET Subs]

\* Runs that have s listed, and for the mail k.
Listed(s)     == {r \in Runs : s \in run[r].todo}
Waiting(s, k) == {r \in Runs : run[r].kind = k /\ s \in run[r].todo}

Shape ==
  /\ \A r \in Runs : run[r].job = None => run[r] = Off
  /\ \A r \in Runs : run[r].job # None => run[r].kind \in Kinds
  /\ \A r \in Runs : \A s \in run[r].todo : Known(s)
  /\ \A s \in Subs : ~Known(s) => row[s].sent = None /\ row[s].stamps = {}

Counted ==
  \A s \in Subs, k \in Kinds :
    got[<<s, k>>] + Cardinality(Waiting(s, k)) <= slack[<<s, k>>] + 1

\* The row says that k was sent to s, and is right about when.
Marked(s, k) ==
  IF k = "digest" THEN row[s].sent = since[s] /\ since[s] # None ELSE k \in row[s].stamps

Unsent ==
  \A s \in Subs, k \in Kinds :
    Waiting(s, k) = {} /\ ~Marked(s, k) => got[<<s, k>>] <= slack[<<s, k>>]

Aged == \A s \in Subs : since[s] \in {None, OnePerDay + 1} => got[<<s, "digest">>] = 0

Owed == \A s \in Subs : row[s].off => owed[s] >= Cardinality(Listed(s))

IInv == TypeOK /\ Shape /\ Counted /\ Unsent /\ Aged /\ Owed

Kept == IInv' /\ [Promise!Step]_<<got, slack>>

-----------------------------------------------------------------------------
LEMMA KindsAre ==
  /\ Kinds = {"d1", "d3", "reminder", "digest"} /\ OneOff = {"d1", "d3", "reminder"}
  /\ Jobs = {"rest", "americas", "welcome", "reminder"} /\ Editions = {"rest", "americas"}
  /\ None \notin Kinds /\ None \notin Jobs /\ None \notin Nat
  BY NoneAssumption DEF Kinds, OneOff, Jobs, Editions, Hourly

LEMMA SetsAre ==
  ASSUME NEW s, NEW k
  PROVE  /\ IsFiniteSet(Waiting(s, k)) /\ Cardinality(Waiting(s, k)) \in Nat
         /\ IsFiniteSet(Listed(s)) /\ Cardinality(Listed(s)) \in Nat
         /\ (Waiting(s, k) # {} => Cardinality(Waiting(s, k)) >= 1)
<1>1. Waiting(s, k) \in SUBSET Runs /\ Listed(s) \in SUBSET Runs  BY DEF Waiting, Listed
<1>2. IsFiniteSet(Waiting(s, k)) /\ IsFiniteSet(Listed(s))
  BY <1>1, RunsAssumption, FS_Subset
<1>3. Cardinality(Waiting(s, k)) \in Nat /\ Cardinality(Listed(s)) \in Nat
  BY <1>2, FS_CardinalityType
<1>4. Cardinality(Waiting(s, k)) = 0 <=> Waiting(s, k) = {}  BY <1>2, FS_EmptySet
<1>. QED  BY <1>2, <1>3, <1>4

LEMMA AgesAre ==
  /\ 0 \in Ages(Before["d3"]) /\ 0 \in Ages(Before["reminder"]) /\ 0 \in Ages(OnePerDay)
  /\ OnePerDay + 1 # 0 /\ OnePerDay \in Nat
  BY WindowAssumption DEF Ages, OneOff

LEMMA ItemIs ==
  ASSUME TypeOK, NEW s \in Subs, NEW k \in Kinds
  PROVE  <<s, k>> \in Items /\ got[<<s, k>>] \in Nat /\ slack[<<s, k>>] \in Nat
  BY DEF TypeOK, Items

LEMMA RowIs == ASSUME TypeOK, NEW s \in Subs PROVE row[s] \in RowType
  BY DEF TypeOK, RowType

LEMMA InitHolds == Init => IInv /\ Promise!Init
<1>. SUFFICES ASSUME Init PROVE IInv /\ Promise!Init  OBVIOUS
<1>1. NoRow \in RowType /\ NoRow.off = FALSE /\ NoRow.sent = None /\ NoRow.stamps = {}
  BY AgesAre, KindsAre DEF NoRow, RowType
<1>2. Off \in RunType /\ Off.todo = {} /\ Off.job = None  BY DEF Off, RunType
<1>3. TypeOK
  <2>1. row \in [Subs -> RowType] /\ run \in [Runs -> RunType]  BY <1>1, <1>2 DEF Init
  <2>. HIDE DEF NoRow
  <2>. QED  BY <2>1, WindowAssumption DEF Init, TypeOK, RowType, RunType
<1>4. \A s \in Subs, k \in Kinds :
        /\ Waiting(s, k) = {} /\ Listed(s) = {} /\ got[<<s, k>>] = 0 /\ slack[<<s, k>>] = 0
  BY <1>2 DEF Init, Waiting, Listed, Items
<1>5. Cardinality({}) = 0  BY FS_EmptySet
<1>6. Shape  BY <1>1, <1>2 DEF Init, Shape
<1>7. Counted
  <2>1. ASSUME NEW s \in Subs, NEW k \in Kinds
        PROVE  got[<<s, k>>] + Cardinality(Waiting(s, k)) <= slack[<<s, k>>] + 1
    <3>1. Cardinality(Waiting(s, k)) = 0  BY <1>4, <1>5
    <3>2. got[<<s, k>>] = 0 /\ slack[<<s, k>>] = 0  BY <1>4
    <3>. QED  BY <3>1, <3>2
  <2>. QED  BY <2>1 DEF Counted
<1>8. Unsent  BY <1>4 DEF Unsent
<1>9. Aged  BY <1>4, KindsAre DEF Aged
<1>10. Owed  BY <1>1 DEF Init, Owed
<1>. QED  BY <1>3, <1>6, <1>7, <1>8, <1>9, <1>10 DEF IInv, Promise!Init, Init

-----------------------------------------------------------------------------
(* Requests: nothing is sent and no list changes.                          *)

LEMMA RequestStep ==
  ASSUME IInv, NEW s \in Subs, NEW w \in RowType, row' = [row EXCEPT ![s] = w],
         linked' \subseteq Subs, owed' \in [Subs -> Int], asks' \in 0 .. MaxAsks,
         UNCHANGED <<run, fired, part, got, slack, since, faults>>,
         Known(s) => w.known, w.known \/ (w.sent = None /\ w.stamps = {}),
         w.sent = row[s].sent, w.stamps = row[s].stamps,
         \A x \in Subs \ {s} : owed'[x] = owed[x],
         w.off => owed'[s] >= Cardinality(Listed(s))
  PROVE  Kept
<1>. USE DEF IInv
<1>1. row' \in [Subs -> RowType] /\ row'[s] = w /\ \A x \in Subs \ {s} : row'[x] = row[x]
  BY RowIs DEF TypeOK, RowType
<1>2. TypeOK'  BY <1>1 DEF TypeOK, RowType
<1>3. \A x : Listed(x)' = Listed(x)  BY DEF Listed
<1>4. \A x, k : Waiting(x, k)' = Waiting(x, k)  BY DEF Waiting
<1>5. Shape'  BY <1>1 DEF Shape, Known
<1>6. Counted'  BY <1>4 DEF Counted
<1>7. Unsent'
  <2>1. \A x \in Subs, k \in Kinds : Marked(x, k)' <=> Marked(x, k)  BY <1>1 DEF Marked
  <2>. QED  BY <1>4, <2>1 DEF Unsent
<1>8. Aged'  BY DEF Aged
<1>9. Owed'  BY <1>1, <1>3 DEF Owed
<1>. QED  BY <1>2, <1>5, <1>6, <1>7, <1>8, <1>9 DEF Kept

LEMMA SignUpStep ==
  ASSUME IInv, NEW s \in Subs, NEW edition \in Editions, NEW arrives \in BOOLEAN,
         SignUp(s, edition, arrives)
  PROVE  Kept
<1>. DEFINE w == IF Known(s) THEN [row[s] EXCEPT !.edition = edition, !.off = FALSE]
                 ELSE [NoRow EXCEPT !.known = TRUE, !.edition = edition]
<1>1. row' = [row EXCEPT ![s] = w]  BY DEF SignUp
<1>2. /\ w \in RowType /\ w.known /\ ~w.off
      /\ w.sent = row[s].sent /\ w.stamps = row[s].stamps
  <2>1. CASE Known(s)
    BY <2>1, RowIs DEF IInv, RowType, Known
  <2>2. CASE ~Known(s)
    BY <2>2, AgesAre, KindsAre DEF IInv, Shape, RowType, NoRow
  <2>. QED  BY <2>1, <2>2
<1>. HIDE DEF w
<1>3. /\ linked' \subseteq Subs /\ owed' \in [Subs -> Int] /\ asks' \in 0 .. MaxAsks
      /\ \A x \in Subs \ {s} : owed'[x] = owed[x]
      /\ UNCHANGED <<run, fired, part, got, slack, since, faults>>
  BY WindowAssumption DEF SignUp, IInv, TypeOK
<1>. QED  BY <1>1, <1>2, <1>3, RequestStep

LEMMA ConfirmStep == ASSUME IInv, NEW s \in Subs, Confirm(s) PROVE Kept
<1>. DEFINE w == [row[s] EXCEPT !.verified = 0]
<1>1. row' = [row EXCEPT ![s] = w]  BY DEF Confirm
<1>2. /\ w \in RowType /\ w.known = row[s].known /\ w.off = row[s].off
      /\ w.sent = row[s].sent /\ w.stamps = row[s].stamps
  BY RowIs, AgesAre DEF IInv, RowType
<1>. HIDE DEF w
<1>3. /\ linked' \subseteq Subs /\ owed' \in [Subs -> Int] /\ asks' \in 0 .. MaxAsks
      /\ owed' = owed /\ UNCHANGED <<run, fired, part, got, slack, since, faults>>
  BY WindowAssumption DEF Confirm, IInv, TypeOK
<1>4. Known(s) => w.known  BY <1>2 DEF Known
<1>5. w.known \/ (w.sent = None /\ w.stamps = {})  BY <1>2 DEF IInv, Shape, Known
<1>6. w.off => owed'[s] >= Cardinality(Listed(s))  BY <1>2, <1>3 DEF IInv, Owed
<1>. QED  BY <1>1, <1>2, <1>3, <1>4, <1>5, <1>6, RequestStep

LEMMA ActiveListed ==
  ASSUME Shape, NEW s PROVE {r \in Active : s \in run[r].todo} = Listed(s)
  BY DEF Shape, Active, Listed, Off

LEMMA UnsubscribeStep == ASSUME IInv, NEW s \in Subs, Unsubscribe(s) PROVE Kept
<1>. DEFINE w == [row[s] EXCEPT !.off = TRUE]
<1>1. row' = [row EXCEPT ![s] = w]  BY DEF Unsubscribe
<1>2. /\ w \in RowType /\ w.known = row[s].known
      /\ w.sent = row[s].sent /\ w.stamps = row[s].stamps
  BY RowIs DEF IInv, RowType
<1>. HIDE DEF w
<1>3. owed' = [owed EXCEPT ![s] = Cardinality(Listed(s))]
  BY ActiveListed DEF Unsubscribe, IInv
<1>4. Cardinality(Listed(s)) \in Nat  BY SetsAre
<1>5. /\ owed' \in [Subs -> Int] /\ owed'[s] = Cardinality(Listed(s))
      /\ \A x \in Subs \ {s} : owed'[x] = owed[x]
  BY <1>3, <1>4 DEF IInv, TypeOK
<1>6. /\ linked' \subseteq Subs /\ asks' \in 0 .. MaxAsks
      /\ UNCHANGED <<run, fired, part, got, slack, since, faults>>
  BY DEF Unsubscribe, IInv, TypeOK, bounds
<1>7. Known(s) => w.known  BY <1>2 DEF Known
<1>8. w.known \/ (w.sent = None /\ w.stamps = {})  BY <1>2 DEF IInv, Shape, Known
<1>9. owed'[s] >= Cardinality(Listed(s))  BY <1>4, <1>5
<1>. QED  BY <1>1, <1>2, <1>5, <1>6, <1>7, <1>8, <1>9, RequestStep

-----------------------------------------------------------------------------
(* A run lists the rows that are due.                                      *)

LEMMA DueIs ==
  ASSUME NEW s, NEW k \in Kinds, s \in Due(k)
  PROVE  /\ s \in Subs /\ Known(s) /\ ~row[s].off
         /\ k = "digest" => row[s].sent = None \/ row[s].sent > OnePerDay
         /\ k # "digest" => k \notin row[s].stamps
<1>1. s \in Subs /\ Known(s) /\ ~row[s].off  BY DEF Due
<1>2. CASE k = "digest"  BY <1>1, <1>2 DEF Due
<1>3. CASE k = "reminder"  BY <1>1, <1>3 DEF Due
<1>4. CASE k \notin {"digest", "reminder"}  BY <1>1, <1>4 DEF Due
<1>. QED  BY <1>2, <1>3, <1>4

LEMMA RunIs ==
  ASSUME NEW job \in Jobs, NEW k \in Kinds, NEW todo \in SUBSET Subs
  PROVE  /\ Run(job, k, todo) \in RunType /\ Run(job, k, todo).todo = todo
         /\ Run(job, k, todo).job = None => Run(job, k, todo) = Off
         /\ Run(job, k, todo).job # None => Run(job, k, todo).kind \in Kinds
         /\ todo # {} => Run(job, k, todo).kind = k
  BY KindsAre DEF Run, RunType, Off

\* What is due and in nobody's hands has not been received, slips apart.
LEMMA DueUnsent ==
  ASSUME IInv, NEW k \in Kinds, NEW s \in Due(k), Waiting(s, k) = {}
  PROVE  got[<<s, k>>] <= slack[<<s, k>>]
<1>. USE DEF IInv
<1>1. s \in Subs  BY DueIs
<1>2. CASE ~Marked(s, k)  BY <1>1, <1>2 DEF Unsent
<1>3. CASE Marked(s, k)
  <2>1. k = "digest"  BY <1>3, DueIs DEF Marked
  <2>2. row[s].sent = since[s] /\ since[s] # None  BY <1>3, <2>1 DEF Marked
  <2>3. row[s].sent > OnePerDay  BY <2>1, <2>2, DueIs
  <2>4. row[s].sent \in 0 .. OnePerDay + 1
    BY <1>1, <2>2, RowIs DEF RowType, Ages
  <2>5. since[s] = OnePerDay + 1  BY <2>2, <2>3, <2>4, AgesAre
  <2>6. got[<<s, k>>] = 0  BY <1>1, <2>1, <2>5 DEF Aged
  <2>. QED  BY <1>1, <2>6, ItemIs
<1>. QED  BY <1>2, <1>3

LEMMA DoubledIs ==
  ASSUME IInv, NEW k \in Kinds, NEW todo \in SUBSET Subs, slack' = Doubled(todo, k)
  PROVE  /\ slack' \in [Items -> Nat]
         /\ \A s \in Subs, j \in Kinds :
              slack'[<<s, j>>] = IF j = k /\ s \in todo /\ Waiting(s, k) # {}
                                 THEN slack[<<s, j>>] + 1 ELSE slack[<<s, j>>]
<1>1. slack \in [Items -> Nat]  BY DEF IInv, TypeOK
<1>2. slack' \in [Items -> Nat]  BY <1>1 DEF Doubled
<1>3. ASSUME NEW s \in Subs
      PROVE  (\E o \in Active : Pending(o, s, k)) <=> Waiting(s, k) # {}
  <2>1. \A o \in Runs : Pending(o, s, k) => o \in Active
    BY KindsAre DEF IInv, Shape, Pending, Active, Off
  <2>. QED  BY <2>1 DEF Active, Pending, Waiting
<1>4. ASSUME NEW s \in Subs, NEW j \in Kinds
      PROVE  slack'[<<s, j>>] = IF j = k /\ s \in todo /\ Waiting(s, k) # {}
                                THEN slack[<<s, j>>] + 1 ELSE slack[<<s, j>>]
  <2>1. <<s, j>> \in Items  BY DEF Items
  <2>2. slack'[<<s, j>>] =
          IF j = k /\ s \in todo /\ \E o \in Active : Pending(o, s, j)
          THEN slack[<<s, j>>] + 1 ELSE slack[<<s, j>>]
    BY <2>1 DEF Doubled
  <2>. QED  BY <1>3, <2>2
<1>. QED  BY <1>2, <1>4

LEMMA ListStep ==
  ASSUME IInv, NEW r \in Runs, run[r].todo = {}, NEW job \in Jobs, NEW k \in Kinds,
         NEW todo \in SUBSET Due(k), run' = [run EXCEPT ![r] = Run(job, k, todo)],
         slack' = Doubled(todo, k), fired' \subseteq Jobs,
         UNCHANGED <<row, linked, part, got, since, owed, asks, faults>>
  PROVE  Kept
<1>. USE DEF IInv
<1>. DEFINE w == Run(job, k, todo)
<1>1. todo \in SUBSET Subs  BY DueIs
<1>2. /\ w \in RunType /\ w.todo = todo /\ (w.job = None => w = Off)
      /\ (w.job # None => w.kind \in Kinds) /\ (todo # {} => w.kind = k)
  BY <1>1, RunIs
<1>. HIDE DEF w
<1>3. run \in [Runs -> RunType]  BY DEF TypeOK, RunType
<1>4. run' \in [Runs -> RunType] /\ run'[r] = w /\ \A o \in Runs \ {r} : run'[o] = run[o]
  BY <1>2, <1>3 DEF w
<1>5. /\ slack' \in [Items -> Nat]
      /\ \A s \in Subs, j \in Kinds :
           slack'[<<s, j>>] = IF j = k /\ s \in todo /\ Waiting(s, k) # {}
                              THEN slack[<<s, j>>] + 1 ELSE slack[<<s, j>>]
  BY <1>1, DoubledIs
<1>6. TypeOK'  BY <1>4, <1>5 DEF TypeOK, RunType
<1>7. Shape'
  <2>1. \A s \in todo : Known(s)  BY DueIs
  <2>. QED  BY <1>2, <1>4, <2>1 DEF Shape, Known
<1>8. ASSUME NEW s \in Subs, NEW j \in Kinds
      PROVE  Waiting(s, j)' = IF j = k /\ s \in todo THEN Waiting(s, j) \cup {r} ELSE Waiting(s, j)
  BY <1>2, <1>4 DEF Waiting
<1>9. ASSUME NEW s \in Subs, NEW j \in Kinds
      PROVE  /\ got[<<s, j>>] + Cardinality(Waiting(s, j)') <= slack'[<<s, j>>] + 1
             /\ Waiting(s, j)' = {} /\ ~Marked(s, j) => got[<<s, j>>] <= slack'[<<s, j>>]
             /\ slack'[<<s, j>>] >= slack[<<s, j>>]
  <2>1. /\ got[<<s, j>>] + Cardinality(Waiting(s, j)) <= slack[<<s, j>>] + 1
        /\ Waiting(s, j) = {} /\ ~Marked(s, j) => got[<<s, j>>] <= slack[<<s, j>>]
    BY DEF Counted, Unsent
  <2>2. got[<<s, j>>] \in Nat /\ slack[<<s, j>>] \in Nat  BY ItemIs
  <2>3. CASE ~(j = k /\ s \in todo)
    <3>1. Waiting(s, j)' = Waiting(s, j) /\ slack'[<<s, j>>] = slack[<<s, j>>]
      BY <1>5, <1>8, <2>3
    <3>. QED  BY <2>1, <2>2, <3>1
  <2>4. CASE j = k /\ s \in todo
    <3>1. Waiting(s, j)' = Waiting(s, j) \cup {r} /\ r \notin Waiting(s, j)
      BY <1>8, <2>4 DEF Waiting
    <3>2. /\ Cardinality(Waiting(s, j)') = Cardinality(Waiting(s, j)) + 1
          /\ Cardinality(Waiting(s, j)) \in Nat
      BY <3>1, SetsAre, FS_AddElement
    <3>3. CASE Waiting(s, j) # {}
      <4>1. slack'[<<s, j>>] = slack[<<s, j>>] + 1  BY <1>5, <2>4, <3>3
      <4>. HIDE DEF IInv
      <4>. QED  BY <2>1, <2>2, <3>1, <3>2, <4>1
    <3>4. CASE Waiting(s, j) = {}
      <4>1. slack'[<<s, j>>] = slack[<<s, j>>]  BY <1>5, <2>4, <3>4
      <4>2. got[<<s, j>>] <= slack[<<s, j>>]  BY <2>4, <3>4, DueUnsent
      <4>3. Cardinality(Waiting(s, j)) = 0  BY <3>4, FS_EmptySet
      <4>. HIDE DEF IInv
      <4>. QED  BY <2>2, <3>1, <3>2, <4>1, <4>2, <4>3
    <3>. QED  BY <3>3, <3>4
  <2>. QED  BY <2>3, <2>4
<1>10. Counted'  BY <1>9 DEF Counted
<1>11. Unsent'
  <2>1. \A s \in Subs, j \in Kinds : Marked(s, j)' <=> Marked(s, j)  BY DEF Marked
  <2>. QED  BY <1>9, <2>1 DEF Unsent
<1>12. Aged'  BY DEF Aged
<1>13. Owed'
  <2>1. \A s \in Subs : row[s].off => Listed(s)' = Listed(s)
    <3>1. \A s \in todo : ~row[s].off  BY DueIs
    <3>. QED  BY <1>2, <1>4, <3>1 DEF Listed
  <2>2. \A s \in Subs : row[s].off => Cardinality(Listed(s)') = Cardinality(Listed(s))
    BY <2>1
  <2>. QED  BY <2>2 DEF Owed
<1>14. Promise!Step
  <2>1. \A i \in Items : slack'[i] >= slack[i] /\ got'[i] = got[i]
    BY <1>9 DEF Items
  <2>. QED  BY <1>5, <2>1 DEF Promise!Step, TypeOK
<1>. QED  BY <1>6, <1>7, <1>10, <1>11, <1>12, <1>13, <1>14 DEF Kept

LEMMA StartStep ==
  ASSUME IInv, NEW r \in Runs, NEW job \in Jobs, Start(r, job) PROVE Kept
<1>1. run[r].job = None
  <2>1. \E x \in Runs : run[x].job = None  BY DEF Start, Free, Active
  <2>. QED  BY <2>1 DEF Start, Free
<1>2. run[r].todo = {}  BY <1>1 DEF IInv, Shape, Off
<1>3. FirstKind(job) \in Kinds  BY KindsAre DEF FirstKind
<1>4. List(job) \in SUBSET Due(FirstKind(job))  BY DEF List
<1>5. /\ run' = [run EXCEPT ![r] = Run(job, FirstKind(job), List(job))]
      /\ slack' = Doubled(List(job), FirstKind(job)) /\ fired' \subseteq Jobs
      /\ UNCHANGED <<row, linked, part, got, since, owed, asks, faults>>
  BY DEF Start, bounds, IInv, TypeOK
<1>. QED  BY <1>2, <1>3, <1>4, <1>5, ListStep

LEMMA SecondStageStep == ASSUME IInv, NEW r \in Runs, SecondStage(r) PROVE Kept
<1>1. /\ run[r].todo = {} /\ slack' = Doubled(Due("d3"), "d3") /\ fired' \subseteq Jobs
      /\ run' = [run EXCEPT ![r] = Run("welcome", "d3", Due("d3"))]
      /\ UNCHANGED <<row, linked, part, got, since, owed, asks, faults>>
  BY DEF SecondStage, bounds, IInv, TypeOK
<1>2. "welcome" \in Jobs /\ "d3" \in Kinds /\ Due("d3") \in SUBSET Due("d3")  BY KindsAre
<1>. QED  BY <1>1, <1>2, ListStep

-----------------------------------------------------------------------------
(* A mail comes off a list, and reaches its reader or not.                 *)

LEMMA MailStep ==
  ASSUME IInv, TypeOK', Shape', NEW items \in SUBSET Items,
         \A i \in Items : /\ got'[i] = IF i \in items THEN got[i] + 1 ELSE got[i]
                          /\ \/ slack'[i] = slack[i]
                             \/ i \in items /\ slack'[i] = slack[i] + 1,
         \A s \in Subs : since'[s] = IF <<s, "digest">> \in items THEN 0 ELSE since[s],
         \A s \in Subs, k \in Kinds :
           /\ Waiting(s, k)' \subseteq Waiting(s, k)
           /\ <<s, k>> \in items => Waiting(s, k)' # Waiting(s, k)
           /\ <<s, k>> \notin items /\ Marked(s, k) => Marked(s, k)'
           /\ <<s, k>> \in items /\ slack'[<<s, k>>] = slack[<<s, k>>] => Marked(s, k)',
         Owed'
  PROVE  Kept
<1>1. ASSUME NEW s \in Subs, NEW k \in Kinds
      PROVE  /\ got'[<<s, k>>] + Cardinality(Waiting(s, k)') <= slack'[<<s, k>>] + 1
             /\ Waiting(s, k)' = {} /\ ~Marked(s, k)' => got'[<<s, k>>] <= slack'[<<s, k>>]
             /\ slack'[<<s, k>>] >= slack[<<s, k>>]
             /\ got'[<<s, k>>] # got[<<s, k>>] => got[<<s, k>>] <= slack'[<<s, k>>]
  <2>1. /\ <<s, k>> \in Items /\ got[<<s, k>>] \in Nat /\ slack[<<s, k>>] \in Nat
    BY ItemIs DEF IInv
  <2>2. /\ got[<<s, k>>] + Cardinality(Waiting(s, k)) <= slack[<<s, k>>] + 1
        /\ Waiting(s, k) = {} /\ ~Marked(s, k) => got[<<s, k>>] <= slack[<<s, k>>]
    BY DEF IInv, Counted, Unsent
  <2>3. /\ Cardinality(Waiting(s, k)) \in Nat
        /\ Waiting(s, k) # {} => Cardinality(Waiting(s, k)) >= 1
    BY SetsAre
  <2>4. /\ Cardinality(Waiting(s, k)') \in Nat
        /\ Cardinality(Waiting(s, k)') <= Cardinality(Waiting(s, k))
        /\ Waiting(s, k)' # Waiting(s, k)
             => Cardinality(Waiting(s, k)') # Cardinality(Waiting(s, k))
    BY SetsAre, FS_Subset, FS_CardinalityType
  <2>5. Waiting(s, k) # {} => got[<<s, k>>] <= slack[<<s, k>>]  BY <2>1, <2>2, <2>3
  <2>6. CASE <<s, k>> \notin items
    <3>1. /\ got'[<<s, k>>] = got[<<s, k>>] /\ slack'[<<s, k>>] = slack[<<s, k>>]
          /\ Marked(s, k) => Marked(s, k)'
      BY <2>1, <2>6
    <3>2. ~Marked(s, k)' => got[<<s, k>>] <= slack[<<s, k>>]  BY <2>2, <2>5, <3>1
    <3>. QED  BY <2>1, <2>2, <2>3, <2>4, <3>1, <3>2
  <2>7. CASE <<s, k>> \in items
    <3>1. /\ got'[<<s, k>>] = got[<<s, k>>] + 1
          /\ slack'[<<s, k>>] \in {slack[<<s, k>>], slack[<<s, k>>] + 1}
          /\ slack'[<<s, k>>] = slack[<<s, k>>] => Marked(s, k)'
      BY <2>1, <2>7
    <3>2. Waiting(s, k)' # Waiting(s, k) /\ Waiting(s, k) # {}  BY <2>7
    <3>. QED  BY <2>1, <2>2, <2>3, <2>4, <2>5, <3>1, <3>2
  <2>. QED  BY <2>6, <2>7
<1>2. Counted'  BY <1>1 DEF Counted
<1>3. Unsent'  BY <1>1 DEF Unsent
<1>4. Aged'
  <2>1. ASSUME NEW s \in Subs, since'[s] \in {None, OnePerDay + 1}
        PROVE  got'[<<s, "digest">>] = 0
    <3>1. <<s, "digest">> \in Items  BY KindsAre DEF Items
    <3>2. <<s, "digest">> \notin items  BY <2>1, KindsAre, AgesAre
    <3>. QED  BY <2>1, <3>1, <3>2 DEF IInv, Aged
  <2>. QED  BY <2>1 DEF Aged
<1>5. Promise!Step
  <2>1. \A i \in Items : /\ slack'[i] >= slack[i]
                         /\ got'[i] = got[i] \/ Promise!Deliver(i)
    BY <1>1 DEF Items, Promise!Deliver
  <2>2. got' \in [Items -> Nat] /\ slack' \in [Items -> Nat]  BY DEF TypeOK
  <2>. QED  BY <2>1, <2>2 DEF Promise!Step
<1>. QED  BY <1>2, <1>3, <1>4, <1>5 DEF Kept, IInv

LEMMA PastIs ==
  ASSUME IInv, NEW r \in Runs, NEW s \in run[r].todo, Past(r, s)
  PROVE  /\ s \in Subs /\ Known(s) /\ run[r].kind \in Kinds
         /\ run' \in [Runs -> RunType]
         /\ \A o \in Runs : /\ run'[o].todo \subseteq run[o].todo
                            /\ run'[o].job = None => run'[o] = Off
                            /\ run'[o].job # None => run'[o].kind \in Kinds
         /\ \A x \in Subs, k \in Kinds :
              Waiting(x, k)' = IF x = s /\ k = run[r].kind THEN Waiting(x, k) \ {r}
                               ELSE Waiting(x, k)
         /\ \A x \in Subs : Listed(x)' = IF x = s THEN Listed(x) \ {r} ELSE Listed(x)
         /\ r \in Waiting(s, run[r].kind) /\ r \in Listed(s)
<1>. USE DEF IInv
<1>. DEFINE w == Run(run[r].job, run[r].kind, run[r].todo \ {s})
<1>1. run \in [Runs -> RunType]  BY DEF TypeOK, RunType
<1>2. /\ run[r].job \in Jobs /\ run[r].kind \in Kinds /\ run[r].todo \in SUBSET Subs
      /\ Known(s) /\ s \in Subs
  BY <1>1 DEF Shape, RunType, Off
<1>3. /\ w \in RunType /\ w.todo = run[r].todo \ {s} /\ (w.job = None => w = Off)
      /\ (w.job # None => w.kind \in Kinds) /\ (w.todo # {} => w.kind = run[r].kind)
  BY <1>2, RunIs
<1>4. run' = [run EXCEPT ![r] = w]  BY DEF Past
<1>. HIDE DEF w
<1>5. run' \in [Runs -> RunType] /\ run'[r] = w /\ \A o \in Runs \ {r} : run'[o] = run[o]
  BY <1>1, <1>3, <1>4
<1>6. \A o \in Runs : /\ run'[o].todo \subseteq run[o].todo
                      /\ run'[o].job = None => run'[o] = Off
                      /\ run'[o].job # None => run'[o].kind \in Kinds
  BY <1>3, <1>5 DEF Shape
<1>7. ASSUME NEW x \in Subs, NEW k \in Kinds
      PROVE  Waiting(x, k)' = IF x = s /\ k = run[r].kind THEN Waiting(x, k) \ {r}
                              ELSE Waiting(x, k)
  BY <1>3, <1>5 DEF Waiting
<1>8. ASSUME NEW x \in Subs
      PROVE  Listed(x)' = IF x = s THEN Listed(x) \ {r} ELSE Listed(x)
  BY <1>3, <1>5 DEF Listed
<1>9. r \in Waiting(s, run[r].kind) /\ r \in Listed(s)  BY DEF Waiting, Listed
<1>. QED  BY <1>2, <1>5, <1>6, <1>7, <1>8, <1>9

LEMMA ShapeKept ==
  ASSUME IInv, \A o \in Runs : /\ run'[o].todo \subseteq run[o].todo
                               /\ run'[o].job = None => run'[o] = Off
                               /\ run'[o].job # None => run'[o].kind \in Kinds,
         run \in [Runs -> RunType],
         \A x \in Subs : row'[x] = row[x] \/ (Known(x) /\ row'[x].known)
  PROVE  Shape'
<1>1. \A o \in Runs : run[o].todo \subseteq Subs  BY DEF RunType
<1>. QED  BY <1>1 DEF IInv, Shape, Known

LEMMA UnsentStep ==
  ASSUME IInv, NEW r \in Runs, NEW s \in run[r].todo, Past(r, s), faults' \in 0 .. MaxFaults,
         UNCHANGED <<row, linked, fired, part, got, slack, since, owed, asks>>
  PROVE  Kept
<1>. USE DEF IInv
<1>1. run \in [Runs -> RunType]  BY DEF TypeOK, RunType
<1>2. run' \in [Runs -> RunType]  BY PastIs
<1>3. TypeOK'  BY <1>2 DEF TypeOK, RunType
<1>4. Shape'  BY <1>1, PastIs, ShapeKept
<1>5. Owed'
  <2>1. ASSUME NEW x \in Subs
        PROVE  Cardinality(Listed(x)') <= Cardinality(Listed(x)) /\ Cardinality(Listed(x)') \in Nat
    <3>1. Listed(x)' \subseteq Listed(x)  BY PastIs
    <3>. QED  BY <3>1, SetsAre, FS_Subset, FS_CardinalityType
  <2>2. \A x \in Subs : Cardinality(Listed(x)) \in Nat /\ owed[x] \in Int
    BY SetsAre DEF TypeOK
  <2>. QED  BY <2>1, <2>2 DEF Owed
<1>6. PICK items : items = {}  OBVIOUS
<1>7. ASSUME NEW x \in Subs, NEW k \in Kinds
      PROVE  /\ Waiting(x, k)' \subseteq Waiting(x, k)
             /\ <<x, k>> \in items => Waiting(x, k)' # Waiting(x, k)
             /\ <<x, k>> \notin items /\ Marked(x, k) => Marked(x, k)'
             /\ <<x, k>> \in items /\ slack'[<<x, k>>] = slack[<<x, k>>] => Marked(x, k)'
  <2>1. Waiting(x, k)' \subseteq Waiting(x, k)  BY PastIs
  <2>. QED  BY <1>6, <2>1 DEF Marked
<1>8. /\ items \in SUBSET Items
      /\ \A i \in Items : /\ got'[i] = IF i \in items THEN got[i] + 1 ELSE got[i]
                          /\ \/ slack'[i] = slack[i]
                             \/ i \in items /\ slack'[i] = slack[i] + 1
      /\ \A x \in Subs : since'[x] = IF <<x, "digest">> \in items THEN 0 ELSE since[x]
  BY <1>6
<1>. HIDE DEF IInv
<1>. QED  BY <1>3, <1>4, <1>5, <1>7, <1>8, MailStep

LEMMA KindsFinite == ASSUME NEW K \in SUBSET Kinds
                     PROVE  IsFiniteSet(K) /\ Cardinality(K) \in Nat
<1>1. IsFiniteSet({"d1"})  BY FS_Singleton
<1>2. IsFiniteSet({"d1"} \cup {"d3"})  BY <1>1, FS_AddElement
<1>3. IsFiniteSet({"d1"} \cup {"d3"} \cup {"reminder"})  BY <1>2, FS_AddElement
<1>4. IsFiniteSet({"d1"} \cup {"d3"} \cup {"reminder"} \cup {"digest"})  BY <1>3, FS_AddElement
<1>5. Kinds = {"d1"} \cup {"d3"} \cup {"reminder"} \cup {"digest"}  BY KindsAre
<1>6. IsFiniteSet(K)  BY <1>4, <1>5, FS_Subset
<1>. QED  BY <1>6, FS_CardinalityType

\* The mails of these items that s had.
KindsOf(s, items) == {k \in Kinds : <<s, k>> \in items}

LEMMA ReachedIs ==
  ASSUME IInv, NEW items \in SUBSET Items, Reached(items)
  PROVE  /\ got' \in [Items -> Nat] /\ linked' \subseteq Subs /\ owed' \in [Subs -> Int]
         /\ since' \in [Subs -> Ages(OnePerDay) \cup {None}]
         /\ \A i \in Items : got'[i] = IF i \in items THEN got[i] + 1 ELSE got[i]
         /\ \A s \in Subs : since'[s] = IF <<s, "digest">> \in items THEN 0 ELSE since[s]
         /\ \A s \in Subs : owed'[s] = IF row[s].off THEN owed[s] - Cardinality(KindsOf(s, items))
                                       ELSE owed[s]
<1>. USE DEF IInv
<1>1. got' \in [Items -> Nat] /\ \A i \in Items : got'[i] = IF i \in items THEN got[i] + 1 ELSE got[i]
  BY DEF Reached, TypeOK
<1>2. linked' \subseteq Subs  BY DEF Reached, TypeOK, Items
<1>3. \A s \in Subs : since'[s] = IF <<s, "digest">> \in items THEN 0 ELSE since[s]
  BY KindsAre DEF Reached
<1>4. since' \in [Subs -> Ages(OnePerDay) \cup {None}]
  BY AgesAre DEF Reached, TypeOK
<1>5. owed' = [s \in Subs |-> IF row[s].off THEN owed[s] - Cardinality(KindsOf(s, items))
                              ELSE owed[s]]
  BY DEF Reached, KindsOf
<1>6. \A s \in Subs : Cardinality(KindsOf(s, items)) \in Nat  BY KindsFinite DEF KindsOf
<1>7. owed' \in [Subs -> Int]  BY <1>5, <1>6 DEF TypeOK
<1>. QED  BY <1>1, <1>2, <1>3, <1>4, <1>5, <1>7

\* One mail to s, off the list of r: stamped, or a slip.
LEMMA OneMailStep ==
  ASSUME IInv, NEW r \in Runs, NEW s \in run[r].todo, Past(r, s),
         Reached({<<s, run[r].kind>>}), faults' \in 0 .. MaxFaults,
         UNCHANGED <<fired, part, asks>>,
         \/ row' = Stamped(s, run[r].kind) /\ slack' = slack
         \/ row' = row /\ Slipped({<<s, run[r].kind>>})
  PROVE  Kept
<1>. USE DEF IInv
<1>1. PICK k : k = run[r].kind  OBVIOUS
<1>2. PICK items : items = {<<s, k>>}  OBVIOUS
<1>3. s \in Subs /\ Known(s) /\ k \in Kinds /\ run \in [Runs -> RunType]
  BY <1>1, PastIs DEF TypeOK, RunType
<1>4. items \in SUBSET Items /\ Reached(items)  BY <1>1, <1>2, <1>3 DEF Items
<1>5. /\ row' \in [Subs -> RowType]
      /\ \A x \in Subs : /\ row'[x].off = row[x].off
                         /\ row'[x] = row[x] \/ (Known(x) /\ row'[x].known)
      /\ \A x \in Subs, j \in Kinds : <<x, j>> \notin items /\ Marked(x, j) => Marked(x, j)'
  <2>1. \A x \in Subs : row[x] \in RowType  BY RowIs
  <2>2. row \in [Subs -> RowType]  BY DEF TypeOK, RowType
  <2>3. \A x \in Subs : <<x, "digest">> \notin items => since'[x] = since[x]
    BY <1>4, ReachedIs
  <2>4. CASE row' = row
    BY <2>1, <2>3, <2>4 DEF TypeOK, RowType, Marked
  <2>5. CASE row' = Stamped(s, k) /\ k = "digest"
    <3>1. row' = [row EXCEPT ![s].sent = 0]  BY <2>5 DEF Stamped
    <3>2. [row[s] EXCEPT !.sent = 0] \in RowType  BY <1>3, <2>1, AgesAre DEF RowType
    <3>3. row' = [row EXCEPT ![s] = [row[s] EXCEPT !.sent = 0]]  BY <3>1
    <3>4. row' \in [Subs -> RowType]  BY <2>2, <3>2, <3>3
    <3>5. \A x \in Subs : /\ row'[x].off = row[x].off /\ row'[x].stamps = row[x].stamps
                          /\ row'[x] = row[x] \/ (x = s /\ row'[x].known = row[x].known)
      BY <3>1, <2>1 DEF TypeOK, RowType
    <3>6. ASSUME NEW x \in Subs, NEW j \in Kinds, <<x, j>> \notin items, Marked(x, j)
          PROVE  Marked(x, j)'
      BY <1>2, <2>3, <2>5, <3>5, <3>6 DEF Marked
    <3>. QED  BY <1>3, <3>4, <3>5, <3>6 DEF Known
  <2>6. CASE row' = Stamped(s, k) /\ k # "digest"
    <3>1. row' = [row EXCEPT ![s].stamps = row[s].stamps \cup {k}]  BY <2>6 DEF Stamped
    <3>2. k \in OneOff  BY <1>3, <2>6, KindsAre
    <3>3. [row[s] EXCEPT !.stamps = row[s].stamps \cup {k}] \in RowType
      BY <1>3, <2>1, <3>2 DEF RowType
    <3>4. row' = [row EXCEPT ![s] = [row[s] EXCEPT !.stamps = row[s].stamps \cup {k}]]
      BY <3>1
    <3>5. row' \in [Subs -> RowType]  BY <2>2, <3>3, <3>4
    <3>6. \A x \in Subs : /\ row'[x].off = row[x].off /\ row[x].stamps \subseteq row'[x].stamps
                          /\ row'[x].sent = row[x].sent
                          /\ row'[x] = row[x] \/ (x = s /\ row'[x].known = row[x].known)
      BY <3>1, <2>1 DEF TypeOK, RowType
    <3>7. ASSUME NEW x \in Subs, NEW j \in Kinds, <<x, j>> \notin items, Marked(x, j)
          PROVE  Marked(x, j)'
      BY <2>3, <3>6, <3>7 DEF Marked
    <3>. QED  BY <1>3, <3>5, <3>6, <3>7 DEF Known
  <2>. QED  BY <1>1, <2>4, <2>5, <2>6
<1>6. /\ slack' \in [Items -> Nat]
      /\ \A i \in Items : slack'[i] = slack[i] \/ (i \in items /\ slack'[i] = slack[i] + 1)
  BY <1>1, <1>2 DEF Slipped, TypeOK
<1>7. slack'[<<s, k>>] = slack[<<s, k>>] => Marked(s, k)'
  <2>1. CASE row' = row /\ Slipped(items)
    BY <1>2, <1>3, <2>1 DEF Slipped, TypeOK, Items
  <2>2. CASE row' = Stamped(s, k) /\ k = "digest"
    <3>1. row'[s].sent = 0  BY <1>3, <2>2, RowIs DEF Stamped, TypeOK, RowType
    <3>2. since'[s] = 0  BY <1>2, <1>3, <1>4, <2>2, ReachedIs
    <3>. QED  BY <2>2, <3>1, <3>2, KindsAre DEF Marked
  <2>3. CASE row' = Stamped(s, k) /\ k # "digest"
    <3>1. k \in row'[s].stamps  BY <1>3, <2>3, RowIs DEF Stamped, TypeOK, RowType
    <3>. QED  BY <2>3, <3>1 DEF Marked
  <2>. QED  BY <1>1, <1>2, <2>1, <2>2, <2>3
<1>8. TypeOK'
  <2>1. run' \in [Runs -> RunType]  BY PastIs
  <2>. QED  BY <1>4, <1>5, <1>6, <2>1, ReachedIs DEF TypeOK, RowType, RunType
<1>9. Shape'  BY <1>3, <1>5, PastIs, ShapeKept
<1>10. Owed'
  <2>1. ASSUME NEW x \in Subs, row'[x].off
        PROVE  owed'[x] >= Cardinality(Listed(x)')
    <3>1. /\ row[x].off /\ owed[x] >= Cardinality(Listed(x)) /\ owed[x] \in Int
          /\ Cardinality(Listed(x)) \in Nat
      BY <1>5, <2>1, SetsAre DEF Owed, TypeOK
    <3>2. owed'[x] = owed[x] - Cardinality(KindsOf(x, items))  BY <1>4, <3>1, ReachedIs
    <3>3. CASE x = s
      <4>1. KindsOf(x, items) = {k}  BY <1>2, <1>3, <3>3 DEF KindsOf
      <4>2. Cardinality(KindsOf(x, items)) = 1  BY <4>1, FS_Singleton
      <4>3. Listed(x)' = Listed(x) \ {r} /\ r \in Listed(x)  BY <3>3, PastIs
      <4>4. Cardinality(Listed(x)') = Cardinality(Listed(x)) - 1
        BY <4>3, SetsAre, FS_RemoveElement
      <4>. QED  BY <3>1, <3>2, <4>2, <4>4
    <3>4. CASE x # s
      <4>1. KindsOf(x, items) = {}  BY <1>2, <3>4 DEF KindsOf
      <4>2. Cardinality(KindsOf(x, items)) = 0  BY <4>1, FS_EmptySet
      <4>3. Listed(x)' = Listed(x)  BY <3>4, PastIs
      <4>4. Cardinality(Listed(x)') = Cardinality(Listed(x))  BY <4>3
      <4>. QED  BY <3>1, <3>2, <4>2, <4>4
    <3>. QED  BY <3>3, <3>4
  <2>. QED  BY <2>1 DEF Owed
<1>11. ASSUME NEW x \in Subs, NEW j \in Kinds
       PROVE  /\ Waiting(x, j)' \subseteq Waiting(x, j)
              /\ <<x, j>> \in items => Waiting(x, j)' # Waiting(x, j)
  <2>1. Waiting(x, j)' = IF x = s /\ j = k THEN Waiting(x, j) \ {r} ELSE Waiting(x, j)
    BY <1>1, PastIs
  <2>2. r \in Waiting(s, k)  BY <1>1, PastIs
  <2>. QED  BY <1>2, <2>1, <2>2
<1>12. /\ \A i \in Items : got'[i] = IF i \in items THEN got[i] + 1 ELSE got[i]
       /\ \A x \in Subs : since'[x] = IF <<x, "digest">> \in items THEN 0 ELSE since[x]
  BY <1>4, ReachedIs
<1>13. \A i \in Items : /\ got'[i] = IF i \in items THEN got[i] + 1 ELSE got[i]
                        /\ \/ slack'[i] = slack[i]
                           \/ i \in items /\ slack'[i] = slack[i] + 1
  BY <1>6, <1>12
<1>14. ASSUME NEW x \in Subs, NEW j \in Kinds
       PROVE  /\ Waiting(x, j)' \subseteq Waiting(x, j)
              /\ <<x, j>> \in items => Waiting(x, j)' # Waiting(x, j)
              /\ <<x, j>> \notin items /\ Marked(x, j) => Marked(x, j)'
              /\ <<x, j>> \in items /\ slack'[<<x, j>>] = slack[<<x, j>>] => Marked(x, j)'
  <2>1. <<x, j>> \in items => x = s /\ j = k  BY <1>2
  <2>. QED  BY <1>5, <1>7, <1>11, <2>1
<1>. HIDE DEF IInv
<1>. QED  BY <1>4, <1>8, <1>9, <1>10, <1>12, <1>13, <1>14, MailStep

LEMMA MailStepKept ==
  ASSUME IInv, NEW r \in Runs, NEW s \in Subs, Mail(r, s)
  PROVE  Kept
<1>1. CASE Sent(r, s)
  BY <1>1, OneMailStep DEF Sent, bounds, IInv, TypeOK
<1>2. CASE Unstamped(r, s)
  <2>1. faults' \in 0 .. MaxFaults
    BY <1>2, WindowAssumption DEF Unstamped, Fault, IInv, TypeOK
  <2>. QED  BY <1>2, <2>1, OneMailStep DEF Unstamped
<1>3. CASE Refused(r, s)
  <2>1. faults' \in 0 .. MaxFaults
    BY <1>3, WindowAssumption DEF Refused, Fault, IInv, TypeOK
  <2>. QED  BY <1>3, <2>1, UnsentStep DEF Refused
<1>4. CASE NothingToSend(r, s)
  BY <1>4, UnsentStep DEF NothingToSend, bounds, IInv, TypeOK
<1>. QED  BY <1>1, <1>2, <1>3, <1>4 DEF Mail

-----------------------------------------------------------------------------
(* A process dies.                                                         *)

LEMMA CrashStep == ASSUME IInv, NEW jobs, Crash(jobs) PROVE Kept
<1>. USE DEF IInv
<1>1. PICK dying : dying = {r \in Active : run[r].job \in jobs}  OBVIOUS
<1>2. PICK out \in [dying -> SUBSET Items] :
        /\ \A r \in dying : out[r] \in {{}} \cup {{<<s, run[r].kind>>} : s \in run[r].todo}
        /\ Reached(UNION {out[r] : r \in dying}) /\ Slipped(UNION {out[r] : r \in dying})
  BY <1>1 DEF Crash
<1>3. PICK items : items = UNION {out[r] : r \in dying}  OBVIOUS
<1>4. /\ items \in SUBSET Items /\ Reached(items) /\ Slipped(items)
      /\ run' = [r \in Runs |-> IF r \in dying THEN Off ELSE run[r]]
      /\ UNCHANGED <<row, fired, part, asks>> /\ faults' \in 0 .. MaxFaults
  <2>1. faults' \in 0 .. MaxFaults  BY WindowAssumption DEF Crash, Fault, TypeOK
  <2>2. run' = [r \in Runs |-> IF r \in dying THEN Off ELSE run[r]]  BY <1>1 DEF Crash
  <2>3. UNCHANGED <<row, fired, part, asks>>  BY DEF Crash
  <2>. QED  BY <1>2, <1>3, <2>1, <2>2, <2>3
<1>5. dying \subseteq Runs  BY <1>1 DEF Active
<1>6. ASSUME NEW x \in Subs, NEW j \in Kinds, <<x, j>> \in items
      PROVE  \E r \in dying : run[r].kind = j /\ x \in run[r].todo
  <2>1. PICK r \in dying : <<x, j>> \in out[r]  BY <1>3, <1>6
  <2>2. PICK s \in run[r].todo : out[r] = {<<s, run[r].kind>>}  BY <1>2, <2>1
  <2>3. x = s /\ j = run[r].kind  BY <2>1, <2>2
  <2>. QED  BY <2>2, <2>3
<1>7. run \in [Runs -> RunType] /\ Off \in RunType /\ Off.todo = {} /\ Off.job = None
  BY DEF TypeOK, RunType, Off
<1>8. run' \in [Runs -> RunType] /\ \A o \in Runs : run'[o] = IF o \in dying THEN Off ELSE run[o]
  BY <1>4, <1>7
<1>9. TypeOK'
  <2>1. slack' \in [Items -> Nat]  BY <1>4 DEF Slipped, TypeOK
  <2>. QED  BY <1>4, <1>8, <2>1, ReachedIs DEF TypeOK, RunType
<1>10. Shape'
  <2>1. \A o \in Runs : /\ run'[o].todo \subseteq run[o].todo
                        /\ run'[o].job = None => run'[o] = Off
                        /\ run'[o].job # None => run'[o].kind \in Kinds
    BY <1>7, <1>8 DEF Shape
  <2>. QED  BY <1>4, <1>7, <2>1, ShapeKept
<1>11. ASSUME NEW x \in Subs, NEW j \in Kinds
       PROVE  /\ Waiting(x, j)' = Waiting(x, j) \ dying
              /\ Listed(x)' = Listed(x) \ dying
  BY <1>7, <1>8 DEF Waiting, Listed
<1>12. Owed'
  <2>1. ASSUME NEW x \in Subs, row'[x].off
        PROVE  owed'[x] >= Cardinality(Listed(x)')
    <3>. DEFINE K == KindsOf(x, items)
                D == Listed(x) \cap dying
                f == [k \in K |-> CHOOSE r \in dying : run[r].kind = k /\ x \in run[r].todo]
    <3>1. /\ row[x].off /\ owed[x] >= Cardinality(Listed(x)) /\ owed[x] \in Int
          /\ Cardinality(Listed(x)) \in Nat /\ IsFiniteSet(Listed(x))
      BY <1>4, <2>1, SetsAre DEF Owed, TypeOK
    <3>2. owed'[x] = owed[x] - Cardinality(K)  BY <1>4, <3>1, ReachedIs
    <3>3. f \in Injection(K, D)
      <4>1. ASSUME NEW k \in K
            PROVE  f[k] \in D /\ run[f[k]].kind = k
        <5>1. \E r \in dying : run[r].kind = k /\ x \in run[r].todo  BY <1>6 DEF KindsOf
        <5>2. f[k] \in dying /\ run[f[k]].kind = k /\ x \in run[f[k]].todo  BY <5>1
        <5>. QED  BY <1>5, <5>2 DEF Listed
      <4>2. f \in [K -> D]  BY <4>1
      <4>3. \A a, b \in K : f[a] = f[b] => a = b  BY <4>1
      <4>. QED  BY <4>2, <4>3 DEF Injection, IsInjective
    <3>4. IsFiniteSet(D) /\ Cardinality(D) \in Nat
      BY <3>1, FS_Subset, FS_CardinalityType
    <3>5. Cardinality(K) <= Cardinality(D)  BY <3>3, <3>4, FS_Injection
    <3>6. Cardinality(K) \in Nat  BY KindsFinite DEF KindsOf
    <3>7. Cardinality(Listed(x) \ dying) = Cardinality(Listed(x)) - Cardinality(D)
      BY <3>1, FS_Difference
    <3>8. Listed(x)' = Listed(x) \ dying  BY <1>11, KindsAre
    <3>9. Cardinality(Listed(x)') = Cardinality(Listed(x)) - Cardinality(D)  BY <3>7, <3>8
    <3>. HIDE DEF K, D, f, IInv
    <3>. QED  BY <3>1, <3>2, <3>4, <3>5, <3>6, <3>9
  <2>. QED  BY <2>1 DEF Owed
<1>13. \A i \in Items : /\ got'[i] = IF i \in items THEN got[i] + 1 ELSE got[i]
                        /\ \/ slack'[i] = slack[i]
                           \/ i \in items /\ slack'[i] = slack[i] + 1
  <2>1. \A i \in Items : slack'[i] = IF i \in items THEN slack[i] + 1 ELSE slack[i]
    BY <1>4 DEF Slipped
  <2>. QED  BY <1>4, <2>1, ReachedIs
<1>14. \A x \in Subs : since'[x] = IF <<x, "digest">> \in items THEN 0 ELSE since[x]
  BY <1>4, ReachedIs
<1>15. ASSUME NEW x \in Subs, NEW j \in Kinds
       PROVE  /\ Waiting(x, j)' \subseteq Waiting(x, j)
              /\ <<x, j>> \in items => Waiting(x, j)' # Waiting(x, j)
              /\ <<x, j>> \notin items /\ Marked(x, j) => Marked(x, j)'
              /\ <<x, j>> \in items /\ slack'[<<x, j>>] = slack[<<x, j>>] => Marked(x, j)'
  <2>1. Waiting(x, j)' = Waiting(x, j) \ dying  BY <1>11
  <2>2. <<x, j>> \in items => \E r \in dying : r \in Waiting(x, j)
    BY <1>5, <1>6 DEF Waiting
  <2>3. <<x, j>> \in Items /\ slack[<<x, j>>] \in Nat  BY ItemIs
  <2>4. <<x, j>> \in items => slack'[<<x, j>>] # slack[<<x, j>>]
    BY <1>4, <2>3 DEF Slipped
  <2>5. <<x, j>> \notin items /\ Marked(x, j) => Marked(x, j)'
    BY <1>4, <1>14 DEF Marked
  <2>. QED  BY <2>1, <2>2, <2>4, <2>5
<1>. HIDE DEF IInv
<1>. QED  BY <1>4, <1>9, <1>10, <1>12, <1>13, <1>14, <1>15, MailStep

-----------------------------------------------------------------------------
(* Time passes: stamps and receipts get older together.                    *)

LEMMA OlderIs ==
  ASSUME NEW limit \in Nat, NEW a \in Ages(limit) \cup {None}
  PROVE  /\ Older(a, limit) \in Ages(limit) \cup {None}
         /\ a # None => Older(a, limit) \in Ages(limit) \ {0}
         /\ a = None => Older(a, limit) = None
  BY NoneAssumption DEF Ages, Older

LEMMA TickStep == ASSUME IInv, Tick PROVE Kept
<1>. USE DEF IInv
<1>1. /\ Before["d3"] \in Nat /\ Before["reminder"] \in Nat /\ OnePerDay \in Nat
  BY WindowAssumption, KindsAre
<1>2. /\ UNCHANGED <<linked, run, slack, owed, asks>> /\ fired' = {}
      /\ part' \in 0 .. Day - 1 /\ faults' \in 0 .. MaxFaults
  <2>1. UNCHANGED <<linked, run, slack, owed, asks>> /\ fired' = {}  BY DEF Tick
  <2>2. part' \in 0 .. Day - 1
    <3>1. part' = (part + 1) % Day  BY DEF Tick
    <3>2. part \in Nat /\ Day \in Nat \ {0}  BY WindowAssumption DEF TypeOK
    <3>. HIDE DEF IInv
    <3>. QED  BY <3>1, <3>2
  <2>3. faults' \in 0 .. MaxFaults
    <3>1. faults' = faults \/ (faults < MaxFaults /\ faults' = faults + 1)
      BY DEF Tick, Fault
    <3>2. faults \in 0 .. MaxFaults /\ MaxFaults \in Nat  BY WindowAssumption DEF TypeOK
    <3>. HIDE DEF IInv
    <3>. QED  BY <3>1, <3>2
  <2>. QED  BY <2>1, <2>2, <2>3
<1>3. /\ row' \in [Subs -> RowType]
      /\ \A s \in Subs :
           /\ row'[s].known = row[s].known /\ row'[s].off = row[s].off
           /\ row'[s].stamps = row[s].stamps
           /\ row'[s].sent = IF Known(s) THEN Older(row[s].sent, OnePerDay) ELSE row[s].sent
  <2>. DEFINE w(s) == IF Known(s) THEN
                 [row[s] EXCEPT !.verified = Older(row[s].verified, Before["d3"]),
                                !.sent = Older(row[s].sent, OnePerDay),
                                !.created = Older(row[s].created, Before["reminder"])]
               ELSE row[s]
  <2>1. row' = [s \in Subs |-> w(s)]  BY DEF Tick
  <2>2. ASSUME NEW s \in Subs
        PROVE  /\ w(s) \in RowType /\ w(s).known = row[s].known /\ w(s).off = row[s].off
               /\ w(s).stamps = row[s].stamps
               /\ w(s).sent = IF Known(s) THEN Older(row[s].sent, OnePerDay) ELSE row[s].sent
    <3>1. row[s] \in RowType  BY RowIs
    <3>2. Older(row[s].verified, Before["d3"]) \in Ages(Before["d3"]) \cup {None}
      BY <1>1, <3>1, OlderIs DEF RowType
    <3>3. Older(row[s].sent, OnePerDay) \in Ages(OnePerDay) \cup {None}
      BY <1>1, <3>1, OlderIs DEF RowType
    <3>4. Older(row[s].created, Before["reminder"]) \in Ages(Before["reminder"])
      <4>1. row[s].created \in Ages(Before["reminder"]) /\ row[s].created # None
        BY <3>1, NoneAssumption DEF RowType, Ages
      <4>. QED  BY <1>1, <4>1, OlderIs
    <3>. QED  BY <3>1, <3>2, <3>3, <3>4 DEF RowType
  <2>. HIDE DEF w
  <2>. QED  BY <2>1, <2>2
<1>4. /\ since' \in [Subs -> Ages(OnePerDay) \cup {None}]
      /\ \A s \in Subs : since'[s] = Older(since[s], OnePerDay)
  <2>1. \A s \in Subs : Older(since[s], OnePerDay) \in Ages(OnePerDay) \cup {None}
    BY <1>1, OlderIs DEF TypeOK
  <2>. QED  BY <2>1 DEF Tick
<1>5. /\ got' \in [Items -> Nat]
      /\ \A s \in Subs, k \in Kinds :
           got'[<<s, k>>] = IF k = "digest" /\ since'[s] # None /\ since'[s] > OnePerDay
                            THEN 0 ELSE got[<<s, k>>]
  <2>1. got' = [i \in Items |->
                  IF i[2] = "digest" /\ since'[i[1]] # None /\ since'[i[1]] > OnePerDay
                  THEN 0 ELSE got[i]]
    BY DEF Tick
  <2>. QED  BY <2>1 DEF TypeOK, Items
<1>6. TypeOK'  BY <1>2, <1>3, <1>4, <1>5 DEF TypeOK, RowType
<1>7. Shape'
  <2>1. run \in [Runs -> RunType]  BY DEF TypeOK, RunType
  <2>. QED  BY <1>2, <1>3, <2>1 DEF Shape, Known, RunType
<1>8. ASSUME NEW s \in Subs, NEW k \in Kinds
      PROVE  /\ Waiting(s, k)' = Waiting(s, k) /\ Listed(s)' = Listed(s)
             /\ Marked(s, k) => Marked(s, k)'
             /\ got'[<<s, k>>] = got[<<s, k>>] \/ got'[<<s, k>>] = 0
             /\ got[<<s, k>>] \in Nat /\ slack[<<s, k>>] \in Nat /\ slack' = slack
  <2>1. Waiting(s, k)' = Waiting(s, k) /\ Listed(s)' = Listed(s)
    BY <1>2 DEF Waiting, Listed
  <2>2. Marked(s, k) => Marked(s, k)'
    <3>1. CASE k # "digest"  BY <1>3, <3>1 DEF Marked
    <3>2. CASE k = "digest" /\ row[s].sent = since[s] /\ since[s] # None
      <4>1. Known(s)  BY <3>2 DEF Shape
      <4>2. row'[s].sent = since'[s]  BY <1>3, <1>4, <3>2, <4>1
      <4>3. since'[s] # None
        <5>1. since[s] \in Ages(OnePerDay) \cup {None}  BY DEF TypeOK
        <5>2. since'[s] \in Ages(OnePerDay)  BY <1>1, <1>4, <3>2, <5>1, OlderIs
        <5>. QED  BY <5>2, NoneAssumption DEF Ages
      <4>. QED  BY <3>2, <4>2, <4>3 DEF Marked
    <3>. QED  BY <3>1, <3>2 DEF Marked
  <2>. QED  BY <1>2, <1>5, <2>1, <2>2, ItemIs
<1>9. Counted'
  <2>1. ASSUME NEW s \in Subs, NEW k \in Kinds
        PROVE  got'[<<s, k>>] + Cardinality(Waiting(s, k)') <= slack'[<<s, k>>] + 1
    <3>1. got[<<s, k>>] + Cardinality(Waiting(s, k)) <= slack[<<s, k>>] + 1  BY DEF Counted
    <3>2. Cardinality(Waiting(s, k)) \in Nat  BY SetsAre
    <3>3. Cardinality(Waiting(s, k)') = Cardinality(Waiting(s, k))  BY <1>8
    <3>4. /\ got'[<<s, k>>] = got[<<s, k>>] \/ got'[<<s, k>>] = 0
          /\ got[<<s, k>>] \in Nat /\ slack'[<<s, k>>] = slack[<<s, k>>]
          /\ slack[<<s, k>>] \in Nat
      BY <1>8
    <3>. HIDE DEF IInv
    <3>. QED  BY <3>1, <3>2, <3>3, <3>4
  <2>. QED  BY <2>1 DEF Counted
<1>10. Unsent'
  <2>1. ASSUME NEW s \in Subs, NEW k \in Kinds, Waiting(s, k)' = {}, ~Marked(s, k)'
        PROVE  got'[<<s, k>>] <= slack'[<<s, k>>]
    BY <1>8, <2>1 DEF Unsent
  <2>. QED  BY <2>1 DEF Unsent
<1>11. Aged'
  <2>1. ASSUME NEW s \in Subs, since'[s] \in {None, OnePerDay + 1}
        PROVE  got'[<<s, "digest">>] = 0
    <3>1. CASE since'[s] # None
      <4>1. since'[s] = OnePerDay + 1 /\ since'[s] > OnePerDay  BY <1>1, <2>1, <3>1
      <4>2. "digest" \in Kinds  BY KindsAre
      <4>. HIDE DEF IInv
      <4>. QED  BY <1>5, <3>1, <4>1, <4>2
    <3>2. CASE since'[s] = None
      <4>1. since[s] \in Ages(OnePerDay) \cup {None}  BY DEF TypeOK
      <4>2. since[s] = None
        BY <1>1, <1>4, <3>2, <4>1, OlderIs, NoneAssumption DEF Ages
      <4>. QED  BY <1>5, <3>2, <4>2, KindsAre DEF Aged
    <3>. QED  BY <3>1, <3>2
  <2>. QED  BY <2>1 DEF Aged
<1>12. Owed'
  <2>1. \A s \in Subs : Cardinality(Listed(s)') = Cardinality(Listed(s))  BY <1>8, KindsAre
  <2>. QED  BY <1>2, <1>3, <2>1 DEF Owed
<1>13. Promise!Step
  <2>1. got' \in [Items -> Nat] /\ slack' \in [Items -> Nat]  BY <1>6 DEF TypeOK
  <2>2. \A i \in Items : (slack'[i] >= slack[i] /\ got'[i] = got[i]) \/ got'[i] = 0
    BY <1>8 DEF Items
  <2>. QED  BY <2>1, <2>2 DEF Promise!Step, Promise!Renew
<1>. QED  BY <1>6, <1>7, <1>9, <1>10, <1>11, <1>12, <1>13 DEF Kept

-----------------------------------------------------------------------------
LEMMA StutterStep == ASSUME IInv, UNCHANGED vars PROVE Kept
<1>1. \A s, k : Waiting(s, k)' = Waiting(s, k) /\ Listed(s)' = Listed(s)
  BY DEF vars, Waiting, Listed
<1>2. \A s, k : Marked(s, k)' <=> Marked(s, k)  BY DEF vars, Marked
<1>3. TypeOK' /\ Shape' /\ Aged'
  BY DEF IInv, vars, TypeOK, Shape, Known, Aged
<1>4. Counted' /\ Unsent' /\ Owed'
  BY <1>1, <1>2 DEF IInv, vars, Counted, Unsent, Owed
<1>. QED  BY <1>3, <1>4 DEF Kept, IInv, vars

LEMMA NextStep == ASSUME IInv, [Next]_vars PROVE Kept
<1>1. ASSUME NEW s \in Subs, Request(s) PROVE Kept
  BY <1>1, SignUpStep, ConfirmStep, UnsubscribeStep DEF Request
<1>2. ASSUME NEW r \in Runs, Progress(r) PROVE Kept
  BY <1>2, SecondStageStep, MailStepKept DEF Progress
<1>3. ASSUME NEW r \in Runs, NEW job \in Jobs, Start(r, job) PROVE Kept
  BY <1>3, StartStep
<1>4. CASE Crash(Jobs \ {"reminder"}) \/ Crash({"reminder"})  BY <1>4, CrashStep
<1>5. CASE Tick  BY <1>5, TickStep
<1>6. CASE UNCHANGED vars  BY <1>6, StutterStep
<1>. QED  BY <1>1, <1>2, <1>3, <1>4, <1>5, <1>6 DEF Next

(* The invariant holds whatever the requests, runs, deaths and slow days.  *)
LEMMA Inductive == Spec => []IInv
<1>1. Init => IInv  BY InitHolds
<1>2. IInv /\ [Next]_vars => IInv'  BY NextStep DEF Kept
<1>. QED  BY <1>1, <1>2, PTL DEF Spec

(* The types, and StopsWhenAsked: after an unsubscription come at most the *)
(* mails that the runs under way had listed, which they send without       *)
(* looking at the row again.                                               *)
THEOREM MailInvHolds == Spec => []MailInv
<1>1. IInv => MailInv
  <2>1. ASSUME Owed, TypeOK, NEW s \in Subs, row[s].off PROVE owed[s] >= 0
    <3>1. owed[s] >= Cardinality(Listed(s)) /\ Cardinality(Listed(s)) \in Nat
          /\ owed[s] \in Int
      BY <2>1, SetsAre DEF Owed, TypeOK
    <3>. QED  BY <3>1
  <2>. QED  BY <2>1 DEF IInv, MailInv, StopsWhenAsked
<1>. QED  BY <1>1, Inductive, PTL

(* The newsletter implements Outbox: each one-off mail once per subscriber, *)
(* each digest once a day, and once more only for a mail that was sent and  *)
(* not stamped or a row that two runs had listed.                           *)
THEOREM MailedOnceHolds == Spec => MailedOnce
<1>1. Init => Promise!Init  BY InitHolds
<1>2. IInv /\ [Next]_vars => [Promise!Step]_<<got, slack>>  BY NextStep DEF Kept
<1>. QED  BY <1>1, <1>2, Inductive, PTL DEF Spec, MailedOnce, Promise!Spec
=============================================================================

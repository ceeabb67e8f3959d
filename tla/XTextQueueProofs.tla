-------------------------- MODULE XTextQueueProofs --------------------------
(***************************************************************************)
(* Theorems about the X text queue, for any articles, plans, budget, ages  *)
(* and number of overlapping runs.                                         *)
(*                                                                         *)
(* A run posts what it listed, whatever the rows say by then: its list is  *)
(* counted with the posts (Counted), and what is pending and on no list    *)
(* has a post less (Unsent).                                               *)
(***************************************************************************)
EXTENDS XTextQueue, FiniteSetTheorems, FunctionTheorems, TLAPS

Run == [pc : {"idle", "next", "send", "answer"},
        todo : SUBSET Articles, rows : SUBSET Rows,
        left : SUBSET Posts, done : SUBSET Rows,
        already : Nat, posted : Nat, age : 0 .. Window]

\* A post is sent or awaited exactly while the chain is not finished.
Shape ==
  \A c \in Cycles : cyc[c].pc \in {"send", "answer"} <=> cyc[c].left # {}

TypeInv == TypeOK /\ Shape

-----------------------------------------------------------------------------
(* Rows and posts.                                                         *)

LEMMA RowsFinite == IsFiniteSet(Rows)
<1>. DEFINE f == [a \in Articles |-> RowsOf(a)]
            T == {RowsOf(a) : a \in Articles}
<1>1. f \in Surjection(Articles, T)  BY DEF Surjection
<1>2. IsFiniteSet(T)  BY <1>1, SetsAssumption, FS_Surjection
<1>3. ASSUME NEW a \in Articles PROVE IsFiniteSet(RowsOf(a))
  <2>1. Parts[a] \in Int  BY PlanAssumption
  <2>2. IsFiniteSet(1 .. Parts[a])  BY <2>1, FS_Interval
  <2>3. IsFiniteSet({a})  BY FS_Singleton
  <2>. QED  BY <2>2, <2>3, FS_Product DEF RowsOf
<1>4. IsFiniteSet(UNION T)  BY <1>2, <1>3, FS_UNION
<1>. QED  BY <1>4 DEF Rows

LEMMA ChainFinite == ASSUME NEW a \in Articles PROVE IsFiniteSet({a} \X DOMAIN Plan[a])
<1>1. DOMAIN Plan[a] = 1 .. Len(Plan[a]) /\ Len(Plan[a]) \in Nat  BY PlanAssumption
<1>2. IsFiniteSet(1 .. Len(Plan[a]))  BY <1>1, FS_Interval
<1>3. IsFiniteSet({a})  BY FS_Singleton
<1>. QED  BY <1>1, <1>2, <1>3, FS_Product

LEMMA PostsFinite == IsFiniteSet(Posts)
<1>. DEFINE f == [a \in Articles |-> {a} \X DOMAIN Plan[a]]
            T == {{a} \X DOMAIN Plan[a] : a \in Articles}
<1>1. f \in Surjection(Articles, T)  BY DEF Surjection
<1>2. IsFiniteSet(T)  BY <1>1, SetsAssumption, FS_Surjection
<1>3. IsFiniteSet(UNION T)  BY <1>2, ChainFinite, FS_UNION
<1>. QED  BY <1>3 DEF Posts

LEMMA SeqElement ==
  ASSUME NEW S, NEW s \in Seq(S), NEW i \in DOMAIN s PROVE s[i] \in S
  OBVIOUS

LEMMA PostIsOfArticle ==
  ASSUME NEW k \in Posts
  PROVE  /\ k = <<k[1], k[2]>> /\ k[1] \in Articles /\ k[2] \in DOMAIN Plan[k[1]]
         /\ RowOf(k) \in Rows
<1>1. PICK a \in Articles : k \in {a} \X DOMAIN Plan[a]  BY DEF Posts
<1>2. Plan[a] \in Seq(1 .. Parts[a])  BY PlanAssumption
<1>3. k[1] = a /\ k[2] \in DOMAIN Plan[a] /\ k = <<k[1], k[2]>>  BY <1>1
<1>4. Plan[a][k[2]] \in 1 .. Parts[a]  BY <1>2, <1>3, SeqElement
<1>. QED  BY <1>3, <1>4 DEF RowOf, Rows, RowsOf

LEMMA PendingRows == ASSUME NEW a \in Articles PROVE Pending(a) \subseteq Rows
  BY DEF Pending, Rows

LEMMA CountIsNat == CountSince \in Nat
<1>1. IsFiniteSet(InWindow)  BY RowsFinite, FS_Subset DEF InWindow
<1>. QED  BY <1>1, FS_CardinalityType DEF CountSince

LEMMA PlannedPosts ==
  ASSUME NEW c \in Cycles, NEW a \in Articles PROVE Planned(c, a) \subseteq Posts
  BY DEF Planned, Posts

-----------------------------------------------------------------------------
(* Types.                                                                  *)

LEMMA IdleType == Idle \in Run /\ Idle.left = {} /\ Idle.pc = "idle"
  BY NumbersAssumption DEF Idle, Run

LEMMA InitType == Init => TypeInv
<1>1. ASSUME Init PROVE TypeOK
  BY <1>1, IdleType, NumbersAssumption DEF Init, TypeOK, Run, Statuses
<1>2. ASSUME Init PROVE Shape
  BY <1>2, IdleType DEF Init, Shape
<1>. QED  BY <1>1, <1>2 DEF TypeInv

LEMMA MarkType ==
  ASSUME TypeOK, NEW ids, NEW t \in 0 .. Window, MarkPosted(ids, t)
  PROVE  status' \in [Rows -> Statuses] /\ marked' \in [Rows -> 0 .. Window]
<1>1. status \in [Rows -> Statuses] /\ marked \in [Rows -> 0 .. Window]  BY DEF TypeOK
<1>2. "marked_posted" \in Statuses  BY DEF Statuses
<1>. QED  BY <1>1, <1>2 DEF MarkPosted

\* A step that replaces run c by a well-formed run keeps the types of the runs.
LEMMA RunType ==
  ASSUME TypeInv, NEW c \in Cycles, NEW r \in Run, cyc' = [cyc EXCEPT ![c] = r],
         r.pc \in {"send", "answer"} <=> r.left # {}
  PROVE  cyc' \in [Cycles -> Run] /\ Shape'
<1>1. cyc \in [Cycles -> Run]  BY DEF TypeInv, TypeOK, Run
<1>. QED  BY <1>1 DEF TypeInv, Shape

LEMMA EndChainType ==
  ASSUME TypeInv, NEW c \in Cycles, NEW posted \in Nat, NEW ids, EndChain(c, posted, ids)
  PROVE  /\ cyc' \in [Cycles -> Run] /\ Shape'
         /\ status' \in [Rows -> Statuses] /\ marked' \in [Rows -> 0 .. Window]
<1>. DEFINE r == [cyc[c] EXCEPT !.pc = "next", !.left = {}, !.done = {}, !.posted = posted]
<1>1. cyc[c] \in Run  BY DEF TypeInv, TypeOK, Run
<1>2. r \in Run /\ r.pc = "next" /\ r.left = {}  BY <1>1 DEF Run
<1>3. cyc' = [cyc EXCEPT ![c] = r]  BY DEF EndChain, TypeInv, TypeOK
<1>4. cyc[c].age \in 0 .. Window  BY <1>1 DEF Run
<1>5. MarkPosted(ids, cyc[c].age)  BY DEF EndChain
<1>6. status' \in [Rows -> Statuses] /\ marked' \in [Rows -> 0 .. Window]
  BY <1>4, <1>5, MarkType DEF TypeInv
<1>. HIDE DEF r
<1>7. cyc' \in [Cycles -> Run] /\ Shape'  BY <1>2, <1>3, RunType
<1>. QED  BY <1>6, <1>7

LEMMA BeginChainType ==
  ASSUME TypeInv, NEW c \in Cycles, BeginChain(c)
  PROVE  cyc' \in [Cycles -> Run] /\ Shape'
<1>0. cyc[c] \in Run /\ cyc[c].left = {}
  BY DEF BeginChain, TypeInv, TypeOK, Run, Shape
<1>1. CASE cyc' = [cyc EXCEPT ![c] = Idle]
  BY <1>1, IdleType, RunType
<1>2. ASSUME NEW a \in Articles, Planned(c, a) # {},
             cyc' = [cyc EXCEPT ![c].pc = "send", ![c].todo = @ \ {a},
                                ![c].left = Planned(c, a)]
      PROVE  cyc' \in [Cycles -> Run] /\ Shape'
  <2>. DEFINE P == Planned(c, a)
              r == [cyc[c] EXCEPT !.pc = "send", !.todo = cyc[c].todo \ {a}, !.left = P]
  <2>1. P \subseteq Posts  BY PlannedPosts
  <2>2. cyc' = [cyc EXCEPT ![c] = r]  BY <1>2 DEF TypeInv, TypeOK
  <2>. HIDE DEF P
  <2>3. r \in Run /\ r.pc = "send" /\ r.left = P  BY <1>0, <2>1 DEF Run
  <2>4. P # {}  BY <1>2 DEF P
  <2>. HIDE DEF r
  <2>. QED  BY <2>2, <2>3, <2>4, RunType
<1>3. ASSUME NEW a \in Articles, cyc' = [cyc EXCEPT ![c].todo = @ \ {a}]
      PROVE  cyc' \in [Cycles -> Run] /\ Shape'
  <2>. DEFINE r == [cyc[c] EXCEPT !.todo = cyc[c].todo \ {a}]
  <2>1. cyc' = [cyc EXCEPT ![c] = r]  BY <1>3 DEF TypeInv, TypeOK
  <2>2. r \in Run /\ r.pc = cyc[c].pc /\ r.left = {}  BY <1>0 DEF Run
  <2>3. r.pc \notin {"send", "answer"}  BY <2>2 DEF BeginChain
  <2>. HIDE DEF r
  <2>. QED  BY <2>1, <2>2, <2>3, RunType
<1>. QED  BY <1>1, <1>2, <1>3 DEF BeginChain

LEMMA AnsweredType ==
  ASSUME TypeInv, NEW c \in Cycles, Answered(c)
  PROVE  /\ cyc' \in [Cycles -> Run] /\ Shape'
         /\ status' \in [Rows -> Statuses] /\ marked' \in [Rows -> 0 .. Window]
<1>0. cyc[c] \in Run  BY DEF TypeInv, TypeOK, Run
<1>1. PICK k \in Posts : /\ IsStep(c, k)
                         /\ IF cyc[c].left = {k}
                            THEN EndChain(c, cyc[c].posted + 1, cyc[c].done \cup {RowOf(k)})
                            ELSE /\ cyc' = [cyc EXCEPT ![c].pc = "send", ![c].left = @ \ {k},
                                               ![c].done = @ \cup {RowOf(k)}, ![c].posted = @ + 1]
                                 /\ UNCHANGED <<status, marked>>
  BY DEF Answered
<1>2. CASE cyc[c].left = {k}
  <2>1. cyc[c].posted + 1 \in Nat  BY <1>0 DEF Run
  <2>. QED  BY <1>1, <1>2, <2>1, EndChainType
<1>3. CASE cyc[c].left # {k}
  <2>. DEFINE left == cyc[c].left \ {k}
              done == cyc[c].done \cup {RowOf(k)}
              n == cyc[c].posted + 1
              r == [cyc[c] EXCEPT !.pc = "send", !.left = left, !.done = done, !.posted = n]
  <2>1. cyc' = [cyc EXCEPT ![c] = r]  BY <1>1, <1>3 DEF TypeInv, TypeOK
  <2>2. left \subseteq Posts /\ done \subseteq Rows /\ n \in Nat
    BY <1>0, PostIsOfArticle DEF Run
  <2>4. left # {}  BY <1>1, <1>3 DEF IsStep
  <2>. HIDE DEF left, done, n
  <2>3. r \in Run /\ r.pc = "send" /\ r.left = left  BY <1>0, <2>2 DEF Run
  <2>. HIDE DEF r
  <2>5. cyc' \in [Cycles -> Run] /\ Shape'  BY <2>1, <2>3, <2>4, RunType
  <2>. QED  BY <1>1, <1>3, <2>5 DEF TypeInv, TypeOK
<1>. QED  BY <1>2, <1>3

LEMMA StepType == TypeInv /\ [Next]_vars => TypeInv'
<1>. SUFFICES ASSUME TypeInv, [Next]_vars PROVE TypeInv'  OBVIOUS
<1>. USE NumbersAssumption DEF Run
<1>0. /\ rank \in [Articles -> Nat] /\ age \in [Articles -> 0 .. StaleAge]
      /\ status \in [Rows -> Statuses] /\ marked \in [Rows -> 0 .. Window]
      /\ cyc \in [Cycles -> Run]
      /\ digest \subseteq Rows /\ emailed \subseteq Rows /\ crossed \subseteq Rows
      /\ sent \in [Posts -> Nat] /\ faults \in Nat /\ overlaps \in Nat
  BY DEF TypeInv, TypeOK
<1>1. ASSUME NEW a \in Articles, Enqueue(a) PROVE TypeInv'
  <2>1. Cardinality({b \in Articles : rank[b] # 0}) \in Nat
    BY SetsAssumption, FS_Subset, FS_CardinalityType
  <2>2. rank' \in [Articles -> Nat]
    <3>. DEFINE n == 1 + Cardinality({b \in Articles : rank[b] # 0})
    <3>1. n \in Nat  BY <2>1
    <3>2. rank' = [rank EXCEPT ![a] = n]  BY <1>1 DEF Enqueue
    <3>. HIDE DEF n
    <3>. QED  BY <1>0, <3>1, <3>2
  <2>3. status' \in [Rows -> Statuses]  BY <1>0, <1>1 DEF Enqueue, Statuses
  <2>. QED  BY <1>0, <1>1, <2>2, <2>3 DEF Enqueue, mailVars, TypeInv, TypeOK, Shape
<1>2. ASSUME NEW c \in Cycles, Start(c) PROVE TypeInv'
  <2>. DEFINE todo == FreshArticles
              listed == UNION {Pending(a) : a \in FreshArticles}
              n == CountSince
              new == [Idle EXCEPT !.pc = "next", !.todo = todo, !.rows = listed, !.already = n]
  <2>1. FreshArticles \subseteq Articles  BY DEF FreshArticles, Newest
  <2>2. listed \subseteq Rows /\ n \in Nat  BY <2>1, PendingRows, CountIsNat
  <2>4. cyc' = [cyc EXCEPT ![c] = new]  BY <1>2 DEF Start
  <2>. HIDE DEF todo, listed, n
  <2>2a. todo \subseteq Articles  BY <2>1 DEF todo
  <2>3. new \in Run /\ new.pc = "next" /\ new.left = {}
    BY <2>2, <2>2a, IdleType
  <2>. HIDE DEF new
  <2>5. cyc' \in [Cycles -> Run] /\ Shape'  BY <2>3, <2>4, RunType
  <2>6. overlaps' \in Nat  BY <1>0, <1>2 DEF Start
  <2>7. crossed' \subseteq Rows  BY <1>0, <1>2 DEF Start
  <2>. QED  BY <1>0, <1>2, <2>5, <2>6, <2>7 DEF Start, queueVars, TypeInv, TypeOK
<1>3. ASSUME NEW c \in Cycles, BeginChain(c) PROVE TypeInv'
  <2>1. cyc' \in [Cycles -> Run] /\ Shape'  BY <1>3, BeginChainType
  <2>. QED  BY <1>0, <1>3, <2>1 DEF BeginChain, mailVars, queueVars, TypeInv, TypeOK
<1>4. ASSUME NEW c \in Cycles, Publish(c) PROVE TypeInv'
  <2>. DEFINE r == [cyc[c] EXCEPT !.pc = "answer"]
  <2>1. cyc' = [cyc EXCEPT ![c] = r]  BY <1>0, <1>4 DEF Publish
  <2>2. r \in Run /\ r.pc = "answer" /\ r.left = cyc[c].left  BY <1>0
  <2>3. cyc[c].left # {}  BY <1>4 DEF Publish, TypeInv, Shape
  <2>. HIDE DEF r
  <2>4. cyc' \in [Cycles -> Run] /\ Shape'  BY <2>1, <2>2, <2>3, RunType
  <2>5. PICK k \in Posts : sent' = [sent EXCEPT ![k] = @ + 1]  BY <1>4 DEF Publish
  <2>6. sent[k] + 1 \in Nat  BY <1>0
  <2>7. sent' \in [Posts -> Nat]  BY <1>0, <2>5, <2>6
  <2>. QED  BY <1>0, <1>4, <2>4, <2>7 DEF Publish, mailVars, queueVars, TypeInv, TypeOK
<1>5. ASSUME NEW c \in Cycles, Answered(c) PROVE TypeInv'
  <2>1. /\ cyc' \in [Cycles -> Run] /\ Shape'
        /\ status' \in [Rows -> Statuses] /\ marked' \in [Rows -> 0 .. Window]
    BY <1>5, AnsweredType
  <2>. QED  BY <1>0, <1>5, <2>1 DEF Answered, mailVars, TypeInv, TypeOK
<1>6. ASSUME NEW c \in Cycles, NEW posted \in Nat, NEW ids, EndChain(c, posted, ids),
             faults' \in Nat, UNCHANGED <<rank, age, mailVars, sent, overlaps>>
      PROVE  TypeInv'
  <2>1. /\ cyc' \in [Cycles -> Run] /\ Shape'
        /\ status' \in [Rows -> Statuses] /\ marked' \in [Rows -> 0 .. Window]
    BY <1>6, EndChainType
  <2>. QED  BY <1>0, <1>6, <2>1 DEF mailVars, TypeInv, TypeOK
<1>7. ASSUME NEW c \in Cycles, Unrecorded(c) PROVE TypeInv'
  <2>1. cyc[c].posted + 1 \in Nat  BY <1>0
  <2>2. faults' \in Nat  BY <1>0, <1>7 DEF Unrecorded, Fault
  <2>. QED  BY <1>6, <1>7, <2>1, <2>2 DEF Unrecorded
<1>8. ASSUME NEW c \in Cycles, PostFails(c) \/ PostFailsUnrecorded(c) PROVE TypeInv'
  <2>1. cyc[c].posted \in Nat  BY <1>0
  <2>2. faults' \in Nat  BY <1>0, <1>8 DEF PostFails, PostFailsUnrecorded, Fault
  <2>. QED  BY <1>6, <1>8, <2>1, <2>2 DEF PostFails, PostFailsUnrecorded
<1>9. CASE Crash
  <2>1. cyc' \in [Cycles -> Run] /\ Shape'  BY <1>9, IdleType DEF Crash, Shape
  <2>. QED  BY <1>0, <1>9, <2>1 DEF Crash, mailVars, Fault, queueVars, TypeInv, TypeOK
<1>10. CASE DigestBegin
  <2>1. digest' \subseteq Rows  BY <1>10, PendingRows DEF DigestBegin, Newest
  <2>2. crossed' \subseteq Rows  BY <1>0, <1>10, <2>1 DEF DigestBegin
  <2>. QED  BY <1>0, <1>10, <2>1, <2>2 DEF DigestBegin, queueVars, TypeInv, TypeOK, Shape
<1>11. CASE DigestEnd
  <2>1. status' \in [Rows -> Statuses]  BY <1>0, <1>11 DEF DigestEnd, Statuses
  <2>2. emailed' \subseteq Rows /\ faults' \in Nat  BY <1>0, <1>11 DEF DigestEnd, Fault
  <2>. QED  BY <1>0, <1>11, <2>1, <2>2 DEF DigestEnd, TypeInv, TypeOK, Shape
<1>12. CASE Sweep
  <2>1. status' \in [Rows -> Statuses]  BY <1>0, <1>12 DEF Sweep, Statuses
  <2>. QED  BY <1>0, <1>12, <2>1 DEF Sweep, mailVars, TypeInv, TypeOK, Shape
<1>13. CASE Tick
  <2>1. \A limit \in Nat : \A t \in 0 .. limit : Older(t, limit) \in 0 .. limit
    BY DEF Older
  <2>2. age' \in [Articles -> 0 .. StaleAge]  BY <1>0, <1>13, <2>1 DEF Tick
  <2>3. marked' \in [Rows -> 0 .. Window]  BY <1>0, <1>13, <2>1 DEF Tick
  <2>4. ASSUME NEW c \in Cycles
        PROVE  /\ cyc'[c] \in Run /\ cyc'[c].pc = cyc[c].pc
               /\ cyc'[c].left = cyc[c].left
    <3>. DEFINE t == Older(cyc[c].age, Window)
    <3>1. t \in 0 .. Window  BY <1>0, <2>1
    <3>2. cyc'[c] = cyc[c] \/ cyc'[c] = [cyc[c] EXCEPT !.age = t]  BY <1>0, <1>13 DEF Tick
    <3>. HIDE DEF t
    <3>. QED  BY <1>0, <3>1, <3>2
  <2>5. cyc' \in [Cycles -> Run]  BY <1>13, <2>4 DEF Tick
  <2>6. Shape'  BY <2>4 DEF TypeInv, Shape
  <2>. QED  BY <1>0, <1>13, <2>2, <2>3, <2>5, <2>6 DEF Tick, mailVars, TypeInv, TypeOK
<1>14. CASE UNCHANGED vars
  BY <1>14 DEF vars, queueVars, mailVars, TypeInv, TypeOK, Shape
<1>15. ASSUME NEW c \in Cycles, XCycle(c) PROVE TypeInv'
  BY <1>2, <1>3, <1>4, <1>5, <1>7, <1>8, <1>15 DEF XCycle
<1>. QED  BY <1>1, <1>9, <1>10, <1>11, <1>12, <1>13, <1>14, <1>15 DEF Next

\* TypeOK is an invariant.
THEOREM TypeCorrect == Spec => []TypeOK
<1>1. Spec => []TypeInv  BY InitType, StepType, PTL DEF Spec
<1>2. TypeInv => TypeOK  BY DEF TypeInv
<1>. QED  BY <1>1, <1>2, PTL

-----------------------------------------------------------------------------
(* The budget of a run: what it has spent and what its chain still needs.  *)

FitsRun(r) == r.already + r.posted + Cardinality(r.left) <= MaxPerDay

LEMMA FitsIsChainFits == ChainFits <=> \A c \in Cycles : Running(c) => FitsRun(cyc[c])
  BY DEF ChainFits, FitsRun, Spent

\* A step that replaces the run in one slot by a run that fits keeps ChainFits.
LEMMA OneRunFits ==
  ASSUME TypeInv, ChainFits, NEW c \in Cycles, NEW r, cyc' = [cyc EXCEPT ![c] = r],
         r.pc # "idle" => FitsRun(r)
  PROVE  ChainFits'
<1>1. ASSUME NEW d \in Cycles, cyc'[d].pc # "idle"
      PROVE  cyc'[d].already + cyc'[d].posted + Cardinality(cyc'[d].left) <= MaxPerDay
  <2>1. CASE d = c
    <3>1. cyc'[d] = r  BY <2>1 DEF TypeInv, TypeOK
    <3>. QED  BY <1>1, <3>1 DEF FitsRun
  <2>2. CASE d # c
    <3>1. cyc'[d] = cyc[d]  BY <2>2 DEF TypeInv, TypeOK
    <3>. QED  BY <1>1, <3>1 DEF ChainFits, Running, Spent
  <2>. QED  BY <2>1, <2>2
<1>. QED  BY <1>1 DEF ChainFits, Running, Spent

\* A chain that ends has left, or has just used, what it had reserved.
LEMMA EndChainFits ==
  ASSUME TypeInv, ChainFits, NEW c \in Cycles, Running(c), NEW posted \in Nat, NEW ids,
         EndChain(c, posted, ids), posted <= cyc[c].posted + Cardinality(cyc[c].left)
  PROVE  ChainFits'
<1>. DEFINE r == [cyc[c] EXCEPT !.pc = "next", !.left = {}, !.done = {}, !.posted = posted]
<1>1. cyc[c] \in Run  BY DEF TypeInv, TypeOK, Run
<1>2. cyc' = [cyc EXCEPT ![c] = r]  BY DEF EndChain, TypeInv, TypeOK
<1>3. r.already = cyc[c].already /\ r.posted = posted /\ r.left = {}  BY <1>1 DEF Run
<1>4. IsFiniteSet(cyc[c].left)  BY <1>1, PostsFinite, FS_Subset DEF Run
<1>5. Cardinality(cyc[c].left) \in Nat /\ Cardinality({}) = 0
  BY <1>4, FS_CardinalityType, FS_EmptySet
<1>6. cyc[c].already + cyc[c].posted + Cardinality(cyc[c].left) <= MaxPerDay
  BY DEF ChainFits, Spent
<1>7. FitsRun(r)
  <2>. HIDE DEF r
  <2>1. cyc[c].already \in Nat /\ cyc[c].posted \in Nat  BY <1>1 DEF Run
  <2>. QED  BY <1>3, <1>5, <1>6, <2>1, NumbersAssumption DEF FitsRun
<1>. HIDE DEF r
<1>. QED  BY <1>2, <1>7, OneRunFits

LEMMA StepFits == TypeInv /\ ChainFits /\ [Next]_vars => ChainFits'
<1>. SUFFICES ASSUME TypeInv, ChainFits, [Next]_vars PROVE ChainFits'  OBVIOUS
<1>0. /\ cyc \in [Cycles -> Run]
      /\ \A c \in Cycles : IsFiniteSet(cyc[c].left) /\ Cardinality(cyc[c].left) \in Nat
      /\ Cardinality({}) = 0
  <2>1. cyc \in [Cycles -> Run]  BY DEF TypeInv, TypeOK, Run
  <2>2. ASSUME NEW c \in Cycles PROVE IsFiniteSet(cyc[c].left)
    BY <2>1, PostsFinite, FS_Subset DEF Run
  <2>. QED  BY <2>1, <2>2, FS_CardinalityType, FS_EmptySet
<1>1. ASSUME NEW c \in Cycles, Start(c) PROVE ChainFits'
  <2>. DEFINE n == CountSince
              r == [Idle EXCEPT !.pc = "next", !.todo = FreshArticles,
                      !.rows = UNION {Pending(a) : a \in FreshArticles}, !.already = n]
  <2>1. cyc' = [cyc EXCEPT ![c] = r]  BY <1>1 DEF Start
  <2>2. n \in Nat /\ n < MaxPerDay  BY <1>1, CountIsNat DEF Start
  <2>. HIDE DEF n
  <2>3. r.already = n /\ r.posted = 0 /\ r.left = {}  BY DEF Idle
  <2>. HIDE DEF r
  <2>4. FitsRun(r)  BY <1>0, <2>2, <2>3, NumbersAssumption DEF FitsRun
  <2>. QED  BY <2>1, <2>4, OneRunFits
<1>2. ASSUME NEW c \in Cycles, BeginChain(c) PROVE ChainFits'
  <2>0. Running(c) /\ cyc[c].left = {}  BY <1>2 DEF BeginChain, Running, TypeInv, Shape
  <2>1. CASE cyc' = [cyc EXCEPT ![c] = Idle]  BY <2>1, IdleType, OneRunFits
  <2>2. ASSUME NEW a \in Articles, Fits(c, a),
               cyc' = [cyc EXCEPT ![c].pc = "send", ![c].todo = @ \ {a},
                                  ![c].left = Planned(c, a)]
        PROVE  ChainFits'
    <3>. DEFINE P == Planned(c, a)
                r == [cyc[c] EXCEPT !.pc = "send", !.todo = cyc[c].todo \ {a}, !.left = P]
    <3>1. cyc' = [cyc EXCEPT ![c] = r]  BY <1>0, <2>2
    <3>2. cyc[c].already + cyc[c].posted + Cardinality(P) <= MaxPerDay
      BY <2>2 DEF Fits, Spent
    <3>. HIDE DEF P
    <3>3. r.already = cyc[c].already /\ r.posted = cyc[c].posted /\ r.left = P
      BY <1>0 DEF Run
    <3>. HIDE DEF r
    <3>4. FitsRun(r)  BY <3>2, <3>3 DEF FitsRun
    <3>. QED  BY <3>1, <3>4, OneRunFits
  <2>3. ASSUME NEW a \in Articles, cyc' = [cyc EXCEPT ![c].todo = @ \ {a}]
        PROVE  ChainFits'
    <3>. DEFINE r == [cyc[c] EXCEPT !.todo = cyc[c].todo \ {a}]
    <3>1. cyc' = [cyc EXCEPT ![c] = r]  BY <1>0, <2>3
    <3>2. r.already = cyc[c].already /\ r.posted = cyc[c].posted /\ r.left = cyc[c].left
      BY <1>0 DEF Run
    <3>. HIDE DEF r
    <3>3. FitsRun(r)  BY <2>0, <3>2, FitsIsChainFits DEF FitsRun
    <3>. QED  BY <3>1, <3>3, OneRunFits
  <2>. QED  BY <1>2, <2>1, <2>2, <2>3 DEF BeginChain
<1>3. ASSUME NEW c \in Cycles, Publish(c) PROVE ChainFits'
  <2>. DEFINE r == [cyc[c] EXCEPT !.pc = "answer"]
  <2>1. cyc' = [cyc EXCEPT ![c] = r] /\ Running(c)  BY <1>0, <1>3 DEF Publish, Running
  <2>2. r.already = cyc[c].already /\ r.posted = cyc[c].posted /\ r.left = cyc[c].left
    BY <1>0 DEF Run
  <2>. HIDE DEF r
  <2>3. FitsRun(r)  BY <2>1, <2>2, FitsIsChainFits DEF FitsRun
  <2>. QED  BY <2>1, <2>3, OneRunFits
<1>4. ASSUME NEW c \in Cycles, Answered(c) PROVE ChainFits'
  <2>1. PICK k \in Posts : /\ IsStep(c, k)
                           /\ IF cyc[c].left = {k}
                              THEN EndChain(c, cyc[c].posted + 1, cyc[c].done \cup {RowOf(k)})
                              ELSE cyc' = [cyc EXCEPT ![c].pc = "send", ![c].left = @ \ {k},
                                              ![c].done = @ \cup {RowOf(k)}, ![c].posted = @ + 1]
    BY <1>4 DEF Answered
  <2>2. Running(c)  BY <1>4 DEF Answered, Running
  <2>3. cyc[c].posted \in Nat /\ cyc[c].already \in Nat  BY <1>0 DEF Run
  <2>4. CASE cyc[c].left = {k}
    <3>1. Cardinality(cyc[c].left) = 1  BY <2>4, FS_Singleton
    <3>2. cyc[c].posted + 1 \in Nat /\ cyc[c].posted + 1 <= cyc[c].posted + Cardinality(cyc[c].left)
      BY <2>3, <3>1
    <3>. QED  BY <2>1, <2>2, <2>4, <3>2, EndChainFits
  <2>5. CASE cyc[c].left # {k}
    <3>. DEFINE left == cyc[c].left \ {k}
                n == cyc[c].posted + 1
                r == [cyc[c] EXCEPT !.pc = "send", !.left = left,
                        !.done = cyc[c].done \cup {RowOf(k)}, !.posted = n]
    <3>1. cyc' = [cyc EXCEPT ![c] = r]  BY <1>0, <2>1, <2>5
    <3>2. Cardinality(left) = Cardinality(cyc[c].left) - 1
      BY <1>0, <2>1, FS_RemoveElement DEF IsStep
    <3>3. cyc[c].already + cyc[c].posted + Cardinality(cyc[c].left) <= MaxPerDay
      BY <2>2 DEF ChainFits, Spent
    <3>4. n = cyc[c].posted + 1  OBVIOUS
    <3>. HIDE DEF left, n
    <3>5. r.already = cyc[c].already /\ r.posted = n /\ r.left = left  BY <1>0 DEF Run
    <3>. HIDE DEF r
    <3>6. FitsRun(r)  BY <1>0, <2>3, <3>2, <3>3, <3>4, <3>5, NumbersAssumption DEF FitsRun
    <3>. QED  BY <3>1, <3>6, OneRunFits
  <2>. QED  BY <2>4, <2>5
<1>5. ASSUME NEW c \in Cycles, Unrecorded(c) PROVE ChainFits'
  <2>1. PICK k \in Posts : cyc[c].left = {k}  BY <1>5 DEF Unrecorded
  <2>2. Cardinality(cyc[c].left) = 1  BY <2>1, FS_Singleton
  <2>3. cyc[c].posted + 1 \in Nat /\ cyc[c].posted + 1 <= cyc[c].posted + Cardinality(cyc[c].left)
    BY <1>0, <2>2 DEF Run
  <2>. QED  BY <1>5, <2>3, EndChainFits DEF Unrecorded, Running
<1>6. ASSUME NEW c \in Cycles, PostFails(c) \/ PostFailsUnrecorded(c) PROVE ChainFits'
  <2>1. cyc[c].posted \in Nat /\ cyc[c].posted <= cyc[c].posted + Cardinality(cyc[c].left)
    BY <1>0 DEF Run
  <2>2. Running(c)  BY <1>6 DEF PostFails, PostFailsUnrecorded, Running
  <2>3. \E ids : EndChain(c, cyc[c].posted, ids)  BY <1>6 DEF PostFails, PostFailsUnrecorded
  <2>. QED  BY <2>1, <2>2, <2>3, EndChainFits
<1>7. CASE Crash
  BY <1>7, IdleType DEF Crash, ChainFits, Running
<1>8. CASE Tick
  <2>1. ASSUME NEW c \in Cycles
        PROVE  /\ cyc'[c].pc = cyc[c].pc /\ cyc'[c].left = cyc[c].left
               /\ cyc'[c].already = cyc[c].already /\ cyc'[c].posted = cyc[c].posted
    BY <1>0, <1>8 DEF Tick, Run
  <2>. QED  BY <2>1 DEF ChainFits, Running, Spent
<1>9. CASE UNCHANGED cyc
  BY <1>9 DEF ChainFits, Running, Spent
<1>10. ASSUME NEW c \in Cycles, XCycle(c) PROVE ChainFits'
  BY <1>1, <1>2, <1>3, <1>4, <1>5, <1>6, <1>10 DEF XCycle
<1>. QED
  BY <1>7, <1>8, <1>9, <1>10 DEF Next, vars, Enqueue, DigestBegin, DigestEnd, Sweep

\* While a chain is going out its remaining posts fit the budget.
THEOREM ChainFitsHolds == Spec => []ChainFits
<1>1. Init => ChainFits  BY IdleType DEF Init, ChainFits, Running
<1>. QED  BY <1>1, InitType, StepType, StepFits, PTL DEF Spec

-----------------------------------------------------------------------------
(* What is on X and what the queue says of it.  Runs that may still publish *)
(* a post count as having published it (Counted); and a post of a thread    *)
(* that no run holds and no row records was published but for disturbances  *)
(* (Unsent), which is what a new run relies on, that reads the rows only.   *)
(* A run half way through a thread accounts for one more of the parts it    *)
(* has passed (Prefix).                                                     *)

\* The posts of a from the j-th on, which are what is left of a chain.
Chain(a, j) == {a} \X (j .. Len(Plan[a]))

\* The run will publish k, unless it ends before.
MayPublish(run, k) ==
  \/ k[1] \in run.todo /\ RowsOf(k[1]) \subseteq run.rows
  \/ k \in run.left /\ (run.pc = "send" \/ \E l \in run.left : l[2] < k[2])

\* The run has a on its list, or a chain of it going out.
Holds(run, a) ==
  \/ a \in run.todo /\ RowsOf(a) \subseteq run.rows
  \/ \E k \in run.left : k[1] = a

\* The run has published the post before k = <<a, i>> and not k.
Between(run, a, i) ==
  \/ run.pc = "send" /\ run.left = Chain(a, i)
  \/ run.pc = "answer" /\ run.left = Chain(a, i - 1)

Publishers(k) == {c \in Cycles : MayPublish(cyc[c], k)}
Holders(a)    == {c \in Cycles : Holds(cyc[c], a)}
Halfway(a, i) == {c \in Cycles : Between(cyc[c], a, i)}
Retired(a)    == \E r \in RowsOf(a) : status[r] \notin {"none", "pending"}

\* What is left of a chain is its end, and what is done the rows before that.
ChainShape(run) ==
  /\ run.pc = "idle" => run.todo = {}
  /\ IF run.left = {} THEN run.done = {}
     ELSE \E a \in Articles \ run.todo : \E j \in DOMAIN Plan[a] :
            /\ run.left = Chain(a, j) /\ RowsOf(a) \subseteq run.rows
            /\ run.done = {RowOf(<<a, i>>) : i \in 1 .. j - 1}

Shapes == \A c \in Cycles : ChainShape(cyc[c])

Known ==
  /\ \A a \in Articles : rank[a] = 0 => \A r \in RowsOf(a) : status[r] = "none"
  /\ \A c \in Cycles : \A r \in cyc[c].rows : status[r] # "none"

SentOf(run) ==
  \A a \in Articles : \A j \in DOMAIN Plan[a] : run.left = Chain(a, j) =>
     \A i \in 1 .. j : i < j \/ run.pc = "answer" => sent[<<a, i>>] > 0
AllSent == \A c \in Cycles : SentOf(cyc[c])

Prefix ==
  \A a \in Articles : \A i \in DOMAIN Plan[a] \ {1} :
    sent[<<a, i>>] + Cardinality(Halfway(a, i)) <= sent[<<a, i - 1>>]

Counted ==
  \A k \in Posts : sent[k] + Cardinality(Publishers(k)) <= 1 + faults + overlaps

Unsent ==
  \A k \in Posts : ~Retired(k[1]) /\ Holders(k[1]) = {} => sent[k] <= faults + overlaps

ThreadsInv == Shapes /\ Known /\ AllSent /\ Prefix /\ MarkedWasSent /\ Counted /\ Unsent

-----------------------------------------------------------------------------
(* Chains.                                                                 *)

LEMMA ChainIs ==
  ASSUME NEW a \in Articles
  PROVE  /\ Len(Plan[a]) \in Nat /\ DOMAIN Plan[a] = 1 .. Len(Plan[a])
         /\ \A j \in DOMAIN Plan[a] :
              /\ Chain(a, j) \subseteq Posts /\ <<a, j>> \in Chain(a, j)
              /\ Chain(a, j) \ {<<a, j>>} = Chain(a, j + 1)
              /\ \A k \in Chain(a, j) : k[1] = a /\ k[2] \in j .. Len(Plan[a])
  BY PlanAssumption DEF Chain, Posts

LEMMA ChainsDiffer ==
  ASSUME NEW a \in Articles, NEW i \in DOMAIN Plan[a],
         NEW b \in Articles, NEW j \in DOMAIN Plan[b], Chain(a, i) = Chain(b, j)
  PROVE  a = b /\ i = j
<1>1. <<a, i>> \in Chain(b, j) /\ <<b, j>> \in Chain(a, i)  BY ChainIs
<1>2. a = b /\ i \in j .. Len(Plan[b]) /\ j \in i .. Len(Plan[a])
  BY <1>1 DEF Chain
<1>3. Len(Plan[a]) \in Nat /\ i \in 1 .. Len(Plan[a]) /\ j \in 1 .. Len(Plan[a])
  BY <1>2, ChainIs
<1>. QED  BY <1>2, <1>3

LEMMA AtStep ==
  ASSUME Shapes, NEW c \in Cycles, NEW k, IsStep(c, k)
  PROVE  \E a \in Articles \ cyc[c].todo : \E j \in DOMAIN Plan[a] :
           /\ k = <<a, j>> /\ cyc[c].left = Chain(a, j)
           /\ RowsOf(a) \subseteq cyc[c].rows
           /\ cyc[c].done = {RowOf(<<a, i>>) : i \in 1 .. j - 1}
<1>0. PICK a \in Articles \ cyc[c].todo : \E j \in DOMAIN Plan[a] :
        /\ cyc[c].left = Chain(a, j) /\ RowsOf(a) \subseteq cyc[c].rows
        /\ cyc[c].done = {RowOf(<<a, i>>) : i \in 1 .. j - 1}
  BY DEF Shapes, ChainShape, IsStep
<1>1. PICK j \in DOMAIN Plan[a] :
        /\ cyc[c].left = Chain(a, j) /\ RowsOf(a) \subseteq cyc[c].rows
        /\ cyc[c].done = {RowOf(<<a, i>>) : i \in 1 .. j - 1}
  BY <1>0
<1>2. k \in Chain(a, j) /\ k[2] <= j
  <2>1. <<a, j>> \in cyc[c].left /\ <<a, j>>[2] = j  BY <1>1, ChainIs
  <2>. QED  BY <1>1, <2>1 DEF IsStep
<1>3. k = <<a, k[2]>> /\ k[2] \in j .. Len(Plan[a])  BY <1>2 DEF Chain
<1>4. Len(Plan[a]) \in Nat /\ j \in 1 .. Len(Plan[a])  BY ChainIs
<1>5. k[2] = j  BY <1>2, <1>3, <1>4
<1>. QED  BY <1>1, <1>3, <1>5

LEMMA OneStep ==
  ASSUME Shapes, NEW c \in Cycles, NEW k, NEW l, IsStep(c, k), IsStep(c, l)
  PROVE  k = l
<1>1. PICK a \in Articles : \E j \in DOMAIN Plan[a] : k = <<a, j>> /\ cyc[c].left = Chain(a, j)
  BY AtStep
<1>2. PICK b \in Articles : \E j \in DOMAIN Plan[b] : l = <<b, j>> /\ cyc[c].left = Chain(b, j)
  BY AtStep
<1>. QED  BY <1>1, <1>2, ChainsDiffer

LEMMA CyclesFinite ==
  ASSUME NEW S \in SUBSET Cycles PROVE IsFiniteSet(S) /\ Cardinality(S) \in Nat
  BY SetsAssumption, FS_Subset, FS_CardinalityType

\* One run enters or leaves a set of runs.
LEMMA OneMoves ==
  ASSUME NEW S \in SUBSET Cycles, NEW T \in SUBSET Cycles, NEW c, S \ {c} = T \ {c}
  PROVE  /\ c \in S /\ c \notin T => Cardinality(T) = Cardinality(S) - 1
         /\ c \notin S /\ c \in T => Cardinality(T) = Cardinality(S) + 1
         /\ (c \in S <=> c \in T) => T = S
         /\ Cardinality(S) \in Nat /\ Cardinality(T) \in Nat
         /\ c \in S => Cardinality(S) >= 1
<1>1. /\ IsFiniteSet(S) /\ IsFiniteSet(T)
      /\ Cardinality(S) \in Nat /\ Cardinality(T) \in Nat
  BY CyclesFinite
<1>2. Cardinality(S \ {c}) = IF c \in S THEN Cardinality(S) - 1 ELSE Cardinality(S)
  BY <1>1, FS_RemoveElement
<1>3. Cardinality(T \ {c}) = IF c \in T THEN Cardinality(T) - 1 ELSE Cardinality(T)
  BY <1>1, FS_RemoveElement
<1>4. Cardinality(S \ {c}) \in Nat  BY CyclesFinite
<1>5. (c \in S <=> c \in T) => T = S  OBVIOUS
<1>6. Cardinality(S \ {c}) = Cardinality(T \ {c})  OBVIOUS
<1>7. /\ c \in S /\ c \notin T => Cardinality(T) = Cardinality(S) - 1
      /\ c \notin S /\ c \in T => Cardinality(T) = Cardinality(S) + 1
      /\ c \in S => Cardinality(S) >= 1
  BY <1>1, <1>2, <1>3, <1>4, <1>6
<1>. QED  BY <1>1, <1>5, <1>7

One(condition) == IF condition THEN 1 ELSE 0

\* What a step does to the sets of runs when one run moves on.
LEMMA OthersStay ==
  ASSUME TypeInv, NEW c \in Cycles, NEW r, cyc' = [cyc EXCEPT ![c] = r]
  PROVE  \A d \in Cycles : cyc'[d] = IF d = c THEN r ELSE cyc[d]
  BY DEF TypeInv, TypeOK

LEMMA PublishersMove ==
  ASSUME TypeInv, NEW c \in Cycles, NEW r, cyc' = [cyc EXCEPT ![c] = r], NEW k
  PROVE  /\ Cardinality(Publishers(k)) \in Nat /\ Cardinality(Publishers(k)') \in Nat
         /\ Cardinality(Publishers(k)') + One(MayPublish(cyc[c], k))
              = Cardinality(Publishers(k)) + One(MayPublish(r, k))
         /\ MayPublish(cyc[c], k) => Cardinality(Publishers(k)) >= 1
<1>1. PICK S : S = Publishers(k)  OBVIOUS
<1>2. PICK T : T = Publishers(k)'  OBVIOUS
<1>3. \A d \in Cycles : d \in S <=> MayPublish(cyc[d], k)  BY <1>1 DEF Publishers
<1>4. T = {d \in Cycles : MayPublish(cyc'[d], k)}  BY <1>2 DEF Publishers, MayPublish
<1>5. c \in T <=> MayPublish(r, k)  BY <1>4, OthersStay
<1>6. S \ {c} = T \ {c} /\ S \in SUBSET Cycles /\ T \in SUBSET Cycles
  BY <1>1, <1>3, <1>4, OthersStay DEF Publishers
<1>. QED  BY <1>1, <1>2, <1>3, <1>5, <1>6, OneMoves DEF One

LEMMA HalfwayMove ==
  ASSUME TypeInv, NEW c \in Cycles, NEW r, cyc' = [cyc EXCEPT ![c] = r], NEW a, NEW i \in Int
  PROVE  /\ Cardinality(Halfway(a, i)) \in Nat /\ Cardinality(Halfway(a, i)') \in Nat
         /\ Cardinality(Halfway(a, i)') + One(Between(cyc[c], a, i))
              = Cardinality(Halfway(a, i)) + One(Between(r, a, i))
<1>1. PICK S : S = Halfway(a, i)  OBVIOUS
<1>2. PICK T : T = Halfway(a, i)'  OBVIOUS
<1>3. \A d \in Cycles : d \in S <=> Between(cyc[d], a, i)  BY <1>1 DEF Halfway
<1>4. T = {d \in Cycles : Between(cyc'[d], a, i)}  BY <1>2 DEF Halfway, Between
<1>5. c \in T <=> Between(r, a, i)  BY <1>4, OthersStay
<1>6. S \ {c} = T \ {c} /\ S \in SUBSET Cycles /\ T \in SUBSET Cycles
  BY <1>1, <1>3, <1>4, OthersStay DEF Halfway
<1>. QED  BY <1>1, <1>2, <1>3, <1>5, <1>6, OneMoves DEF One

LEMMA HoldersMove ==
  ASSUME TypeInv, NEW c \in Cycles, NEW r, cyc' = [cyc EXCEPT ![c] = r], NEW a,
         Holders(a)' = {}
  PROVE  ~Holds(r, a) /\ (Holds(cyc[c], a) \/ Holders(a) = {})
<1>1. \A d \in Cycles : ~Holds(cyc'[d], a)  BY DEF Holders, Holds
<1>2. cyc'[c] = r /\ \A d \in Cycles \ {c} : cyc'[d] = cyc[d]
  BY DEF TypeInv, TypeOK
<1>3. ~Holds(r, a)  BY <1>1, <1>2
<1>4. \A d \in Cycles \ {c} : ~Holds(cyc[d], a)  BY <1>1, <1>2
<1>. QED  BY <1>3, <1>4 DEF Holders

LEMMA CountedMove ==
  ASSUME TypeInv, TypeInv', Counted, NEW c \in Cycles, NEW r, cyc' = [cyc EXCEPT ![c] = r],
         \A k \in Posts :
           sent'[k] + One(MayPublish(r, k)) + faults + overlaps
             <= sent[k] + One(MayPublish(cyc[c], k)) + faults' + overlaps'
  PROVE  Counted'
<1>1. ASSUME NEW k \in Posts
      PROVE  sent'[k] + Cardinality(Publishers(k)') <= 1 + faults' + overlaps'
  <2>1. /\ sent[k] \in Nat /\ sent'[k] \in Nat /\ faults \in Nat /\ overlaps \in Nat
        /\ faults' \in Nat /\ overlaps' \in Nat
    BY DEF TypeInv, TypeOK
  <2>2. sent[k] + Cardinality(Publishers(k)) <= 1 + faults + overlaps  BY DEF Counted
  <2>3. /\ Cardinality(Publishers(k)) \in Nat /\ Cardinality(Publishers(k)') \in Nat
        /\ Cardinality(Publishers(k)') + One(MayPublish(cyc[c], k))
             = Cardinality(Publishers(k)) + One(MayPublish(r, k))
    BY PublishersMove
  <2>4. One(MayPublish(cyc[c], k)) \in Nat /\ One(MayPublish(r, k)) \in Nat  BY DEF One
  <2>. QED  BY <2>1, <2>2, <2>3, <2>4
<1>. QED  BY <1>1 DEF Counted

LEMMA ShapesMove ==
  ASSUME TypeInv, Shapes, NEW c \in Cycles, NEW r, cyc' = [cyc EXCEPT ![c] = r], ChainShape(r)
  PROVE  Shapes'
<1>1. \A d \in Cycles : ChainShape(cyc'[d])  BY OthersStay DEF Shapes
<1>. QED  BY <1>1 DEF Shapes, ChainShape

LEMMA KnownMove ==
  ASSUME TypeInv, Known, NEW c \in Cycles, NEW r \in Run, cyc' = [cyc EXCEPT ![c] = r],
         rank' = rank, \A x \in r.rows : status[x] # "none",
         \A x \in Rows : status'[x] = status[x]
                         \/ (status[x] = "pending" /\ status'[x] = "marked_posted")
  PROVE  Known'
<1>1. /\ \A a \in Articles : RowsOf(a) \subseteq Rows
      /\ \A d \in Cycles : cyc[d].rows \subseteq Rows
      /\ r.rows \subseteq Rows
  BY DEF TypeInv, TypeOK, Run, Rows
<1>2. \A a \in Articles : rank[a] = 0 => \A x \in RowsOf(a) : status'[x] = "none"
  BY <1>1 DEF Known
<1>3. cyc'[c] = r /\ \A d \in Cycles \ {c} : cyc'[d] = cyc[d]
  BY DEF TypeInv, TypeOK
<1>4. ASSUME NEW d \in Cycles, NEW x \in cyc'[d].rows PROVE status'[x] # "none"
  <2>1. x \in Rows /\ status[x] # "none"
    <3>1. CASE d = c  BY <1>1, <1>3, <3>1
    <3>2. CASE d # c  BY <1>1, <1>3, <3>2 DEF Known
    <3>. QED  BY <3>1, <3>2
  <2>. QED  BY <2>1
<1>. QED  BY <1>2, <1>4 DEF Known

LEMMA SentMove ==
  ASSUME TypeInv, TypeInv', AllSent, NEW c \in Cycles, NEW r, cyc' = [cyc EXCEPT ![c] = r],
         \A k \in Posts : sent'[k] >= sent[k], SentOf(r)'
  PROVE  AllSent'
<1>0. sent \in [Posts -> Nat] /\ sent' \in [Posts -> Nat]  BY DEF TypeInv, TypeOK
<1>1. cyc'[c] = r /\ \A d \in Cycles \ {c} : cyc'[d] = cyc[d]
  BY DEF TypeInv, TypeOK
<1>2. ASSUME NEW d \in Cycles, NEW a \in Articles, NEW j \in DOMAIN Plan[a],
             cyc'[d].left = Chain(a, j), NEW i \in 1 .. j, i < j \/ cyc'[d].pc = "answer"
      PROVE  sent'[<<a, i>>] > 0
  <2>1. CASE d = c  BY <1>1, <1>2, <2>1 DEF SentOf
  <2>2. CASE d # c
    <3>1. cyc'[d] = cyc[d]  BY <1>1, <2>2
    <3>2. sent[<<a, i>>] > 0  BY <1>2, <3>1 DEF AllSent, SentOf
    <3>3. i \in DOMAIN Plan[a]  BY ChainIs
    <3>4. <<a, i>> \in Posts  BY <3>3, ChainIs
    <3>. QED  BY <1>0, <3>2, <3>4
  <2>. QED  BY <2>1, <2>2
<1>. QED  BY <1>2 DEF AllSent, SentOf

LEMMA PrefixAt ==
  ASSUME TypeInv, TypeInv', Prefix, NEW c \in Cycles, NEW r, cyc' = [cyc EXCEPT ![c] = r],
         NEW a \in Articles, NEW i \in DOMAIN Plan[a] \ {1}
  PROVE  sent'[<<a, i>>] + One(Between(r, a, i)) + sent[<<a, i - 1>>]
           <= sent'[<<a, i - 1>>] + sent[<<a, i>>] + One(Between(cyc[c], a, i))
         => sent'[<<a, i>>] + Cardinality(Halfway(a, i)') <= sent'[<<a, i - 1>>]
<1>1. i \in Int /\ i - 1 \in DOMAIN Plan[a]  BY ChainIs
<1>2. <<a, i>> \in Posts /\ <<a, i - 1>> \in Posts  BY <1>1, ChainIs
<1>3. /\ sent[<<a, i>>] \in Nat /\ sent[<<a, i - 1>>] \in Nat
      /\ sent'[<<a, i>>] \in Nat /\ sent'[<<a, i - 1>>] \in Nat
  BY <1>2 DEF TypeInv, TypeOK
<1>4. /\ Cardinality(Halfway(a, i)) \in Nat /\ Cardinality(Halfway(a, i)') \in Nat
      /\ Cardinality(Halfway(a, i)') + One(Between(cyc[c], a, i))
           = Cardinality(Halfway(a, i)) + One(Between(r, a, i))
  BY <1>1, HalfwayMove
<1>5. sent[<<a, i>>] + Cardinality(Halfway(a, i)) <= sent[<<a, i - 1>>]  BY DEF Prefix
<1>6. One(Between(cyc[c], a, i)) \in Nat /\ One(Between(r, a, i)) \in Nat  BY DEF One
<1>. QED  BY <1>3, <1>4, <1>5, <1>6

LEMMA PrefixMove ==
  ASSUME TypeInv, TypeInv', Prefix, NEW c \in Cycles, NEW r, cyc' = [cyc EXCEPT ![c] = r],
         \A a \in Articles : \A i \in DOMAIN Plan[a] \ {1} :
           sent'[<<a, i>>] + One(Between(r, a, i)) + sent[<<a, i - 1>>]
             <= sent'[<<a, i - 1>>] + sent[<<a, i>>] + One(Between(cyc[c], a, i))
  PROVE  Prefix'
<1>1. \A a \in Articles : \A i \in DOMAIN Plan[a] \ {1} :
        sent'[<<a, i>>] + Cardinality(Halfway(a, i)') <= sent'[<<a, i - 1>>]
  BY PrefixAt
<1>. QED  BY <1>1 DEF Prefix

LEMMA MarkedMove ==
  ASSUME TypeInv, TypeInv', MarkedWasSent, \A k \in Posts : sent'[k] >= sent[k],
         \A x \in Rows : \/ status'[x] = status[x]
                         \/ /\ status[x] = "pending" /\ status'[x] = "marked_posted"
                            /\ \E k \in Posts : RowOf(k) = x /\ sent[k] > 0
  PROVE  MarkedWasSent'
<1>1. ASSUME NEW x \in Rows, status'[x] = "marked_posted"
      PROVE  \E k \in Posts : RowOf(k) = x /\ sent'[k] > 0
  <2>1. PICK k \in Posts : RowOf(k) = x /\ sent[k] > 0  BY <1>1 DEF MarkedWasSent
  <2>2. sent[k] \in Nat /\ sent'[k] \in Nat  BY DEF TypeInv, TypeOK
  <2>. QED  BY <2>1, <2>2
<1>. QED  BY <1>1 DEF MarkedWasSent

\* The count of disturbances only grows.
LEMMA Later ==
  ASSUME NEW s \in Nat, NEW f \in Nat, NEW o \in Nat, NEW f1 \in Nat, NEW o1 \in Nat,
         f1 + o1 >= f + o
  PROVE  /\ s <= f + o => s <= f1 + o1
         /\ s <= 1 + f + o /\ f1 + o1 > f + o => s <= f1 + o1
  OBVIOUS

LEMMA UnsentMove ==
  ASSUME TypeInv, TypeInv', Counted, Unsent, NEW c \in Cycles, NEW r,
         cyc' = [cyc EXCEPT ![c] = r], faults' + overlaps' >= faults + overlaps,
         \A x \in Rows : status[x] \notin {"none", "pending"} => status'[x] = status[x],
         \A k \in Posts :
           \/ Holds(r, k[1]) \/ Retired(k[1])'
           \/ /\ sent'[k] = sent[k]
              /\ \/ faults' + overlaps' > faults + overlaps
                 \/ ~Holds(cyc[c], k[1]) \/ MayPublish(cyc[c], k)
  PROVE  Unsent'
<1>1. ASSUME NEW k \in Posts, ~Retired(k[1])', Holders(k[1])' = {}
      PROVE  sent'[k] <= faults' + overlaps'
  <2>0. /\ sent[k] \in Nat /\ faults \in Nat /\ overlaps \in Nat
        /\ faults' \in Nat /\ overlaps' \in Nat
    BY DEF TypeInv, TypeOK
  <2>1. ~Holds(r, k[1]) /\ (Holds(cyc[c], k[1]) \/ Holders(k[1]) = {})
    BY <1>1, HoldersMove
  <2>2. /\ sent'[k] = sent[k]
        /\ \/ faults' + overlaps' > faults + overlaps
           \/ ~Holds(cyc[c], k[1]) \/ MayPublish(cyc[c], k)
    BY <1>1, <2>1
  <2>3. sent[k] + Cardinality(Publishers(k)) <= 1 + faults + overlaps  BY DEF Counted
  <2>4. /\ Cardinality(Publishers(k)) \in Nat
        /\ MayPublish(cyc[c], k) => Cardinality(Publishers(k)) >= 1
    BY PublishersMove
  <2>5. CASE faults' + overlaps' > faults + overlaps
    <3>1. sent[k] <= 1 + faults + overlaps  BY <2>0, <2>3, <2>4
    <3>2. sent[k] <= faults' + overlaps'  BY <2>0, <2>5, <3>1, Later
    <3>. QED  BY <2>2, <3>2
  <2>6. CASE ~Holds(cyc[c], k[1])
    <3>1. \A x \in RowsOf(k[1]) : x \in Rows  BY PostIsOfArticle DEF Rows
    <3>2. ~Retired(k[1])  BY <1>1, <3>1 DEF Retired
    <3>3. sent[k] <= faults + overlaps  BY <2>1, <2>6, <3>2 DEF Unsent
    <3>4. sent[k] <= faults' + overlaps'  BY <2>0, <3>3, Later
    <3>. QED  BY <2>2, <3>4
  <2>7. CASE MayPublish(cyc[c], k)
    <3>1. sent[k] <= faults + overlaps  BY <2>0, <2>3, <2>4, <2>7
    <3>2. sent[k] <= faults' + overlaps'  BY <2>0, <3>1, Later
    <3>. QED  BY <2>2, <3>2
  <2>. QED  BY <2>2, <2>5, <2>6, <2>7
<1>. QED  BY <1>1 DEF Unsent

\* A run moves on, and rows are marked of which something is on X.
LEMMA MoveKept ==
  ASSUME TypeInv, TypeInv', ThreadsInv, NEW c \in Cycles, NEW r \in Run,
         cyc' = [cyc EXCEPT ![c] = r], rank' = rank,
         ChainShape(r), \A x \in r.rows : status[x] # "none",
         \A x \in Rows : \/ status'[x] = status[x]
                         \/ /\ status[x] = "pending" /\ status'[x] = "marked_posted"
                            /\ \E k \in Posts : RowOf(k) = x /\ sent[k] > 0,
         \A k \in Posts : sent'[k] >= sent[k],
         SentOf(r)',
         \A a \in Articles : \A i \in DOMAIN Plan[a] \ {1} :
           sent'[<<a, i>>] + One(Between(r, a, i)) + sent[<<a, i - 1>>]
             <= sent'[<<a, i - 1>>] + sent[<<a, i>>] + One(Between(cyc[c], a, i)),
         Counted', faults' + overlaps' >= faults + overlaps,
         \A k \in Posts :
           \/ Holds(r, k[1]) \/ Retired(k[1])'
           \/ /\ sent'[k] = sent[k]
              /\ \/ faults' + overlaps' > faults + overlaps
                 \/ ~Holds(cyc[c], k[1]) \/ MayPublish(cyc[c], k)
  PROVE  ThreadsInv'
<1>0. Shapes /\ Known /\ AllSent /\ Prefix /\ MarkedWasSent /\ Counted /\ Unsent
  BY DEF ThreadsInv
<1>1. Shapes'  BY <1>0, ShapesMove
<1>2. Known'  BY <1>0, KnownMove
<1>3. AllSent'  BY <1>0, SentMove
<1>4. Prefix'  BY <1>0, PrefixMove
<1>5. MarkedWasSent'  BY <1>0, MarkedMove
<1>6. \A x \in Rows : status[x] \notin {"none", "pending"} => status'[x] = status[x]
  OBVIOUS
<1>7. Unsent'  BY <1>0, <1>6, UnsentMove
<1>. QED  BY <1>1, <1>2, <1>3, <1>4, <1>5, <1>7 DEF ThreadsInv

\* The runs go on as before; rows leave the queue, or enter it.
LEMMA QueueKept ==
  ASSUME TypeInv, TypeInv', ThreadsInv,
         \A d \in Cycles : /\ cyc'[d].pc = cyc[d].pc /\ cyc'[d].todo = cyc[d].todo
                           /\ cyc'[d].rows = cyc[d].rows /\ cyc'[d].left = cyc[d].left
                           /\ cyc'[d].done = cyc[d].done,
         UNCHANGED <<sent, overlaps>>, faults' >= faults, Known',
         \A x \in Rows : /\ status'[x] = "marked_posted" => status[x] = "marked_posted"
                         /\ status[x] \notin {"none", "pending"}
                              => status'[x] \notin {"none", "pending"}
  PROVE  ThreadsInv'
<1>. USE DEF ThreadsInv
<1>1. Shapes' /\ AllSent'  BY DEF Shapes, ChainShape, AllSent, SentOf
<1>2. \A k : Publishers(k)' = Publishers(k)  BY DEF Publishers, MayPublish
<1>3. \A a : Holders(a)' = Holders(a)  BY DEF Holders, Holds
<1>4. \A a, i : Halfway(a, i)' = Halfway(a, i)  BY DEF Halfway, Between
<1>0. /\ \A k \in Posts : sent[k] \in Nat
      /\ faults \in Nat /\ faults' \in Nat /\ overlaps \in Nat
  BY DEF TypeInv, TypeOK
<1>5. Prefix'  BY <1>4 DEF Prefix
<1>8. Counted'
  <2>1. \A k \in Posts : Cardinality(Publishers(k)) \in Nat  BY CyclesFinite DEF Publishers
  <2>. QED  BY <1>0, <1>2, <2>1 DEF Counted
<1>6. MarkedWasSent'  BY DEF MarkedWasSent
<1>7. Unsent'
  <2>1. \A k \in Posts : Retired(k[1]) => Retired(k[1])'
    BY PostIsOfArticle DEF Retired, Rows
  <2>. QED  BY <1>0, <1>3, <2>1 DEF Unsent
<1>. QED  BY <1>1, <1>5, <1>6, <1>7, <1>8

-----------------------------------------------------------------------------
(* The steps of a run.                                                     *)

LEMMA RunIs ==
  ASSUME TypeInv, NEW c \in Cycles
  PROVE  /\ cyc[c] \in Run /\ cyc \in [Cycles -> Run]
         /\ cyc[c].pc \in {"send", "answer"} <=> cyc[c].left # {}
  BY DEF TypeInv, TypeOK, Run, Shape

\* A run between two chains.
LEMMA NoChain ==
  ASSUME NEW run, run.left = {}, run.pc \notin {"send", "answer"}
  PROVE  /\ \A a \in Articles : \A j \in DOMAIN Plan[a] : run.left # Chain(a, j)
         /\ \A a, i : ~Between(run, a, i)
         /\ \A k : MayPublish(run, k) <=> k[1] \in run.todo /\ RowsOf(k[1]) \subseteq run.rows
         /\ \A a : Holds(run, a) <=> a \in run.todo /\ RowsOf(a) \subseteq run.rows
<1>1. \A a \in Articles : \A j \in DOMAIN Plan[a] : Chain(a, j) # {}  BY ChainIs
<1>. QED  BY <1>1 DEF Between, MayPublish, Holds

LEMMA StartKept ==
  ASSUME TypeInv, TypeInv', ThreadsInv, NEW c \in Cycles, Start(c)
  PROVE  ThreadsInv'
<1>. DEFINE todo == FreshArticles
            listed == UNION {Pending(a) : a \in FreshArticles}
            n == CountSince
<1>1. FreshArticles \subseteq Articles  BY DEF FreshArticles, Newest
<1>2. \A x \in listed : status[x] = "pending"  BY DEF Pending
<1>3. PICK r : /\ r = [Idle EXCEPT !.pc = "next", !.todo = todo, !.rows = listed,
                                  !.already = n]
               /\ cyc' = [cyc EXCEPT ![c] = r]
  BY DEF Start
<1>4. todo \subseteq Articles /\ listed \subseteq Rows /\ n \in Nat
  BY <1>1, PendingRows, CountIsNat
<1>. HIDE DEF todo, listed, n
<1>5. /\ r \in Run /\ r.pc = "next" /\ r.left = {} /\ r.done = {}
      /\ r.todo = todo /\ r.rows = listed
  BY <1>3, <1>4, IdleType DEF Run, Idle
<1>6. cyc[c].pc = "idle" /\ cyc[c].left = {} /\ cyc[c].todo = {}
  BY RunIs DEF Start, Running, ThreadsInv, Shapes, ChainShape
<1>7. /\ \A a, i : ~Between(cyc[c], a, i) /\ ~Between(r, a, i)
      /\ \A k : ~MayPublish(cyc[c], k) /\ ~Holds(cyc[c], k[1])
      /\ \A a \in Articles : \A j \in DOMAIN Plan[a] : r.left # Chain(a, j)
      /\ \A k : MayPublish(r, k) <=> k[1] \in todo /\ RowsOf(k[1]) \subseteq listed
  BY <1>5, <1>6, NoChain
<1>8. ChainShape(r)  BY <1>5 DEF ChainShape
<1>9. SentOf(r)'  BY <1>7 DEF SentOf
<1>10. /\ rank' = rank /\ status' = status /\ sent' = sent /\ faults' = faults
       /\ overlaps' = overlaps
          \/ (overlaps' = overlaps + 1 /\ \E d \in Cycles : Running(d))
       /\ (\E d \in Cycles : Running(d)) => overlaps' = overlaps + 1
  BY DEF Start, queueVars
<1>11. /\ sent \in [Posts -> Nat] /\ faults \in Nat /\ overlaps \in Nat
  BY DEF TypeInv, TypeOK
<1>12. Counted'
  <2>1. CASE overlaps' = overlaps + 1
    <3>1. \A k \in Posts : sent'[k] + One(MayPublish(r, k)) + faults + overlaps
             <= sent[k] + One(MayPublish(cyc[c], k)) + faults' + overlaps'
      <4>. TAKE k \in Posts
      <4>1. One(MayPublish(r, k)) \in {0, 1} /\ One(MayPublish(cyc[c], k)) = 0
        BY <1>7 DEF One
      <4>2. sent[k] \in Nat  BY <1>11
      <4>. QED  BY <1>10, <1>11, <2>1, <4>1, <4>2
    <3>. QED  BY <1>3, <3>1, CountedMove DEF ThreadsInv
  <2>2. CASE overlaps' = overlaps
    <3>1. \A d \in Cycles : cyc[d].pc = "idle" /\ cyc[d].left = {} /\ cyc[d].todo = {}
      <4>1. \A d \in Cycles : ~Running(d)  BY <1>10, <1>11, <2>2
      <4>. QED  BY <4>1, RunIs DEF Running, ThreadsInv, Shapes, ChainShape
    <3>2. ASSUME NEW k \in Posts
          PROVE  sent'[k] + Cardinality(Publishers(k)') <= 1 + faults' + overlaps'
      <4>1. /\ Cardinality(Publishers(k)') + One(MayPublish(cyc[c], k))
                 = Cardinality(Publishers(k)) + One(MayPublish(r, k))
            /\ Cardinality(Publishers(k)') \in Nat
        BY <1>3, PublishersMove
      <4>2. Publishers(k) = {} /\ Holders(k[1]) = {}
        BY <3>1 DEF Publishers, MayPublish, Holders, Holds
      <4>3. Cardinality(Publishers(k)) = 0  BY <4>2, FS_EmptySet
      <4>4. One(MayPublish(cyc[c], k)) = 0  BY <1>7 DEF One
      <4>5. sent[k] + Cardinality(Publishers(k)) <= 1 + faults + overlaps
        BY DEF ThreadsInv, Counted
      <4>6. sent[k] \in Nat  BY <1>11
      <4>7. CASE ~MayPublish(r, k)
        <5>1. One(MayPublish(r, k)) = 0  BY <4>7 DEF One
        <5>. QED  BY <1>10, <1>11, <2>2, <4>1, <4>3, <4>4, <4>5, <4>6, <5>1
      <4>8. CASE MayPublish(r, k)
        <5>1. One(MayPublish(r, k)) = 1  BY <4>8 DEF One
        <5>2. ~Retired(k[1])  BY <1>2, <1>7, <4>8 DEF Retired
        <5>3. sent[k] <= faults + overlaps  BY <4>2, <5>2 DEF ThreadsInv, Unsent
        <5>. QED  BY <1>10, <1>11, <2>2, <4>1, <4>3, <4>4, <4>6, <5>1, <5>3
      <4>. QED  BY <4>7, <4>8
    <3>. QED  BY <3>2 DEF Counted
  <2>. QED  BY <1>10, <2>1, <2>2
<1>13. \A a \in Articles : \A i \in DOMAIN Plan[a] \ {1} :
         sent'[<<a, i>>] + One(Between(r, a, i)) + sent[<<a, i - 1>>]
           <= sent'[<<a, i - 1>>] + sent[<<a, i>>] + One(Between(cyc[c], a, i))
  <2>. TAKE a \in Articles
  <2>. TAKE i \in DOMAIN Plan[a] \ {1}
  <2>1. i - 1 \in DOMAIN Plan[a]  BY ChainIs
  <2>2. <<a, i>> \in Posts /\ <<a, i - 1>> \in Posts  BY <2>1, ChainIs
  <2>3. One(Between(r, a, i)) = 0 /\ One(Between(cyc[c], a, i)) = 0  BY <1>7 DEF One
  <2>4. sent[<<a, i>>] \in Nat /\ sent[<<a, i - 1>>] \in Nat  BY <1>11, <2>2
  <2>. QED  BY <1>10, <2>3, <2>4
<1>14. \A x \in r.rows : status[x] # "none"  BY <1>2, <1>5
<1>15. \A x \in Rows : \/ status'[x] = status[x]
                        \/ /\ status[x] = "pending" /\ status'[x] = "marked_posted"
                           /\ \E k \in Posts : RowOf(k) = x /\ sent[k] > 0
  BY <1>10
<1>16. \A k \in Posts : sent'[k] >= sent[k]  BY <1>10, <1>11
<1>17. faults' + overlaps' >= faults + overlaps  BY <1>10, <1>11
<1>18. \A k \in Posts :
         \/ Holds(r, k[1]) \/ Retired(k[1])'
         \/ /\ sent'[k] = sent[k]
            /\ \/ faults' + overlaps' > faults + overlaps
               \/ ~Holds(cyc[c], k[1]) \/ MayPublish(cyc[c], k)
  BY <1>7, <1>10
<1>19. rank' = rank  BY <1>10
<1>. QED
  BY <1>3, <1>5, <1>8, <1>9, <1>12, <1>13, <1>14, <1>15, <1>16, <1>17, <1>18, <1>19, MoveKept

\* A run moves on in its list or its chain and nothing else changes.
LEMMA QuietMoveKept ==
  ASSUME TypeInv, TypeInv', ThreadsInv, NEW c \in Cycles, NEW r \in Run,
         cyc' = [cyc EXCEPT ![c] = r],
         UNCHANGED <<queueVars, sent, faults, overlaps>>,
         ChainShape(r), SentOf(r), r.rows \subseteq cyc[c].rows,
         \A a \in Articles : \A i \in DOMAIN Plan[a] \ {1} :
           Between(r, a, i) => Between(cyc[c], a, i),
         \A k \in Posts : MayPublish(r, k) => MayPublish(cyc[c], k),
         \A k \in Posts : \/ Holds(r, k[1]) \/ ~Holds(cyc[c], k[1])
                          \/ MayPublish(cyc[c], k)
  PROVE  ThreadsInv'
<1>0. /\ rank' = rank /\ status' = status /\ sent' = sent /\ faults' = faults
      /\ overlaps' = overlaps
  BY DEF queueVars
<1>1. /\ sent \in [Posts -> Nat] /\ faults \in Nat /\ overlaps \in Nat
  BY DEF TypeInv, TypeOK
<1>2. \A x \in r.rows : status[x] # "none"  BY DEF ThreadsInv, Known
<1>3. \A x \in Rows : \/ status'[x] = status[x]
                      \/ /\ status[x] = "pending" /\ status'[x] = "marked_posted"
                         /\ \E k \in Posts : RowOf(k) = x /\ sent[k] > 0
  BY <1>0
<1>4. \A k \in Posts : sent'[k] >= sent[k]  BY <1>0, <1>1
<1>5. SentOf(r)'  BY <1>0 DEF SentOf
<1>6. \A a \in Articles : \A i \in DOMAIN Plan[a] \ {1} :
        sent'[<<a, i>>] + One(Between(r, a, i)) + sent[<<a, i - 1>>]
          <= sent'[<<a, i - 1>>] + sent[<<a, i>>] + One(Between(cyc[c], a, i))
  <2>. TAKE a \in Articles
  <2>. TAKE i \in DOMAIN Plan[a] \ {1}
  <2>1. i - 1 \in DOMAIN Plan[a]  BY ChainIs
  <2>2. <<a, i>> \in Posts /\ <<a, i - 1>> \in Posts  BY <2>1, ChainIs
  <2>3. /\ One(Between(r, a, i)) <= One(Between(cyc[c], a, i))
        /\ One(Between(r, a, i)) \in {0, 1} /\ One(Between(cyc[c], a, i)) \in {0, 1}
    BY DEF One
  <2>4. sent[<<a, i>>] \in Nat /\ sent[<<a, i - 1>>] \in Nat  BY <1>1, <2>2
  <2>. QED  BY <1>0, <2>3, <2>4
<1>7. \A k \in Posts : sent'[k] + One(MayPublish(r, k)) + faults + overlaps
                         <= sent[k] + One(MayPublish(cyc[c], k)) + faults' + overlaps'
  <2>. TAKE k \in Posts
  <2>1. /\ One(MayPublish(r, k)) <= One(MayPublish(cyc[c], k))
        /\ One(MayPublish(r, k)) \in {0, 1} /\ One(MayPublish(cyc[c], k)) \in {0, 1}
    BY DEF One
  <2>2. sent[k] \in Nat  BY <1>1
  <2>. QED  BY <1>0, <1>1, <2>1, <2>2
<1>8. Counted'  BY <1>7, CountedMove DEF ThreadsInv
<1>9. faults' + overlaps' >= faults + overlaps  BY <1>0, <1>1
<1>10. \A k \in Posts :
         \/ Holds(r, k[1]) \/ Retired(k[1])'
         \/ /\ sent'[k] = sent[k]
            /\ \/ faults' + overlaps' > faults + overlaps
               \/ ~Holds(cyc[c], k[1]) \/ MayPublish(cyc[c], k)
  BY <1>0
<1>. QED  BY <1>0, <1>2, <1>3, <1>4, <1>5, <1>6, <1>8, <1>9, <1>10, MoveKept

\* The thread that is begun was on the list, all of its rows, and its chain is
\* the whole plan.
LEMMA PlannedIsChain ==
  ASSUME NEW c \in Cycles, NEW a \in Articles, IsComplete(c, a)
  PROVE  Planned(c, a) = Chain(a, 1) /\ RowsOf(a) \subseteq cyc[c].rows
<1>1. RowsOf(a) \subseteq cyc[c].rows  BY DEF IsComplete, PartsOf
<1>2. \A k \in {a} \X DOMAIN Plan[a] : RowOf(k) \in RowsOf(a)
  <2>. TAKE k \in {a} \X DOMAIN Plan[a]
  <2>1. k[1] = a /\ k[2] \in DOMAIN Plan[a]  OBVIOUS
  <2>2. Plan[a] \in Seq(1 .. Parts[a])  BY PlanAssumption
  <2>3. Plan[a][k[2]] \in 1 .. Parts[a]  BY <2>1, <2>2, SeqElement
  <2>. QED  BY <2>1, <2>3 DEF RowOf, RowsOf
<1>3. Planned(c, a) = {a} \X DOMAIN Plan[a]  BY <1>1, <1>2 DEF Planned
<1>. QED  BY <1>1, <1>3, ChainIs DEF Chain

LEMMA BeginChainKept ==
  ASSUME TypeInv, TypeInv', ThreadsInv, NEW c \in Cycles, BeginChain(c)
  PROVE  ThreadsInv'
<1>0. /\ cyc[c] \in Run /\ cyc \in [Cycles -> Run]
      /\ cyc[c].pc = "next" /\ cyc[c].left = {} /\ cyc[c].done = {}
  BY RunIs DEF BeginChain, ThreadsInv, Shapes, ChainShape
<1>1. /\ \A k : MayPublish(cyc[c], k)
                  <=> k[1] \in cyc[c].todo /\ RowsOf(k[1]) \subseteq cyc[c].rows
      /\ \A k : Holds(cyc[c], k[1]) <=> MayPublish(cyc[c], k)
  BY <1>0, NoChain
<1>2. UNCHANGED <<queueVars, sent, faults, overlaps>>  BY DEF BeginChain
<1>3. CASE cyc' = [cyc EXCEPT ![c] = Idle]
  <2>1. PICK r : r = Idle  OBVIOUS
  <2>2. /\ r \in Run /\ r.pc = "idle" /\ r.left = {} /\ r.todo = {} /\ r.done = {}
        /\ r.rows = {}
    BY <2>1, IdleType DEF Idle
  <2>3. /\ \A a, i : ~Between(r, a, i)
        /\ \A k : ~MayPublish(r, k)
        /\ \A a \in Articles : \A j \in DOMAIN Plan[a] : r.left # Chain(a, j)
    BY <2>2, NoChain
  <2>4. ChainShape(r) /\ SentOf(r)  BY <2>2, <2>3 DEF ChainShape, SentOf
  <2>5. cyc' = [cyc EXCEPT ![c] = r] /\ r.rows \subseteq cyc[c].rows
    BY <1>3, <2>1, <2>2
  <2>. QED  BY <1>1, <1>2, <2>2, <2>3, <2>4, <2>5, QuietMoveKept
<1>4. ASSUME NEW a \in Articles, cyc' = [cyc EXCEPT ![c].todo = @ \ {a}]
      PROVE  ThreadsInv'
  <2>1. PICK r : r = [cyc[c] EXCEPT !.todo = cyc[c].todo \ {a}]  OBVIOUS
  <2>2. /\ r \in Run /\ r.pc = "next" /\ r.left = {} /\ r.done = {}
        /\ r.todo = cyc[c].todo \ {a} /\ r.rows = cyc[c].rows
    BY <1>0, <2>1 DEF Run
  <2>3. cyc' = [cyc EXCEPT ![c] = r]  BY <1>0, <1>4, <2>1
  <2>4. /\ \A b, i : ~Between(r, b, i)
        /\ \A k : MayPublish(r, k) => MayPublish(cyc[c], k)
        /\ \A b \in Articles : \A j \in DOMAIN Plan[b] : r.left # Chain(b, j)
    BY <1>1, <2>2, NoChain
  <2>5. ChainShape(r) /\ SentOf(r)  BY <2>2, <2>4 DEF ChainShape, SentOf
  <2>. QED  BY <1>1, <1>2, <2>2, <2>3, <2>4, <2>5, QuietMoveKept
<1>5. ASSUME NEW a \in Articles, IsGroup(c, a), IsComplete(c, a), Planned(c, a) # {},
             cyc' = [cyc EXCEPT ![c].pc = "send", ![c].todo = @ \ {a},
                                ![c].left = Planned(c, a)]
      PROVE  ThreadsInv'
  <2>0. /\ Planned(c, a) = Chain(a, 1) /\ RowsOf(a) \subseteq cyc[c].rows
        /\ a \in cyc[c].todo
    BY <1>5, PlannedIsChain DEF IsGroup
  <2>1. PICK r : r = [cyc[c] EXCEPT !.pc = "send", !.todo = cyc[c].todo \ {a},
                                    !.left = Chain(a, 1)]
    OBVIOUS
  <2>2. 1 \in DOMAIN Plan[a]
    <3>1. Chain(a, 1) # {}  BY <1>5, <2>0
    <3>. QED  BY <3>1, ChainIs DEF Chain
  <2>3. Chain(a, 1) \subseteq Posts  BY <2>2, ChainIs
  <2>4. /\ r \in Run /\ r.pc = "send" /\ r.left = Chain(a, 1) /\ r.done = {}
        /\ r.todo = cyc[c].todo \ {a} /\ r.rows = cyc[c].rows
    BY <1>0, <2>1, <2>3 DEF Run
  <2>5. cyc' = [cyc EXCEPT ![c] = r]  BY <1>0, <1>5, <2>0, <2>1
  <2>6. ChainShape(r)
    <3>0. <<a, 1>> \in Chain(a, 1)  BY <2>2, ChainIs
    <3>1. r.left # {}  BY <2>4, <3>0
    <3>2. r.done = {RowOf(<<a, i>>) : i \in 1 .. 1 - 1}  BY <2>4
    <3>3. a \in Articles \ r.todo  BY <2>4
    <3>. QED  BY <2>0, <2>2, <2>4, <3>1, <3>2, <3>3 DEF ChainShape
  <2>7. \A b \in Articles : \A j \in DOMAIN Plan[b] : r.left = Chain(b, j) => b = a /\ j = 1
    BY <2>2, <2>4, ChainsDiffer
  <2>8. SentOf(r)  BY <2>4, <2>7 DEF SentOf
  <2>9. \A b \in Articles : \A i \in DOMAIN Plan[b] \ {1} : ~Between(r, b, i)
    BY <2>4, <2>7 DEF Between
  <2>10. \A k : MayPublish(r, k) => MayPublish(cyc[c], k)
    <3>1. \A k \in Chain(a, 1) : k[1] = a  BY <2>2, ChainIs
    <3>2. \A k : MayPublish(r, k) => \/ k[1] \in cyc[c].todo /\ RowsOf(k[1]) \subseteq cyc[c].rows
                                     \/ k \in Chain(a, 1)
      BY <2>4 DEF MayPublish
    <3>. QED  BY <1>1, <2>0, <3>1, <3>2
  <2>11. r.rows \subseteq cyc[c].rows  BY <2>4
  <2>. QED  BY <1>1, <1>2, <2>4, <2>5, <2>6, <2>8, <2>9, <2>10, <2>11, QuietMoveKept
<1>. QED  BY <1>3, <1>4, <1>5 DEF BeginChain

LEMMA PublishKept ==
  ASSUME TypeInv, TypeInv', ThreadsInv, NEW c \in Cycles, Publish(c)
  PROVE  ThreadsInv'
<1>0. cyc[c] \in Run /\ cyc \in [Cycles -> Run] /\ cyc[c].pc = "send"
  BY RunIs DEF Publish
<1>1. PICK k \in Posts : IsStep(c, k) /\ sent' = [sent EXCEPT ![k] = @ + 1]  BY DEF Publish
<1>2. \E a \in Articles \ cyc[c].todo : \E j \in DOMAIN Plan[a] :
        /\ k = <<a, j>> /\ cyc[c].left = Chain(a, j)
        /\ RowsOf(a) \subseteq cyc[c].rows
        /\ cyc[c].done = {RowOf(<<a, i>>) : i \in 1 .. j - 1}
  BY <1>1, AtStep DEF ThreadsInv
<1>3. PICK a \in Articles \ cyc[c].todo : \E j \in DOMAIN Plan[a] :
        /\ k = <<a, j>> /\ cyc[c].left = Chain(a, j)
        /\ RowsOf(a) \subseteq cyc[c].rows
        /\ cyc[c].done = {RowOf(<<a, i>>) : i \in 1 .. j - 1}
  BY <1>2
<1>4. PICK j \in DOMAIN Plan[a] :
        /\ k = <<a, j>> /\ cyc[c].left = Chain(a, j)
        /\ RowsOf(a) \subseteq cyc[c].rows
        /\ cyc[c].done = {RowOf(<<a, i>>) : i \in 1 .. j - 1}
  BY <1>3
<1>5. PICK r : r = [cyc[c] EXCEPT !.pc = "answer"]  OBVIOUS
<1>6. /\ r \in Run /\ r.pc = "answer" /\ r.left = cyc[c].left /\ r.done = cyc[c].done
      /\ r.todo = cyc[c].todo /\ r.rows = cyc[c].rows
  BY <1>0, <1>5 DEF Run
<1>7. cyc' = [cyc EXCEPT ![c] = r]  BY <1>0, <1>5 DEF Publish
<1>8. /\ rank' = rank /\ status' = status /\ faults' = faults /\ overlaps' = overlaps
  BY DEF Publish, queueVars
<1>9. /\ sent \in [Posts -> Nat] /\ faults \in Nat /\ overlaps \in Nat
  BY DEF TypeInv, TypeOK
<1>10. /\ sent'[k] = sent[k] + 1 /\ sent[k] \in Nat
       /\ \A l \in Posts : l # k => sent'[l] = sent[l]
       /\ \A l \in Posts : sent'[l] >= sent[l] /\ sent[l] \in Nat
  BY <1>1, <1>9
<1>11. j \in Nat /\ DOMAIN Plan[a] = 1 .. Len(Plan[a]) /\ Len(Plan[a]) \in Nat  BY ChainIs
<1>12. \A b \in Articles : \A i \in DOMAIN Plan[b] : Chain(a, j) = Chain(b, i) => b = a /\ i = j
  BY <1>4, ChainsDiffer
<1>13. ChainShape(r)
  <2>1. ChainShape(cyc[c])  BY DEF ThreadsInv, Shapes
  <2>. QED  BY <1>6, <2>1 DEF ChainShape
<1>14. SentOf(r)'
  <2>1. ASSUME NEW b \in Articles, NEW m \in DOMAIN Plan[b], r.left = Chain(b, m),
               NEW i \in 1 .. m
        PROVE  sent'[<<b, i>>] > 0
    <3>1. b = a /\ m = j  BY <1>4, <1>6, <1>12, <2>1
    <3>2. i \in 1 .. j  BY <3>1
    <3>3. i \in DOMAIN Plan[a]  BY <1>11, <3>2
    <3>4. <<a, i>> \in Posts  BY <3>3, ChainIs
    <3>5. CASE i = j  BY <1>4, <1>10, <3>1, <3>5
    <3>6. CASE i # j
      <4>1. i < j  BY <1>11, <3>2, <3>6
      <4>2. sent[<<a, i>>] > 0  BY <1>4, <3>2, <4>1 DEF ThreadsInv, AllSent, SentOf
      <4>3. <<a, i>> # k  BY <1>4, <3>6
      <4>. QED  BY <1>10, <3>1, <3>4, <4>2, <4>3
    <3>. QED  BY <3>5, <3>6
  <2>. QED  BY <2>1 DEF SentOf
<1>15. \A b \in Articles : \A i \in DOMAIN Plan[b] \ {1} :
         sent'[<<b, i>>] + One(Between(r, b, i)) + sent[<<b, i - 1>>]
           <= sent'[<<b, i - 1>>] + sent[<<b, i>>] + One(Between(cyc[c], b, i))
  <2>. TAKE b \in Articles
  <2>. TAKE i \in DOMAIN Plan[b] \ {1}
  <2>1. i \in Int /\ i - 1 \in DOMAIN Plan[b]  BY ChainIs
  <2>2. <<b, i>> \in Posts /\ <<b, i - 1>> \in Posts  BY <2>1, ChainIs
  <2>3. Between(r, b, i) => <<b, i - 1>> = k  BY <1>4, <1>6, <1>12, <2>1 DEF Between
  <2>4. <<b, i>> = k => Between(cyc[c], b, i)  BY <1>0, <1>4 DEF Between
  <2>5. One(Between(r, b, i)) \in {0, 1} /\ One(Between(cyc[c], b, i)) \in {0, 1}
    BY DEF One
  <2>6. sent[<<b, i>>] \in Nat /\ sent[<<b, i - 1>>] \in Nat  BY <1>9, <2>2
  <2>7. CASE <<b, i>> = k
    <3>1. <<b, i - 1>> # k  BY <2>1, <2>7
    <3>2. One(Between(r, b, i)) = 0 /\ One(Between(cyc[c], b, i)) = 1
      BY <2>3, <2>4, <2>7, <3>1 DEF One
    <3>3. sent'[<<b, i>>] = sent[<<b, i>>] + 1 /\ sent'[<<b, i - 1>>] = sent[<<b, i - 1>>]
      BY <1>10, <2>2, <2>7, <3>1
    <3>. QED  BY <2>6, <3>2, <3>3
  <2>8. CASE <<b, i - 1>> = k
    <3>1. <<b, i>> # k  BY <2>1, <2>8
    <3>3. sent'[<<b, i>>] = sent[<<b, i>>] /\ sent'[<<b, i - 1>>] = sent[<<b, i - 1>>] + 1
      BY <1>10, <2>2, <2>8, <3>1
    <3>. QED  BY <2>5, <2>6, <3>3
  <2>9. CASE <<b, i>> # k /\ <<b, i - 1>> # k
    <3>1. sent'[<<b, i>>] = sent[<<b, i>>] /\ sent'[<<b, i - 1>>] = sent[<<b, i - 1>>]
      BY <1>10, <2>2, <2>9
    <3>2. One(Between(r, b, i)) = 0  BY <2>3, <2>9 DEF One
    <3>. QED  BY <2>5, <2>6, <3>1, <3>2
  <2>. QED  BY <2>7, <2>8, <2>9
<1>16. MayPublish(cyc[c], k) /\ ~MayPublish(r, k)
  <2>1. MayPublish(cyc[c], k)  BY <1>0, <1>1 DEF MayPublish, IsStep
  <2>2. k[1] = a /\ k[2] = j  BY <1>4
  <2>3. ~ \E l \in cyc[c].left : l[2] < k[2]
    <3>1. ASSUME NEW l \in cyc[c].left PROVE ~(l[2] < j)
      <4>1. l[2] \in j .. Len(Plan[a])  BY <1>4, ChainIs
      <4>. QED  BY <1>11, <4>1
    <3>. QED  BY <2>2, <3>1
  <2>4. ~MayPublish(r, k)  BY <1>6, <2>2, <2>3 DEF MayPublish
  <2>. QED  BY <2>1, <2>4
<1>17. \A l : MayPublish(r, l) => MayPublish(cyc[c], l)  BY <1>0, <1>6 DEF MayPublish
<1>18. \A l \in Posts : sent'[l] + One(MayPublish(r, l)) + faults + overlaps
                          <= sent[l] + One(MayPublish(cyc[c], l)) + faults' + overlaps'
  <2>. TAKE l \in Posts
  <2>1. CASE l = k
    <3>1. One(MayPublish(r, l)) = 0 /\ One(MayPublish(cyc[c], l)) = 1
      BY <1>16, <2>1 DEF One
    <3>. QED  BY <1>8, <1>9, <1>10, <2>1, <3>1
  <2>2. CASE l # k
    <3>1. /\ One(MayPublish(r, l)) <= One(MayPublish(cyc[c], l))
          /\ One(MayPublish(r, l)) \in {0, 1} /\ One(MayPublish(cyc[c], l)) \in {0, 1}
      BY <1>17 DEF One
    <3>2. sent'[l] = sent[l] /\ sent[l] \in Nat  BY <1>10, <2>2
    <3>. QED  BY <1>8, <1>9, <3>1, <3>2
  <2>. QED  BY <2>1, <2>2
<1>19. Counted'  BY <1>7, <1>18, CountedMove DEF ThreadsInv
<1>20. \A x \in r.rows : status[x] # "none"  BY <1>6 DEF ThreadsInv, Known
<1>21. \A x \in Rows : \/ status'[x] = status[x]
                       \/ /\ status[x] = "pending" /\ status'[x] = "marked_posted"
                          /\ \E l \in Posts : RowOf(l) = x /\ sent[l] > 0
  BY <1>8
<1>22. \A l \in Posts : sent'[l] >= sent[l]  BY <1>10
<1>23. faults' + overlaps' >= faults + overlaps  BY <1>8, <1>9
<1>24. \A l \in Posts :
         \/ Holds(r, l[1]) \/ Retired(l[1])'
         \/ /\ sent'[l] = sent[l]
            /\ \/ faults' + overlaps' > faults + overlaps
               \/ ~Holds(cyc[c], l[1]) \/ MayPublish(cyc[c], l)
  <2>1. Holds(r, a)
    <3>1. k \in cyc[c].left  BY <1>1 DEF IsStep
    <3>. QED  BY <1>4, <1>6, <3>1 DEF Holds
  <2>2. \A b : Holds(r, b) <=> Holds(cyc[c], b)  BY <1>6 DEF Holds
  <2>3. \A l \in Posts : l[1] # a => sent'[l] = sent[l]  BY <1>4, <1>10
  <2>. QED  BY <2>1, <2>2, <2>3
<1>. QED
  BY <1>6, <1>7, <1>8, <1>13, <1>14, <1>15, <1>19, <1>20, <1>21, <1>22, <1>23, <1>24, MoveKept

\* The rows whose posts were answered are rows of the thread, with a post on X.
LEMMA DoneRows ==
  ASSUME TypeInv, ThreadsInv, NEW c \in Cycles, NEW a \in Articles, NEW j \in DOMAIN Plan[a],
         cyc[c].left = Chain(a, j)
  PROVE  /\ \A i \in 1 .. j : RowOf(<<a, i>>) \in RowsOf(a) /\ <<a, i>> \in Posts
         /\ \A i \in 1 .. j : i < j \/ cyc[c].pc = "answer" => sent[<<a, i>>] > 0
<1>1. DOMAIN Plan[a] = 1 .. Len(Plan[a]) /\ Len(Plan[a]) \in Nat  BY ChainIs
<1>2. ASSUME NEW i \in 1 .. j PROVE RowOf(<<a, i>>) \in RowsOf(a) /\ <<a, i>> \in Posts
  <2>1. i \in DOMAIN Plan[a]  BY <1>1
  <2>2. <<a, i>> \in Posts  BY <2>1, ChainIs
  <2>3. Plan[a] \in Seq(1 .. Parts[a])  BY PlanAssumption
  <2>4. Plan[a][i] \in 1 .. Parts[a]  BY <2>1, <2>3, SeqElement
  <2>. QED  BY <2>2, <2>4 DEF RowOf, RowsOf
<1>3. \A i \in 1 .. j : i < j \/ cyc[c].pc = "answer" => sent[<<a, i>>] > 0
  BY DEF ThreadsInv, AllSent, SentOf
<1>. QED  BY <1>2, <1>3

\* A chain ends: by a disturbance, with rows of its thread recorded, or before
\* anything of it was published.
LEMMA EndChainKept ==
  ASSUME TypeInv, TypeInv', ThreadsInv, NEW c \in Cycles, NEW posted \in Nat,
         NEW ids \in SUBSET Rows, EndChain(c, posted, ids),
         UNCHANGED <<rank, sent, overlaps>>, faults' \in {faults, faults + 1},
         NEW a \in Articles, NEW j \in DOMAIN Plan[a],
         cyc[c].left = Chain(a, j), RowsOf(a) \subseteq cyc[c].rows,
         \A x \in ids : \E k \in Posts : RowOf(k) = x /\ sent[k] > 0,
         \/ faults' = faults + 1
         \/ \E x \in ids : x \in RowsOf(a)
         \/ cyc[c].pc = "send" /\ j = 1
  PROVE  ThreadsInv'
<1>0. cyc[c] \in Run /\ cyc \in [Cycles -> Run]  BY RunIs
<1>1. PICK r : r = [cyc[c] EXCEPT !.pc = "next", !.left = {}, !.done = {}, !.posted = posted]
  OBVIOUS
<1>2. /\ r \in Run /\ r.pc = "next" /\ r.left = {} /\ r.done = {}
      /\ r.todo = cyc[c].todo /\ r.rows = cyc[c].rows
  BY <1>0, <1>1 DEF Run
<1>3. cyc' = [cyc EXCEPT ![c] = r]  BY <1>0, <1>1 DEF EndChain
<1>4. /\ rank' = rank /\ sent' = sent /\ overlaps' = overlaps
      /\ sent \in [Posts -> Nat] /\ faults \in Nat /\ overlaps \in Nat
      /\ faults' \in {faults, faults + 1}
  BY DEF TypeInv, TypeOK
<1>5. \A x \in Rows : status'[x] = IF x \in ids /\ status[x] = "pending" THEN "marked_posted"
                                   ELSE status[x]
  BY DEF EndChain, MarkPosted
<1>6. /\ \A b, i : ~Between(r, b, i)
      /\ \A k : MayPublish(r, k) <=> k[1] \in cyc[c].todo /\ RowsOf(k[1]) \subseteq cyc[c].rows
      /\ \A b : Holds(r, b) <=> b \in cyc[c].todo /\ RowsOf(b) \subseteq cyc[c].rows
      /\ \A b \in Articles : \A i \in DOMAIN Plan[b] : r.left # Chain(b, i)
  BY <1>2, NoChain
<1>7. ChainShape(r)  BY <1>2 DEF ChainShape
<1>8. SentOf(r)'  BY <1>6 DEF SentOf
<1>9. \A x \in r.rows : status[x] # "none"  BY <1>2 DEF ThreadsInv, Known
<1>10. \A x \in Rows : \/ status'[x] = status[x]
                       \/ /\ status[x] = "pending" /\ status'[x] = "marked_posted"
                          /\ \E k \in Posts : RowOf(k) = x /\ sent[k] > 0
  BY <1>5
<1>11. \A k \in Posts : sent'[k] >= sent[k]  BY <1>4
<1>12. \A b \in Articles : \A i \in DOMAIN Plan[b] \ {1} :
         sent'[<<b, i>>] + One(Between(r, b, i)) + sent[<<b, i - 1>>]
           <= sent'[<<b, i - 1>>] + sent[<<b, i>>] + One(Between(cyc[c], b, i))
  <2>. TAKE b \in Articles
  <2>. TAKE i \in DOMAIN Plan[b] \ {1}
  <2>1. i - 1 \in DOMAIN Plan[b]  BY ChainIs
  <2>2. <<b, i>> \in Posts /\ <<b, i - 1>> \in Posts  BY <2>1, ChainIs
  <2>3. One(Between(r, b, i)) = 0 /\ One(Between(cyc[c], b, i)) \in {0, 1}
    BY <1>6 DEF One
  <2>4. sent[<<b, i>>] \in Nat /\ sent[<<b, i - 1>>] \in Nat  BY <1>4, <2>2
  <2>. QED  BY <1>4, <2>3, <2>4
<1>13. Counted'
  <2>1. \A k \in Posts : sent'[k] + One(MayPublish(r, k)) + faults + overlaps
                           <= sent[k] + One(MayPublish(cyc[c], k)) + faults' + overlaps'
    <3>. TAKE k \in Posts
    <3>1. MayPublish(r, k) => MayPublish(cyc[c], k)  BY <1>6 DEF MayPublish
    <3>2. /\ One(MayPublish(r, k)) <= One(MayPublish(cyc[c], k))
          /\ One(MayPublish(r, k)) \in {0, 1} /\ One(MayPublish(cyc[c], k)) \in {0, 1}
      BY <3>1 DEF One
    <3>3. sent[k] \in Nat /\ faults' >= faults  BY <1>4
    <3>. QED  BY <1>4, <3>2, <3>3
  <2>. QED  BY <1>3, <2>1, CountedMove DEF ThreadsInv
<1>14. faults' + overlaps' >= faults + overlaps
  <2>0. faults \in Nat /\ overlaps \in Nat /\ overlaps' = overlaps  BY <1>4
  <2>1. CASE faults' = faults  BY <2>0, <2>1
  <2>2. CASE faults' = faults + 1  BY <2>0, <2>2
  <2>. QED  BY <1>4, <2>1, <2>2
<1>15. \A k \in Posts :
         \/ Holds(r, k[1]) \/ Retired(k[1])'
         \/ /\ sent'[k] = sent[k]
            /\ \/ faults' + overlaps' > faults + overlaps
               \/ ~Holds(cyc[c], k[1]) \/ MayPublish(cyc[c], k)
  <2>. TAKE k \in Posts
  <2>0. sent'[k] = sent[k]  BY <1>4
  <2>1. CASE faults' = faults + 1
    <3>1. faults' + overlaps' > faults + overlaps  BY <1>4, <2>1
    <3>. QED  BY <2>0, <3>1
  <2>2. CASE k[1] # a
    <3>1. \A l \in cyc[c].left : l[1] = a  BY DEF Chain
    <3>2. Holds(cyc[c], k[1]) => Holds(r, k[1])  BY <1>6, <2>2, <3>1 DEF Holds
    <3>. QED  BY <2>0, <3>2
  <2>3. CASE k[1] = a /\ \E x \in ids : x \in RowsOf(a)
    <3>1. PICK x \in ids : x \in RowsOf(a)  BY <2>3
    <3>2. x \in Rows /\ status[x] # "none"  BY <3>1 DEF ThreadsInv, Known
    <3>3. status'[x] \notin {"none", "pending"}  BY <1>5, <3>1, <3>2
    <3>4. Retired(k[1])'  BY <2>3, <3>1, <3>3 DEF Retired
    <3>. QED  BY <3>4
  <2>4. CASE k[1] = a /\ cyc[c].pc = "send" /\ j = 1
    <3>1. k = <<k[1], k[2]>> /\ k[2] \in DOMAIN Plan[a]  BY <2>4, PostIsOfArticle
    <3>2. k \in Chain(a, 1)  BY <2>4, <3>1, ChainIs DEF Chain
    <3>3. MayPublish(cyc[c], k)  BY <2>4, <3>2 DEF MayPublish
    <3>. QED  BY <2>0, <3>3
  <2>. QED  BY <2>1, <2>2, <2>3, <2>4
<1>. QED
  BY <1>2, <1>3, <1>4, <1>7, <1>8, <1>9, <1>10, <1>11, <1>12, <1>13, <1>14, <1>15, MoveKept

LEMMA AnsweredKept ==
  ASSUME TypeInv, TypeInv', ThreadsInv, NEW c \in Cycles, Answered(c)
  PROVE  ThreadsInv'
<1>0. cyc[c] \in Run /\ cyc \in [Cycles -> Run] /\ cyc[c].pc = "answer"
  BY RunIs DEF Answered
<1>1. PICK k \in Posts : /\ IsStep(c, k)
                         /\ IF cyc[c].left = {k}
                            THEN EndChain(c, cyc[c].posted + 1, cyc[c].done \cup {RowOf(k)})
                            ELSE /\ cyc' = [cyc EXCEPT ![c].pc = "send", ![c].left = @ \ {k},
                                               ![c].done = @ \cup {RowOf(k)}, ![c].posted = @ + 1]
                                 /\ UNCHANGED <<status, marked>>
  BY DEF Answered
<1>2. \E a \in Articles \ cyc[c].todo : \E j \in DOMAIN Plan[a] :
        /\ k = <<a, j>> /\ cyc[c].left = Chain(a, j)
        /\ RowsOf(a) \subseteq cyc[c].rows
        /\ cyc[c].done = {RowOf(<<a, i>>) : i \in 1 .. j - 1}
  BY <1>1, AtStep DEF ThreadsInv
<1>3. PICK a \in Articles \ cyc[c].todo : \E j \in DOMAIN Plan[a] :
        /\ k = <<a, j>> /\ cyc[c].left = Chain(a, j)
        /\ RowsOf(a) \subseteq cyc[c].rows
        /\ cyc[c].done = {RowOf(<<a, i>>) : i \in 1 .. j - 1}
  BY <1>2
<1>4. PICK j \in DOMAIN Plan[a] :
        /\ k = <<a, j>> /\ cyc[c].left = Chain(a, j)
        /\ RowsOf(a) \subseteq cyc[c].rows
        /\ cyc[c].done = {RowOf(<<a, i>>) : i \in 1 .. j - 1}
  BY <1>3
<1>5. /\ j \in 1 .. Len(Plan[a]) /\ DOMAIN Plan[a] = 1 .. Len(Plan[a]) /\ Len(Plan[a]) \in Nat
      /\ Chain(a, j) \ {<<a, j>>} = Chain(a, j + 1)
  BY ChainIs
<1>6. /\ \A i \in 1 .. j : RowOf(<<a, i>>) \in RowsOf(a) /\ <<a, i>> \in Posts
      /\ \A i \in 1 .. j : sent[<<a, i>>] > 0
  BY <1>0, <1>4, DoneRows
<1>7. PICK done : done = cyc[c].done \cup {RowOf(k)}  OBVIOUS
<1>8. done = {RowOf(<<a, i>>) : i \in 1 .. j}
  <2>1. 1 .. j = (1 .. j - 1) \cup {j}  BY <1>5
  <2>2. cyc[c].done = {RowOf(<<a, i>>) : i \in 1 .. j - 1} /\ k = <<a, j>>  BY <1>4
  <2>. QED  BY <1>7, <2>1, <2>2
<1>9. \A x \in done : x \in RowsOf(a) /\ \E l \in Posts : RowOf(l) = x /\ sent[l] > 0
  BY <1>6, <1>8
<1>10. done \subseteq Rows  BY <1>9 DEF Rows
<1>11. CASE cyc[c].left = {k}
  <2>1. cyc[c].posted + 1 \in Nat  BY <1>0 DEF Run
  <2>2. EndChain(c, cyc[c].posted + 1, done)  BY <1>1, <1>7, <1>11
  <2>3. UNCHANGED <<rank, sent, overlaps>> /\ faults' = faults  BY DEF Answered
  <2>4. \E x \in done : x \in RowsOf(a)  BY <1>7, <1>9
  <2>. QED  BY <1>4, <1>9, <1>10, <2>1, <2>2, <2>3, <2>4, EndChainKept
<1>12. CASE cyc[c].left # {k}
  <2>1. PICK r : r = [cyc[c] EXCEPT !.pc = "send", !.left = Chain(a, j + 1), !.done = done,
                                    !.posted = cyc[c].posted + 1]
    OBVIOUS
  <2>2. cyc' = [cyc EXCEPT ![c] = r]
    <3>1. cyc[c].left \ {k} = Chain(a, j + 1)  BY <1>4, <1>5
    <3>. QED  BY <1>0, <1>1, <1>7, <1>12, <2>1, <3>1
  <2>3. Chain(a, j + 1) # {} /\ Chain(a, j + 1) \subseteq cyc[c].left
    <3>1. Chain(a, j + 1) = cyc[c].left \ {k}  BY <1>4, <1>5
    <3>2. k \in cyc[c].left  BY <1>1 DEF IsStep
    <3>. QED  BY <1>12, <3>1, <3>2
  <2>4. j + 1 \in DOMAIN Plan[a]  BY <1>5, <2>3 DEF Chain
  <2>5. cyc[c].posted + 1 \in Nat /\ cyc[c].left \subseteq Posts  BY <1>0 DEF Run
  <2>6. /\ r \in Run /\ r.pc = "send" /\ r.left = Chain(a, j + 1) /\ r.done = done
        /\ r.todo = cyc[c].todo /\ r.rows = cyc[c].rows
    BY <1>0, <1>10, <2>1, <2>3, <2>5 DEF Run
  <2>7. UNCHANGED <<queueVars, sent, faults, overlaps>>
    BY <1>1, <1>12 DEF Answered, queueVars
  <2>8. ChainShape(r)
    <3>1. r.done = {RowOf(<<a, i>>) : i \in 1 .. (j + 1) - 1}
      <4>1. (j + 1) - 1 = j  BY <1>5
      <4>2. r.done = {RowOf(<<a, i>>) : i \in 1 .. j}  BY <1>8, <2>6
      <4>. QED  BY <4>1, <4>2
    <3>2. a \in Articles \ r.todo /\ RowsOf(a) \subseteq r.rows  BY <1>4, <2>6
    <3>. QED  BY <2>3, <2>4, <2>6, <3>1, <3>2 DEF ChainShape
  <2>9. \A b \in Articles : \A i \in DOMAIN Plan[b] : r.left = Chain(b, i) => b = a /\ i = j + 1
    BY <2>4, <2>6, ChainsDiffer
  <2>10. SentOf(r)
    <3>1. ASSUME NEW b \in Articles, NEW m \in DOMAIN Plan[b], r.left = Chain(b, m),
                 NEW i \in 1 .. m, i < m
          PROVE  sent[<<b, i>>] > 0
      <4>1. b = a /\ m = j + 1  BY <2>9, <3>1
      <4>2. i \in 1 .. j  BY <1>5, <3>1, <4>1
      <4>. QED  BY <1>6, <4>1, <4>2
    <3>. QED  BY <2>6, <3>1 DEF SentOf
  <2>11. \A b \in Articles : \A i \in DOMAIN Plan[b] \ {1} :
           Between(r, b, i) => Between(cyc[c], b, i)
    <3>1. ASSUME NEW b \in Articles, NEW i \in DOMAIN Plan[b] \ {1}, Between(r, b, i)
          PROVE  Between(cyc[c], b, i)
      <4>1. b = a /\ i = j + 1  BY <2>6, <2>9, <3>1 DEF Between
      <4>2. i - 1 = j  BY <1>5, <4>1
      <4>. QED  BY <1>0, <1>4, <4>1, <4>2 DEF Between
    <3>. QED  BY <3>1
  <2>12. \A l \in Posts : MayPublish(r, l) => MayPublish(cyc[c], l)
    <3>1. ASSUME NEW l \in Chain(a, j + 1)
          PROVE  l \in cyc[c].left /\ \E m \in cyc[c].left : m[2] < l[2]
      <4>1. l[2] \in j + 1 .. Len(Plan[a])  BY DEF Chain
      <4>2. k[2] = j /\ k \in cyc[c].left  BY <1>1, <1>4 DEF IsStep
      <4>3. k[2] < l[2]  BY <1>5, <4>1, <4>2
      <4>. QED  BY <2>3, <4>2, <4>3
    <3>. QED  BY <2>6, <3>1 DEF MayPublish
  <2>13. \A l \in Posts : \/ Holds(r, l[1]) \/ ~Holds(cyc[c], l[1])
                          \/ MayPublish(cyc[c], l)
    <3>1. Holds(r, a)
      <4>1. PICK l : l \in Chain(a, j + 1)  BY <2>3
      <4>2. l[1] = a  BY <4>1 DEF Chain
      <4>. QED  BY <2>6, <4>1, <4>2 DEF Holds
    <3>2. \A l \in cyc[c].left : l[1] = a  BY <1>4, ChainIs
    <3>3. \A b : b # a => (Holds(cyc[c], b) => Holds(r, b))  BY <2>6, <3>2 DEF Holds
    <3>. QED  BY <3>1, <3>3
  <2>14. r.rows \subseteq cyc[c].rows  BY <2>6
  <2>. QED
    BY <2>2, <2>6, <2>7, <2>8, <2>10, <2>11, <2>12, <2>13, <2>14, QuietMoveKept
<1>. QED  BY <1>11, <1>12

LEMMA ChainEndsKept ==
  ASSUME TypeInv, TypeInv', ThreadsInv, NEW c \in Cycles,
         Unrecorded(c) \/ PostFails(c) \/ PostFailsUnrecorded(c)
  PROVE  ThreadsInv'
<1>0. /\ cyc[c] \in Run /\ cyc[c].pc \in {"send", "answer"} /\ cyc[c].left # {}
      /\ cyc[c].done \subseteq Rows /\ cyc[c].posted \in Nat /\ cyc[c].posted + 1 \in Nat
  BY RunIs DEF Unrecorded, PostFails, PostFailsUnrecorded, Run
<1>1. PICK a \in Articles \ cyc[c].todo : \E j \in DOMAIN Plan[a] :
        /\ cyc[c].left = Chain(a, j) /\ RowsOf(a) \subseteq cyc[c].rows
        /\ cyc[c].done = {RowOf(<<a, i>>) : i \in 1 .. j - 1}
  BY <1>0 DEF ThreadsInv, Shapes, ChainShape
<1>2. PICK j \in DOMAIN Plan[a] :
        /\ cyc[c].left = Chain(a, j) /\ RowsOf(a) \subseteq cyc[c].rows
        /\ cyc[c].done = {RowOf(<<a, i>>) : i \in 1 .. j - 1}
  BY <1>1
<1>3. UNCHANGED <<rank, sent, overlaps>>
  BY DEF Unrecorded, PostFails, PostFailsUnrecorded
<1>4. CASE Unrecorded(c) \/ PostFailsUnrecorded(c)
  <2>1. faults' = faults + 1  BY <1>4 DEF Unrecorded, PostFailsUnrecorded, Fault
  <2>2. PICK posted \in Nat : EndChain(c, posted, {})
    BY <1>0, <1>4 DEF Unrecorded, PostFailsUnrecorded
  <2>3. {} \in SUBSET Rows /\ \A x \in {} : \E k \in Posts : RowOf(k) = x /\ sent[k] > 0
    OBVIOUS
  <2>. QED  BY <1>2, <1>3, <2>1, <2>2, <2>3, EndChainKept
<1>5. CASE PostFails(c)
  <2>1. \/ cyc[c].pc = "send" /\ faults' = faults
        \/ faults' = faults + 1
    BY <1>5 DEF PostFails, Fault
  <2>2. EndChain(c, cyc[c].posted, cyc[c].done)  BY <1>5 DEF PostFails
  <2>3. j \in 1 .. Len(Plan[a]) /\ Len(Plan[a]) \in Nat  BY ChainIs
  <2>4. /\ \A i \in 1 .. j : RowOf(<<a, i>>) \in RowsOf(a) /\ <<a, i>> \in Posts
        /\ \A i \in 1 .. j : i < j \/ cyc[c].pc = "answer" => sent[<<a, i>>] > 0
    BY <1>2, DoneRows
  <2>5. \A x \in cyc[c].done : x \in RowsOf(a) /\ \E k \in Posts : RowOf(k) = x /\ sent[k] > 0
    <3>1. ASSUME NEW i \in 1 .. j - 1
          PROVE  /\ RowOf(<<a, i>>) \in RowsOf(a) /\ <<a, i>> \in Posts
                 /\ sent[<<a, i>>] > 0
      <4>1. i \in 1 .. j /\ i < j  BY <2>3
      <4>. QED  BY <2>4, <4>1
    <3>. QED  BY <1>2, <3>1
  <2>6. j # 1 => \E x \in cyc[c].done : x \in RowsOf(a)
    <3>1. ASSUME j # 1 PROVE RowOf(<<a, 1>>) \in cyc[c].done
      <4>1. 1 \in 1 .. j - 1  BY <2>3, <3>1
      <4>. QED  BY <1>2, <4>1
    <3>. QED  BY <2>5, <3>1
  <2>7. \/ faults' = faults + 1
        \/ \E x \in cyc[c].done : x \in RowsOf(a)
        \/ cyc[c].pc = "send" /\ j = 1
    BY <2>1, <2>6
  <2>8. faults' \in {faults, faults + 1}  BY <2>1
  <2>9. \A x \in cyc[c].done : \E k \in Posts : RowOf(k) = x /\ sent[k] > 0  BY <2>5
  <2>. QED  BY <1>0, <1>2, <1>3, <2>2, <2>7, <2>8, <2>9, EndChainKept
<1>. QED  BY <1>4, <1>5

LEMMA CrashKept ==
  ASSUME TypeInv, TypeInv', ThreadsInv, Crash
  PROVE  ThreadsInv'
<1>0. /\ rank' = rank /\ status' = status /\ sent' = sent /\ overlaps' = overlaps
      /\ faults' = faults + 1 /\ \A c \in Cycles : cyc'[c] = Idle
  BY DEF Crash, Fault, queueVars
<1>1. /\ Idle.pc = "idle" /\ Idle.left = {} /\ Idle.todo = {} /\ Idle.done = {}
      /\ Idle.rows = {}
  BY DEF Idle
<1>2. /\ \A a \in Articles : \A j \in DOMAIN Plan[a] : Idle.left # Chain(a, j)
      /\ \A a, i : ~Between(Idle, a, i)
      /\ \A k : ~MayPublish(Idle, k)
  BY <1>1, NoChain
<1>3. /\ sent \in [Posts -> Nat] /\ faults \in Nat /\ overlaps \in Nat
  BY DEF TypeInv, TypeOK
<1>4. Shapes'  BY <1>0, <1>1 DEF Shapes, ChainShape
<1>5. Known'  BY <1>0, <1>1 DEF Known, ThreadsInv
<1>6. AllSent'  BY <1>0, <1>2 DEF AllSent, SentOf
<1>7. MarkedWasSent'  BY <1>0 DEF MarkedWasSent, ThreadsInv
<1>8. \A a, i : Halfway(a, i)' = {}
  <2>1. \A a, i : \A d \in Cycles : ~Between(cyc'[d], a, i)  BY <1>0, <1>2
  <2>. QED  BY <2>1 DEF Halfway, Between
<1>9. \A k : Publishers(k)' = {}
  <2>1. \A k : \A d \in Cycles : ~MayPublish(cyc'[d], k)  BY <1>0, <1>2
  <2>. QED  BY <2>1 DEF Publishers, MayPublish
<1>10. Cardinality({}) = 0  BY FS_EmptySet
<1>11. Prefix'
  <2>1. ASSUME NEW a \in Articles, NEW i \in DOMAIN Plan[a] \ {1}
        PROVE  sent'[<<a, i>>] + Cardinality(Halfway(a, i)') <= sent'[<<a, i - 1>>]
    <3>1. i \in Int /\ i - 1 \in DOMAIN Plan[a]  BY ChainIs
    <3>2. <<a, i>> \in Posts /\ <<a, i - 1>> \in Posts  BY <3>1, ChainIs
    <3>3. sent[<<a, i>>] + Cardinality(Halfway(a, i)) <= sent[<<a, i - 1>>]
      BY DEF ThreadsInv, Prefix
    <3>4. Cardinality(Halfway(a, i)) \in Nat  BY CyclesFinite DEF Halfway
    <3>5. sent[<<a, i>>] \in Nat /\ sent[<<a, i - 1>>] \in Nat  BY <1>3, <3>2
    <3>6. Cardinality(Halfway(a, i)') = 0  BY <1>8, <1>10
    <3>7. sent'[<<a, i>>] = sent[<<a, i>>] /\ sent'[<<a, i - 1>>] = sent[<<a, i - 1>>]
      BY <1>0
    <3>. QED  BY <3>3, <3>4, <3>5, <3>6, <3>7
  <2>. QED  BY <2>1 DEF Prefix
<1>12. \A k \in Posts : sent'[k] <= faults' + overlaps' /\ sent'[k] \in Nat
  <2>. TAKE k \in Posts
  <2>1. sent[k] + Cardinality(Publishers(k)) <= 1 + faults + overlaps
    BY DEF ThreadsInv, Counted
  <2>2. Cardinality(Publishers(k)) \in Nat  BY CyclesFinite DEF Publishers
  <2>3. sent[k] \in Nat  BY <1>3
  <2>. QED  BY <1>0, <1>3, <2>1, <2>2, <2>3
<1>13. Unsent'  BY <1>12 DEF Unsent
<1>14. Counted'
  <2>1. ASSUME NEW k \in Posts
        PROVE  sent'[k] + Cardinality(Publishers(k)') <= 1 + faults' + overlaps'
    <3>1. Cardinality(Publishers(k)') = 0  BY <1>9, <1>10
    <3>2. faults' \in Nat /\ overlaps' \in Nat  BY <1>0, <1>3
    <3>. QED  BY <1>12, <3>1, <3>2
  <2>. QED  BY <2>1 DEF Counted
<1>. QED  BY <1>4, <1>5, <1>6, <1>7, <1>11, <1>13, <1>14 DEF ThreadsInv

LEMMA RowsDiffer ==
  ASSUME NEW a \in Articles, NEW b \in Articles, NEW x \in RowsOf(a), x \in RowsOf(b)
  PROVE  a = b
  BY DEF RowsOf

LEMMA QueueStepsKept ==
  ASSUME TypeInv, TypeInv', ThreadsInv,
         \/ \E a \in Articles : Enqueue(a)
         \/ DigestBegin \/ DigestEnd \/ Sweep \/ Tick \/ UNCHANGED vars
  PROVE  ThreadsInv'
<1>0. Known /\ \A a \in Articles : RowsOf(a) \subseteq Rows  BY DEF ThreadsInv, Rows
<1>1. ASSUME NEW a \in Articles, Enqueue(a) PROVE ThreadsInv'
  <2>1. /\ cyc' = cyc /\ UNCHANGED <<sent, faults, overlaps>>
        /\ rank[a] = 0 /\ \A b \in Articles : b # a => rank'[b] = rank[b]
        /\ \A x \in Rows : status'[x] = IF x \in RowsOf(a) THEN "pending" ELSE status[x]
    BY <1>1 DEF Enqueue, TypeInv, TypeOK
  <2>2. rank'[a] # 0
    <3>1. PICK n \in Nat : n = Cardinality({b \in Articles : rank[b] # 0})
      BY SetsAssumption, FS_Subset, FS_CardinalityType
    <3>2. rank' = [rank EXCEPT ![a] = 1 + n]  BY <1>1, <3>1 DEF Enqueue
    <3>. QED  BY <3>1, <3>2 DEF TypeInv, TypeOK
  <2>3. \A x \in RowsOf(a) : status[x] = "none"  BY <1>0, <2>1 DEF Known
  <2>4. Known'
    <3>1. ASSUME NEW b \in Articles, rank'[b] = 0, NEW x \in RowsOf(b)
          PROVE  status'[x] = "none"
      <4>1. b # a /\ rank[b] = 0  BY <2>1, <2>2, <3>1
      <4>2. x \notin RowsOf(a)  BY <4>1, RowsDiffer
      <4>3. x \in Rows /\ status[x] = "none"  BY <1>0, <3>1, <4>1 DEF Known
      <4>. QED  BY <2>1, <4>2, <4>3
    <3>2. ASSUME NEW d \in Cycles, NEW x \in cyc'[d].rows PROVE status'[x] # "none"
      <4>1. x \in cyc[d].rows  BY <2>1
      <4>2. x \in Rows  BY <4>1, RunIs DEF Run
      <4>3. status[x] # "none"  BY <1>0, <4>1 DEF Known
      <4>. QED  BY <2>1, <4>2, <4>3
    <3>. QED  BY <3>1, <3>2 DEF Known
  <2>5. \A x \in Rows : /\ status'[x] = "marked_posted" => status[x] = "marked_posted"
                        /\ status[x] \notin {"none", "pending"}
                             => status'[x] \notin {"none", "pending"}
    BY <2>1, <2>3
  <2>6. faults' >= faults  BY <2>1 DEF TypeInv, TypeOK
  <2>. QED  BY <2>1, <2>4, <2>5, <2>6, QueueKept
<1>2. ASSUME UNCHANGED <<rank, sent, overlaps>>, faults' >= faults,
             \A d \in Cycles : /\ cyc'[d].pc = cyc[d].pc /\ cyc'[d].todo = cyc[d].todo
                               /\ cyc'[d].rows = cyc[d].rows /\ cyc'[d].left = cyc[d].left
                               /\ cyc'[d].done = cyc[d].done,
             \A x \in Rows : \/ status'[x] = status[x]
                             \/ /\ status[x] = "pending"
                                /\ status'[x] \in {"sent_in_digest", "rejected"}
      PROVE  ThreadsInv'
  <2>1. Known'
    <3>1. \A b \in Articles : rank'[b] = 0 => \A x \in RowsOf(b) : status'[x] = "none"
      BY <1>0, <1>2 DEF Known
    <3>2. ASSUME NEW d \in Cycles, NEW x \in cyc'[d].rows PROVE status'[x] # "none"
      <4>1. x \in cyc[d].rows  BY <1>2
      <4>2. x \in Rows  BY <4>1, RunIs DEF Run
      <4>3. status[x] # "none"  BY <1>0, <4>1 DEF Known
      <4>. QED  BY <1>2, <4>2, <4>3
    <3>. QED  BY <3>1, <3>2 DEF Known
  <2>2. \A x \in Rows : /\ status'[x] = "marked_posted" => status[x] = "marked_posted"
                        /\ status[x] \notin {"none", "pending"}
                             => status'[x] \notin {"none", "pending"}
    BY <1>2
  <2>. QED  BY <1>2, <2>1, <2>2, QueueKept
<1>3. CASE DigestBegin \/ UNCHANGED vars
  <2>1. faults' >= faults  BY <1>3 DEF DigestBegin, vars, TypeInv, TypeOK
  <2>. QED  BY <1>2, <1>3, <2>1 DEF DigestBegin, vars, queueVars
<1>4. CASE DigestEnd \/ Sweep
  <2>1. UNCHANGED <<rank, sent, overlaps, cyc>>  BY <1>4 DEF DigestEnd, Sweep
  <2>3. faults' >= faults  BY <1>4 DEF DigestEnd, Sweep, Fault, TypeInv, TypeOK
  <2>2. \A x \in Rows : \/ status'[x] = status[x]
                        \/ /\ status[x] = "pending"
                           /\ status'[x] \in {"sent_in_digest", "rejected"}
    BY <1>4 DEF DigestEnd, Sweep
  <2>. QED  BY <1>2, <2>1, <2>2, <2>3
<1>5. CASE Tick
  <2>1. UNCHANGED <<rank, status, sent, overlaps>>  BY <1>5 DEF Tick
  <2>3. faults' >= faults  BY <1>5 DEF Tick, TypeInv, TypeOK
  <2>2. ASSUME NEW d \in Cycles
        PROVE  /\ cyc'[d].pc = cyc[d].pc /\ cyc'[d].todo = cyc[d].todo
               /\ cyc'[d].rows = cyc[d].rows /\ cyc'[d].left = cyc[d].left
               /\ cyc'[d].done = cyc[d].done
    BY <1>5, RunIs DEF Tick, Run
  <2>. QED  BY <1>2, <2>1, <2>2, <2>3
<1>. QED  BY <1>1, <1>3, <1>4, <1>5

LEMMA StepThreads == TypeInv /\ TypeInv' /\ ThreadsInv /\ [Next]_vars => ThreadsInv'
<1>. SUFFICES ASSUME TypeInv, TypeInv', ThreadsInv, [Next]_vars PROVE ThreadsInv'  OBVIOUS
<1>1. ASSUME NEW c \in Cycles, XCycle(c) PROVE ThreadsInv'
  BY <1>1, StartKept, BeginChainKept, PublishKept, AnsweredKept, ChainEndsKept DEF XCycle
<1>. QED  BY <1>1, CrashKept, QueueStepsKept DEF Next

LEMMA InitThreads == Init => ThreadsInv
<1>. SUFFICES ASSUME Init PROVE ThreadsInv  OBVIOUS
<1>0. /\ \A c \in Cycles : cyc[c] = Idle
      /\ \A k \in Posts : sent[k] = 0
      /\ \A x \in Rows : status[x] = "none"
      /\ faults = 0 /\ overlaps = 0
  BY DEF Init
<1>1. /\ Idle.pc = "idle" /\ Idle.left = {} /\ Idle.todo = {} /\ Idle.done = {}
      /\ Idle.rows = {}
  BY DEF Idle
<1>2. /\ \A a \in Articles : \A j \in DOMAIN Plan[a] : Idle.left # Chain(a, j)
      /\ \A a, i : ~Between(Idle, a, i)
      /\ \A k : ~MayPublish(Idle, k)
  BY <1>1, NoChain
<1>3. Shapes  BY <1>0, <1>1 DEF Shapes, ChainShape
<1>4. Known  BY <1>0, <1>1 DEF Known, Rows
<1>5. AllSent  BY <1>0, <1>2 DEF AllSent, SentOf
<1>6. MarkedWasSent  BY <1>0 DEF MarkedWasSent
<1>7. /\ \A a, i : Cardinality(Halfway(a, i)) = 0
      /\ \A k : Cardinality(Publishers(k)) = 0
  <2>1. (\A a, i : Halfway(a, i) = {}) /\ \A k : Publishers(k) = {}
    BY <1>0, <1>2 DEF Halfway, Publishers
  <2>. QED  BY <2>1, FS_EmptySet
<1>8. Prefix
  <2>1. ASSUME NEW a \in Articles, NEW i \in DOMAIN Plan[a] \ {1}
        PROVE  sent[<<a, i>>] + Cardinality(Halfway(a, i)) <= sent[<<a, i - 1>>]
    <3>1. i - 1 \in DOMAIN Plan[a]  BY ChainIs
    <3>2. <<a, i>> \in Posts /\ <<a, i - 1>> \in Posts  BY <3>1, ChainIs
    <3>3. sent[<<a, i>>] = 0 /\ sent[<<a, i - 1>>] = 0  BY <1>0, <3>2
    <3>4. Cardinality(Halfway(a, i)) = 0  BY <1>7
    <3>. QED  BY <3>3, <3>4
  <2>. QED  BY <2>1 DEF Prefix
<1>9. Counted /\ Unsent  BY <1>0, <1>7 DEF Counted, Unsent
<1>. QED  BY <1>3, <1>4, <1>5, <1>6, <1>8, <1>9 DEF ThreadsInv

LEMMA ThreadsAre == TypeInv /\ ThreadsInv => ThreadsIntact
<1>. SUFFICES ASSUME TypeInv, ThreadsInv PROVE ThreadsIntact  OBVIOUS
<1>1. NeverRepublished
  <2>1. ASSUME NEW k \in Posts PROVE sent[k] <= 1 + faults + overlaps
    <3>1. sent[k] + Cardinality(Publishers(k)) <= 1 + faults + overlaps
      BY DEF ThreadsInv, Counted
    <3>2. Cardinality(Publishers(k)) \in Nat  BY CyclesFinite DEF Publishers
    <3>3. sent[k] \in Nat /\ faults \in Nat /\ overlaps \in Nat  BY DEF TypeInv, TypeOK
    <3>. QED  BY <3>1, <3>2, <3>3
  <2>. QED  BY <2>1 DEF NeverRepublished
<1>2. PrefixPublished
  <2>1. ASSUME NEW a \in Articles, NEW i \in DOMAIN Plan[a] \ {1}
        PROVE  sent[<<a, i>>] <= sent[<<a, i - 1>>]
    <3>1. i - 1 \in DOMAIN Plan[a]  BY ChainIs
    <3>2. <<a, i>> \in Posts /\ <<a, i - 1>> \in Posts  BY <3>1, ChainIs
    <3>3. sent[<<a, i>>] + Cardinality(Halfway(a, i)) <= sent[<<a, i - 1>>]
      BY DEF ThreadsInv, Prefix
    <3>4. Cardinality(Halfway(a, i)) \in Nat  BY CyclesFinite DEF Halfway
    <3>5. sent[<<a, i>>] \in Nat /\ sent[<<a, i - 1>>] \in Nat
      BY <3>2 DEF TypeInv, TypeOK
    <3>. QED  BY <3>3, <3>4, <3>5
  <2>. QED  BY <2>1 DEF PrefixPublished
<1>. QED  BY <1>1, <1>2 DEF ThreadsInv, ThreadsIntact

\* What is on X and what the queue says of it agree: a post goes out again only
\* for a crash, a lost answer, a failed write or an overlap, no part of a thread
\* more often than the one before it, and only rows of which something is on X
\* are marked.
THEOREM ThreadsIntactHolds == Spec => []ThreadsIntact
<1>1. Spec => []TypeInv  BY InitType, StepType, PTL DEF Spec
<1>2. TypeInv /\ TypeInv' /\ ThreadsInv /\ [Next]_vars => ThreadsInv'  BY StepThreads
<1>3. Spec => []ThreadsInv  BY <1>1, <1>2, InitThreads, PTL DEF Spec
<1>. QED  BY <1>1, <1>3, ThreadsAre, PTL

-----------------------------------------------------------------------------
(* The rows of a rolling day.  The count is read at the start of a run, and *)
(* while no run overlaps another only that run adds to it.                  *)

RowBudget ==
  overlaps = 0 =>
    /\ \A c, d \in Cycles : Running(c) /\ Running(d) => c = d
    /\ \A c \in Cycles : Running(c) =>
         Cardinality(InWindow) + Cardinality(cyc[c].done) <= Spent(c)
    /\ (\A c \in Cycles : ~Running(c)) => Cardinality(InWindow) <= MaxPerDay

LEMMA RowSets ==
  ASSUME NEW S \in SUBSET Rows, NEW T \in SUBSET Rows
  PROVE  /\ IsFiniteSet(S) /\ Cardinality(S) \in Nat
         /\ Cardinality(S \cup T) <= Cardinality(S) + Cardinality(T)
         /\ S \subseteq T => Cardinality(S) <= Cardinality(T)
         /\ \A x : Cardinality(S \cup {x}) <= Cardinality(S) + 1
<1>1. IsFiniteSet(S) /\ IsFiniteSet(T)  BY RowsFinite, FS_Subset
<1>2. Cardinality(S) \in Nat /\ Cardinality(T) \in Nat /\ Cardinality(S \cap T) \in Nat
  BY <1>1, FS_Subset, FS_CardinalityType
<1>3. Cardinality(S \cup T) = Cardinality(S) + Cardinality(T) - Cardinality(S \cap T)
  BY <1>1, FS_Union
<1>4. Cardinality(S \cup T) <= Cardinality(S) + Cardinality(T)  BY <1>2, <1>3
<1>5. S \subseteq T => Cardinality(S) <= Cardinality(T)  BY <1>1, FS_Subset
<1>6. ASSUME NEW x PROVE Cardinality(S \cup {x}) <= Cardinality(S) + 1
  <2>1. Cardinality(S \cup {x}) = IF x \in S THEN Cardinality(S) ELSE Cardinality(S) + 1
    BY <1>1, FS_AddElement
  <2>. QED  BY <1>2, <2>1
<1>. QED  BY <1>1, <1>2, <1>4, <1>5, <1>6

LEMMA WindowRows == InWindow \subseteq Rows /\ InWindow' \subseteq Rows
  BY DEF InWindow

\* The run that is in progress moves on, and has paid for the rows it marks.
LEMMA BudgetMove ==
  ASSUME TypeInv, TypeInv', RowBudget, NEW c \in Cycles, NEW r \in Run,
         cyc' = [cyc EXCEPT ![c] = r], overlaps' = overlaps, Running(c), r.pc # "idle",
         Cardinality(InWindow') + Cardinality(r.done) + cyc[c].already + cyc[c].posted
           <= Cardinality(InWindow) + Cardinality(cyc[c].done) + r.already + r.posted
  PROVE  RowBudget'
<1>. SUFFICES ASSUME overlaps' = 0
              PROVE  /\ \A d, e \in Cycles : Running(d)' /\ Running(e)' => d = e
                     /\ \A d \in Cycles : Running(d)' =>
                          Cardinality(InWindow') + Cardinality(cyc'[d].done) <= Spent(d)'
                     /\ ~ \A d \in Cycles : ~Running(d)'
  BY DEF RowBudget
<1>1. cyc'[c] = r /\ \A d \in Cycles \ {c} : cyc'[d] = cyc[d]
  BY DEF TypeInv, TypeOK
<1>2. /\ \A d \in Cycles : Running(d) => d = c
      /\ Cardinality(InWindow) + Cardinality(cyc[c].done) <= cyc[c].already + cyc[c].posted
  BY DEF RowBudget, Spent
<1>3. \A d \in Cycles : Running(d)' <=> d = c  BY <1>1, <1>2 DEF Running
<1>4. /\ cyc[c].already \in Nat /\ cyc[c].posted \in Nat /\ cyc[c].done \subseteq Rows
      /\ r.already \in Nat /\ r.posted \in Nat /\ r.done \subseteq Rows
  BY RunIs DEF Run
<1>5. /\ Cardinality(InWindow) \in Nat /\ Cardinality(InWindow') \in Nat
      /\ Cardinality(cyc[c].done) \in Nat /\ Cardinality(r.done) \in Nat
  BY <1>4, RowSets, WindowRows
<1>6. Cardinality(InWindow') + Cardinality(r.done) <= r.already + r.posted
  BY <1>2, <1>4, <1>5
<1>7. \A d \in Cycles : Running(d)' =>
        Cardinality(InWindow') + Cardinality(cyc'[d].done) <= Spent(d)'
  BY <1>1, <1>3, <1>6 DEF Spent
<1>. QED  BY <1>3, <1>7

\* While no run overlaps another the cap holds, in progress or not.
LEMMA BudgetCap == TypeInv /\ ChainFits /\ RowBudget => RowCap
<1>. SUFFICES ASSUME TypeInv, ChainFits, RowBudget, overlaps = 0
              PROVE  Cardinality(InWindow) <= MaxPerDay
  BY DEF RowCap
<1>1. CASE \A c \in Cycles : ~Running(c)  BY <1>1 DEF RowBudget
<1>2. ASSUME NEW c \in Cycles, Running(c) PROVE Cardinality(InWindow) <= MaxPerDay
  <2>1. Cardinality(InWindow) + Cardinality(cyc[c].done) <= Spent(c)
    BY <1>2 DEF RowBudget
  <2>2. Spent(c) + Cardinality(cyc[c].left) <= MaxPerDay  BY <1>2 DEF ChainFits
  <2>3. /\ cyc[c].already \in Nat /\ cyc[c].posted \in Nat
        /\ cyc[c].done \subseteq Rows /\ cyc[c].left \subseteq Posts
    BY RunIs DEF Run
  <2>4. Spent(c) \in Nat  BY <2>3 DEF Spent
  <2>5. Cardinality(cyc[c].left) \in Nat
    BY <2>3, PostsFinite, FS_Subset, FS_CardinalityType
  <2>6. Cardinality(InWindow) \in Nat /\ Cardinality(cyc[c].done) \in Nat
    BY <2>3, RowSets, WindowRows
  <2>. QED  BY <2>1, <2>2, <2>4, <2>5, <2>6, NumbersAssumption
<1>. QED  BY <1>1, <1>2

\* No row enters the window and the runs have spent what they had.
LEMMA WindowShrinks ==
  ASSUME TypeInv, RowBudget, overlaps' = overlaps, InWindow' \subseteq InWindow,
         \A d \in Cycles : /\ cyc'[d].pc = cyc[d].pc /\ cyc'[d].done = cyc[d].done
                           /\ cyc'[d].already = cyc[d].already
                           /\ cyc'[d].posted = cyc[d].posted
  PROVE  RowBudget'
<1>1. Cardinality(InWindow') <= Cardinality(InWindow)  BY RowSets, WindowRows
<1>2. Cardinality(InWindow') \in Nat /\ Cardinality(InWindow) \in Nat
  BY RowSets, WindowRows
<1>3. /\ \A d \in Cycles : Running(d)' <=> Running(d)
      /\ \A d \in Cycles : Spent(d)' = Spent(d)
  BY DEF Running, Spent
<1>4. ASSUME NEW d \in Cycles,
             Cardinality(InWindow) + Cardinality(cyc[d].done) <= Spent(d)
      PROVE  Cardinality(InWindow') + Cardinality(cyc'[d].done) <= Spent(d)'
  <2>1. cyc[d].done \subseteq Rows /\ cyc[d].already \in Nat /\ cyc[d].posted \in Nat
    BY RunIs DEF Run
  <2>2. Cardinality(cyc[d].done) \in Nat  BY <2>1, RowSets
  <2>3. Spent(d) \in Nat  BY <2>1 DEF Spent
  <2>4. cyc'[d].done = cyc[d].done  OBVIOUS
  <2>. QED  BY <1>1, <1>2, <1>3, <1>4, <2>2, <2>3, <2>4
<1>5. Cardinality(InWindow) <= MaxPerDay => Cardinality(InWindow') <= MaxPerDay
  BY <1>1, <1>2, NumbersAssumption
<1>. QED  BY <1>3, <1>4, <1>5 DEF RowBudget

LEMMA EndChainBudget ==
  ASSUME TypeInv, TypeInv', RowBudget, NEW c \in Cycles, Running(c), NEW posted \in Nat,
         NEW ids \in SUBSET Rows, EndChain(c, posted, ids), overlaps' = overlaps,
         Cardinality(ids) + cyc[c].posted <= Cardinality(cyc[c].done) + posted
  PROVE  RowBudget'
<1>1. PICK r : r = [cyc[c] EXCEPT !.pc = "next", !.left = {}, !.done = {}, !.posted = posted]
  OBVIOUS
<1>2. /\ r \in Run /\ r.pc = "next" /\ r.done = {} /\ r.posted = posted
      /\ r.already = cyc[c].already
  BY <1>1, RunIs DEF Run
<1>3. cyc' = [cyc EXCEPT ![c] = r]  BY <1>1, RunIs DEF EndChain
<1>4. InWindow' \subseteq InWindow \cup ids  BY DEF EndChain, MarkPosted, InWindow
<1>5. InWindow \cup ids \subseteq Rows  BY WindowRows
<1>6. Cardinality(InWindow') <= Cardinality(InWindow \cup ids)
  BY <1>4, <1>5, RowSets, WindowRows
<1>7. Cardinality(InWindow \cup ids) <= Cardinality(InWindow) + Cardinality(ids)
  BY RowSets, WindowRows
<1>8. /\ Cardinality(InWindow') \in Nat /\ Cardinality(InWindow \cup ids) \in Nat
      /\ Cardinality(InWindow) \in Nat /\ Cardinality(ids) \in Nat
  BY <1>5, RowSets, WindowRows
<1>9. cyc[c].already \in Nat /\ cyc[c].posted \in Nat /\ cyc[c].done \subseteq Rows
  BY RunIs DEF Run
<1>10. Cardinality(cyc[c].done) \in Nat /\ Cardinality(r.done) = 0
  BY <1>2, <1>9, RowSets, FS_EmptySet
<1>11. Cardinality(InWindow') + Cardinality(r.done) + cyc[c].already + cyc[c].posted
         <= Cardinality(InWindow) + Cardinality(cyc[c].done) + r.already + r.posted
  BY <1>2, <1>6, <1>7, <1>8, <1>9, <1>10
<1>. QED  BY <1>2, <1>3, <1>11, BudgetMove

LEMMA StartBudget ==
  ASSUME TypeInv, TypeInv', RowBudget, NEW c \in Cycles, Start(c)
  PROVE  RowBudget'
<1>. SUFFICES ASSUME overlaps' = 0 PROVE RowBudget'  BY DEF RowBudget
<1>1. PICK r : /\ r = [Idle EXCEPT !.pc = "next", !.todo = FreshArticles,
                         !.rows = UNION {Pending(a) : a \in FreshArticles},
                         !.already = CountSince]
               /\ cyc' = [cyc EXCEPT ![c] = r]
  BY DEF Start
<1>2. r.pc = "next" /\ r.done = {} /\ r.already = CountSince /\ r.posted = 0
  BY <1>1 DEF Idle
<1>3. InWindow' = InWindow  BY DEF Start, queueVars, InWindow
<1>4. \A d \in Cycles : ~Running(d)
  <2>1. overlaps \in Nat  BY DEF TypeInv, TypeOK
  <2>. QED  BY <2>1 DEF Start
<1>5. cyc'[c] = r /\ \A d \in Cycles \ {c} : cyc'[d] = cyc[d]
  BY <1>1 DEF TypeInv, TypeOK
<1>6. \A d \in Cycles : Running(d)' <=> d = c  BY <1>2, <1>4, <1>5 DEF Running
<1>7. Cardinality(InWindow') + Cardinality(r.done) <= r.already + r.posted
  <2>1. Cardinality(r.done) = 0  BY <1>2, FS_EmptySet
  <2>2. Cardinality(InWindow) \in Nat  BY RowSets, WindowRows
  <2>. QED  BY <1>2, <1>3, <2>1, <2>2 DEF CountSince
<1>8. \A d \in Cycles : Running(d)' =>
        Cardinality(InWindow') + Cardinality(cyc'[d].done) <= Spent(d)'
  BY <1>5, <1>6, <1>7 DEF Spent
<1>. QED  BY <1>6, <1>8 DEF RowBudget

\* A run that ends leaves what BudgetCap says.
LEMMA EndBudget ==
  ASSUME TypeInv, ChainFits, RowBudget, overlaps' = overlaps,
         InWindow' = InWindow, \A d \in Cycles : ~Running(d)'
  PROVE  RowBudget'
<1>1. overlaps' = 0 => Cardinality(InWindow') <= MaxPerDay  BY BudgetCap DEF RowCap
<1>. QED  BY <1>1 DEF RowBudget

LEMMA BeginChainBudget ==
  ASSUME TypeInv, TypeInv', ChainFits, RowBudget, NEW c \in Cycles, BeginChain(c)
  PROVE  RowBudget'
<1>0. /\ cyc[c] \in Run /\ cyc \in [Cycles -> Run] /\ cyc[c].pc = "next" /\ Running(c)
  BY RunIs DEF BeginChain, Running
<1>1. InWindow' = InWindow /\ overlaps' = overlaps  BY DEF BeginChain, queueVars, InWindow
<1>2. CASE cyc' = [cyc EXCEPT ![c] = Idle]
  <2>. SUFFICES ASSUME overlaps = 0 PROVE RowBudget'  BY <1>1 DEF RowBudget
  <2>1. \A d \in Cycles : Running(d) => d = c  BY <1>0 DEF RowBudget
  <2>2. cyc'[c] = Idle /\ \A d \in Cycles \ {c} : cyc'[d] = cyc[d]  BY <1>0, <1>2
  <2>3. \A d \in Cycles : ~Running(d)'  BY <2>1, <2>2, IdleType DEF Running
  <2>. QED  BY <1>1, <2>3, EndBudget
<1>3. ASSUME NEW r \in Run, cyc' = [cyc EXCEPT ![c] = r], r.pc # "idle",
             r.done = cyc[c].done, r.already = cyc[c].already, r.posted = cyc[c].posted
      PROVE  RowBudget'
  <2>1. /\ Cardinality(InWindow) \in Nat /\ Cardinality(cyc[c].done) \in Nat
        /\ cyc[c].already \in Nat /\ cyc[c].posted \in Nat
    <3>1. cyc[c].done \subseteq Rows  BY <1>0 DEF Run
    <3>. QED  BY <1>0, <3>1, RowSets, WindowRows DEF Run
  <2>2. Cardinality(InWindow') + Cardinality(r.done) + cyc[c].already + cyc[c].posted
          <= Cardinality(InWindow) + Cardinality(cyc[c].done) + r.already + r.posted
    BY <1>1, <1>3, <2>1
  <2>. QED  BY <1>0, <1>1, <1>3, <2>2, BudgetMove
<1>4. ASSUME NEW a \in Articles, cyc' = [cyc EXCEPT ![c].todo = @ \ {a}] PROVE RowBudget'
  <2>1. PICK r : r = [cyc[c] EXCEPT !.todo = cyc[c].todo \ {a}]  OBVIOUS
  <2>2. /\ r \in Run /\ r.pc = "next" /\ r.done = cyc[c].done
        /\ r.already = cyc[c].already /\ r.posted = cyc[c].posted
    BY <1>0, <2>1 DEF Run
  <2>3. cyc' = [cyc EXCEPT ![c] = r]  BY <1>0, <1>4, <2>1
  <2>. QED  BY <1>3, <2>2, <2>3
<1>5. ASSUME NEW a \in Articles,
             cyc' = [cyc EXCEPT ![c].pc = "send", ![c].todo = @ \ {a},
                                ![c].left = Planned(c, a)]
      PROVE  RowBudget'
  <2>0. PICK P : P = Planned(c, a)  OBVIOUS
  <2>1. PICK r : r = [cyc[c] EXCEPT !.pc = "send", !.todo = cyc[c].todo \ {a}, !.left = P]
    OBVIOUS
  <2>2. P \subseteq Posts  BY <2>0, PlannedPosts
  <2>3. /\ r \in Run /\ r.pc = "send" /\ r.done = cyc[c].done
        /\ r.already = cyc[c].already /\ r.posted = cyc[c].posted
    BY <1>0, <2>1, <2>2 DEF Run
  <2>4. cyc' = [cyc EXCEPT ![c] = r]  BY <1>0, <1>5, <2>0, <2>1
  <2>. QED  BY <1>3, <2>3, <2>4
<1>. QED  BY <1>2, <1>4, <1>5 DEF BeginChain

LEMMA PublishBudget ==
  ASSUME TypeInv, TypeInv', RowBudget, NEW c \in Cycles, Publish(c)
  PROVE  RowBudget'
<1>1. cyc' = [cyc EXCEPT ![c].pc = "answer"] /\ cyc[c].pc = "send" /\ overlaps' = overlaps
  BY DEF Publish
<1>2. InWindow' = InWindow  BY DEF Publish, queueVars, InWindow
<1>3. PICK r : r = [cyc[c] EXCEPT !.pc = "answer"]  OBVIOUS
<1>4. /\ r \in Run /\ r.pc = "answer" /\ r.done = cyc[c].done
      /\ r.already = cyc[c].already /\ r.posted = cyc[c].posted
  BY <1>3, RunIs DEF Run
<1>5. cyc' = [cyc EXCEPT ![c] = r] /\ Running(c)  BY <1>1, <1>3, RunIs DEF Running
<1>6. /\ cyc[c].done \subseteq Rows /\ cyc[c].already \in Nat /\ cyc[c].posted \in Nat
  BY RunIs DEF Run
<1>7. Cardinality(InWindow) \in Nat /\ Cardinality(cyc[c].done) \in Nat
  BY <1>6, RowSets, WindowRows
<1>8. Cardinality(InWindow') + Cardinality(r.done) + cyc[c].already + cyc[c].posted
        <= Cardinality(InWindow) + Cardinality(cyc[c].done) + r.already + r.posted
  BY <1>2, <1>4, <1>6, <1>7
<1>. QED  BY <1>1, <1>4, <1>5, <1>8, BudgetMove

LEMMA AnsweredBudget ==
  ASSUME TypeInv, TypeInv', RowBudget, NEW c \in Cycles, Answered(c)
  PROVE  RowBudget'
<1>0. /\ cyc[c] \in Run /\ cyc \in [Cycles -> Run] /\ Running(c)
      /\ cyc[c].done \subseteq Rows /\ cyc[c].left \subseteq Posts
      /\ cyc[c].already \in Nat /\ cyc[c].posted \in Nat /\ overlaps' = overlaps
  BY RunIs DEF Answered, Running, Run
<1>1. PICK k \in Posts : /\ IsStep(c, k)
                         /\ IF cyc[c].left = {k}
                            THEN EndChain(c, cyc[c].posted + 1, cyc[c].done \cup {RowOf(k)})
                            ELSE /\ cyc' = [cyc EXCEPT ![c].pc = "send", ![c].left = @ \ {k},
                                               ![c].done = @ \cup {RowOf(k)}, ![c].posted = @ + 1]
                                 /\ UNCHANGED <<status, marked>>
  BY DEF Answered
<1>2. PICK done : done = cyc[c].done \cup {RowOf(k)}  OBVIOUS
<1>3. done \subseteq Rows  BY <1>0, <1>2, PostIsOfArticle
<1>4. /\ Cardinality(done) \in Nat /\ Cardinality(cyc[c].done) \in Nat
      /\ Cardinality(InWindow) \in Nat
  BY <1>0, <1>3, RowSets, WindowRows
<1>5. Cardinality(done) <= Cardinality(cyc[c].done) + 1  BY <1>0, <1>2, RowSets
<1>6. CASE cyc[c].left = {k}
  <2>1. EndChain(c, cyc[c].posted + 1, done)  BY <1>1, <1>2, <1>6
  <2>2. cyc[c].posted + 1 \in Nat  BY <1>0
  <2>3. Cardinality(done) + cyc[c].posted <= Cardinality(cyc[c].done) + (cyc[c].posted + 1)
    BY <1>0, <1>4, <1>5
  <2>. QED  BY <1>0, <1>3, <2>1, <2>2, <2>3, EndChainBudget
<1>7. CASE cyc[c].left # {k}
  <2>1. PICK r : r = [cyc[c] EXCEPT !.pc = "send", !.left = cyc[c].left \ {k}, !.done = done,
                                    !.posted = cyc[c].posted + 1]
    OBVIOUS
  <2>2. /\ r \in Run /\ r.pc = "send" /\ r.done = done /\ r.already = cyc[c].already
        /\ r.posted = cyc[c].posted + 1
    <3>1. cyc[c].left \ {k} \subseteq Posts /\ cyc[c].posted + 1 \in Nat  BY <1>0
    <3>. QED  BY <1>0, <1>3, <2>1, <3>1 DEF Run
  <2>3. cyc' = [cyc EXCEPT ![c] = r]  BY <1>0, <1>1, <1>2, <1>7, <2>1
  <2>4. InWindow' = InWindow  BY <1>1, <1>7 DEF InWindow
  <2>5. Cardinality(InWindow') + Cardinality(r.done) + cyc[c].already + cyc[c].posted
          <= Cardinality(InWindow) + Cardinality(cyc[c].done) + r.already + r.posted
    BY <1>0, <1>4, <1>5, <2>2, <2>4
  <2>. QED  BY <1>0, <2>2, <2>3, <2>5, BudgetMove
<1>. QED  BY <1>6, <1>7

LEMMA ChainEndsBudget ==
  ASSUME TypeInv, TypeInv', RowBudget, NEW c \in Cycles,
         Unrecorded(c) \/ PostFails(c) \/ PostFailsUnrecorded(c)
  PROVE  RowBudget'
<1>0. /\ Running(c) /\ overlaps' = overlaps
      /\ cyc[c].done \subseteq Rows /\ cyc[c].posted \in Nat /\ cyc[c].posted + 1 \in Nat
  BY RunIs DEF Unrecorded, PostFails, PostFailsUnrecorded, Running, Run
<1>1. /\ Cardinality(cyc[c].done) \in Nat /\ Cardinality({}) = 0 /\ {} \in SUBSET Rows
  BY <1>0, RowSets, FS_EmptySet
<1>2. CASE Unrecorded(c)
  <2>1. EndChain(c, cyc[c].posted + 1, {})  BY <1>2 DEF Unrecorded
  <2>2. Cardinality({}) + cyc[c].posted <= Cardinality(cyc[c].done) + (cyc[c].posted + 1)
    BY <1>0, <1>1
  <2>. QED  BY <1>0, <1>1, <2>1, <2>2, EndChainBudget
<1>3. CASE PostFails(c)
  <2>1. EndChain(c, cyc[c].posted, cyc[c].done)  BY <1>3 DEF PostFails
  <2>2. Cardinality(cyc[c].done) + cyc[c].posted <= Cardinality(cyc[c].done) + cyc[c].posted
    BY <1>0, <1>1
  <2>. QED  BY <1>0, <2>1, <2>2, EndChainBudget
<1>4. CASE PostFailsUnrecorded(c)
  <2>1. EndChain(c, cyc[c].posted, {})  BY <1>4 DEF PostFailsUnrecorded
  <2>2. Cardinality({}) + cyc[c].posted <= Cardinality(cyc[c].done) + cyc[c].posted
    BY <1>0, <1>1
  <2>. QED  BY <1>0, <1>1, <2>1, <2>2, EndChainBudget
<1>. QED  BY <1>2, <1>3, <1>4

LEMMA StepBudget ==
  TypeInv /\ TypeInv' /\ ChainFits /\ RowBudget /\ [Next]_vars => RowBudget'
<1>. SUFFICES ASSUME TypeInv, TypeInv', ChainFits, RowBudget, [Next]_vars PROVE RowBudget'
  OBVIOUS
<1>1. ASSUME NEW c \in Cycles, XCycle(c) PROVE RowBudget'
  BY <1>1, StartBudget, BeginChainBudget, PublishBudget, AnsweredBudget, ChainEndsBudget
     DEF XCycle
<1>2. CASE Crash
  <2>1. InWindow' = InWindow /\ overlaps' = overlaps /\ \A d \in Cycles : ~Running(d)'
    BY <1>2, IdleType DEF Crash, queueVars, InWindow, Running
  <2>. QED  BY <2>1, EndBudget
<1>3. CASE Tick
  <2>1. InWindow' \subseteq InWindow
    <3>1. ASSUME NEW x \in InWindow' PROVE x \in InWindow
      <4>1. x \in Rows /\ status[x] = "marked_posted" /\ marked'[x] < Window
        BY <1>3 DEF InWindow, Tick
      <4>2. marked'[x] = Older(marked[x], Window)  BY <1>3, <4>1 DEF Tick
      <4>3. marked[x] \in 0 .. Window  BY <4>1 DEF TypeInv, TypeOK
      <4>4. marked[x] < Window  BY <4>1, <4>2, <4>3, NumbersAssumption DEF Older
      <4>. QED  BY <4>1, <4>4 DEF InWindow
    <3>. QED  BY <3>1
  <2>2. \A d \in Cycles : /\ cyc'[d].pc = cyc[d].pc /\ cyc'[d].done = cyc[d].done
                          /\ cyc'[d].already = cyc[d].already
                          /\ cyc'[d].posted = cyc[d].posted
    BY <1>3, RunIs DEF Tick, Run
  <2>3. overlaps' = overlaps  BY <1>3 DEF Tick
  <2>. QED  BY <2>1, <2>2, <2>3, WindowShrinks
<1>4. CASE DigestBegin \/ DigestEnd \/ Sweep \/ UNCHANGED vars
  <2>1. UNCHANGED <<cyc, overlaps>> /\ InWindow' \subseteq InWindow
    BY <1>4 DEF DigestBegin, DigestEnd, Sweep, vars, queueVars, InWindow
  <2>. QED  BY <2>1, WindowShrinks
<1>5. ASSUME NEW a \in Articles, Enqueue(a) PROVE RowBudget'
  <2>1. UNCHANGED <<cyc, overlaps>> /\ InWindow' \subseteq InWindow
    BY <1>5 DEF Enqueue, InWindow
  <2>. QED  BY <2>1, WindowShrinks
<1>. QED  BY <1>1, <1>2, <1>3, <1>4, <1>5 DEF Next

\* Without overlapping runs no rolling day holds more marked rows than the budget.
THEOREM RowCapHolds == Spec => []RowCap
<1>1. Spec => []TypeInv  BY InitType, StepType, PTL DEF Spec
<1>2. Init => RowBudget
  <2>1. ASSUME Init PROVE InWindow = {} /\ \A c \in Cycles : ~Running(c)
    BY <2>1, IdleType DEF Init, InWindow, Running
  <2>. QED  BY <2>1, FS_EmptySet, NumbersAssumption DEF RowBudget
<1>3. TypeInv /\ TypeInv' /\ ChainFits /\ RowBudget /\ [Next]_vars => RowBudget'
  BY StepBudget
<1>4. Spec => []RowBudget  BY <1>1, <1>2, <1>3, ChainFitsHolds, PTL DEF Spec
<1>. QED  BY <1>1, <1>4, ChainFitsHolds, BudgetCap, PTL

-----------------------------------------------------------------------------
(* The email and the runs.  Nothing but the pending status keeps the two   *)
(* apart, and it is read before the mail and before the first post: what a *)
(* row in an email owes is that no run has it listed, and what a row on X  *)
(* owes is that the run that posted it still holds it or has marked it.    *)

OnX(r) == \E k \in Posts : RowOf(k) = r /\ sent[k] > 0

\* The run has posted something of r and will mark it.
HasPosted(run, r) ==
  \/ r \in run.done
  \/ /\ run.pc = "answer"
     /\ \E k \in run.left : RowOf(k) = r /\ \A l \in run.left : k[2] <= l[2]

Settled(r) == status[r] \notin {"none", "pending"}
Listed(r)  == \E c \in Cycles : r \in cyc[c].rows

ApartAt(r) ==
  /\ r \in digest => status[r] # "none" /\ ~OnX(r) /\ ~Listed(r)
  /\ r \in emailed => Settled(r) /\ ~OnX(r) /\ ~Listed(r)
  /\ OnX(r) => Settled(r) \/ \E c \in Cycles : HasPosted(cyc[c], r)

Apart == faults = 0 => \A r \in Rows \ crossed : ApartAt(r)

\* What a run has posted or will post is on its list.
LEMMA HeldRows ==
  ASSUME TypeInv, ThreadsInv, NEW c \in Cycles
  PROVE  /\ \A k \in cyc[c].left : RowOf(k) \in cyc[c].rows
         /\ \A r : HasPosted(cyc[c], r) => r \in cyc[c].rows /\ cyc[c].left # {}
<1>0. ChainShape(cyc[c]) /\ cyc[c].left \subseteq Posts
  BY RunIs DEF ThreadsInv, Shapes, Run
<1>1. CASE cyc[c].left = {}
  BY <1>0, <1>1 DEF ChainShape, HasPosted
<1>2. CASE cyc[c].left # {}
  <2>1. PICK a \in Articles : \E j \in DOMAIN Plan[a] :
          /\ cyc[c].left = Chain(a, j) /\ RowsOf(a) \subseteq cyc[c].rows
          /\ cyc[c].done = {RowOf(<<a, i>>) : i \in 1 .. j - 1}
    BY <1>0, <1>2 DEF ChainShape
  <2>2. PICK j \in DOMAIN Plan[a] :
          /\ cyc[c].left = Chain(a, j) /\ RowsOf(a) \subseteq cyc[c].rows
          /\ cyc[c].done = {RowOf(<<a, i>>) : i \in 1 .. j - 1}
    BY <2>1
  <2>3. ASSUME NEW i \in DOMAIN Plan[a] PROVE RowOf(<<a, i>>) \in RowsOf(a)
    <3>1. Plan[a][i] \in 1 .. Parts[a]  BY PlanAssumption, SeqElement
    <3>. QED  BY <3>1 DEF RowOf, RowsOf
  <2>4. \A k \in cyc[c].left : RowOf(k) \in cyc[c].rows
    <3>1. \A k \in Chain(a, j) : k = <<a, k[2]>> /\ k[2] \in DOMAIN Plan[a]
      <4>. SUFFICES ASSUME NEW k \in Chain(a, j)
                    PROVE  k = <<a, k[2]>> /\ k[2] \in DOMAIN Plan[a]
        OBVIOUS
      <4>1. k \in Posts /\ k[1] = a  BY <2>2, ChainIs
      <4>. QED  BY <4>1, PostIsOfArticle
    <3>. QED  BY <2>2, <2>3, <3>1
  <2>5. cyc[c].done \subseteq cyc[c].rows
    <3>1. \A i \in 1 .. j - 1 : i \in DOMAIN Plan[a]  BY ChainIs
    <3>. QED  BY <2>2, <2>3, <3>1
  <2>. QED  BY <1>2, <2>4, <2>5 DEF HasPosted
<1>. QED  BY <1>1, <1>2

\* A run moves on, keeping or marking what it has posted and listing no more.
LEMMA ApartMove ==
  ASSUME TypeInv, TypeInv', Apart, NEW c \in Cycles, NEW r, cyc' = [cyc EXCEPT ![c] = r],
         r.rows \subseteq cyc[c].rows, UNCHANGED <<mailVars, sent>>, faults' = faults,
         \A x \in Rows : Settled(x) => Settled(x)',
         \A x \in Rows : status[x] # "none" => status'[x] # "none",
         \A x \in Rows : HasPosted(cyc[c], x) => HasPosted(r, x) \/ Settled(x)'
  PROVE  Apart'
<1>. SUFFICES ASSUME faults = 0, NEW x \in Rows \ crossed PROVE ApartAt(x)'
  BY DEF Apart, mailVars
<1>1. ApartAt(x)  BY DEF Apart
<1>2. OnX(x)' <=> OnX(x)  BY DEF OnX
<1>3. cyc'[c] = r /\ \A d \in Cycles \ {c} : cyc'[d] = cyc[d]  BY DEF TypeInv, TypeOK
<1>4. Listed(x)' => Listed(x)  BY <1>3 DEF Listed
<1>5. ASSUME NEW d \in Cycles, HasPosted(cyc[d], x)
      PROVE  Settled(x)' \/ HasPosted(cyc'[d], x)
  <2>1. CASE d = c  BY <1>3, <1>5, <2>1
  <2>2. CASE d # c  BY <1>3, <1>5, <2>2
  <2>. QED  BY <2>1, <2>2
<1>6. OnX(x)' => Settled(x)' \/ \E d \in Cycles : HasPosted(cyc'[d], x)
  BY <1>1, <1>2, <1>5 DEF ApartAt
<1>7. x \in digest' => status'[x] # "none" /\ ~OnX(x)' /\ ~Listed(x)'
  BY <1>1, <1>2, <1>4 DEF ApartAt, mailVars
<1>8. x \in emailed' => Settled(x)' /\ ~OnX(x)' /\ ~Listed(x)'
  BY <1>1, <1>2, <1>4 DEF ApartAt, mailVars
<1>9. (\E d \in Cycles : HasPosted(cyc'[d], x)) => (\E d \in Cycles : HasPosted(cyc[d], x))'
  BY DEF HasPosted
<1>. QED  BY <1>6, <1>7, <1>8, <1>9 DEF ApartAt

\* A chain that ends marks all it has posted.
LEMMA EndChainApart ==
  ASSUME TypeInv, TypeInv', ThreadsInv, Apart, NEW c \in Cycles, NEW posted, NEW ids,
         EndChain(c, posted, ids), UNCHANGED <<mailVars, sent>>, faults' = faults,
         \A x : HasPosted(cyc[c], x) => x \in ids
  PROVE  Apart'
<1>0. cyc \in [Cycles -> Run] /\ status \in [Rows -> Statuses] /\ cyc[c].rows \subseteq Rows
  BY RunIs DEF TypeInv, TypeOK, Run
<1>1. PICK r : r = [cyc[c] EXCEPT !.pc = "next", !.left = {}, !.done = {}, !.posted = posted]
  OBVIOUS
<1>2. cyc' = [cyc EXCEPT ![c] = r]  BY <1>0, <1>1 DEF EndChain
<1>3. r.rows = cyc[c].rows  BY <1>0, <1>1 DEF Run
<1>4. \A x \in Rows : status'[x] = IF x \in ids /\ status[x] = "pending" THEN "marked_posted"
                                   ELSE status[x]
  BY DEF EndChain, MarkPosted
<1>5. /\ \A x \in Rows : Settled(x) => Settled(x)'
      /\ \A x \in Rows : status[x] # "none" => status'[x] # "none"
  BY <1>4 DEF Settled
<1>6. ASSUME NEW x \in Rows, HasPosted(cyc[c], x) PROVE Settled(x)'
  <2>1. x \in ids /\ x \in cyc[c].rows  BY <1>6, HeldRows
  <2>2. status[x] # "none"  BY <2>1 DEF ThreadsInv, Known
  <2>. QED  BY <1>4, <2>1, <2>2 DEF Settled
<1>. QED  BY <1>2, <1>3, <1>5, <1>6, ApartMove

LEMMA StartApart ==
  ASSUME TypeInv, TypeInv', ThreadsInv, Apart, NEW c \in Cycles, Start(c)
  PROVE  Apart'
<1>. DEFINE listed == UNION {Pending(a) : a \in FreshArticles}
<1>. SUFFICES ASSUME faults = 0, NEW x \in Rows \ crossed' PROVE ApartAt(x)'
  BY DEF Apart, Start
<1>0. UNCHANGED <<status, digest, emailed, sent>>  BY DEF Start, queueVars
<1>1. x \notin crossed /\ ~(x \in digest /\ x \in listed)  BY DEF Start
<1>2. ApartAt(x)  BY <1>1 DEF Apart
<1>3. PICK r : r = [Idle EXCEPT !.pc = "next", !.todo = FreshArticles, !.rows = listed,
                                !.already = CountSince]
  OBVIOUS
<1>4. cyc'[c] = r /\ \A d \in Cycles \ {c} : cyc'[d] = cyc[d]
  BY <1>3 DEF Start, TypeInv, TypeOK
<1>5. r.rows = listed  BY <1>3 DEF Idle
<1>6. x \in listed => status[x] = "pending"  BY DEF Pending
<1>7. Listed(x)' => Listed(x) \/ x \in listed  BY <1>4, <1>5 DEF Listed
<1>8. OnX(x)' <=> OnX(x)  BY <1>0 DEF OnX
<1>9. ASSUME NEW d \in Cycles, HasPosted(cyc[d], x) PROVE HasPosted(cyc'[d], x)
  <2>1. cyc[d].left # {}  BY <1>9, HeldRows
  <2>2. d # c  BY <2>1, RunIs DEF Start, Running
  <2>. QED  BY <1>4, <1>9, <2>2
<1>10. OnX(x)' => Settled(x)' \/ (\E d \in Cycles : HasPosted(cyc[d], x))'
  BY <1>0, <1>2, <1>8, <1>9 DEF ApartAt, Settled, HasPosted
<1>11. x \in digest' => status'[x] # "none" /\ ~OnX(x)' /\ ~Listed(x)'
  BY <1>0, <1>1, <1>2, <1>7, <1>8 DEF ApartAt
<1>12. x \in emailed' => Settled(x)' /\ ~OnX(x)' /\ ~Listed(x)'
  BY <1>0, <1>2, <1>6, <1>7, <1>8 DEF ApartAt, Settled
<1>. QED  BY <1>10, <1>11, <1>12 DEF ApartAt

LEMMA BeginChainApart ==
  ASSUME TypeInv, TypeInv', ThreadsInv, Apart, NEW c \in Cycles, BeginChain(c)
  PROVE  Apart'
<1>0. cyc[c] \in Run /\ cyc \in [Cycles -> Run] /\ cyc[c].left = {}
  BY RunIs DEF BeginChain
<1>1. \A x : ~HasPosted(cyc[c], x)  BY <1>0, HeldRows
<1>2. /\ UNCHANGED <<status, mailVars, sent, faults>>
  BY DEF BeginChain, queueVars
<1>3. PICK r : cyc' = [cyc EXCEPT ![c] = r] /\ r.rows \subseteq cyc[c].rows
  <2>1. CASE cyc' = [cyc EXCEPT ![c] = Idle]
    <3>1. Idle.rows \subseteq cyc[c].rows  BY DEF Idle
    <3>. QED  BY <2>1, <3>1
  <2>2. ASSUME NEW a \in Articles,
               \/ cyc' = [cyc EXCEPT ![c].pc = "send", ![c].todo = @ \ {a},
                                     ![c].left = Planned(c, a)]
               \/ cyc' = [cyc EXCEPT ![c].todo = @ \ {a}]
        PROVE  \E r : cyc' = [cyc EXCEPT ![c] = r] /\ r.rows = cyc[c].rows
    <3>1. PICK r : \/ r = [cyc[c] EXCEPT !.pc = "send", !.todo = @ \ {a}, !.left = Planned(c, a)]
                      /\ cyc' = [cyc EXCEPT ![c] = r]
                   \/ r = [cyc[c] EXCEPT !.todo = @ \ {a}] /\ cyc' = [cyc EXCEPT ![c] = r]
      BY <1>0, <2>2
    <3>2. r.rows = cyc[c].rows  BY <1>0, <3>1 DEF Run
    <3>. QED  BY <3>1, <3>2
  <2>3. \/ cyc' = [cyc EXCEPT ![c] = Idle]
        \/ \E r : cyc' = [cyc EXCEPT ![c] = r] /\ r.rows = cyc[c].rows
    BY <2>2 DEF BeginChain
  <2>4. CASE \E r : cyc' = [cyc EXCEPT ![c] = r] /\ r.rows = cyc[c].rows
    BY <2>4
  <2>. QED  BY <2>1, <2>3, <2>4
<1>4. /\ \A x \in Rows : Settled(x) => Settled(x)'
      /\ \A x \in Rows : status[x] # "none" => status'[x] # "none"
  BY <1>2 DEF Settled
<1>. QED  BY <1>1, <1>2, <1>3, <1>4, ApartMove

LEMMA PublishApart ==
  ASSUME TypeInv, TypeInv', ThreadsInv, Apart, NEW c \in Cycles, Publish(c)
  PROVE  Apart'
<1>. SUFFICES ASSUME faults = 0, NEW x \in Rows \ crossed PROVE ApartAt(x)'
  BY DEF Apart, Publish, mailVars
<1>0. UNCHANGED <<status, digest, emailed>>  BY DEF Publish, queueVars, mailVars
<1>1. ApartAt(x)  BY DEF Apart
<1>2. PICK k \in Posts : IsStep(c, k) /\ sent' = [sent EXCEPT ![k] = @ + 1]  BY DEF Publish
<1>3. /\ cyc'[c].pc = "answer" /\ cyc'[c].left = cyc[c].left
      /\ cyc'[c].done = cyc[c].done /\ cyc'[c].rows = cyc[c].rows
      /\ \A d \in Cycles \ {c} : cyc'[d] = cyc[d]
  BY RunIs DEF Publish, Run
<1>4. Listed(x)' <=> Listed(x)  BY <1>3 DEF Listed
<1>5. RowOf(k) \in cyc[c].rows  BY <1>2, HeldRows DEF IsStep
<1>6. \A l \in Posts : l # k => sent'[l] = sent[l]  BY <1>2 DEF TypeInv, TypeOK
<1>7. OnX(x)' => OnX(x) \/ x = RowOf(k)  BY <1>6 DEF OnX
<1>8. x = RowOf(k) => Listed(x) /\ HasPosted(cyc'[c], x)
  BY <1>2, <1>3, <1>5 DEF Listed, HasPosted, IsStep
<1>9. ASSUME NEW d \in Cycles, HasPosted(cyc[d], x) PROVE HasPosted(cyc'[d], x)
  <2>1. CASE d = c
    <3>1. x \in cyc[c].done  BY <1>9, <2>1 DEF HasPosted, Publish
    <3>. QED  BY <1>3, <2>1, <3>1 DEF HasPosted
  <2>2. CASE d # c  BY <1>3, <1>9, <2>2
  <2>. QED  BY <2>1, <2>2
<1>10. OnX(x)' => Settled(x)' \/ \E d \in Cycles : HasPosted(cyc'[d], x)
  BY <1>0, <1>1, <1>7, <1>8, <1>9 DEF ApartAt, Settled
<1>11. OnX(x)' => Settled(x)' \/ (\E d \in Cycles : HasPosted(cyc[d], x))'
  BY <1>10 DEF HasPosted
<1>12. x \in digest' => status'[x] # "none" /\ ~OnX(x)' /\ ~Listed(x)'
  BY <1>0, <1>1, <1>4, <1>7, <1>8 DEF ApartAt
<1>13. x \in emailed' => Settled(x)' /\ ~OnX(x)' /\ ~Listed(x)'
  BY <1>0, <1>1, <1>4, <1>7, <1>8 DEF ApartAt, Settled
<1>. QED  BY <1>11, <1>12, <1>13 DEF ApartAt

LEMMA AnsweredApart ==
  ASSUME TypeInv, TypeInv', ThreadsInv, Apart, NEW c \in Cycles, Answered(c)
  PROVE  Apart'
<1>0. cyc[c] \in Run /\ cyc \in [Cycles -> Run] /\ UNCHANGED <<mailVars, sent, faults>>
  BY RunIs DEF Answered
<1>1. PICK k \in Posts : /\ IsStep(c, k)
                         /\ IF cyc[c].left = {k}
                            THEN EndChain(c, cyc[c].posted + 1, cyc[c].done \cup {RowOf(k)})
                            ELSE /\ cyc' = [cyc EXCEPT ![c].pc = "send", ![c].left = @ \ {k},
                                               ![c].done = @ \cup {RowOf(k)}, ![c].posted = @ + 1]
                                 /\ UNCHANGED <<status, marked>>
  BY DEF Answered
<1>2. ASSUME NEW x, HasPosted(cyc[c], x) PROVE x \in cyc[c].done \cup {RowOf(k)}
  <2>1. CASE x \in cyc[c].done  BY <2>1
  <2>2. CASE x \notin cyc[c].done
    <3>1. PICK l \in cyc[c].left : RowOf(l) = x /\ \A m \in cyc[c].left : l[2] <= m[2]
      BY <1>2, <2>2 DEF HasPosted
    <3>2. IsStep(c, l)  BY <3>1 DEF IsStep
    <3>3. l = k  BY <1>1, <3>2, OneStep DEF ThreadsInv
    <3>. QED  BY <3>1, <3>3
  <2>. QED  BY <2>1, <2>2
<1>3. CASE cyc[c].left = {k}
  BY <1>0, <1>1, <1>2, <1>3, EndChainApart
<1>4. CASE cyc[c].left # {k}
  <2>1. PICK r : r = [cyc[c] EXCEPT !.pc = "send", !.left = @ \ {k},
                                    !.done = @ \cup {RowOf(k)}, !.posted = @ + 1]
    OBVIOUS
  <2>2. cyc' = [cyc EXCEPT ![c] = r] /\ UNCHANGED status  BY <1>0, <1>1, <1>4, <2>1
  <2>3. r.rows = cyc[c].rows /\ r.done = cyc[c].done \cup {RowOf(k)}  BY <1>0, <2>1 DEF Run
  <2>4. \A x : HasPosted(cyc[c], x) => HasPosted(r, x)  BY <1>2, <2>3 DEF HasPosted
  <2>5. /\ \A x \in Rows : Settled(x) => Settled(x)'
        /\ \A x \in Rows : status[x] # "none" => status'[x] # "none"
    BY <2>2 DEF Settled
  <2>. QED  BY <1>0, <2>2, <2>3, <2>4, <2>5, ApartMove
<1>. QED  BY <1>3, <1>4

LEMMA DigestApart ==
  ASSUME TypeInv, TypeInv', ThreadsInv, Apart, DigestBegin
  PROVE  Apart'
<1>. SUFFICES ASSUME faults = 0, NEW x \in Rows \ crossed' PROVE ApartAt(x)'
  BY DEF Apart, DigestBegin
<1>0. UNCHANGED <<status, cyc, emailed, sent>>  BY DEF DigestBegin, queueVars
<1>1. x \notin crossed /\ ~(x \in digest' /\ Listed(x))  BY DEF DigestBegin, Listed
<1>2. ApartAt(x)  BY <1>1 DEF Apart
<1>3. /\ OnX(x)' <=> OnX(x)
      /\ Listed(x)' <=> Listed(x)
      /\ Settled(x)' <=> Settled(x)
      /\ (\E d \in Cycles : HasPosted(cyc[d], x))' <=> \E d \in Cycles : HasPosted(cyc[d], x)
  BY <1>0 DEF OnX, Listed, Settled, HasPosted
<1>4. x \in digest' => status[x] = "pending"  BY DEF DigestBegin, Pending
<1>5. (\E d \in Cycles : HasPosted(cyc[d], x)) => Listed(x)  BY HeldRows DEF Listed
<1>6. x \in digest' => status'[x] # "none" /\ ~OnX(x)' /\ ~Listed(x)'
  BY <1>0, <1>1, <1>2, <1>3, <1>4, <1>5 DEF ApartAt, Settled
<1>. QED  BY <1>0, <1>2, <1>3, <1>6 DEF ApartAt

LEMMA StatusApart ==
  ASSUME TypeInv, TypeInv', Apart, UNCHANGED <<sent, crossed>>, faults' = faults,
         \A d \in Cycles : /\ cyc'[d].pc = cyc[d].pc /\ cyc'[d].rows = cyc[d].rows
                           /\ cyc'[d].left = cyc[d].left /\ cyc'[d].done = cyc[d].done,
         digest' \subseteq digest, emailed \subseteq emailed',
         \A x \in Rows : Settled(x) => Settled(x)',
         \A x \in Rows \ crossed : status[x] = "none" /\ status'[x] # "none" => ~OnX(x),
         \A x \in Rows : status[x] # "none" => status'[x] # "none",
         \A x \in emailed' \ emailed : x \in digest /\ Settled(x)'
  PROVE  Apart'
<1>. SUFFICES ASSUME faults = 0, NEW x \in Rows \ crossed PROVE ApartAt(x)'
  BY DEF Apart
<1>1. ApartAt(x)  BY DEF Apart
<1>2. OnX(x)' <=> OnX(x)  BY DEF OnX
<1>3. Listed(x)' <=> Listed(x)  BY DEF Listed
<1>4. (\E d \in Cycles : HasPosted(cyc[d], x))' <=> \E d \in Cycles : HasPosted(cyc[d], x)
  BY DEF HasPosted
<1>5. x \in digest' => status'[x] # "none" /\ ~OnX(x)' /\ ~Listed(x)'
  BY <1>1, <1>2, <1>3 DEF ApartAt
<1>6. x \in emailed' => Settled(x)' /\ ~OnX(x)' /\ ~Listed(x)'
  BY <1>1, <1>2, <1>3 DEF ApartAt
<1>. QED  BY <1>1, <1>2, <1>4, <1>5, <1>6 DEF ApartAt

LEMMA StepApart == TypeInv /\ TypeInv' /\ ThreadsInv /\ Apart /\ [Next]_vars => Apart'
<1>. SUFFICES ASSUME TypeInv, TypeInv', ThreadsInv, Apart, [Next]_vars PROVE Apart'
  OBVIOUS
<1>0. ASSUME faults' = faults + 1 PROVE Apart'
  BY <1>0 DEF Apart, TypeInv, TypeOK
<1>1. ASSUME NEW c \in Cycles, XCycle(c) PROVE Apart'
  <2>1. ASSUME PostFails(c) PROVE Apart'
    <3>1. CASE cyc[c].pc = "send" /\ UNCHANGED faults
      <4>1. \A x : HasPosted(cyc[c], x) => x \in cyc[c].done  BY <3>1 DEF HasPosted
      <4>. QED  BY <2>1, <3>1, <4>1, EndChainApart DEF PostFails
    <3>2. CASE cyc[c].pc = "answer" /\ Fault  BY <1>0, <3>2 DEF Fault
    <3>. QED  BY <2>1, <3>1, <3>2 DEF PostFails
  <2>2. ASSUME Unrecorded(c) \/ PostFailsUnrecorded(c) PROVE Apart'
    BY <1>0, <2>2 DEF Unrecorded, PostFailsUnrecorded, Fault
  <2>. QED
    BY <1>1, <2>1, <2>2, StartApart, BeginChainApart, PublishApart, AnsweredApart DEF XCycle
<1>2. CASE Crash  BY <1>0, <1>2 DEF Crash, Fault
<1>3. CASE DigestEnd
  <2>1. /\ UNCHANGED <<cyc, crossed, sent>> /\ digest' = {}
    BY <1>3 DEF DigestEnd
  <2>2. CASE /\ emailed' = emailed \cup digest
             /\ status' = [r \in Rows |-> IF r \in digest /\ status[r] = "pending"
                                          THEN "sent_in_digest" ELSE status[r]]
             /\ UNCHANGED faults
    <3>. SUFFICES ASSUME faults = 0, NEW x \in Rows \ crossed PROVE ApartAt(x)'
      BY <2>1, <2>2 DEF Apart
    <3>1. ApartAt(x)  BY DEF Apart
    <3>2. /\ OnX(x)' <=> OnX(x)
          /\ Listed(x)' <=> Listed(x)
          /\ (\E d \in Cycles : HasPosted(cyc[d], x))'
               <=> \E d \in Cycles : HasPosted(cyc[d], x)
      BY <2>1 DEF OnX, Listed, HasPosted
    <3>3. Settled(x) => Settled(x)'  BY <2>2 DEF Settled
    <3>4. x \in digest => Settled(x)'  BY <2>2, <3>1 DEF ApartAt, Settled
    <3>. QED  BY <2>1, <2>2, <3>1, <3>2, <3>3, <3>4 DEF ApartAt
  <2>3. CASE UNCHANGED <<emailed, status, faults>>
    BY <2>1, <2>3, StatusApart DEF Settled
  <2>4. CASE Fault  BY <1>0, <2>4 DEF Fault
  <2>. QED  BY <1>3, <2>2, <2>3, <2>4 DEF DigestEnd
<1>4. CASE Sweep \/ UNCHANGED vars
  <2>1. UNCHANGED <<cyc, mailVars, sent, faults>>  BY <1>4 DEF Sweep, vars
  <2>2. \A x \in Rows : \/ status'[x] = status[x]
                        \/ status[x] = "pending" /\ status'[x] = "rejected"
    BY <1>4 DEF Sweep, vars, queueVars
  <2>. QED  BY <2>1, <2>2, StatusApart DEF Settled, mailVars
<1>5. CASE Tick
  <2>1. UNCHANGED <<status, mailVars, sent, faults>>  BY <1>5 DEF Tick
  <2>2. \A d \in Cycles : /\ cyc'[d].pc = cyc[d].pc /\ cyc'[d].rows = cyc[d].rows
                          /\ cyc'[d].left = cyc[d].left /\ cyc'[d].done = cyc[d].done
    BY <1>5, RunIs DEF Tick, Run
  <2>. QED  BY <2>1, <2>2, StatusApart DEF Settled, mailVars
<1>6. ASSUME NEW a \in Articles, Enqueue(a) PROVE Apart'
  <2>1. UNCHANGED <<cyc, mailVars, sent, faults>>  BY <1>6 DEF Enqueue
  <2>2. \A x \in Rows : status'[x] = IF x \in RowsOf(a) THEN "pending" ELSE status[x]
    BY <1>6 DEF Enqueue
  <2>3. \A x \in RowsOf(a) : status[x] = "none"  BY <1>6 DEF Enqueue, ThreadsInv, Known
  <2>4. \A x \in Rows : Settled(x) => Settled(x)'  BY <2>2, <2>3 DEF Settled
  <2>. SUFFICES ASSUME faults = 0, NEW x \in Rows \ crossed PROVE ApartAt(x)'
    BY <2>1 DEF Apart, mailVars
  <2>5. ApartAt(x)  BY DEF Apart
  <2>6. /\ OnX(x)' <=> OnX(x)
        /\ Listed(x)' <=> Listed(x)
        /\ (\E d \in Cycles : HasPosted(cyc[d], x))' <=> \E d \in Cycles : HasPosted(cyc[d], x)
    BY <2>1 DEF OnX, Listed, HasPosted
  <2>7. status[x] # "none" => status'[x] # "none"  BY <2>2
  <2>. QED  BY <2>1, <2>4, <2>5, <2>6, <2>7 DEF ApartAt, mailVars
<1>. QED  BY <1>1, <1>2, <1>3, <1>4, <1>5, <1>6, DigestApart DEF Next

\* A row is emailed for posting by hand or posted on X by a run, not both, but
\* for rows a run had listed while their email was being sent, and for faults.
THEOREM DeliveredOnceHolds == Spec => []DeliveredOnce
<1>1. Spec => [](TypeInv /\ ThreadsInv)
  <2>1. Spec => []TypeInv  BY InitType, StepType, PTL DEF Spec
  <2>2. TypeInv /\ TypeInv' /\ ThreadsInv /\ [Next]_vars => ThreadsInv'  BY StepThreads
  <2>. QED  BY <2>1, <2>2, InitThreads, PTL DEF Spec
<1>2. Spec => []TypeInv  BY InitType, StepType, PTL DEF Spec
<1>3. Init => Apart
  <2>1. ASSUME Init, NEW x \in Rows PROVE ApartAt(x)
    <3>1. digest = {} /\ emailed = {} /\ ~OnX(x)  BY <2>1 DEF Init, OnX
    <3>. QED  BY <3>1 DEF ApartAt
  <2>. QED  BY <2>1 DEF Apart
<1>4. TypeInv /\ TypeInv' /\ ThreadsInv /\ Apart /\ [Next]_vars => Apart'  BY StepApart
<1>5. Spec => []Apart  BY <1>1, <1>2, <1>3, <1>4, PTL DEF Spec
<1>6. TypeInv /\ Apart => DeliveredOnce
  <2>. SUFFICES ASSUME TypeInv, Apart, faults = 0, NEW r \in emailed \ crossed,
                       NEW k \in Posts, RowOf(k) = r
                PROVE  sent[k] = 0
    BY DEF DeliveredOnce
  <2>1. r \in Rows /\ sent[k] \in Nat  BY DEF TypeInv, TypeOK
  <2>2. ~OnX(r)  BY <2>1 DEF Apart, ApartAt
  <2>. QED  BY <2>1, <2>2 DEF OnX
<1>. QED  BY <1>2, <1>5, <1>6, PTL
=============================================================================

----------------------------- MODULE XTextQueue -----------------------------
(***************************************************************************)
(* The X text queue (services/xTextPoster.js, services/xPostDigest.js and  *)
(* the x_post_queue functions of models/database.js).  An article enqueues *)
(* the parts of one thread, one row each.  A cycle posts whole threads of  *)
(* the freshest articles under a daily budget, a digest emails what is     *)
(* pending, and a sweep rejects what has gone stale.                       *)
(*                                                                         *)
(* A row's text is cleaned and split when it is posted, so a row becomes   *)
(* any number of posts: Plan[a] is the sequence of part numbers the posts  *)
(* of article a come from.  Ages are counted in ticks and saturate.        *)
(***************************************************************************)
EXTENDS Naturals, Sequences, FiniteSets

CONSTANTS
  Cycles,      \* slots for runs of runXTextCycle; two run at once after a stall
  Articles,
  Parts,       \* Parts[a]: rows of article a, its thread_total
  Plan,        \* Plan[a]: the part each planned post of a comes from, <<>> when
               \* the opener holds no complete sentence
  MaxPerDay,   \* X_TEXT_MAX_PER_DAY
  PerCycle,    \* X_TEXT_ARTICLES_PER_CYCLE
  PerDigest,   \* articleLimit of the digest
  FreshAge,    \* X_TEXT_MAX_AGE_HOURS
  StaleAge,    \* the sweep's cutoff
  Window,      \* the rolling day of the budget
  MaxDisturbances \* bound: crashes, stalls, lost answers, failed writes

ASSUME SetsAssumption == IsFiniteSet(Cycles) /\ IsFiniteSet(Articles)
ASSUME PlanAssumption ==
  /\ Parts \in [Articles -> Nat \ {0}]
  /\ \A a \in Articles : Plan[a] \in Seq(1 .. Parts[a])
ASSUME NumbersAssumption ==
  /\ MaxPerDay \in Nat /\ PerCycle \in Nat \ {0} /\ PerDigest \in Nat \ {0}
  /\ FreshAge \in Nat \ {0} /\ StaleAge \in Nat /\ Window \in Nat \ {0}
  /\ FreshAge <= StaleAge

VARIABLES
  rank,     \* rank[a]: position of a in the order of generated_at, 0 before
  age,      \* age[a]: ticks since its rows were generated
  status,   \* status[r]: status column of row r
  marked,   \* marked[r]: ticks since marked_posted_at, Window when older or NULL
  cyc,      \* cyc[c]: what the run in slot c is doing
  digest,   \* rows in the email that is being sent
  sent,     \* sent[k]: times X published the planned post k
  emailed,  \* rows that went out in a digest email
  crossed,  \* rows a run had listed while they were in an email being sent
  faults,   \* crashes, lost answers and failed writes so far
  overlaps  \* runs begun while another was in progress

queueVars == <<rank, age, status, marked>>
mailVars  == <<digest, emailed, crossed>>
vars      == <<queueVars, cyc, mailVars, sent, faults, overlaps>>

RowsOf(a) == {a} \X (1 .. Parts[a])
Rows      == UNION {RowsOf(a) : a \in Articles}
Posts     == UNION {{a} \X DOMAIN Plan[a] : a \in Articles}
RowOf(k)  == <<k[1], Plan[k[1]][k[2]]>>  \* the row a post comes from
Statuses  == {"none", "pending", "sent_in_digest", "marked_posted", "rejected"}

Idle == [pc |-> "idle", todo |-> {}, rows |-> {}, left |-> {}, done |-> {},
         already |-> 0, posted |-> 0, age |-> 0]

TypeOK ==
  /\ rank \in [Articles -> Nat]
  /\ age \in [Articles -> 0 .. StaleAge]
  /\ status \in [Rows -> Statuses]
  /\ marked \in [Rows -> 0 .. Window]
  /\ cyc \in [Cycles -> [pc : {"idle", "next", "send", "answer"},
                         todo : SUBSET Articles, rows : SUBSET Rows,
                         left : SUBSET Posts, done : SUBSET Rows,
                         already : Nat, posted : Nat, age : 0 .. Window]]
  /\ digest \subseteq Rows /\ emailed \subseteq Rows /\ crossed \subseteq Rows
  /\ sent \in [Posts -> Nat]
  /\ faults \in Nat /\ overlaps \in Nat

Init ==
  /\ rank = [a \in Articles |-> 0] /\ age = [a \in Articles |-> 0]
  /\ status = [r \in Rows |-> "none"] /\ marked = [r \in Rows |-> Window]
  /\ cyc = [c \in Cycles |-> Idle]
  /\ digest = {} /\ emailed = {} /\ crossed = {}
  /\ sent = [k \in Posts |-> 0]
  /\ faults = 0 /\ overlaps = 0

Disturbable == faults + overlaps < MaxDisturbances
Fault == Disturbable /\ faults' = faults + 1

-----------------------------------------------------------------------------
(* The queue's statements.                                                 *)

\* enqueueXPosts: all parts of an article in one transaction.
Enqueue(a) ==
  /\ rank[a] = 0
  /\ rank' = [rank EXCEPT ![a] = 1 + Cardinality({b \in Articles : rank[b] # 0})]
  /\ status' = [r \in Rows |-> IF r \in RowsOf(a) THEN "pending" ELSE status[r]]
  /\ UNCHANGED <<age, marked, cyc, mailVars, sent, faults, overlaps>>

Pending(a) == {r \in RowsOf(a) : status[r] = "pending"}

\* The n articles of S whose rows were generated last.
Newest(S, n) == {a \in S : Cardinality({b \in S : rank[b] > rank[a]}) < n}

\* listFreshPendingXPosts' articles.
FreshArticles == Newest({a \in Articles : Pending(a) # {} /\ age[a] < FreshAge}, PerCycle)

\* Mutant: the count reads a status that no row has.
CountReadsNothing == 0

\* countXTextPostsSince, over the last Window ticks.
InWindow   == {r \in Rows : status[r] = "marked_posted" /\ marked[r] < Window}
CountSince == Cardinality(InWindow)

\* markXPostsPosted: pending rows only; t is the age of the caller's timestamp.
MarkPosted(ids, t) ==
  /\ status' = [r \in Rows |-> IF r \in ids /\ status[r] = "pending" THEN "marked_posted"
                               ELSE status[r]]
  /\ marked' = [r \in Rows |-> IF r \in ids /\ status[r] = "pending" THEN t ELSE marked[r]]

-----------------------------------------------------------------------------
(* runXTextCycle.                                                          *)

Running(c) == cyc[c].pc # "idle"

\* Cap, then the list of fresh rows, read once for the whole cycle.
Start(c) ==
  /\ ~Running(c)
  /\ IF \E d \in Cycles : Running(d) THEN Disturbable /\ overlaps' = overlaps + 1
                                     ELSE UNCHANGED overlaps
  /\ CountSince < MaxPerDay /\ FreshArticles # {}
  /\ cyc' = [cyc EXCEPT ![c] =
               [Idle EXCEPT !.pc = "next", !.todo = FreshArticles,
                            !.rows = UNION {Pending(a) : a \in FreshArticles},
                            !.already = CountSince]]
  /\ crossed' = crossed \cup (digest \cap UNION {Pending(a) : a \in FreshArticles})
  /\ UNCHANGED <<queueVars, digest, emailed, sent, faults>>

\* The group at hand: the newest article that is left.
IsGroup(c, a) == a \in cyc[c].todo /\ \A b \in cyc[c].todo : rank[b] <= rank[a]

PartsOf(c, a) == cyc[c].rows \cap RowsOf(a)

\* The chain planned from the parts that were listed.
Planned(c, a) == {k \in {a} \X DOMAIN Plan[a] : RowOf(k) \in cyc[c].rows}

Spent(c) == cyc[c].already + cyc[c].posted

\* isComplete: all parts of the thread are still in the queue.
IsComplete(c, a) == PartsOf(c, a) = RowsOf(a)

\* Mutant: the rows are checked against the budget, the posts are not.
FitsByRows(c, a) == Spent(c) + Cardinality(PartsOf(c, a)) <= MaxPerDay

\* Neither the rows nor the posts planned from them exceed what is left.
Fits(c, a) ==
  /\ Spent(c) + Cardinality(PartsOf(c, a)) <= MaxPerDay
  /\ Spent(c) + Cardinality(Planned(c, a)) <= MaxPerDay

\* The next group: end of the list, budget reached, skipped or begun.
BeginChain(c) ==
  /\ cyc[c].pc = "next"
  /\ IF cyc[c].todo = {} \/ Spent(c) >= MaxPerDay
     THEN cyc' = [cyc EXCEPT ![c] = Idle]
     ELSE \E a \in Articles :
            /\ IsGroup(c, a)
            /\ IF IsComplete(c, a) /\ Fits(c, a) /\ Planned(c, a) # {}
               THEN cyc' = [cyc EXCEPT ![c].pc = "send", ![c].todo = @ \ {a},
                                       ![c].left = Planned(c, a)]
               ELSE cyc' = [cyc EXCEPT ![c].todo = @ \ {a}]
  /\ UNCHANGED <<queueVars, mailVars, sent, faults, overlaps>>

\* The post of the chain that is at hand.
IsStep(c, k) == k \in cyc[c].left /\ \A l \in cyc[c].left : k[2] <= l[2]

\* X publishes the post.
Publish(c) ==
  /\ cyc[c].pc = "send"
  /\ cyc' = [cyc EXCEPT ![c].pc = "answer"]
  /\ \E k \in Posts : IsStep(c, k) /\ sent' = [sent EXCEPT ![k] = @ + 1]
  /\ UNCHANGED <<queueVars, mailVars, faults, overlaps>>

\* The chain is over, with posted posts in this cycle; ids is what is marked.
EndChain(c, posted, ids) ==
  /\ MarkPosted(ids, cyc[c].age)
  /\ cyc' = [cyc EXCEPT ![c].pc = "next", ![c].left = {}, ![c].done = {},
                        ![c].posted = posted]

\* X answered; after the last post of the chain its rows are marked.
Answered(c) ==
  /\ cyc[c].pc = "answer"
  /\ \E k \in Posts :
       /\ IsStep(c, k)
       /\ IF cyc[c].left = {k}
          THEN EndChain(c, cyc[c].posted + 1, cyc[c].done \cup {RowOf(k)})
          ELSE /\ cyc' = [cyc EXCEPT ![c].pc = "send", ![c].left = @ \ {k},
                                     ![c].done = @ \cup {RowOf(k)}, ![c].posted = @ + 1]
               /\ UNCHANGED <<status, marked>>
  /\ UNCHANGED <<rank, age, mailVars, sent, faults, overlaps>>

\* Both marks of the finished chain fail: it is published and still pending.
Unrecorded(c) ==
  /\ cyc[c].pc = "answer" /\ \E k \in Posts : cyc[c].left = {k}
  /\ Fault
  /\ EndChain(c, cyc[c].posted + 1, {})
  /\ UNCHANGED <<rank, age, mailVars, sent, overlaps>>

\* Mutant: a failed chain marks nothing.
PostFailsUnmarked(c) ==
  /\ \/ cyc[c].pc = "send" /\ UNCHANGED faults
     \/ cyc[c].pc = "answer" /\ Fault
  /\ EndChain(c, cyc[c].posted, {})
  /\ UNCHANGED <<rank, age, mailVars, sent, overlaps>>

\* postToX throws, before X published or, the answer lost, after: the rows of
\* the posts that were answered are marked, the rest of the thread stays.
PostFails(c) ==
  /\ \/ cyc[c].pc = "send" /\ UNCHANGED faults
     \/ cyc[c].pc = "answer" /\ Fault
  /\ EndChain(c, cyc[c].posted, cyc[c].done)
  /\ UNCHANGED <<rank, age, mailVars, sent, overlaps>>

\* postToX throws and so does the mark in the catch branch.
PostFailsUnrecorded(c) ==
  /\ cyc[c].pc \in {"send", "answer"} /\ cyc[c].done # {}
  /\ Fault
  /\ EndChain(c, cyc[c].posted, {})
  /\ UNCHANGED <<rank, age, mailVars, sent, overlaps>>

\* The worker process dies.
Crash ==
  /\ Fault
  /\ cyc' = [c \in Cycles |-> Idle]
  /\ UNCHANGED <<queueVars, mailVars, sent, overlaps>>

-----------------------------------------------------------------------------
(* The digest and the sweep, in the scheduler process.                     *)

\* sendXPostDigest up to the await of the mail.
DigestBegin ==
  /\ digest = {}
  /\ digest' = UNION {Pending(a) : a \in Newest({b \in Articles : Pending(b) # {}}, PerDigest)}
  /\ crossed' = crossed \cup (digest' \cap UNION {cyc[c].rows : c \in Cycles})
  /\ UNCHANGED <<queueVars, cyc, emailed, sent, faults, overlaps>>

\* Mutant: the mail goes out and its rows stay pending.
DigestEndUnmarked ==
  /\ digest # {} /\ digest' = {}
  /\ emailed' \in {emailed, emailed \cup digest}
  /\ UNCHANGED <<queueVars, cyc, crossed, sent, faults, overlaps>>

\* markDigestSent; or the mail failed; or it went out and its answer or the mark
\* did not arrive.
DigestEnd ==
  /\ digest # {} /\ digest' = {}
  /\ \/ /\ emailed' = emailed \cup digest
        /\ status' = [r \in Rows |-> IF r \in digest /\ status[r] = "pending"
                                     THEN "sent_in_digest" ELSE status[r]]
        /\ UNCHANGED faults
     \/ UNCHANGED <<emailed, status, faults>>
     \/ emailed' = emailed \cup digest /\ Fault /\ UNCHANGED status
  /\ UNCHANGED <<rank, age, marked, cyc, crossed, sent, overlaps>>

\* rejectStalePending.
Sweep ==
  /\ \E a \in Articles : Pending(a) # {} /\ age[a] >= StaleAge
  /\ status' = [r \in Rows |-> IF status[r] = "pending" /\ age[r[1]] >= StaleAge
                               THEN "rejected" ELSE status[r]]
  /\ UNCHANGED <<rank, age, marked, cyc, mailVars, sent, faults, overlaps>>

Older(t, limit) == IF t < limit THEN t + 1 ELSE limit

\* Time passes, for the rows, the marks and the runs.
Tick ==
  /\ age' = [a \in Articles |-> IF rank[a] = 0 THEN 0 ELSE Older(age[a], StaleAge)]
  /\ marked' = [r \in Rows |-> Older(marked[r], Window)]
  /\ cyc' = [c \in Cycles |-> IF Running(c) THEN [cyc[c] EXCEPT !.age = Older(@, Window)]
                                            ELSE cyc[c]]
  /\ UNCHANGED <<rank, status, mailVars, sent, faults, overlaps>>

-----------------------------------------------------------------------------
XCycle(c) ==
  \/ Start(c) \/ BeginChain(c) \/ Publish(c) \/ Answered(c)
  \/ Unrecorded(c) \/ PostFails(c) \/ PostFailsUnrecorded(c)

Next ==
  \/ \E a \in Articles : Enqueue(a)
  \/ \E c \in Cycles : XCycle(c)
  \/ Crash \/ DigestBegin \/ DigestEnd \/ Sweep \/ Tick

Spec == Init /\ [][Next]_vars

-----------------------------------------------------------------------------
(* Properties.                                                             *)

\* Without overlapping runs no rolling day holds more marked rows than
\* X_TEXT_MAX_PER_DAY, although the count is read once per cycle and a cycle
\* may last for days: crashes, failures and digests only ever lower it.
RowCap == overlaps = 0 => Cardinality(InWindow) <= MaxPerDay

\* "A whole thread must fit the remaining budget, or it is not started": while
\* a chain is going out its remaining posts fit, however many posts the rows
\* were split into and whatever happened to the chains before it.
ChainFits ==
  \A c \in Cycles : Running(c) => Spent(c) + Cardinality(cyc[c].left) <= MaxPerDay

\* "What was published must never be re-published": a post goes out again only
\* for a crash, a lost answer, a failed write or an overlap, once for each.
NeverRepublished == \A k \in Posts : sent[k] <= 1 + faults + overlaps

\* No part of a thread goes out more often than the part before it: the rest
\* of a half-posted thread is never published on its own.
PrefixPublished ==
  \A a \in Articles : \A k \in DOMAIN Plan[a] \ {1} :
    sent[<<a, k>>] <= sent[<<a, k - 1>>]

\* A row is marked posted only when something of it is on X.
MarkedWasSent ==
  \A r \in Rows : status[r] = "marked_posted" =>
    \E k \in Posts : RowOf(k) = r /\ sent[k] > 0

\* What is on X and what the queue says of it agree, through every break-off.
ThreadsIntact == NeverRepublished /\ PrefixPublished /\ MarkedWasSent

\* A row is emailed for posting by hand or posted on X by a run, not both,
\* whatever runs, digests and sweeps do to the queue in between: nothing but the
\* pending status keeps them apart.  The exceptions are a row that a run had
\* listed while it was in an email being sent (sendXPostDigest marks after its
\* await, runXTextCycle asks no row again) and lost answers and failed marks.
DeliveredOnce ==
  faults = 0 => \A r \in emailed \ crossed : \A k \in Posts : RowOf(k) = r => sent[k] = 0

=============================================================================

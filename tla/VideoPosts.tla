----------------------------- MODULE VideoPosts -----------------------------
(***************************************************************************)
(* The short-video publishing loop (services/videoAutopost.js and the      *)
(* video_posts functions of models/database.js).  A cycle claims an        *)
(* article, uploads its video to YouTube, records it as published and then *)
(* posts the same video on other surfaces, one after another, each under a *)
(* deadline.  A surface that overruns is abandoned, not stopped: its call  *)
(* goes on beside the rest of the cycle.                                   *)
(*                                                                         *)
(* Which candidates survive the editorial gates, the script and the render *)
(* is left open: a refused candidate is one that is never claimed.         *)
(***************************************************************************)
EXTENDS Naturals, Sequences, FiniteSets

CONSTANTS
  Cycles,      \* slots for runs of runVideoRenderCycle
  Articles, None,
  Surfaces,    \* the cross-posts that are enabled, in the order they run
  Column,      \* Column[s]: the status column of surface s
  Recording,   \* surfaces that write their own outcome; the Facebook Reel does not
  Fetched,     \* surfaces that Meta fetches by URL, marked pending first
  Cap,         \* Cap[s]: the surface's posts per rolling day
  MaxPerDay,   \* VIDEO_MAX_PER_DAY
  MinInterval, \* videoMinIntervalMs
  Day,
  PendingHang, \* VIDEO_PENDING_HANG_MS
  CycleHang,   \* CYCLE_HANG_MS
  MaxNow,          \* bound: the last instant
  MaxAbandoned,    \* bound: cross-posts that overrun their deadline
  MaxDisturbances  \* bound: crashes, lost answers, failed writes and overlaps

SurfaceSet == {Surfaces[i] : i \in DOMAIN Surfaces}
Columns    == {Column[s] : s \in SurfaceSet}

ASSUME SetsAssumption ==
  /\ IsFiniteSet(Cycles) /\ IsFiniteSet(Articles) /\ None \notin Articles
ASSUME SurfacesAssumption ==
  /\ Surfaces \in Seq(SurfaceSet)
  /\ DOMAIN Column = SurfaceSet /\ Cap \in [SurfaceSet -> Nat]
  /\ Recording \subseteq SurfaceSet /\ Fetched \subseteq Recording
  /\ \A s \in Fetched, t \in SurfaceSet : Column[t] = Column[s] => t = s
  /\ \A s, t \in Recording : Column[t] = Column[s] => t = s
  /\ \A i, j \in DOMAIN Surfaces : Surfaces[i] = Surfaces[j] => i = j
ASSUME NumbersAssumption ==
  /\ MaxPerDay \in Nat /\ MinInterval \in Nat /\ Day \in Nat
  /\ PendingHang \in Nat /\ CycleHang \in Nat

VARIABLES
  now,
  row,       \* row[a]: status, attempts, published_at (0: NULL) and, while it is
             \* pending, updated_at (else 0: nothing reads it)
  column,    \* column[a][col]: the cross-post status columns of the row
  inFlight,  \* cycleInFlight.startedAt, 0 when null
  cyc,       \* cyc[c]: what the run in slot c is doing
  late,      \* abandoned cross-posts whose call still goes on
  uploads,   \* uploads[a]: times YouTube accepted the video
  posts,     \* posts[a][s]: times surface s published it
  abandoned, faults, overlaps \* deadlines overrun; disturbances so far

counters == <<abandoned, faults, overlaps>>
history  == <<uploads, posts>>
vars     == <<now, row, column, inFlight, cyc, late, history, counters>>

Idle == [pc |-> "idle", startedAt |-> 0, todo |-> {}, article |-> None, step |-> 1]

Stages == {"call", "answer"}

TypeOK ==
  /\ now \in Nat /\ inFlight \in Nat
  /\ row \in [Articles -> [status : {"none", "pending", "published", "failed"},
                           attempts : Nat, updated : Nat, published : Nat]]
  /\ column \in [Articles -> [Columns -> {"null", "pending", "posted", "failed", "skipped"}]]
  /\ cyc \in [Cycles -> [pc : {"idle", "pick", "upload", "accepted", "channels"} \cup Stages,
                         startedAt : Nat, todo : SUBSET Articles,
                         article : Articles \cup {None}, step : 1 .. Len(Surfaces) + 1]]
  /\ late \subseteq [article : Articles, surface : SurfaceSet, stage : Stages]
  /\ uploads \in [Articles -> Nat] /\ posts \in [Articles -> [SurfaceSet -> Nat]]
  /\ abandoned \in Nat /\ faults \in Nat /\ overlaps \in Nat

Init ==
  /\ now = 1 /\ inFlight = 0
  /\ row = [a \in Articles |-> [status |-> "none", attempts |-> 0, updated |-> 0, published |-> 0]]
  /\ column = [a \in Articles |-> [col \in Columns |-> "null"]]
  /\ cyc = [c \in Cycles |-> Idle]
  /\ late = {}
  /\ uploads = [a \in Articles |-> 0]
  /\ posts = [a \in Articles |-> [s \in SurfaceSet |-> 0]]
  /\ abandoned = 0 /\ faults = 0 /\ overlaps = 0

Disturbable == faults + overlaps < MaxDisturbances
Fault == Disturbable /\ faults' = faults + 1 /\ UNCHANGED <<abandoned, overlaps>>

Running(c) == cyc[c].pc # "idle"

-----------------------------------------------------------------------------
(* Selection.                                                              *)

Published(a) == row[a].status = "published"

\* Mutant: the daily cap without the spacing.
RateUnspaced == Cardinality({a \in Articles : Published(a) /\ row[a].published + Day > now}) < MaxPerDay

\* rateGate: under the cap of a rolling day and an interval after the last.
RateOpen ==
  /\ Cardinality({a \in Articles : Published(a) /\ row[a].published + Day > now}) < MaxPerDay
  /\ \A a \in Articles : Published(a) => row[a].published + MinInterval <= now

\* Mutant: the status is not looked at, so a published article qualifies.
EligibleWhenPublished(a) ==
  row[a].attempts < 2 /\ ~(row[a].status = "pending" /\ row[a].updated + PendingHang > now)

\* findFreshUnvideoedArticles: not published, fewer than two attempts, and no
\* attempt that may still be in flight.
Eligible(a) ==
  \/ row[a].status = "none"
  \/ /\ ~Published(a) /\ row[a].attempts < 2
     /\ ~(row[a].status = "pending" /\ row[a].updated + PendingHang > now)

\* The in-flight guard: no run, or one that is taken for hung.
GuardOpen == inFlight = 0 \/ now >= inFlight + CycleHang

\* A run begins and lists its candidates.
Start(c) ==
  /\ ~Running(c) /\ GuardOpen /\ RateOpen
  /\ IF \E d \in Cycles : Running(d)
     THEN Disturbable /\ overlaps' = overlaps + 1 /\ UNCHANGED <<abandoned, faults>>
     ELSE UNCHANGED counters
  /\ inFlight' = now
  /\ cyc' = [cyc EXCEPT ![c] = [Idle EXCEPT !.pc = "pick", !.startedAt = now,
                                            !.todo = {a \in Articles : Eligible(a)}]]
  /\ UNCHANGED <<now, row, column, late, history>>

\* A run that the rate gate turns away still clears the guard of the hung one.
StartGated ==
  /\ inFlight # 0 /\ GuardOpen /\ ~RateOpen
  /\ inFlight' = 0
  /\ UNCHANGED <<now, row, column, cyc, late, history, counters>>

-----------------------------------------------------------------------------
(* The upload.                                                             *)

\* claimVideoPost, which does not look at the status it replaces.
ClaimVideoPost(a) ==
  row' = [row EXCEPT ![a] = [@ EXCEPT !.status = "pending", !.updated = now,
                                      !.attempts = row[a].attempts + 1]]

\* The next candidate is rendered and claimed.
Claim(c) ==
  /\ cyc[c].pc = "pick"
  /\ \E a \in cyc[c].todo :
       /\ ClaimVideoPost(a)
       /\ cyc' = [cyc EXCEPT ![c].pc = "upload", ![c].article = a, ![c].todo = @ \ {a}]
  /\ UNCHANGED <<now, column, inFlight, late, history, counters>>

\* YouTube accepts the video.
Accept(c) ==
  /\ cyc[c].pc = "upload"
  /\ cyc' = [cyc EXCEPT ![c].pc = "accepted"]
  /\ uploads' = [uploads EXCEPT ![cyc[c].article] = @ + 1]
  /\ UNCHANGED <<now, row, column, inFlight, late, posts, counters>>

\* markVideoPublished.
Record(c) ==
  /\ cyc[c].pc = "accepted"
  /\ row' = [row EXCEPT ![cyc[c].article] =
               [@ EXCEPT !.status = "published", !.published = now, !.updated = 0]]
  /\ cyc' = [cyc EXCEPT ![c].pc = "channels", ![c].step = 1]
  /\ UNCHANGED <<now, column, inFlight, late, history, counters>>

MarkVideoFailed(a) ==
  row' = [row EXCEPT ![a] = [@ EXCEPT !.status = "failed", !.updated = 0]]

\* The upload throws, or YouTube's answer is lost, or markVideoPublished throws.
UploadFails(c) ==
  /\ \/ cyc[c].pc = "upload" /\ UNCHANGED counters
     \/ cyc[c].pc = "accepted" /\ Fault
  /\ MarkVideoFailed(cyc[c].article)
  /\ cyc' = [cyc EXCEPT ![c].pc = "pick", ![c].article = None]
  /\ UNCHANGED <<now, column, inFlight, late, history>>

\* markVideoPublished throws, and markVideoFailed too: the cycle ends.
Unrecorded(c) ==
  /\ cyc[c].pc = "accepted" /\ Fault
  /\ cyc' = [cyc EXCEPT ![c] = Idle]
  /\ inFlight' = 0
  /\ UNCHANGED <<now, row, column, late, history>>

-----------------------------------------------------------------------------
(* The cross-posts, each in runChannel.                                    *)

AtSurface(c, s) ==
  /\ cyc[c].pc \in {"channels"} \cup Stages
  /\ cyc[c].step <= Len(Surfaces) /\ s = Surfaces[cyc[c].step]

\* The markVideo* function of the surface's column; it leaves the status alone.
Mark(a, s, status) ==
  /\ column' = [column EXCEPT ![a][Column[s]] = status]
  /\ row' = [row EXCEPT ![a].updated = IF row[a].status = "pending" THEN now ELSE 0]

\* What the surface itself records of its outcome.
Note(a, s, status) ==
  IF s \in Recording THEN Mark(a, s, status) ELSE UNCHANGED <<column, row>>

NextSurface(c) == cyc' = [cyc EXCEPT ![c].pc = "channels", ![c].step = @ + 1]

\* count*PostsSince, from the instant the cycle began.
CapReached(c, s) ==
  Cardinality({a \in Articles : /\ column[a][Column[s]] = "posted"
                                /\ row[a].published + Day > cyc[c].startedAt}) >= Cap[s]

\* The cap is reached, the surface is not configured, the file is unsuitable:
\* the surface is skipped.
Skip(c) ==
  /\ cyc[c].pc = "channels"
  /\ \E s \in SurfaceSet : AtSurface(c, s) /\ Note(cyc[c].article, s, "skipped")
  /\ NextSurface(c)
  /\ UNCHANGED <<now, inFlight, late, history, counters>>

\* The call begins; a URL-fetch surface is marked pending before it.
Begin(c) ==
  /\ cyc[c].pc = "channels"
  /\ \E s \in SurfaceSet :
       /\ AtSurface(c, s) /\ ~CapReached(c, s)
       /\ IF s \in Fetched THEN Mark(cyc[c].article, s, "pending") ELSE UNCHANGED <<column, row>>
  /\ cyc' = [cyc EXCEPT ![c].pc = "call"]
  /\ UNCHANGED <<now, inFlight, late, history, counters>>

\* The surface publishes the post.
Post(c) ==
  /\ cyc[c].pc = "call"
  /\ \E s \in SurfaceSet :
       AtSurface(c, s) /\ posts' = [posts EXCEPT ![cyc[c].article][s] = @ + 1]
  /\ cyc' = [cyc EXCEPT ![c].pc = "answer"]
  /\ UNCHANGED <<now, row, column, inFlight, late, uploads, counters>>

Answered(c) ==
  /\ cyc[c].pc = "answer"
  /\ \E s \in SurfaceSet : AtSurface(c, s) /\ Note(cyc[c].article, s, "posted")
  /\ NextSurface(c)
  /\ UNCHANGED <<now, inFlight, late, history, counters>>

\* Mutant: a failed call leaves the column pending.
CallFailsUnmarked(c) ==
  /\ \/ cyc[c].pc = "call" /\ UNCHANGED counters
     \/ cyc[c].pc = "answer" /\ Fault
  /\ NextSurface(c)
  /\ UNCHANGED <<now, row, column, inFlight, late, history>>

\* The call throws, before the surface published or, its answer lost, after.
CallFails(c) ==
  /\ \/ cyc[c].pc = "call" /\ UNCHANGED counters
     \/ cyc[c].pc = "answer" /\ Fault
  /\ \E s \in SurfaceSet : AtSurface(c, s) /\ Note(cyc[c].article, s, "failed")
  /\ NextSurface(c)
  /\ UNCHANGED <<now, inFlight, late, history>>

\* Mutant: the deadline's rejection reaches the upload's catch branch.
AbandonFailsVideo(c) ==
  /\ cyc[c].pc \in Stages /\ abandoned < MaxAbandoned
  /\ abandoned' = abandoned + 1
  /\ \E s \in SurfaceSet :
       /\ AtSurface(c, s)
       /\ late' = late \cup {[article |-> cyc[c].article, surface |-> s, stage |-> cyc[c].pc]}
  /\ MarkVideoFailed(cyc[c].article)
  /\ NextSurface(c)
  /\ UNCHANGED <<now, column, inFlight, history, faults, overlaps>>

\* The deadline passes: runChannel marks the column failed, whatever the
\* surface records itself, and goes on; the call is not cancelled.
Abandon(c) ==
  /\ cyc[c].pc \in Stages /\ abandoned < MaxAbandoned
  /\ abandoned' = abandoned + 1
  /\ \E s \in SurfaceSet :
       /\ AtSurface(c, s)
       /\ late' = late \cup {[article |-> cyc[c].article, surface |-> s, stage |-> cyc[c].pc]}
       /\ Mark(cyc[c].article, s, "failed")
  /\ NextSurface(c)
  /\ UNCHANGED <<now, inFlight, history, faults, overlaps>>

\* An abandoned call goes through, returns or fails.
LatePost(l) ==
  /\ l.stage = "call"
  /\ posts' = [posts EXCEPT ![l.article][l.surface] = @ + 1]
  /\ late' = (late \ {l}) \cup {[l EXCEPT !.stage = "answer"]}
  /\ UNCHANGED <<now, row, column, inFlight, cyc, uploads, counters>>

\* Mutant: the answer of an abandoned call is not recorded.
LateReturnIgnored(l) ==
  /\ late' = late \ {l}
  /\ UNCHANGED <<now, row, column, inFlight, cyc, history, counters>>

LateReturn(l) ==
  /\ IF l.stage = "answer" THEN Note(l.article, l.surface, "posted")
                           ELSE Note(l.article, l.surface, "failed")
  /\ late' = late \ {l}
  /\ UNCHANGED <<now, inFlight, cyc, history, counters>>

-----------------------------------------------------------------------------
\* The cycle is over, and with it the guard, whoever holds it.
End(c) ==
  /\ \/ cyc[c].pc = "pick"
     \/ cyc[c].pc = "channels" /\ cyc[c].step > Len(Surfaces)
  /\ cyc' = [cyc EXCEPT ![c] = Idle]
  /\ inFlight' = 0
  /\ UNCHANGED <<now, row, column, late, history, counters>>

\* The worker process dies.
Crash ==
  /\ Fault
  /\ cyc' = [c \in Cycles |-> Idle] /\ inFlight' = 0 /\ late' = {}
  /\ UNCHANGED <<now, row, column, history>>

Tick ==
  /\ now < MaxNow /\ now' = now + 1
  /\ UNCHANGED <<row, column, inFlight, cyc, late, history, counters>>

VideoCycle(c) ==
  \/ Start(c) \/ Claim(c) \/ Accept(c) \/ Record(c) \/ UploadFails(c) \/ Unrecorded(c)
  \/ Skip(c) \/ Begin(c) \/ Post(c) \/ Answered(c) \/ CallFails(c) \/ Abandon(c) \/ End(c)

Next ==
  \/ \E c \in Cycles : VideoCycle(c)
  \/ \E l \in late : LatePost(l) \/ LateReturn(l)
  \/ StartGated \/ Crash \/ Tick

Spec == Init /\ [][Next]_vars

-----------------------------------------------------------------------------
(* Properties.                                                             *)

\* "The dedupe invariant": a video is uploaded again only for a crash, a lost
\* answer, a failed write or an overlap, once for each.
UploadsExplained == \A a \in Articles : uploads[a] <= 1 + faults + overlaps

\* "Claim an article for upload BEFORE the upload happens", and out after two
\* attempts: every upload has its own attempt on the row, whatever happened in
\* between, and only an overlapping run makes a third.
ClaimedFirst ==
  \A a \in Articles : uploads[a] <= row[a].attempts /\ row[a].attempts <= 2 + overlaps

\* What goes up to YouTube is claimed before and accounted for after.
UploadsKept == UploadsExplained /\ ClaimedFirst

\* "Spread, not batched": without overlapping runs two published videos are
\* the minimum interval apart and a rolling day holds at most MaxPerDay,
\* although the gate is asked minutes before the publication it allows.
RateHolds ==
  overlaps = 0 =>
    /\ \A a, b \in Articles :
         Published(a) /\ Published(b) /\ a # b /\ row[a].published <= row[b].published
           => row[a].published + MinInterval <= row[b].published
    /\ Cardinality({a \in Articles : Published(a) /\ row[a].published + Day > now}) <= MaxPerDay

\* A surface's posts of a rolling day exceed its cap by no more than the posts
\* the loop has lost track of: abandoned, lost to a fault or overlapping.
ChannelCap ==
  \A s \in Recording :
    Cardinality({a \in Articles : posts[a][s] > 0 /\ Published(a) /\ row[a].published + Day > now})
      <= Cap[s] + abandoned + faults + overlaps

\* The pace on YouTube and on the surfaces.
PaceHolds == RateHolds /\ ChannelCap

\* "OFF 'pending' ON EVERY TERMINAL PATH": a row is pending on a URL-fetch
\* surface only while some call for it is still going on, abandoned calls
\* included; only a crash leaves it behind.
PendingHasCall ==
  \A a \in Articles, s \in Fetched :
    column[a][Column[s]] = "pending" =>
      \/ faults > 0
      \/ \E c \in Cycles : cyc[c].article = a /\ cyc[c].pc \in Stages /\ AtSurface(c, s)
      \/ \E l \in late : l.article = a /\ l.surface = s

\* The rows' statuses stay within their types and none claims a call that is over.
PostsInv == TypeOK /\ PendingHasCall

\* No surface's failure, deadline or late answer re-arms a video that is live:
\* without overlapping runs a published row stays published.
PublishedStays ==
  [][\A a \in Articles : overlaps = 0 /\ Published(a) => Published(a)']_vars

\* "Both can run; neither depends on the other": a post that went out is recorded
\* as posted once its call has returned, however late that is.  The code gives a
\* surface no more than this when it shares its column with another one.
PostRecorded ==
  faults + overlaps = 0 =>
    \A a \in Articles, s \in Recording :
      posts[a][s] > 0 =>
        \/ column[a][Column[s]] = "posted"
        \/ \E c \in Cycles : cyc[c].article = a /\ cyc[c].pc \in Stages /\ AtSurface(c, s)
        \/ \E l \in late : l.article = a /\ l.surface = s
        \/ \E t \in SurfaceSet \ {s} : Column[t] = Column[s]
=============================================================================

----------------------------- MODULE SocialCycle -----------------------------
(***************************************************************************)
(* The article-card social publisher (services/socialPublisher.js and the  *)
(* social_posts and system_heartbeats tables of models/database.js): a     *)
(* cycle visits the platforms one after the other, each visit selects an   *)
(* unposted story, awaits its cards, posts it and records the outcome.     *)
(*                                                                         *)
(* A cycle may hang in any await.  What keeps one hung cycle from being    *)
(* either permanent silence or a false sign of life is the process-local   *)
(* flag cycleInFlight, the heartbeat row and their ownership rules.        *)
(***************************************************************************)
EXTENDS Naturals, Sequences, FiniteSets, FiniteSetsExt, SequencesExt

CONSTANTS
  Cycles,      \* slots for concurrently running invocations
  Procs,       \* processes that may run a cycle (worker, web)
  Crons,       \* those of them whose scheduler dispatches cycles
  Platforms,   \* configured platforms in ADAPTERS' order, a sequence
  Instagram,   \* the platform that posts events when IG_CAROUSEL_MODE=event
  Articles,    \* fresh, credible articles that are no programming blocks
  Events,      \* events that qualify for a carousel
  EventsOf,    \* EventsOf[a]: the events article a is linked to
  None,        \* no article, no event
  HangAge,     \* CYCLE_HANG_MS
  MinInterval, \* minIntervalMs of an adapter
  MaxTime,     \* bound: the clock
  MaxDisturbances \* bound: crashes, lost answers, failed writes, ops requests

ASSUME SlotsAssumption == IsFiniteSet(Cycles) /\ IsFiniteSet(Procs) /\ IsFiniteSet(Articles)
ASSUME CronsAssumption == Crons \subseteq Procs
ASSUME NoneAssumption == None \notin Articles \cup Events \cup Procs
ASSUME TimesAssumption ==
  HangAge \in Nat /\ MinInterval \in Nat /\ MaxTime \in Nat \ {0}
ASSUME PlatformsAssumption == Platforms \in Seq(STRING)
ASSUME EventsAssumption == EventsOf \in [Articles -> SUBSET Events]

VARIABLES
  now,       \* the clock; a tick separates any two starts
  inFlight,  \* inFlight[p]: cycleInFlight.startedAt of process p, 0 when null
  heartbeat, \* the social_cycle row of system_heartbeats
  cyc,       \* cyc[c]: what the invocation in slot c is doing
  rows,      \* rows[pl][a]: the social_posts row, status "none" when absent
  shipped,   \* shipped[pl][a]: times the platform published a
  decks,     \* decks[e]: times Instagram published event e's carousel
  open,      \* start times of real cycles that never completed or threw
  overtaken, \* those begun while a completion elsewhere had read the row, not written it
  lastStart, \* when the newest cycle started
  overlaps,  \* invocations begun while another was running
  faults,    \* crashes, lost answers and failed writes so far
  pokes      \* requests on the ops route so far

posts  == <<rows, shipped, decks>>
counts == <<faults, pokes>>
starts == <<open, overtaken, lastStart>>
vars   == <<now, inFlight, heartbeat, cyc, posts, starts, overlaps, counts>>

Times == 0 .. MaxTime
Plats == Range(Platforms)
Idle  == [pc |-> "idle", proc |-> None, startedAt |-> 0, dry |-> FALSE, todo |-> <<>>,
          article |-> None, event |-> None, fallback |-> FALSE]
NoRow == [status |-> "none", at |-> 0, event |-> None]

TypeOK ==
  /\ now \in Times \ {0}
  /\ inFlight \in [Procs -> Times]
  /\ heartbeat \in [phase : {"none", "start", "complete", "error"}, startedAt : Times]
  /\ cyc \in [Cycles -> [pc : {"idle", "select", "prepare", "post", "answer",
                               "complete", "error"},
                         proc : Procs \cup {None}, startedAt : Times, dry : BOOLEAN,
                         todo : Seq(Plats), article : Articles \cup {None},
                         event : Events \cup {None}, fallback : BOOLEAN]]
  /\ rows \in [Plats -> [Articles -> [status : {"none", "posted", "failed"}, at : Times,
                                      event : Events \cup {None}]]]
  /\ shipped \in [Plats -> [Articles -> Nat]]
  /\ decks \in [Events -> Nat]
  /\ open \subseteq Times /\ overtaken \subseteq Times /\ lastStart \in Times
  /\ overlaps \in Nat /\ faults \in Nat /\ pokes \in Nat

Disturbable == faults + pokes < MaxDisturbances
Fault == Disturbable /\ faults' = faults + 1

Init ==
  /\ now = 1
  /\ inFlight = [p \in Procs |-> 0]
  /\ heartbeat = [phase |-> "none", startedAt |-> 0]
  /\ cyc = [c \in Cycles |-> Idle]
  /\ rows = [pl \in Plats |-> [a \in Articles |-> NoRow]]
  /\ shipped = [pl \in Plats |-> [a \in Articles |-> 0]]
  /\ decks = [e \in Events |-> 0]
  /\ open = {} /\ overtaken = {} /\ lastStart = 0 /\ overlaps = 0
  /\ faults = 0 /\ pokes = 0

-----------------------------------------------------------------------------
(* Starting a cycle.                                                       *)

Running(c) == cyc[c].pc # "idle"
Overlapping == \E c \in Cycles : Running(c)

\* Takes slot c for an invocation in process p.
Occupy(c, p, startedAt, dry, todo) ==
  /\ cyc' = [cyc EXCEPT ![c] = [Idle EXCEPT !.pc = "select", !.proc = p,
                                  !.startedAt = startedAt, !.dry = dry, !.todo = todo]]
  /\ overlaps' = overlaps + (IF Overlapping THEN 1 ELSE 0)

\* Mutant: the flag is never overridden.
MayStartNeverOverrides(p) == inFlight[p] = 0

\* A cycle in flight is respected until it is older than HangAge.
MayStart(p) == inFlight[p] = 0 \/ now - inFlight[p] > HangAge

\* Cycle c has read the heartbeat row and is about to write it.
Writing(c) == cyc[c].pc \in {"complete", "error"}

\* Between that read and that write no other code of the process runs.
Yielded(p) == \A c \in Cycles : cyc[c].proc = p => ~Writing(c)

\* The scheduler dispatches real cycles; POST /auto-post asks for one, dry or
\* real, in whichever process serves it.
Dispatch(p, dry) ==
  \/ p \in Crons /\ ~dry /\ UNCHANGED pokes
  \/ Disturbable /\ pokes' = pokes + 1

\* runAllPlatformsCycle takes the flag.
TakeFlag(p) ==
  /\ Yielded(p) /\ MayStart(p)
  /\ lastStart < now /\ lastStart' = now
  /\ inFlight' = [inFlight EXCEPT ![p] = now]

\* runAllPlatformsCycle up to its first await.  A dry run takes the flag but
\* leaves no heartbeat.
Start(c, p, dry) ==
  /\ ~Running(c)
  /\ Dispatch(p, dry)
  /\ TakeFlag(p)
  /\ Occupy(c, p, now, dry, Platforms)
  /\ IF dry THEN UNCHANGED <<heartbeat, open, overtaken>>
     ELSE /\ heartbeat' = [phase |-> "start", startedAt |-> now]
          /\ open' = open \cup {now}
          /\ overtaken' = IF \E d \in Cycles : Writing(d) THEN overtaken \cup {now}
                          ELSE overtaken
  /\ UNCHANGED <<now, posts, faults>>

\* The heartbeat of the start cannot be written: it throws outside the try, no
\* cycle runs and the flag stays.
StartThrows(p) ==
  /\ Dispatch(p, FALSE)
  /\ TakeFlag(p) /\ Fault
  /\ UNCHANGED <<now, heartbeat, cyc, posts, open, overtaken, overlaps>>

\* POST /auto-post?platform=...: one platform's visit, outside the flag.
Poke(c, p, pl, dry) ==
  /\ ~Running(c) /\ Yielded(p)
  /\ Disturbable
  /\ pokes' = pokes + 1
  /\ Occupy(c, p, 0, dry, <<pl>>)
  /\ UNCHANGED <<now, inFlight, heartbeat, posts, starts, faults>>

-----------------------------------------------------------------------------
(* Ending a cycle.                                                         *)

\* Mutant: the flag is cleared whoever owns it.
ReleaseAnyFlag(c) ==
  inFlight' = IF cyc[c].startedAt = 0 THEN inFlight
              ELSE [inFlight EXCEPT ![cyc[c].proc] = 0]

\* The finally block: only the owner clears the flag.
Release(c) ==
  inFlight' = IF cyc[c].startedAt # 0 /\ inFlight[cyc[c].proc] = cyc[c].startedAt
              THEN [inFlight EXCEPT ![cyc[c].proc] = 0] ELSE inFlight

\* The invocation returns or throws.
Return(c) == Release(c) /\ cyc' = [cyc EXCEPT ![c] = Idle]

\* Single-platform visits and dry runs leave the heartbeat alone.
Beats(c) == cyc[c].startedAt # 0 /\ ~cyc[c].dry

\* Mutant: the row's owner is not asked.
OwnsRowAlways(c) == TRUE

\* The row is not a newer cycle's.
OwnsRow(c) == heartbeat.startedAt <= cyc[c].startedAt

\* recordCycleCompletionGuarded's SELECT: the end of the cycle is written next,
\* or ignored when a newer cycle owns the row.
End(c, phase) ==
  /\ IF Beats(c) /\ OwnsRow(c)
     THEN cyc' = [cyc EXCEPT ![c].pc = phase] /\ UNCHANGED <<inFlight, open>>
     ELSE /\ open' = IF Beats(c) THEN open \ {cyc[c].startedAt} ELSE open
          /\ Return(c)
  /\ UNCHANGED <<heartbeat, overtaken, lastStart>>

\* ... and its upsert, on the strength of that SELECT.
RecordEnd(c) ==
  /\ Writing(c)
  /\ heartbeat' = [phase |-> cyc[c].pc, startedAt |-> cyc[c].startedAt]
  /\ open' = open \ {cyc[c].startedAt}
  /\ Return(c)
  /\ UNCHANGED <<now, posts, overtaken, lastStart, overlaps, counts>>

\* The upsert throws: the completion's into the catch block, which records an
\* error instead, the error's out of the cycle.
RecordEndFails(c) ==
  /\ Writing(c) /\ Fault
  /\ \/ cyc[c].pc = "complete" /\ End(c, "error")
     \/ cyc[c].pc = "error" /\ Return(c) /\ UNCHANGED <<heartbeat, starts>>
  /\ UNCHANGED <<now, posts, overlaps, pokes>>

\* Every platform was visited.
Complete(c) ==
  /\ cyc[c].pc = "select" /\ cyc[c].todo = <<>>
  /\ End(c, "complete")
  /\ UNCHANGED <<now, posts, overlaps, counts>>

-----------------------------------------------------------------------------
(* runPlatformCycle: the visit of one platform.                            *)

Here(c) == Head(cyc[c].todo)

\* The visit is over; the next platform's turn.
Leave(c) ==
  cyc' = [cyc EXCEPT ![c].pc = "select", ![c].todo = Tail(@), ![c].article = None,
                     ![c].event = None, ![c].fallback = FALSE]

LastPostAt(pl) ==
  Max({0} \cup {rows[pl][a].at : a \in {b \in Articles : rows[pl][b].status = "posted"}})

CadenceGuard(c) ==
  LET last == LastPostAt(Here(c))
  IN ~cyc[c].dry /\ last # 0 /\ now - last < MinInterval

\* findFreshUnpostedArticles and leadArticleForEvent's notPostedTo.
Unposted(pl) == {a \in Articles : rows[pl][a].status = "none"}

\* Mutant: one failed attempt more, and success is not asked for.
RetiredByFailures(e) ==
  Cardinality({a \in Articles : rows[Instagram][a].status = "failed"
                                /\ rows[Instagram][a].event = e}) >= 3

\* isEventRetiredForPlatform.
Retired(e) ==
  LET OfEvent(status) == {a \in Articles : rows[Instagram][a].status = status
                                           /\ rows[Instagram][a].event = e}
  IN OfEvent("posted") # {} \/ Cardinality(OfEvent("failed")) >= 2

Leads(e) == {a \in Unposted(Instagram) : e \in EventsOf[a]}

\* pickEventFirstForInstagram's candidates.
Pickable == {e \in Events : ~Retired(e) /\ Leads(e) # {}}

Choose(c, a, e) ==
  cyc' = [cyc EXCEPT ![c].pc = "prepare", ![c].article = a, ![c].event = e]

\* Cadence guard, event-first selection on Instagram, article selection.
Select(c) ==
  /\ cyc[c].pc = "select" /\ cyc[c].todo # <<>>
  /\ IF CadenceGuard(c) \/ (Unposted(Here(c)) = {})
     THEN Leave(c)
     ELSE IF Here(c) = Instagram /\ Pickable # {}
     THEN \E e \in Pickable : \E a \in Leads(e) : Choose(c, a, e)
     ELSE \E a \in Unposted(Here(c)) : Choose(c, a, None)
  /\ UNCHANGED <<now, inFlight, heartbeat, posts, starts, overlaps, counts>>

\* What tryBuildEventCarousel may submit: the selected event or, after an
\* article-first selection, any event the article resolves to; None when a
\* check, the copy or a card falls through to the article's own cards.
DeckChoices(c) ==
  IF Here(c) # Instagram THEN {None}
  ELSE {None} \cup (IF cyc[c].event # None THEN {cyc[c].event} ELSE EventsOf[cyc[c].article])

\* The cards are rendered; a dry run and a failed composition stop here.
Prepare(c) ==
  /\ cyc[c].pc = "prepare"
  /\ \/ Leave(c)
     \/ ~cyc[c].dry /\ \E e \in DeckChoices(c) :
          cyc' = [cyc EXCEPT ![c].pc = "post", ![c].event = e]
  /\ UNCHANGED <<now, inFlight, heartbeat, posts, starts, overlaps, counts>>

\* The platform publishes what was sent.
Ship(c) ==
  LET e == cyc[c].event
  IN /\ cyc[c].pc = "post"
     /\ cyc' = [cyc EXCEPT ![c].pc = "answer"]
     /\ shipped' = [shipped EXCEPT ![Here(c)][cyc[c].article] = @ + 1]
     /\ decks' = IF e = None THEN decks ELSE [decks EXCEPT ![e] = @ + 1]
     /\ UNCHANGED <<now, inFlight, heartbeat, rows, starts, overlaps, counts>>

-----------------------------------------------------------------------------
(* Recording the outcome.                                                  *)

\* recordSocialPost: an upsert on (article, platform).  Nothing reads the time
\* of a failed row.
Upsert(c, status, event) ==
  rows' = [rows EXCEPT ![Here(c)][cyc[c].article] =
             [status |-> status, at |-> IF status = "posted" THEN now ELSE 0, event |-> event]]

\* idx_social_event_platform: one posted row per event and platform, next to
\* the row that is being replaced.
Conflicts(c) ==
  /\ cyc[c].event # None
  /\ \E a \in Articles \ {cyc[c].article} :
       /\ rows[Here(c)][a].status = "posted"
       /\ rows[Here(c)][a].event = cyc[c].event

\* The catch branch: a failed row, and it carries no event.
RecordFailed(c) == Upsert(c, "failed", None) /\ Leave(c)

\* Mutant: a success is not recorded.
AnsweredUnrecorded(c) ==
  /\ cyc[c].pc = "answer"
  /\ Leave(c)
  /\ UNCHANGED <<now, inFlight, heartbeat, posts, starts, overlaps, counts>>

\* The answer arrives.  A posted row that violates the index throws into the
\* catch branch.
Answered(c) ==
  /\ cyc[c].pc = "answer"
  /\ IF Conflicts(c) THEN RecordFailed(c)
     ELSE Upsert(c, "posted", cyc[c].event) /\ Leave(c)
  /\ UNCHANGED <<now, inFlight, heartbeat, shipped, decks, starts, overlaps, counts>>

\* The post never went out, or its answer was lost.  IG_POST_STYLE=auto tries
\* a single card after a failed article carousel; else the catch branch.
PostFails(c) ==
  /\ \/ cyc[c].pc = "post" /\ UNCHANGED faults
     \/ cyc[c].pc = "answer" /\ Fault
  /\ IF Here(c) = Instagram /\ cyc[c].event = None /\ ~cyc[c].fallback
     THEN /\ cyc' = [cyc EXCEPT ![c].pc = "post", ![c].fallback = TRUE]
          /\ UNCHANGED rows
     ELSE RecordFailed(c)
  /\ UNCHANGED <<now, inFlight, heartbeat, shipped, decks, starts, overlaps, pokes>>

\* The posted row cannot be written; the failed row can.
PostedRowFails(c) ==
  /\ cyc[c].pc = "answer" /\ Fault
  /\ RecordFailed(c)
  /\ UNCHANGED <<now, inFlight, heartbeat, shipped, decks, starts, overlaps, pokes>>

\* No row can be written: the visit throws and takes the cycle with it.
BothRowsFail(c) ==
  /\ cyc[c].pc \in {"post", "answer"} /\ Fault
  /\ End(c, "error")
  /\ UNCHANGED <<now, posts, overlaps, pokes>>

-----------------------------------------------------------------------------
(* The environment.                                                        *)

Tick ==
  /\ now < MaxTime
  /\ now' = now + 1
  /\ UNCHANGED <<inFlight, heartbeat, cyc, posts, starts, overlaps, counts>>

\* A process dies with its cycles and its flag.
Crash(p) ==
  /\ Fault
  /\ inFlight' = [inFlight EXCEPT ![p] = 0]
  /\ cyc' = [c \in Cycles |-> IF cyc[c].proc = p THEN Idle ELSE cyc[c]]
  /\ UNCHANGED <<now, heartbeat, posts, starts, overlaps, pokes>>

-----------------------------------------------------------------------------
Visit(c) ==
  /\ Yielded(cyc[c].proc)
  /\ \/ Select(c) \/ Prepare(c) \/ Ship(c) \/ Answered(c)
     \/ PostFails(c) \/ PostedRowFails(c) \/ BothRowsFail(c) \/ Complete(c)

Begin(c, p) ==
  \E dry \in BOOLEAN : Start(c, p, dry) \/ \E pl \in Plats : Poke(c, p, pl, dry)

Next ==
  \/ \E c \in Cycles : Visit(c) \/ RecordEnd(c) \/ RecordEndFails(c)
                       \/ \E p \in Procs : Begin(c, p)
  \/ \E p \in Procs : StartThrows(p) \/ Crash(p)
  \/ Tick

Spec == Init /\ [][Next]_vars

\* Time passes, the cron keeps dispatching real cycles, and a row that was read
\* is written without an await; a cycle that has begun may hang for ever, so
\* its visits have no fairness.
FairSpec ==
  /\ Spec
  /\ WF_vars(Tick)
  /\ \A c \in Cycles : WF_vars(RecordEnd(c))
  /\ \A p \in Crons : WF_vars(\E c \in Cycles : Start(c, p, FALSE))

-----------------------------------------------------------------------------
(* Properties.                                                             *)

\* Two cycles of one process overlap only when the earlier one is hung: a late
\* finisher never opens the door to a third cycle beside the second
\* (runAllPlatformsCycle's flag, override and finally block together).
SingleFlight ==
  \A c, d \in Cycles :
    /\ Running(c) /\ Running(d) /\ c # d
    /\ cyc[c].proc = cyc[d].proc
    /\ cyc[c].startedAt # 0 /\ cyc[d].startedAt >= cyc[c].startedAt
    => cyc[d].startedAt - cyc[c].startedAt > HangAge

HonestAbout(t) ==
  /\ t <= heartbeat.startedAt
  /\ t = heartbeat.startedAt => heartbeat.phase = "start"

\* The heartbeat belongs to the newest real cycle and says "start" exactly as
\* long as that cycle has not ended, crashed ones included: neither a dry run
\* nor the late completion of an abandoned cycle hides a hang.  The exception is
\* a cycle that began in one process while another process's completion stood
\* between its SELECT and its upsert; a single process has none (AloneHonest).
HeartbeatHonest == \A t \in open \ overtaken : HonestAbout(t)

\* With one process the ownership rule of recordCycleCompletionGuarded is
\* complete: the heartbeat is honest about every cycle.
AloneHonest == (\A p, q \in Procs : p = q) => \A t \in open : HonestAbout(t)

\* A story goes out twice on a platform only after an overlap, a crash, a lost
\* answer or a failed write, and at most once more for each.
DuplicatesExplained ==
  \A pl \in Plats, a \in Articles :
    shipped[pl][a] <= 1 + overlaps + faults

\* A hung cycle never silences a scheduler's process for good: the flag it holds is
\* released or overridden, a flag left by a start that threw included (or hung
\* cycles take all the model's slots, or a start elsewhere its last instant).
NeverSilent ==
  \A p \in Crons, t \in {u \in 1 .. MaxTime : u + HangAge < MaxTime} :
    inFlight[p] = t
      ~> inFlight[p] # t \/ (\A c \in Cycles : Running(c)) \/ lastStart = MaxTime

\* An event is not picked for a carousel again once one of it went out
\* ("retired on a successful post"), retries, fallbacks and decks of other
\* articles in between included, unless cycles overlapped or something failed.
\* (An article-first selection does not ask: see DeckChoices.)
PickedOnce ==
  [][\A c \in Cycles : \A e \in Events :
       Select(c) /\ cyc'[c].event = e /\ overlaps + faults = 0 => decks[e] = 0]_vars
=============================================================================

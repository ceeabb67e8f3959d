----------------------------- MODULE PaidLedger -----------------------------
(* The ledgers that keep the generators from paying a model again and again  *)
(* for one event.  Three generators have one, on the same pattern:           *)
(*                                                                           *)
(*   "facts"     whatWeKnow.js           the dossier's "What we know" block  *)
(*   "actors"    eventActorExtractor.js  the people and organisations        *)
(*   "carousel"  eventCarouselCopy.js    the copy of an Instagram carousel   *)
(*                                                                           *)
(* A row per event keeps the content last sent (a hash of the bundle), the   *)
(* attempts made on it, when the last one was and how it ended.  A decision  *)
(* is taken on the row, the model is awaited, the row is written.  While it  *)
(* is awaited the event can change, and the process can die with the answer  *)
(* paid and not recorded.                                                    *)
(*                                                                           *)
(* "facts" and "actors" run in hourly cycles under an in-memory flag and     *)
(* first SELECT the events worth a look; "carousel" is asked for one event   *)
(* by a social cycle, of which two can overlap when one hangs.               *)
(*                                                                           *)
(* Times are kept as what the code compares: the age of the last attempt in  *)
(* steps of the client's spacing (0, below the first wait; 1; 2, above the   *)
(* second: 6 h and 24 h, for the carousel 4 h and 24 h), and for each event  *)
(* whether events.last_activity_at is later than the last attempt.  The      *)
(* event promoter stamps the activity with the START of its own cycle, so    *)
(* that order depends on which cycle began first.                            *)
(*                                                                           *)
(* LedgerProofs extends this module and IncidentLedger: no name is in both.  *)
EXTENDS Naturals, FiniteSets

CONSTANTS
    Events,
    Contents,       \* the bundles an event can have, told apart by their hash
    Good,           \* those that pass the generator's gates (outlets, coherence)
    Calls,          \* slots for invocations of the generator
    MaxAttempts,    \* MAX_ATTEMPTS
    PerCycle,       \* WHAT_WE_KNOW_PER_CYCLE
    MaxFaults,      \* bound: crashes, failed writes, outages of the model and
                    \* paid replies read as null
    Nil

ASSUME GoodAssumption == Good \subseteq Contents
ASSUME NatAssumption == /\ MaxAttempts \in Nat \ {0}
                        /\ PerCycle \in Nat \ {0}
                        /\ MaxFaults \in Nat
ASSUME NilAssumption == Nil \notin Events \cup Contents
ASSUME CallsAssumption == IsFiniteSet(Calls) /\ Calls # {}

Clients == {"facts", "actors", "carousel"}
MaxAge == 2

VARIABLES
    client,     \* the generator this behaviour is about
    content,    \* content[e]: the bundle the event has now
    entry,      \* entry[e]: the ledger row, or NoRow
    newer,      \* events with last_activity_at later than the last attempt
    hot,        \* events with last_activity_at within the last 6 hours; this
                \* and "has" are kept for "actors" only, who look at them
    has,        \* events with rows in event_actors
    call,       \* call[r]: an invocation, or Idle
    seen,       \* events whose activity is later than the cycle's start
    prom,       \* the event promoter's cycle: see PromOff
    paid,       \* history: calls paid for each content since the row left it
    lost,       \* history: paid calls that left no row: the process died, the
                \* write failed, or the carousel's paid reply was read as null
    overlapped, \* history: events for which two calls were awaited at once
    faults      \* faults so far

paidVars == <<client, content, entry, newer, hot, has, call, seen, prom, paid, lost,
          overlapped, faults>>
graph == <<content, newer, hot, prom>>
history == <<paid, lost, overlapped>>

NoRow == [content |-> Nil, attempts |-> 0, status |-> "none", age |-> 0]
Entry == [content : Contents, attempts : 1 .. MaxAttempts + Cardinality(Calls),
        status : {"ok", "bad"}, age : 0 .. MaxAge]
Idle == [on |-> FALSE, todo |-> {}, calls |-> 0, at |-> Nil,
         content |-> Nil, reset |-> FALSE]
\* newer: events whose last attempt is older than the promoter's cycle;
\* after: the promoter's cycle began after the generator's; fresh: it began
\* within the last 6 hours.
PromOff == [on |-> FALSE, newer |-> {}, after |-> FALSE, fresh |-> FALSE]

Active == {r \in Calls : call[r].on}
\* A free slot: which one has no meaning, so it is always the same.
Free(r) == Active # Calls /\ r = CHOOSE x \in Calls : ~call[x].on
Awaiting == {r \in Calls : call[r].at # Nil}
HasRow(e) == entry[e] # NoRow

PaidInit ==
    /\ client \in Clients
    /\ content \in [Events -> Contents]
    /\ entry = [e \in Events |-> NoRow]
    /\ newer = {} /\ hot = {} /\ has = {}
    /\ call = [r \in Calls |-> Idle]
    /\ seen = {}
    /\ prom = PromOff
    /\ paid = [e \in Events |-> [c \in Contents |-> 0]]
    /\ lost = [e \in Events |-> 0]
    /\ overlapped = {}
    /\ faults = 0

-----------------------------------------------------------------------------
(* The ledger's rules.                                                       *)

\* Mutant: a good row is retried as well.
RetryDueAnyStatus(e) ==
    /\ entry[e].attempts < MaxAttempts
    /\ entry[e].age >= IF entry[e].attempts <= 1 THEN 1 ELSE 2

\* A capped retry: one wait after the first attempt, a longer after the second.
\* (The first entry of ATTEMPT_SPACING_MS is never used: a row has an attempt.)
RetryDue(e) ==
    /\ entry[e].status # "ok"
    /\ entry[e].attempts < MaxAttempts
    /\ entry[e].age >= IF entry[e].attempts <= 1 THEN 1 ELSE 2

\* Mutant: a settled event is never looked at again.
SelectedOnce(e) == (client = "facts" => content[e] \in Good) /\ (~HasRow(e) \/ RetryDue(e))

\* The SELECT of a cycle: the ledger is consulted in the selection, so that
\* settled events do not fill the candidate list.
Selected(e) ==
    /\ client = "facts" => content[e] \in Good
    /\ client = "actors" => e \notin has \/ e \in hot
    /\ ~HasRow(e) \/ e \in newer \/ RetryDue(e)

\* Mutant: the attempt cap is not consulted.
MayPayUncapped(e) ==
    \/ ~HasRow(e)
    \/ entry[e].content # content[e]
    \/ /\ entry[e].content = content[e]
       /\ entry[e].status # "ok"

\* ledgerDecision / shouldAttempt: the precise guard, on the content itself.
MayPay(e) ==
    \/ ~HasRow(e)
    \/ /\ entry[e].content # content[e]
       /\ ~(client = "facts" /\ entry[e].status = "ok" /\ entry[e].age = 0)
    \/ entry[e].content = content[e] /\ RetryDue(e)

\* A new content starts a new budget.  "facts" uses the decision it took before
\* the await, the others compare with the row as it is now.
NextAttempts(e, c, reset) ==
    IF ~HasRow(e) \/ (IF client = "facts" THEN reset ELSE entry[e].content # c)
    THEN 1
    ELSE entry[e].attempts + 1

\* The upsert: every column is the latest attempt's.  The probes of an event
\* without articles are counted no further than the cap, beyond which the
\* count is no longer looked at.
Recorded(e, c, reset, status) ==
    LET n == NextAttempts(e, c, reset)
        cap == MaxAttempts + Cardinality(Calls)
    IN  [content |-> c, attempts |-> IF n > cap THEN cap ELSE n,
         status |-> status, age |-> 0]

\* The write and what follows from its last_attempt_at, which is the start of
\* the cycle: activity since then is newer, the promoter's cycle may be older.
Write(e, c, reset, status) ==
    /\ entry' = [entry EXCEPT ![e] = Recorded(e, c, reset, status)]
    /\ newer' = IF e \in seen THEN newer \cup {e} ELSE newer \ {e}
    /\ prom' = IF ~prom.on THEN prom
               ELSE [prom EXCEPT !.newer = IF prom.after THEN @ \cup {e} ELSE @ \ {e}]
    /\ has' = IF client = "actors" /\ status = "ok" THEN has \cup {e} ELSE has

Payment(e, c) == [paid EXCEPT ![e] = [x \in Contents |-> IF x = c THEN @[x] + 1 ELSE 0]]

-----------------------------------------------------------------------------
(* The generator.                                                            *)

MayStart == client = "carousel" \/ Active = {}

\* A cycle: the selection is made once, at its start.
Start(r) ==
    /\ client # "carousel"
    /\ Free(r) /\ MayStart
    /\ call' = [call EXCEPT ![r] =
                   [Idle EXCEPT !.on = TRUE, !.todo = {e \in Events : Selected(e)}]]
    /\ seen' = {}
    /\ prom' = [prom EXCEPT !.after = FALSE]
    /\ UNCHANGED <<client, content, entry, newer, hot, has, faults>>
    /\ UNCHANGED history

\* A social cycle asks for the copy of one event.
Ask(r, e) ==
    /\ client = "carousel"
    /\ Free(r) /\ MayStart
    /\ content[e] \in Good
    /\ call' = [call EXCEPT ![r] = [Idle EXCEPT !.on = TRUE, !.todo = {e}]]
    /\ UNCHANGED <<client, entry, has, seen, faults>>
    /\ UNCHANGED graph /\ UNCHANGED history

Turn(r, e) ==
    /\ call[r].on /\ call[r].at = Nil
    /\ e \in call[r].todo
    /\ client = "facts" => call[r].calls < PerCycle

\* The gates or the ledger say no.
Skip(r, e) ==
    /\ Turn(r, e)
    /\ IF content[e] \in Good THEN ~MayPay(e) ELSE client # "actors"
    /\ call' = [call EXCEPT ![r].todo = @ \ {e}]
    /\ UNCHANGED <<client, entry, has, seen, faults>>
    /\ UNCHANGED graph /\ UNCHANGED history

\* The actors of an event without articles: an attempt is recorded, none paid.
Probe(r, e) ==
    /\ Turn(r, e)
    /\ client = "actors" /\ content[e] \notin Good
    /\ Write(e, content[e], TRUE, "bad")
    /\ paid' = [paid EXCEPT ![e] = [x \in Contents |-> IF x = content[e] THEN @[x] ELSE 0]]
    /\ call' = [call EXCEPT ![r].todo = @ \ {e}]
    /\ UNCHANGED <<client, content, hot, seen, faults, lost, overlapped>>

\* The decision is yes: the bundle is read, the model is awaited.
Call(r, e) ==
    /\ Turn(r, e)
    /\ content[e] \in Good /\ MayPay(e)
    /\ call' = [call EXCEPT ![r].todo = @ \ {e}, ![r].at = e, ![r].content = content[e],
                          ![r].reset = ~HasRow(e) \/ entry[e].content # content[e]]
    /\ overlapped' = IF \E o \in Awaiting : call[o].at = e
                      THEN overlapped \cup {e} ELSE overlapped
    /\ UNCHANGED <<client, content, entry, newer, hot, has, seen, prom, faults, paid, lost>>

Returned(r, n) == call' = [call EXCEPT ![r].at = Nil, ![r].content = Nil,
                                     ![r].reset = FALSE, ![r].calls = @ + n]

\* A paid reply: good, or nothing usable.  The latter is what the validation
\* refuses and, for "facts" and "actors", also what callJson turns into no value
\* (a refusal, an empty text): withMeta tells "facts" of it, "actors" takes null
\* for an empty answer, and both record an attempt.
Answer(r, status) ==
    /\ r \in Awaiting
    /\ LET e == call[r].at  c == call[r].content
       IN  Write(e, c, call[r].reset, status) /\ paid' = Payment(e, c)
    /\ Returned(r, 1)
    /\ UNCHANGED <<client, content, hot, seen, lost, overlapped, faults>>

\* An unpaid call that is recorded as an attempt all the same: any of "actors",
\* who see null, and of "facts" those for which the provider was asked (res.ok
\* is false; null, a call declined before, is not recorded).
LedgersUnpaid(asked) == client = "actors" \/ (client = "facts" /\ asked)

\* Nothing is paid: the call is declined (no key, open breaker, spent day), or
\* the provider is asked and fails.
Unavailable(r, asked) ==
    /\ r \in Awaiting /\ faults < MaxFaults
    /\ faults' = faults + 1
    /\ LET e == call[r].at  c == call[r].content
       IN  IF LedgersUnpaid(asked)
           THEN /\ Write(e, c, call[r].reset, "bad")
                /\ paid' = [paid EXCEPT ![e] = [x \in Contents |-> IF x = c THEN @[x] ELSE 0]]
           ELSE UNCHANGED <<entry, newer, prom, has, paid>>
    /\ Returned(r, IF asked THEN 1 ELSE 0)
    /\ UNCHANGED <<client, content, hot, seen, lost, overlapped>>

\* A paid call leaves no row.
Dropped(r) ==
    /\ r \in Awaiting /\ faults < MaxFaults
    /\ faults' = faults + 1
    /\ LET e == call[r].at  c == call[r].content
       IN  /\ paid' = [paid EXCEPT ![e][c] = @ + 1]
           /\ lost' = [lost EXCEPT ![e] = @ + 1]
    /\ Returned(r, 0)
    /\ UNCHANGED <<client, entry, has, seen, overlapped>>
    /\ UNCHANGED graph

\* The write throws: the answer is paid and dropped, the cycle goes on.
Unrecorded(r) == Dropped(r)

\* A refusal or an empty text is paid and comes back as null, which the
\* carousel takes for an outage: nothing is recorded.
Nulled(r) == client = "carousel" /\ Dropped(r)

Finish(r) ==
    /\ call[r].on /\ call[r].at = Nil
    /\ call[r].todo = {} \/ (client = "facts" /\ call[r].calls >= PerCycle)
    /\ call' = [call EXCEPT ![r] = Idle]
    /\ UNCHANGED <<client, entry, has, seen, faults>>
    /\ UNCHANGED graph /\ UNCHANGED history

\* The process dies with the answer on its way: paid, and not recorded.
Crash ==
    /\ Awaiting # {} /\ faults < MaxFaults
    /\ faults' = faults + 1
    /\ LET on(e, c) == Cardinality({r \in Awaiting : call[r].at = e /\ call[r].content = c})
       IN  /\ paid' = [e \in Events |-> [c \in Contents |-> paid[e][c] + on(e, c)]]
           /\ lost' = [e \in Events |-> lost[e] + Cardinality({r \in Awaiting : call[r].at = e})]
    /\ call' = [r \in Calls |-> Idle]
    /\ UNCHANGED <<client, entry, has, seen, overlapped>>
    /\ UNCHANGED graph

-----------------------------------------------------------------------------
(* The event graph, as far as a ledger can tell.  The carousel's does not    *)
(* look at the activity, so for it Prune stands for every change of content. *)

PromBegin ==
    /\ client # "carousel" /\ ~prom.on
    /\ prom' = [on |-> TRUE, newer |-> Events, after |-> TRUE, fresh |-> client = "actors"]
    /\ UNCHANGED <<client, content, entry, newer, hot, has, call, seen, faults>>
    /\ UNCHANGED history

\* A cluster matched the event: its articles are linked, and last_activity_at
\* becomes the start of the promoter's cycle.
PromApply(e, c) ==
    /\ prom.on
    /\ content' = [content EXCEPT ![e] = c]
    /\ newer' = IF e \in prom.newer THEN newer \cup {e} ELSE newer \ {e}
    /\ seen' = IF prom.after THEN seen \cup {e} ELSE seen \ {e}
    /\ hot' = IF prom.fresh THEN hot \cup {e} ELSE hot \ {e}
    /\ UNCHANGED <<client, entry, has, call, prom, faults>>
    /\ UNCHANGED history

PromEnd ==
    /\ prom.on
    /\ prom' = PromOff
    /\ UNCHANGED <<client, content, entry, newer, hot, has, call, seen, faults>>
    /\ UNCHANGED history

\* The breaker takes articles out and stamps the activity with its own clock.
Break(e, c) ==
    /\ client # "carousel" /\ content[e] # c
    /\ content' = [content EXCEPT ![e] = c]
    /\ newer' = newer \cup {e} /\ seen' = seen \cup {e}
    /\ hot' = IF client = "actors" THEN hot \cup {e} ELSE hot
    /\ UNCHANGED <<client, entry, has, call, prom, faults>>
    /\ UNCHANGED history

\* The nightly prune takes old articles out and stamps nothing.
Prune(e, c) ==
    /\ content[e] # c
    /\ content' = [content EXCEPT ![e] = c]
    /\ UNCHANGED <<client, entry, newer, hot, has, call, seen, prom, faults>>
    /\ UNCHANGED history

\* The first wait passes: longer than any of the generators' cycles takes.
Tick ==
    /\ Active = {}
    /\ entry' = [e \in Events |-> IF HasRow(e) /\ entry[e].age < MaxAge
                                THEN [entry[e] EXCEPT !.age = @ + 1] ELSE entry[e]]
    /\ hot' = {}
    /\ prom' = [prom EXCEPT !.fresh = FALSE]
    /\ UNCHANGED <<client, content, newer, has, call, seen, faults>>
    /\ UNCHANGED history

Generator(r) ==
    \/ Start(r) \/ Finish(r) \/ Unrecorded(r) \/ Nulled(r)
    \/ \E asked \in BOOLEAN : Unavailable(r, asked)
    \/ \E e \in Events : Ask(r, e) \/ Skip(r, e) \/ Probe(r, e) \/ Call(r, e)
    \/ \E s \in {"ok", "bad"} : Answer(r, s)

Graph ==
    \/ PromBegin \/ PromEnd
    \/ \E e \in Events, c \in Contents : PromApply(e, c) \/ Break(e, c) \/ Prune(e, c)

PaidNext == (\E r \in Calls : Generator(r)) \/ Crash \/ Graph \/ Tick
-----------------------------------------------------------------------------
(* Fairness: the hourly cron fires, a cycle goes on to its end, every call   *)
(* ends (requests carry a timeout) and time passes.  Nothing is assumed of   *)
(* the event graph.                                                          *)
Fairness ==
    /\ \A r \in Calls :
        /\ WF_paidVars(Start(r))
        /\ WF_paidVars(Finish(r))
        /\ WF_paidVars(\E e \in Events : Skip(r, e) \/ Probe(r, e) \/ Call(r, e))
        /\ WF_paidVars(\E s \in {"ok", "bad"} : Answer(r, s))
    /\ SF_paidVars(Tick)

PaidSpec == PaidInit /\ [][PaidNext]_paidVars /\ Fairness

-----------------------------------------------------------------------------
(* Properties.                                                               *)

PaidTypeOK ==
    /\ client \in Clients
    /\ content \in [Events -> Contents]
    /\ entry \in [Events -> Entry \cup {NoRow}]
    /\ newer \subseteq Events /\ hot \subseteq Events /\ has \subseteq Events
    /\ seen \subseteq Events /\ overlapped \subseteq Events
    /\ call \in [Calls -> [on : BOOLEAN, todo : SUBSET Events, calls : Nat,
                         at : Events \cup {Nil}, content : Contents \cup {Nil},
                         reset : BOOLEAN]]
    /\ client = "facts" => \A r \in Calls : call[r].calls <= PerCycle
    /\ prom \in [on : BOOLEAN, newer : SUBSET Events, after : BOOLEAN,
                fresh : BOOLEAN]
    /\ paid \in [Events -> [Contents -> Nat]]
    /\ lost \in [Events -> Nat]
    /\ faults \in 0 .. MaxFaults

(* "At most MAX_ATTEMPTS calls per hash" (whatWeKnow.js; the actors' "LLM    *)
(* calls per content-hash, lifetime", the carousel's "must not be re-paid    *)
(* for on every cycle"), until another content takes the row.  The code can  *)
(* go beyond it by the paid calls that left no row and, where two social     *)
(* cycles ask at once, by those already awaited when the last attempt is     *)
(* recorded.  For the carousel the first are not faults of ours alone:       *)
(* nothing bounds how often a model that refuses is asked again.             *)
AttemptsCapped ==
    \A e \in Events, c \in Contents :
        paid[e][c] <= MaxAttempts + lost[e]
                      + IF e \in overlapped THEN Cardinality(Calls) - 1 ELSE 0

(* For the carousel an outage costs an event none of its attempts: what the  *)
(* row counts was paid, whatever was declined, failed, overlapped or lost    *)
(* (eventCarouselCopy.js: "a provider outage or a budget-capped afternoon"   *)
(* must not "permanently blacklist events").  The other two do not promise   *)
(* it: "actors" record every null, "facts" the provider's failures.          *)
OutageKeepsBudget ==
    \A e \in Events :
        client = "carousel" /\ HasRow(e) => entry[e].attempts <= paid[e][entry[e].content]

(* With the types, what every call, refusal and crash keeps.                 *)
LedgerInv == PaidTypeOK /\ AttemptsCapped /\ OutageKeepsBudget

(* A good result is withdrawn only by an attempt on other content, unless    *)
(* two calls for the event were awaited at once.                             *)
GoodRowKept ==
    [][\A e \in Events :
         entry[e].status = "ok" /\ entry'[e].status # "ok"
         => entry'[e].content # entry[e].content \/ e \in overlapped]_paidVars

Settled(e) ==
    \/ content[e] \notin Good
    \/ entry[e].content = content[e]
       /\ (entry[e].status = "ok" \/ entry[e].attempts >= MaxAttempts)

(* Once the articles of an event no longer change and the promoter keeps     *)
(* matching it, its current content is attempted until it has a good result  *)
(* or no attempts left: whatever was changed, refused, lost, or stamped with *)
(* an earlier time before, nothing is forgotten for ever.  (The actors' SELECT *)
(* wants activity within 6 hours; cycles are hourly, so an event that keeps  *)
(* being matched is found so by one cycle after another.)                    *)
Settles ==
    client # "carousel" =>
        \A e \in Events :
            (/\ <>[][UNCHANGED content]_paidVars
             /\ []<><<PromApply(e, content[e])>>_paidVars
             /\ client = "actors" => []<><<e \in hot /\ \E r \in Calls : Start(r)>>_paidVars)
            => <>Settled(e)
=============================================================================

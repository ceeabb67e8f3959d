----------------------------- MODULE Newsletter -----------------------------
(* The subscribers and the mail they get.  Sign-up, confirmation and         *)
(* unsubscription are requests (routes/newsletter.js); four jobs send:       *)
(*                                                                           *)
(*   "rest", "americas"  the Morning Scoop, once a day each (digest.js)      *)
(*   "welcome"           the day-1 and the day-3 mail (welcomeSequence.js)   *)
(*   "reminder"          the one reminder to confirm (confirmReminder.js)    *)
(*                                                                           *)
(* A job reads the rows that are due, then awaits one mail after the other   *)
(* and stamps the row behind each.  Nothing is looked at again in between.   *)
(* The web process runs all but the reminder, without a flag: an hour's      *)
(* slow welcome run meets a later one's.  The reminder is a singleton job of *)
(* the worker.                                                               *)
(*                                                                           *)
(* Times are the ages of the stamps, in parts of a day.  Runs end within     *)
(* such a part, unless they are slow, which is a fault.                      *)
EXTENDS Integers, FiniteSets

CONSTANTS
    Subs,           \* e-mail addresses
    Runs,           \* slots for runs of the jobs
    After, Before,  \* the window of each one-off mail, by kind
    OnePerDay,      \* ONE_PER_DAY_MS
    Day,            \* parts of a day
    Fires,          \* Fires[edition]: the part of the day its cron fires in
    MaxAsks,        \* bound: sign-ups and confirmations
    MaxFaults,      \* bound: deaths, lost answers, failed writes, slow runs
    None

Editions == {"rest", "americas"}
Hourly   == {"welcome", "reminder"}
Jobs     == Editions \cup Hourly
OneOff   == {"d1", "d3", "reminder"}
Kinds    == OneOff \cup {"digest"}
Items    == Subs \X Kinds

ASSUME WindowAssumption ==
    /\ After \in [OneOff -> Nat \ {0}] /\ Before \in [OneOff -> Nat]
    /\ Before["d1"] <= Before["d3"]
    /\ OnePerDay \in Nat /\ Day \in Nat \ {0}
    /\ Fires \in [Editions -> 0 .. Day - 1]
    /\ MaxAsks \in Nat /\ MaxFaults \in Nat
ASSUME RunsAssumption == IsFiniteSet(Runs)
ASSUME NoneAssumption == None \notin Nat /\ None \notin Subs /\ None \notin Jobs
                         /\ None \notin Kinds

\* Ages are told apart as far as a window asks: one step beyond its end.
Ages(limit) == 0 .. limit + 1
Older(age, limit) == IF age = None \/ age = limit + 1 THEN age ELSE age + 1

VARIABLES
    row,        \* row[s]: the row in subscribers, or NoRow
    linked,     \* subscribers who were sent a link with the token of their row
    run,        \* run[r], or Off
    fired,      \* jobs that have started in this part of the day
    part,       \* the part of the day
    got, slack, \* history: see Outbox
    since,      \* history: the age of the last digest s was sent
    owed,       \* history: the runs that had s listed when it unsubscribed, less
                \* the mail that came since
    asks, faults

vars == <<row, linked, run, fired, part, got, slack, since, owed, asks, faults>>
bounds  == <<asks, faults>>

NoRow == [known |-> FALSE, edition |-> "rest", verified |-> None, off |-> FALSE,
          created |-> 0, sent |-> None, stamps |-> {}]
Off   == [job |-> None, kind |-> None, todo |-> {}]

Known(s) == row[s].known
Active == {r \in Runs : run[r].job # None}
Pending(r, s, k) == run[r].kind = k /\ s \in run[r].todo

Init ==
    /\ row = [s \in Subs |-> NoRow]
    /\ linked = {}
    /\ run = [r \in Runs |-> Off]
    /\ fired = {} /\ part = 0
    /\ got = [i \in Items |-> 0] /\ slack = [i \in Items |-> 0]
    /\ since = [s \in Subs |-> None]
    /\ owed = [s \in Subs |-> 0]
    /\ asks = 0 /\ faults = 0

-----------------------------------------------------------------------------
(* Requests.                                                                 *)

\* The upsert on the address: a known row keeps its token, its confirmation
\* and its stamps.  The mail has the token made for this request, which only a
\* new row takes, and goes out on a best effort.
SignUp(s, edition, arrives) ==
    /\ asks < MaxAsks
    /\ asks' = asks + 1
    /\ row' = [row EXCEPT ![s] =
                 IF Known(s) THEN [@ EXCEPT !.edition = edition, !.off = FALSE]
                 ELSE [NoRow EXCEPT !.known = TRUE, !.edition = edition]]
    /\ linked' = IF arrives /\ ~Known(s) THEN linked \cup {s} ELSE linked
    /\ owed' = [owed EXCEPT ![s] = 0]
    /\ UNCHANGED <<run, fired, part, got, slack, since, faults>>

\* A link is followed; one with another token than the row's is refused.
HasLink(s) == s \in linked

Confirm(s) ==
    /\ HasLink(s) /\ asks < MaxAsks
    /\ asks' = asks + 1
    /\ row' = [row EXCEPT ![s].verified = 0]
    /\ UNCHANGED <<linked, run, fired, part, got, slack, since, owed, faults>>

Unsubscribe(s) ==
    /\ HasLink(s) /\ ~row[s].off
    /\ row' = [row EXCEPT ![s].off = TRUE]
    /\ owed' = [owed EXCEPT ![s] =
                  Cardinality({r \in Active : s \in run[r].todo})]
    /\ UNCHANGED <<linked, run, fired, part, got, slack, since, bounds>>

-----------------------------------------------------------------------------
(* The rows that are due.                                                    *)

InWindow(age, k) == age \in After[k] .. Before[k]

\* Mutant: the welcome mails do not ask whether the subscriber has left.
DueWelcomeAnyone(k) ==
    {s \in Subs :
        /\ Known(s)
        /\ k \in {"digest", "reminder"} => ~row[s].off
        /\ k = "reminder" <=> row[s].verified = None
        /\ CASE k = "digest"   -> row[s].sent = None \/ row[s].sent > OnePerDay
             [] k = "reminder" -> InWindow(row[s].created, k) /\ k \notin row[s].stamps
             [] OTHER          -> InWindow(row[s].verified, k) /\ k \notin row[s].stamps}

Due(k) ==
    {s \in Subs :
        /\ Known(s) /\ ~row[s].off
        /\ k = "reminder" <=> row[s].verified = None
        /\ CASE k = "digest"   -> row[s].sent = None \/ row[s].sent > OnePerDay
             [] k = "reminder" -> InWindow(row[s].created, k) /\ k \notin row[s].stamps
             [] OTHER          -> InWindow(row[s].verified, k) /\ k \notin row[s].stamps}

FirstKind(job) ==
    IF job \in Editions THEN "digest" ELSE IF job = "welcome" THEN "d1" ELSE "reminder"

List(job) ==
    {s \in Due(FirstKind(job)) : job \in Editions => row[s].edition = job}

\* A row that a run has listed already is listed again.
Doubled(todo, k) ==
    [i \in Items |-> IF i[2] = k /\ i[1] \in todo /\ \E o \in Active : Pending(o, i[1], k)
                     THEN slack[i] + 1 ELSE slack[i]]

-----------------------------------------------------------------------------
(* A run.                                                                    *)

\* The crons: a day's for each edition; of the hourly ones the first of this
\* part that has something to do.
Cron(job) == job \notin fired /\ (job \in Editions => part = Fires[job])

\* A free slot: which one has no meaning.
Free(r) == Active # Runs /\ r = CHOOSE x \in Runs : run[x].job = None

\* Mutant: a welcome run returns when it has no day-1 mail left to send.
RunOnePass(job, kind, todo) ==
    IF todo = {} THEN Off ELSE [job |-> job, kind |-> kind, todo |-> todo]

\* A run on these rows; it is over with the last of them, and a welcome run
\* goes on to the day-3 mails then.
Run(job, kind, todo) ==
    IF todo = {} /\ kind # "d1" THEN Off ELSE [job |-> job, kind |-> kind, todo |-> todo]

Start(r, job) ==
    /\ Free(r) /\ Cron(job)
    /\ job = "reminder" => \A o \in Runs : run[o].job # job
    /\ fired' = fired \cup {job}
    /\ run' = [run EXCEPT ![r] = Run(job, FirstKind(job), List(job))]
    /\ slack' = Doubled(List(job), FirstKind(job))
    /\ UNCHANGED <<row, linked, part, got, since, owed, bounds>>

SecondStage(r) ==
    /\ run[r].kind = "d1" /\ run[r].todo = {}
    /\ run' = [run EXCEPT ![r] = Run("welcome", "d3", Due("d3"))]
    /\ slack' = Doubled(Due("d3"), "d3")
    /\ UNCHANGED <<row, linked, fired, part, got, since, owed, bounds>>

Past(r, s) == run' = [run EXCEPT ![r] = Run(@.job, @.kind, @.todo \ {s})]

\* No articles for the topics of s.
NothingToSend(r, s) ==
    /\ s \in run[r].todo /\ run[r].kind = "digest"
    /\ Past(r, s)
    /\ UNCHANGED <<row, linked, fired, part, got, slack, since, owed, bounds>>

\* The mail reached each s of these items; it has the row's token in it.
Reached(items) ==
    LET kinds(s) == {k \in Kinds : <<s, k>> \in items}
    IN  /\ got' = [i \in Items |-> IF i \in items THEN got[i] + 1 ELSE got[i]]
        /\ linked' = linked \cup {i[1] : i \in items}
        /\ since' = [s \in Subs |-> IF "digest" \in kinds(s) THEN 0 ELSE since[s]]
        /\ owed' = [s \in Subs |-> IF row[s].off THEN owed[s] - Cardinality(kinds(s)) ELSE owed[s]]

\* Mutant: markWelcomeSent stamps the first stage whichever was sent.
StampedD1(s, k) ==
    IF k = "digest" THEN [row EXCEPT ![s].sent = 0]
    ELSE [row EXCEPT ![s].stamps = @ \cup {IF k = "d3" THEN "d1" ELSE k}]

\* last_sent_at, welcome_d1_sent_at, welcome_d3_sent_at, confirm_reminder_sent_at
Stamped(s, k) ==
    IF k = "digest" THEN [row EXCEPT ![s].sent = 0] ELSE [row EXCEPT ![s].stamps = @ \cup {k}]

Sent(r, s) ==
    /\ s \in run[r].todo
    /\ row' = Stamped(s, run[r].kind)
    /\ Reached({<<s, run[r].kind>>})
    /\ Past(r, s)
    /\ UNCHANGED <<fired, part, slack, bounds>>

Fault == faults < MaxFaults /\ faults' = faults + 1

\* The mail server refused it: no stamp, it is due again.
Refused(r, s) ==
    /\ s \in run[r].todo /\ Fault
    /\ Past(r, s)
    /\ UNCHANGED <<row, linked, fired, part, got, slack, since, owed, asks>>

Slipped(items) == slack' = [i \in Items |-> IF i \in items THEN slack[i] + 1 ELSE slack[i]]

\* It went out, and its answer or the stamp was lost.
Unstamped(r, s) ==
    /\ s \in run[r].todo /\ Fault
    /\ Reached({<<s, run[r].kind>>}) /\ Slipped({<<s, run[r].kind>>})
    /\ Past(r, s)
    /\ UNCHANGED <<row, fired, part, asks>>

\* A process dies; of each of its runs one mail may be out and not stamped.
Crash(jobs) ==
    LET dying == {r \in Active : run[r].job \in jobs}
        atMost(r) == {{}} \cup {{<<s, run[r].kind>>} : s \in run[r].todo}
    IN  /\ dying # {} /\ Fault
        /\ \E out \in [dying -> SUBSET Items] :
             /\ \A r \in dying : out[r] \in atMost(r)
             /\ LET items == UNION {out[r] : r \in dying} IN Reached(items) /\ Slipped(items)
        /\ run' = [r \in Runs |-> IF r \in dying THEN Off ELSE run[r]]
        /\ UNCHANGED <<row, fired, part, asks>>

-----------------------------------------------------------------------------
(* Time.  Every cron fires in the part of the day it is set for.             *)

Tick ==
    /\ Hourly \cup {e \in Editions : Fires[e] = part} \subseteq fired
    /\ IF Active = {} THEN UNCHANGED faults ELSE Fault
    /\ part' = (part + 1) % Day
    /\ fired' = {}
    /\ row' = [s \in Subs |-> IF Known(s) THEN
                 [row[s] EXCEPT !.verified = Older(@, Before["d3"]), !.sent = Older(@, OnePerDay),
                                !.created = Older(@, Before["reminder"])]
               ELSE row[s]]
    /\ since' = [s \in Subs |-> Older(since[s], OnePerDay)]
    /\ got' = [i \in Items |-> IF i[2] = "digest" /\ since'[i[1]] # None /\ since'[i[1]] > OnePerDay
                               THEN 0 ELSE got[i]]
    /\ UNCHANGED <<linked, run, slack, owed, asks>>

Request(s) ==
    \/ Confirm(s) \/ Unsubscribe(s)
    \/ \E edition \in Editions, arrives \in BOOLEAN : SignUp(s, edition, arrives)

Mail(r, s) == Sent(r, s) \/ Refused(r, s) \/ Unstamped(r, s) \/ NothingToSend(r, s)

Progress(r) ==
    \/ SecondStage(r) \/ \E s \in Subs : Mail(r, s)

Next ==
    \/ \E s \in Subs : Request(s)
    \/ \E r \in Runs : Progress(r) \/ \E job \in Jobs : Start(r, job)
    \/ Crash(Jobs \ {"reminder"}) \/ Crash({"reminder"})
    \/ Tick

(* Fairness: crons fire when a slot is free, mail is answered (nodemailer's  *)
(* timeouts), time passes.  Nothing is assumed of people.                    *)
Fairness ==
    /\ WF_vars(\E r \in Runs : Progress(r))
    /\ WF_vars(\E r \in Runs, job \in Jobs : Start(r, job))
    /\ WF_vars(Tick)

Spec == Init /\ [][Next]_vars /\ Fairness

-----------------------------------------------------------------------------
(* Properties.                                                               *)

TypeOK ==
    /\ row \in [Subs -> [known : BOOLEAN, edition : Editions, off : BOOLEAN,
                         verified : Ages(Before["d3"]) \cup {None},
                         created : Ages(Before["reminder"]), sent : Ages(OnePerDay) \cup {None},
                         stamps : SUBSET OneOff]]
    /\ linked \subseteq Subs
    /\ run \in [Runs -> [job : Jobs \cup {None}, kind : Kinds \cup {None}, todo : SUBSET Subs]]
    /\ fired \subseteq Jobs /\ part \in 0 .. Day - 1
    /\ got \in [Items -> Nat] /\ slack \in [Items -> Nat]
    /\ since \in [Subs -> Ages(OnePerDay) \cup {None}]
    /\ owed \in [Subs -> Int]
    /\ asks \in 0 .. MaxAsks /\ faults \in 0 .. MaxFaults

Promise == INSTANCE Outbox

(* "Each email only fires once per subscriber", "exactly once" (the          *)
(* reminder), "one email per subscriber per day ... a subscriber whose       *)
(* country changed between the crons cannot get a second copy": except for   *)
(* the slips that Outbox names.                                              *)
MailedOnce == Promise!Spec

(* "Unsubscribe and we'll stop immediately": what comes after is what was    *)
(* already listed by the runs under way, one mail each.                      *)
StopsWhenAsked == \A s \in Subs : row[s].off => owed[s] >= 0

(* With the types, what every request and every mail keeps.                 *)
MailInv == TypeOK /\ StopsWhenAsked

(* Whoever signs up ends with a link that works, be the sign-up's mail lost  *)
(* and the tokens of later sign-ups dead: the reminder has it.               *)
LinkComes == \A s \in Subs : Known(s) ~> HasLink(s)

Reading(s) == row[s].verified # None /\ ~row[s].off

(* A confirmed subscriber who stays gets both welcome mails, each within its *)
(* window, whatever fails once, and however often the windows start again.   *)
WelcomeComes ==
    \A s \in Subs : row[s].verified = 0 /\ ~row[s].off
                    ~> {"d1", "d3"} \subseteq row[s].stamps \/ row[s].off

(* And gets digests for ever after, if there is something to send.           *)
DigestComes ==
    \A s \in Subs :
        <>[]Reading(s) /\ <>[][\A r \in Runs : ~NothingToSend(r, s)]_vars
        => []<>(since[s] = 0)

(* What the reader was promised comes.                                       *)
ReaderServed == LinkComes /\ WelcomeComes /\ DigestComes
=============================================================================

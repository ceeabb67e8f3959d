----------------------------- MODULE EventGraph -----------------------------
(* The event graph: which article belongs to which event.                    *)
(*                                                                           *)
(* eventPromoter.js turns story clusters into durable events.  A run reads   *)
(* the open events and the clusters into memory, scores them for minutes     *)
(* (yielding all along), then merges events that tell one story and links    *)
(* each cluster to the event it matched, absorbs it into the event it lost   *)
(* to another cluster, or creates an event for it.  Nothing is a             *)
(* transaction: every statement commits on its own.  eventBreaker.js then    *)
(* takes foreign articles out again, each event in a transaction.  The       *)
(* nightly prune deletes old articles, and then the links to them.           *)
(*                                                                           *)
(* The worker's cron holds a flag so that it is one run at a time.  The      *)
(* homepage's refresh starts a run in the web process that does not look at  *)
(* it: the two work on the same tables from snapshots of their own.          *)
(*                                                                           *)
(* The scores are text similarity: which cluster qualifies for which event   *)
(* is a free choice here, so what holds does so for every scoring.           *)
EXTENDS Naturals, FiniteSets

CONSTANTS
    Events,         \* rows that can be created
    Articles,
    Clusters,
    Named,          \* Named[c]: the articles of story_clusters.article_ids
    Born,           \* Born[c]: story_clusters.created_at
    Outlet,         \* Outlet[a]: articles.source_name
    Kin,            \* the sets of articles that clusterWindow puts together
    Cron, Manual,   \* the worker's run and the web process's
    MaxManual,      \* bound: refreshes
    MaxFaults,      \* bound: prunes, and deaths of a process in a run
    Old,            \* articles that reach the age of the prune
    None

Runs == {Cron, Manual}
Late == 9           \* the breaker's clock, after every cluster's created_at

ASSUME ClusterAssumption ==
    /\ Named \in [Clusters -> (SUBSET Articles) \ {{}}]
    /\ Old \subseteq Articles /\ IsFiniteSet(Articles)
    /\ Kin \subseteq SUBSET Articles
    /\ Born \in [Clusters -> 0 .. Late - 1]
ASSUME BoundAssumption == MaxManual \in Nat /\ MaxFaults \in Nat
ASSUME NoneAssumption == /\ None \notin Events /\ None \notin Clusters
                         /\ Cron # Manual

VARIABLES
    ev,         \* ev[e]: the row in events, or NoEvent
    links,      \* links[e]: event_articles
    live,       \* articles that have a row
    unswept,    \* articles deleted since the links were last swept
    run,        \* run[r]: the promoter's run in a process, or Off
    overlapped, \* history: two runs have been under way at once
    manuals, faults

vars == <<ev, links, live, unswept, run, overlapped, manuals, faults>>
bounds == <<manuals, faults>>

NoEvent == [status |-> "none", claim |-> None, into |-> None, started |-> 0]
EventRow == [status : {"open", "merged"}, claim : Clusters \cup {None},
             into : Events \cup {None}, started : 0 .. Late]
NoJob == [event |-> None, ids |-> {}, absorbed |-> None, cluster |-> None]
\* cand, mem: the events a run read and their articles as far as it knows;
\* unread: those whose articles it has still to read;
\* aids: the articles of the clusters still to be applied; won: the event that
\* a cluster is settled to match; taken: the events that are matched;
\* job: the statements under way; kept: the events the breaker split;
\* gone: history, deleted articles whose links were taken away since the run
\* began, or will be.
Off == [pc |-> "off", cand |-> {}, unread |-> {}, mem |-> [e \in Events |-> {}],
        aids |-> [c \in Clusters |-> {}], won |-> [c \in Clusters |-> None], taken |-> {},
        job |-> NoJob, kept |-> {}, gone |-> {}]

Open(e) == ev[e].status = "open"
Fresh == {e \in Events : ev[e] = NoEvent}
\* A row that does not exist yet: which one has no meaning.
NewRow == CHOOSE e \in Fresh : TRUE
Outlets(ids) == {Outlet[a] : a \in ids \cap live}
Holders(c) == {e \in Events : ev[e].claim = c}

Init ==
    /\ ev = [e \in Events |-> NoEvent]
    /\ links = [e \in Events |-> {}]
    /\ live = Articles /\ unswept = {}
    /\ run = [r \in Runs |-> Off]
    /\ overlapped = FALSE
    /\ manuals = 0 /\ faults = 0

-----------------------------------------------------------------------------
(* A run of the promoter: read.                                              *)

At(r, pc) == run[r].pc = pc
Set(r, record) == run' = [run EXCEPT ![r] = record]

\* Phase 2: the open events.  (Those idle for 14 days are left out; as every
\* event may also qualify for nothing, that is covered.)
Begin(r) ==
    /\ At(r, "off")
    /\ r = Manual => manuals < MaxManual
    /\ manuals' = IF r = Manual THEN manuals + 1 ELSE manuals
    /\ LET opened == {e \in Events : Open(e)}
       IN  Set(r, [Off EXCEPT !.pc = "load", !.cand = opened, !.unread = opened, !.gone = unswept])
    /\ overlapped' = (overlapped \/ \E o \in Runs \ {r} : ~At(o, "off"))
    /\ UNCHANGED <<ev, links, live, unswept, faults>>

\* Their articles, event by event.
ReadEvent(r, e) ==
    /\ At(r, "load") /\ e \in run[r].unread
    /\ Set(r, [run[r] EXCEPT !.unread = @ \ {e}, !.mem[e] = links[e]])
    /\ UNCHANGED <<ev, links, live, unswept, overlapped, bounds>>

\* Mutant: the clusters keep the articles that were pruned.
AlivePruned(ids) == ids

\* Live members only.
Alive(ids) == ids \cap live

\* Phase 3: the clusters, one by one; one that has no article left is skipped.
Unloaded(r) == {c \in Clusters : run[r].aids[c] = {} /\ Alive(Named[c]) # {}}

LoadCluster(r, c) ==
    /\ At(r, "load") /\ run[r].unread = {} /\ c \in Unloaded(r)
    /\ Set(r, [run[r] EXCEPT !.aids[c] = Alive(Named[c])])
    /\ UNCHANGED <<ev, links, live, unswept, overlapped, bounds>>

Loaded(r) ==
    /\ At(r, "load") /\ run[r].unread = {} /\ Unloaded(r) = {}
    /\ Set(r, [run[r] EXCEPT !.pc = "merge"])
    /\ UNCHANGED <<ev, links, live, unswept, overlapped, bounds>>

-----------------------------------------------------------------------------
(* Phase 4: merges, from the snapshot.  The event that started first, or of  *)
(* two that started at once either, takes the articles of the other.         *)

Job(event, ids, absorbed, cluster) ==
    [event |-> event, ids |-> ids, absorbed |-> absorbed, cluster |-> cluster]

\* Mutant: the absorbed event is marked and its articles are forgotten.
MergeWithoutLinks(r, s, a) ==
    /\ At(r, "merge")
    /\ s \in run[r].cand /\ a \in run[r].cand \ {s}
    /\ ev[s].started <= ev[a].started
    /\ Set(r, [run[r] EXCEPT !.pc = "mark", !.job = Job(s, run[r].mem[a], a, None),
                             !.cand = @ \ {a}, !.mem[s] = @ \cup run[r].mem[a], !.mem[a] = {}])
    /\ UNCHANGED <<ev, links, live, unswept, overlapped, bounds>>

\* Mutant: the absorbed event stays a candidate.
MergeKeepsCandidate(r, s, a) ==
    /\ At(r, "merge")
    /\ s \in run[r].cand /\ a \in run[r].cand \ {s}
    /\ ev[s].started <= ev[a].started
    /\ Set(r, [run[r] EXCEPT !.pc = "link", !.job = Job(s, run[r].mem[a], a, None),
                             !.mem[s] = @ \cup run[r].mem[a]])
    /\ UNCHANGED <<ev, links, live, unswept, overlapped, bounds>>

Merge(r, s, a) ==
    /\ At(r, "merge")
    /\ s \in run[r].cand /\ a \in run[r].cand \ {s}
    /\ ev[s].started <= ev[a].started
    /\ Set(r, [run[r] EXCEPT !.pc = "link", !.job = Job(s, run[r].mem[a], a, None),
                             !.cand = @ \ {a}, !.mem[s] = @ \cup run[r].mem[a], !.mem[a] = {}])
    /\ UNCHANGED <<ev, links, live, unswept, overlapped, bounds>>

\* The tombstone gives its claim up and names its survivor.
MarkMerged(r) ==
    /\ At(r, "mark")
    /\ ev' = [ev EXCEPT ![run[r].job.absorbed] =
                 [@ EXCEPT !.status = "merged", !.claim = None, !.into = run[r].job.event]]
    /\ Set(r, [run[r] EXCEPT !.pc = "merge", !.job = NoJob])
    /\ UNCHANGED <<links, live, unswept, overlapped, bounds>>

-----------------------------------------------------------------------------
(* Phase 5: each event is matched by one cluster at most; a cluster that     *)
(* qualified for events that others won is absorbed into the best of them.   *)
(* The assignment is made as the clusters are applied: an absorb before the  *)
(* winner's turn settles whose match that is.                                *)

Todo(r) == {c \in Clusters : run[r].aids[c] # {}}

-----------------------------------------------------------------------------
(* Phase 6: apply, cluster by cluster.                                       *)

Turn(r, c) == run[r].pc \in {"merge", "apply"} /\ c \in Todo(r)
Undecided(r, c) == Turn(r, c) /\ run[r].won[c] = None
Without(r, c) == [run[r] EXCEPT !.pc = "apply", !.aids[c] = {}, !.won[c] = None]
Done(r, c) == Set(r, Without(r, c))

\* Mutant: the guard looks at the incoming articles' number, not their outlets.
RefusedWhenEmpty(ids) == ids = {}

\* refuseSingleSource: an event does not grow while all of it is one outlet.
Refused(ids) == Cardinality(Outlets(ids)) < 2

\* The links of this cluster are next.
Linking(r, c, e) == [Without(r, c) EXCEPT !.pc = "link", !.job = Job(e, run[r].aids[c], None, c)]

\* An ambiguous cluster waits a cycle; a stale one creates nothing.
Hold(r, c) ==
    /\ Undecided(r, c)
    /\ Done(r, c)
    /\ UNCHANGED <<ev, links, live, unswept, overlapped, bounds>>

\* The event was, or will be, matched by d.
WonBy(r, e, d) ==
    IF e \in run[r].taken THEN d = None
    ELSE d \in Clusters /\ Undecided(r, d)

Settled(r, e, d) ==
    IF d = None THEN run[r] ELSE [run[r] EXCEPT !.won[d] = e, !.taken = @ \cup {e}]

Absorb(r, c, e, d) ==
    /\ Undecided(r, c) /\ e \in run[r].cand
    /\ d # c /\ WonBy(r, e, d)
    /\ LET w == [Settled(r, e, d) EXCEPT !.pc = "apply", !.aids[c] = {}]
           ids == run[r].mem[e] \cup run[r].aids[c]
       IN  IF Refused(ids) THEN Set(r, w)
           ELSE Set(r, [w EXCEPT !.pc = "link", !.job = Job(e, run[r].aids[c], None, c), !.mem[e] = ids])
    /\ UNCHANGED <<ev, links, live, unswept, overlapped, bounds>>

\* The matched event is updated; a cluster at least as large as the one that
\* named it also renames it and writes a meta of its own over the row's.
Match(r, c, e) ==
    /\ Turn(r, c) /\ e \in run[r].cand
    /\ IF run[r].won[c] = None THEN e \notin run[r].taken ELSE e = run[r].won[c]
    /\ IF Refused(run[r].mem[e] \cup run[r].aids[c])
       THEN Set(r, [Without(r, c) EXCEPT !.taken = @ \cup {e}]) /\ UNCHANGED ev
       ELSE /\ Set(r, [Linking(r, c, e) EXCEPT !.taken = @ \cup {e}])
            /\ ev' \in {ev, [ev EXCEPT ![e].into = None]}
    /\ UNCHANGED <<links, live, unswept, overlapped, bounds>>

\* The event that holds the cluster's identity and has articles of it is its
\* event, whatever the matcher says.
Adopted(r, c) == {e \in Holders(c) : Open(e) /\ links[e] \cap run[r].aids[c] # {}}

Adopt(r, c) ==
    /\ Undecided(r, c)
    /\ \E e \in Adopted(r, c) :
         IF Refused(links[e] \cup run[r].aids[c]) THEN Done(r, c) ELSE Set(r, Linking(r, c, e))
    /\ UNCHANGED <<ev, links, live, unswept, overlapped, bounds>>

\* Mutant: the claim of a hollow or foreign holder is left where it is.
ReleasedNever(c) == ev

\* Any other holder, a hollow event or another story, loses its claim.
Released(c) == [e \in Events |-> IF e \in Holders(c) THEN [ev[e] EXCEPT !.claim = None] ELSE ev[e]]

Create(r, c) ==
    /\ Undecided(r, c) /\ Fresh # {}
    /\ Adopted(r, c) = {}
    /\ IF Refused(run[r].aids[c])
       THEN Done(r, c) /\ UNCHANGED ev
       ELSE /\ ev' = Released(c)
            /\ Set(r, [Without(r, c) EXCEPT !.pc = "insert",
                                            !.job = Job(None, run[r].aids[c], None, c)])
    /\ UNCHANGED <<links, live, unswept, overlapped, bounds>>

\* The INSERT; it throws when the claim is taken (UNIQUE cluster_id), and the
\* cluster is given up for this run (as it is when the model has no row left).
Insert(r) ==
    /\ At(r, "insert")
    /\ LET c == run[r].job.cluster
       IN  IF Holders(c) # {} \/ Fresh = {}
           THEN UNCHANGED ev /\ Set(r, [run[r] EXCEPT !.pc = "apply", !.job = NoJob])
           ELSE /\ ev' = [ev EXCEPT ![NewRow] = [status |-> "open", claim |-> c, into |-> None,
                                                 started |-> Born[c]]]
                /\ Set(r, [run[r] EXCEPT !.pc = "link", !.job.event = NewRow])
    /\ UNCHANGED <<links, live, unswept, overlapped, bounds>>

\* The order of a list of articles, whichever it is.
FirstOf(ids) == CHOOSE a \in ids : TRUE

\* The links, one INSERT per article, and what follows the last of them.
Link(r) ==
    /\ At(r, "link")
    /\ IF run[r].job.ids = {}
       THEN /\ Set(r, IF run[r].job.absorbed # None THEN [run[r] EXCEPT !.pc = "mark"]
                      ELSE [run[r] EXCEPT !.pc = "apply", !.job = NoJob])
            /\ UNCHANGED links
       ELSE /\ links' = [links EXCEPT ![run[r].job.event] = @ \cup {FirstOf(run[r].job.ids)}]
            /\ Set(r, [run[r] EXCEPT !.job.ids = @ \ {FirstOf(@)}])
    /\ UNCHANGED <<ev, live, unswept, overlapped, bounds>>

\* The worker's run goes on to the breaker.
Applied(r) ==
    /\ run[r].pc \in {"merge", "apply"} /\ Todo(r) = {}
    /\ Set(r, IF r = Cron THEN [Off EXCEPT !.pc = "break", !.gone = run[r].gone] ELSE Off)
    /\ UNCHANGED <<ev, links, live, unswept, overlapped, bounds>>

-----------------------------------------------------------------------------
(* The breaker clusters the live articles of an event, keeps a group and     *)
(* spins one that is foreign to it off into an event of its own.             *)

\* What a run has read it may write again, whatever happened since.
Missed(ids) ==
    run' = [r \in Runs |-> IF At(r, "off") THEN run[r] ELSE [run[r] EXCEPT !.gone = @ \cup ids]]

Groups(e) == {g \in {k \cap links[e] \cap live : k \in Kin} : Cardinality(g) >= 2}

Split(e, core, spun) ==
    /\ At(Cron, "break") /\ Open(e) /\ Fresh # {}
    /\ {core, spun} \subseteq Groups(e) /\ core \cap spun = {}
    /\ ev' = [ev EXCEPT ![NewRow] = [status |-> "open", claim |-> None, into |-> None, started |-> Late]]
    /\ links' = [links EXCEPT ![e] = @ \ spun, ![NewRow] = spun]
    /\ Set(Cron, [run[Cron] EXCEPT !.kept = @ \cup {e}])
    /\ UNCHANGED <<live, unswept, overlapped, bounds>>

\* detachOrphans: what no group took, of the events that were just split.
Detach(e, drop) ==
    /\ At(Cron, "break") /\ e \in run[Cron].kept
    /\ Groups(e) # {}
    /\ drop # {} /\ drop \subseteq links[e] \ UNION Groups(e)
    /\ links' = [links EXCEPT ![e] = @ \ drop]
    /\ Missed(drop \ live)
    /\ UNCHANGED <<ev, live, unswept, overlapped, bounds>>

Broken ==
    /\ At(Cron, "break")
    /\ Set(Cron, Off)
    /\ UNCHANGED <<ev, links, live, unswept, overlapped, bounds>>

-----------------------------------------------------------------------------
(* pruneOldArticles, and processes that die.                                 *)

Prune(a) ==
    /\ a \in Old \cap live /\ faults < MaxFaults
    /\ faults' = faults + 1
    /\ live' = live \ {a} /\ unswept' = unswept \cup {a}
    /\ Missed({a})
    /\ UNCHANGED <<ev, links, overlapped, manuals>>

Sweep ==
    /\ unswept # {}
    /\ unswept' = {}
    /\ links' = [e \in Events |-> links[e] \cap live]
    /\ Missed(UNION {links[e] \ live : e \in Events})
    /\ UNCHANGED <<ev, live, overlapped, bounds>>

\* Between two statements.  A run that dies elsewhere is one that holds the
\* clusters it has left and breaks nothing.
Crash(r) ==
    /\ run[r].pc \in {"link", "mark", "insert"} /\ faults < MaxFaults
    /\ faults' = faults + 1
    /\ Set(r, Off)
    /\ UNCHANGED <<ev, links, live, unswept, overlapped, manuals>>

Apply(r, c) ==
    \/ Hold(r, c) \/ Adopt(r, c) \/ Create(r, c)
    \/ \E e \in Events : Match(r, c, e) \/ \E d \in Clusters \cup {None} : Absorb(r, c, e, d)

Promoter(r) ==
    \/ Begin(r) \/ Loaded(r) \/ MarkMerged(r)
    \/ Insert(r) \/ Link(r) \/ Applied(r)
    \/ \E e \in Events : ReadEvent(r, e)
    \/ \E s, a \in Events : Merge(r, s, a)
    \/ \E c \in Clusters : LoadCluster(r, c) \/ Apply(r, c)

Breaker ==
    \/ Broken
    \/ \E e \in Events :
         \/ \E core, spun \in Groups(e) : Split(e, core, spun)
         \/ \E drop \in SUBSET links[e] : Detach(e, drop)

Next ==
    \/ \E r \in Runs : Promoter(r) \/ Crash(r)
    \/ Breaker \/ Sweep \/ \E a \in Articles : Prune(a)

-----------------------------------------------------------------------------
(* Fairness: the cron fires and its runs go on to their end, as does a run   *)
(* once begun; the prune goes on to its sweep.                               *)
Progress(r) ==
    \/ Loaded(r) \/ MarkMerged(r) \/ Insert(r) \/ Link(r) \/ Applied(r)
    \/ \E e \in Events : ReadEvent(r, e)
    \/ \E c \in Clusters : LoadCluster(r, c) \/ Apply(r, c)

Fairness ==
    /\ WF_vars(Begin(Cron)) /\ WF_vars(Broken) /\ WF_vars(Sweep)
    /\ \A r \in Runs : WF_vars(Progress(r))

Spec == Init /\ [][Next]_vars /\ Fairness

-----------------------------------------------------------------------------
(* Properties.                                                               *)

TypeOK ==
    /\ ev \in [Events -> EventRow \cup {NoEvent}]
    /\ \A e \in Events : ev[e].status = "merged" => ev[e].claim = None
    /\ links \in [Events -> SUBSET Articles]
    /\ live \subseteq Articles /\ unswept \subseteq Articles \ live
    /\ run \in [Runs ->
         [pc : {"off", "load", "merge", "link", "mark", "apply", "insert", "break"},
          cand : SUBSET Events, unread : SUBSET Events, mem : [Events -> SUBSET Articles],
          aids : [Clusters -> SUBSET Articles],
          won : [Clusters -> Events \cup {None}], taken : SUBSET Events,
          job : [event : Events \cup {None}, ids : SUBSET Articles,
                 absorbed : Events \cup {None}, cluster : Clusters \cup {None}],
          kept : SUBSET Events, gone : SUBSET Articles]]
    /\ overlapped \in BOOLEAN
    /\ manuals \in 0 .. MaxManual /\ faults \in 0 .. MaxFaults

\* Every set of events that is closed under redirects and has e has an open one.
LeadsToOpen(e) ==
    \A S \in SUBSET Events :
        (e \in S /\ \A f \in S : ev[f].status = "merged" /\ ev[f].into # None => ev[f].into \in S)
        => \E f \in S : Open(f)

(* "A merged event's old slug is an alias for its survivor" (routes/events.js): *)
(* the redirects of a tombstone lead to an open event, through the merges of *)
(* its survivors, as long as the promoter runs one at a time.                *)
MergedReachesOpen ==
    ~overlapped => \A e \in Events : ev[e].status = "merged" => LeadsToOpen(e)

(* With the types, what every statement keeps.                               *)
GraphInv == TypeOK /\ MergedReachesOpen

(* The same without the proviso.                                             *)
DurableIdentity == \A e \in Events : ev[e].status = "merged" => LeadsToOpen(e)

InOpen(a) == \E e \in Events : Open(e) /\ a \in links[e]

(* No article is lost to the readers: one that is in an open event stays in  *)
(* one until it is pruned or detached, through merges, splits, lost runs and *)
(* deaths between any two statements.                                        *)
NoStoryLost ==
    [][\A a \in live' :
         InOpen(a) => \/ InOpen(a)' \/ overlapped'
                      \/ \E e \in Events : a \in links[e] /\ Detach(e, links[e] \ links'[e])]_vars

(* "An event must not GROW while everything in it is still one outlet": the  *)
(* guard judges by what the run has in memory, the rows must agree, unless   *)
(* an article was pruned meanwhile.                                          *)
TwoVoices ==
    [][\A r \in Runs :
         Link(r) /\ run[r].job.ids = {} /\ run[r].job.absorbed = None
         /\ run[r].gone = {} /\ ~overlapped
         => Cardinality({Outlet[a] : a \in links'[run[r].job.event]}) >= 2]_vars

Linked(a) == \E e \in Events : a \in links[e]

(* The links a prune swept are not written again by later runs ("recreated   *)
(* the dangling event_articles the prune had just swept, every cycle, all    *)
(* day"), only by the one it interrupted.                                    *)
NoDanglingReborn ==
    [][\A a \in Articles \ live' :
         Linked(a)' => Linked(a) \/ \E r \in Runs : a \in run[r].gone]_vars

Served(c) == Named[c] \cap live \subseteq UNION {links[e] : e \in {f \in Events : Open(f)}}

(* A story is not locked out: a cluster with two outlets that is not held    *)
(* for ever is in an open event again and again, whoever held its identity   *)
(* before ("otherwise ... the cluster can never promote again").             *)
ClusterServed ==
    \A c \in Clusters :
        (/\ <>[](Cardinality(Outlets(Named[c])) >= 2)
         /\ []<><<\E r \in Runs : Apply(r, c) /\ ~Hold(r, c)>>_vars)
        => []<>Served(c)
=============================================================================

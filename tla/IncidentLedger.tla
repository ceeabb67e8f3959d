--------------------------- MODULE IncidentLedger ---------------------------
(***************************************************************************)
(* The incident media ledger (services/incident/*.js, routes/              *)
(* incident-ops.js) and the shot resolver that draws on it                 *)
(* (services/shots/shotResolver.js).  A candidate is a post somebody else  *)
(* made; the operator has it verified, clears it for use and approves it,  *)
(* and may revoke that.  The handlers of the web process are synchronous   *)
(* and so atomic, all but one: a verification awaits its checks, and other *)
(* requests, a second verification of the same candidate among them, are   *)
(* served in between.  The resolver runs in the video worker.              *)
(*                                                                         *)
(* No code of the repository makes the transition to "constructed", so the *)
(* machine stops at "cleared" and no takedown ever falls due.              *)
(***************************************************************************)
EXTENDS Naturals, FiniteSets

CONSTANTS
  Cands,      \* post URLs and own files; media_candidates.post_url is UNIQUE
  Runs,       \* verifications that may be under way at once
  None,
  Checks,     \* the checks that are run, among CheckNames
  MaxRulings, \* bound: human rulings recorded
  MaxCrashes  \* bound: restarts of the web process

CheckNames == {"sensitivity", "prior_appearance", "corroboration", "context"}

ASSUME SetsAssumption == None \notin Cands /\ IsFiniteSet(Cands)
ASSUME ChecksAssumption ==
  Checks \subseteq CheckNames /\ {"sensitivity", "prior_appearance"} \subseteq Checks

Lanes    == {"grant", "fair_use", "owner"}
Statuses == {"candidate", "verifying", "verified", "killed", "clearing",
             "cleared", "uncleared", "constructed", "revoked"}

\* Mutant: a candidate nothing cleared may be taken up again.
EdgesReopened ==
  {<<"candidate", "verifying">>, <<"candidate", "killed">>,
   <<"verifying", "verified">>, <<"verifying", "killed">>,
   <<"verified", "clearing">>, <<"uncleared", "clearing">>,
   <<"clearing", "cleared">>, <<"clearing", "uncleared">>,
   <<"cleared", "constructed">>, <<"cleared", "revoked">>,
   <<"constructed", "revoked">>}

\* TRANSITIONS, the legal edges.
Edges ==
  {<<"candidate", "verifying">>, <<"candidate", "killed">>,
   <<"verifying", "verified">>, <<"verifying", "killed">>,
   <<"verified", "clearing">>,
   <<"clearing", "cleared">>, <<"clearing", "uncleared">>,
   <<"cleared", "constructed">>, <<"cleared", "revoked">>,
   <<"constructed", "revoked">>}

VARIABLES
  row,      \* row[c]: the media_candidates row, status "absent" before intake
  ruled,    \* ruled[c][k]: the latest human ruling on check k in c's trail
  trail,    \* trail[c]: what c's audit rows record, statuses and render taps
  run,      \* run[r]: the candidate whose checks verification r awaits
  enabled,  \* VIDEO_INCIDENT_MEDIA_ENABLED, read from the environment
  library,  \* candidates with a record in shot_assets
  plan,     \* candidates the shot plan being resolved or stored shows
  rulings, crashes,
  raced     \* history: candidates a verification left while another awaited,
            \* or between whose two writes the process died

vars == <<row, ruled, trail, run, enabled, library, plan, rulings, crashes, raced>>

Absent == [status |-> "absent", poster |-> FALSE, basis |-> "none", credit |-> FALSE,
           approved |-> FALSE, last |-> "none"]

TypeOK ==
  /\ row \in [Cands -> [status : Statuses \cup {"absent"},
                        poster : BOOLEAN,                   \* a handle or a name is known
                        basis : Lanes \cup {"none"},        \* clearance_basis
                        credit : BOOLEAN,                   \* credit_text is not empty
                        approved : BOOLEAN,                 \* render_approved
                        last : {"none", "killed", "verified", "needs_human"}]] \* last_verification
  /\ ruled \in [Cands -> [Checks -> {"none", "pass", "kill"}]]
  /\ trail \in [Cands -> SUBSET (Statuses \cup {"tap"})]
  /\ run \in [Runs -> Cands \cup {None}]
  /\ enabled \in BOOLEAN
  /\ library \subseteq Cands /\ plan \subseteq Cands /\ raced \subseteq Cands
  /\ rulings \in Nat /\ crashes \in Nat

Init ==
  /\ row = [c \in Cands |-> Absent]
  /\ ruled = [c \in Cands |-> [k \in Checks |-> "none"]]
  /\ trail = [c \in Cands |-> {}]
  /\ run = [r \in Runs |-> None]
  /\ enabled = TRUE
  /\ library = {} /\ plan = {}
  /\ rulings = 0 /\ crashes = 0 /\ raced = {}

---------------------------------------------------------------------------
\* The ledger's one way to change a status.

\* clearance_basis and credit_text are written when they are established and
\* carried afterwards.
Carried(c, basis, credit) ==
  [row[c] EXCEPT !.basis = IF basis = "none" THEN @ ELSE basis,
                 !.credit = @ \/ credit]

\* transition: the row and its audit row are one transaction.
Transition(c, to, basis, credit) ==
  /\ <<row[c].status, to>> \in Edges
  /\ row' = [row EXCEPT ![c] = [Carried(c, basis, credit) EXCEPT !.status = to]]
  /\ trail' = [trail EXCEPT ![c] = @ \cup {to}]

Move(c, to) == Transition(c, to, "none", FALSE)

pipeline == <<library, plan>>
others   == <<run, enabled, crashes, raced>>

---------------------------------------------------------------------------
\* Intake and verification.

\* createCandidate and createOwnCandidate; own material has no poster.  A post
\* that is known already gets its existing row back.
Intake(c, poster) ==
  /\ enabled
  /\ row[c].status = "absent"
  /\ row' = [row EXCEPT ![c].status = "candidate", ![c].poster = poster]
  /\ trail' = [trail EXCEPT ![c] = {"candidate"}]
  /\ UNCHANGED <<ruled, rulings, pipeline, others>>

\* Mutant: a settled candidate is verified again.
VerifyStartAlways(r, c) ==
  /\ enabled
  /\ run[r] = None
  /\ \/ Move(c, "verifying")
     \/ row[c].status \notin {"absent", "candidate"} /\ UNCHANGED <<row, trail>>
  /\ run' = [run EXCEPT ![r] = c]
  /\ UNCHANGED <<ruled, rulings, pipeline, enabled, crashes, raced>>

\* runVerification up to its awaits.  A candidate past verifying is not re-run.
VerifyStart(r, c) ==
  /\ enabled
  /\ run[r] = None
  /\ \/ Move(c, "verifying")
     \/ row[c].status = "verifying" /\ UNCHANGED <<row, trail>>
  /\ run' = [run EXCEPT ![r] = c]
  /\ UNCHANGED <<ruled, rulings, pipeline, enabled, crashes, raced>>

\* What each check can answer.  Prior appearance cannot pass by machine, and
\* without a vision pass neither can context.
Answers(k) ==
  CASE k = "sensitivity"      -> {"pass", "kill"}
    [] k = "prior_appearance" -> {"needs_human"}
    [] k = "corroboration"    -> {"pass", "needs_human", "kill"}
    [] k = "context"          -> {"needs_human", "kill"}

\* A sensitive story stops the rest of the checks.
MachineResults ==
  {m \in [Checks -> {"pass", "needs_human", "kill"}] :
     /\ \A k \in Checks : m[k] \in Answers(k)
     /\ m["sensitivity"] = "kill" =>
          \A k \in Checks \ {"sensitivity"} : m[k] = "needs_human"}

\* Mutant: a ruling settles an abstention and nothing else.
FoldedAbstentions(c, m) ==
  [k \in Checks |-> IF ruled[c][k] # "none" /\ m[k] = "needs_human" THEN ruled[c][k] ELSE m[k]]

\* applyHumanVerdicts: a person may be stricter, never looser.
Overridden(c, m) == \E k \in Checks : ruled[c][k] = "pass" /\ m[k] = "kill"
Folded(c, m) == [k \in Checks |-> IF ruled[c][k] = "none" THEN m[k] ELSE ruled[c][k]]

OutcomeFor(res) ==
  IF \E k \in Checks : res[k] = "kill" THEN "killed"
  ELSE IF \A k \in Checks : res[k] = "pass" THEN "verified" ELSE "needs_human"

Assessed(c, m) == OutcomeFor(Folded(c, m))

\* The rest of runVerification: rulings are read after the awaits, the
\* assessment is written to the row, and then the candidate is moved if it
\* still can be.  A ruling that would overturn a machine kill throws instead.
VerifyFinish(r, m) ==
  LET c == run[r] IN
  /\ c # None
  /\ IF Overridden(c, m)
     THEN UNCHANGED <<row, trail>>
     ELSE LET out == Assessed(c, m)
              moves == out # "needs_human" /\ <<row[c].status, out>> \in Edges IN
          /\ row' = [row EXCEPT ![c].last = out,
                                ![c].status = IF moves THEN out ELSE @]
          /\ trail' = [trail EXCEPT ![c] = IF moves THEN @ \cup {out} ELSE @]
  /\ run' = [run EXCEPT ![r] = None]
  /\ raced' = IF \E q \in Runs \ {r} : run[q] = c THEN raced \cup {c} ELSE raced
  /\ UNCHANGED <<ruled, rulings, pipeline, enabled, crashes>>

\* The process dies between the assessment's write and the move.
VerifyTorn(r, m) ==
  LET c == run[r] IN
  /\ crashes < MaxCrashes
  /\ c # None /\ ~Overridden(c, m)
  /\ row' = [row EXCEPT ![c].last = Assessed(c, m)]
  /\ run' = [q \in Runs |-> None]
  /\ crashes' = crashes + 1
  /\ raced' = raced \cup {c}
  /\ UNCHANGED <<ruled, rulings, trail, pipeline, enabled>>

\* recordHumanVerdict: a later ruling replaces an earlier one.
Rule(c, k, verdict) ==
  /\ enabled
  /\ rulings < MaxRulings
  /\ row[c].status # "absent"
  /\ ~(verdict = "pass" /\ row[c].status = "killed")
  /\ ruled' = [ruled EXCEPT ![c][k] = verdict]
  /\ rulings' = rulings + 1
  /\ UNCHANGED <<row, trail, pipeline, others>>

---------------------------------------------------------------------------
\* Clearance, the render tap and revocation.

BeginClearing(c) ==
  /\ enabled
  /\ Move(c, "clearing")
  /\ UNCHANGED <<ruled, rulings, pipeline, others>>

\* Only own material goes uncredited.
RequiresCredit(basis) == basis # "owner"

\* assertClearance: a lane that owes a credit needs one to give, from the
\* request (named) or from the poster on the row.
MayClear(c, lane, named) == RequiresCredit(lane) => named \/ row[c].poster

\* applyClearance: the status, the basis and the credit in one transaction.
Clear(c, lane, named) ==
  /\ enabled
  /\ MayClear(c, lane, named)
  /\ Transition(c, "cleared", lane, RequiresCredit(lane))
  /\ UNCHANGED <<ruled, rulings, pipeline, others>>

\* recordGrantReply: a grant carries no credit text of its own.
GrantReply(c, granted) ==
  IF granted
  THEN Clear(c, "grant", FALSE)
  ELSE /\ enabled
       /\ Move(c, "uncleared")
       /\ UNCHANGED <<ruled, rulings, pipeline, others>>

MarkUncleared(c) ==
  /\ enabled
  /\ Move(c, "uncleared")
  /\ UNCHANGED <<ruled, rulings, pipeline, others>>

Credited(c) == RequiresCredit(row[c].basis) => row[c].credit

ApproveForRender(c) ==
  /\ enabled
  /\ row[c].status = "cleared" /\ Credited(c)
  /\ row' = [row EXCEPT ![c].approved = TRUE]
  /\ trail' = [trail EXCEPT ![c] = @ \cup {"tap"}]
  /\ UNCHANGED <<ruled, rulings, pipeline, others>>

WithdrawRenderApproval(c) ==
  /\ enabled
  /\ row[c].status \notin {"absent", "constructed"}
  /\ row' = [row EXCEPT ![c].approved = FALSE]
  /\ UNCHANGED <<ruled, trail, rulings, pipeline, others>>

\* revokeClearance: never gated.
Revoke(c) ==
  /\ Move(c, "revoked")
  /\ UNCHANGED <<ruled, rulings, pipeline, others>>

---------------------------------------------------------------------------
\* The shot resolver, in the video worker.

\* Mutant: the query leaves the tap out.
RenderableUntapped(c) == row[c].status = "cleared" /\ Credited(c)

\* renderableCandidates
Renderable(c) == row[c].status = "cleared" /\ row[c].approved /\ Credited(c)

ledger == <<row, ruled, trail, rulings, others>>

\* rungIncident: the record goes on screen and into shot_assets.
IncidentRung(c) ==
  /\ Renderable(c)
  /\ library' = library \cup {c}
  /\ plan' = plan \cup {c}
  /\ UNCHANGED ledger

\* rungReuse: tried first; a stored record of the same subject.
ReuseRung(c) ==
  /\ c \in library
  /\ plan' = plan \cup {c}
  /\ UNCHANGED <<library, ledger>>

\* The plan is rendered and published, is pruned or grows older than six hours.
PlanGone ==
  /\ plan # {}
  /\ plan' = {}
  /\ UNCHANGED <<library, ledger>>

---------------------------------------------------------------------------
\* The web process restarts, perhaps with the flag changed.
Restart(flag) ==
  /\ crashes < MaxCrashes
  /\ crashes' = crashes + 1
  /\ run' = [r \in Runs |-> None]
  /\ enabled' = flag
  /\ UNCHANGED <<row, ruled, trail, rulings, pipeline, raced>>

Operator(c) ==
  \/ \E poster \in BOOLEAN : Intake(c, poster)
  \/ \E k \in Checks, verdict \in {"pass", "kill"} : Rule(c, k, verdict)
  \/ BeginClearing(c)
  \/ \E lane \in Lanes, named \in BOOLEAN : Clear(c, lane, named)
  \/ \E granted \in BOOLEAN : GrantReply(c, granted)
  \/ MarkUncleared(c)
  \/ ApproveForRender(c)
  \/ WithdrawRenderApproval(c)
  \/ Revoke(c)

Verification(r) ==
  \/ \E c \in Cands : VerifyStart(r, c)
  \/ \E m \in MachineResults : VerifyFinish(r, m) \/ VerifyTorn(r, m)

Resolver(c) == IncidentRung(c) \/ ReuseRung(c)

Next ==
  \/ \E c \in Cands : Operator(c) \/ Resolver(c)
  \/ \E r \in Runs : Verification(r)
  \/ PlanGone
  \/ \E flag \in BOOLEAN : Restart(flag)

Spec == Init /\ [][Next]_vars

---------------------------------------------------------------------------
\* Properties.

\* Whatever a shot plan shows, and whatever the resolver may show again, has
\* been verified, cleared and tapped, each with its audit row, and carries the
\* credit it owes.  It may have been revoked since (renderableCandidates, and
\* every handler that could take one of the three back).
DefensibleUse ==
  \A c \in library \cup plan :
    /\ row[c].status \in {"cleared", "revoked"}
    /\ {"verified", "clearing", "cleared", "tap"} \subseteq trail[c]
    /\ Credited(c)

PastVerification == {"verified", "clearing", "cleared", "uncleared", "revoked"}

\* The assessment kept on the row, which the queue shows and the digest
\* counts, is the one that decided the candidate, unless two verifications of
\* it overlapped or the process died between the two writes (runVerification).
AssessmentExplained ==
  \A c \in Cands \ raced :
    /\ row[c].status = "killed" => row[c].last = "killed"
    /\ row[c].status \in PastVerification => row[c].last = "verified"
    /\ row[c].status \in {"candidate", "verifying"} => row[c].last \in {"none", "needs_human"}

\* Nothing is verified against a human kill, even one recorded while the
\* checks were awaited, and nothing without a person's pass on prior
\* appearance, which no machine can give (applyHumanVerdicts,
\* checkPriorAppearance).
HumanDecides ==
  [][\A c \in Cands :
       row[c].status = "verifying" /\ row'[c].status = "verified" =>
         /\ \A k \in Checks : ruled[c][k] # "kill"
         /\ ruled[c]["prior_appearance"] = "pass"]_vars

\* The basis and the credit a candidate was cleared on stay on its row, through
\* revocation too: they answer why its footage was used (transition).
StickyRights ==
  [][\A c \in Cands :
       row[c].basis # "none" =>
         row'[c].basis = row[c].basis /\ row'[c].credit = row[c].credit]_vars

\* With the engine switched off a candidate's rights can be withdrawn and
\* nothing else happens to it: no request or verification that was under way
\* verifies, clears or approves it later (incidentWritesGate).
DarkOnlyWithdraws ==
  [][~enabled =>
       \A c \in Cands : row'[c] # row[c] => row'[c].status = "revoked"]_vars

\* The ledger and the resolver keep UseRights' promise: a candidate comes
\* forward one stage at a time, ends for good, and first enters the video
\* pipeline while it is usable.
Phase(status) ==
  CASE status \in {"absent", "candidate", "verifying"} -> "unjudged"
    [] status \in {"verified", "clearing"}             -> "verified"
    [] status \in {"cleared", "constructed"}           -> "usable"
    [] status \in {"killed", "uncleared", "revoked"}   -> "ended"

Rights == INSTANCE UseRights
            WITH Media <- Cands, phase <- [c \in Cands |-> Phase(row[c].status)],
                 sourced <- library

KeepsRights == Rights!Spec

\* A shot plan takes up a candidate only while the render query would return
\* it.  The reuse rung breaks this: shot_assets does not know of revocations.
PlanRenderable ==
  [][\A c \in plan' \ plan : Renderable(c)]_vars
=============================================================================

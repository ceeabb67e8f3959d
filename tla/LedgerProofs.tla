---------------------------- MODULE LedgerProofs ----------------------------
(***************************************************************************)
(* Theorems about the incident media ledger, for any candidates, checks,   *)
(* numbers of overlapping verifications, rulings and restarts; those about *)
(* the paid-call ledgers follow below.                                     *)
(*                                                                         *)
(* DefensibleUse and the action properties need what the ledger remembers: *)
(* the audit rows behind a status, that a verification is under way only   *)
(* while the engine is on, and that only an overlap or a crash moves a     *)
(* candidate from under it.  IInv collects this.                           *)
(***************************************************************************)
EXTENDS IncidentLedger, PaidLedger, FiniteSetTheorems, TLAPS

Row == [status : Statuses \cup {"absent"}, poster : BOOLEAN,
        basis : Lanes \cup {"none"}, credit : BOOLEAN, approved : BOOLEAN,
        last : {"none", "killed", "verified", "needs_human"}]

\* A status past a stage has that stage's audit row, an approval has its tap,
\* and a basis is established only where a candidate is or was cleared.
TrailKept ==
  \A c \in Cands :
    /\ row[c].status # "constructed"
    /\ row[c].status = "absent" => ~row[c].approved /\ row[c].last = "none"
    /\ row[c].status \in {"verified", "clearing", "cleared", "revoked"} => "verified" \in trail[c]
    /\ row[c].status \in {"clearing", "cleared", "revoked"} => "clearing" \in trail[c]
    /\ row[c].status \in {"cleared", "revoked"} => "cleared" \in trail[c]
    /\ row[c].approved => "tap" \in trail[c]
    /\ row[c].basis # "none" => row[c].status \in {"cleared", "revoked"}

\* What the resolver holds was approved once and owes no credit; a stored plan
\* shows nothing the library does not have.
UsedKept ==
  /\ plan \subseteq library
  /\ \A c \in library :
       row[c].status \in {"cleared", "revoked"} /\ "tap" \in trail[c] /\ Credited(c)

\* A verification is under way only while the engine is on, and its candidate
\* is being verified unless another run or a crash has decided it.
AwaitedKept ==
  \A r \in Runs : run[r] # None =>
    /\ enabled /\ row[run[r]].status # "absent"
    /\ run[r] \notin raced => row[run[r]].status = "verifying"

IInv == TypeOK /\ TrailKept /\ UsedKept /\ AwaitedKept /\ AssessmentExplained

-----------------------------------------------------------------------------
(* What one move of the ledger does.                                       *)

LEMMA EdgeStatuses ==
  ASSUME NEW from, NEW to, <<from, to>> \in Edges
  PROVE  from \in Statuses /\ to \in Statuses
  BY DEF Edges, Statuses

LEMMA TransitionEffect ==
  ASSUME TypeOK, NEW c \in Cands, NEW to, NEW basis \in Lanes \cup {"none"},
         NEW credit \in BOOLEAN, Transition(c, to, basis, credit)
  PROVE  /\ <<row[c].status, to>> \in Edges
         /\ row' \in [Cands -> Row] /\ trail' \in [Cands -> SUBSET (Statuses \cup {"tap"})]
         /\ row'[c].status = to /\ trail'[c] = trail[c] \cup {to}
         /\ row'[c].basis = IF basis = "none" THEN row[c].basis ELSE basis
         /\ row'[c].credit = (row[c].credit \/ credit)
         /\ row'[c].approved = row[c].approved /\ row'[c].last = row[c].last
         /\ \A d \in Cands \ {c} : row'[d] = row[d] /\ trail'[d] = trail[d]
<1>. DEFINE b == IF basis = "none" THEN row[c].basis ELSE basis
            k == row[c].credit \/ credit
            new == [row[c] EXCEPT !.basis = b, !.credit = k, !.status = to]
<1>1. row \in [Cands -> Row] /\ trail \in [Cands -> SUBSET (Statuses \cup {"tap"})]
  BY DEF TypeOK, Row
<1>2. <<row[c].status, to>> \in Edges /\ to \in Statuses
  BY EdgeStatuses DEF Transition
<1>3. [Carried(c, basis, credit) EXCEPT !.status = to] = new
  BY <1>1 DEF Carried, Row
<1>4. row' = [row EXCEPT ![c] = new]
  BY <1>3 DEF Transition
<1>5. /\ new \in Row /\ new.status = to /\ new.basis = b /\ new.credit = k
      /\ new.approved = row[c].approved /\ new.last = row[c].last
  <2>1. row[c] \in Row  BY <1>1
  <2>2. b \in Lanes \cup {"none"} /\ k \in BOOLEAN  BY <2>1 DEF Row
  <2>. HIDE DEF b, k
  <2>. QED  BY <1>2, <2>1, <2>2 DEF Row
<1>6. trail' = [trail EXCEPT ![c] = @ \cup {to}]
  BY DEF Transition
<1>. HIDE DEF new
<1>7. row' \in [Cands -> Row] /\ row'[c] = new /\ \A d \in Cands \ {c} : row'[d] = row[d]
  BY <1>1, <1>4, <1>5
<1>8. /\ trail' \in [Cands -> SUBSET (Statuses \cup {"tap"})]
      /\ trail'[c] = trail[c] \cup {to} /\ \A d \in Cands \ {c} : trail'[d] = trail[d]
  BY <1>1, <1>2, <1>6
<1>. QED  BY <1>2, <1>5, <1>7, <1>8

LEMMA MoveEffect ==
  ASSUME TypeOK, NEW c \in Cands, NEW to, Move(c, to)
  PROVE  /\ <<row[c].status, to>> \in Edges
         /\ row' \in [Cands -> Row] /\ trail' \in [Cands -> SUBSET (Statuses \cup {"tap"})]
         /\ row'[c].status = to /\ trail'[c] = trail[c] \cup {to}
         /\ row'[c].basis = row[c].basis /\ row'[c].credit = row[c].credit
         /\ row'[c].approved = row[c].approved /\ row'[c].last = row[c].last
         /\ \A d \in Cands \ {c} : row'[d] = row[d] /\ trail'[d] = trail[d]
<1>1. Transition(c, to, "none", FALSE)  BY DEF Move
<1>2. row[c].credit \in BOOLEAN  BY DEF TypeOK
<1>. QED  BY <1>1, <1>2, TransitionEffect

-----------------------------------------------------------------------------
(* The inductive invariant.                                                *)

LEMMA InitIInv == Init => IInv
<1>. SUFFICES ASSUME Init PROVE IInv
  OBVIOUS
<1>1. TypeOK
  BY DEF Init, TypeOK, Absent
<1>2. TrailKept /\ UsedKept /\ AwaitedKept /\ AssessmentExplained
  BY DEF Init, TrailKept, UsedKept, AwaitedKept, AssessmentExplained, PastVerification, Absent
<1>. QED  BY <1>1, <1>2 DEF IInv

\* A move to a status that is neither a verdict nor "cleared" or "verifying".
LEMMA MoveKeeps ==
  ASSUME IInv, NEW c \in Cands, NEW to \in {"clearing", "uncleared", "revoked"}, Move(c, to),
         UNCHANGED <<ruled, rulings, pipeline, others>>
  PROVE  IInv'
<1>1. TypeOK  BY DEF IInv
<1>2. /\ <<row[c].status, to>> \in Edges
      /\ row' \in [Cands -> Row] /\ trail' \in [Cands -> SUBSET (Statuses \cup {"tap"})]
      /\ row'[c].status = to /\ trail'[c] = trail[c] \cup {to}
      /\ row'[c].basis = row[c].basis /\ row'[c].credit = row[c].credit
      /\ row'[c].approved = row[c].approved /\ row'[c].last = row[c].last
      /\ \A d \in Cands \ {c} : row'[d] = row[d] /\ trail'[d] = trail[d]
  BY <1>1, MoveEffect
<1>3. TypeOK'
  BY <1>1, <1>2 DEF TypeOK, Row, pipeline, others
<1>4. /\ row[c].status \in {"verified", "clearing", "cleared", "constructed"}
      /\ to = "uncleared" => row[c].status = "clearing"
      /\ to = "clearing" => row[c].status = "verified"
      /\ to = "revoked" => row[c].status \in {"cleared", "constructed"}
  BY <1>2 DEF Edges
<1>5. TrailKept'
  BY <1>2, <1>4 DEF IInv, TrailKept
<1>6. UsedKept'
  <2>1. library' = library /\ plan' = plan /\ plan \subseteq library
    BY DEF IInv, UsedKept, pipeline
  <2>. SUFFICES ASSUME NEW d \in library
                PROVE  /\ row'[d].status \in {"cleared", "revoked"} /\ "tap" \in trail'[d]
                       /\ Credited(d)'
    BY <2>1 DEF UsedKept
  <2>2. d \in Cands  BY <1>1 DEF TypeOK
  <2>3. row[d].status \in {"cleared", "revoked"} /\ "tap" \in trail[d] /\ Credited(d)
    BY DEF IInv, UsedKept
  <2>4. row'[d].basis = row[d].basis /\ row'[d].credit = row[d].credit
    BY <1>2, <2>2
  <2>5. Credited(d)'  BY <2>3, <2>4 DEF Credited
  <2>. QED  BY <1>2, <1>4, <2>2, <2>3, <2>5
<1>7. AwaitedKept'
  <2>1. run' = run /\ enabled' = enabled /\ raced' = raced  BY DEF others
  <2>. SUFFICES ASSUME NEW r \in Runs, run[r] # None
                PROVE  /\ enabled /\ row'[run[r]].status # "absent"
                       /\ run[r] \notin raced => row'[run[r]].status = "verifying"
    BY <2>1 DEF AwaitedKept
  <2>2. run[r] \in Cands  BY <1>1 DEF TypeOK
  <2>3. /\ enabled /\ row[run[r]].status # "absent"
        /\ run[r] \notin raced => row[run[r]].status = "verifying"
    BY DEF IInv, AwaitedKept
  <2>. QED  BY <1>2, <1>4, <2>2, <2>3
<1>8. AssessmentExplained'
  BY <1>1, <1>2, <1>4 DEF IInv, TrailKept, AssessmentExplained, PastVerification, others
<1>. QED  BY <1>3, <1>5, <1>6, <1>7, <1>8 DEF IInv

LEMMA IntakeKeeps ==
  ASSUME IInv, NEW c \in Cands, NEW poster \in BOOLEAN, Intake(c, poster)
  PROVE  IInv'
<1>1. TypeOK  BY DEF IInv
<1>2. row \in [Cands -> Row] /\ trail \in [Cands -> SUBSET (Statuses \cup {"tap"})]
  BY <1>1 DEF TypeOK, Row
<1>3. /\ row' \in [Cands -> Row] /\ row[c].status = "absent"
      /\ row'[c].status = "candidate" /\ row'[c].basis = row[c].basis
      /\ row'[c].credit = row[c].credit /\ row'[c].approved = row[c].approved
      /\ row'[c].last = row[c].last
      /\ \A d \in Cands \ {c} : row'[d] = row[d]
  <2>. DEFINE new == [row[c] EXCEPT !.status = "candidate", !.poster = poster]
  <2>1. row[c] \in Row /\ "candidate" \in Statuses  BY <1>2 DEF Statuses
  <2>2. /\ new \in Row /\ new.status = "candidate" /\ new.basis = row[c].basis
        /\ new.credit = row[c].credit /\ new.approved = row[c].approved
        /\ new.last = row[c].last
    BY <2>1 DEF Row
  <2>3. row' = [row EXCEPT ![c] = new] /\ row[c].status = "absent"
    BY <1>2 DEF Intake
  <2>. HIDE DEF new
  <2>. QED  BY <1>2, <2>2, <2>3
<1>4. /\ trail' \in [Cands -> SUBSET (Statuses \cup {"tap"})]
      /\ trail'[c] = {"candidate"} /\ \A d \in Cands \ {c} : trail'[d] = trail[d]
  BY <1>2 DEF Intake, Statuses
<1>5. UNCHANGED <<ruled, rulings, library, plan, run, enabled, crashes, raced>>
  BY DEF Intake, pipeline, others
<1>6. TypeOK'
  BY <1>1, <1>3, <1>4, <1>5 DEF TypeOK, Row
<1>7. TrailKept'
  BY <1>3, <1>4 DEF IInv, TrailKept
<1>8. c \notin library
  BY <1>3 DEF IInv, UsedKept
<1>9. UsedKept'
  BY <1>1, <1>3, <1>4, <1>5, <1>8 DEF IInv, UsedKept, Credited, TypeOK
<1>10. AwaitedKept'
  <2>1. \A r \in Runs : run[r] # None => run[r] \in Cands \ {c}
    BY <1>1, <1>3 DEF IInv, AwaitedKept, TypeOK
  <2>. QED  BY <1>3, <1>5, <2>1 DEF IInv, AwaitedKept
<1>11. AssessmentExplained'
  BY <1>3, <1>5 DEF IInv, TrailKept, AssessmentExplained, PastVerification
<1>. QED  BY <1>6, <1>7, <1>9, <1>10, <1>11 DEF IInv

\* A verification begins: the candidate is or becomes "verifying".
LEMMA VerifyStartKeeps ==
  ASSUME IInv, NEW r \in Runs, NEW c \in Cands, VerifyStart(r, c)
  PROVE  IInv'
<1>1. TypeOK  BY DEF IInv
<1>2. /\ row' \in [Cands -> Row] /\ trail' \in [Cands -> SUBSET (Statuses \cup {"tap"})]
      /\ row[c].status \in {"candidate", "verifying"} /\ row'[c].status = "verifying"
      /\ row'[c].basis = row[c].basis /\ row'[c].credit = row[c].credit
      /\ row'[c].approved = row[c].approved /\ row'[c].last = row[c].last
      /\ trail[c] \subseteq trail'[c]
      /\ \A d \in Cands \ {c} : row'[d] = row[d] /\ trail'[d] = trail[d]
  <2>1. CASE Move(c, "verifying")
    <3>1. <<row[c].status, "verifying">> \in Edges  BY <1>1, <2>1, MoveEffect
    <3>2. row[c].status = "candidate"  BY <3>1 DEF Edges
    <3>. QED  BY <1>1, <2>1, <3>2, MoveEffect
  <2>2. CASE row[c].status = "verifying" /\ UNCHANGED <<row, trail>>
    BY <1>1, <2>2 DEF TypeOK, Row
  <2>. QED  BY <2>1, <2>2 DEF VerifyStart
<1>3. /\ enabled /\ run' = [run EXCEPT ![r] = c]
      /\ UNCHANGED <<ruled, rulings, library, plan, enabled, crashes, raced>>
  BY DEF VerifyStart, pipeline
<1>4. TypeOK'
  BY <1>1, <1>2, <1>3 DEF TypeOK, Row
<1>5. TrailKept'
  BY <1>2 DEF IInv, TrailKept
<1>6. c \notin library
  BY <1>2 DEF IInv, UsedKept
<1>7. UsedKept'
  BY <1>1, <1>2, <1>3, <1>6 DEF IInv, UsedKept, Credited, TypeOK
<1>8. AwaitedKept'
  <2>. SUFFICES ASSUME NEW q \in Runs, run'[q] # None
                PROVE  /\ enabled /\ row'[run'[q]].status # "absent"
                       /\ run'[q] \notin raced => row'[run'[q]].status = "verifying"
    BY <1>3 DEF AwaitedKept
  <2>1. CASE q = r
    BY <1>1, <1>2, <1>3, <2>1 DEF TypeOK
  <2>2. CASE q # r
    <3>1. run'[q] = run[q] /\ run[q] \in Cands  BY <1>1, <1>3, <2>2 DEF TypeOK
    <3>. QED  BY <1>2, <1>3, <3>1 DEF IInv, AwaitedKept
  <2>. QED  BY <2>1, <2>2
<1>9. AssessmentExplained'
  BY <1>2, <1>3 DEF IInv, AssessmentExplained, PastVerification
<1>. QED  BY <1>4, <1>5, <1>7, <1>8, <1>9 DEF IInv

LEMMA OutcomeType ==
  ASSUME NEW c, NEW m PROVE Assessed(c, m) \in {"killed", "verified", "needs_human"}
  BY DEF Assessed, OutcomeFor

\* A verification ends: its assessment is written, and the candidate is moved
\* if it still is where the verdict can move it.
LEMMA VerifyFinishEffect ==
  ASSUME TypeOK, NEW r \in Runs, NEW m, VerifyFinish(r, m)
  PROVE  /\ run[r] \in Cands
         /\ row' \in [Cands -> Row] /\ trail' \in [Cands -> SUBSET (Statuses \cup {"tap"})]
         /\ \/ Overridden(run[r], m) /\ row' = row /\ trail' = trail
            \/ /\ ~Overridden(run[r], m)
               /\ row'[run[r]].last = Assessed(run[r], m)
               /\ row'[run[r]].status =
                    IF /\ Assessed(run[r], m) # "needs_human"
                       /\ <<row[run[r]].status, Assessed(run[r], m)>> \in Edges
                    THEN Assessed(run[r], m) ELSE row[run[r]].status
               /\ trail'[run[r]] =
                    IF /\ Assessed(run[r], m) # "needs_human"
                       /\ <<row[run[r]].status, Assessed(run[r], m)>> \in Edges
                    THEN trail[run[r]] \cup {Assessed(run[r], m)} ELSE trail[run[r]]
         /\ row'[run[r]].basis = row[run[r]].basis /\ row'[run[r]].credit = row[run[r]].credit
         /\ row'[run[r]].approved = row[run[r]].approved
         /\ \A d \in Cands \ {run[r]} : row'[d] = row[d] /\ trail'[d] = trail[d]
<1>. DEFINE c == run[r]
            out == Assessed(c, m)
            moves == out # "needs_human" /\ <<row[c].status, out>> \in Edges
<1>1. c \in Cands
  BY DEF VerifyFinish, TypeOK
<1>2. row \in [Cands -> Row] /\ trail \in [Cands -> SUBSET (Statuses \cup {"tap"})]
  BY DEF TypeOK, Row
<1>3. CASE Overridden(c, m)
  BY <1>1, <1>2, <1>3 DEF VerifyFinish
<1>4. CASE ~Overridden(c, m)
  <2>1. /\ row' = [row EXCEPT ![c].last = out, ![c].status = IF moves THEN out ELSE @]
        /\ trail' = [trail EXCEPT ![c] = IF moves THEN @ \cup {out} ELSE @]
    BY <1>4 DEF VerifyFinish
  <2>2. out \in {"killed", "verified", "needs_human"} /\ out \in Statuses \cup {"needs_human"}
    BY OutcomeType DEF Statuses
  <2>. DEFINE new == [row[c] EXCEPT !.last = out, !.status = IF moves THEN out ELSE @]
              kept == IF moves THEN trail[c] \cup {out} ELSE trail[c]
  <2>3. moves => out \in Statuses
    BY <2>2
  <2>. HIDE DEF c, out, moves
  <2>4. /\ new \in Row /\ new.last = out /\ new.status = IF moves THEN out ELSE row[c].status
        /\ new.basis = row[c].basis /\ new.credit = row[c].credit
        /\ new.approved = row[c].approved
    BY <1>1, <1>2, <2>2, <2>3 DEF Row
  <2>5. row' = [row EXCEPT ![c] = new] /\ trail' = [trail EXCEPT ![c] = kept]
    BY <1>1, <1>2, <2>1 DEF Row
  <2>6. kept \in SUBSET (Statuses \cup {"tap"})
    BY <1>1, <1>2, <2>3
  <2>. HIDE DEF new, kept
  <2>7. /\ row' \in [Cands -> Row] /\ row'[c] = new
        /\ trail' \in [Cands -> SUBSET (Statuses \cup {"tap"})] /\ trail'[c] = kept
        /\ \A d \in Cands \ {c} : row'[d] = row[d] /\ trail'[d] = trail[d]
    BY <1>1, <1>2, <2>4, <2>5, <2>6
  <2>. QED  BY <1>1, <1>4, <2>4, <2>7 DEF kept, moves, c, out
<1>. QED  BY <1>3, <1>4

LEMMA VerifyFinishKeeps ==
  ASSUME IInv, NEW r \in Runs, NEW m, VerifyFinish(r, m)
  PROVE  IInv'
<1>. DEFINE c == run[r]
            out == Assessed(c, m)
<1>1. TypeOK  BY DEF IInv
<1>2. /\ c \in Cands
      /\ row' \in [Cands -> Row] /\ trail' \in [Cands -> SUBSET (Statuses \cup {"tap"})]
      /\ row'[c].basis = row[c].basis /\ row'[c].credit = row[c].credit
      /\ row'[c].approved = row[c].approved
      /\ \A d \in Cands \ {c} : row'[d] = row[d] /\ trail'[d] = trail[d]
  BY <1>1, VerifyFinishEffect
<1>3. /\ run' = [run EXCEPT ![r] = None]
      /\ raced' = IF \E q \in Runs \ {r} : run[q] = c THEN raced \cup {c} ELSE raced
      /\ UNCHANGED <<ruled, rulings, library, plan, enabled, crashes>>
  BY DEF VerifyFinish, pipeline
<1>4. enabled /\ row[c].status # "absent" /\ (c \notin raced => row[c].status = "verifying")
  BY <1>2, SetsAssumption DEF IInv, AwaitedKept
<1>5. \/ row' = row /\ trail' = trail
      \/ /\ row'[c].status = row[c].status /\ trail'[c] = trail[c]
         /\ row'[c].last = out
         /\ out # "needs_human" => <<row[c].status, out>> \notin Edges
      \/ /\ row[c].status \in {"candidate", "verifying"} /\ out \in {"killed", "verified"}
         /\ row'[c].status = out /\ trail'[c] = trail[c] \cup {out} /\ row'[c].last = out
  <2>1. ASSUME out # "needs_human", <<row[c].status, out>> \in Edges
        PROVE  row[c].status \in {"candidate", "verifying"} /\ out \in {"killed", "verified"}
    BY <2>1, OutcomeType DEF Edges
  <2>. HIDE DEF out
  <2>. QED  BY <1>1, <2>1, VerifyFinishEffect DEF out
<1>6. out \in {"killed", "verified", "needs_human"}  BY OutcomeType
<1>. HIDE DEF c, out
<1>7. TypeOK'
  <2>1. run' \in [Runs -> Cands \cup {None}] /\ raced' \subseteq Cands
    BY <1>1, <1>2, <1>3 DEF TypeOK
  <2>. QED  BY <1>1, <1>2, <1>3, <2>1 DEF TypeOK, Row
<1>8. TrailKept'
  BY <1>2, <1>4, <1>5 DEF IInv, TrailKept
<1>9. UsedKept'
  BY <1>1, <1>2, <1>3, <1>5 DEF IInv, UsedKept, Credited, TypeOK
<1>10. AwaitedKept'
  <2>. SUFFICES ASSUME NEW q \in Runs, run'[q] # None
                PROVE  /\ enabled /\ row'[run'[q]].status # "absent"
                       /\ run'[q] \notin raced' => row'[run'[q]].status = "verifying"
    BY <1>3 DEF AwaitedKept
  <2>1. q # r /\ run'[q] = run[q] /\ run[q] \in Cands
    BY <1>1, <1>3 DEF TypeOK
  <2>2. run[q] = c => c \in raced'
    BY <1>3, <2>1
  <2>3. row'[c].status # "absent"
    BY <1>4, <1>5
  <2>4. raced \subseteq raced'
    BY <1>3
  <2>5. CASE run[q] = c
    BY <1>4, <2>1, <2>2, <2>3, <2>5
  <2>6. CASE run[q] # c
    BY <1>2, <2>1, <2>4, <2>6 DEF IInv, AwaitedKept
  <2>. QED  BY <2>5, <2>6
<1>11. AssessmentExplained'
  <2>1. raced \subseteq raced'  BY <1>3
  <2>2. c \notin raced => <<row[c].status, "killed">> \in Edges /\ <<row[c].status, "verified">> \in Edges
    BY <1>4 DEF Edges
  <2>. QED  BY <1>2, <1>4, <1>5, <1>6, <2>1, <2>2 DEF IInv, AssessmentExplained, PastVerification
<1>. QED  BY <1>7, <1>8, <1>9, <1>10, <1>11 DEF IInv

\* A crash between the two writes leaves the assessment behind.
LEMMA VerifyTornKeeps ==
  ASSUME IInv, NEW r \in Runs, NEW m, VerifyTorn(r, m)
  PROVE  IInv'
<1>. DEFINE c == run[r]
            out == Assessed(c, m)
<1>1. TypeOK  BY DEF IInv
<1>2. /\ c \in Cands /\ out \in {"killed", "verified", "needs_human"}
      /\ row' = [row EXCEPT ![c].last = out]
      /\ run' = [q \in Runs |-> None] /\ crashes' = crashes + 1
      /\ raced' = raced \cup {c} /\ UNCHANGED <<ruled, rulings, trail, library, plan, enabled>>
  BY <1>1, OutcomeType DEF VerifyTorn, TypeOK, pipeline
<1>3. row[c].status # "absent"
  BY <1>2, SetsAssumption DEF IInv, AwaitedKept
<1>. HIDE DEF c, out
<1>4. /\ row' \in [Cands -> Row]
      /\ row'[c].status = row[c].status /\ row'[c].basis = row[c].basis
      /\ row'[c].credit = row[c].credit /\ row'[c].approved = row[c].approved
      /\ \A d \in Cands \ {c} : row'[d] = row[d]
  <2>1. row \in [Cands -> Row]  BY <1>1 DEF TypeOK, Row
  <2>. DEFINE new == [row[c] EXCEPT !.last = out]
  <2>2. /\ new \in Row /\ new.status = row[c].status /\ new.basis = row[c].basis
        /\ new.credit = row[c].credit /\ new.approved = row[c].approved
    BY <1>2, <2>1 DEF Row
  <2>3. row' = [row EXCEPT ![c] = new]  BY <1>2
  <2>. HIDE DEF new
  <2>. QED  BY <1>2, <2>1, <2>2, <2>3
<1>5. TypeOK'
  BY <1>1, <1>2, <1>4 DEF TypeOK, Row
<1>6. TrailKept'
  BY <1>2, <1>3, <1>4 DEF IInv, TrailKept
<1>7. UsedKept'
  BY <1>1, <1>2, <1>4 DEF IInv, UsedKept, Credited, TypeOK
<1>8. AwaitedKept'
  BY <1>2 DEF AwaitedKept
<1>9. AssessmentExplained'
  BY <1>2, <1>4 DEF IInv, AssessmentExplained, PastVerification
<1>. QED  BY <1>5, <1>6, <1>7, <1>8, <1>9 DEF IInv

LEMMA RuleKeeps ==
  ASSUME IInv, NEW c \in Cands, NEW k \in Checks, NEW verdict \in {"pass", "kill"},
         Rule(c, k, verdict)
  PROVE  IInv'
<1>1. TypeOK'
  BY DEF IInv, TypeOK, Rule, pipeline, others
<1>2. UNCHANGED <<row, trail, library, plan, run, enabled, raced>>
  BY DEF Rule, pipeline, others
<1>. QED
  BY <1>1, <1>2 DEF IInv, TrailKept, UsedKept, Credited, AwaitedKept, AssessmentExplained

LEMMA ClearKeeps ==
  ASSUME IInv, NEW c \in Cands, NEW lane \in Lanes, NEW named \in BOOLEAN, Clear(c, lane, named)
  PROVE  IInv'
<1>1. TypeOK  BY DEF IInv
<1>2. Transition(c, "cleared", lane, RequiresCredit(lane)) /\ RequiresCredit(lane) \in BOOLEAN
      /\ lane # "none"
  BY DEF Clear, RequiresCredit, Lanes
<1>3. /\ <<row[c].status, "cleared">> \in Edges
      /\ row' \in [Cands -> Row] /\ trail' \in [Cands -> SUBSET (Statuses \cup {"tap"})]
      /\ row'[c].status = "cleared" /\ trail'[c] = trail[c] \cup {"cleared"}
      /\ row'[c].approved = row[c].approved /\ row'[c].last = row[c].last
      /\ \A d \in Cands \ {c} : row'[d] = row[d] /\ trail'[d] = trail[d]
  BY <1>1, <1>2, TransitionEffect
<1>4. row[c].status = "clearing"
  BY <1>3 DEF Edges
<1>5. UNCHANGED <<ruled, rulings, library, plan, run, enabled, crashes, raced>>
  BY DEF Clear, pipeline, others
<1>6. TypeOK'
  BY <1>1, <1>3, <1>5 DEF TypeOK, Row
<1>7. TrailKept'
  BY <1>3, <1>4 DEF IInv, TrailKept
<1>8. c \notin library
  BY <1>4 DEF IInv, UsedKept
<1>9. UsedKept'
  BY <1>1, <1>3, <1>5, <1>8 DEF IInv, UsedKept, Credited, TypeOK
<1>10. AwaitedKept'
  <2>1. \A r \in Runs : run[r] # None => run[r] \in Cands
    BY <1>1 DEF TypeOK
  <2>. QED  BY <1>3, <1>4, <1>5, <2>1 DEF IInv, AwaitedKept
<1>11. AssessmentExplained'
  BY <1>3, <1>4, <1>5 DEF IInv, AssessmentExplained, PastVerification
<1>. QED  BY <1>6, <1>7, <1>9, <1>10, <1>11 DEF IInv

\* The render tap, given or withdrawn, changes the approval and nothing else.
LEMMA TapKeeps ==
  ASSUME IInv, NEW c \in Cands, NEW given \in BOOLEAN,
         row' = [row EXCEPT ![c].approved = given],
         IF given THEN trail' = [trail EXCEPT ![c] = @ \cup {"tap"}] ELSE trail' = trail,
         row[c].status # "absent",
         UNCHANGED <<ruled, rulings, pipeline, others>>
  PROVE  IInv'
<1>1. TypeOK  BY DEF IInv
<1>2. row \in [Cands -> Row] /\ trail \in [Cands -> SUBSET (Statuses \cup {"tap"})]
  BY <1>1 DEF TypeOK, Row
<1>3. /\ row' \in [Cands -> Row] /\ row'[c].approved = given
      /\ row'[c].status = row[c].status /\ row'[c].last = row[c].last
      /\ row'[c].basis = row[c].basis /\ row'[c].credit = row[c].credit
      /\ \A d \in Cands \ {c} : row'[d] = row[d]
  BY <1>2 DEF Row
<1>4. /\ trail' \in [Cands -> SUBSET (Statuses \cup {"tap"})]
      /\ trail[c] \subseteq trail'[c] /\ (given => "tap" \in trail'[c])
      /\ \A d \in Cands \ {c} : trail'[d] = trail[d]
  BY <1>2
<1>5. UNCHANGED <<ruled, rulings, library, plan, run, enabled, crashes, raced>>
  BY DEF pipeline, others
<1>6. TypeOK'
  BY <1>1, <1>3, <1>4, <1>5 DEF TypeOK, Row
<1>7. TrailKept'
  BY <1>3, <1>4 DEF IInv, TrailKept
<1>8. UsedKept'
  BY <1>1, <1>3, <1>4, <1>5 DEF IInv, UsedKept, Credited, TypeOK
<1>9. AwaitedKept'
  <2>1. \A r \in Runs : run[r] # None => run[r] \in Cands
    BY <1>1 DEF TypeOK
  <2>. QED  BY <1>3, <1>5, <2>1 DEF IInv, AwaitedKept
<1>10. AssessmentExplained'
  BY <1>3, <1>5 DEF IInv, AssessmentExplained, PastVerification
<1>. QED  BY <1>6, <1>7, <1>8, <1>9, <1>10 DEF IInv

LEMMA ApproveKeeps ==
  ASSUME IInv, NEW c \in Cands, ApproveForRender(c) PROVE IInv'
  BY TapKeeps DEF ApproveForRender

LEMMA WithdrawKeeps ==
  ASSUME IInv, NEW c \in Cands, WithdrawRenderApproval(c) PROVE IInv'
  BY TapKeeps DEF WithdrawRenderApproval

\* The resolver and the plan leave the ledger alone.
LEMMA ResolverKeeps ==
  ASSUME IInv, (\E c \in Cands : Resolver(c)) \/ PlanGone PROVE IInv'
<1>1. UNCHANGED <<row, ruled, trail, rulings, run, enabled, crashes, raced>>
  BY DEF Resolver, IncidentRung, ReuseRung, PlanGone, ledger, others
<1>2. library' \subseteq Cands /\ plan' \subseteq library' /\ library \subseteq library'
      /\ \A c \in library' \ library : Renderable(c)
  BY DEF IInv, TypeOK, UsedKept, Resolver, IncidentRung, ReuseRung, PlanGone
<1>3. TypeOK'
  BY <1>1, <1>2 DEF IInv, TypeOK
<1>4. UsedKept'
  BY <1>1, <1>2 DEF IInv, TypeOK, UsedKept, TrailKept, Renderable, Credited
<1>5. TrailKept' /\ AwaitedKept' /\ AssessmentExplained'
  BY <1>1 DEF IInv, TrailKept, AwaitedKept, AssessmentExplained
<1>. QED  BY <1>3, <1>4, <1>5 DEF IInv

LEMMA RestartKeeps ==
  ASSUME IInv, NEW flag \in BOOLEAN, Restart(flag) PROVE IInv'
<1>1. TypeOK'
  BY DEF IInv, TypeOK, Restart, pipeline
<1>2. AwaitedKept'
  BY DEF AwaitedKept, Restart
<1>3. TrailKept' /\ UsedKept' /\ AssessmentExplained'
  BY DEF IInv, TrailKept, UsedKept, Credited, AssessmentExplained, Restart, pipeline
<1>. QED  BY <1>1, <1>2, <1>3 DEF IInv

LEMMA OperatorKeeps ==
  ASSUME IInv, NEW c \in Cands, Operator(c) PROVE IInv'
<1>1. CASE \E poster \in BOOLEAN : Intake(c, poster)
  BY <1>1, IntakeKeeps
<1>2. CASE \E k \in Checks, verdict \in {"pass", "kill"} : Rule(c, k, verdict)
  BY <1>2, RuleKeeps
<1>3. CASE BeginClearing(c)
  BY <1>3, MoveKeeps DEF BeginClearing
<1>4. CASE \E lane \in Lanes, named \in BOOLEAN : Clear(c, lane, named)
  BY <1>4, ClearKeeps
<1>5. CASE \E granted \in BOOLEAN : GrantReply(c, granted)
  <2>1. CASE Clear(c, "grant", FALSE)
    BY <2>1, ClearKeeps DEF Lanes
  <2>2. CASE Move(c, "uncleared") /\ UNCHANGED <<ruled, rulings, pipeline, others>>
    BY <2>2, MoveKeeps
  <2>. QED  BY <1>5, <2>1, <2>2 DEF GrantReply
<1>6. CASE MarkUncleared(c)
  BY <1>6, MoveKeeps DEF MarkUncleared
<1>7. CASE ApproveForRender(c)
  BY <1>7, ApproveKeeps
<1>8. CASE WithdrawRenderApproval(c)
  BY <1>8, WithdrawKeeps
<1>9. CASE Revoke(c)
  BY <1>9, MoveKeeps DEF Revoke
<1>. QED  BY <1>1, <1>2, <1>3, <1>4, <1>5, <1>6, <1>7, <1>8, <1>9 DEF Operator

LEMMA NextKeeps == IInv /\ [Next]_vars => IInv'
<1>. SUFFICES ASSUME IInv, [Next]_vars PROVE IInv'
  OBVIOUS
<1>1. ASSUME NEW c \in Cands, Operator(c) PROVE IInv'
  BY <1>1, OperatorKeeps
<1>2. ASSUME NEW r \in Runs, Verification(r) PROVE IInv'
  BY <1>2, VerifyStartKeeps, VerifyFinishKeeps, VerifyTornKeeps DEF Verification
<1>3. CASE (\E c \in Cands : Resolver(c)) \/ PlanGone
  BY <1>3, ResolverKeeps
<1>4. ASSUME NEW flag \in BOOLEAN, Restart(flag) PROVE IInv'
  BY <1>4, RestartKeeps
<1>5. CASE UNCHANGED vars
  BY <1>5 DEF vars, IInv, TypeOK, TrailKept, UsedKept, Credited, AwaitedKept, AssessmentExplained
<1>. QED  BY <1>1, <1>2, <1>3, <1>4, <1>5 DEF Next

THEOREM Invariance == Spec => []IInv
  BY InitIInv, NextKeeps, PTL DEF Spec

-----------------------------------------------------------------------------
(* What a step can do to a candidate.                                      *)

\* The people have passed c: no ruling kills it, and prior appearance is passed.
Endorsed(c) ==
  (\A k \in Checks : ruled[c][k] # "kill") /\ ruled[c]["prior_appearance"] = "pass"

\* A step of the ledger changes one candidate: it keeps its status, comes in,
\* or follows an edge; with the engine off it can only be revoked.
LedgerStep(c) ==
  /\ \A d \in Cands \ {c} : row'[d] = row[d]
  /\ library' = library
  /\ enabled \/ row'[c] = row[c] \/ row'[c].status = "revoked"
  /\ row[c].basis # "none" => row'[c].basis = row[c].basis /\ row'[c].credit = row[c].credit
  /\ \/ row'[c].status = row[c].status
     \/ row[c].status = "absent" /\ row'[c].status = "candidate"
     \/ /\ <<row[c].status, row'[c].status>> \in Edges
        /\ row'[c].status = "verified" => Endorsed(c)

\* A step of the resolver takes up at most one candidate, a renderable one.
ResolverStep ==
  /\ row' = row
  /\ library' = library \/ \E c \in Cands : Renderable(c) /\ library' = library \cup {c}

LEMMA RowSteps ==
  ASSUME IInv, NEW c \in Cands, row' = row, library' = library PROVE LedgerStep(c)
  BY DEF LedgerStep

LEMMA MoveSteps ==
  ASSUME IInv, NEW c \in Cands, NEW to \in Statuses \ {"verified"}, Move(c, to),
         library' = library, enabled \/ to = "revoked"
  PROVE  LedgerStep(c)
<1>1. /\ <<row[c].status, to>> \in Edges
      /\ row'[c].status = to
      /\ row'[c].basis = row[c].basis /\ row'[c].credit = row[c].credit
      /\ \A d \in Cands \ {c} : row'[d] = row[d]
  BY MoveEffect DEF IInv
<1>. QED  BY <1>1 DEF LedgerStep

LEMMA ClearSteps ==
  ASSUME IInv, NEW c \in Cands, NEW lane \in Lanes, NEW named \in BOOLEAN, Clear(c, lane, named)
  PROVE  LedgerStep(c)
<1>1. Transition(c, "cleared", lane, RequiresCredit(lane)) /\ RequiresCredit(lane) \in BOOLEAN
  BY DEF Clear, RequiresCredit
<1>2. /\ <<row[c].status, "cleared">> \in Edges /\ row'[c].status = "cleared"
      /\ \A d \in Cands \ {c} : row'[d] = row[d]
  BY <1>1, TransitionEffect DEF IInv, Lanes
<1>3. row[c].status = "clearing"  BY <1>2 DEF Edges
<1>4. row[c].basis = "none"  BY <1>3 DEF IInv, TrailKept
<1>5. library' = library /\ enabled  BY DEF Clear, pipeline
<1>. QED  BY <1>2, <1>4, <1>5 DEF LedgerStep

\* A machine cannot pass prior appearance: whatever it answers, a verdict of
\* "verified" was given by people.
LEMMA VerifiedIsEndorsed ==
  ASSUME NEW c, NEW m \in MachineResults, Assessed(c, m) = "verified",
         ruled[c] \in [Checks -> {"none", "pass", "kill"}]
  PROVE  Endorsed(c)
<1>1. \A k \in Checks : Folded(c, m)[k] = "pass"
  BY DEF Assessed, OutcomeFor
<1>2. "prior_appearance" \in Checks /\ m["prior_appearance"] = "needs_human"
  BY ChecksAssumption DEF MachineResults, Answers
<1>3. \A k \in Checks : Folded(c, m)[k] = IF ruled[c][k] = "none" THEN m[k] ELSE ruled[c][k]
  BY DEF Folded
<1>. QED  BY <1>1, <1>2, <1>3 DEF Endorsed

LEMMA VerifySteps ==
  ASSUME IInv, NEW r \in Runs, Verification(r)
  PROVE  \E c \in Cands : LedgerStep(c)
<1>1. ASSUME NEW c \in Cands, VerifyStart(r, c) PROVE LedgerStep(c)
  <2>1. library' = library /\ enabled  BY <1>1 DEF VerifyStart, pipeline
  <2>2. CASE Move(c, "verifying")  BY <2>1, <2>2, MoveSteps DEF Statuses
  <2>3. CASE row' = row  BY <2>1, <2>3, RowSteps
  <2>. QED  BY <1>1, <2>2, <2>3 DEF VerifyStart
<1>2. ASSUME NEW m \in MachineResults, VerifyFinish(r, m) PROVE \E c \in Cands : LedgerStep(c)
  <2>. DEFINE c == run[r]
              out == Assessed(c, m)
  <2>1. TypeOK  BY DEF IInv
  <2>2. /\ c \in Cands /\ \A d \in Cands \ {c} : row'[d] = row[d]
        /\ row'[c].basis = row[c].basis /\ row'[c].credit = row[c].credit
        /\ \/ row'[c].status = row[c].status
           \/ row'[c].status = out /\ <<row[c].status, out>> \in Edges
    BY <1>2, <2>1, VerifyFinishEffect
  <2>3. out = "verified" => Endorsed(c)
    BY <2>1, <2>2, VerifiedIsEndorsed DEF TypeOK
  <2>4. enabled /\ library' = library
    BY <1>2, <2>2, SetsAssumption DEF IInv, AwaitedKept, VerifyFinish, pipeline
  <2>. HIDE DEF c, out
  <2>5. LedgerStep(c)  BY <2>2, <2>3, <2>4 DEF LedgerStep
  <2>. QED  BY <2>2, <2>5
<1>3. ASSUME NEW m \in MachineResults, VerifyTorn(r, m) PROVE \E c \in Cands : LedgerStep(c)
  <2>. DEFINE c == run[r]
  <2>1. row \in [Cands -> Row] /\ c \in Cands
    BY <1>3 DEF IInv, TypeOK, Row, VerifyTorn
  <2>2. row' = [row EXCEPT ![c].last = Assessed(c, m)] /\ library' = library
    BY <1>3 DEF VerifyTorn, pipeline
  <2>3. enabled
    BY <2>1, SetsAssumption DEF IInv, AwaitedKept
  <2>. HIDE DEF c
  <2>4. LedgerStep(c)
    BY <2>1, <2>2, <2>3 DEF LedgerStep, Row
  <2>. QED  BY <2>1, <2>4
<1>. QED  BY <1>1, <1>2, <1>3 DEF Verification

LEMMA OperatorSteps ==
  ASSUME IInv, NEW c \in Cands, Operator(c) PROVE LedgerStep(c)
<1>. USE DEF pipeline
<1>0. row \in [Cands -> Row]  BY DEF IInv, TypeOK, Row
<1>1. ASSUME NEW poster \in BOOLEAN, Intake(c, poster) PROVE LedgerStep(c)
  BY <1>0, <1>1 DEF Intake, LedgerStep, Row
<1>2. ASSUME NEW k \in Checks, NEW verdict \in {"pass", "kill"}, Rule(c, k, verdict)
      PROVE  LedgerStep(c)
  BY <1>2, RowSteps DEF Rule
<1>3. CASE BeginClearing(c)
  BY <1>3, MoveSteps DEF BeginClearing, Statuses
<1>4. ASSUME NEW lane \in Lanes, NEW named \in BOOLEAN, Clear(c, lane, named)
      PROVE  LedgerStep(c)
  BY <1>4, ClearSteps
<1>5. ASSUME NEW granted \in BOOLEAN, GrantReply(c, granted) PROVE LedgerStep(c)
  <2>1. CASE granted
    BY <1>5, <2>1, ClearSteps DEF GrantReply, Lanes
  <2>2. CASE ~granted
    BY <1>5, <2>2, MoveSteps DEF GrantReply, Statuses
  <2>. QED  BY <2>1, <2>2
<1>6. CASE MarkUncleared(c)
  BY <1>6, MoveSteps DEF MarkUncleared, Statuses
<1>7. CASE ApproveForRender(c)
  BY <1>0, <1>7 DEF ApproveForRender, LedgerStep, Row
<1>8. CASE WithdrawRenderApproval(c)
  BY <1>0, <1>8 DEF WithdrawRenderApproval, LedgerStep, Row
<1>9. CASE Revoke(c)
  BY <1>9, MoveSteps DEF Revoke, Statuses
<1>. QED  BY <1>1, <1>2, <1>3, <1>4, <1>5, <1>6, <1>7, <1>8, <1>9 DEF Operator

LEMMA StepCases ==
  ASSUME IInv, [Next]_vars
  PROVE  ResolverStep \/ \E c \in Cands : LedgerStep(c)
<1>1. ASSUME NEW c \in Cands, Resolver(c) PROVE ResolverStep
  BY <1>1 DEF Resolver, IncidentRung, ReuseRung, ledger, ResolverStep
<1>2. CASE PlanGone \/ (\E flag \in BOOLEAN : Restart(flag)) \/ UNCHANGED vars
  BY <1>2 DEF PlanGone, Restart, vars, ledger, pipeline, ResolverStep
<1>. QED  BY <1>1, <1>2, OperatorSteps, VerifySteps DEF Next

-----------------------------------------------------------------------------
(* The theorems.                                                           *)

\* The ledger's rows, rulings and audit rows keep their types through every
\* handler (media_candidates, media_candidate_events).
THEOREM TypeCorrect == Spec => []TypeOK
  BY Invariance, PTL DEF IInv

\* Whatever a plan shows and whatever the library holds was verified, cleared
\* and tapped, with an audit row for each, and carries the credit it owes
\* (renderableCandidates, shot_assets).
THEOREM DefensibleUseHolds == Spec => []DefensibleUse
<1>1. ASSUME IInv, NEW c \in library \cup plan
      PROVE  /\ row[c].status \in {"cleared", "revoked"} /\ Credited(c)
             /\ {"verified", "clearing", "cleared", "tap"} \subseteq trail[c]
  <2>1. c \in library /\ c \in Cands
    BY <1>1 DEF IInv, UsedKept, TypeOK
  <2>2. row[c].status \in {"cleared", "revoked"} /\ "tap" \in trail[c] /\ Credited(c)
    BY <1>1, <2>1 DEF IInv, UsedKept
  <2>3. "verified" \in trail[c] /\ "clearing" \in trail[c] /\ "cleared" \in trail[c]
    BY <1>1, <2>1, <2>2 DEF IInv, TrailKept
  <2>. QED  BY <2>2, <2>3
<1>2. IInv => DefensibleUse
  BY <1>1 DEF DefensibleUse
<1>. QED  BY <1>2, Invariance, PTL

\* The assessment on a row is the one that decided its candidate, unless two
\* verifications of it overlapped or a crash fell between the two writes
\* (runVerification).
THEOREM AssessmentExplainedHolds == Spec => []AssessmentExplained
  BY Invariance, PTL DEF IInv

\* Nothing is verified against a human kill or without a human pass on prior
\* appearance (applyHumanVerdicts).
THEOREM HumanDecidesHolds == Spec => HumanDecides
<1>1. IInv /\ [Next]_vars =>
        \A c \in Cands :
          row[c].status = "verifying" /\ row'[c].status = "verified" => Endorsed(c)
  BY StepCases DEF LedgerStep, ResolverStep
<1>2. IInv /\ [Next]_vars =>
        [\A c \in Cands :
           row[c].status = "verifying" /\ row'[c].status = "verified" =>
             /\ \A k \in Checks : ruled[c][k] # "kill"
             /\ ruled[c]["prior_appearance"] = "pass"]_vars
  BY <1>1 DEF Endorsed
<1>. QED  BY <1>2, Invariance, PTL DEF Spec, HumanDecides

\* Basis and credit outlive the use they justify, and its revocation
\* (transition).
THEOREM StickyRightsHolds == Spec => StickyRights
<1>1. IInv /\ [Next]_vars =>
        [\A c \in Cands :
           row[c].basis # "none" =>
             row'[c].basis = row[c].basis /\ row'[c].credit = row[c].credit]_vars
  BY StepCases DEF LedgerStep, ResolverStep
<1>. QED  BY <1>1, Invariance, PTL DEF Spec, StickyRights

\* With the engine off a candidate can only be revoked (incidentWritesGate).
THEOREM DarkOnlyWithdrawsHolds == Spec => DarkOnlyWithdraws
<1>1. IInv /\ [Next]_vars =>
        [~enabled =>
           \A c \in Cands : row'[c] # row[c] => row'[c].status = "revoked"]_vars
  BY StepCases DEF LedgerStep, ResolverStep
<1>. QED  BY <1>1, Invariance, PTL DEF Spec, DarkOnlyWithdraws

\* The ledger and the resolver implement UseRights: every step is one of its
\* steps or leaves phases and sources alone.
THEOREM KeepsRightsHolds == Spec => KeepsRights
<1>. DEFINE phase == [c \in Cands |-> Phase(row[c].status)]
<1>1. Init => Rights!Init
  BY DEF Init, Rights!Init, Absent, Phase
<1>2. IInv /\ [Next]_vars => [Rights!Next]_(Rights!vars)
  <2>. SUFFICES ASSUME IInv, [Next]_vars PROVE Rights!Next \/ UNCHANGED Rights!vars
    OBVIOUS
  <2>1. ASSUME NEW c \in Cands, LedgerStep(c) PROVE Rights!Next \/ UNCHANGED Rights!vars
    <3>1. phase' = [phase EXCEPT ![c] = Phase(row'[c].status)] /\ library' = library
      BY <2>1 DEF LedgerStep
    <3>2. CASE Phase(row'[c].status) = Phase(row[c].status)
      <4>1. phase' = phase  BY <3>1, <3>2
      <4>. QED  BY <3>1, <4>1 DEF Rights!vars
    <3>3. CASE <<row[c].status, row'[c].status>> \in Edges
               /\ Phase(row'[c].status) # Phase(row[c].status)
      <4>1. \/ Phase(row[c].status) = "unjudged" /\ Phase(row'[c].status) = "verified"
            \/ Phase(row[c].status) = "verified" /\ Phase(row'[c].status) = "usable"
            \/ /\ Phase(row[c].status) \in {"unjudged", "verified", "usable"}
               /\ Phase(row'[c].status) = "ended"
        BY <3>3 DEF Edges, Phase
      <4>2. phase[c] = Phase(row[c].status)
        OBVIOUS
      <4>. QED
        BY <3>1, <4>1, <4>2
        DEF Rights!Next, Rights!Judge, Rights!Clear, Rights!End, Rights!Advance
    <3>4. Phase("absent") = Phase("candidate")
      BY DEF Phase
    <3>. QED  BY <2>1, <3>2, <3>3, <3>4 DEF LedgerStep
  <2>2. CASE ResolverStep
    <3>1. phase' = phase  BY <2>2 DEF ResolverStep
    <3>2. CASE library' = library
      BY <3>1, <3>2 DEF Rights!vars
    <3>3. ASSUME NEW c \in Cands, Renderable(c), library' = library \cup {c} PROVE Rights!Next
      <4>1. phase[c] = "usable"  BY <3>3 DEF Renderable, Phase
      <4>. QED  BY <3>1, <3>3, <4>1 DEF Rights!Next, Rights!Source
    <3>. QED  BY <2>2, <3>2, <3>3 DEF ResolverStep
  <2>. QED  BY <2>1, <2>2, StepCases
<1>. QED  BY <1>1, <1>2, Invariance, PTL DEF Spec, KeepsRights, Rights!Spec

-----------------------------------------------------------------------------
(***************************************************************************)
(* Theorems about the paid-call ledgers, for any events, bundles, attempts *)
(* and number of invocations.                                              *)
(*                                                                         *)
(* The cap on paid calls is not inductive: a call that is awaited will be  *)
(* paid whatever the row says by then.  So the awaited calls are counted   *)
(* with the paid ones (Fits), and what was paid for a content is never     *)
(* more than what its row counts and what no process lived to record       *)
(* (Counted): that is what a decision, which reads the row only, relies on.*)
(***************************************************************************)

N == Cardinality(Calls)
Out(e, c) == {r \in Calls : call[r].at = e /\ call[r].content = c}

RunType == [on : BOOLEAN, todo : SUBSET Events, calls : Nat,
            at : Events \cup {Nil}, content : Contents \cup {Nil}, reset : BOOLEAN]

Slots ==
    /\ client # "carousel" => \A r, o \in Calls : call[r].on /\ call[o].on => r = o
    /\ \A r \in Calls : call[r].at # Nil =>
         /\ call[r].on /\ call[r].content \in Good
         /\ client = "facts" => /\ call[r].calls < PerCycle
                                /\ call[r].reset <=> entry[call[r].at].content # call[r].content

\* Without an overlap the call that is awaited is the only one, and its content
\* has no good result yet.
Alone ==
    /\ \A e \in Events \ overlapped, r \in Calls : call[r].at = e =>
         /\ \A o \in Calls : call[o].at = e => o = r
         /\ entry[e].status = "ok" => entry[e].content # call[r].content
    /\ \A e \in Events : entry[e].status = "ok" => entry[e].content \in Good

Extra(e) == IF e \in overlapped THEN N - 1 ELSE 0
Tried(e, c) == IF entry[e].content = c THEN entry[e].attempts ELSE 0

Fits == \A e \in Events, c \in Contents :
          paid[e][c] + Cardinality(Out(e, c)) <= MaxAttempts + lost[e] + Extra(e)
Counted == \A e \in Events, c \in Contents : paid[e][c] <= lost[e] + Tried(e, c)

PaidInv == PaidTypeOK /\ Slots /\ Alone /\ Fits /\ Counted /\ OutageKeepsBudget

GoodKept ==
    \A e \in Events :
        entry[e].status = "ok" /\ entry'[e].status # "ok"
        => entry'[e].content # entry[e].content \/ e \in overlapped

-----------------------------------------------------------------------------
\* The instance's name for the cardinality of a set.
LEMMA CardinalityIs == \A S : Cardinality(S) = Cardinality(S)
  BY DEF Cardinality, Cardinality

LEMMA NIs ==
  N \in Nat /\ N >= 1
<1>1. N \in Nat  BY CallsAssumption, FS_CardinalityType DEF N
<1>2. N # 0  BY CallsAssumption, FS_EmptySet DEF N
<1>. QED  BY <1>1, <1>2

LEMMA OutIs ==
  ASSUME NEW e, NEW c
  PROVE  /\ IsFiniteSet(Out(e, c))
         /\ Cardinality(Out(e, c)) \in Nat /\ Cardinality(Out(e, c)) <= N
<1>1. Out(e, c) \in SUBSET Calls  BY DEF Out
<1>2. /\ IsFiniteSet(Out(e, c)) /\ Cardinality(Out(e, c)) <= N
  BY <1>1, CallsAssumption, FS_Subset DEF N
<1>. QED  BY <1>2, FS_CardinalityType

LEMMA RowIs ==
  ASSUME PaidTypeOK, NEW e \in Events
  PROVE  /\ entry[e].attempts \in Nat /\ entry[e].attempts <= MaxAttempts + N
         /\ entry[e].status \in {"ok", "bad", "none"}
         /\ HasRow(e) => entry[e].content \in Contents /\ entry[e].attempts >= 1
         /\ ~HasRow(e) => /\ entry[e].content = Nil /\ entry[e].attempts = 0
                               /\ entry[e].status = "none"
         /\ entry[e].content # Nil <=> HasRow(e)
<1>1. entry[e] \in Entry \cup {NoRow}  BY DEF PaidTypeOK
<1>2. CASE entry[e] = NoRow
  BY <1>2, NIs, NatAssumption DEF NoRow, HasRow
<1>3. CASE entry[e] # NoRow
  <2>1. /\ entry[e].content \in Contents /\ entry[e].attempts \in 1 .. MaxAttempts + N
        /\ entry[e].status \in {"ok", "bad"}
    BY <1>1, <1>3, CardinalityIs DEF Entry, N
  <2>. QED  BY <1>3, <2>1, NIs, NatAssumption, NilAssumption DEF HasRow
<1>. QED  BY <1>2, <1>3

LEMMA NumbersAre ==
  ASSUME PaidTypeOK, NEW e \in Events, NEW c \in Contents
  PROVE  /\ paid[e][c] \in Nat /\ lost[e] \in Nat /\ Extra(e) \in Nat /\ Tried(e, c) \in Nat
         /\ Cardinality(Out(e, c)) \in Nat
  BY RowIs, OutIs, NIs DEF PaidTypeOK, Extra, Tried

LEMMA RunIs ==
  ASSUME PaidTypeOK, NEW r \in Calls
  PROVE  call[r] \in RunType
  BY DEF PaidTypeOK, RunType

LEMMA InitHolds ==
  PaidInit => PaidInv
<1>. SUFFICES ASSUME PaidInit PROVE PaidInv  OBVIOUS
<1>1. \A e \in Events : entry[e] = NoRow  BY DEF PaidInit
<1>2. \A r \in Calls : call[r] = Idle  BY DEF PaidInit
<1>3. PaidTypeOK  BY NatAssumption DEF PaidInit, PaidTypeOK, Idle, PromOff
<1>4. Slots  BY <1>2 DEF Slots, Idle
<1>5. Alone  BY <1>1, <1>2, NilAssumption DEF Alone, Idle, NoRow
<1>6. \A e \in Events, c \in Contents :
        Cardinality(Out(e, c)) = 0 /\ paid[e][c] = 0
  <2>. TAKE e \in Events, c \in Contents
  <2>1. Out(e, c) = {}  BY <1>2, NilAssumption DEF Out, Idle
  <2>. QED  BY <2>1, FS_EmptySet DEF PaidInit
<1>7. Fits  BY <1>3, <1>6, NumbersAre, NatAssumption DEF Fits
<1>8. Counted  BY <1>3, <1>6, NumbersAre DEF Counted
<1>9. OutageKeepsBudget  BY <1>1 DEF OutageKeepsBudget, HasRow
<1>. QED  BY <1>3, <1>4, <1>5, <1>7, <1>8, <1>9 DEF PaidInv

-----------------------------------------------------------------------------
(* Steps that neither pay, record nor lose a call.                         *)

LEMMA QuietStep ==
  ASSUME PaidInv, PaidTypeOK', UNCHANGED <<client, paid, lost, overlapped>>,
         \A e \in Events : /\ entry'[e].content = entry[e].content
                           /\ entry'[e].attempts = entry[e].attempts
                           /\ entry'[e].status = entry[e].status,
         \A r \in Calls : /\ call'[r].at = call[r].at
                          /\ call[r].at # Nil => /\ call'[r].content = call[r].content
                                                 /\ call'[r].on = call[r].on
                                                 /\ call'[r].reset = call[r].reset
                                                 /\ call'[r].calls = call[r].calls,
         client # "carousel" => \A r, o \in Calls : call'[r].on /\ call'[o].on => r = o
  PROVE  PaidInv' /\ GoodKept
<1>. USE DEF PaidInv
<1>1. Slots'
  <2>1. \A r \in Calls : call[r].at # Nil => call[r].at \in Events  BY RunIs DEF RunType
  <2>. QED  BY <2>1 DEF Slots
<1>2. Alone'  BY NilAssumption DEF Alone
<1>3. \A e \in Events, c \in Contents : Out(e, c)' = Out(e, c)
  BY NilAssumption DEF Out
<1>4. \A e \in Events, c \in Contents : Extra(e)' = Extra(e) /\ Tried(e, c)' = Tried(e, c)
  BY DEF Extra, Tried
<1>5. Fits'  BY <1>3, <1>4 DEF Fits
<1>6. Counted'  BY <1>4 DEF Counted
<1>7. OutageKeepsBudget'
  <2>1. \A e \in Events : HasRow(e)' <=> HasRow(e)
    <3>. TAKE e \in Events
    <3>1. entry[e].content # Nil <=> HasRow(e)  BY RowIs
    <3>2. entry'[e] \in Entry \cup {NoRow}  BY DEF PaidTypeOK
    <3>3. entry'[e] = NoRow \/ entry'[e].content \in Contents  BY <3>2 DEF Entry
    <3>4. entry'[e].content # Nil <=> entry'[e] # NoRow
      BY <3>3, NilAssumption DEF NoRow
    <3>. QED  BY <3>1, <3>4 DEF HasRow
  <2>. QED  BY <2>1 DEF OutageKeepsBudget
<1>8. GoodKept  BY DEF GoodKept
<1>. QED  BY <1>1, <1>2, <1>5, <1>6, <1>7, <1>8

LEMMA FreeIs ==
  ASSUME NEW r \in Calls, Free(r)
  PROVE  ~call[r].on
<1>1. \E x \in Calls : ~call[x].on  BY DEF Free, Active
<1>. QED  BY <1>1 DEF Free

\* A slot that awaits nothing changes.
LEMMA SlotStep ==
  ASSUME PaidInv, NEW r \in Calls, NEW w \in RunType, call' = [call EXCEPT ![r] = w],
         call[r].at = Nil, w.at = Nil, client = "facts" => w.calls <= PerCycle,
         w.on => call[r].on \/ client = "carousel" \/ Active = {},
         UNCHANGED <<client, content, entry, newer, hot, has, faults, paid, lost, overlapped>>,
         seen' \subseteq Events,
         prom' \in [on : BOOLEAN, newer : SUBSET Events, after : BOOLEAN, fresh : BOOLEAN]
  PROVE  PaidInv' /\ GoodKept
<1>. USE DEF PaidInv
<1>1. /\ call'[r] = w /\ \A x \in Calls \ {r} : call'[x] = call[x]
      /\ call' \in [Calls -> RunType]
  BY RunIs DEF PaidTypeOK
<1>2. client = "facts" => \A x \in Calls : call'[x].calls <= PerCycle
  BY <1>1 DEF PaidTypeOK
<1>3. PaidTypeOK'  BY <1>1, <1>2 DEF PaidTypeOK, RunType
<1>4. \A x \in Calls : /\ call'[x].at = call[x].at
                       /\ call[x].at # Nil => call'[x] = call[x]
  BY <1>1
<1>5. client # "carousel" => \A x, o \in Calls : call'[x].on /\ call'[o].on => x = o
  <2>1. CASE call[r].on \/ ~w.on  BY <1>1, <2>1 DEF Slots
  <2>2. CASE Active = {}  BY <1>1, <2>2 DEF Active
  <2>. QED  BY <2>1, <2>2
<1>. HIDE DEF PaidInv
<1>. QED  BY <1>3, <1>4, <1>5, QuietStep

LEMMA StartStep ==
  ASSUME PaidInv, NEW r \in Calls, Start(r)
  PROVE  PaidInv' /\ GoodKept
<1>. DEFINE w == [Idle EXCEPT !.on = TRUE, !.todo = {e \in Events : Selected(e)}]
<1>1. /\ call' = [call EXCEPT ![r] = w] /\ client # "carousel" /\ Free(r) /\ Active = {}
      /\ seen' = {} /\ prom' = [prom EXCEPT !.after = FALSE]
      /\ UNCHANGED <<client, content, entry, newer, hot, has, faults, paid, lost, overlapped>>
  BY DEF Start, MayStart, history
<1>2. w \in RunType /\ w.at = Nil /\ w.calls <= PerCycle
  <2>1. w \in RunType /\ w.at = Nil /\ w.calls = 0  BY DEF RunType, Idle
  <2>. HIDE DEF w
  <2>. QED  BY <2>1, NatAssumption
<1>3. call[r].at = Nil  BY <1>1, FreeIs DEF PaidInv, Slots
<1>4. prom' \in [on : BOOLEAN, newer : SUBSET Events, after : BOOLEAN, fresh : BOOLEAN]
  BY <1>1 DEF PaidInv, PaidTypeOK
<1>. HIDE DEF w
<1>5. seen' \subseteq Events  BY <1>1
<1>. QED  BY <1>1, <1>2, <1>3, <1>4, <1>5, SlotStep

LEMMA PromIs ==
  ASSUME PaidTypeOK
  PROVE  prom \in [on : BOOLEAN, newer : SUBSET Events, after : BOOLEAN, fresh : BOOLEAN]
  BY DEF PaidTypeOK

LEMMA AskStep ==
  ASSUME PaidInv, NEW r \in Calls, NEW e \in Events, Ask(r, e) PROVE PaidInv' /\ GoodKept
<1>. DEFINE w == [Idle EXCEPT !.on = TRUE, !.todo = {e}]
<1>1. /\ call' = [call EXCEPT ![r] = w] /\ client = "carousel" /\ Free(r)
      /\ UNCHANGED <<client, content, entry, newer, hot, has, seen, prom, faults, paid, lost, overlapped>>
  BY DEF Ask, graph, history
<1>2. w \in RunType /\ w.at = Nil  BY DEF RunType, Idle
<1>3. call[r].at = Nil  BY <1>1, FreeIs DEF PaidInv, Slots
<1>4. seen \subseteq Events  BY DEF PaidInv, PaidTypeOK
<1>. HIDE DEF w
<1>. QED  BY <1>1, <1>2, <1>3, <1>4, PromIs, SlotStep DEF PaidInv

LEMMA SkipStep ==
  ASSUME PaidInv, NEW r \in Calls, NEW e \in Events, Skip(r, e) PROVE PaidInv' /\ GoodKept
<1>. DEFINE w == [call[r] EXCEPT !.todo = @ \ {e}]
<1>1. /\ call' = [call EXCEPT ![r] = w] /\ call[r].on /\ call[r].at = Nil
      /\ UNCHANGED <<client, content, entry, newer, hot, has, seen, prom, faults, paid, lost, overlapped>>
  BY DEF Skip, Turn, graph, history
<1>2. w \in RunType /\ w.at = call[r].at /\ w.calls = call[r].calls  BY RunIs DEF PaidInv, RunType
<1>3. seen \subseteq Events /\ (client = "facts" => call[r].calls <= PerCycle)
  BY DEF PaidInv, PaidTypeOK
<1>. HIDE DEF w
<1>. QED  BY <1>1, <1>2, <1>3, PromIs, SlotStep DEF PaidInv

LEMMA FinishStep ==
  ASSUME PaidInv, NEW r \in Calls, Finish(r)
  PROVE  PaidInv' /\ GoodKept
<1>1. /\ call' = [call EXCEPT ![r] = Idle] /\ call[r].on /\ call[r].at = Nil
      /\ UNCHANGED <<client, content, entry, newer, hot, has, seen, prom, faults, paid, lost, overlapped>>
  BY DEF Finish, graph, history
<1>2. Idle \in RunType /\ Idle.at = Nil /\ Idle.calls <= PerCycle
  BY NatAssumption DEF RunType, Idle
<1>3. seen' \subseteq Events  BY <1>1 DEF PaidInv, PaidTypeOK
<1>4. prom' \in [on : BOOLEAN, newer : SUBSET Events, after : BOOLEAN, fresh : BOOLEAN]
  BY <1>1, PromIs DEF PaidInv
<1>. QED  BY <1>1, <1>2, <1>3, <1>4, SlotStep

\* What the event graph does and the passing of time.
LEMMA GraphStep ==
  ASSUME PaidInv, Graph
  PROVE  PaidInv' /\ GoodKept
<1>. USE DEF PaidInv
<1>. DEFINE Changed == /\ content' \in [Events -> Contents]
                       /\ newer' \subseteq Events /\ hot' \subseteq Events /\ seen' \subseteq Events
                       /\ prom' \in [on : BOOLEAN, newer : SUBSET Events,
                                     after : BOOLEAN, fresh : BOOLEAN]
                       /\ UNCHANGED <<client, entry, has, call, faults, paid, lost, overlapped>>
<1>1. Changed
  <2>. USE DEF PaidTypeOK, history
  <2>1. CASE PromBegin  BY <2>1 DEF PromBegin
  <2>2. CASE PromEnd  BY <2>2 DEF PromEnd, PromOff
  <2>3. ASSUME NEW e \in Events, NEW c \in Contents, PromApply(e, c) PROVE Changed
    BY <2>3 DEF PromApply
  <2>4. ASSUME NEW e \in Events, NEW c \in Contents, Break(e, c) PROVE Changed
    BY <2>4 DEF Break
  <2>5. ASSUME NEW e \in Events, NEW c \in Contents, Prune(e, c) PROVE Changed
    BY <2>5 DEF Prune
  <2>. HIDE DEF Changed
  <2>. QED  BY <2>1, <2>2, <2>3, <2>4, <2>5 DEF Graph
<1>2. PaidTypeOK'  BY <1>1 DEF PaidTypeOK
<1>3. client # "carousel" => \A r, o \in Calls : call'[r].on /\ call'[o].on => r = o
  BY <1>1 DEF Slots
<1>. HIDE DEF PaidInv
<1>. QED  BY <1>1, <1>2, <1>3, QuietStep

LEMMA TickStep ==
  ASSUME PaidInv, Tick
  PROVE  PaidInv' /\ GoodKept
<1>. USE DEF PaidInv
<1>1. /\ entry' = [e \in Events |-> IF HasRow(e) /\ entry[e].age < MaxAge
                                  THEN [entry[e] EXCEPT !.age = @ + 1] ELSE entry[e]]
      /\ hot' = {} /\ prom' = [prom EXCEPT !.fresh = FALSE]
      /\ UNCHANGED <<client, content, newer, has, call, seen, faults, paid, lost, overlapped>>
  BY DEF Tick, history
<1>2. ASSUME NEW e \in Events
      PROVE  /\ entry'[e] \in Entry \cup {NoRow}
             /\ entry'[e].content = entry[e].content /\ entry'[e].attempts = entry[e].attempts
             /\ entry'[e].status = entry[e].status
  <2>1. CASE HasRow(e) /\ entry[e].age < MaxAge
    <3>1. entry[e] \in Entry  BY <2>1 DEF HasRow, PaidTypeOK
    <3>2. entry'[e] = [entry[e] EXCEPT !.age = @ + 1]  BY <1>1, <2>1
    <3>. QED  BY <2>1, <3>1, <3>2 DEF Entry, MaxAge
  <2>2. CASE ~(HasRow(e) /\ entry[e].age < MaxAge)  BY <1>1, <2>2 DEF PaidTypeOK
  <2>. QED  BY <2>1, <2>2
<1>3. entry' \in [Events -> Entry \cup {NoRow}]  BY <1>1, <1>2
<1>4. PaidTypeOK'  BY <1>1, <1>3 DEF PaidTypeOK
<1>5. client # "carousel" => \A r, o \in Calls : call'[r].on /\ call'[o].on => r = o
  BY <1>1 DEF Slots
<1>. HIDE DEF PaidInv
<1>. QED  BY <1>1, <1>2, <1>4, <1>5, QuietStep

-----------------------------------------------------------------------------
(* A call.                                                                 *)

LEMMA CallStep ==
  ASSUME PaidInv, NEW r \in Calls, NEW e \in Events, Call(r, e) PROVE PaidInv' /\ GoodKept
<1>. USE DEF PaidInv
<1>. DEFINE w == [call[r] EXCEPT !.todo = @ \ {e}, !.at = e, !.content = content[e],
                                !.reset = ~HasRow(e) \/ entry[e].content # content[e]]
<1>1. /\ call[r].on /\ call[r].at = Nil /\ (client = "facts" => call[r].calls < PerCycle)
      /\ content[e] \in Good /\ MayPay(e)
      /\ call' = [call EXCEPT ![r] = w]
      /\ overlapped' = IF \E o \in Awaiting : call[o].at = e THEN overlapped \cup {e} ELSE overlapped
      /\ UNCHANGED <<client, content, entry, newer, hot, has, seen, prom, faults, paid, lost>>
  BY DEF Call, Turn
<1>2. content[e] \in Contents  BY DEF PaidTypeOK
<1>3. /\ w \in RunType /\ w.at = e /\ w.content = content[e] /\ w.calls = call[r].calls
      /\ w.on = call[r].on /\ w.reset = (~HasRow(e) \/ entry[e].content # content[e])
  BY <1>2, RunIs DEF RunType
<1>4. w.reset <=> entry[e].content # content[e]  BY <1>2, <1>3, RowIs, NilAssumption
<1>. HIDE DEF w
<1>5. /\ call'[r] = w /\ \A x \in Calls \ {r} : call'[x] = call[x]
      /\ call' \in [Calls -> RunType]
  BY <1>1, <1>3, RunIs DEF PaidTypeOK
<1>6. PaidTypeOK'
  <2>1. client = "facts" => \A x \in Calls : call'[x].calls <= PerCycle
    BY <1>3, <1>5 DEF PaidTypeOK
  <2>. QED  BY <1>1, <1>5, <2>1 DEF PaidTypeOK, RunType
<1>7. Slots'
  <2>1. client # "carousel" => \A x, o \in Calls : call'[x].on /\ call'[o].on => x = o
    BY <1>1, <1>3, <1>5 DEF Slots
  <2>2. ASSUME NEW x \in Calls, call'[x].at # Nil
        PROVE  /\ call'[x].on /\ call'[x].content \in Good
               /\ client = "facts" => /\ call'[x].calls < PerCycle
                                      /\ call'[x].reset <=> entry[call'[x].at].content # call'[x].content
    <3>1. CASE x = r  BY <1>1, <1>3, <1>4, <1>5, <3>1
    <3>2. CASE x # r  BY <1>5, <2>2, <3>2 DEF Slots
    <3>. QED  BY <3>1, <3>2
  <2>. QED  BY <1>1, <2>1, <2>2 DEF Slots
<1>8. e \notin overlapped' => /\ \A o \in Calls : call[o].at # e
                              /\ overlapped' = overlapped
  BY <1>1, NilAssumption DEF Awaiting
<1>9. overlapped \subseteq overlapped' /\ overlapped' \subseteq overlapped \cup {e}  BY <1>1
<1>10. entry[e].content = content[e] => entry[e].status # "ok" /\ entry[e].attempts < MaxAttempts
  BY <1>1, <1>2, RowIs, NilAssumption DEF MayPay, RetryDue
<1>11. Alone'
  <2>1. ASSUME NEW x \in Events \ overlapped', NEW q \in Calls, call'[q].at = x
        PROVE  /\ \A o \in Calls : call'[o].at = x => o = q
               /\ entry[x].status = "ok" => entry[x].content # call'[q].content
    <3>1. CASE x = e
      <4>1. q = r  BY <1>5, <1>8, <2>1, <3>1
      <4>. QED  BY <1>3, <1>5, <1>8, <1>10, <3>1, <4>1
    <3>2. CASE x # e
      <4>1. q # r  BY <1>3, <1>5, <2>1, <3>2
      <4>. QED  BY <1>3, <1>5, <1>9, <2>1, <3>2, <4>1 DEF Alone
    <3>. QED  BY <3>1, <3>2
  <2>. QED  BY <1>1, <2>1 DEF Alone
<1>12. ASSUME NEW x \in Events, NEW c \in Contents
       PROVE  Out(x, c)' = IF x = e /\ c = content[e] THEN Out(x, c) \cup {r} ELSE Out(x, c)
  BY <1>1, <1>3, <1>5, NilAssumption DEF Out
<1>13. Fits'
  <2>. SUFFICES ASSUME NEW x \in Events, NEW c \in Contents
                PROVE  paid[x][c] + Cardinality(Out(x, c)') <= MaxAttempts + lost[x] + Extra(x)'
    BY <1>1 DEF Fits
  <2>1. /\ paid[x][c] \in Nat /\ lost[x] \in Nat /\ Extra(x) \in Nat /\ Tried(x, c) \in Nat
        /\ Cardinality(Out(x, c)) \in Nat
    BY NumbersAre
  <2>2. Extra(x)' \in Nat /\ Extra(x)' >= Extra(x)
    BY <1>9, NIs DEF Extra
  <2>3. CASE ~(x = e /\ c = content[e])
    BY <1>12, <2>1, <2>2, <2>3, NatAssumption DEF Fits
  <2>4. CASE x = e /\ c = content[e]
    <3>1. paid[x][c] + 1 <= MaxAttempts + lost[x]
      BY <1>10, <2>1, <2>4, RowIs, NatAssumption DEF Counted, Tried
    <3>2. r \notin Out(x, c)  BY <1>1, NilAssumption DEF Out
    <3>3. /\ IsFiniteSet(Out(x, c))
          /\ Cardinality(Out(x, c) \cup {r}) = Cardinality(Out(x, c)) + 1
      BY <3>2, OutIs, FS_AddElement
    <3>6. Cardinality(Out(x, c)') = Cardinality(Out(x, c)) + 1  BY <1>12, <2>4, <3>3
    <3>7. MaxAttempts \in Nat  BY NatAssumption
    <3>. HIDE DEF PaidInv
    <3>4. CASE e \in overlapped'
      <4>1. Out(x, c) \cup {r} \in SUBSET Calls  BY DEF Out
      <4>2. Cardinality(Out(x, c) \cup {r}) <= N
        BY <4>1, CallsAssumption, FS_Subset DEF N
      <4>3. Extra(x)' = N - 1  BY <2>4, <3>4 DEF Extra
      <4>. QED  BY <2>1, <3>1, <3>3, <3>6, <3>7, <4>2, <4>3, NIs
    <3>5. CASE e \notin overlapped'
      <4>1. Out(x, c) = {}  BY <1>8, <2>4, <3>5 DEF Out
      <4>2. Cardinality(Out(x, c)) = 0  BY <4>1, FS_EmptySet
      <4>3. Extra(x)' = 0  BY <2>4, <3>5 DEF Extra
      <4>. QED  BY <2>1, <3>1, <3>6, <3>7, <4>2, <4>3
    <3>. QED  BY <3>4, <3>5
  <2>. QED  BY <2>3, <2>4
<1>14. Counted' /\ OutageKeepsBudget' /\ GoodKept
  BY <1>1 DEF Counted, Tried, OutageKeepsBudget, HasRow, GoodKept
<1>. QED  BY <1>6, <1>7, <1>11, <1>13, <1>14

-----------------------------------------------------------------------------
(* The end of a call.                                                      *)

LEMMA RecordedIs ==
  ASSUME PaidTypeOK, NEW e \in Events, NEW c \in Contents, NEW reset \in BOOLEAN,
         NEW status \in {"ok", "bad"},
         client = "facts" => (reset <=> entry[e].content # c)
  PROVE  LET new == Recorded(e, c, reset, status)
         IN  /\ new \in Entry /\ new.content = c /\ new.status = status
             /\ new.attempts \in Nat /\ new.attempts >= 1
             /\ new.attempts <= Tried(e, c) + 1
             /\ new.attempts = Tried(e, c) + 1 \/ new.attempts = MaxAttempts + N
<1>. DEFINE n == NextAttempts(e, c, reset)
            cap == MaxAttempts + N
<1>1. cap \in Nat /\ cap >= 1  BY NIs, NatAssumption
<1>2. n = Tried(e, c) + 1
  <2>1. CASE ~HasRow(e) \/ entry[e].content # c
    <3>1. n = 1  BY <2>1, RowIs, NilAssumption DEF NextAttempts
    <3>2. Tried(e, c) = 0  BY <2>1, RowIs, NilAssumption DEF Tried
    <3>. QED  BY <3>1, <3>2
  <2>2. CASE HasRow(e) /\ entry[e].content = c
    BY <2>2 DEF NextAttempts, Tried
  <2>. QED  BY <2>1, <2>2
<1>3. Tried(e, c) \in Nat  BY RowIs DEF Tried
<1>. DEFINE k == IF n > cap THEN cap ELSE n
<1>4. k \in Nat /\ k >= 1 /\ k <= cap /\ k <= Tried(e, c) + 1 /\ (k = Tried(e, c) + 1 \/ k = cap)
  BY <1>1, <1>2, <1>3
<1>5. Recorded(e, c, reset, status) = [content |-> c, attempts |-> k, status |-> status, age |-> 0]
  BY CardinalityIs DEF Recorded, N
<1>6. k \in 1 .. MaxAttempts + Cardinality(Calls)  BY <1>1, <1>4 DEF N
<1>. HIDE DEF k
<1>7. [content |-> c, attempts |-> k, status |-> status, age |-> 0] \in Entry
  BY <1>6, CardinalityIs DEF Entry, MaxAge
<1>. QED  BY <1>4, <1>5, <1>7

\* The slot of a call that is over.
LEMMA ReturnedIs ==
  ASSUME PaidInv, NEW r \in Awaiting, NEW n \in {0, 1}, Returned(r, n)
  PROVE  /\ call' \in [Calls -> RunType]
         /\ call'[r].at = Nil /\ call'[r].on = call[r].on
         /\ \A x \in Calls \ {r} : call'[x] = call[x]
         /\ client = "facts" => \A x \in Calls : call'[x].calls <= PerCycle
         /\ \A e \in Events, c \in Contents :
              /\ Out(e, c)' = Out(e, c) \ {r}
              /\ IsFiniteSet(Out(e, c)) /\ Cardinality(Out(e, c)') \in Nat
              /\ Cardinality(Out(e, c)') =
                   IF call[r].at = e /\ call[r].content = c THEN Cardinality(Out(e, c)) - 1
                                                          ELSE Cardinality(Out(e, c))
<1>. USE DEF PaidInv
<1>. DEFINE m == call[r].calls + n
            w == [call[r] EXCEPT !.at = Nil, !.content = Nil, !.reset = FALSE, !.calls = m]
<1>1. r \in Calls /\ call[r].at # Nil  BY DEF Awaiting
<1>2. call[r] \in RunType  BY <1>1, RunIs
<1>3. w \in RunType /\ w.at = Nil /\ w.on = call[r].on /\ w.calls = call[r].calls + n
  <2>1. call[r].calls + n \in Nat  BY <1>2 DEF RunType
  <2>2. /\ w = [call[r] EXCEPT !.at = Nil, !.content = Nil, !.reset = FALSE, !.calls = m]
        /\ m \in Nat
    BY <2>1
  <2>3. m = call[r].calls + n  OBVIOUS
  <2>. HIDE DEF m, w, PaidInv
  <2>4. /\ w \in RunType /\ w.at = Nil /\ w.on = call[r].on /\ w.calls = m
    BY <1>2, <2>2 DEF RunType
  <2>. QED  BY <2>3, <2>4
<1>4. call' = [call EXCEPT ![r] = w]  BY DEF Returned
<1>. HIDE DEF w
<1>5. /\ call'[r] = w /\ \A x \in Calls \ {r} : call'[x] = call[x]
      /\ call' \in [Calls -> RunType]
  BY <1>1, <1>3, <1>4, RunIs DEF PaidTypeOK
<1>6. client = "facts" => \A x \in Calls : call'[x].calls <= PerCycle
  <2>1. client = "facts" => call[r].calls < PerCycle /\ call[r].calls \in Nat
    BY <1>1, <1>2 DEF Slots, RunType
  <2>. QED  BY <1>3, <1>5, <2>1, NatAssumption DEF PaidTypeOK
<1>7. ASSUME NEW e \in Events, NEW c \in Contents
      PROVE  /\ Out(e, c)' = Out(e, c) \ {r}
             /\ IsFiniteSet(Out(e, c)) /\ Cardinality(Out(e, c)') \in Nat
             /\ Cardinality(Out(e, c)') =
                   IF call[r].at = e /\ call[r].content = c THEN Cardinality(Out(e, c)) - 1
                                                          ELSE Cardinality(Out(e, c))
  <2>1. Out(e, c)' = Out(e, c) \ {r}
    BY <1>1, <1>3, <1>5, NilAssumption DEF Out
  <2>2. r \in Out(e, c) <=> call[r].at = e /\ call[r].content = c  BY <1>1 DEF Out
  <2>3. IsFiniteSet(Out(e, c))  BY OutIs
  <2>4. /\ Cardinality(Out(e, c) \ {r}) =
             IF r \in Out(e, c) THEN Cardinality(Out(e, c)) - 1 ELSE Cardinality(Out(e, c))
        /\ IsFiniteSet(Out(e, c) \ {r})
    BY <2>3, FS_RemoveElement
  <2>5. Cardinality(Out(e, c) \ {r}) \in Nat  BY <2>4, FS_CardinalityType
  <2>. QED  BY <2>1, <2>2, <2>3, <2>4, <2>5
<1>. QED  BY <1>3, <1>5, <1>6, <1>7

\* What the awaited calls keep while one of them ends, and the rows of other
\* events with it.
LEMMA SlotsKept ==
  ASSUME PaidInv, NEW r \in Awaiting, client' = client,
         call'[r].at = Nil, call'[r].on = call[r].on, \A x \in Calls \ {r} : call'[x] = call[x],
         \A e \in Events \ {call[r].at} : entry'[e] = entry[e]
  PROVE  Slots'
<1>. USE DEF PaidInv
<1>1. r \in Calls /\ call[r].at # Nil /\ call[r].on  BY DEF Awaiting, Slots
<1>2. client # "carousel" => \A x, o \in Calls : call'[x].on /\ call'[o].on => x = o
  BY <1>1 DEF Slots
<1>3. ASSUME NEW x \in Calls, call'[x].at # Nil
      PROVE  /\ call'[x].on /\ call'[x].content \in Good /\ client # "facts"
  <2>1. x # r /\ call'[x] = call[x]  BY <1>3
  <2>. QED  BY <1>1, <1>3, <2>1 DEF Slots
<1>. QED  BY <1>2, <1>3 DEF Slots

\* A call ends with a row; k was paid for it.
LEMMA WriteStep ==
  ASSUME PaidInv, NEW r \in Awaiting, NEW n \in {0, 1}, NEW k \in {0, 1}, NEW status \in {"ok", "bad"},
         Write(call[r].at, call[r].content, call[r].reset, status),
         paid' = [paid EXCEPT ![call[r].at] =
                    [x \in Contents |-> IF x = call[r].content THEN paid[call[r].at][x] + k ELSE 0]],
         k = 1 \/ client # "carousel",
         Returned(r, n),
         UNCHANGED <<client, content, hot, seen, lost, overlapped>>, faults' \in 0 .. MaxFaults
  PROVE  PaidInv' /\ GoodKept
<1>. USE DEF PaidInv
<1>. DEFINE e == call[r].at
            c == call[r].content
            new == Recorded(e, c, call[r].reset, status)
<1>1. r \in Calls /\ call[r].at # Nil /\ call[r].content \in Good  BY DEF Awaiting, Slots
<1>2. e \in Events /\ c \in Contents /\ call[r].reset \in BOOLEAN
  BY <1>1, RunIs, GoodAssumption DEF RunType
<1>3. client = "facts" => (call[r].reset <=> entry[e].content # c)  BY <1>1 DEF Slots
<1>. HIDE DEF e, c
<1>4. /\ new \in Entry /\ new.content = c /\ new.status = status
      /\ new.attempts \in Nat /\ new.attempts >= 1
      /\ new.attempts <= Tried(e, c) + 1
      /\ new.attempts = Tried(e, c) + 1 \/ new.attempts = MaxAttempts + N
  BY <1>2, <1>3, RecordedIs DEF e, c
<1>. HIDE DEF new
<1>5. /\ entry' = [entry EXCEPT ![e] = new]
      /\ newer' = IF e \in seen THEN newer \cup {e} ELSE newer \ {e}
      /\ prom' = IF ~prom.on THEN prom
                 ELSE [prom EXCEPT !.newer = IF prom.after THEN prom.newer \cup {e} ELSE prom.newer \ {e}]
      /\ has' = IF client = "actors" /\ status = "ok" THEN has \cup {e} ELSE has
  BY DEF Write, e, c, new
<1>6. entry'[e] = new /\ \A x \in Events \ {e} : entry'[x] = entry[x]
  BY <1>2, <1>5 DEF PaidTypeOK
<1>7. /\ call' \in [Calls -> RunType]
      /\ call'[r].at = Nil /\ call'[r].on = call[r].on
      /\ \A x \in Calls \ {r} : call'[x] = call[x]
      /\ client = "facts" => \A x \in Calls : call'[x].calls <= PerCycle
  BY ReturnedIs
<1>8. paid' \in [Events -> [Contents -> Nat]]
  <2>. DEFINE p == [x \in Contents |-> IF x = c THEN paid[e][x] + k ELSE 0]
  <2>1. \A x \in Contents : paid[e][x] \in Nat  BY <1>2 DEF PaidTypeOK
  <2>2. p \in [Contents -> Nat]  BY <2>1
  <2>3. paid' = [paid EXCEPT ![e] = p]  BY DEF e, c
  <2>. HIDE DEF p
  <2>. QED  BY <1>2, <2>2, <2>3 DEF PaidTypeOK
<1>9. PaidTypeOK'
  <2>1. entry' \in [Events -> Entry \cup {NoRow}]  BY <1>2, <1>4, <1>5 DEF PaidTypeOK
  <2>2. /\ newer' \subseteq Events /\ has' \subseteq Events
        /\ prom' \in [on : BOOLEAN, newer : SUBSET Events, after : BOOLEAN, fresh : BOOLEAN]
    BY <1>2, <1>5 DEF PaidTypeOK
  <2>. QED  BY <1>7, <1>8, <2>1, <2>2 DEF PaidTypeOK, RunType
<1>10. Slots'  BY <1>6, <1>7, SlotsKept DEF e
<1>11. Alone'
  <2>1. ASSUME NEW x \in Events \ overlapped, NEW q \in Calls, call'[q].at = x
        PROVE  /\ \A o \in Calls : call'[o].at = x => o = q
               /\ entry'[x].status = "ok" => entry'[x].content # call'[q].content
    <3>1. q # r /\ call'[q] = call[q]  BY <1>7, <2>1, NilAssumption
    <3>2. x # e  BY <1>1, <2>1, <3>1 DEF Alone, e
    <3>. QED  BY <1>6, <1>7, <2>1, <3>1, <3>2, NilAssumption DEF Alone
  <2>2. ASSUME NEW x \in Events, entry'[x].status = "ok" PROVE entry'[x].content \in Good
    <3>1. CASE x = e  BY <1>1, <1>4, <1>6, <3>1 DEF c
    <3>2. CASE x # e  BY <1>6, <2>2, <3>2 DEF Alone
    <3>. QED  BY <3>1, <3>2
  <2>. QED  BY <2>1, <2>2 DEF Alone
<1>12. ASSUME NEW x \in Events, NEW d \in Contents
       PROVE  /\ paid'[x][d] = IF x = e THEN IF d = c THEN paid[x][d] + k ELSE 0 ELSE paid[x][d]
              /\ paid[x][d] \in Nat /\ lost[x] \in Nat /\ lost'[x] = lost[x]
              /\ Extra(x) \in Nat /\ Extra(x)' = Extra(x) /\ Extra(x) <= N - 1 /\ Tried(x, d) \in Nat
              /\ Cardinality(Out(x, d)) \in Nat /\ Cardinality(Out(x, d)') \in Nat
              /\ Cardinality(Out(x, d)') =
                   IF x = e /\ d = c THEN Cardinality(Out(x, d)) - 1 ELSE Cardinality(Out(x, d))
              /\ paid[x][d] + Cardinality(Out(x, d)) <= MaxAttempts + lost[x] + Extra(x)
              /\ paid[x][d] <= lost[x] + Tried(x, d)
  <2>1. paid'[x][d] = IF x = e THEN IF d = c THEN paid[x][d] + k ELSE 0 ELSE paid[x][d]
    BY <1>2 DEF PaidTypeOK, e, c
  <2>2. Cardinality(Out(x, d)') \in Nat /\
        Cardinality(Out(x, d)') =
                   IF x = e /\ d = c THEN Cardinality(Out(x, d)) - 1 ELSE Cardinality(Out(x, d))
    BY ReturnedIs DEF e, c
  <2>3. Extra(x)' = Extra(x) /\ Extra(x) <= N - 1  BY NIs DEF Extra
  <2>4. /\ paid[x][d] \in Nat /\ lost[x] \in Nat /\ Extra(x) \in Nat /\ Tried(x, d) \in Nat
        /\ Cardinality(Out(x, d)) \in Nat
    BY NumbersAre
  <2>. QED  BY <2>1, <2>2, <2>3, <2>4 DEF Fits, Counted
<1>13. Fits'
  <2>. SUFFICES ASSUME NEW x \in Events, NEW d \in Contents
                PROVE  paid'[x][d] + Cardinality(Out(x, d)') <= MaxAttempts + lost'[x] + Extra(x)'
    BY DEF Fits
  <2>1. MaxAttempts \in Nat  BY NatAssumption
  <2>. HIDE DEF PaidInv
  <2>2. CASE x = e /\ d = c
    <3>1. paid'[x][d] = paid[x][d] + k /\ Cardinality(Out(x, d)') = Cardinality(Out(x, d)) - 1
      BY <1>12, <2>2
    <3>. QED  BY <1>12, <2>1, <3>1
  <2>3. CASE ~(x = e /\ d = c)
    <3>1. paid'[x][d] \in {paid[x][d], 0} /\ Cardinality(Out(x, d)') = Cardinality(Out(x, d))
      BY <1>12, <2>3
    <3>. QED  BY <1>12, <2>1, <3>1
  <2>. QED  BY <2>2, <2>3
<1>14. Counted'
  <2>. SUFFICES ASSUME NEW x \in Events, NEW d \in Contents
                PROVE  paid'[x][d] <= lost'[x] + Tried(x, d)'
    BY DEF Counted
  <2>1. CASE x # e
    <3>1. Tried(x, d)' = Tried(x, d)  BY <1>6, <2>1 DEF Tried
    <3>. QED  BY <1>12, <2>1, <3>1
  <2>2. CASE x = e /\ d # c
    <3>1. Tried(x, d)' = 0 /\ paid'[x][d] = 0  BY <1>4, <1>6, <1>12, <2>2 DEF Tried
    <3>. QED  BY <1>12, <3>1
  <2>3. CASE x = e /\ d = c
    <3>1. Tried(x, d)' = new.attempts  BY <1>4, <1>6, <2>3 DEF Tried
    <3>2. paid'[x][d] = paid[x][d] + k  BY <1>12, <2>3
    <3>3. paid[x][d] + 1 <= MaxAttempts + lost[x] + N
      BY <1>12, <2>3, NIs, NatAssumption
    <3>. QED  BY <1>4, <1>12, <2>3, <3>1, <3>2, <3>3, NIs, NatAssumption
  <2>. QED  BY <2>1, <2>2, <2>3
<1>15. OutageKeepsBudget'
  <2>. SUFFICES ASSUME NEW x \in Events, client = "carousel", HasRow(x)'
                PROVE  entry'[x].attempts <= paid'[x][entry'[x].content]
    BY DEF OutageKeepsBudget
  <2>1. CASE x # e
    <3>1. HasRow(x) /\ entry'[x] = entry[x]  BY <1>6, <2>1 DEF HasRow
    <3>2. entry[x].content \in Contents  BY <3>1, RowIs
    <3>. QED  BY <1>12, <2>1, <3>1, <3>2 DEF OutageKeepsBudget
  <2>2. CASE x = e
    <3>1. entry'[x] = new /\ paid'[x][c] = paid[x][c] + 1  BY <1>2, <1>6, <1>12, <2>2
    <3>2. Tried(e, c) <= paid[e][c]
      <4>1. CASE entry[e].content = c
        <5>1. HasRow(e)  BY <1>2, <4>1, RowIs, NilAssumption
        <5>. QED  BY <1>2, <4>1, <5>1 DEF OutageKeepsBudget, Tried
      <4>2. CASE entry[e].content # c  BY <1>2, <1>12, <4>2 DEF Tried
      <4>. QED  BY <4>1, <4>2
    <3>. QED  BY <1>2, <1>4, <1>12, <2>2, <3>1, <3>2
  <2>. QED  BY <2>1, <2>2
<1>16. GoodKept
  <2>. SUFFICES ASSUME NEW x \in Events, entry[x].status = "ok", entry'[x].status # "ok", x \notin overlapped
                PROVE  entry'[x].content # entry[x].content
    BY DEF GoodKept
  <2>1. x = e  BY <1>6
  <2>2. entry[x].content # c  BY <1>1, <2>1 DEF Alone, e, c
  <2>. QED  BY <1>4, <1>6, <2>1, <2>2
<1>. QED  BY <1>9, <1>10, <1>11, <1>13, <1>14, <1>15, <1>16

LEMMA AnswerStep ==
  ASSUME PaidInv, NEW r \in Calls, NEW status \in {"ok", "bad"}, Answer(r, status)
  PROVE  PaidInv' /\ GoodKept
<1>1. /\ r \in Awaiting
      /\ Write(call[r].at, call[r].content, call[r].reset, status)
      /\ paid' = [paid EXCEPT ![call[r].at] =
                    [x \in Contents |-> IF x = call[r].content THEN paid[call[r].at][x] + 1 ELSE 0]]
      /\ Returned(r, 1)
      /\ UNCHANGED <<client, content, hot, seen, lost, overlapped, faults>>
  BY DEF Answer, Payment
<1>2. faults' \in 0 .. MaxFaults  BY <1>1 DEF PaidInv, PaidTypeOK
<1>. QED  BY <1>1, <1>2, WriteStep

\* Calls end that leave no row: out(x, d) of them on d for x, all paid and
\* lost, or none.
LEMMA DropStep ==
  ASSUME PaidInv, PaidTypeOK', Slots', UNCHANGED <<client, entry, overlapped>>,
         \A x \in Calls : call'[x].at = Nil \/ call'[x] = call[x],
         \A x \in Events : lost'[x] \in Nat /\ lost'[x] >= lost[x],
         \A x \in Events, d \in Contents :
            /\ paid'[x][d] \in Nat /\ paid'[x][d] >= paid[x][d]
            /\ paid'[x][d] - paid[x][d] <= lost'[x] - lost[x]
            /\ paid'[x][d] + Cardinality(Out(x, d)') <=
                 paid[x][d] + Cardinality(Out(x, d)) + (lost'[x] - lost[x])
  PROVE  PaidInv' /\ GoodKept
<1>. USE DEF PaidInv
<1>1. Alone'
  <2>1. \A x \in Events, q \in Calls : call'[q].at = x => call'[q] = call[q]
    BY NilAssumption
  <2>. QED  BY <2>1 DEF Alone
<1>2. ASSUME NEW x \in Events, NEW d \in Contents
      PROVE  /\ paid[x][d] \in Nat /\ lost[x] \in Nat /\ Tried(x, d) \in Nat
             /\ Extra(x) \in Nat /\ Cardinality(Out(x, d)) \in Nat
             /\ Cardinality(Out(x, d)') \in Nat
             /\ Extra(x)' = Extra(x) /\ Tried(x, d)' = Tried(x, d)
             /\ paid[x][d] + Cardinality(Out(x, d)) <= MaxAttempts + lost[x] + Extra(x)
             /\ paid[x][d] <= lost[x] + Tried(x, d)
  <2>1. Extra(x)' = Extra(x) /\ Tried(x, d)' = Tried(x, d)  BY DEF Extra, Tried
  <2>2. Out(x, d)' \in SUBSET Calls  BY DEF Out
  <2>3. Cardinality(Out(x, d)') \in Nat
    BY <2>2, CallsAssumption, FS_Subset, FS_CardinalityType
  <2>. QED  BY <2>1, <2>3, NumbersAre DEF Fits, Counted
<1>3. Fits'
  <2>. SUFFICES ASSUME NEW x \in Events, NEW d \in Contents
                PROVE  paid'[x][d] + Cardinality(Out(x, d)') <= MaxAttempts + lost'[x] + Extra(x)'
    BY DEF Fits
  <2>1. MaxAttempts \in Nat  BY NatAssumption
  <2>. HIDE DEF PaidInv
  <2>. QED  BY <1>2, <2>1
<1>4. Counted'
  <2>. SUFFICES ASSUME NEW x \in Events, NEW d \in Contents
                PROVE  paid'[x][d] <= lost'[x] + Tried(x, d)'
    BY DEF Counted
  <2>. HIDE DEF PaidInv
  <2>. QED  BY <1>2
<1>5. OutageKeepsBudget'
  <2>. SUFFICES ASSUME NEW x \in Events, client = "carousel", HasRow(x)
                PROVE  entry[x].attempts <= paid'[x][entry[x].content]
    BY DEF OutageKeepsBudget, HasRow
  <2>1. entry[x].content \in Contents /\ entry[x].attempts \in Nat  BY RowIs
  <2>. QED  BY <1>2, <2>1 DEF OutageKeepsBudget
<1>6. GoodKept  BY DEF GoodKept
<1>. QED  BY <1>1, <1>3, <1>4, <1>5, <1>6

LEMMA UnavailableStep ==
  ASSUME PaidInv, NEW r \in Calls, NEW asked \in BOOLEAN, Unavailable(r, asked)
  PROVE  PaidInv' /\ GoodKept
<1>. USE DEF PaidInv
<1>. DEFINE n == IF asked THEN 1 ELSE 0
<1>0. n \in {0, 1}  OBVIOUS
<1>1. /\ r \in Awaiting /\ Returned(r, n) /\ faults < MaxFaults /\ faults' = faults + 1
      /\ UNCHANGED <<client, content, hot, seen, lost, overlapped>>
  BY DEF Unavailable
<1>2. faults' \in 0 .. MaxFaults  BY <1>1, NatAssumption DEF PaidTypeOK
<1>. HIDE DEF n
<1>3. CASE LedgersUnpaid(asked)
  <2>1. /\ Write(call[r].at, call[r].content, call[r].reset, "bad")
        /\ paid' = [paid EXCEPT ![call[r].at] =
                      [x \in Contents |-> IF x = call[r].content THEN paid[call[r].at][x] ELSE 0]]
    BY <1>3 DEF Unavailable
  <2>2. call[r].at \in Events  BY <1>1, RunIs DEF RunType, Awaiting
  <2>3. \A x \in Contents : paid[call[r].at][x] + 0 = paid[call[r].at][x]
    BY <2>2 DEF PaidTypeOK
  <2>4. paid' = [paid EXCEPT ![call[r].at] =
                   [x \in Contents |-> IF x = call[r].content THEN paid[call[r].at][x] + 0 ELSE 0]]
    BY <2>1, <2>3
  <2>5. client # "carousel"  BY <1>3 DEF LedgersUnpaid
  <2>. QED  BY <1>0, <1>1, <1>2, <2>1, <2>4, <2>5, WriteStep
<1>4. CASE ~LedgersUnpaid(asked)
  <2>1. UNCHANGED <<entry, newer, prom, has, paid>>
    BY <1>4 DEF Unavailable
  <2>2. /\ call' \in [Calls -> RunType]
        /\ call'[r].at = Nil /\ call'[r].on = call[r].on
        /\ \A x \in Calls \ {r} : call'[x] = call[x]
        /\ client = "facts" => \A x \in Calls : call'[x].calls <= PerCycle
    BY <1>0, <1>1, ReturnedIs
  <2>3. PaidTypeOK'  BY <1>1, <1>2, <2>1, <2>2 DEF PaidTypeOK, RunType
  <2>4. Slots'  BY <1>1, <2>1, <2>2, SlotsKept
  <2>5. \A x \in Events, d \in Contents :
          /\ Cardinality(Out(x, d)') <= Cardinality(Out(x, d))
          /\ Cardinality(Out(x, d)') \in Nat
    <3>. TAKE x \in Events, d \in Contents
    <3>1. Cardinality(Out(x, d)) \in Nat  BY OutIs
    <3>2. /\ Cardinality(Out(x, d)') \in Nat
          /\ Cardinality(Out(x, d)') \in {Cardinality(Out(x, d)) - 1, Cardinality(Out(x, d))}
      BY <1>0, <1>1, ReturnedIs
    <3>. QED  BY <3>1, <3>2
  <2>6. \A x \in Events : lost'[x] \in Nat /\ lost'[x] >= lost[x]  BY <1>1 DEF PaidTypeOK
  <2>7. \A x \in Events, d \in Contents :
            /\ paid'[x][d] \in Nat /\ paid'[x][d] >= paid[x][d]
            /\ paid'[x][d] - paid[x][d] <= lost'[x] - lost[x]
            /\ paid'[x][d] + Cardinality(Out(x, d)') <=
                 paid[x][d] + Cardinality(Out(x, d)) + (lost'[x] - lost[x])
    <3>. TAKE x \in Events, d \in Contents
    <3>1. /\ paid[x][d] \in Nat /\ lost[x] \in Nat /\ Cardinality(Out(x, d)) \in Nat
          /\ paid'[x][d] = paid[x][d] /\ lost'[x] = lost[x]
      BY <1>1, <2>1, NumbersAre
    <3>. QED  BY <2>5, <3>1
  <2>8. \A x \in Calls : call'[x].at = Nil \/ call'[x] = call[x]  BY <2>2
  <2>. QED  BY <1>1, <2>1, <2>3, <2>4, <2>6, <2>7, <2>8, DropStep
<1>. QED  BY <1>3, <1>4

LEMMA DroppedStep ==
  ASSUME PaidInv, NEW r \in Calls, Dropped(r) PROVE PaidInv' /\ GoodKept
<1>. USE DEF PaidInv
<1>. DEFINE e == call[r].at
            c == call[r].content
<1>1. /\ r \in Awaiting /\ Returned(r, 0) /\ faults < MaxFaults /\ faults' = faults + 1
      /\ paid' = [paid EXCEPT ![e][c] = @ + 1]
      /\ lost' = [lost EXCEPT ![e] = @ + 1]
      /\ UNCHANGED <<client, entry, has, seen, overlapped, content, newer, hot, prom>>
  BY DEF Dropped, graph
<1>2. e \in Events /\ c \in Contents
  BY <1>1, RunIs, GoodAssumption DEF RunType, Awaiting, Slots
<1>3. faults' \in 0 .. MaxFaults  BY <1>1, NatAssumption DEF PaidTypeOK
<1>4. /\ call' \in [Calls -> RunType]
      /\ call'[r].at = Nil /\ call'[r].on = call[r].on
      /\ \A x \in Calls \ {r} : call'[x] = call[x]
      /\ client = "facts" => \A x \in Calls : call'[x].calls <= PerCycle
  BY <1>1, ReturnedIs
<1>. HIDE DEF e, c
<1>5. ASSUME NEW x \in Events, NEW d \in Contents
      PROVE  /\ paid'[x][d] = IF x = e /\ d = c THEN paid[x][d] + 1 ELSE paid[x][d]
             /\ lost'[x] = IF x = e THEN lost[x] + 1 ELSE lost[x]
             /\ paid[x][d] \in Nat /\ lost[x] \in Nat
             /\ Cardinality(Out(x, d)) \in Nat /\ Cardinality(Out(x, d)') \in Nat
             /\ Cardinality(Out(x, d)') =
                  IF x = e /\ d = c THEN Cardinality(Out(x, d)) - 1 ELSE Cardinality(Out(x, d))
  <2>1. paid'[x][d] = IF x = e /\ d = c THEN paid[x][d] + 1 ELSE paid[x][d]
    BY <1>1, <1>2 DEF PaidTypeOK
  <2>2. lost'[x] = IF x = e THEN lost[x] + 1 ELSE lost[x]  BY <1>1, <1>2 DEF PaidTypeOK
  <2>3. /\ Cardinality(Out(x, d)') \in Nat
        /\ Cardinality(Out(x, d)') =
             IF x = e /\ d = c THEN Cardinality(Out(x, d)) - 1 ELSE Cardinality(Out(x, d))
    BY <1>1, ReturnedIs DEF e, c
  <2>. QED  BY <2>1, <2>2, <2>3, NumbersAre
<1>6. /\ paid' \in [Events -> [Contents -> Nat]] /\ lost' \in [Events -> Nat]
  BY <1>1, <1>2 DEF PaidTypeOK
<1>7. PaidTypeOK'  BY <1>1, <1>3, <1>4, <1>6 DEF PaidTypeOK, RunType
<1>8. Slots'  BY <1>1, <1>4, SlotsKept
<1>9. \A x \in Events : lost'[x] \in Nat /\ lost'[x] >= lost[x]
  BY <1>1, <1>2, <1>6 DEF PaidTypeOK
<1>10. \A x \in Events, d \in Contents :
            /\ paid'[x][d] \in Nat /\ paid'[x][d] >= paid[x][d]
            /\ paid'[x][d] - paid[x][d] <= lost'[x] - lost[x]
            /\ paid'[x][d] + Cardinality(Out(x, d)') <=
                 paid[x][d] + Cardinality(Out(x, d)) + (lost'[x] - lost[x])
  <2>. HIDE DEF PaidInv
  <2>. QED  BY <1>5
<1>11. \A x \in Calls : call'[x].at = Nil \/ call'[x] = call[x]  BY <1>4
<1>. QED  BY <1>1, <1>7, <1>8, <1>9, <1>10, <1>11, DropStep

LEMMA CrashStep ==
  ASSUME PaidInv, Crash
  PROVE  PaidInv' /\ GoodKept
<1>. USE DEF PaidInv
<1>. DEFINE on(e, c) ==
              Cardinality({r \in Awaiting : call[r].at = e /\ call[r].content = c})
            all(e) == Cardinality({r \in Awaiting : call[r].at = e})
<1>1. /\ faults < MaxFaults /\ faults' = faults + 1
      /\ paid' = [e \in Events |-> [c \in Contents |-> paid[e][c] + on(e, c)]]
      /\ lost' = [e \in Events |-> lost[e] + all(e)]
      /\ call' = [r \in Calls |-> Idle]
      /\ UNCHANGED <<client, entry, has, seen, overlapped, content, newer, hot, prom>>
  <2>1. /\ paid' = [e \in Events |-> [c \in Contents |->
                     paid[e][c] + Cardinality({r \in Awaiting :
                                       call[r].at = e /\ call[r].content = c})]]
        /\ lost' = [e \in Events |->
                     lost[e] + Cardinality({r \in Awaiting : call[r].at = e})]
        /\ faults < MaxFaults /\ faults' = faults + 1 /\ call' = [r \in Calls |-> Idle]
        /\ UNCHANGED <<client, entry, has, seen, overlapped, content, newer, hot, prom>>
    BY DEF Crash, graph
  <2>. QED  BY <2>1, CardinalityIs
<1>2. ASSUME NEW x \in Events, NEW d \in Contents
      PROVE  /\ on(x, d) = Cardinality(Out(x, d)) /\ on(x, d) \in Nat
             /\ all(x) \in Nat /\ on(x, d) <= all(x)
             /\ Cardinality(Out(x, d)') = 0
  <2>1. {r \in Awaiting : call[r].at = x /\ call[r].content = d} = Out(x, d)
    BY NilAssumption DEF Awaiting, Out
  <2>2. {r \in Awaiting : call[r].at = x} \in SUBSET Calls  BY DEF Awaiting
  <2>3. IsFiniteSet({r \in Awaiting : call[r].at = x})  BY <2>2, CallsAssumption, FS_Subset
  <2>4. Out(x, d) \in SUBSET {r \in Awaiting : call[r].at = x}
    BY NilAssumption DEF Awaiting, Out
  <2>5. Cardinality(Out(x, d)) <= all(x)  BY <2>3, <2>4, FS_Subset
  <2>6. all(x) \in Nat  BY <2>3, FS_CardinalityType
  <2>7. Out(x, d)' = {}  BY <1>1, NilAssumption DEF Out, Idle
  <2>8. Cardinality(Out(x, d)') = 0  BY <2>7, FS_EmptySet
  <2>. QED  BY <2>1, <2>5, <2>6, <2>8, OutIs
<1>3. ASSUME NEW x \in Events
      PROVE  all(x) \in Nat
  <2>1. {r \in Awaiting : call[r].at = x} \in SUBSET Calls  BY DEF Awaiting
  <2>. QED  BY <2>1, CallsAssumption, FS_Subset, FS_CardinalityType
<1>. HIDE DEF on, all
<1>4. /\ paid' \in [Events -> [Contents -> Nat]] /\ lost' \in [Events -> Nat]
      /\ \A x \in Events : lost'[x] \in Nat /\ lost'[x] >= lost[x]
  <2>1. \A x \in Events : lost[x] + all(x) \in Nat /\ lost[x] + all(x) >= lost[x]
    BY <1>3 DEF PaidTypeOK
  <2>2. \A x \in Events, d \in Contents : paid[x][d] + on(x, d) \in Nat
    BY <1>2 DEF PaidTypeOK
  <2>. QED  BY <1>1, <2>1, <2>2
<1>5. Idle \in RunType /\ Idle.at = Nil /\ ~Idle.on /\ Idle.calls <= PerCycle
  BY NatAssumption DEF Idle, RunType
<1>6. \A r \in Calls : call'[r] = Idle  BY <1>1
<1>7. PaidTypeOK'
  <2>1. faults' \in 0 .. MaxFaults  BY <1>1, NatAssumption DEF PaidTypeOK
  <2>. QED  BY <1>1, <1>4, <1>5, <1>6, <2>1 DEF PaidTypeOK, RunType
<1>8. Slots'  BY <1>5, <1>6 DEF Slots
<1>9. ASSUME NEW x \in Events, NEW d \in Contents
      PROVE  /\ paid'[x][d] \in Nat /\ paid'[x][d] >= paid[x][d]
             /\ paid'[x][d] - paid[x][d] <= lost'[x] - lost[x]
             /\ paid'[x][d] + Cardinality(Out(x, d)') <=
                  paid[x][d] + Cardinality(Out(x, d)) + (lost'[x] - lost[x])
  <2>1. paid'[x][d] = paid[x][d] + on(x, d) /\ lost'[x] = lost[x] + all(x)  BY <1>1
  <2>2. paid[x][d] \in Nat /\ lost[x] \in Nat  BY NumbersAre
  <2>. HIDE DEF PaidInv
  <2>. QED  BY <1>2, <2>1, <2>2
<1>10. \A x \in Calls : call'[x].at = Nil \/ call'[x] = call[x]  BY <1>5, <1>6
<1>. QED  BY <1>1, <1>4, <1>7, <1>8, <1>9, <1>10, DropStep

\* The actors of an event without articles.
LEMMA ProbeStep ==
  ASSUME PaidInv, NEW r \in Calls, NEW e \in Events, Probe(r, e) PROVE PaidInv' /\ GoodKept
<1>. USE DEF PaidInv
<1>. DEFINE c == content[e]
            new == Recorded(e, c, TRUE, "bad")
            w == [call[r] EXCEPT !.todo = @ \ {e}]
<1>1. /\ call[r].on /\ call[r].at = Nil /\ client = "actors" /\ c \notin Good
      /\ entry' = [entry EXCEPT ![e] = new]
      /\ newer' = IF e \in seen THEN newer \cup {e} ELSE newer \ {e}
      /\ prom' = IF ~prom.on THEN prom
                 ELSE [prom EXCEPT !.newer = IF prom.after THEN prom.newer \cup {e} ELSE prom.newer \ {e}]
      /\ has' = has
      /\ paid' = [paid EXCEPT ![e] = [x \in Contents |-> IF x = c THEN paid[e][x] ELSE 0]]
      /\ call' = [call EXCEPT ![r] = w]
      /\ UNCHANGED <<client, content, hot, seen, faults, lost, overlapped>>
  BY DEF Probe, Turn, Write
<1>2. c \in Contents  BY DEF PaidTypeOK
<1>3. /\ new \in Entry /\ new.content = c /\ new.status = "bad"
      /\ new.attempts \in Nat /\ new.attempts >= 1
      /\ new.attempts = Tried(e, c) + 1 \/ new.attempts = MaxAttempts + N
  <2>1. client # "facts"  BY <1>1
  <2>2. \A b \in BOOLEAN :
          LET n == Recorded(e, c, b, "bad")
          IN  /\ n \in Entry /\ n.content = c /\ n.status = "bad"
              /\ n.attempts \in Nat /\ n.attempts >= 1
              /\ n.attempts = Tried(e, c) + 1 \/ n.attempts = MaxAttempts + N
    <3>. HIDE DEF c
    <3>. QED  BY <1>2, <2>1, RecordedIs
  <2>. HIDE DEF PaidInv, c
  <2>. QED  BY <2>2, Zenon
<1>4. w \in RunType /\ w.at = Nil /\ w.on /\ w.calls = call[r].calls
  BY <1>1, RunIs DEF RunType
<1>. HIDE DEF c, new, w
<1>5. entry'[e] = new /\ \A x \in Events \ {e} : entry'[x] = entry[x]
  BY <1>1 DEF PaidTypeOK
<1>6. /\ call'[r] = w /\ \A x \in Calls \ {r} : call'[x] = call[x]
      /\ call' \in [Calls -> RunType]
  BY <1>1, <1>4, RunIs DEF PaidTypeOK
<1>7. \A x \in Calls : call[x].at = Nil /\ call'[x].at = Nil
  BY <1>1, <1>4, <1>6 DEF Slots
<1>8. paid' \in [Events -> [Contents -> Nat]]
  <2>. DEFINE p == [x \in Contents |-> IF x = c THEN paid[e][x] ELSE 0]
  <2>1. \A x \in Contents : paid[e][x] \in Nat  BY DEF PaidTypeOK
  <2>2. p \in [Contents -> Nat]  BY <2>1
  <2>. HIDE DEF p
  <2>. QED  BY <1>1, <2>2 DEF PaidTypeOK, p
<1>9. PaidTypeOK'
  <2>1. entry' \in [Events -> Entry \cup {NoRow}]  BY <1>1, <1>3 DEF PaidTypeOK
  <2>2. /\ newer' \subseteq Events /\ has' \subseteq Events
        /\ prom' \in [on : BOOLEAN, newer : SUBSET Events, after : BOOLEAN, fresh : BOOLEAN]
    BY <1>1 DEF PaidTypeOK
  <2>. QED  BY <1>1, <1>6, <1>8, <2>1, <2>2 DEF PaidTypeOK, RunType
<1>10. Slots'  BY <1>1, <1>4, <1>6, <1>7 DEF Slots
<1>11. Alone'
  <2>1. \A x \in Events, q \in Calls : call'[q].at # x  BY <1>7, NilAssumption
  <2>2. \A x \in Events : entry'[x].status = "ok" => entry'[x].content \in Good
    BY <1>3, <1>5 DEF Alone
  <2>. QED  BY <2>1, <2>2 DEF Alone
<1>12. ASSUME NEW x \in Events, NEW d \in Contents
       PROVE  /\ paid'[x][d] = IF x = e THEN IF d = c THEN paid[x][d] ELSE 0 ELSE paid[x][d]
              /\ paid[x][d] \in Nat /\ lost[x] \in Nat /\ lost'[x] = lost[x]
              /\ Extra(x) \in Nat /\ Extra(x)' = Extra(x) /\ Extra(x) <= N - 1 /\ Tried(x, d) \in Nat
              /\ Cardinality(Out(x, d)) = 0 /\ Cardinality(Out(x, d)') = 0
              /\ paid[x][d] + Cardinality(Out(x, d)) <= MaxAttempts + lost[x] + Extra(x)
              /\ paid[x][d] <= lost[x] + Tried(x, d)
  <2>1. paid'[x][d] = IF x = e THEN IF d = c THEN paid[x][d] ELSE 0 ELSE paid[x][d]
    BY <1>1 DEF PaidTypeOK
  <2>2. Out(x, d) = {} /\ Out(x, d)' = {}  BY <1>7, NilAssumption DEF Out
  <2>3. Cardinality(Out(x, d)) = 0 /\ Cardinality(Out(x, d)') = 0  BY <2>2, FS_EmptySet
  <2>4. Extra(x)' = Extra(x) /\ Extra(x) <= N - 1  BY <1>1, NIs DEF Extra
  <2>. QED  BY <1>1, <2>1, <2>3, <2>4, NumbersAre DEF Fits, Counted
<1>13. Fits'
  <2>. SUFFICES ASSUME NEW x \in Events, NEW d \in Contents
                PROVE  paid'[x][d] + Cardinality(Out(x, d)') <= MaxAttempts + lost'[x] + Extra(x)'
    BY DEF Fits
  <2>1. MaxAttempts \in Nat  BY NatAssumption
  <2>. HIDE DEF PaidInv
  <2>. QED  BY <1>12, <2>1
<1>14. Counted'
  <2>. SUFFICES ASSUME NEW x \in Events, NEW d \in Contents
                PROVE  paid'[x][d] <= lost'[x] + Tried(x, d)'
    BY DEF Counted
  <2>1. CASE x # e
    <3>1. Tried(x, d)' = Tried(x, d)  BY <1>5, <2>1 DEF Tried
    <3>. QED  BY <1>12, <2>1, <3>1
  <2>2. CASE x = e /\ d # c
    <3>1. Tried(x, d)' = 0 /\ paid'[x][d] = 0  BY <1>3, <1>5, <1>12, <2>2 DEF Tried
    <3>. QED  BY <1>12, <3>1
  <2>3. CASE x = e /\ d = c
    <3>1. Tried(x, d)' = new.attempts  BY <1>3, <1>5, <2>3 DEF Tried
    <3>2. paid'[x][d] = paid[x][d]  BY <1>12, <2>3
    <3>3. paid[x][d] <= MaxAttempts + lost[x] + N
      BY <1>12, NIs, NatAssumption
    <3>. QED  BY <1>3, <1>12, <2>3, <3>1, <3>2, <3>3, NIs, NatAssumption
  <2>. QED  BY <2>1, <2>2, <2>3
<1>15. OutageKeepsBudget'  BY <1>1 DEF OutageKeepsBudget
<1>16. GoodKept
  <2>. SUFFICES ASSUME NEW x \in Events, entry[x].status = "ok", entry'[x].status # "ok"
                PROVE  entry'[x].content # entry[x].content
    BY DEF GoodKept
  <2>1. x = e /\ entry[x].content \in Good  BY <1>5 DEF Alone
  <2>. QED  BY <1>1, <1>3, <1>5, <2>1
<1>. QED  BY <1>9, <1>10, <1>11, <1>13, <1>14, <1>15, <1>16

-----------------------------------------------------------------------------
LEMMA NextStep ==
  PaidInv /\ [PaidNext]_paidVars => PaidInv' /\ (GoodKept \/ UNCHANGED paidVars)
<1>. SUFFICES ASSUME PaidInv, [PaidNext]_paidVars
              PROVE  PaidInv' /\ (GoodKept \/ UNCHANGED paidVars)
  OBVIOUS
<1>1. ASSUME NEW r \in Calls, Generator(r) PROVE PaidInv' /\ GoodKept
  BY <1>1, StartStep, FinishStep, UnavailableStep, DroppedStep, AskStep, SkipStep,
     ProbeStep, CallStep, AnswerStep DEF Generator, Unrecorded, Nulled
<1>2. CASE UNCHANGED paidVars
  <2>1. \A e, c : Out(e, c)' = Out(e, c)  BY <1>2 DEF Out, paidVars
  <2>. QED  BY <1>2, <2>1
         DEF paidVars, PaidInv, PaidTypeOK, Slots, Alone, Fits, Counted, OutageKeepsBudget, Extra, Tried, HasRow
<1>. QED  BY <1>1, <1>2, CrashStep, GraphStep, TickStep DEF PaidNext

LEMMA Inductive ==
  PaidSpec => []PaidInv
<1>1. PaidInit => PaidInv  BY InitHolds
<1>2. PaidInv /\ [PaidNext]_paidVars => PaidInv'  BY NextStep
<1>. QED  BY <1>1, <1>2, PTL DEF PaidSpec

LEMMA FitsCap ==
  PaidInv => AttemptsCapped
<1>. SUFFICES ASSUME PaidInv, NEW e \in Events, NEW c \in Contents
              PROVE  paid[e][c] <= MaxAttempts + lost[e] + Extra(e)
  BY CardinalityIs DEF AttemptsCapped, Extra, N
<1>1. /\ paid[e][c] \in Nat /\ lost[e] \in Nat /\ Extra(e) \in Nat
      /\ Cardinality(Out(e, c)) \in Nat
  BY NumbersAre DEF PaidInv
<1>. QED  BY <1>1, NatAssumption DEF PaidInv, Fits

(* The types of the ledgers, the cap on what is paid for one content of an   *)
(* event, up to the calls whose process died and the overlaps of the social  *)
(* cycles, and that an outage uses up no attempt (recordAttempt and          *)
(* ledgerDecision of the three generators).                                  *)
THEOREM LedgerHolds ==
  PaidSpec => []LedgerInv
<1>1. PaidInv => LedgerInv  BY FitsCap DEF LedgerInv, PaidInv
<1>2. PaidSpec => []PaidInv  BY Inductive
<1>. QED  BY <1>1, <1>2, PTL

(* A good result is replaced only by an attempt on other content, or where   *)
(* two calls for the event were awaited at once.                             *)
THEOREM GoodRowKeptHolds ==
  PaidSpec => GoodRowKept
<1>1. PaidInv /\ [PaidNext]_paidVars => [GoodKept]_paidVars  BY NextStep
<1>2. PaidSpec => []PaidInv  BY Inductive
<1>. QED  BY <1>1, <1>2, PTL DEF PaidSpec, GoodRowKept, GoodKept
=============================================================================

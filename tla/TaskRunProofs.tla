---------------------------- MODULE TaskRunProofs ----------------------------
(***************************************************************************)
(* Proofs about TaskRun.tla, for every number of checks, attempts, edits,  *)
(* crashes and faults.  The invariant says how the latest attempt mirrors  *)
(* the task (RecordOK), where the closure stands (ClosureOK, WorkOK,       *)
(* CheckingOK), which acceptance standard the attempts carry (StandardOK), *)
(* what the tool log and the approvals allow (CallsOK) and what a verdict  *)
(* rests on (EvidenceOK, CandidateOK).                                     *)
(***************************************************************************)
EXTENDS TaskRun, TLAPS, WellFoundedInduction, SequenceTheorems

FailedVerdict(a) ==
    a.status = "failed" /\ a.failure = "verification_failed" /\ a.evid.status = "failed"
Retriable == FailedVerdict(Last) /\ Count < MaxAttempts

\* The latest attempt has the status of the task, unless its repair is queued;
\* every earlier one ended in a failed verdict.
RecordOK ==
    /\ status \notin {"created", "queued", "cancelled"} => atts # <<>>
    /\ status = "created" => atts = <<>>
    /\ atts # <<>> => Last.status = status \/ (status = "queued" /\ Retriable)
    /\ \A n \in 1..Count : n < Count => FailedVerdict(atts[n])
    /\ verified /\ status = "completed" => Last.evid.status = "passed"

\* What the closure knows where it stands, and when a worker may be alive.
ClosureOK ==
    /\ clo.pc \notin {"idle", "prepare"} => atts # <<>>
    /\ clo.pc = "repair" => status = "queued" /\ Retriable
    /\ clo.pc = "prepare" /\ status = "queued" => atts = <<>> \/ Retriable
    /\ clo.pc = "prepare" /\ clo.cont => status # "queued" /\ atts # <<>>
    /\ clo.pc \in {"admit", "worker"} \/ clo.cont => Last.ckpt # 0
    /\ clo.pc \in {"reuse", "verify"} => Last.cand # 0
    /\ clo.pc = "snapshot" /\ ~clo.cont => Last.starts = 0 /\ Last.ckpt = 0
    /\ worker # "none" => clo.pc = "worker" /\ ~aborted
    /\ worker = "queued" /\ ~clo.cont => Last.starts = 0
    /\ clo.pc = "judged" => status \in {"running", "verifying"} /\ Last.evid.status # "none"
    /\ clo.pc \in {"judged", "repair"} => ~aborted
    /\ host = "down" => clo = Idle /\ ~aborted /\ worker = "none"

\* Nothing has come of the attempt yet.
Fresh(a) == a.cand = 0 /\ ~a.output

\* A worker produces one result for an attempt, and so one version.
WorkOK ==
    /\ clo.pc = "snapshot" \/ worker \in {"queued", "running"} => Fresh(Last)
    /\ clo.pc = "worker" => Last.cand = 0
    /\ atts # <<>> /\ (status = "running" \/ Interrupted) => Fresh(Last)
    /\ art + (IF atts # <<>> /\ ~Last.output THEN 1 ELSE 0) <= 2 + edits + Count
    /\ defs <= 2 + edits

\* Every attempt carries the definitions that stood before the first worker;
\* a verdict is about a candidate.
StandardOK ==
    verified =>
      /\ \A n \in 1..Count :
           /\ atts[n].ckpt \in {0, std}
           /\ atts[n].cand # 0 => atts[n].ckpt = std /\ std # 0
           /\ atts[n].evid.status \in {"failed", "passed"} => atts[n].cand # 0
      /\ std # 0 => \E n \in 1..Count : atts[n].ckpt # 0

\* A check's call is answered once, by the original or by the approved one.
Called(k) ==
    /\ k.runs <= 1 /\ k.okd # "denied"
    /\ k.orig = "none" => k = NoCall
    /\ k.orig = "denied" => (k.runs = 0 <=> k.okd = "none")
    /\ k.orig \notin {"none", "denied"} => k.okd = "none" /\ k.runs = 1

\* Only a candidate has calls; a privileged one ran on a user's approval.
CallsOK ==
    /\ \A n \in 1..MaxAttempts, c \in Check :
        /\ Called(calls[n][c])
        /\ n > Count \/ atts[n].cand = 0 => calls[n][c] = NoCall
        /\ c \in Privileged /\ calls[n][c].runs = 1
             => \E v \in Versions : <<n, c, v>> \in consent
        /\ calls[n][c].on <= art
    /\ \A n \in 1..Count : atts[n].cand <= art /\ atts[n].approved \subseteq consent
    /\ approving # None => approving \in consent
    /\ clo.approved \subseteq consent

\* The checks before clo.i have an answer for the candidate under verification.
CheckingOK ==
    clo.pc \in {"check", "running"} =>
        /\ clo.fp \in Versions /\ Last.cand = clo.fp /\ clo.i >= 1
        /\ \A c \in Check : c < clo.i => CheckState(c) \in {"pass", "fail"}
        /\ clo.pc = "running" => clo.i \in Check /\ CheckState(clo.i) = "open"

Passes(k) == "pass" \in {k.orig, k.okd}

\* Passed evidence rests on a passing call for each check, made on the candidate.
EvidenceOK ==
    \A n \in 1..Count : atts[n].evid.status = "passed" =>
        /\ atts[n].cand = atts[n].evid.art /\ atts[n].cand # 0
        /\ \A c \in Check : Passes(calls[n][c]) /\ (torn \/ calls[n][c].on = atts[n].cand)

\* Until a refused verdict is torn, no call is older than the candidate.
Refused == clo.pc = "judged" /\ Last.evid.status = "blocked" /\ Last.evid.ask = 0
CandidateOK ==
    ~torn /\ ~Refused /\ atts # <<>> /\ status \in {"running", "verifying", "needs_approval"} =>
        \A c \in Check : calls[Count][c].runs = 1 => Last.cand <= calls[Count][c].on

IInv ==
    /\ TypeOK /\ RecordOK /\ ClosureOK /\ WorkOK /\ StandardOK /\ CallsOK
    /\ CheckingOK /\ EvidenceOK /\ CandidateOK

-----------------------------------------------------------------------------
(* What the transactions do to the attempts. *)

\* The latest attempt becomes a.
Wrote(a) ==
    /\ atts # <<>> /\ atts' \in Seq(Attempt) /\ atts' # <<>>
    /\ Count' = Count /\ Last' = a
    /\ \A n \in 1..Count : n < Count => atts'[n] = atts[n]

\* A new attempt follows.
Added ==
    /\ atts' \in Seq(Attempt) /\ atts' # <<>>
    /\ Count' = Count + 1 /\ Last' = NewAttempt
    /\ \A n \in 1..Count : atts'[n] = atts[n]

LEMMA LatestTyped ==
    ASSUME TypeOK, atts # <<>>
    PROVE  Count \in 1..MaxAttempts /\ Last \in Attempt /\ Same = Last
  BY AttemptAssumption DEF TypeOK, Count, Last, Same

LEMMA NewTyped == NewAttempt \in Attempt
  BY DEF NewAttempt, Attempt, Statuses, Outcomes, Failures, Fingerprints, Evidence,
       NoEvidence

LEMMA PutWrites ==
    ASSUME TypeOK, atts # <<>>, NEW a \in Attempt, atts' = Put(a)
    PROVE  Wrote(a)
<1>1. atts' = [atts EXCEPT ![Count] = a] /\ Count \in 1..Len(atts)
  BY DEF Put, Count, TypeOK
<1>2. atts' \in Seq(Attempt) /\ Len(atts') = Len(atts)
  BY <1>1 DEF TypeOK
<1>3. atts' # <<>> /\ Count' = Count
  BY <1>1, <1>2 DEF Count
<1>4. Last' = a
  BY <1>1, <1>2 DEF Count, Last
<1>5. \A n \in 1..Count : n < Count => atts'[n] = atts[n]
  BY <1>1 DEF Count, TypeOK
<1> QED BY <1>2, <1>3, <1>4, <1>5 DEF Wrote

LEMMA CreateAdds ==
    ASSUME TypeOK, createAttempt
    PROVE  Added /\ UNCHANGED <<verified, status, event>>
<1>1. atts' = Append(atts, NewAttempt)
  BY DEF createAttempt
<1> QED BY <1>1, NewTyped DEF Added, Count, Last, TypeOK, createAttempt

\* The latest attempt moves to the status s with the failure f.
Moves(a, s, f) ==
    /\ ~isTerminal(status) /\ status' = s /\ event' = "other" /\ verified' = verified
    /\ \/ atts = <<>> /\ atts' = <<>>
       \/ atts # <<>> /\ Wrote([a EXCEPT !.status = s, !.failure = f])

LEMMA TransitionMoves ==
    ASSUME TypeOK, NEW a \in Attempt, NEW s \in Statuses, NEW f \in Failures,
           transition(s, a, f)
    PROVE  Moves(a, s, f) /\ [a EXCEPT !.status = s, !.failure = f] \in Attempt
<1>1. [a EXCEPT !.status = s, !.failure = f] \in Attempt
  BY DEF Attempt
<1>2. CASE atts = <<>>
  BY <1>1, <1>2 DEF transition, Moves
<1>3. CASE atts # <<>>
  BY <1>1, <1>3, PutWrites DEF transition, Moves
<1> QED BY <1>1, <1>2, <1>3

-----------------------------------------------------------------------------
(* Steps that leave the work of every attempt as it is: what was proved of *)
(* checkpoints, candidates, calls and evidence stays true.                 *)

\* The candidate and the verdict of an attempt stay, or the verdict is cancelled.
SameWork(n) ==
    /\ atts'[n].cand = atts[n].cand /\ atts'[n].evid.art = atts[n].evid.art
    /\ atts'[n].evid.status = atts[n].evid.status \/ atts'[n].evid.status = "cancelled"
    /\ atts'[n].approved \subseteq consent'

Calm ==
    /\ Count' = Count /\ \A n \in 1..Count : SameWork(n)
    /\ calls' = calls
    /\ consent \subseteq consent' /\ art <= art' /\ (torn => torn')
    /\ approving' # None => approving' \in consent'
    /\ clo'.approved \subseteq consent'

\* A stamp of the record names a version of the workspace, or none.
LEMMA FingerprintsNat == Fingerprints \subseteq Nat /\ Versions \subseteq Nat \ {0}
  BY AttemptAssumption, BoundsAssumption DEF Versions, Fingerprints, Unavailable

LEMMA CalmKeeps ==
    ASSUME IInv, TypeOK', Calm
    PROVE  CallsOK' /\ EvidenceOK'
<1> USE DEF IInv
<1>1. EvidenceOK'
  BY DEF EvidenceOK, Calm, SameWork
<1>2. ASSUME NEW n \in 1..Count' PROVE
            atts'[n].cand <= art' /\ atts'[n].approved \subseteq consent'
  <2>1. atts[n] \in Attempt /\ atts[n].cand <= art
    BY DEF TypeOK, CallsOK, Calm, Count
  <2>2. atts[n].cand \in Fingerprints /\ art \in Versions /\ art' \in Versions
    BY <2>1 DEF TypeOK, Attempt
  <2>3. atts[n].cand \in Nat /\ art \in Nat /\ art' \in Nat
    BY <2>2, FingerprintsNat
  <2> QED BY <2>1, <2>3 DEF Calm, SameWork
<1>3. ASSUME NEW n \in 1..MaxAttempts, NEW c \in Check PROVE
        /\ Called(calls'[n][c])
        /\ n > Count' \/ atts'[n].cand = 0 => calls'[n][c] = NoCall
        /\ c \in Privileged /\ calls'[n][c].runs = 1
             => \E v \in Versions : <<n, c, v>> \in consent'
        /\ calls'[n][c].on <= art'
  <2>1. calls'[n][c] = calls[n][c] /\ calls[n][c].on \in {0} \cup Versions
          /\ calls[n][c].on <= art
    BY DEF TypeOK, CallsOK, Call, Calm
  <2>2. calls[n][c].on \in Nat /\ art \in Nat /\ art' \in Nat
    <3>1. \A x \in {0} \cup Versions : x \in Nat
      BY FingerprintsNat
    <3>2. art \in Versions /\ art' \in Versions
      BY DEF TypeOK
    <3> QED BY <2>1, <3>1, <3>2
  <2>3. n > Count' \/ atts'[n].cand = 0 => n > Count \/ atts[n].cand = 0
    BY DEF Calm, SameWork, TypeOK, Count
  <2> QED BY <2>1, <2>2, <2>3 DEF CallsOK, Calm
<1>4. CallsOK'
  BY <1>2, <1>3 DEF CallsOK, Calm
<1> QED BY <1>1, <1>4

SameAttempt(n) == atts'[n].ckpt = atts[n].ckpt /\ SameWork(n)

Mild ==
    /\ Count' = Count /\ \A n \in 1..Count : SameAttempt(n)
    /\ UNCHANGED <<verified, calls, std>>
    /\ consent \subseteq consent' /\ art <= art' /\ (torn => torn')
    /\ approving' # None => approving' \in consent'
    /\ clo'.approved \subseteq consent'

LEMMA MildKeeps ==
    ASSUME IInv, TypeOK', Mild
    PROVE  StandardOK' /\ CallsOK' /\ EvidenceOK'
<1>1. StandardOK'
  BY DEF IInv, StandardOK, Mild, SameAttempt, SameWork
<1>2. Calm
  BY DEF Mild, SameAttempt, Calm
<1> QED BY <1>1, <1>2, CalmKeeps

\* An attempt that differs only in its status, its failure and a cancelled verdict.
Tame(a) ==
    /\ a.ckpt = Last.ckpt /\ a.cand = Last.cand /\ a.output = Last.output
    /\ a.starts = Last.starts /\ a.approved = Last.approved
    /\ a.evid.art = Last.evid.art /\ a.evid.ask = Last.evid.ask
    /\ a.evid.status \in {Last.evid.status, "cancelled"}

LEMMA TameWrites ==
    ASSUME IInv, NEW a \in Attempt, Wrote(a), Tame(a), consent \subseteq consent'
    PROVE  Count' = Count /\ \A n \in 1..Count : SameAttempt(n)
<1>1. ASSUME NEW n \in 1..Count, n < Count PROVE SameAttempt(n)
  BY <1>1 DEF IInv, CallsOK, Wrote, SameAttempt, SameWork
<1>2. atts'[Count] = a /\ atts[Count] = Last /\ Count \in 1..Count
  BY LatestTyped DEF Wrote, Last, IInv
<1>3. SameAttempt(Count)
  BY <1>2 DEF IInv, CallsOK, Tame, SameAttempt, SameWork
<1> QED BY <1>1, <1>3, LatestTyped DEF Wrote, IInv

\* What a step that settles or returns leaves alone.
Rests ==
    /\ UNCHANGED <<calls, art, defs, std, consent, edits>>
    /\ approving' \in {approving, None} /\ aborted' \in BOOLEAN /\ worker' = "none"
    /\ crashes' \in 0..MaxCrashes /\ faults' \in 0..MaxFaults

LEMMA IdleTyped == Idle \in Closure
  BY CheckAssumption DEF Idle, Closure

\* The task gets an outcome or waits for a permission, and the closure ends or
\* is about to notice it.
Settles(a, s, f) ==
    /\ a \in Attempt /\ f \in Failures /\ s \in Outcomes \cup {"needs_approval"}
    /\ Moves(a, s, f)
    /\ IF atts = <<>> THEN s = "cancelled" ELSE Tame(a)
    /\ verified /\ s = "completed" => atts # <<>> /\ a.evid.status = "passed"
    /\ s = "blocked" /\ f = "worker_interrupted" => Fresh(Last)
    /\ s = "needs_approval" => status \in {"running", "verifying"} /\ ~Refused
    /\ clo' = Idle \/ (clo' = clo /\ Turn)
    /\ host' \in {"up", "closing"} /\ torn' = torn
    /\ Rests

LEMMA SettlesTyped ==
    ASSUME TypeOK, NEW a, NEW s, NEW f, Settles(a, s, f)
    PROVE  /\ TypeOK' /\ Count' = Count /\ status' = s
           /\ atts = <<>> => atts' = <<>>
           /\ atts # <<>> => /\ Wrote([a EXCEPT !.status = s, !.failure = f]) /\ Tame(a)
                             /\ [a EXCEPT !.status = s, !.failure = f] \in Attempt
<1>1. a \in Attempt /\ s \in Statuses /\ f \in Failures /\ Moves(a, s, f)
  BY DEF Settles, Statuses, Outcomes
<1>2. [a EXCEPT !.status = s, !.failure = f] \in Attempt
  BY <1>1 DEF Attempt
<1>3. /\ Count' = Count /\ status' = s
      /\ atts = <<>> => atts' = <<>>
      /\ atts # <<>> => Wrote([a EXCEPT !.status = s, !.failure = f]) /\ Tame(a)
  BY <1>1 DEF Moves, Wrote, Count, Settles
<1>4. atts' \in Seq(Attempt) /\ Count' <= MaxAttempts
  BY <1>3 DEF TypeOK, Wrote, Count
<1>5. clo' \in Closure
  BY IdleTyped DEF Settles, TypeOK
<1>6. TypeOK'
  BY <1>1, <1>4, <1>5 DEF TypeOK, Settles, Rests, Moves
<1> QED BY <1>2, <1>3, <1>6

LEMMA SettleKeeps ==
    ASSUME IInv, NEW a, NEW s, NEW f, Settles(a, s, f)
    PROVE  IInv'
<1> DEFINE b == [a EXCEPT !.status = s, !.failure = f]
<1> USE DEF IInv
<1>1. /\ TypeOK' /\ Count' = Count /\ status' = s /\ s \in Outcomes \cup {"needs_approval"}
      /\ atts = <<>> => atts' = <<>>
      /\ atts # <<>> => Wrote(b) /\ Tame(a) /\ b \in Attempt
  BY SettlesTyped DEF Settles
<1>2. atts # <<>> => /\ b.status = s /\ b.failure = f
                     /\ b.ckpt = Last.ckpt /\ b.cand = Last.cand
                     /\ b.output = Last.output /\ b.starts = Last.starts /\ b.evid = a.evid
                     /\ b.approved = Last.approved /\ Tame(b)
  BY DEF Settles, Tame, Attempt
<1>3. \/ atts = <<>> /\ atts' = <<>> /\ s = "cancelled"
      \/ /\ atts # <<>> /\ atts' # <<>> /\ Count' = Count /\ Last' = b
         /\ Last.cand = b.cand /\ Last.ckpt = b.ckpt
  BY <1>1, <1>2 DEF Settles, Wrote
<1>4. RecordOK'
  <2>1. \A n \in 1..Count : n < Count => atts'[n] = atts[n]
    BY <1>1 DEF Wrote, Count, TypeOK
  <2> QED BY <1>1, <1>2, <1>3, <2>1 DEF RecordOK, Settles, Moves, Outcomes
<1>5. ClosureOK'
  <2>1. host' # "down" /\ worker' = "none"
    BY DEF Settles, Rests
  <2>2. CASE clo' = Idle
    BY <2>1, <2>2 DEF ClosureOK, Idle
  <2>3. CASE clo' = clo /\ Turn /\ atts # <<>>
    BY <1>1, <1>2, <1>3, <2>1, <2>3 DEF ClosureOK, Turn, Outcomes
  <2>4. CASE clo' = clo /\ Turn /\ atts = <<>>
    <3>1. Last' = Last
      BY <1>3, <2>4 DEF Last, Count
    <3> QED BY <1>1, <1>3, <2>1, <2>4, <3>1 DEF ClosureOK, Turn
  <2> QED BY <2>2, <2>3, <2>4 DEF Settles
<1>6. WorkOK'
  <2>1. worker' = "none" /\ UNCHANGED <<art, defs, edits>>
    BY DEF Settles, Rests
  <2>2. CASE atts = <<>>
    BY <1>1, <1>3, <2>1, <2>2 DEF WorkOK, ClosureOK, Interrupted, Settles, Idle
  <2>3. CASE atts # <<>>
    <3>1. Interrupted' => Fresh(Last')
      BY <1>1, <1>2, <1>3, <2>3 DEF Interrupted, Fresh, Settles
    <3>2. clo'.pc \in {"snapshot", "worker"} => clo' = clo
      BY DEF Settles, Idle
    <3> QED BY <1>1, <1>2, <1>3, <2>1, <2>3, <3>1, <3>2 DEF WorkOK, Fresh, Outcomes
  <2> QED BY <2>2, <2>3
<1>7. CheckingOK'
  <2>1. CASE clo' = Idle
    BY <2>1 DEF CheckingOK, Idle
  <2>2. CASE clo' = clo /\ atts # <<>>
    BY <1>1, <1>2, <1>3, <2>2
       DEF CheckingOK, CheckState, CallOf, Approved, Settles, Rests
  <2>3. CASE clo' = clo /\ atts = <<>>
    BY <2>3 DEF ClosureOK, CheckingOK
  <2> QED BY <2>1, <2>2, <2>3 DEF Settles
<1>8. Mild
  <2>1. \A n \in 1..Count : SameAttempt(n)
    BY <1>1, <1>2, TameWrites DEF Settles, Rests, Count
  <2> QED BY <1>1, <2>1 DEF Mild, CallsOK, Settles, Rests, Moves, Idle, TypeOK, Versions
<1>9. CandidateOK'
  BY <1>1, <1>2, <1>3 DEF CandidateOK, Settles, Rests, Outcomes
<1> QED BY <1>1, <1>4, <1>5, <1>6, <1>7, <1>8, <1>9, MildKeeps

\* The closure ends, or is about to notice an abort, and the record stays.
Returns ==
    /\ UNCHANGED record /\ Rests
    /\ clo' = Idle \/ (clo' = clo /\ Turn /\ host' # "down")
    /\ torn => torn'
    /\ torn' \in BOOLEAN /\ (Refused => torn')
    /\ IF host' = "down" THEN ~aborted' ELSE host' \in {"up", "closing"}

LEMMA ReturnKeeps == ASSUME IInv, Returns PROVE IInv'
<1> USE DEF IInv
<1>1. TypeOK'
  BY IdleTyped DEF TypeOK, Returns, Rests, record, Count
<1>2. Count' = Count /\ Last' = Last /\ Interrupted' = Interrupted
  BY DEF Count, Last, Interrupted, Returns, record
<1>3. RecordOK'
  BY <1>2 DEF RecordOK, Retriable, Returns, record
<1>4. ClosureOK'
  <2>1. CASE clo' = Idle
    BY <1>2, <2>1 DEF ClosureOK, Returns, Rests, Idle
  <2>2. CASE clo' = clo /\ Turn /\ host' # "down"
    BY <1>2, <2>2 DEF ClosureOK, Returns, Rests, Turn, record, Retriable
  <2> QED BY <2>1, <2>2 DEF Returns
<1>5. WorkOK' /\ CheckingOK'
  <2>1. CASE clo' = Idle
    BY <1>2, <2>1 DEF WorkOK, CheckingOK, Returns, Rests, Idle, record
  <2>2. CASE clo' = clo
    BY <1>2, <2>2
       DEF WorkOK, CheckingOK, Returns, Rests, CheckState, CallOf, Approved, record
  <2> QED BY <2>1, <2>2 DEF Returns
<1>6. Mild
  BY <1>2
     DEF Mild, SameAttempt, SameWork, CallsOK, Returns, Rests, Idle, record, TypeOK,
       Versions
<1>7. CandidateOK'
  BY <1>2 DEF CandidateOK, Refused, Returns, Rests, record
<1> QED BY <1>1, <1>3, <1>4, <1>5, <1>6, <1>7, MildKeeps

-----------------------------------------------------------------------------
(* Each action keeps the invariant.                                        *)

LEMMA RecordStays ==
    ASSUME UNCHANGED record
    PROVE  Count' = Count /\ Last' = Last /\ Interrupted' = Interrupted
  BY DEF Count, Last, Interrupted, record

LEMMA FailuresTyped ==
    /\ "unsafe_recovery" \in Failures /\ "other" \in Failures /\ "none" \in Failures
    /\ "worker_interrupted" \in Failures /\ "verification_failed" \in Failures
    /\ "verification_permission_required" \in Failures
         /\ "verification_unavailable" \in Failures
  BY DEF Failures

\* The latest attempt is settled as it is.
LEMMA SettlesLast ==
    ASSUME IInv, NEW s \in Outcomes \cup {"needs_approval"}, NEW f \in Failures,
           transition(s, Last, f),
           atts # <<>>, Rests, host' \in {"up", "closing"}, torn' = torn,
           clo' = Idle \/ (clo' = clo /\ Turn),
           verified /\ s = "completed" => Last.evid.status = "passed",
           s = "blocked" /\ f = "worker_interrupted" => Fresh(Last),
           s = "needs_approval" => status \in {"running", "verifying"} /\ ~Refused
    PROVE  IInv'
<1>1. Last \in Attempt /\ s \in Statuses
  BY LatestTyped DEF IInv, Statuses
<1>2. Moves(Last, s, f)
  BY <1>1, TransitionMoves DEF IInv
<1>3. Settles(Last, s, f)
  BY <1>1, <1>2 DEF Settles, Tame
<1> QED BY <1>3, SettleKeeps

LEMMA StartKeeps == ASSUME IInv, Start PROVE IInv'
<1> USE DEF IInv
<1>1. /\ host = "up" /\ clo.pc \in {"idle", "admit"} /\ worker = "none" /\ Turn
      /\ UNCHANGED <<calls, host, worker, approving, world, ghosts, bounds>>
  BY DEF Start, dispatchTaskRun, Live, Promised, ClosureOK, TypeOK
<1>2. CASE /\ status = "running" \/ (status = "queued" /\ atts # <<>>)
           /\ transition("blocked", Last, "unsafe_recovery")
           /\ UNCHANGED <<clo, aborted>>
  <2>1. Rests /\ atts # <<>>
    BY <1>1, <1>2 DEF Rests, RecordOK, TypeOK, world, ghosts, bounds
  <2> QED BY <1>1, <1>2, <2>1, SettlesLast, FailuresTyped DEF Outcomes, ghosts
<1>3. CASE /\ \/ status = "created" \/ status = "verifying"
              \/ status = "queued" /\ (atts = <<>> \/ hasSafeQueuedTaskContinuation)
           /\ status' = IF status = "created" THEN "queued" ELSE status
           /\ UNCHANGED <<verified, atts, event>> /\ Launch(FALSE)
  <2>1. /\ Count' = Count /\ Last' = Last
        /\ clo' = [Idle EXCEPT !.pc = "prepare", !.cont = FALSE] /\ aborted' = FALSE
    BY <1>3 DEF Count, Last, Launch
  <2>2. clo' \in Closure /\ clo'.pc = "prepare" /\ ~clo'.cont /\ clo'.approved = {}
    BY <2>1, IdleTyped DEF Closure, Idle
  <2>3. TypeOK'
    BY <1>1, <1>3, <2>1, <2>2 DEF TypeOK, Statuses, world, ghosts, bounds
  <2>4. RecordOK' /\ status # "running" /\ status' # "running"
          /\ (status' # status => atts = <<>>)
    BY <1>3, <2>1 DEF RecordOK, Retriable
  <2>5. ClosureOK'
    BY <1>1, <1>3, <2>1, <2>2
       DEF ClosureOK, RecordOK, Retriable, hasSafeQueuedTaskContinuation
  <2>6. WorkOK' /\ CheckingOK'
    BY <1>1, <1>3, <2>1, <2>2, <2>4 DEF WorkOK, CheckingOK, Interrupted, world
  <2>7. Mild
    BY <1>1, <1>3, <2>1, <2>2
       DEF Mild, SameAttempt, SameWork, CallsOK, TypeOK, Versions, world, ghosts
  <2>8. CandidateOK'
    BY <1>1, <1>3, <2>1, <2>2, <2>4 DEF CandidateOK, Refused, ClosureOK, ghosts
  <2> QED BY <2>3, <2>4, <2>5, <2>6, <2>7, <2>8, MildKeeps
<1> QED BY <1>2, <1>3 DEF Start, dispatchTaskRun

\* A new attempt, of a task without one or after a failed verdict.
LEMMA AddKeeps ==
    ASSUME IInv, createAttempt, status = "queued", atts = <<>> \/ Retriable, worker = "none",
           clo' \in Closure, clo'.pc = "snapshot", ~clo'.cont, clo'.approved \subseteq consent,
           UNCHANGED <<calls, host, aborted, worker, approving, world, ghosts, bounds>>,
           host # "down"
    PROVE  IInv'
<1> USE DEF IInv
<1>1. /\ Added /\ UNCHANGED <<verified, status, event>>
      /\ Count \in Nat /\ Count' \in 1..MaxAttempts /\ Count' = Count + 1
      /\ Last' = NewAttempt /\ atts' \in Seq(Attempt)
  <2>1. Added /\ UNCHANGED <<verified, status, event>>
    BY CreateAdds
  <2>2. Count \in Nat /\ Count < MaxAttempts
    BY AttemptAssumption DEF Count, TypeOK, Retriable
  <2> QED BY <2>1, <2>2, AttemptAssumption DEF Added
<1>2. TypeOK'
  BY <1>1 DEF TypeOK, Added, world, ghosts, bounds
<1>3. ASSUME NEW n \in 1..Count'
      PROVE  \/ n = Count' /\ atts'[n] = NewAttempt
             \/ n \in 1..Count /\ atts'[n] = atts[n]
  <2>1. CASE n = Count'
    BY <1>1, <2>1 DEF Last
  <2>2. CASE n # Count'
    <3>1. n \in 1..Count
      BY <1>1, <2>2
    <3> QED BY <1>1, <3>1 DEF Added
  <2> QED BY <2>1, <2>2
<1>4. RecordOK'
  <2>1. ASSUME NEW n \in 1..Count', n < Count' PROVE FailedVerdict(atts'[n])
    <3>1. n \in 1..Count /\ atts'[n] = atts[n] /\ atts # <<>>
      BY <1>1, <1>3, <2>1 DEF Count
    <3>2. CASE n < Count
      BY <3>1, <3>2 DEF RecordOK
    <3>3. CASE n = Count
      BY <3>1, <3>3 DEF Retriable, Last
    <3> QED BY <1>1, <3>1, <3>2, <3>3
  <2> QED BY <1>1, <2>1 DEF RecordOK, Added, NewAttempt
<1>5. ClosureOK'
  BY <1>1 DEF ClosureOK, Added, NewAttempt
<1>6. WorkOK' /\ CheckingOK'
  BY <1>1
     DEF WorkOK, CheckingOK, Added, NewAttempt, Fresh, Interrupted, world, TypeOK,
       Versions
<1>7. StandardOK'
  BY <1>1, <1>3 DEF StandardOK, NewAttempt, NoEvidence, ghosts
<1>8. EvidenceOK'
  BY <1>1, <1>3 DEF EvidenceOK, NewAttempt, NoEvidence, ghosts
<1>9. CallsOK'
  <2>1. ASSUME NEW n \in 1..Count'
        PROVE  atts'[n].cand <= art' /\ atts'[n].approved \subseteq consent'
    <3>1. art' = art /\ consent' = consent /\ art \in Nat
      BY <1>1, FingerprintsNat DEF world, ghosts, TypeOK
    <3>2. CASE n = Count' /\ atts'[n] = NewAttempt
      BY <3>1, <3>2 DEF NewAttempt
    <3>3. CASE n \in 1..Count /\ atts'[n] = atts[n]
      BY <3>1, <3>3 DEF CallsOK
    <3> QED BY <1>3, <3>2, <3>3
  <2>2. ASSUME NEW n \in 1..MaxAttempts, NEW c \in Check, n > Count' \/ atts'[n].cand = 0
        PROVE  calls'[n][c] = NoCall
    <3>1. n > Count \/ atts[n].cand = 0
      BY <1>1, <1>3, <2>2 DEF Added
    <3> QED BY <3>1 DEF CallsOK
  <2> QED BY <1>1, <2>1, <2>2 DEF CallsOK, world, ghosts
<1>10. CandidateOK'
  BY <1>1 DEF CandidateOK
<1> QED BY <1>2, <1>4, <1>5, <1>6, <1>7, <1>8, <1>9, <1>10

LEMMA RepairKeeps == ASSUME IInv, Repair PROVE IInv'
<1>1. [Idle EXCEPT !.pc = "snapshot"] \in Closure
  BY IdleTyped DEF Closure
<1>2. status = "queued" /\ Retriable /\ worker = "none" /\ host # "down"
  BY DEF IInv, TypeOK, ClosureOK, Repair, Idle
<1> QED BY <1>1, <1>2, AddKeeps DEF Repair, Idle

LEMMA PrepareKeeps == ASSUME IInv, Prepare PROVE IInv'
<1> USE DEF IInv
<1>1. /\ clo.pc = "prepare" /\ ~aborted /\ Turn /\ worker = "none" /\ host \in {"up", "closing"}
      /\ UNCHANGED <<calls, host, worker, approving, world, ghosts, bounds>>
  BY DEF Prepare, At, ClosureOK, TypeOK, Idle
<1>2. CASE status = "verifying" /\ Last.cand = 0 /\ blockUnsafeRecovery
  <2>1. Rests /\ atts # <<>>
    BY <1>1, <1>2
       DEF Rests, RecordOK, TypeOK, world, ghosts, bounds, blockUnsafeRecovery, Return
  <2> QED BY <1>1, <1>2, <2>1, SettlesLast, FailuresTyped
          DEF Outcomes, ghosts, blockUnsafeRecovery, Return
<1>3. CASE status = "queued" /\ createAttempt /\ Goto("snapshot") /\ Stay
  <2>1. clo' \in Closure /\ clo'.pc = "snapshot" /\ ~clo'.cont /\ clo'.approved = clo.approved
    BY <1>1, <1>3 DEF Goto, TypeOK, Closure, ClosureOK
  <2>2. atts = <<>> \/ Retriable
    BY <1>1, <1>3 DEF ClosureOK
  <2> QED BY <1>1, <1>3, <2>1, <2>2, AddKeeps DEF CallsOK, Stay
<1>4. CASE /\ UNCHANGED record /\ Stay
           /\ \/ status = "verifying" /\ Last.cand # 0
                   /\ clo' = [clo EXCEPT !.pc = "reuse", !.approved = Last.approved]
              \/ status = "running" /\ clo.cont /\ Goto("snapshot")
  <2>1. Count' = Count /\ Last' = Last /\ Interrupted' = Interrupted /\ atts # <<>>
    BY <1>4, RecordStays DEF RecordOK
  <2>2. Last \in Attempt /\ Last.approved \subseteq consent
    BY <2>1, LatestTyped DEF CallsOK, Last
  <2>3. /\ clo' \in Closure /\ clo'.approved \subseteq consent
        /\ \/ clo'.pc = "reuse" /\ status = "verifying" /\ Last.cand # 0
           \/ clo'.pc = "snapshot" /\ clo.cont /\ status = "running"
        /\ clo'.cont = clo.cont
    BY <1>4, <2>2 DEF TypeOK, Closure, Goto, CallsOK, Attempt
  <2>4. TypeOK'
    BY <1>1, <1>4, <2>1, <2>3 DEF TypeOK, record, Stay, world, ghosts, bounds
  <2>5. RecordOK'
    BY <1>4, <2>1 DEF RecordOK, Retriable, record
  <2>6. ClosureOK'
    BY <1>1, <1>4, <2>1, <2>3 DEF ClosureOK, record, Stay
  <2>7. WorkOK' /\ CheckingOK'
    BY <1>1, <1>4, <2>1, <2>3 DEF WorkOK, CheckingOK, record, world
  <2>8. Mild
    BY <1>1, <1>4, <2>1, <2>3
       DEF Mild, SameAttempt, SameWork, CallsOK, TypeOK, Versions, record, world, ghosts
  <2>9. CandidateOK'
    BY <1>1, <1>4, <2>1, <2>3 DEF CandidateOK, Refused, record, ghosts
  <2> QED BY <2>4, <2>5, <2>6, <2>7, <2>8, <2>9, MildKeeps
<1> QED BY <1>2, <1>3, <1>4 DEF Prepare


LEMMA SmallestMember ==
    ASSUME NEW T, T \subseteq Nat, T # {}
    PROVE  \E x \in T : \A y \in T : x <= y
<1>1. PICK x \in T : \A y \in T : <<y, x>> \notin OpToRel(<, Nat)
  BY NatLessThanWellFounded, WFMin
<1>2. ASSUME NEW y \in T PROVE x <= y
  <2>1. ~(y < x)
    BY <1>1 DEF OpToRel
  <2> QED BY <2>1
<1> QED BY <1>1, <1>2

\* The acceptance standard is that of some candidate, when there is one.
LEMMA StandardPersists ==
    ASSUME TypeOK, Candidates # {}
    PROVE  \E n \in Candidates : persistedDefinitionFingerprint = atts[n].ckpt
<1>1. Candidates \subseteq Nat
  BY DEF Candidates, Count, TypeOK
<1>2. \E n \in Candidates : \A k \in Candidates : n <= k
  BY <1>1, SmallestMember
<1> QED BY <1>2 DEF persistedDefinitionFingerprint

\* The definitions that a worker's attempt is stamped with.
StampOf == CASE clo.cont -> Last.ckpt
             [] verified /\ ~clo.cont -> persistedDefinitionFingerprint
             [] OTHER -> Unavailable

LEMMA StampIsStandard ==
    ASSUME IInv, clo.pc = "snapshot", atts # <<>>
    PROVE  /\ StampOf \in Fingerprints \ {0}
           /\ verified => IF std = 0 THEN StampOf = defs /\ Count = 1 ELSE StampOf = std
<1> USE DEF IInv
<1>1. Last \in Attempt /\ Count \in 1..MaxAttempts
  BY LatestTyped
<1>2. defs \in Fingerprints \ {0} /\ Unavailable \in Fingerprints \ {0}
  BY AttemptAssumption, BoundsAssumption DEF TypeOK, Fingerprints, Versions, Unavailable
<1>3. CASE clo.cont
  BY <1>1, <1>3 DEF StampOf, ClosureOK, StandardOK, Attempt, Last
<1>4. CASE ~clo.cont /\ verified
  <2>1. StampOf = persistedDefinitionFingerprint
    BY <1>4 DEF StampOf
  <2>2. CASE Candidates # {}
    <3>1. PICK n \in Candidates : StampOf = atts[n].ckpt
      BY <2>1, <2>2, StandardPersists
    <3>2. n \in 1..Count /\ atts[n].cand # 0 /\ atts[n] \in Attempt
      BY <3>1 DEF Candidates, TypeOK, Count
    <3> QED BY <1>4, <3>1, <3>2 DEF StandardOK, Attempt
  <2>3. CASE Candidates = {}
    <3>1. StampOf = defs
      BY <2>1, <2>3 DEF persistedDefinitionFingerprint
    <3>2. \A n \in 1..Count : atts[n].cand = 0
      BY <2>3 DEF Candidates
    <3>3. Count = 1
      <4>1. ASSUME 1 < Count PROVE FALSE
        BY <1>1, <1>4, <3>2, <4>1 DEF RecordOK, FailedVerdict, StandardOK
      <4> QED BY <1>1, <4>1
    <3>4. std = 0
      BY <1>4, <3>3 DEF StandardOK, ClosureOK, Last
    <3> QED BY <1>2, <3>1, <3>3, <3>4
  <2> QED BY <2>2, <2>3
<1>5. CASE ~clo.cont /\ ~verified
  BY <1>2, <1>5 DEF StampOf
<1> QED BY <1>3, <1>4, <1>5

LEMMA SubmitKeeps == ASSUME IInv, Submit PROVE IInv'
<1> USE DEF IInv
<1>1. /\ clo.pc = "snapshot" /\ ~aborted /\ Turn /\ worker = "none"
           /\ host \in {"up", "closing"}
      /\ atts # <<>> /\ Fresh(Last)
      /\ UNCHANGED <<calls, host, approving, world, consent, torn, bounds>>
  BY DEF Submit, At, ClosureOK, WorkOK, TypeOK, Idle
<1>2. CASE blockUnsafeRecovery /\ UNCHANGED <<worker, std>>
  <2>1. Rests
    BY <1>1, <1>2 DEF Rests, TypeOK, world, bounds, blockUnsafeRecovery, Return
  <2> QED BY <1>1, <1>2, <2>1, SettlesLast, FailuresTyped
             DEF Outcomes, blockUnsafeRecovery, Return
<1>3. CASE /\ transition("running", [Last EXCEPT !.ckpt = StampOf], "none")
           /\ Goto("worker") /\ Stay /\ worker' = "queued"
           /\ std' = IF std = 0 THEN StampOf ELSE std
  <2> DEFINE b == [Last EXCEPT !.ckpt = StampOf, !.status = "running", !.failure = "none"]
  <2>1. /\ StampOf \in Fingerprints \ {0}
        /\ verified => IF std = 0 THEN StampOf = defs /\ Count = 1 ELSE StampOf = std
    BY <1>1, StampIsStandard
  <2>2. Last \in Attempt /\ [Last EXCEPT !.ckpt = StampOf] \in Attempt
          /\ Count \in 1..MaxAttempts
    BY <1>1, <2>1, LatestTyped DEF Attempt
  <2>3. /\ Wrote([[Last EXCEPT !.ckpt = StampOf] EXCEPT !.status = "running", !.failure = "none"])
        /\ status' = "running" /\ event' = "other" /\ verified' = verified
    BY <1>1, <1>3, <2>2, TransitionMoves, FailuresTyped DEF Moves, Statuses
  <2>4. Wrote(b) /\ b \in Attempt
    BY <2>1, <2>2, <2>3, FailuresTyped DEF Attempt, Statuses
  <2>5. /\ b.status = "running" /\ b.failure = "none" /\ b.ckpt = StampOf /\ b.cand = Last.cand
        /\ b.output = Last.output /\ b.starts = Last.starts /\ b.evid = Last.evid
        /\ b.approved = Last.approved
    BY <2>2 DEF Attempt
  <2>6. /\ Count' = Count /\ Last' = b /\ atts' # <<>> /\ atts' \in Seq(Attempt)
        /\ atts'[Count] = b /\ atts[Count] = Last
        /\ \A n \in 1..Count : n # Count => n < Count /\ atts'[n] = atts[n]
    BY <2>2, <2>4 DEF Wrote, Last
  <2>7. clo' \in Closure /\ clo'.pc = "worker" /\ clo'.cont = clo.cont
          /\ clo'.approved = clo.approved
    BY <1>3 DEF Goto, TypeOK, Closure
  <2>8. TypeOK'
    BY <1>1, <1>3, <2>1, <2>3, <2>6, <2>7 DEF TypeOK, Statuses, Stay, world, bounds
  <2>9. RecordOK'
    BY <2>3, <2>5, <2>6 DEF RecordOK
  <2>10. ClosureOK'
    BY <1>1, <1>3, <2>1, <2>5, <2>6, <2>7 DEF ClosureOK, Stay
  <2>11. WorkOK' /\ CheckingOK'
    BY <1>1, <1>3, <2>3, <2>5, <2>6, <2>7
       DEF WorkOK, CheckingOK, Fresh, Interrupted, world
  <2>12. StandardOK'
    <3> SUFFICES ASSUME verified PROVE StandardOK'
      BY <2>3 DEF StandardOK
    <3>1. std' = StampOf /\ std' # 0
      BY <1>3, <2>1
    <3>2. ASSUME NEW n \in 1..Count PROVE
            /\ atts'[n].ckpt \in {0, std'}
            /\ atts'[n].cand # 0 => atts'[n].ckpt = std'
            /\ atts'[n].evid.status \in {"failed", "passed"} => atts'[n].cand # 0
      <4>1. CASE n = Count
        BY <1>1, <2>5, <2>6, <3>1, <4>1 DEF StandardOK, Fresh
      <4>2. CASE n # Count
        <5>1. atts'[n] = atts[n] /\ std' = std
          BY <1>3, <2>1, <2>2, <2>6, <4>2
        <5> QED BY <5>1 DEF StandardOK
      <4> QED BY <4>1, <4>2
    <3>3. atts'[Count'].ckpt # 0 /\ Count' \in 1..Count'
      BY <2>2, <2>5, <2>6, <3>1
    <3> QED BY <2>6, <3>1, <3>2, <3>3 DEF StandardOK
  <2>13. Calm
    <3>1. \A n \in 1..Count : SameWork(n)
      <4>1. ASSUME NEW n \in 1..Count PROVE SameWork(n)
        <5>1. atts[n].approved \subseteq consent /\ consent' = consent
          BY <1>1 DEF CallsOK
        <5>2. CASE n = Count
          BY <2>5, <2>6, <5>1, <5>2 DEF SameWork
        <5>3. CASE n # Count
          BY <2>6, <5>1, <5>3 DEF SameWork
        <5> QED BY <5>2, <5>3
      <4> QED BY <4>1
    <3> QED BY <1>1, <2>6, <2>7, <3>1 DEF Calm, CallsOK, TypeOK, Versions, world
  <2>14. CandidateOK'
    BY <1>1, <2>2, <2>5, <2>6 DEF CandidateOK, CallsOK, Fresh, NoCall, Calm, Last
  <2> QED BY <2>8, <2>9, <2>10, <2>11, <2>12, <2>13, <2>14, CalmKeeps
<1> QED BY <1>2, <1>3 DEF Submit, StampOf

\* What a written attempt looks like, one attempt at a time.
LEMMA WroteEach ==
    ASSUME TypeOK, NEW a, Wrote(a)
    PROVE  /\ Count' = Count /\ Last' = a /\ atts' # <<>> /\ atts' \in Seq(Attempt)
           /\ Count \in 1..MaxAttempts /\ atts'[Count] = a /\ atts[Count] = Last
           /\ \A n \in 1..Count : n # Count => n < Count /\ atts'[n] = atts[n]
  BY LatestTyped DEF Wrote, Last

LEMMA WorkerBeginsKeeps == ASSUME IInv, WorkerBegins PROVE IInv'
<1> USE DEF IInv
<1> DEFINE b == [Last EXCEPT !.began = TRUE, !.starts = IF clo.cont THEN @ ELSE @ + 1]
<1>1. /\ worker = "queued" /\ worker' = "running" /\ clo.pc = "worker" /\ ~aborted
           /\ atts # <<>>
      /\ Turn /\ host # "down"
      /\ UNCHANGED <<verified, status, event, calls, host, clo, aborted, approving,
                     world, ghosts, bounds>>
  BY DEF WorkerBegins, Live, ClosureOK
<1>2. Last \in Attempt /\ b \in Attempt
  <2>1. Last \in Attempt /\ Last.starts \in Nat
    BY <1>1, LatestTyped DEF Attempt
  <2>2. (IF clo.cont THEN Last.starts ELSE Last.starts + 1) \in Nat
    BY <2>1
  <2> QED BY <2>1, <2>2 DEF Attempt
<1>3. /\ b.status = Last.status /\ b.failure = Last.failure /\ b.ckpt = Last.ckpt
      /\ b.cand = Last.cand /\ b.output = Last.output /\ b.evid = Last.evid
      /\ b.approved = Last.approved
  BY <1>2 DEF Attempt
<1>4. Wrote(b)
  BY <1>1, <1>2, PutWrites DEF WorkerBegins
<1>5. /\ Count' = Count /\ Last' = b /\ atts' # <<>> /\ atts' \in Seq(Attempt)
      /\ Count \in 1..MaxAttempts /\ atts'[Count] = b /\ atts[Count] = Last
      /\ \A n \in 1..Count : n # Count => n < Count /\ atts'[n] = atts[n]
  BY <1>4, WroteEach
<1>6. TypeOK'
  BY <1>1, <1>5 DEF TypeOK, world, ghosts, bounds
<1>7. RecordOK'
  BY <1>1, <1>3, <1>5 DEF RecordOK, Retriable, FailedVerdict
<1>8. ClosureOK'
  BY <1>1, <1>3, <1>5 DEF ClosureOK
<1>9. WorkOK' /\ CheckingOK'
  BY <1>1, <1>3, <1>5 DEF WorkOK, CheckingOK, Fresh, Interrupted, world
<1>10. Mild
  <2>1. ASSUME NEW n \in 1..Count PROVE SameAttempt(n)
    <3>1. CASE n = Count
      BY <1>1, <1>3, <1>5, <3>1 DEF SameAttempt, SameWork, CallsOK, ghosts
    <3>2. CASE n # Count
      BY <1>1, <1>5, <3>2 DEF SameAttempt, SameWork, CallsOK, ghosts
    <3> QED BY <3>1, <3>2
  <2> QED BY <1>1, <1>5, <2>1 DEF Mild, CallsOK, TypeOK, Versions, world, ghosts
<1>11. CandidateOK'
  BY <1>1, <1>3, <1>5 DEF CandidateOK, Refused, ghosts
<1> QED BY <1>6, <1>7, <1>8, <1>9, <1>10, <1>11, MildKeeps

LEMMA WorkerCompletesKeeps == ASSUME IInv, WorkerCompletes PROVE IInv'
<1> USE DEF IInv
<1> DEFINE a == [Last EXCEPT !.output = TRUE]
           b == [a EXCEPT !.status = Projected, !.failure = "none"]
<1>1. /\ worker = "running" /\ worker' = "done" /\ clo.pc = "worker" /\ ~aborted /\ atts # <<>>
      /\ Turn /\ host # "down" /\ art' = art + 1 /\ Fresh(Last)
      /\ transition(Projected, a, "none")
      /\ UNCHANGED <<calls, host, clo, aborted, approving, defs, edits, ghosts, bounds>>
  BY DEF WorkerCompletes, Live, ClosureOK, WorkOK
<1>2. Last \in Attempt /\ a \in Attempt /\ Projected \in Statuses
  BY <1>1, LatestTyped DEF Attempt, Projected, Statuses, Outcomes
<1>3. /\ b \in Attempt /\ Wrote(b)
      /\ status' = Projected /\ event' = "other" /\ verified' = verified /\ ~isTerminal(status)
  BY <1>1, <1>2, TransitionMoves, FailuresTyped DEF Moves
<1>4. /\ b.status = Projected /\ b.failure = "none" /\ b.ckpt = Last.ckpt
      /\ b.cand = Last.cand /\ b.output /\ b.evid = Last.evid
      /\ b.approved = Last.approved
  BY <1>2 DEF Attempt
<1>5. /\ Count' = Count /\ Last' = b /\ atts' # <<>> /\ atts' \in Seq(Attempt)
      /\ Count \in 1..MaxAttempts /\ atts'[Count] = b /\ atts[Count] = Last
      /\ \A n \in 1..Count : n # Count => n < Count /\ atts'[n] = atts[n]
  BY <1>3, WroteEach
<1>6. art \in Nat /\ art >= 2 /\ edits \in 0..MaxEdits /\ art + 1 <= 2 + edits + Count
  BY <1>1, AttemptAssumption, BoundsAssumption DEF TypeOK, Versions, WorkOK, Fresh
<1>7. TypeOK'
  <2>1. art' \in Versions
    BY <1>1, <1>5, <1>6, AttemptAssumption, BoundsAssumption, SMTT(30) DEF Versions
  <2> QED BY <1>1, <1>2, <1>3, <1>5, <2>1 DEF TypeOK, ghosts, bounds
<1>8. RecordOK'
  BY <1>3, <1>4, <1>5 DEF RecordOK, Projected
<1>9. ClosureOK'
  BY <1>1, <1>3, <1>4, <1>5 DEF ClosureOK
<1>10. WorkOK' /\ CheckingOK'
  BY <1>1, <1>3, <1>4, <1>5, <1>6 DEF WorkOK, CheckingOK, Fresh, Interrupted, Projected
<1>11. Mild
  <2>1. ASSUME NEW n \in 1..Count PROVE SameAttempt(n)
    <3>1. CASE n = Count
      BY <1>1, <1>4, <1>5, <3>1 DEF SameAttempt, SameWork, CallsOK, ghosts
    <3>2. CASE n # Count
      BY <1>1, <1>5, <3>2 DEF SameAttempt, SameWork, CallsOK, ghosts
    <3> QED BY <3>1, <3>2
  <2> QED BY <1>1, <1>3, <1>5, <1>6, <2>1 DEF Mild, CallsOK, ghosts
<1>12. CandidateOK'
  BY <1>1, <1>4, <1>5 DEF CandidateOK, CallsOK, NoCall, Fresh
<1> QED BY <1>7, <1>8, <1>9, <1>10, <1>11, <1>12, MildKeeps

LEMMA WorkerFailsKeeps ==
    ASSUME IInv, NEW s \in {"failed", "incomplete"}, WorkerFails(s) PROVE IInv'
<1> USE DEF IInv
<1>1. atts # <<>> /\ host \in {"up", "closing"} /\ clo.pc # "idle"
  BY DEF WorkerFails, ClosureOK, TypeOK, Live
<1>2. Rests /\ transition(s, Last, "other") /\ clo' = Idle /\ host' = host /\ torn' = torn
  BY DEF WorkerFails, Rests, TypeOK, Return, world, ghosts, bounds
<1> QED BY <1>1, <1>2, SettlesLast, FailuresTyped DEF Outcomes

LEMMA CaptureKeeps == ASSUME IInv, Capture PROVE IInv'
<1> USE DEF IInv
<1>1. /\ clo.pc = "worker" /\ worker' = "none" /\ ~aborted /\ atts # <<>>
      /\ Turn /\ host \in {"up", "closing"} /\ Last.cand = 0 /\ Last.ckpt # 0
      /\ UNCHANGED <<calls, host, approving, world, ghosts, bounds>>
  BY DEF Capture, At, ClosureOK, WorkOK, TypeOK, Idle
<1>2. CASE UNCHANGED record /\ Return
  <2>1. Returns
    BY <1>1, <1>2 DEF Returns, Rests, Return, Refused, TypeOK, world, ghosts, bounds
  <2> QED BY <2>1, ReturnKeeps
<1>3. CASE transition("verifying", [Last EXCEPT !.cand = art], Last.failure)
           /\ Goto("verify") /\ Stay
  <2> DEFINE a == [Last EXCEPT !.cand = art]
             b == [a EXCEPT !.status = "verifying", !.failure = Last.failure]
  <2>1. Last \in Attempt /\ a \in Attempt /\ Last.failure \in Failures /\ art # 0
    <3>1. Last \in Attempt /\ Last.failure \in Failures
      BY <1>1, LatestTyped DEF Attempt
    <3>2. art \in Fingerprints /\ art # 0
      BY AttemptAssumption, BoundsAssumption DEF TypeOK, Fingerprints, Versions
    <3> QED BY <3>1, <3>2 DEF Attempt
  <2>2. b \in Attempt /\ Wrote(b) /\ status' = "verifying" /\ event' = "other"
          /\ verified' = verified
    BY <1>1, <1>3, <2>1, TransitionMoves DEF Moves, Statuses
  <2>3. /\ b.status = "verifying" /\ b.ckpt = Last.ckpt /\ b.cand = art
             /\ b.output = Last.output
        /\ b.evid = Last.evid /\ b.approved = Last.approved
    BY <2>1 DEF Attempt
  <2>4. /\ Count' = Count /\ Last' = b /\ atts' # <<>> /\ atts' \in Seq(Attempt)
        /\ Count \in 1..MaxAttempts /\ atts'[Count] = b /\ atts[Count] = Last
        /\ \A n \in 1..Count : n # Count => n < Count /\ atts'[n] = atts[n]
    BY <2>2, WroteEach
  <2>5. clo' \in Closure /\ clo'.pc = "verify" /\ clo'.cont = clo.cont
          /\ clo'.approved = clo.approved
    BY <1>3 DEF Goto, TypeOK, Closure
  <2>6. TypeOK'
    BY <1>1, <1>3, <2>2, <2>4, <2>5 DEF TypeOK, Statuses, Stay, world, ghosts, bounds
  <2>7. RecordOK'
    BY <2>2, <2>3, <2>4 DEF RecordOK
  <2>8. ClosureOK'
    BY <1>1, <1>3, <2>1, <2>2, <2>3, <2>4, <2>5 DEF ClosureOK, Stay
  <2>9. WorkOK' /\ CheckingOK'
    BY <1>1, <2>2, <2>3, <2>4, <2>5 DEF WorkOK, CheckingOK, Interrupted, world
  <2>10. StandardOK'
    <3>1. ASSUME NEW n \in 1..Count, verified PROVE
            /\ atts'[n].ckpt \in {0, std'}
            /\ atts'[n].cand # 0 => atts'[n].ckpt = std' /\ std' # 0
            /\ atts'[n].evid.status \in {"failed", "passed"} => atts'[n].cand # 0
            /\ atts[n].ckpt # 0 => atts'[n].ckpt # 0
      <4>1. CASE n = Count
        BY <1>1, <2>1, <2>3, <2>4, <3>1, <4>1, ZenonT(60) DEF StandardOK, ghosts
      <4>2. CASE n # Count
        BY <1>1, <2>4, <3>1, <4>2 DEF StandardOK, ghosts
      <4> QED BY <4>1, <4>2
    <3> QED BY <1>1, <2>2, <2>4, <3>1 DEF StandardOK, ghosts
  <2>11. \A c \in Check : calls[Count][c] = NoCall
    BY <1>1, <2>4 DEF CallsOK
  <2>12. CallsOK'
    <3>1. ASSUME NEW n \in 1..Count PROVE atts'[n].cand <= art
                   /\ atts'[n].approved \subseteq consent
      <4>1. art <= art
        BY AttemptAssumption, BoundsAssumption DEF TypeOK, Versions
      <4>2. CASE n = Count
        BY <2>3, <2>4, <4>1, <4>2 DEF CallsOK
      <4>3. CASE n # Count
        BY <2>4, <4>3 DEF CallsOK
      <4> QED BY <4>2, <4>3
    <3>2. ASSUME NEW n \in 1..MaxAttempts, NEW c \in Check, n > Count \/ atts'[n].cand = 0
          PROVE  calls[n][c] = NoCall
      <4>1. CASE n = Count
        BY <2>11, <4>1
      <4>2. CASE n # Count
        BY <2>4, <3>2, <4>2 DEF CallsOK
      <4> QED BY <4>1, <4>2
    <3> QED BY <1>1, <2>4, <2>5, <3>1, <3>2 DEF CallsOK, world, ghosts
  <2>13. EvidenceOK'
    <3>1. ASSUME NEW n \in 1..Count, atts'[n].evid.status = "passed"
          PROVE  n # Count /\ atts'[n] = atts[n]
      <4>1. CASE n = Count
        <5>1. atts[Count].evid.status = "passed" /\ Count \in 1..Count
          BY <2>3, <2>4, <3>1, <4>1
        <5>2. atts[Count].cand # 0
          BY <5>1 DEF EvidenceOK
        <5> QED BY <1>1, <2>4, <5>2
      <4> QED BY <2>4, <4>1
    <3> QED BY <1>1, <2>4, <3>1 DEF EvidenceOK, ghosts
  <2>14. CandidateOK'
    BY <1>1, <2>4, <2>11 DEF CandidateOK, NoCall
  <2> QED BY <2>6, <2>7, <2>8, <2>9, <2>10, <2>12, <2>13, <2>14
<1> QED BY <1>2, <1>3 DEF Capture

\* The closure moves on and the record stays.
LEMMA MoveKeeps ==
    ASSUME IInv, UNCHANGED <<record, calls, worker, approving, world, ghosts, bounds>>,
           host' \in {"up", "closing"}, aborted' \in BOOLEAN,
           clo' \in Closure, clo'.approved \subseteq consent, ~Refused,
           ClosureOK', WorkOK', CheckingOK'
    PROVE  IInv'
<1> USE DEF IInv
<1>1. Count' = Count /\ Last' = Last
  BY RecordStays
<1>2. TypeOK'
  BY <1>1 DEF TypeOK, record, world, ghosts, bounds
<1>3. RecordOK'
  BY <1>1 DEF RecordOK, Retriable, record
<1>4. Mild
  BY <1>1
     DEF Mild, SameAttempt, SameWork, CallsOK, TypeOK, Versions, record, world, ghosts
<1>5. CandidateOK'
  BY <1>1 DEF CandidateOK, record, ghosts
<1> QED BY <1>2, <1>3, <1>4, <1>5, MildKeeps

LEMMA ReuseKeeps == ASSUME IInv, Reuse PROVE IInv'
<1> USE DEF IInv
<1>1. /\ clo.pc = "reuse" /\ worker = "none" /\ ~aborted /\ atts # <<>>
      /\ Turn /\ host \in {"up", "closing"} /\ Last.cand # 0
      /\ UNCHANGED <<calls, host, worker, approving, world, ghosts, bounds>>
  BY DEF Reuse, At, ClosureOK, TypeOK, Idle
<1>2. CASE Last.evid.status = "passed" /\ transition("completed", Last, Last.failure) /\ Return
  <2>1. Rests /\ Last.failure \in Failures
    BY <1>1, <1>2, LatestTyped DEF Rests, TypeOK, Attempt, Return, world, ghosts, bounds
  <2> QED BY <1>1, <1>2, <2>1, SettlesLast DEF Outcomes, ghosts, Return
<1>3. CASE UNCHANGED record /\ Goto("verify") /\ Stay
  <2>1. Count' = Count /\ Last' = Last /\ Interrupted' = Interrupted
    BY <1>3, RecordStays
  <2>2. clo' \in Closure /\ clo'.pc = "verify" /\ clo'.cont = clo.cont
          /\ clo'.approved = clo.approved
    BY <1>3 DEF Goto, TypeOK, Closure
  <2>3. ClosureOK'
    BY <1>1, <1>3, <2>1, <2>2 DEF ClosureOK, record, Stay
  <2>4. WorkOK' /\ CheckingOK'
    BY <1>1, <1>3, <2>1, <2>2 DEF WorkOK, CheckingOK, record, world
  <2> QED BY <1>1, <1>3, <2>2, <2>3, <2>4, MoveKeeps DEF CallsOK, Stay, Refused, TypeOK
<1> QED BY <1>2, <1>3 DEF Reuse

-----------------------------------------------------------------------------
(* Verification. *)

LEMMA VersionsNat == TypeOK => art \in Nat /\ Versions \subseteq Nat \ {0}
        /\ Versions \subseteq Fingerprints
  BY AttemptAssumption, BoundsAssumption DEF TypeOK, Versions, Fingerprints

\* Evidence is persisted: passed only with a passing call for each check.
LEMMA ConcludeKeeps ==
    ASSUME IInv, NEW s \in Verdicts \ {"cancelled"}, NEW v \in Fingerprints \ {0},
           NEW ask \in {0} \cup Check, Conclude(s, v, ask), clo.pc # "judged",
           Last.cand # 0, worker = "none", ~aborted, clo.pc \in {"verify", "check"},
           UNCHANGED <<calls, host, worker, approving, world, ghosts, bounds>>,
           v <= art,
           (s = "blocked" /\ ask = 0) \/ v = Last.cand,
           s = "passed" => \A c \in Check : Passes(calls[Count][c]) /\ v = art
    PROVE  IInv'
<1> USE DEF IInv
<1>1. atts # <<>> /\ host \in {"up", "closing"}
  BY DEF ClosureOK, TypeOK, Idle
<1>2. CASE UNCHANGED record /\ Return
  <2>1. Returns
    BY <1>1, <1>2 DEF Returns, Rests, Return, Refused, TypeOK, world, ghosts, bounds
  <2> QED BY <2>1, ReturnKeeps
<1>3. CASE /\ isCurrentAttempt
           /\ atts' = Put([Last EXCEPT !.evid = [status |-> s, art |-> v, ask |-> ask],
                                       !.cand = v, !.approved = clo.approved])
           /\ event' = "other" /\ Goto("judged") /\ Stay /\ UNCHANGED <<verified, status>>
  <2> DEFINE e == [status |-> s, art |-> v, ask |-> ask]
             b == [Last EXCEPT !.evid = e, !.cand = v, !.approved = clo.approved]
  <2>1. Last \in Attempt /\ e \in Evidence /\ clo.approved \in SUBSET Approval
    BY <1>1, LatestTyped DEF Evidence, TypeOK, Closure
  <2>2. b \in Attempt
    BY <2>1 DEF Attempt
  <2>3. Wrote(b)
    BY <1>1, <1>3, <2>2, PutWrites
  <2>4. /\ b.status = Last.status /\ b.failure = Last.failure /\ b.ckpt = Last.ckpt
        /\ b.cand = v /\ b.evid = e /\ b.output = Last.output
        /\ b.approved = clo.approved /\ b.starts = Last.starts
    BY <2>1 DEF Attempt
  <2>5. /\ Count' = Count /\ Last' = b /\ atts' # <<>> /\ atts' \in Seq(Attempt)
        /\ Count \in 1..MaxAttempts /\ atts'[Count] = b /\ atts[Count] = Last
        /\ \A n \in 1..Count : n # Count => n < Count /\ atts'[n] = atts[n]
    BY <2>3, WroteEach
  <2>6. status = "verifying"
    BY <1>1, <1>3 DEF isCurrentAttempt, WorkOK, Fresh
  <2>7. clo' \in Closure /\ clo'.pc = "judged" /\ clo'.cont = clo.cont
          /\ clo'.approved = clo.approved
    BY <1>3 DEF Goto, TypeOK, Closure
  <2>8. TypeOK'
    BY <1>1, <1>3, <2>5, <2>7 DEF TypeOK, Stay, world, ghosts, bounds
  <2>9. RecordOK'
    BY <1>3, <2>4, <2>5, <2>6 DEF RecordOK
  <2>10. ClosureOK'
    BY <1>1, <1>3, <2>4, <2>5, <2>6, <2>7 DEF ClosureOK, Stay, Verdicts
  <2>11. WorkOK' /\ CheckingOK'
    BY <1>1, <1>3, <2>4, <2>5, <2>6, <2>7 DEF WorkOK, CheckingOK, Interrupted, world
  <2>12. StandardOK'
    <3>1. ASSUME NEW n \in 1..Count, verified PROVE
            /\ atts'[n].ckpt \in {0, std'}
            /\ atts'[n].cand # 0 => atts'[n].ckpt = std' /\ std' # 0
            /\ atts'[n].evid.status \in {"failed", "passed"} => atts'[n].cand # 0
            /\ atts[n].ckpt # 0 => atts'[n].ckpt # 0
      <4>1. CASE n = Count
        BY <2>4, <2>5, <3>1, <4>1 DEF StandardOK, ghosts
      <4>2. CASE n # Count
        BY <2>5, <3>1, <4>2 DEF StandardOK, ghosts
      <4> QED BY <4>1, <4>2
    <3> QED BY <1>3, <2>5, <3>1 DEF StandardOK, ghosts
  <2>13. CallsOK'
    <3>1. ASSUME NEW n \in 1..Count PROVE atts'[n].cand <= art
                   /\ atts'[n].approved \subseteq consent
      <4>1. CASE n = Count
        BY <2>4, <2>5, <4>1 DEF CallsOK
      <4>2. CASE n # Count
        BY <2>5, <4>2 DEF CallsOK
      <4> QED BY <4>1, <4>2
    <3>2. ASSUME NEW n \in 1..MaxAttempts, NEW c \in Check, n > Count \/ atts'[n].cand = 0
          PROVE  calls[n][c] = NoCall
      <4>1. CASE n = Count
        <5>1. atts'[n].cand = v
          BY <2>4, <2>5, <4>1
        <5>2. ~ (n > Count)
          BY <4>1, AttemptAssumption
        <5> QED BY <3>2, <5>1, <5>2
      <4>2. CASE n # Count
        BY <2>5, <3>2, <4>2 DEF CallsOK
      <4> QED BY <4>1, <4>2
    <3> QED BY <2>5, <2>7, <3>1, <3>2, ZenonT(60) DEF CallsOK, world, ghosts
  <2>14. ASSUME ~torn, ~(s = "blocked" /\ ask = 0), NEW c \in Check, calls[Count][c].runs = 1
         PROVE  Last.cand <= calls[Count][c].on
    BY <1>1, <2>6, <2>14 DEF CandidateOK, Refused
  <2>15. EvidenceOK'
    <3>1. ASSUME NEW n \in 1..Count, n # Count, atts'[n].evid.status = "passed"
          PROVE  /\ atts'[n].cand = atts'[n].evid.art /\ atts'[n].cand # 0
                 /\ \A c \in Check : /\ Passes(calls[n][c])
                                     /\ torn \/ calls[n][c].on = atts'[n].cand
      BY <2>5, <3>1 DEF EvidenceOK
    <3>2. ASSUME s = "passed", NEW c \in Check, ~torn PROVE calls[Count][c].on = v
      <4>1. Called(calls[Count][c]) /\ Passes(calls[Count][c]) /\ calls[Count][c].on <= art
              /\ v = art
        BY <2>5, <3>2 DEF CallsOK
      <4>2. calls[Count][c].runs = 1
        <5>1. calls[Count][c].orig # "none"
          BY <4>1 DEF Called, Passes, NoCall
        <5>2. calls[Count][c].runs # 0 /\ calls[Count][c].runs <= 1
          BY <4>1, <5>1 DEF Called, Passes
        <5>3. calls[Count][c].runs \in Nat
          BY <2>5 DEF TypeOK, Call
        <5> QED BY <5>2, <5>3
      <4>3. Last.cand <= calls[Count][c].on /\ Last.cand = v
        BY <2>14, <3>2, <4>2
      <4>4. calls[Count][c].on \in Nat /\ art \in Nat
        BY <2>5, VersionsNat DEF TypeOK, Call
      <4> QED BY <4>1, <4>3, <4>4
    <3>3. s = "passed" => /\ atts'[Count].cand = atts'[Count].evid.art /\ atts'[Count].cand # 0
                          /\ \A c \in Check : /\ Passes(calls[Count][c])
                                              /\ torn \/ calls[Count][c].on = atts'[Count].cand
      BY <2>4, <2>5, <3>2
    <3>4. atts'[Count].evid.status = s
      BY <2>4, <2>5
    <3> QED BY <2>5, <3>1, <3>3, <3>4, ZenonT(60) DEF EvidenceOK, ghosts
  <2>16. CandidateOK'
    <3>1. Last'.evid.status = s /\ Last'.evid.ask = ask /\ Last'.cand = v
      BY <2>4, <2>5
    <3>2. ASSUME ~(s = "blocked" /\ ask = 0) PROVE v = Last.cand
      BY <3>2
    <3> QED BY <2>5, <2>7, <2>14, <3>1, <3>2 DEF CandidateOK, Refused, ghosts
  <2> QED BY <2>8, <2>9, <2>10, <2>11, <2>12, <2>13, <2>15, <2>16
<1> QED BY <1>2, <1>3 DEF Conclude

LEMMA VerifyBeginsKeeps == ASSUME IInv, VerifyBegins PROVE IInv'
<1> USE DEF IInv
<1>1. /\ clo.pc = "verify" /\ worker = "none" /\ ~aborted /\ atts # <<>>
      /\ Turn /\ host \in {"up", "closing"} /\ Last.cand # 0
      /\ UNCHANGED <<calls, host, worker, approving, world, ghosts, bounds>>
  BY DEF VerifyBegins, At, ClosureOK, TypeOK, Idle
<1>2. art \in Fingerprints \ {0} /\ Unavailable \in Fingerprints \ {0} /\ Unavailable <= art
        /\ art <= art
  BY AttemptAssumption, BoundsAssumption DEF TypeOK, Versions, Fingerprints, Unavailable
<1>3. CASE Conclude("blocked", Unavailable, 0)
  BY <1>1, <1>2, <1>3, ConcludeKeeps DEF Verdicts
<1>4. CASE Conclude("blocked", art, 0)
  BY <1>1, <1>2, <1>4, ConcludeKeeps DEF Verdicts
<1>5. CASE /\ clo' = [clo EXCEPT !.pc = "check", !.fp = art, !.i = 1]
           /\ Last.cand = art /\ UNCHANGED record /\ Stay
  <2>1. Count' = Count /\ Last' = Last /\ Interrupted' = Interrupted
    BY <1>5, RecordStays
  <2>2. /\ clo' \in Closure /\ clo'.pc = "check" /\ clo'.cont = clo.cont
        /\ clo'.approved = clo.approved /\ clo'.fp = art /\ clo'.i = 1
    <3>1. art \in Versions /\ 1 \in 0..(NChecks + 1) /\ clo \in Closure
      BY CheckAssumption DEF TypeOK
    <3> QED BY <1>5, <3>1 DEF Closure
  <2>3. ClosureOK'
    BY <1>1, <1>5, <2>1, <2>2 DEF ClosureOK, record, Stay
  <2>4. WorkOK' /\ CheckingOK'
    BY <1>1, <1>5, <2>1, <2>2 DEF WorkOK, CheckingOK, Check, TypeOK, record, world
  <2> QED BY <1>1, <1>5, <2>2, <2>3, <2>4, MoveKeeps DEF CallsOK, Stay, Refused, TypeOK
<1> QED BY <1>3, <1>4, <1>5 DEF VerifyBegins

\* What is known while a check is looked at.
LEMMA CheckingKnows ==
    ASSUME IInv, clo.pc \in {"check", "running"}
    PROVE  /\ worker = "none" /\ atts # <<>> /\ Turn /\ host \in {"up", "closing"}
           /\ clo.fp \in Versions /\ clo.fp \in Fingerprints \ {0} /\ Last.cand = clo.fp
           /\ clo.fp <= art /\ Count \in 1..MaxAttempts /\ ~Refused
           /\ clo.i \in 1..(NChecks + 1)
<1> USE DEF IInv
<1>1. worker = "none" /\ atts # <<>> /\ Turn /\ host \in {"up", "closing"} /\ ~Refused
  BY DEF ClosureOK, TypeOK, Idle, Turn, Refused
<1>2. Count \in 1..MaxAttempts
  BY <1>1, LatestTyped
<1>3. clo.fp \in Versions /\ Last.cand = clo.fp /\ clo.i \in 0..(NChecks + 1) /\ clo.i >= 1
  BY DEF CheckingOK, TypeOK, Closure
<1>4. Last.cand <= art
  BY <1>2 DEF CallsOK, Last
<1> QED BY <1>1, <1>2, <1>3, <1>4, VersionsNat, CheckAssumption

LEMMA CheckAnsweredKeeps == ASSUME IInv, CheckAnswered PROVE IInv'
<1> USE DEF IInv
<1>1. /\ clo.pc = "check" /\ ~aborted /\ clo.i \in Check
           /\ CheckState(clo.i) \in {"pass", "fail"}
      /\ clo' = [clo EXCEPT !.i = @ + 1]
      /\ UNCHANGED <<record, calls, host, aborted, worker, approving, world, ghosts, bounds>>
  BY CheckingKnows, CheckAssumption DEF CheckAnswered, Checking, At, Check
<1>2. Count' = Count /\ Last' = Last /\ Interrupted' = Interrupted
  BY <1>1, RecordStays DEF record
<1>3. /\ clo' \in Closure /\ clo'.pc = "check" /\ clo'.cont = clo.cont
      /\ clo'.approved = clo.approved /\ clo'.fp = clo.fp /\ clo'.i = clo.i + 1
  <2>1. clo.i + 1 \in 0..(NChecks + 1)
    BY <1>1, CheckAssumption DEF Check
  <2> QED BY <1>1, <2>1 DEF TypeOK, Closure
<1>4. ClosureOK'
  BY <1>1, <1>2, <1>3, CheckingKnows DEF ClosureOK, record
<1>5. WorkOK'
  BY <1>1, <1>2, <1>3 DEF WorkOK, record, world
<1>6. CheckingOK'
  <2>1. \A c \in Check : CheckState(c)' = CheckState(c)
    BY <1>1, <1>2, <1>3 DEF CheckState, CallOf, Approved
  <2>2. \A c \in Check : c < clo.i + 1 => c < clo.i \/ c = clo.i
    BY <1>1, CheckAssumption DEF Check
  <2>3. clo.i + 1 >= 1
    BY <1>1 DEF Check
  <2> QED BY <1>1, <1>2, <1>3, <2>1, <2>2, <2>3 DEF CheckingOK
<1> QED BY <1>1, <1>3, <1>4, <1>5, <1>6, MoveKeeps, CheckingKnows DEF CallsOK, TypeOK

LEMMA CheckBlockedKeeps == ASSUME IInv, CheckBlocked PROVE IInv'
<1>1. /\ clo.pc = "check" /\ ~aborted /\ clo.i \in Check
      /\ UNCHANGED <<calls, host, worker, approving, world, ghosts, bounds>>
  BY CheckingKnows, CheckAssumption DEF CheckBlocked, Checking, At, Check
<1>2. /\ Conclude("blocked", clo.fp, IF CheckState(clo.i) = "denied" THEN clo.i ELSE 0)
      /\ (IF CheckState(clo.i) = "denied" THEN clo.i ELSE 0) \in {0} \cup Check
  BY <1>1 DEF CheckBlocked
<1> QED BY <1>1, <1>2, CheckingKnows, ConcludeKeeps DEF Verdicts

LEMMA VerifyEndsKeeps == ASSUME IInv, VerifyEnds PROVE IInv'
<1> USE DEF IInv
<1>1. /\ clo.pc = "check" /\ ~aborted /\ clo.i > NChecks
      /\ UNCHANGED <<calls, host, worker, approving, world, ghosts, bounds>>
  BY DEF VerifyEnds, At
<1>2. CASE Conclude("blocked", clo.fp, 0)
  BY <1>1, <1>2, CheckingKnows, ConcludeKeeps DEF Verdicts
<1>3. CASE Conclude("failed", clo.fp, 0)
  BY <1>1, <1>3, CheckingKnows, ConcludeKeeps DEF Verdicts
<1>4. CASE /\ Conclude("passed", clo.fp, 0) /\ art = clo.fp
           /\ ~ \E c \in Check : CheckState(c) = "fail"
  <2>1. ASSUME NEW c \in Check PROVE Passes(calls[Count][c])
    <3>1. c < clo.i
      BY <1>1, CheckingKnows, CheckAssumption DEF Check
    <3>2. CheckState(c) = "pass"
      BY <1>1, <1>4, <3>1 DEF CheckingOK
    <3> QED BY <3>2 DEF CheckState, CallOf, Passes
  <2> QED BY <1>1, <1>4, <2>1, CheckingKnows, ConcludeKeeps DEF Verdicts
<1> QED BY <1>2, <1>3, <1>4 DEF VerifyEnds

\* The check under way has no passing call yet.
LEMMA NotYetPassed ==
    ASSUME IInv, clo.pc \in {"check", "running"}, clo.i \in Check,
           CheckState(clo.i) \in {"none", "open"}
    PROVE  LET k == calls[Count][clo.i] IN
           /\ k \in Call /\ Called(k) /\ ~Passes(k) /\ k.on <= art
           /\ CallOf(clo.i) \in {"orig", "okd"} /\ k[CallOf(clo.i)] = CheckState(clo.i)
           /\ CallOf(clo.i) = "okd" => k.orig = "denied" /\ Approved(clo.i)
<1> DEFINE k == calls[Count][clo.i]
<1>1. k \in Call /\ Called(k) /\ k.on <= art
  BY CheckingKnows DEF IInv, TypeOK, CallsOK
<1>2. /\ CallOf(clo.i) \in {"orig", "okd"} /\ k[CallOf(clo.i)] = CheckState(clo.i)
      /\ CallOf(clo.i) = "okd" => k.orig = "denied" /\ Approved(clo.i)
  BY DEF CallOf, CheckState
<1>3. ~Passes(k)
  <2>1. CASE CallOf(clo.i) = "orig"
    <3>1. k.orig \in {"none", "open"}
      BY <1>2, <2>1
    <3> QED BY <1>1, <3>1 DEF Called, Passes, NoCall
  <2>2. CASE CallOf(clo.i) = "okd"
    BY <1>2, <2>2 DEF Passes
  <2> QED BY <1>2, <2>1, <2>2
<1> QED BY <1>1, <1>2, <1>3

\* A call of the check under way is admitted, denied or answered.
LEMMA CallKeeps ==
    ASSUME IInv, clo.pc \in {"check", "running"}, clo.i \in Check, ~aborted,
           CheckState(clo.i) \in {"none", "open"},
           NEW k \in Call, Called(k), k.on <= art,
           calls' = [calls EXCEPT ![Count][clo.i] = k],
           clo.i \in Privileged /\ k.runs = 1
             => \E v \in Versions : <<Count, clo.i, v>> \in consent,
           k.runs = 1 => \/ Last.cand <= k.on
                         \/ (calls[Count][clo.i].runs = 1 /\ calls[Count][clo.i].on = k.on),
           NEW p \in {"check", "running"}, clo' = [clo EXCEPT !.pc = p],
           p = "running" => CheckState(clo.i)' = "open",
           UNCHANGED <<record, host, aborted, worker, approving, world, ghosts, bounds>>
    PROVE  IInv'
<1> USE DEF IInv
<1>1. Count' = Count /\ Last' = Last /\ Interrupted' = Interrupted
  BY RecordStays
<1>2. /\ worker = "none" /\ atts # <<>> /\ Turn /\ host \in {"up", "closing"}
      /\ Last.cand = clo.fp /\ clo.fp # 0 /\ Count \in 1..MaxAttempts /\ ~Refused
  BY CheckingKnows
<1>3. /\ clo' \in Closure /\ clo'.pc = p /\ clo'.cont = clo.cont
      /\ clo'.approved = clo.approved /\ clo'.fp = clo.fp /\ clo'.i = clo.i
  BY DEF TypeOK, Closure
<1>4. ASSUME NEW n \in 1..MaxAttempts, NEW c \in Check
      PROVE  calls'[n][c] = IF n = Count /\ c = clo.i THEN k ELSE calls[n][c]
  BY <1>2 DEF TypeOK
<1>5. TypeOK'
  <2>1. calls' \in [1..MaxAttempts -> [Check -> Call]]
    BY <1>2 DEF TypeOK
  <2> QED BY <1>1, <1>3, <2>1 DEF TypeOK, record, world, ghosts, bounds
<1>6. RecordOK'
  BY <1>1 DEF RecordOK, Retriable, record
<1>7. ClosureOK' /\ WorkOK'
  BY <1>1, <1>2, <1>3 DEF ClosureOK, WorkOK, record, world
<1>8. StandardOK'
  BY <1>1 DEF StandardOK, record, ghosts
<1>9. CallsOK'
  <2>1. ASSUME NEW n \in 1..MaxAttempts, NEW c \in Check PROVE
          /\ Called(calls'[n][c])
          /\ n > Count \/ atts[n].cand = 0 => calls'[n][c] = NoCall
          /\ c \in Privileged /\ calls'[n][c].runs = 1
               => \E v \in Versions : <<n, c, v>> \in consent
          /\ calls'[n][c].on <= art
    <3>1. CASE n = Count /\ c = clo.i
      <4>1. ~(n > Count) /\ atts[n].cand # 0
        BY <1>2, <3>1, AttemptAssumption DEF Last
      <4> QED BY <1>4, <3>1, <4>1
    <3>2. CASE ~(n = Count /\ c = clo.i)
      BY <1>4, <3>2 DEF CallsOK
    <3> QED BY <3>1, <3>2
  <2>2. ASSUME NEW n \in 1..Count' PROVE atts'[n].cand <= art'
                 /\ atts'[n].approved \subseteq consent'
    BY <1>1 DEF CallsOK, record, world, ghosts
  <2> QED BY <1>1, <1>3, <2>1, <2>2 DEF CallsOK, record, world, ghosts
<1>10. CheckingOK'
  <2>1. ASSUME NEW c \in Check, c < clo.i PROVE CheckState(c)' = CheckState(c)
    <3>1. calls'[Count][c] = calls[Count][c]
      BY <1>2, <1>4, <2>1, CheckAssumption DEF Check
    <3> QED BY <1>1, <1>3, <3>1 DEF CheckState, CallOf, Approved
  <2> QED BY <1>1, <1>3, <2>1 DEF CheckingOK
<1>11. EvidenceOK'
  <2>1. atts[Count].evid.status # "passed"
    BY <1>2, NotYetPassed DEF EvidenceOK
  <2>2. ASSUME NEW n \in 1..Count, atts[n].evid.status = "passed", NEW c \in Check
        PROVE  calls'[n][c] = calls[n][c]
    <3>1. n \in 1..MaxAttempts /\ n # Count
      BY <1>2, <2>1, <2>2, AttemptAssumption
    <3> QED BY <1>4, <3>1
  <2> QED BY <1>1, <2>2 DEF EvidenceOK, record, ghosts
<1>12. CandidateOK'
  <2>1. ASSUME ~torn, status \in {"running", "verifying", "needs_approval"},
               NEW c \in Check, calls'[Count][c].runs = 1
        PROVE  Last.cand <= calls'[Count][c].on
    <3>1. calls[Count][c].runs = 1 => Last.cand <= calls[Count][c].on
      BY <1>2, <2>1 DEF CandidateOK
    <3>2. calls'[Count][c] = IF c = clo.i THEN k ELSE calls[Count][c]
      BY <1>2, <1>4
    <3> QED BY <2>1, <3>1, <3>2
  <2> QED BY <1>1, <2>1 DEF CandidateOK, record, ghosts
<1> QED BY <1>5, <1>6, <1>7, <1>8, <1>9, <1>10, <1>11, <1>12

LEMMA ExecuteKeeps == ASSUME IInv, executeTaskCheck PROVE IInv'
<1> USE DEF IInv
<1> DEFINE k == calls[Count][clo.i]
<1>1. /\ clo.pc = "check" /\ ~aborted /\ clo.i \in Check /\ CheckState(clo.i) = "none"
      /\ UNCHANGED <<record, host, aborted, worker, approving, world, ghosts, bounds>>
  <2>1. /\ clo.pc = "check" /\ ~aborted /\ clo.i <= NChecks /\ CheckState(clo.i) = "none"
        /\ UNCHANGED <<record, host, aborted, worker, approving, world, ghosts, bounds>>
    BY DEF executeTaskCheck, Checking, At
  <2> QED BY <2>1, CheckingKnows, CheckAssumption DEF Check
<1>2. /\ k \in Call /\ Called(k) /\ k.on <= art
      /\ CallOf(clo.i) \in {"orig", "okd"} /\ k[CallOf(clo.i)] = "none"
      /\ CallOf(clo.i) = "okd" => k.orig = "denied" /\ Approved(clo.i)
      /\ Count \in 1..MaxAttempts
  BY <1>1, NotYetPassed, CheckingKnows
<1>3. k.runs = 0 /\ k.okd = "none"
  BY <1>2 DEF Called, NoCall
<1>4. CASE /\ clo.i \in Privileged /\ ~Approved(clo.i) /\ UNCHANGED clo
           /\ calls' = [calls EXCEPT ![Count][clo.i].orig = "denied"]
  <2> DEFINE d == [k EXCEPT !.orig = "denied"]
  <2>1. CallOf(clo.i) = "orig"
    BY <1>2, <1>4
  <2>2. d \in Call /\ d.on = k.on /\ d.runs = 0 /\ d.orig = "denied" /\ d.okd = "none"
    BY <1>2, <1>3 DEF Call, CallState
  <2>3. Called(d)
    BY <2>2 DEF Called
  <2>4. calls' = [calls EXCEPT ![Count][clo.i] = d]
    BY <1>2, <1>4
  <2>5. clo' = [clo EXCEPT !.pc = "check"]
    BY <1>1, <1>4 DEF TypeOK, Closure
  <2> HIDE DEF d
  <2>6. d \in Call /\ Called(d) /\ d.on <= art /\ d.runs # 1
    BY <1>2, <2>2, <2>3
  <2> HIDE DEF k
  <2> QED BY <1>1, <2>4, <2>5, <2>6, CallKeeps
<1>5. CASE /\ ~(clo.i \in Privileged /\ ~Approved(clo.i)) /\ Goto("running")
           /\ LET e == [k EXCEPT ![CallOf(clo.i)] = "open"] IN
              calls' = [calls EXCEPT ![Count][clo.i] = [e EXCEPT !.on = art, !.runs = e.runs + 1]]
  <2> DEFINE e == [k EXCEPT ![CallOf(clo.i)] = "open"]
             d == [e EXCEPT !.on = art, !.runs = e.runs + 1]
  <2>1. art \in {0} \cup Versions
    BY DEF TypeOK
  <2>2. /\ e \in Call /\ e[CallOf(clo.i)] = "open" /\ e.runs = 0
        /\ CallOf(clo.i) = "orig" => e.orig = "open" /\ e.okd = "none"
        /\ CallOf(clo.i) = "okd" => e.orig = "denied" /\ e.okd = "open"
    BY <1>2, <1>3 DEF Call, CallState
  <2> HIDE DEF e
  <2>3. /\ d \in Call /\ d.on = art /\ d.runs = 1 /\ d.orig = e.orig /\ d.okd = e.okd
        /\ d[CallOf(clo.i)] = "open"
    <3>1. e.runs + 1 = 1 /\ 1 \in Nat
      BY <2>2
    <3> QED BY <1>2, <2>1, <2>2, <3>1 DEF Call
  <2>4. calls' = [calls EXCEPT ![Count][clo.i] = d]
    BY <1>5 DEF e
  <2> HIDE DEF d
  <2>5. Called(d)
    BY <1>2, <2>2, <2>3 DEF Called
  <2>7. clo.i \in Privileged => \E v \in Versions : <<Count, clo.i, v>> \in consent
    BY <1>1, <1>5, CheckingKnows DEF Approved, CallsOK
  <2>8. Last.cand <= art /\ art <= art
    BY <1>1, CheckingKnows, VersionsNat
  <2>9. CheckState(clo.i)' = "open"
    <3>1. CallOf(clo.i)' = CallOf(clo.i)
      <4>1. clo'.approved = clo.approved /\ clo'.fp = clo.fp /\ clo'.i = clo.i /\ Count' = Count
        BY <1>1, <1>5, RecordStays DEF Goto, TypeOK, Closure
      <4>2. calls'[Count][clo.i] = d
        BY <1>1, <1>2, <2>4 DEF TypeOK
      <4>3. CASE CallOf(clo.i) = "orig"
        <5>1. d.orig # "denied"
          BY <2>2, <2>3, <4>3
        <5> QED BY <4>1, <4>2, <4>3, <5>1 DEF CallOf, Approved
      <4>4. CASE CallOf(clo.i) = "okd"
        <5>1. d.orig = "denied" /\ Approved(clo.i)
          BY <1>2, <2>2, <2>3, <4>4
        <5> QED BY <4>1, <4>2, <4>4, <5>1 DEF CallOf, Approved
      <4> QED BY <1>2, <4>3, <4>4
    <3>2. calls'[Count][clo.i] = d /\ clo'.i = clo.i /\ Count' = Count
      <4>1. clo'.i = clo.i
        BY <1>5 DEF TypeOK, Goto, Closure
      <4>2. calls'[Count][clo.i] = d
        BY <1>1, <1>2, <2>4 DEF TypeOK
      <4> QED BY <1>1, <4>1, <4>2, RecordStays
    <3> QED BY <2>3, <3>1, <3>2 DEF CheckState
  <2> QED BY <1>1, <1>2, <1>5, <2>3, <2>4, <2>5, <2>7, <2>8, <2>9, CallKeeps DEF Goto
<1> QED BY <1>1, <1>4, <1>5 DEF executeTaskCheck

LEMMA CheckEndsKeeps ==
    ASSUME IInv, NEW r \in {"pass", "fail", "stuck"}, CheckEnds(r) PROVE IInv'
<1> USE DEF IInv
<1> DEFINE k == calls[Count][clo.i]
           d == [k EXCEPT ![CallOf(clo.i)] = r]
<1>1. /\ clo.pc = "running" /\ ~aborted /\ clo.i \in Check /\ CheckState(clo.i) = "open"
      /\ Goto("check")
      /\ UNCHANGED <<record, host, aborted, worker, approving, world, ghosts, bounds>>
  BY DEF CheckEnds, At, CheckingOK
<1>2. /\ k \in Call /\ Called(k) /\ k.on <= art
      /\ CallOf(clo.i) \in {"orig", "okd"} /\ k[CallOf(clo.i)] = "open"
      /\ CallOf(clo.i) = "okd" => k.orig = "denied"
      /\ Count \in 1..MaxAttempts
  BY <1>1, NotYetPassed, CheckingKnows
<1>3. k.runs = 1
  <2>1. k.runs \in Nat /\ k.runs <= 1 /\ k.runs # 0
    BY <1>2 DEF Called, Call
  <2> QED BY <2>1
<1>4. d \in Call /\ d.on = k.on /\ d.runs = 1 /\ d[CallOf(clo.i)] = r
  BY <1>2, <1>3 DEF Call, CallState
<1>5. Called(d)
  <2>1. CASE CallOf(clo.i) = "orig"
    <3>1. d.orig = r /\ d.okd = k.okd /\ k.orig = "open"
      BY <1>2, <2>1 DEF Call
    <3> QED BY <1>2, <1>4, <3>1 DEF Called
  <2>2. CASE CallOf(clo.i) = "okd"
    <3>1. d.orig = "denied" /\ d.okd = r
      BY <1>2, <2>2 DEF Call
    <3> QED BY <1>4, <3>1 DEF Called
  <2> QED BY <1>2, <2>1, <2>2
<1>6. calls' = [calls EXCEPT ![Count][clo.i] = d]
  BY <1>2 DEF CheckEnds
<1>7. clo.i \in Privileged => \E v \in Versions : <<Count, clo.i, v>> \in consent
  BY <1>1, <1>2, <1>3 DEF CallsOK
<1> QED BY <1>1, <1>2, <1>3, <1>4, <1>5, <1>6, <1>7, CallKeeps DEF Goto

LEMMA JudgeKeeps == ASSUME IInv, Judge PROVE IInv'
<1> USE DEF IInv
<1>1. /\ clo.pc = "judged" /\ worker = "none" /\ ~aborted /\ atts # <<>>
      /\ host \in {"up", "closing"} /\ status \in {"running", "verifying"}
      /\ UNCHANGED <<calls, host, worker, approving, world, ghosts, bounds>>
  BY DEF Judge, ClosureOK, TypeOK, Idle
<1>2. ASSUME NEW s \in Outcomes \cup {"needs_approval"}, NEW f \in Failures,
             f # "worker_interrupted",
             transition(s, Last, f), Return,
             s = "completed" => Last.evid.status = "passed",
             s = "needs_approval" => Last.evid.ask # 0
      PROVE  IInv'
  <2>1. Rests /\ clo' = Idle
    BY <1>1, <1>2 DEF Rests, TypeOK, Return, world, ghosts, bounds
  <2> QED BY <1>1, <1>2, <2>1, SettlesLast DEF Refused, ghosts
<1>3. CASE Last.evid.status = "passed" /\ transition("completed", Last, "none") /\ Return
  BY <1>2, <1>3, FailuresTyped DEF Outcomes
<1>4. CASE /\ Last.evid.ask # 0 /\ Return
           /\ transition("needs_approval", Last, "verification_permission_required")
  BY <1>2, <1>4, FailuresTyped DEF Outcomes
<1>5. CASE transition("blocked", Last, "verification_unavailable") /\ Return
  BY <1>2, <1>5, FailuresTyped DEF Outcomes
<1>6. CASE transition("incomplete", Last, "verification_failed") /\ Return
  BY <1>2, <1>6, FailuresTyped DEF Outcomes
<1>7. CASE /\ Last.evid.status = "failed" /\ AttemptsLeft
           /\ prepareVerificationRepair /\ Goto("repair") /\ Stay
  <2> DEFINE b == [Last EXCEPT !.status = "failed", !.failure = "verification_failed"]
  <2>1. Last \in Attempt /\ b \in Attempt
    BY <1>1, LatestTyped, FailuresTyped DEF Attempt, Statuses, Outcomes
  <2>2. Wrote(b) /\ status' = "queued" /\ event' = "repair" /\ verified' = verified
    BY <1>1, <1>7, <2>1, PutWrites DEF prepareVerificationRepair
  <2>3. /\ b.status = "failed" /\ b.failure = "verification_failed" /\ b.ckpt = Last.ckpt
        /\ b.cand = Last.cand /\ b.output = Last.output /\ b.evid = Last.evid
        /\ b.approved = Last.approved
    BY <2>1 DEF Attempt
  <2>4. /\ Count' = Count /\ Last' = b /\ atts' # <<>> /\ atts' \in Seq(Attempt)
        /\ Count \in 1..MaxAttempts /\ atts'[Count] = b /\ atts[Count] = Last
        /\ \A n \in 1..Count : n # Count => n < Count /\ atts'[n] = atts[n]
    BY <2>2, WroteEach
  <2>5. clo' \in Closure /\ clo'.pc = "repair" /\ clo'.cont = clo.cont
          /\ clo'.approved = clo.approved
    BY <1>7 DEF Goto, TypeOK, Closure
  <2>6. Retriable'
    BY <1>7, <2>3, <2>4 DEF Retriable, FailedVerdict, AttemptsLeft
  <2>7. TypeOK'
    BY <1>1, <1>7, <2>2, <2>4, <2>5 DEF TypeOK, Statuses, Stay, world, ghosts, bounds
  <2>8. RecordOK'
    BY <2>2, <2>4, <2>6 DEF RecordOK
  <2>9. ClosureOK'
    BY <1>1, <1>7, <2>2, <2>3, <2>4, <2>5, <2>6 DEF ClosureOK, Stay
  <2>10. WorkOK' /\ CheckingOK'
    BY <1>1, <2>2, <2>3, <2>4, <2>5 DEF WorkOK, CheckingOK, Interrupted, world
  <2>11. Mild
    <3>1. ASSUME NEW n \in 1..Count PROVE SameAttempt(n)
      <4>1. CASE n = Count
        BY <1>1, <2>3, <2>4, <4>1 DEF SameAttempt, SameWork, CallsOK, ghosts
      <4>2. CASE n # Count
        BY <1>1, <2>4, <4>2 DEF SameAttempt, SameWork, CallsOK, ghosts
      <4> QED BY <4>1, <4>2
    <3> QED BY <1>1, <2>2, <2>4, <2>5, <3>1
               DEF Mild, CallsOK, TypeOK, Versions, world, ghosts
  <2>12. CandidateOK'
    BY <2>2 DEF CandidateOK
  <2> QED BY <2>7, <2>8, <2>9, <2>10, <2>11, <2>12, MildKeeps
<1> QED BY <1>3, <1>4, <1>5, <1>6, <1>7 DEF Judge

-----------------------------------------------------------------------------
(* Approval, continuation, cancellation and shutdown. *)

LEMMA ApproveKeeps == ASSUME IInv, Approve PROVE IInv'
<1> USE DEF IInv
<1>1. /\ atts # <<>> /\ Turn /\ approving' = Pending /\ consent' = consent \cup {Pending}
      /\ Last.evid.ask # 0
      /\ UNCHANGED <<record, calls, host, clo, aborted, worker, world, std, torn, bounds>>
  BY DEF Approve, Live, verificationApprovalState
<1>2. Count' = Count /\ Last' = Last /\ Interrupted' = Interrupted
  BY <1>1, RecordStays DEF record
<1>3. Pending \in Approval
  BY <1>1, LatestTyped DEF Pending, Approval, Attempt, Evidence
<1>4. TypeOK'
  BY <1>1, <1>2, <1>3 DEF TypeOK, record, world, bounds
<1>5. RecordOK' /\ ClosureOK' /\ WorkOK'
  BY <1>1, <1>2 DEF RecordOK, ClosureOK, WorkOK, Retriable, record, world
<1>6. CheckingOK'
  BY <1>1, <1>2 DEF CheckingOK, CheckState, CallOf, Approved
<1>7. Mild
  BY <1>1, <1>2
     DEF Mild, SameAttempt, SameWork, CallsOK, TypeOK, Versions, record, world
<1>8. CandidateOK'
  BY <1>1, <1>2 DEF CandidateOK, Refused, record
<1> QED BY <1>4, <1>5, <1>6, <1>7, <1>8, MildKeeps

\* A closure is launched, or the running one goes on.
LEMMA LaunchedTyped ==
    ASSUME IInv, UNCHANGED <<clo, aborted>> \/ (~Promised /\ (Launch(FALSE) \/ Launch(TRUE)))
    PROVE  /\ clo' \in Closure /\ aborted' \in BOOLEAN
           /\ \/ clo' = clo /\ aborted' = aborted
              \/ /\ clo.pc \in {"idle", "admit"} /\ clo'.pc = "prepare" /\ ~aborted'
                 /\ clo'.cont = (~Launch(FALSE)) /\ clo'.approved = {}
  BY IdleTyped DEF IInv, TypeOK, Launch, Idle, Closure, Promised

LEMMA ApproveEndsKeeps == ASSUME IInv, ApproveEnds PROVE IInv'
<1> USE DEF IInv
<1>1. /\ Turn /\ host \in {"up", "closing"} /\ approving \in Approval /\ approving \in consent
      /\ approving' = None
      /\ UNCHANGED <<calls, host, worker, world, ghosts, bounds>>
  BY DEF ApproveEnds, Live, TypeOK, CallsOK
<1>2. CASE UNCHANGED <<record, clo, aborted>>
  <2>1. Count' = Count /\ Last' = Last /\ Interrupted' = Interrupted
    BY <1>2, RecordStays
  <2>2. TypeOK'
    BY <1>1, <1>2, <2>1 DEF TypeOK, record, world, ghosts, bounds
  <2>3. RecordOK' /\ ClosureOK' /\ WorkOK'
    BY <1>1, <1>2, <2>1 DEF RecordOK, ClosureOK, WorkOK, Retriable, record, world
  <2>4. CheckingOK'
    BY <1>1, <1>2, <2>1 DEF CheckingOK, CheckState, CallOf, Approved
  <2>5. Mild
    BY <1>1, <1>2, <2>1
       DEF Mild, SameAttempt, SameWork, CallsOK, TypeOK, Versions, record, world, ghosts
  <2>6. CandidateOK'
    BY <1>1, <1>2, <2>1 DEF CandidateOK, Refused, record, ghosts
  <2> QED BY <2>2, <2>3, <2>4, <2>5, <2>6, MildKeeps
<1>3. CASE /\ verificationApprovalState(approving) /\ approveVerification(approving)
           /\ \/ ~Promised /\ Launch(FALSE)
              \/ UNCHANGED <<clo, aborted>>
  <2> DEFINE b == [Last EXCEPT !.status = "verifying", !.approved = @ \cup {approving},
                               !.failure = IF status = "verifying" THEN @ ELSE "none"]
  <2>1. status \in {"needs_approval", "verifying"} /\ Last.status = status /\ atts # <<>>
          /\ ~Refused
    BY <1>1, <1>3 DEF verificationApprovalState, RecordOK, Refused, Turn
  <2>2. Last \in Attempt /\ Last.approved \cup {approving} \in SUBSET Approval
    BY <1>1, <2>1, LatestTyped DEF Attempt
  <2>3. b \in Attempt
    BY <2>2, FailuresTyped DEF Attempt, Statuses
  <2>4. /\ b.status = "verifying" /\ b.ckpt = Last.ckpt /\ b.cand = Last.cand
        /\ b.output = Last.output /\ b.evid = Last.evid /\ b.starts = Last.starts
        /\ b.approved = Last.approved \cup {approving}
    BY <2>2 DEF Attempt
  <2>5. /\ status' = "verifying" /\ event' \in {"repair", "other"} /\ verified' = verified
        /\ \/ Wrote(b)
           \/ UNCHANGED record
    <3>1. CASE UNCHANGED record /\ status = "verifying"
      BY <3>1 DEF TypeOK, record
    <3>2. CASE /\ status' = "verifying" /\ atts' = Put(b)
               /\ event' = "other" /\ UNCHANGED verified
      BY <2>1, <2>3, <3>2, PutWrites
    <3> QED BY <1>3, <3>1, <3>2 DEF approveVerification
  <2>6. /\ Count' = Count /\ atts' # <<>> /\ atts' \in Seq(Attempt) /\ Count \in 1..MaxAttempts
        /\ Last' \in {b, Last} /\ Last'.status = "verifying" /\ Last' = atts'[Count]
             /\ atts[Count] = Last
        /\ \A n \in 1..Count : n # Count => n < Count /\ atts'[n] = atts[n]
    <3>1. CASE Wrote(b)
      BY <2>4, <3>1, WroteEach
    <3>2. CASE UNCHANGED record
      <4>1. Count \in 1..MaxAttempts /\ status = "verifying"
        BY <2>1, <2>5, <3>2, LatestTyped DEF record
      <4>2. Count' = Count /\ Last' = Last /\ atts' = atts
        BY <3>2, RecordStays DEF record
      <4> QED BY <2>1, <4>1, <4>2, AttemptAssumption DEF TypeOK, Last
    <3> QED BY <2>5, <3>1, <3>2
  <2>7. /\ Last'.ckpt = Last.ckpt /\ Last'.cand = Last.cand /\ Last'.output = Last.output
        /\ Last'.evid = Last.evid /\ Last'.starts = Last.starts
             /\ Last'.approved \subseteq consent
    <3>1. Last.approved \subseteq consent
      BY <2>6 DEF CallsOK
    <3> QED BY <1>1, <2>4, <2>6, <3>1
  <2>8. /\ clo' \in Closure /\ aborted' \in BOOLEAN
        /\ \/ clo' = clo /\ aborted' = aborted
           \/ /\ clo.pc \in {"idle", "admit"} /\ clo'.pc = "prepare" /\ ~aborted'
              /\ ~clo'.cont /\ clo'.approved = {}
    BY <1>3, LaunchedTyped DEF Launch
  <2>9. TypeOK'
    BY <1>1, <2>5, <2>6, <2>8 DEF TypeOK, Statuses, world, ghosts, bounds
  <2>10. RecordOK'
    BY <2>5, <2>6 DEF RecordOK
  <2>11. ClosureOK'
    <3>1. clo.pc \notin {"judged", "repair"}
      BY <1>1 DEF Turn
    <3> QED BY <1>1, <2>1, <2>5, <2>6, <2>7, <2>8, <3>1 DEF ClosureOK
  <2>12. WorkOK'
    <3>1. worker = "none" \/ clo.pc = "worker"
      BY DEF ClosureOK
    <3> QED BY <1>1, <2>1, <2>5, <2>6, <2>7, <2>8, <3>1
               DEF WorkOK, Fresh, Interrupted, world
  <2>13. CheckingOK'
    BY <1>1, <2>6, <2>7, <2>8, ZenonT(60) DEF CheckingOK, CheckState, CallOf, Approved
  <2>14. Mild
    <3>1. ASSUME NEW n \in 1..Count PROVE SameAttempt(n)
      <4>1. CASE n = Count
        BY <1>1, <2>6, <2>7, <4>1 DEF SameAttempt, SameWork, ghosts
      <4>2. CASE n # Count
        BY <1>1, <2>6, <4>2 DEF SameAttempt, SameWork, CallsOK, ghosts
      <4> QED BY <4>1, <4>2
    <3> QED BY <1>1, <2>5, <2>6, <2>8, <3>1
               DEF Mild, CallsOK, TypeOK, Versions, world, ghosts
  <2>15. CandidateOK'
    BY <1>1, <2>1, <2>6, <2>7 DEF CandidateOK, ghosts
  <2> QED BY <2>9, <2>10, <2>11, <2>12, <2>13, <2>14, <2>15, MildKeeps
<1> QED BY <1>2, <1>3 DEF ApproveEnds

LEMMA ResumeKeeps == ASSUME IInv, Resume PROVE IInv'
<1> USE DEF IInv
<1>1. /\ clo.pc = "idle" /\ host = "up" /\ atts # <<>> /\ Last.ckpt # 0 /\ worker = "none"
      /\ clo' = [Idle EXCEPT !.pc = "admit"]
      /\ UNCHANGED <<record, calls, host, aborted, worker, approving, world, ghosts, bounds>>
  BY DEF Resume, ClosureOK
<1>2. Count' = Count /\ Last' = Last /\ Interrupted' = Interrupted
  BY <1>1, RecordStays DEF record
<1>3. clo' \in Closure /\ clo'.pc = "admit" /\ ~clo'.cont /\ clo'.approved = {}
  BY <1>1, IdleTyped DEF Closure, Idle
<1>4. ClosureOK' /\ WorkOK' /\ CheckingOK'
  BY <1>1, <1>2, <1>3 DEF ClosureOK, WorkOK, CheckingOK, record, world
<1> QED BY <1>1, <1>3, <1>4, MoveKeeps DEF Refused, TypeOK

LEMMA AdmitKeeps == ASSUME IInv, Admit PROVE IInv'
<1> USE DEF IInv
<1>1. /\ clo.pc = "admit" /\ host = "up" /\ worker = "none" /\ atts # <<>> /\ Last.ckpt # 0
      /\ clo' = [Idle EXCEPT !.pc = "prepare", !.cont = TRUE] /\ aborted' = FALSE
      /\ UNCHANGED <<calls, host, worker, approving, world, ghosts, bounds>>
  BY DEF Admit, At, ClosureOK, Launch
<1>2. clo' \in Closure /\ clo'.pc = "prepare" /\ clo'.cont /\ clo'.approved = {}
  BY <1>1, IdleTyped DEF Closure, Idle
<1>3. CASE status = "running" /\ UNCHANGED record
  <2>1. Count' = Count /\ Last' = Last /\ Interrupted' = Interrupted
    BY <1>3, RecordStays
  <2>2. ClosureOK' /\ WorkOK' /\ CheckingOK'
    BY <1>1, <1>2, <1>3, <2>1 DEF ClosureOK, WorkOK, CheckingOK, record, world
  <2> QED BY <1>1, <1>2, <1>3, <2>2, MoveKeeps DEF Refused, TypeOK
<1>4. CASE resumeWorkerAttempt
  <2> DEFINE b == [Last EXCEPT !.status = "running", !.failure = "none"]
  <2>1. Last \in Attempt /\ b \in Attempt
    BY <1>1, LatestTyped, FailuresTyped DEF Attempt, Statuses
  <2>2. /\ Wrote(b) /\ status' = "running" /\ event' = "other" /\ verified' = verified
        /\ Interrupted /\ Fresh(Last)
    BY <1>1, <1>4, <2>1, PutWrites DEF resumeWorkerAttempt, WorkOK
  <2>3. /\ b.status = "running" /\ b.ckpt = Last.ckpt /\ b.cand = Last.cand
        /\ b.output = Last.output /\ b.evid = Last.evid /\ b.approved = Last.approved
    BY <2>1 DEF Attempt
  <2>4. /\ Count' = Count /\ Last' = b /\ atts' # <<>> /\ atts' \in Seq(Attempt)
        /\ Count \in 1..MaxAttempts /\ atts'[Count] = b /\ atts[Count] = Last
        /\ \A n \in 1..Count : n # Count => n < Count /\ atts'[n] = atts[n]
    BY <2>2, WroteEach
  <2>5. TypeOK'
    BY <1>1, <1>2, <2>2, <2>4 DEF TypeOK, Statuses, world, ghosts, bounds
  <2>6. RecordOK'
    BY <2>2, <2>3, <2>4 DEF RecordOK
  <2>7. ClosureOK'
    BY <1>1, <1>2, <2>2, <2>3, <2>4 DEF ClosureOK
  <2>8. WorkOK' /\ CheckingOK'
    BY <1>1, <1>2, <2>2, <2>3, <2>4 DEF WorkOK, CheckingOK, Fresh, world
  <2>9. Mild
    <3>1. ASSUME NEW n \in 1..Count PROVE SameAttempt(n)
      <4>1. CASE n = Count
        BY <1>1, <2>3, <2>4, <4>1 DEF SameAttempt, SameWork, CallsOK, ghosts
      <4>2. CASE n # Count
        BY <1>1, <2>4, <4>2 DEF SameAttempt, SameWork, CallsOK, ghosts
      <4> QED BY <4>1, <4>2
    <3> QED BY <1>1, <1>2, <2>2, <2>4, <3>1
               DEF Mild, CallsOK, TypeOK, Versions, world, ghosts
  <2>10. CandidateOK'
    BY <1>1, <2>2, <2>4 DEF CandidateOK, CallsOK, NoCall, Fresh
  <2> QED BY <2>5, <2>6, <2>7, <2>8, <2>9, <2>10, MildKeeps
<1> QED BY <1>3, <1>4 DEF Admit

LEMMA AdmitFailsKeeps == ASSUME IInv, AdmitFails PROVE IInv'
<1> USE DEF IInv
<1>1. /\ clo.pc = "admit" /\ worker = "none" /\ atts # <<>> /\ host \in {"up", "closing"}
      /\ clo' = Idle /\ aborted' = FALSE /\ ~Refused
      /\ UNCHANGED <<calls, host, worker, approving, world, ghosts, bounds>>
  BY DEF AdmitFails, At, ClosureOK, blockUnsafeRecovery, Return, TypeOK, Idle, Refused
<1>2. Rests
  BY <1>1 DEF Rests, TypeOK, world, ghosts, bounds
<1>3. CASE transition("blocked", Last, "unsafe_recovery")
  BY <1>1, <1>2, <1>3, SettlesLast, FailuresTyped DEF Outcomes, ghosts
<1>4. CASE UNCHANGED record
  BY <1>1, <1>2, <1>4, ReturnKeeps DEF Returns, ghosts, TypeOK
<1> QED BY <1>3, <1>4 DEF AdmitFails, blockUnsafeRecovery

LEMMA CancelKeeps == ASSUME IInv, Cancel PROVE IInv'
<1> USE DEF IInv
<1>1. /\ Turn /\ host = "up" /\ aborted' \in BOOLEAN /\ worker' = "none" /\ ~Refused
      /\ UNCHANGED <<calls, host, clo, approving, world, ghosts, bounds>>
  BY DEF Cancel, Live, Turn, Refused
<1>2. Rests
  BY <1>1 DEF Rests, TypeOK, world, ghosts, bounds
<1>3. CASE UNCHANGED record
  BY <1>1, <1>2, <1>3, ReturnKeeps DEF Returns, ghosts, TypeOK
<1>4. CASE worker \in {"queued", "running"} /\ transition("aborted", Same, "other")
  <2>1. atts # <<>> /\ Same = Last
    BY <1>4, LatestTyped DEF ClosureOK
  <2> QED BY <1>1, <1>2, <1>4, <2>1, SettlesLast, FailuresTyped DEF Outcomes, ghosts
<1>5. CASE transition("cancelled", Same, "none")
  <2>1. Same \in Attempt
    BY LatestTyped, NewTyped DEF Same
  <2>2. Moves(Same, "cancelled", "none")
    BY <1>5, <2>1, TransitionMoves, FailuresTyped DEF Statuses, Outcomes
  <2>3. atts # <<>> => Tame(Same)
    BY LatestTyped DEF Tame
  <2>4. Settles(Same, "cancelled", "none")
    BY <1>1, <1>2, <2>1, <2>2, <2>3, FailuresTyped DEF Settles, Outcomes, ghosts
  <2> QED BY <2>4, SettleKeeps
<1> QED BY <1>3, <1>4, <1>5 DEF Cancel

LEMMA UnwindKeeps == ASSUME IInv, Unwind PROVE IInv'
<1> USE DEF IInv
<1>1. /\ Turn /\ host \in {"up", "closing"} /\ clo' = Idle /\ aborted' = FALSE /\ ~Refused
      /\ worker = "none" /\ clo.pc # "idle"
      /\ UNCHANGED <<calls, host, worker, approving, world, ghosts, bounds>>
  BY DEF Unwind, Live, Turn, Refused, Return, ClosureOK, TypeOK, Idle
<1>2. Rests
  BY <1>1 DEF Rests, TypeOK, world, ghosts, bounds
<1>3. CASE UNCHANGED record
  BY <1>1, <1>2, <1>3, ReturnKeeps DEF Returns, ghosts, TypeOK
<1>4. ASSUME NEW a \in {Last, [Last EXCEPT !.evid.status = "cancelled"]},
             transition("cancelled", a, "none"), atts # <<>>
      PROVE  IInv'
  <2>1. Last \in Attempt /\ Last.evid \in Evidence
    BY <1>4, LatestTyped DEF Attempt
  <2>2. a \in Attempt /\ Tame(a)
    BY <1>4, <2>1 DEF Attempt, Evidence, Tame, Verdicts
  <2>3. Moves(a, "cancelled", "none")
    BY <1>4, <2>2, TransitionMoves, FailuresTyped DEF Statuses, Outcomes
  <2>4. Settles(a, "cancelled", "none")
    BY <1>1, <1>2, <1>4, <2>2, <2>3, FailuresTyped DEF Settles, Outcomes, ghosts
  <2> QED BY <2>4, SettleKeeps
<1>5. CASE clo.pc \notin {"prepare", "admit"} /\ cancelCurrentTask
  <2>1. atts # <<>>
    BY <1>1, <1>5 DEF ClosureOK
  <2> QED BY <1>3, <1>4, <1>5, <2>1 DEF cancelCurrentTask
<1> QED BY <1>3, <1>5 DEF Unwind

LEMMA CloseKeeps == ASSUME IInv, Close PROVE IInv'
<1> USE DEF IInv
<1>1. /\ Turn /\ host' = "closing" /\ aborted' \in BOOLEAN /\ worker' = "none" /\ ~Refused
      /\ crashes' = crashes + 1 /\ crashes < MaxCrashes
      /\ UNCHANGED <<calls, clo, approving, world, ghosts, faults>>
  BY DEF Close, Turn, Refused
<1>2. Rests
  BY <1>1, BoundsAssumption DEF Rests, TypeOK, world, ghosts
<1>3. CASE UNCHANGED record
  BY <1>1, <1>2, <1>3, ReturnKeeps DEF Returns, ghosts, TypeOK
<1>4. CASE worker \in {"queued", "running"} /\ transition("aborted", Last, "other")
  <2>1. atts # <<>>
    BY <1>4 DEF ClosureOK
  <2> QED BY <1>1, <1>2, <1>4, <2>1, SettlesLast, FailuresTyped DEF Outcomes, ghosts
<1> QED BY <1>3, <1>4 DEF Close

LEMMA ClosedKeeps == ASSUME IInv, Closed PROVE IInv'
  BY ReturnKeeps
  DEF IInv, TypeOK, Closed, Forget, Returns, Rests, Refused, world, ghosts, bounds

LEMMA CrashKeeps == ASSUME IInv, Crash PROVE IInv'
<1>1. crashes' \in 0..MaxCrashes
  BY BoundsAssumption DEF IInv, TypeOK, Crash
<1> QED BY <1>1, ReturnKeeps
        DEF IInv, TypeOK, Crash, Forget, Tears, Returns, Rests, Refused, world

LEMMA JudgeFailsKeeps == ASSUME IInv, JudgeFails PROVE IInv'
<1>1. faults' \in 0..MaxFaults /\ host \in {"up", "closing"} /\ worker = "none"
  BY BoundsAssumption DEF IInv, TypeOK, ClosureOK, JudgeFails, Idle
<1> QED BY <1>1, ReturnKeeps
        DEF IInv, TypeOK, JudgeFails, Return, Tears, Returns, Rests, Refused, world

-----------------------------------------------------------------------------
(* Restarts, faults and the world. *)

LEMMA RestartKeeps == ASSUME IInv, Restart PROVE IInv'
<1> USE DEF IInv
<1>1. /\ host = "down" /\ host' = "up" /\ clo = Idle /\ ~aborted /\ worker = "none" /\ Turn
      /\ clo.pc = "idle" /\ ~clo.cont /\ clo.approved = {} /\ ~Refused
      /\ UNCHANGED <<calls, worker, approving, world, ghosts, bounds>>
  BY DEF Restart, ClosureOK, Turn, Idle, Refused
<1>2. CASE UNCHANGED <<record, clo, aborted>>
  <2>1. Count' = Count /\ Last' = Last /\ Interrupted' = Interrupted
    BY <1>2, RecordStays
  <2>2. ClosureOK' /\ WorkOK' /\ CheckingOK'
    BY <1>1, <1>2, <2>1 DEF ClosureOK, WorkOK, CheckingOK, record, world
  <2> QED BY <1>1, <1>2, <2>2, MoveKeeps DEF TypeOK
<1>3. CASE status = "verifying" /\ UNCHANGED record /\ Launch(FALSE)
  <2>1. Count' = Count /\ Last' = Last /\ Interrupted' = Interrupted
    BY <1>3, RecordStays
  <2>2. clo' \in Closure /\ clo'.pc = "prepare" /\ ~clo'.cont /\ clo'.approved = {}
          /\ aborted' = FALSE
    BY <1>3, IdleTyped DEF Launch, Closure, Idle
  <2>3. ClosureOK' /\ WorkOK' /\ CheckingOK'
    BY <1>1, <1>3, <2>1, <2>2 DEF ClosureOK, WorkOK, CheckingOK, record, world
  <2> QED BY <1>1, <1>3, <2>2, <2>3, MoveKeeps
<1>4. ASSUME status = "running", UNCHANGED <<clo, aborted>>,
             NEW f \in {"worker_interrupted", "unsafe_recovery"}, transition("blocked", Last, f)
      PROVE  IInv'
  <2>1. Rests /\ atts # <<>> /\ Fresh(Last)
    BY <1>1, <1>4 DEF Rests, RecordOK, WorkOK, TypeOK, world, ghosts, bounds
  <2> QED BY <1>1, <1>4, <2>1, SettlesLast, FailuresTyped DEF Outcomes, ghosts
<1> QED BY <1>2, <1>3, <1>4 DEF Restart, Reverify

LEMMA SumsAgree ==
    ASSUME NEW a \in Nat, NEW b \in Nat, NEW e \in Nat, NEW n \in Nat, NEW x \in Nat,
           b <= a + 1, a + x <= 2 + e + n
    PROVE  b + x <= 2 + (e + 1) + n
  OBVIOUS

LEMMA EditKeeps == ASSUME IInv, Edit PROVE IInv'
<1> USE DEF IInv
<1>1. UNCHANGED <<record, calls, host, memory, ghosts, bounds>> /\ edits' = edits + 1
        /\ edits < MaxEdits
  BY DEF Edit
<1>2. /\ art \in Nat /\ art' \in {art, art + 1} /\ art >= 2
      /\ defs \in Nat /\ defs' \in {defs, defs + 1} /\ defs >= 2
      /\ art + 1 <= art' + 1 /\ art' + defs <= art + defs + 1 /\ defs' + art' <= defs + art + 1
  BY AttemptAssumption, BoundsAssumption DEF Edit, TypeOK, Versions
<1>3. Count' = Count /\ Last' = Last /\ Interrupted' = Interrupted
  BY <1>1, RecordStays
<1>4. art <= 2 + edits + Count /\ defs <= 2 + edits /\ edits \in Nat /\ Count \in Nat
        /\ Count <= MaxAttempts
  BY <1>2, BoundsAssumption DEF WorkOK, TypeOK, Count
<1>5. TypeOK'
  <2>1. art' \in Versions /\ defs' \in Versions /\ edits' \in 0..MaxEdits
    BY <1>1, <1>2, <1>4, AttemptAssumption, BoundsAssumption DEF Versions
  <2> QED BY <1>1, <1>3, <2>1 DEF TypeOK, record, memory, ghosts, bounds
<1>6. RecordOK' /\ ClosureOK'
  BY <1>1, <1>3 DEF RecordOK, ClosureOK, Retriable, record, memory
<1>7. WorkOK'
  <2>1. art' + (IF atts # <<>> /\ ~Last.output THEN 1 ELSE 0) <= 2 + edits' + Count
    <3>1. art + (IF atts # <<>> /\ ~Last.output THEN 1 ELSE 0) <= 2 + edits + Count
      BY DEF WorkOK
    <3>2. art \in Nat /\ art' \in Nat /\ art' <= art + 1 /\ edits' = edits + 1
      BY <1>1, <1>2
    <3>3. (IF atts # <<>> /\ ~Last.output THEN 1 ELSE 0) \in Nat
      OBVIOUS
    <3> QED BY <1>4, <3>1, <3>2, <3>3, SumsAgree
  <2>2. defs' <= 2 + edits'
    BY <1>1, <1>2, <1>4
  <2> QED BY <1>1, <1>3, <2>1, <2>2 DEF WorkOK, record, memory
<1>8. CheckingOK'
  BY <1>1, <1>3 DEF CheckingOK, CheckState, CallOf, Approved, memory
<1>9. Mild
  BY <1>1, <1>2, <1>3 DEF Mild, SameAttempt, SameWork, CallsOK, record, memory, ghosts
<1>10. CandidateOK'
  BY <1>1, <1>3 DEF CandidateOK, Refused, record, memory, ghosts
<1> QED BY <1>5, <1>6, <1>7, <1>8, <1>9, <1>10, MildKeeps

\* The workspace of a first attempt cannot be prepared: the attempt is stillborn.
LEMMA StillbornKeeps ==
    ASSUME IInv, atts = <<>>, status' = "failed", event' = "other", UNCHANGED verified,
           atts' = <<[NewAttempt EXCEPT !.status = "failed",
                                        !.failure = "workspace_preparation_failed"]>>,
           clo' = Idle, worker' = "none", aborted' = FALSE, faults' \in 0..MaxFaults,
           UNCHANGED <<calls, host, approving, world, ghosts, crashes>>
    PROVE  IInv'
<1> USE DEF IInv
<1> DEFINE b == [NewAttempt EXCEPT !.status = "failed", !.failure = "workspace_preparation_failed"]
<1>1. /\ b \in Attempt /\ b.status = "failed" /\ b.ckpt = 0 /\ b.cand = 0 /\ ~b.output
      /\ b.approved = {} /\ b.evid.status = "none"
  BY NewTyped DEF Attempt, Statuses, Outcomes, Failures, NewAttempt, NoEvidence
<1>2. Count = 0 /\ Count' = 1 /\ Last' = b /\ atts' \in Seq(Attempt) /\ atts' # <<>>
        /\ atts'[1] = b
  BY <1>1 DEF Count, Last
<1> HIDE DEF b
<1>e. \A n \in 1..Count' : n = 1 /\ atts'[n] = b
  BY <1>2
<1>3. clo'.pc = "idle" /\ ~clo'.cont /\ clo'.approved = {} /\ clo' \in Closure
  BY IdleTyped DEF Idle
<1>4. TypeOK'
  <2>1. 1 <= MaxAttempts /\ "failed" \in Statuses
    BY AttemptAssumption DEF Statuses, Outcomes
  <2> QED BY <1>2, <1>3, <2>1 DEF TypeOK, world, ghosts
<1>5. RecordOK'
  BY <1>1, <1>2 DEF RecordOK
<1>6. ClosureOK'
  BY <1>2, <1>3 DEF ClosureOK
<1>7. WorkOK'
  <2>1. art <= 2 + edits /\ art \in Nat /\ edits \in Nat
    BY <1>2, AttemptAssumption, BoundsAssumption DEF WorkOK, TypeOK, Versions
  <2> QED BY <1>1, <1>2, <1>3, <2>1 DEF WorkOK, Interrupted, world
<1>8. StandardOK'
  <2>1. verified => std = 0
    BY <1>2 DEF StandardOK
  <2> QED BY <1>1, <1>e, <2>1 DEF StandardOK, ghosts
<1>9. CallsOK'
  <2>1. \A n \in 1..MaxAttempts, c \in Check : calls[n][c] = NoCall
    BY <1>2, AttemptAssumption DEF CallsOK
  <2>2. b.cand <= art
    BY <1>1, VersionsNat
  <2> QED BY <1>1, <1>2, <1>e, <1>3, <2>1, <2>2 DEF CallsOK, world, ghosts
<1>10. CheckingOK' /\ EvidenceOK' /\ CandidateOK'
  BY <1>1, <1>e, <1>3 DEF CheckingOK, EvidenceOK, CandidateOK
<1> QED BY <1>4, <1>5, <1>6, <1>7, <1>8, <1>9, <1>10

LEMMA FaultKeeps == ASSUME IInv, Fault PROVE IInv'
<1> USE DEF IInv
<1>1. /\ clo.pc \in {"prepare", "snapshot", "worker"} /\ host \in {"up", "closing"} /\ ~Refused
      /\ clo' = Idle /\ worker' = "none" /\ aborted' = FALSE
      /\ UNCHANGED <<calls, host, approving, world, ghosts, crashes>>
  BY DEF Fault, At, ClosureOK, TypeOK, Idle, Return, Refused
<1>2. faults' \in 0..MaxFaults
  BY BoundsAssumption DEF Fault, TypeOK
<1>3. Rests
  BY <1>1, <1>2 DEF Rests, TypeOK, world, ghosts
<1>4. CASE UNCHANGED record
  BY <1>1, <1>3, <1>4, ReturnKeeps DEF Returns, ghosts, TypeOK
<1>5. CASE clo.pc = "worker" /\ transition("failed", Last, "other")
  <2>1. atts # <<>>
    BY <1>5 DEF ClosureOK
  <2> QED BY <1>1, <1>3, <1>5, <2>1, SettlesLast, FailuresTyped DEF Outcomes, ghosts
<1>6. CASE /\ atts = <<>> /\ status' = "failed" /\ event' = "other" /\ UNCHANGED verified
           /\ atts' = <<[NewAttempt EXCEPT !.status = "failed",
                                           !.failure = "workspace_preparation_failed"]>>
  BY <1>1, <1>2, <1>6, StillbornKeeps
<1> QED BY <1>4, <1>5, <1>6 DEF Fault

LEMMA StutterKeeps == ASSUME IInv, UNCHANGED vars PROVE IInv'
<1> USE DEF IInv
<1>1. UNCHANGED <<record, calls, host, memory, world, ghosts, bounds>>
  BY DEF vars
<1>2. Count' = Count /\ Last' = Last /\ Interrupted' = Interrupted
  BY <1>1, RecordStays
<1>3. TypeOK'
  BY <1>1, <1>2 DEF TypeOK, record, memory, world, ghosts, bounds
<1>4. RecordOK' /\ ClosureOK' /\ WorkOK'
  BY <1>1, <1>2 DEF RecordOK, ClosureOK, WorkOK, Retriable, record, memory, world
<1>5. CheckingOK' /\ CandidateOK'
  BY <1>1, <1>2 DEF CheckingOK, CheckState, CallOf, Approved, CandidateOK, Refused,
                    record, memory, ghosts
<1>6. Mild
  BY <1>1, <1>2
     DEF Mild, SameAttempt, SameWork, CallsOK, TypeOK, Versions, record, memory, world,
       ghosts
<1> QED BY <1>3, <1>4, <1>5, <1>6, MildKeeps

-----------------------------------------------------------------------------
LEMMA InitEstablishes == Init => IInv
<1> SUFFICES ASSUME Init PROVE IInv
  OBVIOUS
<1>1. Count = 0 /\ atts = <<>> /\ clo = Idle /\ Idle.pc = "idle" /\ ~Idle.cont
        /\ Idle.approved = {}
  BY DEF Init, Count, Idle
<1>2. NoCall \in Call /\ Called(NoCall)
  BY DEF NoCall, Call, CallState, Called
<1>3. TypeOK
  <2>1. 2 \in Versions /\ 0 \in Fingerprints /\ "created" \in Statuses
    BY AttemptAssumption, BoundsAssumption DEF Versions, Fingerprints, Statuses
  <2>2. calls \in [1..MaxAttempts -> [Check -> Call]]
    BY <1>2 DEF Init
  <2>3. atts \in Seq(Attempt) /\ Count <= MaxAttempts
    BY <1>1, AttemptAssumption
  <2>4. 0 \in 0..MaxEdits /\ 0 \in 0..MaxCrashes /\ 0 \in 0..MaxFaults
    BY BoundsAssumption
  <2>5. clo \in Closure
    BY <1>1, IdleTyped
  <2> QED BY <2>1, <2>2, <2>3, <2>4, <2>5 DEF Init, TypeOK
<1>4. RecordOK /\ ClosureOK /\ WorkOK /\ StandardOK
  BY <1>1, AttemptAssumption, BoundsAssumption
  DEF Init, RecordOK, ClosureOK, WorkOK, StandardOK, Interrupted
<1>5. CallsOK
  BY <1>1, <1>2 DEF Init, CallsOK, NoCall
<1>6. CheckingOK /\ EvidenceOK /\ CandidateOK
  BY <1>1 DEF CheckingOK, EvidenceOK, CandidateOK
<1> QED BY <1>3, <1>4, <1>5, <1>6 DEF IInv

LEMMA NextKeeps == IInv /\ [Next]_vars => IInv'
<1> SUFFICES ASSUME IInv, [Next]_vars PROVE IInv'
  OBVIOUS
<1>1. CASE Start
  BY <1>1, StartKeeps
<1>2. CASE Work
  BY <1>2, PrepareKeeps, SubmitKeeps, WorkerBeginsKeeps, WorkerCompletesKeeps,
       CaptureKeeps,
     WorkerFailsKeeps DEF Work
<1>3. CASE Verify
  BY <1>3, ReuseKeeps, VerifyBeginsKeeps, CheckAnsweredKeeps, CheckBlockedKeeps,
       ExecuteKeeps,
     CheckEndsKeeps, VerifyEndsKeeps, JudgeKeeps, RepairKeeps DEF Verify
<1>4. CASE Approve \/ ApproveEnds \/ Resume \/ Admit \/ AdmitFails
  BY <1>4, ApproveKeeps, ApproveEndsKeeps, ResumeKeeps, AdmitKeeps, AdmitFailsKeeps
<1>5. CASE Cancel \/ Unwind \/ Close \/ Closed \/ Crash \/ Restart
  BY <1>5, CancelKeeps, UnwindKeeps, CloseKeeps, ClosedKeeps, CrashKeeps, RestartKeeps
<1>6. CASE Edit \/ Fault \/ JudgeFails
  BY <1>6, EditKeeps, FaultKeeps, JudgeFailsKeeps
<1>7. CASE UNCHANGED vars
  BY <1>7, StutterKeeps
<1> QED BY <1>1, <1>2, <1>3, <1>4, <1>5, <1>6, <1>7 DEF Next

\* The record, the closure in memory, the tool log and the workspace agree in
\* every reachable state, whatever crashes, faults and edits come between.
THEOREM Invariance == Spec => []IInv
  BY InitEstablishes, NextKeeps, PTL DEF Spec

\* Every variable of a task run keeps its type; there are never more attempts
\* than the contract allows.
THEOREM TypeCorrect == Spec => []TypeOK
<1>1. IInv => TypeOK
  BY DEF IInv
<1> QED BY <1>1, Invariance, PTL

\* A verified task is completed only on passed evidence for its last candidate,
\* by the standard of its first worker, with a passing call for each check.
THEOREM VerdictsProven == Spec => []CompletedOnEvidence
<1>1. ASSUME IInv, status = "completed", verified PROVE CompletedOnEvidence
  <2>1. atts # <<>> /\ Last.evid.status = "passed"
    BY <1>1 DEF IInv, RecordOK
  <2>2. Count \in 1..Count /\ atts[Count] = Last
    BY <1>1, <2>1, LatestTyped DEF IInv, Last
  <2>3. /\ Last.cand = Last.evid.art /\ Last.cand # 0 /\ Last.ckpt = std
        /\ \A c \in Check : /\ Passes(calls[Count][c])
                            /\ torn \/ calls[Count][c].on = Last.cand
    BY <1>1, <2>1, <2>2 DEF IInv, EvidenceOK, StandardOK
  <2> QED BY <2>1, <2>3 DEF CompletedOnEvidence, Passes
<1>2. IInv => CompletedOnEvidence
  BY <1>1 DEF CompletedOnEvidence
<1> QED BY <1>2, Invariance, PTL

\* A check's command is dispatched at most once per attempt, a privileged one
\* only after a user approved it.
THEOREM ChecksDispatchOnce == Spec => []ChecksRunOnce
<1>1. ASSUME IInv, NEW n \in 1..Count, NEW c \in Check PROVE
        /\ calls[n][c].runs <= 1
        /\ c \in Privileged /\ calls[n][c].runs = 1
             => \E v \in Versions : <<n, c, v>> \in consent
  <2>1. n \in 1..MaxAttempts
    BY <1>1, AttemptAssumption DEF IInv, TypeOK, Count
  <2> QED BY <1>1, <2>1 DEF IInv, CallsOK, Called
<1>2. IInv => ChecksRunOnce
  BY <1>1 DEF ChecksRunOnce
<1> QED BY <1>2, Invariance, PTL

-----------------------------------------------------------------------------
(* Workers are started from their prompt once. *)

StartedOnce == \A n \in 1..Count : atts[n].starts <= 1

LEMMA WriteStarts ==
    ASSUME TypeOK, StartedOnce, atts # <<>>, NEW a \in Attempt, atts' = Put(a), a.starts <= 1
    PROVE  StartedOnce'
<1>1. Wrote(a)
  BY PutWrites
<1> QED BY <1>1, WroteEach DEF StartedOnce

LEMMA TransitionStarts ==
    ASSUME TypeOK, StartedOnce, NEW a \in Attempt, NEW s \in Statuses, NEW f \in Failures,
           transition(s, a, f), a.starts <= 1
    PROVE  StartedOnce'
<1> DEFINE b == [a EXCEPT !.status = s, !.failure = f]
<1>1. b \in Attempt /\ b.starts = a.starts
  BY DEF Attempt
<1>2. CASE atts = <<>>
  BY <1>2 DEF transition, StartedOnce, Count
<1>3. CASE atts # <<>>
  BY <1>1, <1>3, WriteStarts DEF transition
<1> QED BY <1>2, <1>3

\* The latest attempt, or what a transaction makes of it, was started once.
LEMMA LastStarted ==
    ASSUME TypeOK, StartedOnce, atts # <<>>
    PROVE  Last \in Attempt /\ Last.starts <= 1 /\ Last.failure \in Failures
  BY LatestTyped DEF StartedOnce, Last, Attempt

LEMMA SameStarted ==
    ASSUME TypeOK, StartedOnce
    PROVE  Same \in Attempt /\ Same.starts <= 1
  BY LastStarted, NewTyped DEF Same, NewAttempt

LEMMA KeptStarts == ASSUME StartedOnce, UNCHANGED atts PROVE StartedOnce'
  BY DEF StartedOnce, Count

LEMMA SettledStarts ==
    ASSUME TypeOK, StartedOnce, atts # <<>>, NEW s \in Outcomes \cup {"needs_approval"},
           NEW f \in Failures, transition(s, Last, f)
    PROVE  StartedOnce'
<1>1. s \in Statuses
  BY DEF Statuses
<1> QED BY <1>1, LastStarted, TransitionStarts

LEMMA CreateStarts == ASSUME TypeOK, StartedOnce, createAttempt PROVE StartedOnce'
<1>1. Added /\ Count \in Nat /\ NewAttempt.starts = 0
  BY CreateAdds DEF TypeOK, Count, NewAttempt
<1>2. ASSUME NEW n \in 1..Count' PROVE atts'[n].starts <= 1
  <2>1. CASE n = Count'
    BY <1>1, <2>1 DEF Added, Last
  <2>2. CASE n # Count'
    <3>1. n \in 1..Count
      BY <1>1, <2>2 DEF Added
    <3> QED BY <1>1, <3>1 DEF Added, StartedOnce
  <2> QED BY <2>1, <2>2
<1> QED BY <1>2 DEF StartedOnce

LEMMA ConcludeStarts ==
    ASSUME TypeOK, StartedOnce, atts # <<>>, NEW s \in Verdicts, NEW v \in Fingerprints,
           NEW ask \in {0} \cup Check, Conclude(s, v, ask)
    PROVE  StartedOnce'
<1> DEFINE e == [status |-> s, art |-> v, ask |-> ask]
           b == [Last EXCEPT !.evid = e, !.cand = v, !.approved = clo.approved]
<1>1. e \in Evidence /\ clo.approved \in SUBSET Approval /\ Last \in Attempt
  BY LastStarted DEF Evidence, TypeOK, Closure
<1>2. b \in Attempt /\ b.starts <= 1
  BY <1>1, LastStarted DEF Attempt
<1>3. CASE UNCHANGED record
  BY <1>3, KeptStarts DEF record
<1>4. CASE atts' = Put(b)
  BY <1>2, <1>4, WriteStarts
<1> QED BY <1>3, <1>4 DEF Conclude

LEMMA WorkStarts == ASSUME IInv, StartedOnce, Work PROVE StartedOnce'
<1> USE DEF IInv
<1>1. CASE Prepare
  <2>1. status = "verifying" => atts # <<>>
    BY DEF RecordOK
  <2> QED BY <1>1, <2>1, SettledStarts, CreateStarts, KeptStarts, FailuresTyped
          DEF Prepare, blockUnsafeRecovery, Outcomes, record
<1>2. CASE Submit
  <2>1. atts # <<>> /\ clo.pc = "snapshot"
    BY <1>2 DEF Submit, At, ClosureOK
  <2>2. CASE blockUnsafeRecovery
    BY <2>1, <2>2, SettledStarts, FailuresTyped DEF blockUnsafeRecovery, Outcomes
  <2>3. CASE transition("running", [Last EXCEPT !.ckpt = StampOf], "none")
    <3>1. [Last EXCEPT !.ckpt = StampOf] \in Attempt
            /\ [Last EXCEPT !.ckpt = StampOf].starts <= 1
      BY <2>1, LastStarted, StampIsStandard DEF Attempt
    <3> QED BY <2>3, <3>1, TransitionStarts, FailuresTyped DEF Statuses
  <2> QED BY <1>2, <2>2, <2>3 DEF Submit, StampOf
<1>3. CASE WorkerBegins
  <2> DEFINE b == [Last EXCEPT !.began = TRUE, !.starts = IF clo.cont THEN @ ELSE @ + 1]
  <2>1. atts # <<>> /\ (~clo.cont => Last.starts = 0) /\ atts' = Put(b)
    BY <1>3 DEF WorkerBegins, ClosureOK
  <2>2. Last \in Attempt /\ Last.starts \in Nat /\ Last.starts <= 1
    BY <2>1, LastStarted DEF Attempt
  <2>3. LET k == IF clo.cont THEN Last.starts ELSE Last.starts + 1 IN k \in Nat /\ k <= 1
    BY <2>1, <2>2
  <2>4. b \in Attempt /\ b.starts <= 1
    BY <2>2, <2>3 DEF Attempt
  <2> HIDE DEF b
  <2> QED BY <2>1, <2>4, WriteStarts
<1>4. CASE WorkerCompletes
  <2>1. atts # <<>> /\ Projected \in Statuses
    BY <1>4 DEF WorkerCompletes, ClosureOK, Projected, Statuses, Outcomes
  <2>2. [Last EXCEPT !.output = TRUE] \in Attempt /\ [Last EXCEPT !.output = TRUE].starts <= 1
    BY <2>1, LastStarted DEF Attempt
  <2> QED BY <1>4, <2>1, <2>2, TransitionStarts, FailuresTyped DEF WorkerCompletes
<1>5. ASSUME NEW s \in {"failed", "incomplete"}, WorkerFails(s) PROVE StartedOnce'
  <2>1. atts # <<>>
    BY <1>5 DEF WorkerFails, ClosureOK
  <2> QED BY <1>5, <2>1, SettledStarts, FailuresTyped DEF WorkerFails, Outcomes
<1>6. CASE Capture
  <2>1. atts # <<>> /\ art \in Fingerprints
    BY <1>6, VersionsNat DEF Capture, At, ClosureOK, TypeOK
  <2>2. [Last EXCEPT !.cand = art] \in Attempt /\ [Last EXCEPT !.cand = art].starts <= 1
    BY <2>1, LastStarted DEF Attempt
  <2> QED BY <1>6, <2>1, <2>2, TransitionStarts, LastStarted, KeptStarts
             DEF Capture, Statuses, record
<1> QED BY <1>1, <1>2, <1>3, <1>4, <1>5, <1>6 DEF Work

LEMMA VerifyStarts == ASSUME IInv, StartedOnce, Verify PROVE StartedOnce'
<1> USE DEF IInv
<1>1. atts # <<>>
  BY DEF Verify, Reuse, VerifyBegins, CheckAnswered, CheckBlocked, executeTaskCheck,
       CheckEnds,
         VerifyEnds, Judge, Repair, Checking, At, ClosureOK
<1>2. CASE Reuse
  BY <1>1, <1>2, SettledStarts, LastStarted, KeptStarts DEF Reuse, Outcomes, record
<1>3. CASE VerifyBegins
  <2>1. art \in Fingerprints /\ Unavailable \in Fingerprints
    BY VersionsNat DEF TypeOK, Fingerprints
  <2> QED BY <1>1, <1>3, <2>1, ConcludeStarts, KeptStarts
             DEF VerifyBegins, Verdicts, record
<1>4. CASE \/ CheckAnswered \/ executeTaskCheck
           \/ \E r \in {"pass", "fail", "stuck"} : CheckEnds(r)
  BY <1>4, KeptStarts DEF CheckAnswered, executeTaskCheck, CheckEnds, record
<1>5. CASE CheckBlocked
  <2>1. clo.pc = "check" /\ clo.i <= NChecks
    BY <1>5 DEF CheckBlocked, Checking, At
  <2>2. clo.i \in Check /\ clo.fp \in Fingerprints
    BY <2>1, CheckingKnows, CheckAssumption DEF Check
  <2> QED BY <1>1, <1>5, <2>2, ConcludeStarts DEF CheckBlocked, Verdicts
<1>6. CASE VerifyEnds
  <2>1. clo.fp \in Fingerprints
    BY <1>6, CheckingKnows DEF VerifyEnds, At
  <2> QED BY <1>1, <1>6, <2>1, ConcludeStarts DEF VerifyEnds, Verdicts
<1>7. CASE Judge
  <2>1. CASE prepareVerificationRepair
    <3> DEFINE b == [Last EXCEPT !.status = "failed", !.failure = "verification_failed"]
    <3>1. b \in Attempt /\ b.starts <= 1
      BY <1>1, LastStarted, FailuresTyped DEF Attempt, Statuses, Outcomes
    <3> QED BY <1>1, <2>1, <3>1, WriteStarts DEF prepareVerificationRepair
  <2> QED BY <1>1, <1>7, <2>1, SettledStarts, FailuresTyped DEF Judge, Outcomes
<1>8. CASE Repair
  BY <1>8, CreateStarts DEF Repair
<1> QED BY <1>2, <1>3, <1>4, <1>5, <1>6, <1>7, <1>8 DEF Verify

LEMMA ControlStarts ==
    ASSUME IInv, StartedOnce,
           \/ Start \/ Approve \/ ApproveEnds \/ Resume \/ Admit \/ AdmitFails
           \/ Cancel \/ Unwind \/ Close \/ Closed \/ Crash \/ Restart
    PROVE  StartedOnce'
<1> USE DEF IInv
<1>1. status \in {"running", "verifying", "needs_approval"} => atts # <<>>
  BY DEF RecordOK
<1>2. CASE Start
  <2>1. CASE UNCHANGED atts
    BY <2>1, KeptStarts
  <2>2. CASE transition("blocked", Last, "unsafe_recovery") /\ atts # <<>>
    BY <2>2, SettledStarts, FailuresTyped DEF Outcomes
  <2> QED BY <1>1, <1>2, <2>1, <2>2 DEF Start, dispatchTaskRun
<1>3. CASE Approve \/ Resume \/ Closed \/ Crash
  BY <1>3, KeptStarts DEF Approve, Resume, Closed, Crash, record
<1>4. CASE ApproveEnds
  <2>1. CASE verificationApprovalState(approving) /\ approveVerification(approving)
          /\ ~UNCHANGED record
    <3> DEFINE b == [Last EXCEPT !.status = "verifying", !.approved = @ \cup {approving},
                                 !.failure = IF status = "verifying" THEN @ ELSE "none"]
    <3>1. atts # <<>> /\ approving \in Approval
      BY <1>1, <1>4, <2>1 DEF verificationApprovalState, ApproveEnds, TypeOK
    <3>2. Last \in Attempt /\ Last.starts <= 1
            /\ Last.approved \cup {approving} \in SUBSET Approval
      BY <3>1, LastStarted DEF Attempt
    <3>3. b \in Attempt /\ b.starts <= 1
      BY <3>2, FailuresTyped DEF Attempt, Statuses
    <3>4. atts' = Put(b)
      BY <2>1 DEF approveVerification
    <3> QED BY <3>1, <3>3, <3>4, WriteStarts
  <2> QED BY <1>4, <2>1, KeptStarts DEF ApproveEnds, record
<1>5. CASE Admit
  <2>1. CASE resumeWorkerAttempt
    <3> DEFINE b == [Last EXCEPT !.status = "running", !.failure = "none"]
    <3>1. atts # <<>> /\ atts' = Put(b)
      BY <2>1 DEF resumeWorkerAttempt, Interrupted
    <3>2. b \in Attempt /\ b.starts <= 1
      BY <3>1, LastStarted, FailuresTyped DEF Attempt, Statuses
    <3> QED BY <3>1, <3>2, WriteStarts
  <2> QED BY <1>5, <2>1, KeptStarts DEF Admit, record
<1>6. CASE AdmitFails
  BY <1>1, <1>6, SettledStarts, KeptStarts, FailuresTyped
  DEF AdmitFails, blockUnsafeRecovery, Outcomes, record
<1>7. CASE Cancel
  <2>1. CASE UNCHANGED record
    BY <2>1, KeptStarts DEF record
  <2>2. CASE transition("aborted", Same, "other") \/ transition("cancelled", Same, "none")
    BY <2>2, SameStarted, TransitionStarts, FailuresTyped DEF Statuses, Outcomes
  <2> QED BY <1>7, <2>1, <2>2 DEF Cancel
<1>8. CASE Unwind
  <2>1. CASE UNCHANGED record
    BY <2>1, KeptStarts DEF record
  <2>2. ASSUME NEW a \in {Last, [Last EXCEPT !.evid.status = "cancelled"]},
               transition("cancelled", a, "none"), atts # <<>>
        PROVE  StartedOnce'
    <3>1. Last \in Attempt /\ Last.evid \in Evidence /\ Last.starts <= 1
      BY <2>2, LastStarted DEF Attempt
    <3>2. a \in Attempt /\ a.starts <= 1
      BY <3>1 DEF Attempt, Evidence, Verdicts
    <3> QED BY <2>2, <3>2, TransitionStarts, FailuresTyped DEF Statuses, Outcomes
  <2>3. clo.pc \notin {"idle", "prepare"} => atts # <<>>
    BY DEF ClosureOK
  <2> QED BY <1>8, <2>1, <2>2, <2>3 DEF Unwind, cancelCurrentTask
<1>9. CASE Close
  <2>1. worker # "none" => atts # <<>>
    BY DEF ClosureOK
  <2> QED BY <1>9, <2>1, SettledStarts, KeptStarts, FailuresTyped
             DEF Close, Outcomes, record
<1>10. CASE Restart
  BY <1>1, <1>10, SettledStarts, KeptStarts, FailuresTyped DEF Restart, Outcomes, record
<1> QED BY <1>2, <1>3, <1>4, <1>5, <1>6, <1>7, <1>8, <1>9, <1>10

LEMMA NextStarts == ASSUME IInv, StartedOnce, [Next]_vars PROVE StartedOnce'
<1>1. CASE Edit \/ JudgeFails \/ UNCHANGED vars
  BY <1>1, KeptStarts DEF Edit, JudgeFails, vars, record
<1>2. CASE Fault
  <2>1. CASE UNCHANGED record
    BY <2>1, KeptStarts DEF record
  <2>2. CASE clo.pc = "worker" /\ transition("failed", Last, "other")
    BY <2>2, SettledStarts, FailuresTyped DEF IInv, ClosureOK, Outcomes
  <2>3. CASE atts' = <<[NewAttempt EXCEPT !.status = "failed",
                                          !.failure = "workspace_preparation_failed"]>>
    <3> DEFINE b == [NewAttempt EXCEPT !.status = "failed",
                                       !.failure = "workspace_preparation_failed"]
    <3>1. b.starts = 0
      BY DEF NewAttempt
    <3> HIDE DEF b
    <3>2. \A n \in 1..Count' : atts'[n] = b
      BY <2>3 DEF Count, b
    <3> QED BY <3>1, <3>2 DEF StartedOnce
  <2> QED BY <1>2, <2>1, <2>2, <2>3 DEF Fault
<1> QED BY <1>1, <1>2, WorkStarts, VerifyStarts, ControlStarts DEF Next

\* A worker is started from its prompt at most once per attempt, and an attempt
\* follows only on a failed verdict that stays on record.
THEOREM WorkNeverReplayed == Spec => []NoBlindReplay
<1>1. Init => StartedOnce
  BY DEF Init, StartedOnce, Count
<1>2. IInv /\ StartedOnce /\ [Next]_vars => StartedOnce'
  BY NextStarts
<1>3. IInv /\ StartedOnce => NoBlindReplay
  BY DEF IInv, RecordOK, FailedVerdict, StartedOnce, NoBlindReplay
<1> QED BY <1>1, <1>2, <1>3, Invariance, PTL DEF Spec

-----------------------------------------------------------------------------
(* Refinement: every step of the record is one of TaskOutcome, or none.    *)

Judged == [n \in 1..Count |-> atts[n].evid.status]
Keeps == [Promise!Next]_(Promise!vars)

LEMMA VerdictsOf ==
    ASSUME NEW s \in Seq(Attempt)
    PROVE  LET j == [n \in 1..Len(s) |-> s[n].evid.status] IN
           j \in Seq(Promise!Verdict) /\ Len(j) = Len(s)
             /\ \A n \in 1..Len(s) : j[n] = s[n].evid.status
<1> DEFINE j == [n \in 1..Len(s) |-> s[n].evid.status]
<1>1. \A n \in 1..Len(s) : s[n].evid.status \in Promise!Verdict
  <2>1. ASSUME NEW n \in 1..Len(s) PROVE s[n].evid.status \in {"none"} \cup Verdicts
    <3>1. s[n] \in Attempt
      OBVIOUS
    <3> QED BY <3>1 DEF Attempt, Evidence
  <2> QED BY <2>1 DEF Verdicts, Promise!Verdict
<1>2. j \in [1..Len(s) -> Promise!Verdict] /\ Len(s) \in Nat
  BY <1>1
<1>3. j \in Seq(Promise!Verdict) /\ Len(j) = Len(s)
  BY <1>2
<1> QED BY <1>3

LEMMA JudgedNow ==
    ASSUME TypeOK
    PROVE  /\ Judged \in Seq(Promise!Verdict) /\ Len(Judged) = Count
           /\ \A n \in 1..Count : Judged[n] = atts[n].evid.status
           /\ Judged = <<>> <=> atts = <<>>
<1>1. /\ Judged \in Seq(Promise!Verdict) /\ Len(Judged) = Count
      /\ \A n \in 1..Count : Judged[n] = atts[n].evid.status
  BY VerdictsOf DEF TypeOK, Judged, Count
<1>2. Judged = <<>> <=> atts = <<>>
  BY <1>1 DEF TypeOK, Count
<1> QED BY <1>1, <1>2

LEMMA PhaseNow ==
    ASSUME TypeOK
    PROVE  /\ isTerminal(status) /\ ~Interrupted => Phase = status
           /\ ~isTerminal(status) /\ status # "needs_approval" => Phase = "open"
           /\ status = "needs_approval" => Phase = "asking"
           /\ Interrupted => Phase = "interrupted"
  BY DEF Phase, Interrupted, isTerminal, Outcomes

LEMMA PhaseThen ==
    /\ isTerminal(status') /\ ~Interrupted' => Phase' = status'
    /\ ~isTerminal(status') /\ status' # "needs_approval" => Phase' = "open"
    /\ status' = "needs_approval" => Phase' = "asking"
    /\ Interrupted' => Phase' = "interrupted"
  BY DEF Phase, Interrupted, isTerminal, Outcomes

\* The verdicts after a write of the latest attempt.
LEMMA JudgedWrite ==
    ASSUME TypeOK, NEW a, Wrote(a)
    PROVE  /\ Judged' = [Judged EXCEPT ![Len(Judged)] = a.evid.status]
           /\ a.evid.status = Last.evid.status => Judged' = Judged
           /\ Judged # <<>> /\ Judged[Len(Judged)] = Last.evid.status
<1>1. /\ Count' = Count /\ Last' = a /\ Count \in 1..MaxAttempts
      /\ atts'[Count] = a /\ atts[Count] = Last
      /\ \A n \in 1..Count : n # Count => n < Count /\ atts'[n] = atts[n]
  BY WroteEach
<1>2. Len(Judged) = Count /\ Judged # <<>>
        /\ \A n \in 1..Count : Judged[n] = atts[n].evid.status
  BY JudgedNow DEF Wrote
<1>3. Judged' = [n \in 1..Count |-> atts'[n].evid.status]
  BY <1>1 DEF Judged
<1>4. Judged = [n \in 1..Count |-> atts[n].evid.status]
  BY DEF Judged
<1>5. Judged' = [Judged EXCEPT ![Count] = a.evid.status]
  BY <1>1, <1>3, <1>4
<1>6. a.evid.status = Last.evid.status => Judged' = Judged
  BY <1>1, <1>3, <1>4
<1> QED BY <1>1, <1>2, <1>5, <1>6, AttemptAssumption

LEMMA RecordKeeps == ASSUME UNCHANGED record PROVE Keeps
<1>1. Phase' = Phase /\ Judged' = Judged /\ verified' = verified
  BY RecordStays DEF Phase, Judged, record
<1> QED BY <1>1 DEF Keeps, Promise!vars, Judged

\* The latest attempt gets an outcome.
LEMMA OutcomeKeeps ==
    ASSUME TypeOK, NEW a \in Attempt, NEW s \in Outcomes, NEW f \in Failures, Moves(a, s, f),
           ~(s = "blocked" /\ f = "worker_interrupted"),
           atts # <<>> => \/ a.evid.status = Last.evid.status
                          \/ s = "cancelled" /\ a.evid.status = "cancelled",
           s = "completed" => /\ atts # <<>> /\ status # "needs_approval"
                              /\ verified => Last.evid.status = "passed"
    PROVE  Keeps
<1> DEFINE b == [a EXCEPT !.status = s, !.failure = f]
<1>1. /\ ~isTerminal(status) /\ status' = s /\ verified' = verified
      /\ \/ atts = <<>> /\ atts' = <<>>
         \/ atts # <<>> /\ Wrote(b)
  BY DEF Moves
<1>2. b.evid = a.evid /\ b.failure = f
  BY DEF Attempt
<1> HIDE DEF b
<1>3. Phase \in {"open", "asking"} /\ (status # "needs_approval" => Phase = "open")
  BY <1>1, PhaseNow
<1>4. Phase' = s
  <2>1. ~Interrupted'
    BY <1>1, <1>2, WroteEach DEF Interrupted
  <2> QED BY <1>1, <2>1, PhaseThen DEF isTerminal
<1>5. \/ Judged' = Judged
      \/ /\ s = "cancelled" /\ Judged # <<>>
         /\ Judged' = [Judged EXCEPT ![Len(Judged)] = "cancelled"]
  <2>1. CASE atts = <<>>
    BY <1>1, <2>1 DEF Judged, Count
  <2>2. CASE atts # <<>>
    BY <1>1, <1>2, <2>2, JudgedWrite
  <2> QED BY <2>1, <2>2
<1>6. s = "completed" => /\ Phase = "open" /\ Judged # <<>>
                         /\ verified => Judged[Len(Judged)] = "passed"
  BY <1>1, <1>3, JudgedWrite
<1>7. Promise!Settle(s)
  BY <1>1, <1>3, <1>4, <1>5, <1>6 DEF Promise!Settle, Promise!Latest, Judged
<1> QED BY <1>7 DEF Keeps, Promise!Next, Promise!Outcome, Outcomes

LEMMA LastKeeps ==
    ASSUME TypeOK, NEW s \in Outcomes, NEW f \in Failures, transition(s, Last, f), atts # <<>>,
           ~(s = "blocked" /\ f = "worker_interrupted"),
           s = "completed" => /\ status # "needs_approval"
                              /\ verified => Last.evid.status = "passed"
    PROVE  Keeps
<1>1. Last \in Attempt /\ s \in Statuses
  BY LatestTyped DEF Statuses
<1>2. Moves(Last, s, f)
  BY <1>1, TransitionMoves
<1> QED BY <1>1, <1>2, OutcomeKeeps

\* The latest attempt is written while the task is open, or opened again.
LEMMA OpenKeeps ==
    ASSUME TypeOK, NEW a \in Attempt, Wrote(a), verified' = verified,
           ~isTerminal(status') /\ status' # "needs_approval",
           ~isTerminal(status) \/ Interrupted,
           a.evid.status = Last.evid.status
    PROVE  Keeps
<1>1. Phase' = "open" /\ Judged' = Judged
  BY PhaseThen, JudgedWrite
<1>2. CASE Phase = "open"
  BY <1>1, <1>2 DEF Keeps, Promise!vars, Judged
<1>3. CASE Phase = "asking"
  BY <1>1, <1>3 DEF Keeps, Promise!Next, Promise!Answer, Judged
<1>4. CASE Phase = "interrupted"
  BY <1>1, <1>4 DEF Keeps, Promise!Next, Promise!Continue, Judged
<1> QED BY <1>2, <1>3, <1>4, PhaseNow

LEMMA CreateKeeps ==
    ASSUME TypeOK, createAttempt, status = "queued", atts = <<>> \/ Retriable
    PROVE  Keeps
<1>1. Added /\ status' = status /\ verified' = verified
  BY CreateAdds
<1>2. Phase = "open" /\ Phase' = "open"
  BY <1>1, PhaseNow, PhaseThen DEF isTerminal, Outcomes
<1>3. /\ Judged \in Seq(Promise!Verdict) /\ Len(Judged) = Count
      /\ \A n \in 1..Count : Judged[n] = atts[n].evid.status
      /\ Judged = <<>> <=> atts = <<>>
  BY JudgedNow
<1>4. Judged' = Append(Judged, "none")
  <2>1. /\ Count' = Count + 1 /\ atts'[Count'] = NewAttempt /\ Count \in Nat
        /\ \A n \in 1..Count : atts'[n] = atts[n]
    BY <1>1 DEF Added, Last, TypeOK, Count
  <2>2. Judged' = [n \in 1..Count' |-> atts'[n].evid.status]
    BY DEF Judged
  <2>3. NewAttempt.evid.status = "none"
    BY DEF NewAttempt, NoEvidence
  <2>4. Judged' = [n \in 1..(Count + 1) |-> IF n = Count + 1 THEN "none" ELSE Judged[n]]
    BY <1>3, <2>1, <2>2, <2>3
  <2>5. Append(Judged, "none") \in Seq(Promise!Verdict) /\ Judged' \in Seq(Promise!Verdict)
    <3>1. atts' \in Seq(Attempt)
      BY <1>1 DEF Added
    <3> QED BY <1>3, <3>1, VerdictsOf DEF Promise!Verdict, Judged, Count
  <2>6. Len(Append(Judged, "none")) = Count + 1 /\ Len(Judged') = Count + 1
    BY <1>3, <2>1, <2>4, <2>5, AppendProperties DEF Promise!Verdict
  <2>7. \A n \in 1..(Count + 1) : Append(Judged, "none")[n] = Judged'[n]
    BY <1>3, <2>1, <2>4, AppendProperties DEF Promise!Verdict
  <2> QED BY <2>5, <2>6, <2>7, SeqEqual
<1>5. Judged = <<>> \/ (Judged[Len(Judged)] = "failed" /\ Len(Judged) < MaxAttempts)
  <2>1. CASE atts = <<>>
    BY <1>3, <2>1
  <2>2. CASE Retriable /\ atts # <<>>
    BY <1>3, <2>2, LatestTyped DEF Retriable, FailedVerdict, Last
  <2> QED BY <2>1, <2>2
<1> QED BY <1>1, <1>2, <1>4, <1>5
        DEF Keeps, Promise!Next, Promise!Try, Promise!MayTry, Promise!Latest, Judged

LEMMA ConcludeJudges ==
    ASSUME IInv, NEW s \in Verdicts, NEW v \in Fingerprints, NEW ask \in {0} \cup Check,
           Conclude(s, v, ask), atts # <<>>
    PROVE  Keeps
<1> USE DEF IInv
<1> DEFINE e == [status |-> s, art |-> v, ask |-> ask]
           b == [Last EXCEPT !.evid = e, !.cand = v, !.approved = clo.approved]
<1>1. CASE UNCHANGED record
  BY <1>1, RecordKeeps
<1>2. CASE isCurrentAttempt /\ atts' = Put(b) /\ UNCHANGED <<verified, status>>
  <2>1. Last \in Attempt /\ e \in Evidence /\ clo.approved \in SUBSET Approval
    BY LatestTyped DEF Evidence, TypeOK, Closure
  <2>2. b \in Attempt /\ b.evid.status = s
    BY <2>1 DEF Attempt
  <2> HIDE DEF b
  <2>3. Wrote(b)
    BY <1>2, <2>2, PutWrites
  <2>4. Judged' = [Judged EXCEPT ![Len(Judged)] = s] /\ Judged # <<>>
    BY <2>2, <2>3, JudgedWrite
  <2>5. Phase = "open" /\ Phase' = "open"
    BY <1>2, PhaseNow, PhaseThen DEF isCurrentAttempt, isTerminal, Outcomes
  <2>6. Promise!Judge(s)
    BY <1>2, <2>4, <2>5 DEF Promise!Judge, Judged
  <2> QED BY <2>6 DEF Keeps, Promise!Next, Promise!Verdict, Verdicts
<1> QED BY <1>1, <1>2 DEF Conclude

\* While a task waits for a permission, no closure is at work.
AskingRests == status = "needs_approval" => clo.pc = "idle"

LEMMA AskingStays == ASSUME IInv, AskingRests, [Next]_vars PROVE AskingRests'
<1> USE DEF IInv
<1>1. CASE status' = "needs_approval" /\ ~UNCHANGED status
  <2>1. ASSUME NEW s, NEW a, NEW f, transition(s, a, f) PROVE status' = s
    BY <2>1 DEF transition
  <2>2. CASE Judge
    BY <1>1, <2>1, <2>2 DEF Judge, Return, Idle, prepareVerificationRepair, AskingRests
  <2>3. CASE Start \/ Work \/ (Verify /\ ~Judge)
    BY <1>1, <2>1, <2>3
    DEF Start, dispatchTaskRun, Work, Prepare, Submit, WorkerBegins, WorkerCompletes, Capture,
        WorkerFails, Verify, Reuse, VerifyBegins, CheckAnswered, CheckBlocked, executeTaskCheck,
        CheckEnds, VerifyEnds, Repair, Conclude, createAttempt, blockUnsafeRecovery,
        Projected, record
  <2>4. CASE \/ Approve \/ ApproveEnds \/ Resume \/ Admit \/ AdmitFails \/ Cancel \/ Unwind
             \/ Close \/ Closed \/ Crash \/ Restart \/ Edit \/ Fault \/ JudgeFails
             \/ UNCHANGED vars
    BY <1>1, <2>1, <2>4
    DEF Approve, ApproveEnds, approveVerification, Resume, Admit, resumeWorkerAttempt, AdmitFails,
        blockUnsafeRecovery, Cancel, Unwind, cancelCurrentTask, Close, Closed, Crash, Restart,
        Edit, Fault, JudgeFails, record, vars
  <2> QED BY <2>2, <2>3, <2>4 DEF Next
<1>2. CASE status = "needs_approval" /\ UNCHANGED status
  <2>1. clo.pc = "idle" /\ worker = "none"
    BY <1>2 DEF AskingRests, ClosureOK
  <2>2. ~Work /\ ~Verify /\ ~Resume /\ ~Admit /\ ~AdmitFails /\ ~Unwind /\ ~Fault /\ ~JudgeFails
    BY <1>2, <2>1
    DEF Work, Prepare, Submit, WorkerBegins, WorkerCompletes, Capture, WorkerFails, Verify, Reuse,
        VerifyBegins, CheckAnswered, CheckBlocked, executeTaskCheck, CheckEnds, VerifyEnds,
        Repair,
        Judge, Checking, At, Resume, Interrupted, Admit, AdmitFails, Unwind, Fault, JudgeFails
  <2>3. CASE Start
    BY <1>2, <2>1, <2>3 DEF Start, dispatchTaskRun, transition, AskingRests
  <2>4. CASE ApproveEnds
    <3>1. CASE UNCHANGED clo
      BY <2>1, <3>1 DEF AskingRests
    <3>2. CASE verificationApprovalState(approving) /\ approveVerification(approving)
      BY <1>2, <3>2 DEF approveVerification
    <3> QED BY <2>4, <3>1, <3>2 DEF ApproveEnds
  <2>5. CASE Approve \/ Cancel \/ Close \/ Closed \/ Crash \/ Restart \/ Edit \/ UNCHANGED vars
    BY <1>2, <2>1, <2>5
    DEF Approve, Cancel, Close, Closed, Crash, Forget, Restart, Edit, Idle, Reverify,
        memory, vars, AskingRests
  <2> QED BY <2>2, <2>3, <2>4, <2>5 DEF Next
<1> QED BY <1>1, <1>2 DEF AskingRests

LEMMA WorkKeeps == ASSUME IInv, AskingRests, Work PROVE Keeps
<1> USE DEF IInv
<1>1. CASE Prepare
  <2>1. status = "verifying" => atts # <<>>
    BY DEF RecordOK
  <2>2. clo.pc = "prepare"
    BY <1>1 DEF Prepare, At
  <2>3. CASE status = "verifying" /\ blockUnsafeRecovery
    BY <2>1, <2>3, LastKeeps, FailuresTyped DEF blockUnsafeRecovery, Outcomes
  <2>4. CASE UNCHANGED record
    BY <2>4, RecordKeeps
  <2>5. CASE status = "queued" /\ createAttempt
    BY <2>2, <2>5, CreateKeeps DEF ClosureOK
  <2> QED BY <1>1, <2>3, <2>4, <2>5 DEF Prepare
<1>2. CASE Submit
  <2>1. atts # <<>> /\ clo.pc = "snapshot"
    BY <1>2 DEF Submit, At, ClosureOK
  <2>2. CASE blockUnsafeRecovery
    BY <2>1, <2>2, LastKeeps, FailuresTyped DEF blockUnsafeRecovery, Outcomes
  <2>3. CASE transition("running", [Last EXCEPT !.ckpt = StampOf], "none")
    <3> DEFINE a == [Last EXCEPT !.ckpt = StampOf]
               b == [a EXCEPT !.status = "running", !.failure = "none"]
    <3>1. Last \in Attempt /\ a \in Attempt /\ a.evid = Last.evid
      BY <2>1, LatestTyped, StampIsStandard DEF Attempt
    <3>2. /\ Wrote(b) /\ b \in Attempt /\ status' = "running" /\ verified' = verified
          /\ ~isTerminal(status)
      BY <2>1, <2>3, <3>1, TransitionMoves, FailuresTyped DEF Moves, Statuses
    <3>3. b.evid = Last.evid
      BY <3>1 DEF Attempt
    <3> HIDE DEF b
    <3> QED BY <3>2, <3>3, OpenKeeps DEF isTerminal, Outcomes
  <2> QED BY <1>2, <2>2, <2>3 DEF Submit, StampOf
<1>3. CASE WorkerBegins
  <2> DEFINE b == [Last EXCEPT !.began = TRUE, !.starts = IF clo.cont THEN @ ELSE @ + 1]
  <2>1. atts # <<>> /\ atts' = Put(b) /\ UNCHANGED <<verified, status>>
    BY <1>3 DEF WorkerBegins, ClosureOK
  <2>2. Last \in Attempt /\ Last.starts \in Nat
    BY <2>1, LatestTyped DEF Attempt
  <2>3. (IF clo.cont THEN Last.starts ELSE Last.starts + 1) \in Nat
    BY <2>2
  <2>4. b \in Attempt /\ b.evid = Last.evid /\ b.failure = Last.failure
    BY <2>2, <2>3 DEF Attempt
  <2> HIDE DEF b
  <2>5. Wrote(b)
    BY <2>1, <2>4, PutWrites
  <2>6. Judged' = Judged /\ Last' = b /\ atts' # <<>>
    BY <2>4, <2>5, JudgedWrite, WroteEach
  <2>7. Phase' = Phase
    BY <2>1, <2>4, <2>6 DEF Phase, Interrupted
  <2> QED BY <2>1, <2>6, <2>7 DEF Keeps, Promise!vars, Judged
<1>4. CASE WorkerCompletes
  <2> DEFINE a == [Last EXCEPT !.output = TRUE]
             b == [a EXCEPT !.status = Projected, !.failure = "none"]
  <2>1. atts # <<>> /\ clo.pc = "worker" /\ transition(Projected, a, "none")
    BY <1>4 DEF WorkerCompletes, ClosureOK
  <2>2. Last \in Attempt /\ a \in Attempt /\ a.evid = Last.evid
    BY <2>1, LatestTyped DEF Attempt
  <2>3. Projected \in Statuses
    BY DEF Projected, Statuses, Outcomes
  <2>4. Moves(a, Projected, "none") /\ b \in Attempt /\ b.evid = Last.evid
    <3>1. Moves(a, Projected, "none") /\ b \in Attempt
      BY <2>1, <2>2, <2>3, TransitionMoves, FailuresTyped
    <3> QED BY <2>2, <3>1 DEF Attempt
  <2>5. status # "needs_approval"
    BY <2>1 DEF AskingRests
  <2>6. CASE verified
    <3>1. Wrote(b) /\ status' = "verifying" /\ verified' = verified /\ ~isTerminal(status)
      BY <2>1, <2>4, <2>6 DEF Moves, Projected
    <3> HIDE DEF b
    <3> QED BY <2>4, <3>1, OpenKeeps DEF isTerminal, Outcomes
  <2>7. CASE ~verified
    <3>1. Projected = "completed"
      BY <2>7 DEF Projected
    <3> HIDE DEF a
    <3> QED BY <2>1, <2>2, <2>4, <2>5, <2>7, <3>1, OutcomeKeeps, FailuresTyped
               DEF Outcomes
  <2> QED BY <2>6, <2>7
<1>5. ASSUME NEW s \in {"failed", "incomplete"}, WorkerFails(s) PROVE Keeps
  <2>1. atts # <<>>
    BY <1>5 DEF WorkerFails, ClosureOK
  <2> QED BY <1>5, <2>1, LastKeeps, FailuresTyped DEF WorkerFails, Outcomes
<1>6. CASE Capture
  <2> DEFINE a == [Last EXCEPT !.cand = art]
             b == [a EXCEPT !.status = "verifying", !.failure = Last.failure]
  <2>1. atts # <<>> /\ art \in Fingerprints
    BY <1>6, VersionsNat DEF Capture, At, ClosureOK, TypeOK
  <2>2. Last \in Attempt /\ a \in Attempt /\ a.evid = Last.evid /\ Last.failure \in Failures
    BY <2>1, LatestTyped DEF Attempt
  <2>3. CASE UNCHANGED record
    BY <2>3, RecordKeeps
  <2>4. CASE transition("verifying", a, Last.failure)
    <3>1. /\ Wrote(b) /\ b \in Attempt /\ status' = "verifying" /\ verified' = verified
          /\ ~isTerminal(status)
      BY <2>1, <2>2, <2>4, TransitionMoves DEF Moves, Statuses
    <3>2. b.evid = Last.evid
      BY <2>2 DEF Attempt
    <3> HIDE DEF b
    <3> QED BY <3>1, <3>2, OpenKeeps DEF isTerminal, Outcomes
  <2> QED BY <1>6, <2>3, <2>4 DEF Capture
<1> QED BY <1>1, <1>2, <1>3, <1>4, <1>5, <1>6 DEF Work

LEMMA VerifyKeeps == ASSUME IInv, AskingRests, Verify PROVE Keeps
<1> USE DEF IInv
<1>1. atts # <<>> /\ clo.pc # "idle"
  BY DEF Verify, Reuse, VerifyBegins, CheckAnswered, CheckBlocked, executeTaskCheck,
       CheckEnds,
         VerifyEnds, Judge, Repair, Checking, At, ClosureOK
<1>2. status # "needs_approval"
  BY <1>1 DEF AskingRests
<1>3. CASE Reuse
  <2>1. Last.failure \in Failures
    BY <1>1, LatestTyped DEF Attempt
  <2> QED BY <1>1, <1>2, <1>3, <2>1, LastKeeps, RecordKeeps DEF Reuse, Outcomes
<1>4. CASE VerifyBegins
  <2>1. art \in Fingerprints /\ Unavailable \in Fingerprints
    BY VersionsNat DEF TypeOK, Fingerprints
  <2> QED BY <1>1, <1>4, <2>1, ConcludeJudges, RecordKeeps DEF VerifyBegins, Verdicts
<1>5. CASE \/ CheckAnswered \/ executeTaskCheck
           \/ \E r \in {"pass", "fail", "stuck"} : CheckEnds(r)
  BY <1>5, RecordKeeps DEF CheckAnswered, executeTaskCheck, CheckEnds
<1>6. CASE CheckBlocked
  <2>1. clo.pc = "check" /\ clo.i <= NChecks
    BY <1>6 DEF CheckBlocked, Checking, At
  <2>2. clo.i \in Check /\ clo.fp \in Fingerprints
    BY <2>1, CheckingKnows, CheckAssumption DEF Check
  <2> QED BY <1>1, <1>6, <2>2, ConcludeJudges DEF CheckBlocked, Verdicts
<1>7. CASE VerifyEnds
  <2>1. clo.fp \in Fingerprints
    BY <1>7, CheckingKnows DEF VerifyEnds, At
  <2> QED BY <1>1, <1>7, <2>1, ConcludeJudges DEF VerifyEnds, Verdicts
<1>8. CASE Judge
  <2>1. CASE prepareVerificationRepair
    <3> DEFINE b == [Last EXCEPT !.status = "failed", !.failure = "verification_failed"]
    <3>1. Last \in Attempt
      BY <1>1, LatestTyped
    <3>2. b \in Attempt /\ b.evid = Last.evid
      BY <3>1, FailuresTyped DEF Attempt, Statuses, Outcomes
    <3>3. atts' = Put(b) /\ status = "verifying" /\ status' = "queued" /\ verified' = verified
      BY <2>1 DEF prepareVerificationRepair
    <3> HIDE DEF b
    <3>4. Wrote(b)
      BY <1>1, <3>2, <3>3, PutWrites
    <3> QED BY <3>2, <3>3, <3>4, OpenKeeps DEF isTerminal, Outcomes
  <2>2. CASE /\ Last.evid.status = "blocked"
             /\ transition("needs_approval", Last, "verification_permission_required")
    <3> DEFINE b == [Last EXCEPT !.status = "needs_approval",
                                 !.failure = "verification_permission_required"]
    <3>1. Last \in Attempt
      BY <1>1, LatestTyped
    <3>2. /\ b \in Attempt /\ b.evid = Last.evid /\ Wrote(b) /\ ~isTerminal(status)
          /\ status' = "needs_approval" /\ verified' = verified
      <4>1. Moves(Last, "needs_approval", "verification_permission_required") /\ b \in Attempt
        BY <2>2, <3>1, TransitionMoves, FailuresTyped DEF Statuses
      <4> QED BY <1>1, <3>1, <4>1 DEF Moves, Attempt
    <3> HIDE DEF b
    <3>3. Judged' = Judged /\ Judged # <<>> /\ Judged[Len(Judged)] = "blocked"
      BY <2>2, <3>2, JudgedWrite
    <3>4. Phase = "open" /\ Phase' = "asking"
      BY <1>2, <3>2, PhaseNow, PhaseThen
    <3> QED BY <3>2, <3>3, <3>4
               DEF Keeps, Promise!Next, Promise!Ask, Promise!Latest, Judged
  <2> QED BY <1>1, <1>2, <1>8, <2>1, <2>2, LastKeeps, FailuresTyped DEF Judge, Outcomes
<1>9. CASE Repair
  <2>1. status = "queued" /\ Retriable
    BY <1>9 DEF Repair, ClosureOK
  <2> QED BY <1>9, <2>1, CreateKeeps DEF Repair
<1> QED BY <1>3, <1>4, <1>5, <1>6, <1>7, <1>8, <1>9 DEF Verify

LEMMA ApprovalKeeps == ASSUME IInv, ApproveEnds PROVE Keeps
<1> USE DEF IInv
<1>1. CASE UNCHANGED record
  BY <1>1, RecordKeeps
<1>2. CASE verificationApprovalState(approving) /\ approveVerification(approving)
        /\ ~UNCHANGED record
  <2> DEFINE b == [Last EXCEPT !.status = "verifying", !.approved = @ \cup {approving},
                               !.failure = IF status = "verifying" THEN @ ELSE "none"]
  <2>1. atts # <<>> /\ approving \in Approval /\ status \in {"needs_approval", "verifying"}
    BY <1>2 DEF verificationApprovalState, ApproveEnds, TypeOK, RecordOK
  <2>2. Last \in Attempt /\ Last.approved \cup {approving} \in SUBSET Approval
    BY <2>1, LatestTyped DEF Attempt
  <2>3. b \in Attempt /\ b.evid = Last.evid
    BY <2>2, FailuresTyped DEF Attempt, Statuses
  <2>4. atts' = Put(b) /\ status' = "verifying" /\ verified' = verified
    BY <1>2 DEF approveVerification
  <2> HIDE DEF b
  <2>5. Wrote(b)
    BY <2>1, <2>3, <2>4, PutWrites
  <2> QED BY <2>1, <2>3, <2>4, <2>5, OpenKeeps DEF isTerminal, Outcomes
<1> QED BY <1>1, <1>2 DEF ApproveEnds

LEMMA ControlKeeps ==
    ASSUME IInv, Start \/ Approve \/ Resume \/ Admit \/ AdmitFails \/ Cancel \/ Unwind \/ Close
                 \/ Closed \/ Crash
    PROVE  Keeps
<1> USE DEF IInv
<1>1. status \in {"running", "verifying", "needs_approval"} => atts # <<>>
  BY DEF RecordOK
<1>2. CASE Start
  <2>1. CASE status \in {"created", "queued", "verifying"} /\ UNCHANGED <<verified, atts>>
             /\ status' \in {"queued", "verifying"}
    <3>1. Phase = "open" /\ Phase' = "open" /\ Judged' = Judged
      BY <2>1, PhaseNow, PhaseThen DEF isTerminal, Outcomes, Judged, Count
    <3> QED BY <2>1, <3>1 DEF Keeps, Promise!vars, Judged
  <2>2. CASE transition("blocked", Last, "unsafe_recovery") /\ atts # <<>>
    BY <2>2, LastKeeps, FailuresTyped DEF Outcomes
  <2> QED BY <1>1, <1>2, <2>1, <2>2 DEF Start, dispatchTaskRun
<1>3. CASE Approve \/ Resume \/ Closed \/ Crash
  BY <1>3, RecordKeeps DEF Approve, Resume, Closed, Crash
<1>4. CASE Admit
  <2>1. CASE resumeWorkerAttempt
    <3> DEFINE b == [Last EXCEPT !.status = "running", !.failure = "none"]
    <3>1. atts # <<>> /\ atts' = Put(b) /\ Interrupted /\ status' = "running"
            /\ verified' = verified
      BY <2>1 DEF resumeWorkerAttempt, Interrupted
    <3>2. Last \in Attempt
      BY <3>1, LatestTyped
    <3>3. b \in Attempt /\ b.evid = Last.evid
      BY <3>2, FailuresTyped DEF Attempt, Statuses
    <3> HIDE DEF b
    <3>4. Wrote(b)
      BY <3>1, <3>3, PutWrites
    <3> QED BY <3>1, <3>3, <3>4, OpenKeeps DEF isTerminal, Outcomes
  <2> QED BY <1>4, <2>1, RecordKeeps DEF Admit
<1>5. CASE AdmitFails
  BY <1>1, <1>5, LastKeeps, RecordKeeps, FailuresTyped
     DEF AdmitFails, blockUnsafeRecovery, Outcomes
<1>6. CASE Cancel
  <2>1. CASE UNCHANGED record
    BY <2>1, RecordKeeps
  <2>2. ASSUME NEW s \in {"aborted", "cancelled"}, NEW f \in {"other", "none"},
               transition(s, Same, f)
        PROVE  Keeps
    <3>1. Same \in Attempt /\ (atts # <<>> => Same = Last) /\ s \in Statuses /\ f \in Failures
      BY LatestTyped, NewTyped, FailuresTyped DEF Same, Statuses, Outcomes
    <3>2. Moves(Same, s, f)
      BY <2>2, <3>1, TransitionMoves
    <3> QED BY <3>1, <3>2, OutcomeKeeps DEF Outcomes
  <2> QED BY <1>6, <2>1, <2>2 DEF Cancel
<1>7. CASE Unwind
  <2>1. CASE UNCHANGED record
    BY <2>1, RecordKeeps
  <2>2. ASSUME NEW a \in {Last, [Last EXCEPT !.evid.status = "cancelled"]},
               transition("cancelled", a, "none"), atts # <<>>
        PROVE  Keeps
    <3>1. Last \in Attempt /\ Last.evid \in Evidence
      BY <2>2, LatestTyped DEF Attempt
    <3>2. a \in Attempt /\ a.evid.status \in {Last.evid.status, "cancelled"}
      BY <3>1 DEF Attempt, Evidence, Verdicts
    <3>3. Moves(a, "cancelled", "none")
      BY <2>2, <3>2, TransitionMoves, FailuresTyped DEF Statuses, Outcomes
    <3> QED BY <3>2, <3>3, OutcomeKeeps, FailuresTyped DEF Outcomes
  <2>3. clo.pc \notin {"idle", "prepare"} => atts # <<>>
    BY DEF ClosureOK
  <2> QED BY <1>7, <2>1, <2>2, <2>3 DEF Unwind, cancelCurrentTask
<1>8. CASE Close
  <2>1. worker # "none" => atts # <<>>
    BY DEF ClosureOK
  <2> QED BY <1>8, <2>1, LastKeeps, RecordKeeps, FailuresTyped DEF Close, Outcomes
<1> QED BY <1>2, <1>3, <1>4, <1>5, <1>6, <1>7, <1>8

LEMMA RecoveryKeeps == ASSUME IInv, Restart \/ Edit \/ Fault \/ JudgeFails PROVE Keeps
<1> USE DEF IInv
<1>1. CASE UNCHANGED record
  BY <1>1, RecordKeeps
<1>2. ASSUME status = "running",
             NEW f \in {"worker_interrupted", "unsafe_recovery"}, transition("blocked", Last, f)
      PROVE  Keeps
  <2>1. atts # <<>>
    BY <1>2 DEF RecordOK
  <2>2. CASE f = "unsafe_recovery"
    BY <1>2, <2>1, <2>2, LastKeeps, FailuresTyped DEF Outcomes
  <2>3. CASE f = "worker_interrupted"
    <3> DEFINE b == [Last EXCEPT !.status = "blocked", !.failure = f]
    <3>1. Last \in Attempt
      BY <2>1, LatestTyped
    <3>2. /\ b \in Attempt /\ Wrote(b) /\ b.evid = Last.evid /\ b.failure = f
          /\ status' = "blocked" /\ verified' = verified
      <4>1. Moves(Last, "blocked", f) /\ b \in Attempt
        BY <1>2, <3>1, TransitionMoves, FailuresTyped DEF Statuses, Outcomes
      <4> QED BY <2>1, <3>1, <4>1 DEF Moves, Attempt
    <3> HIDE DEF b
    <3>3. Interrupted'
      BY <2>3, <3>2, WroteEach DEF Interrupted
    <3>4. Phase = "open" /\ Phase' = "interrupted" /\ Judged' = Judged /\ Judged # <<>>
      BY <1>2, <3>2, <3>3, PhaseNow, PhaseThen, JudgedWrite DEF isTerminal, Outcomes
    <3> QED BY <3>2, <3>4 DEF Keeps, Promise!Next, Promise!Interrupt, Judged
  <2> QED BY <2>2, <2>3
<1>3. CASE Restart
  BY <1>1, <1>2, <1>3 DEF Restart
<1>4. CASE Fault
  <2>1. CASE clo.pc = "worker" /\ transition("failed", Last, "other")
    BY <2>1, LastKeeps, FailuresTyped DEF ClosureOK, Outcomes
  <2>2. CASE /\ status = "queued" /\ atts = <<>> /\ status' = "failed" /\ UNCHANGED verified
             /\ atts' = <<[NewAttempt EXCEPT !.status = "failed",
                                             !.failure = "workspace_preparation_failed"]>>
    <3> DEFINE b == [NewAttempt EXCEPT !.status = "failed",
                                       !.failure = "workspace_preparation_failed"]
    <3>1. b.evid.status = "none"
      BY DEF NewAttempt, NoEvidence
    <3> HIDE DEF b
    <3>2. atts' = <<b>>
      BY <2>2 DEF b
    <3>3. Judged = <<>> /\ Judged' = <<"none">>
      BY <2>2, <3>1, <3>2 DEF Judged, Count
    <3>4. Phase = "open" /\ Phase' = "failed"
      BY <2>2, PhaseNow, PhaseThen DEF isTerminal, Outcomes, Interrupted
    <3> QED BY <2>2, <3>3, <3>4 DEF Keeps, Promise!Next, Promise!Stillborn, Judged
  <2> QED BY <1>1, <1>4, <2>1, <2>2 DEF Fault
<1> QED BY <1>1, <1>3, <1>4 DEF Edit, JudgeFails

\* The record keeps the promise of TaskOutcome: an outcome is final, a verdict
\* is never skipped, and a task is tried again only after a failed verdict.
THEOREM RecordKeepsPromise == Spec => KeepsPromise
<1>1. Init => Promise!Init /\ AskingRests
  <2> SUFFICES ASSUME Init PROVE Promise!Init /\ AskingRests
    OBVIOUS
  <2>1. Judged = <<>>
    BY DEF Init, Judged, Count
  <2>2. Phase = "open"
    BY DEF Init, Phase, Interrupted, isTerminal, Outcomes
  <2> QED BY <2>1, <2>2 DEF Init, Promise!Init, AskingRests, Judged
<1>2. IInv /\ AskingRests /\ [Next]_vars => AskingRests'
  BY AskingStays
<1>3. IInv /\ AskingRests /\ [Next]_vars => [Promise!Next]_(Promise!vars)
  <2> SUFFICES ASSUME IInv, AskingRests, [Next]_vars PROVE Keeps
    BY DEF Keeps
  <2>1. CASE UNCHANGED vars
    BY <2>1, RecordKeeps DEF vars
  <2> QED BY <2>1, WorkKeeps, VerifyKeeps, ApprovalKeeps, ControlKeeps, RecoveryKeeps
             DEF Next
<1> QED BY <1>1, <1>2, <1>3, Invariance, PTL DEF Spec, KeepsPromise, Promise!Spec
=============================================================================

------------------------------ MODULE TaskRun ------------------------------
(***************************************************************************)
(* One task run: its durable record (src/src/runtime/TaskRunStore.ts), the *)
(* closure that works, verifies and repairs it                             *)
(* (src/src/runtime/TaskClosure.ts, taskVerification.ts), its dispatch,    *)
(* continuation, cancellation and shutdown                                 *)
(* (src/src/runtime/CommandRuntime.ts), the worker that executes an        *)
(* attempt (src/src/runtime/SubagentTaskManager.ts) and the recovery of a  *)
(* restarted Host (src/src/runtime/taskOperations.ts).                     *)
(*                                                                         *)
(* Between two awaits the code runs alone: such a stretch is one action.   *)
(* Where it makes two transactions, the closure stops at "judged" or       *)
(* "repair" in between: nothing but a crash comes there.  The workspace    *)
(* (the candidate artifacts, the definitions of the checks) is a version   *)
(* number, which a worker or an outsider increases.                        *)
(***************************************************************************)
EXTENDS Naturals, Sequences, FiniteSets

CONSTANTS
    NChecks,      \* the contract's checks are 1..NChecks, in this order
    Privileged,   \* the checks whose command needs a permission
    MaxAttempts,  \* contract.maxAttempts
    MaxEdits,     \* bound: changes of the workspace by outsiders
    MaxCrashes,   \* bound: deaths and stops of the Host
    MaxFaults     \* bound: failures of the file system

ASSUME CheckAssumption == NChecks \in Nat \ {0} /\ Privileged \subseteq 1..NChecks
ASSUME AttemptAssumption == MaxAttempts \in Nat \ {0}
ASSUME BoundsAssumption == MaxEdits \in Nat /\ MaxCrashes \in Nat /\ MaxFaults \in Nat

Check == 1..NChecks

VARIABLES
    verified,    \* the task definition has a verification contract
    status,      \* task_runs.status
    atts,        \* task_attempts, oldest first
    event,       \* type of the last task event: "repair" or another
    calls,       \* durable tool events of the checks, per attempt
    host,        \* "up", "closing" or "down"
    clo,         \* the live closure of the task: pc and locals
    aborted,     \* its abort signal
    worker,      \* the subagent that executes the current attempt
    approving,   \* the approval whose fingerprints are being computed
    art, defs,   \* versions of artifacts and check definitions on disk
    std,         \* ghost: definitions when the first worker was submitted
    consent,     \* ghost: approvals that a user confirmed
    torn,        \* ghost: a refused verdict was persisted, its settlement was not
    edits, crashes, faults

record == <<verified, status, atts, event>>
memory == <<clo, aborted, worker, approving>>
world == <<art, defs, edits>>
ghosts == <<std, consent, torn>>
bounds == <<crashes, faults>>
vars == <<record, calls, host, memory, world, ghosts, bounds>>

Outcomes == {"completed", "failed", "incomplete", "blocked", "aborted", "cancelled"}
Statuses == {"created", "queued", "running", "verifying", "needs_approval"} \cup Outcomes
isTerminal(s) == s \in Outcomes

Verdicts == {"passed", "failed", "blocked", "cancelled"}
\* ask: the check that waits for a permission.
NoEvidence == [status |-> "none", art |-> 0, ask |-> 0]

\* An approval names an attempt, a check and a candidate version.
None == <<>>

\* Versions count from 2: a fingerprint is 0 before it is persisted, and 1 is
\* the code's "unavailable".  ckpt is the definitions fingerprint of the worker
\* checkpoint, cand the fingerprint of the candidate artifacts; began says that
\* the worker's own session log exists; starts counts (as a ghost) how often
\* the attempt was started from a prompt.
Unavailable == 1
NewAttempt == [status |-> "queued", failure |-> "none", output |-> FALSE, ckpt |-> 0,
               cand |-> 0, approved |-> {}, evid |-> NoEvidence,
               began |-> FALSE, starts |-> 0]

\* The two tool calls a check may have: the original, and the approved one
\* that replaces a denied original.
NoCall == [orig |-> "none", okd |-> "none", on |-> 0, runs |-> 0]

Idle == [pc |-> "idle", cont |-> FALSE, approved |-> {}, fp |-> 0, i |-> 0]

Init ==
    /\ verified \in BOOLEAN
    /\ status = "created" /\ atts = <<>> /\ event = "other"
    /\ calls = [n \in 1..MaxAttempts |-> [c \in Check |-> NoCall]]
    /\ host = "up" /\ clo = Idle /\ aborted = FALSE
    /\ worker = "none" /\ approving = None
    /\ art = 2 /\ defs = 2 /\ std = 0 /\ consent = {} /\ torn = FALSE
    /\ edits = 0 /\ crashes = 0 /\ faults = 0

(***************************************************************************)
(* The durable record.                                                     *)
(***************************************************************************)
Count == Len(atts)
Last == atts[Count]
Put(a) == IF atts = <<>> THEN atts ELSE [atts EXCEPT ![Count] = a]

\* A move to another status: it carries the latest attempt with it and
\* overwrites its failure; a terminal status refuses it.
transition(s, a, failure) ==
    /\ ~isTerminal(status)
    /\ status' = s
    /\ atts' = IF atts = <<>> THEN atts
               ELSE Put([a EXCEPT !.status = s, !.failure = failure])
    /\ event' = "other"
    /\ UNCHANGED verified

\* The fields of the latest attempt, when there is one.
Same == IF atts = <<>> THEN NewAttempt ELSE Last

createAttempt ==
    /\ atts' = Append(atts, NewAttempt)
    /\ UNCHANGED <<verified, status, event>>

\* A queued task whose last attempt ended is run again only by the repair
\* that its verification evidence admits.
hasSafeQueuedTaskContinuation ==
    /\ atts # <<>> /\ Last.status = "failed" /\ event = "repair"
    /\ Last.evid.status = "failed" /\ Last.output
    /\ Last.evid.art = Last.cand

Interrupted ==
    status = "blocked" /\ atts # <<>> /\ Last.failure = "worker_interrupted"

(***************************************************************************)
(* The closure's control: an await ends, a synchronous stretch runs.       *)
(***************************************************************************)
Turn == clo.pc \notin {"judged", "repair"}
Live == Turn /\ host # "down"
Promised == clo.pc \notin {"idle", "admit"}
At(p) == Turn /\ clo.pc = p /\ ~aborted
Goto(p) == clo' = [clo EXCEPT !.pc = p]
Return == clo' = Idle /\ aborted' = FALSE
Stay == UNCHANGED aborted

isCurrentAttempt == status \in {"running", "verifying"}

Launch(cont) ==
    /\ clo' = [Idle EXCEPT !.pc = "prepare", !.cont = cont]
    /\ aborted' = FALSE

\* startTaskRun of a record that is not settled; a live closure is joined.
dispatchTaskRun ==
    /\ host = "up" /\ ~Promised
    /\ \/ /\ \/ status = "created" \/ status = "verifying"
             \/ status = "queued" /\ (atts = <<>> \/ hasSafeQueuedTaskContinuation)
          /\ status' = IF status = "created" THEN "queued" ELSE status
          /\ UNCHANGED <<verified, atts, event>>
          /\ Launch(FALSE)
       \/ /\ \/ status = "running"
             \/ status = "queued" /\ atts # <<>> /\ ~hasSafeQueuedTaskContinuation
          /\ transition("blocked", Last, "unsafe_recovery")
          /\ UNCHANGED <<clo, aborted>>
    /\ UNCHANGED <<calls, host, worker, approving, world, ghosts, bounds>>

Start == Live /\ dispatchTaskRun

(***************************************************************************)
(* Work: from the queue to a candidate.                                    *)
(***************************************************************************)
blockUnsafeRecovery == transition("blocked", Last, "unsafe_recovery") /\ Return

\* The task's workspace is there: runTaskClosure reads the record.
Prepare ==
    /\ At("prepare")
    /\ \/ /\ status = "verifying" /\ Last.cand = 0
          /\ blockUnsafeRecovery
       \/ /\ status = "verifying" /\ Last.cand # 0
          /\ clo' = [clo EXCEPT !.pc = "reuse", !.approved = Last.approved]
          /\ UNCHANGED record /\ Stay
       \/ /\ status = "running" /\ clo.cont
          /\ Goto("snapshot") /\ UNCHANGED record /\ Stay
       \/ /\ status = "queued"
          /\ createAttempt
          /\ Goto("snapshot") /\ Stay
    /\ UNCHANGED <<calls, host, worker, approving, world, ghosts, bounds>>

Candidates == {n \in 1..Count : atts[n].cand # 0}

\* The acceptance standard: the definitions the first candidate was made for.
persistedDefinitionFingerprint_Current == defs

persistedDefinitionFingerprint ==
    IF Candidates = {} THEN defs
    ELSE atts[CHOOSE n \in Candidates : \A k \in Candidates : n <= k].ckpt

\* The workspace is fingerprinted; the worker is submitted.
Submit ==
    /\ At("snapshot")
    /\ IF clo.cont /\ verified /\ Last.ckpt # defs
       THEN /\ blockUnsafeRecovery
            /\ UNCHANGED <<worker, std>>
       ELSE LET base == CASE clo.cont -> Last.ckpt
                          [] verified /\ ~clo.cont -> persistedDefinitionFingerprint
                          [] OTHER -> Unavailable
            IN  /\ transition("running", [Last EXCEPT !.ckpt = base], "none")
                /\ Goto("worker") /\ Stay
                /\ worker' = "queued"
                /\ std' = IF std = 0 THEN base ELSE std
    /\ UNCHANGED <<calls, host, approving, world, consent, torn, bounds>>

\* A slot is free: the worker starts, from its prompt or from its checkpoint.
WorkerBegins ==
    /\ Live /\ worker = "queued"
    /\ worker' = "running"
    /\ atts' = Put([Last EXCEPT !.began = TRUE,
                                !.starts = IF clo.cont THEN @ ELSE @ + 1])
    /\ UNCHANGED <<verified, status, event, calls, host, clo, aborted, approving,
                   world, ghosts, bounds>>

\* persistCompletion projects the result before the closure hears of it.
Projected_Unverified == "completed"

Projected == IF verified THEN "verifying" ELSE "completed"

WorkerCompletes ==
    /\ Live /\ worker = "running"
    /\ worker' = "done"
    /\ art' = art + 1
    /\ transition(Projected, [Last EXCEPT !.output = TRUE], "none")
    /\ UNCHANGED <<calls, host, clo, aborted, approving, defs, edits, ghosts, bounds>>

\* It fails, times out (also in the queue) or stops short of a result.
WorkerFails(s) ==
    /\ Live /\ worker \in {"queued", "running"}
    /\ s = "incomplete" => worker = "running"
    /\ worker' = "none"
    /\ transition(s, Last, "other")
    /\ Return
    /\ UNCHANGED <<calls, host, approving, world, ghosts, bounds>>

\* The worker's session is flushed and the candidate fingerprinted.
Capture ==
    /\ At("worker") /\ worker = "done"
    /\ worker' = "none"
    /\ IF verified /\ status # "cancelled"
       THEN /\ transition("verifying", [Last EXCEPT !.cand = art], Last.failure)
            /\ Goto("verify") /\ Stay
       ELSE UNCHANGED record /\ Return
    /\ UNCHANGED <<calls, host, approving, world, ghosts, bounds>>

(***************************************************************************)
(* Verification of the candidate.                                          *)
(***************************************************************************)
SameDefinitions == Last.ckpt = defs

\* Passed evidence of a resumed candidate still describes the workspace.
Reuse ==
    /\ At("reuse")
    /\ IF Last.evid.status = "passed" /\ SameDefinitions /\ Last.evid.art = art
       THEN transition("completed", Last, Last.failure) /\ Return
       ELSE UNCHANGED record /\ Goto("verify") /\ Stay
    /\ UNCHANGED <<calls, host, worker, approving, world, ghosts, bounds>>

\* The evidence is persisted unless the attempt was settled meanwhile.
Conclude(s, v, ask) ==
    IF isCurrentAttempt
    THEN /\ atts' = Put([Last EXCEPT !.evid = [status |-> s, art |-> v, ask |-> ask],
                                     !.cand = v, !.approved = clo.approved])
         /\ event' = "other"
         /\ Goto("judged") /\ Stay
         /\ UNCHANGED <<verified, status>>
    ELSE UNCHANGED record /\ Return

VerifyBegins ==
    /\ At("verify")
    /\ IF ~SameDefinitions THEN Conclude("blocked", Unavailable, 0)
       ELSE IF Last.cand # art THEN Conclude("blocked", art, 0)
       ELSE /\ clo' = [clo EXCEPT !.pc = "check", !.fp = art, !.i = 1]
            /\ UNCHANGED record /\ Stay
    /\ UNCHANGED <<calls, host, worker, approving, world, ghosts, bounds>>

Approved(c) == <<Count, c, clo.fp>> \in clo.approved

\* The tool call that answers for check c: an approved denial has a second one.
CallOf(c) == IF Approved(c) /\ calls[Count][c].orig = "denied" THEN "okd" ELSE "orig"
CheckState_OpenReruns(c) ==
    LET s == calls[Count][c][CallOf(c)] IN IF s = "open" THEN "none" ELSE s

CheckState(c) == calls[Count][c][CallOf(c)]
Checking == At("check") /\ clo.i <= NChecks

\* The durable tool log has the result: it is not run again.
CheckAnswered ==
    /\ Checking /\ CheckState(clo.i) \in {"pass", "fail"}
    /\ clo' = [clo EXCEPT !.i = @ + 1]
    /\ UNCHANGED <<record, calls, host, aborted, worker, approving, world, ghosts, bounds>>

\* Denied, without a usable result, or perhaps dispatched before a crash.
CheckBlocked ==
    /\ Checking /\ CheckState(clo.i) \in {"denied", "stuck", "open"}
    /\ Conclude("blocked", clo.fp, IF CheckState(clo.i) = "denied" THEN clo.i ELSE 0)
    /\ UNCHANGED <<calls, host, worker, approving, world, ghosts, bounds>>

\* The log knows nothing of it: it is admitted, or denied for want of permission.
executeTaskCheck ==
    /\ Checking /\ CheckState(clo.i) = "none"
    /\ IF clo.i \in Privileged /\ ~Approved(clo.i)
       THEN /\ calls' = [calls EXCEPT ![Count][clo.i].orig = "denied"]
            /\ UNCHANGED clo
       ELSE /\ LET k == [calls[Count][clo.i] EXCEPT ![CallOf(clo.i)] = "open"] IN
               calls' = [calls EXCEPT ![Count][clo.i] =
                            [k EXCEPT !.on = art, !.runs = k.runs + 1]]
            /\ Goto("running")
    /\ UNCHANGED <<record, host, aborted, worker, approving, world, ghosts, bounds>>

CheckEnds(r) ==
    /\ At("running")
    /\ calls' = [calls EXCEPT ![Count][clo.i] = [@ EXCEPT ![CallOf(clo.i)] = r]]
    /\ Goto("check")
    /\ UNCHANGED <<record, host, aborted, worker, approving, world, ghosts, bounds>>

VerifyEnds ==
    /\ At("check") /\ clo.i > NChecks
    /\ IF art # clo.fp \/ ~SameDefinitions THEN Conclude("blocked", clo.fp, 0)
       ELSE Conclude(IF \E c \in Check : CheckState(c) = "fail" THEN "failed" ELSE "passed",
                     clo.fp, 0)
    /\ UNCHANGED <<calls, host, worker, approving, world, ghosts, bounds>>

\* The verdict settles the task, asks for a permission, or schedules a repair.
prepareVerificationRepair_KeepsAttempt ==
    /\ status = "verifying"
    /\ status' = "queued" /\ event' = "repair"
    /\ UNCHANGED <<verified, atts>>

prepareVerificationRepair ==
    /\ status = "verifying"
    /\ status' = "queued" /\ event' = "repair"
    /\ atts' = Put([Last EXCEPT !.status = "failed", !.failure = "verification_failed"])
    /\ UNCHANGED verified

AttemptsLeft_OffByOne == Count <= MaxAttempts

AttemptsLeft == Count < MaxAttempts

Judge ==
    /\ clo.pc = "judged"
    /\ LET e == Last.evid IN
       \/ e.status = "passed" /\ transition("completed", Last, "none") /\ Return
       \/ /\ e.status = "blocked" /\ e.ask # 0
          /\ transition("needs_approval", Last, "verification_permission_required")
          /\ Return
       \/ /\ e.status = "blocked" /\ e.ask = 0
          /\ transition("blocked", Last, "verification_unavailable")
          /\ Return
       \/ /\ e.status = "failed" /\ ~AttemptsLeft
          /\ transition("incomplete", Last, "verification_failed")
          /\ Return
       \/ /\ e.status = "failed" /\ AttemptsLeft
          /\ prepareVerificationRepair
          /\ Goto("repair") /\ Stay
    /\ UNCHANGED <<calls, host, worker, approving, world, ghosts, bounds>>

Repair ==
    /\ clo.pc = "repair"
    /\ createAttempt
    /\ clo' = [Idle EXCEPT !.pc = "snapshot"]
    /\ UNCHANGED <<calls, host, aborted, worker, approving, world, ghosts, bounds>>

(***************************************************************************)
(* Approval of the one check that waits for a permission.                  *)
(***************************************************************************)
Pending == <<Count, Last.evid.ask, Last.evid.art>>

verificationApprovalState(id) ==
    /\ status \in {"needs_approval", "verifying"} /\ Last.status = status
    /\ verified /\ Last.evid.status = "blocked" /\ Last.evid.ask # 0
    /\ id = Pending /\ Last.cand = Last.evid.art

Approve ==
    /\ Live /\ host = "up" /\ approving = None /\ atts # <<>>
    /\ verificationApprovalState(Pending)
    /\ approving' = Pending
    /\ consent' = consent \cup {Pending}
    /\ UNCHANGED <<record, calls, host, clo, aborted, worker, world, std, torn, bounds>>

\* Its fingerprints are known; the record is read again before it is written.
approveVerification(id) ==
    IF status = "verifying" /\ id \in Last.approved THEN UNCHANGED record
    ELSE /\ status' = "verifying"
         /\ atts' = Put([Last EXCEPT !.status = "verifying", !.approved = @ \cup {id},
                 !.failure = IF status = "verifying" THEN @ ELSE "none"])
         /\ event' = "other"
         /\ UNCHANGED verified

ApproveEnds ==
    /\ Live /\ approving # None
    /\ approving' = None
    /\ IF art = approving[3] /\ SameDefinitions /\ verificationApprovalState(approving)
       THEN /\ approveVerification(approving)
            /\ IF host = "up" /\ ~Promised THEN Launch(FALSE) ELSE UNCHANGED <<clo, aborted>>
       ELSE UNCHANGED <<record, clo, aborted>>
    /\ UNCHANGED <<calls, host, worker, world, ghosts, bounds>>

(***************************************************************************)
(* Continuation of an interrupted worker.                                  *)
(***************************************************************************)
Resume ==
    /\ Live /\ host = "up" /\ clo.pc = "idle" /\ atts # <<>> /\ Last.ckpt # 0
    /\ status = "running" \/ Interrupted
    /\ clo' = [Idle EXCEPT !.pc = "admit"]
    /\ UNCHANGED <<record, calls, host, aborted, worker, approving, world, ghosts, bounds>>

resumeWorkerAttempt ==
    /\ Interrupted
    /\ status' = "running" /\ event' = "other"
    /\ atts' = Put([Last EXCEPT !.status = "running", !.failure = "none"])
    /\ UNCHANGED verified

Admit ==
    /\ At("admit") /\ host = "up"
    /\ \/ resumeWorkerAttempt
       \/ status = "running" /\ UNCHANGED record
    /\ Launch(TRUE)
    /\ UNCHANGED <<calls, host, worker, approving, world, ghosts, bounds>>

\* The checkpoint cannot be loaded, or the record changed meanwhile.
AdmitFails ==
    /\ At("admit")
    /\ IF status = "running" THEN blockUnsafeRecovery ELSE UNCHANGED record /\ Return
    /\ UNCHANGED <<calls, host, worker, approving, world, ghosts, bounds>>

(***************************************************************************)
(* Cancellation and shutdown.                                              *)
(***************************************************************************)
\* A live worker is aborted first, which settles the task as aborted.
Cancel ==
    /\ Live /\ host = "up" /\ ~aborted
    /\ clo.pc # "idle" \/ ~isTerminal(status)
    /\ aborted' = (clo.pc # "idle")
    /\ worker' = "none"
    /\ IF isTerminal(status) THEN UNCHANGED record
       ELSE transition(IF worker \in {"queued", "running"} THEN "aborted" ELSE "cancelled",
                       Same, IF worker \in {"queued", "running"} THEN "other" ELSE "none")
    /\ UNCHANGED <<calls, host, clo, approving, world, ghosts, bounds>>

\* cancelCurrentTask keeps a terminal outcome.
cancelCurrentTask ==
    IF isTerminal(status) THEN UNCHANGED record
    ELSE transition("cancelled",
            IF Last.evid.status # "none" \/ clo.pc \in {"verify", "check", "running"}
            THEN [Last EXCEPT !.evid.status = "cancelled"] ELSE Last, "none")

\* The abort signal ends the await the closure is in.
Unwind ==
    /\ Live /\ aborted /\ clo.pc # "idle"
    /\ IF clo.pc \in {"prepare", "admit"} THEN UNCHANGED record ELSE cancelCurrentTask
    /\ Return
    /\ UNCHANGED <<calls, host, worker, approving, world, ghosts, bounds>>

Close ==
    /\ Turn /\ host = "up" /\ crashes < MaxCrashes
    /\ host' = "closing"
    /\ aborted' = (clo.pc # "idle")
    /\ worker' = "none"
    /\ IF worker \in {"queued", "running"} THEN transition("aborted", Last, "other")
       ELSE UNCHANGED record
    /\ crashes' = crashes + 1
    /\ UNCHANGED <<calls, clo, approving, world, ghosts, faults>>

Forget ==
    /\ clo' = Idle /\ aborted' = FALSE /\ worker' = "none" /\ approving' = None
    /\ host' = "down"

Closed ==
    /\ host = "closing" /\ clo.pc = "idle"
    /\ Forget
    /\ UNCHANGED <<record, calls, world, ghosts, bounds>>

Tears == clo.pc = "judged" /\ Last.evid.status = "blocked"

Crash ==
    /\ host # "down" /\ crashes < MaxCrashes
    /\ Forget
    /\ torn' = (torn \/ Tears)
    /\ crashes' = crashes + 1
    /\ UNCHANGED <<record, calls, world, std, consent, faults>>

\* recoverTaskRuns: a candidate is verified again, a worker is never replayed.
Reverify_Left == UNCHANGED <<clo, aborted>>

Reverify == Launch(FALSE)

Restart ==
    /\ host = "down"
    /\ host' = "up"
    /\ \/ status = "verifying" /\ UNCHANGED record /\ Reverify
       \/ /\ status = "running"
          /\ \E resumable \in {FALSE, Last.began} :
                transition("blocked", Last,
                           IF resumable THEN "worker_interrupted" ELSE "unsafe_recovery")
          /\ UNCHANGED <<clo, aborted>>
       \/ /\ status \notin {"running", "verifying"}
          /\ UNCHANGED <<record, clo, aborted>>
    /\ UNCHANGED <<calls, worker, approving, world, ghosts, bounds>>

(***************************************************************************)
(* The world: outsiders edit the workspace; the file system fails.         *)
(***************************************************************************)
Edit ==
    /\ edits < MaxEdits
    /\ edits' = edits + 1
    /\ \/ art' = art + 1 /\ UNCHANGED defs
       \/ defs' = defs + 1 /\ UNCHANGED art
    /\ UNCHANGED <<record, calls, host, memory, ghosts, bounds>>

\* A failing preparation, fingerprint or flush ends the closure where it is;
\* only a first preparation records an attempt that failed, only a worker's
\* failed flush settles its attempt.
Fault ==
    /\ Turn /\ ~aborted /\ faults < MaxFaults
    /\ At("prepare") \/ At("snapshot") \/ (At("worker") /\ worker = "done")
    /\ faults' = faults + 1
    /\ worker' = "none"
    /\ \/ /\ clo.pc = "prepare" /\ status = "queued" /\ atts = <<>>
          /\ status' = "failed" /\ event' = "other"
          /\ atts' = <<[NewAttempt EXCEPT !.status = "failed",
                                          !.failure = "workspace_preparation_failed"]>>
          /\ UNCHANGED verified
       \/ clo.pc = "worker" /\ ~isTerminal(status) /\ transition("failed", Last, "other")
       \/ UNCHANGED record /\ (clo.pc = "prepare" => atts # <<>> \/ status # "queued")
    /\ Return
    /\ UNCHANGED <<calls, host, approving, world, ghosts, crashes>>

\* The write that settles a verdict fails: the closure ends with the record
\* still verifying.
JudgeFails ==
    /\ clo.pc = "judged" /\ faults < MaxFaults
    /\ faults' = faults + 1
    /\ torn' = (torn \/ Tears)
    /\ Return
    /\ UNCHANGED <<record, calls, host, worker, approving, world, std, consent, crashes>>

Verify ==
    \/ Reuse \/ VerifyBegins \/ CheckAnswered \/ CheckBlocked \/ executeTaskCheck
    \/ \E r \in {"pass", "fail", "stuck"} : CheckEnds(r)
    \/ VerifyEnds \/ Judge \/ Repair

Work ==
    \/ Prepare \/ Submit \/ WorkerBegins \/ WorkerCompletes \/ Capture
    \/ \E s \in {"failed", "incomplete"} : WorkerFails(s)

Next ==
    \/ Start \/ Work \/ Verify
    \/ Approve \/ ApproveEnds \/ Resume \/ Admit \/ AdmitFails
    \/ Cancel \/ Unwind \/ Close \/ Closed \/ Crash \/ Restart
    \/ Edit \/ Fault \/ JudgeFails

Spec == Init /\ [][Next]_vars

\* Every await of the closure ends (files are read, workers and checks have
\* time limits), a Host that stops or died is started again.
FairSpec ==
    /\ Spec
    /\ WF_vars(Work) /\ WF_vars(Verify) /\ WF_vars(Unwind)
    /\ WF_vars(ApproveEnds) /\ WF_vars(Admit \/ AdmitFails)
    /\ WF_vars(Closed) /\ WF_vars(Restart)

(***************************************************************************)
(* Properties.                                                             *)
(***************************************************************************)
Versions == 2..(2 + MaxAttempts + MaxEdits)
Fingerprints == {0, Unavailable} \cup Versions
Approval == (1..MaxAttempts) \X Check \X Fingerprints
Failures == {"none", "other", "unsafe_recovery", "worker_interrupted", "verification_failed",
             "verification_permission_required", "verification_unavailable",
             "workspace_preparation_failed"}
Evidence == [status : {"none"} \cup Verdicts, art : Fingerprints, ask : {0} \cup Check]
Attempt == [status : Statuses, failure : Failures, output : BOOLEAN, ckpt : Fingerprints,
            cand : Fingerprints, approved : SUBSET Approval, evid : Evidence,
            began : BOOLEAN, starts : Nat]
CallState == {"none", "denied", "open", "pass", "fail", "stuck"}
Call == [orig : CallState, okd : CallState, on : {0} \cup Versions, runs : Nat]
Closure == [pc : {"idle", "admit", "prepare", "snapshot", "worker", "reuse", "verify", "check",
                  "running", "judged", "repair"},
            cont : BOOLEAN, approved : SUBSET Approval, fp : {0} \cup Versions,
            i : 0..(NChecks + 1)]

\* Types of the record, of the tool log and of the Host's memory: there are at
\* most MaxAttempts attempts, and only a worker or an outsider makes a version.
TypeOK ==
    /\ verified \in BOOLEAN /\ status \in Statuses /\ event \in {"repair", "other"}
    /\ atts \in Seq(Attempt) /\ Count <= MaxAttempts
    /\ calls \in [1..MaxAttempts -> [Check -> Call]]
    /\ host \in {"up", "closing", "down"} /\ clo \in Closure
    /\ aborted \in BOOLEAN /\ worker \in {"none", "queued", "running", "done"}
    /\ approving = None \/ approving \in Approval
    /\ art \in Versions /\ defs \in Versions
    /\ std \in Fingerprints /\ consent \subseteq Approval /\ torn \in BOOLEAN
    /\ edits \in 0..MaxEdits /\ crashes \in 0..MaxCrashes /\ faults \in 0..MaxFaults

\* A task with a contract is completed only on passed evidence for its last
\* candidate, with a passing call for each check, judged by the definitions
\* that stood before its first worker ran; and the calls saw the very artifacts
\* that the evidence names, unless a refused verdict was torn.  It holds through
\* repairs, approvals, crashes and edits by outsiders.
CompletedOnEvidence ==
    (status = "completed" /\ verified) =>
        /\ Last.evid.status = "passed" /\ Last.cand = Last.evid.art /\ Last.ckpt = std
        /\ \A c \in Check :
            /\ "pass" \in {calls[Count][c].orig, calls[Count][c].okd}
            /\ torn \/ calls[Count][c].on = Last.evid.art

\* taskVerification.ts says of artifacts that changed before verification: "the
\* captured candidate, approval or evidence cannot be reused".  So the checks of
\* a completed task all ran on the artifacts its evidence names.
ChangedCandidateNotReused ==
    (status = "completed" /\ verified) =>
        \A c \in Check : calls[Count][c].on = Last.evid.art

\* A check's command is dispatched at most once for an attempt, whatever
\* crash, resumption or approval comes between its dispatch and its result;
\* and a privileged one only after a user approved it for that candidate.
ChecksRunOnce ==
    \A n \in 1..Count, c \in Check :
        /\ calls[n][c].runs <= 1
        /\ (c \in Privileged /\ calls[n][c].runs = 1) =>
              \E v \in Versions : <<n, c, v>> \in consent

\* A worker is started from its prompt at most once per attempt, and a new
\* attempt exists only where every earlier one ended in a failed verdict that
\* is still on record: unknown side effects are never replayed.
NoBlindReplay ==
    \A n \in 1..Count :
        /\ atts[n].starts <= 1
        /\ n < Count =>
            /\ atts[n].status = "failed" /\ atts[n].failure = "verification_failed"
            /\ atts[n].evid.status = "failed"

\* A task under work or under verification comes to rest in a bounded number
\* of crashes, restarts and cancellations, unless a file operation failed.
ComesToRest ==
    (status \in {"running", "verifying"}) ~>
        (status \notin {"running", "verifying"} \/ faults > 0)

(***************************************************************************)
(* The record keeps the promise of TaskOutcome.                            *)
(***************************************************************************)
Phase ==
    CASE Interrupted -> "interrupted"
      [] isTerminal(status) /\ ~Interrupted -> status
      [] status = "needs_approval" -> "asking"
      [] OTHER -> "open"

Promise == INSTANCE TaskOutcome WITH
    MaxTries <- MaxAttempts, checked <- verified, phase <- Phase,
    verdicts <- [n \in 1..Count |-> atts[n].evid.status]

\* No late result, cancellation, shutdown or recovery takes back an outcome,
\* skips a verdict or tries again without one.
KeepsPromise == Promise!Spec
=============================================================================

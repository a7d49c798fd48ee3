---------------------------- MODULE SessionGoal ----------------------------
(***************************************************************************)
(* The durable goal of one session (src/src/runtime/SessionGoalStore.ts),   *)
(* the runner that starts a turn after a turn for it                       *)
(* (src/src/runtime/SessionGoalRunner.ts), and the run rows it reads       *)
(* (src/src/runtime/RuntimeAuthority.ts).                                  *)
(*                                                                         *)
(* A goal has a generation that grows with every edit and every resume.    *)
(* Goal and generation are the source of a chain of runs: the id of a run  *)
(* is a hash of the source and of the previous run of that source, so the  *)
(* program can tell a continuation it has already admitted.  The runner    *)
(* awaits several times between seeing an active goal and submitting a     *)
(* turn; between two awaits users, other runs, child agents, a shutdown    *)
(* or a crash may change everything it has seen.                           *)
(***************************************************************************)
EXTENDS Naturals, Sequences, FiniteSets

CONSTANTS
    GoalId,         \* identities of goals, drawn fresh
    Objective,      \* texts of goals
    Budget,         \* token budgets a user may set
    UsageId,        \* identities of model requests that can report usage
    NoGoal, NoId, NoObjective, NoRequest, NoUsage, NoChild,
    Results,        \* bound: results that turns for a goal end with
    MayQueue,       \* bound: whether users queue messages
    MaxGeneration,  \* bound: edits and resumes of one goal
    MaxRuns,        \* bound: rows of agent_runs in this session
    MaxStarts       \* bound: how often the Host starts

NoBudget == 0
NoRun == 0

ASSUME BudgetAssumption == Budget \subseteq Nat \ {NoBudget}
ASSUME NullAssumption ==
    /\ NoId \notin GoalId
    /\ NoObjective \notin Objective
ASSUME BoundsAssumption ==
    MayQueue \in BOOLEAN /\ MaxGeneration \in Nat \ {0} /\ MaxRuns \in Nat /\ MaxStarts \in Nat

VARIABLES
    goal,       \* the row of session_goals
    issued,     \* identities goals were created with
    usage,      \* the rows of session_goal_usage
    runs,       \* the rows of agent_runs in rowid order, with the JSONL fact of each
    unsafe,     \* the last interrupted turn left side effects that are unknown
    host,       \* life of the Host process
    starts,     \* how often it started
    active,     \* the run that holds the session, by its row
    cancel,     \* how the active run was cancelled
    queue,      \* messages a user queued behind the active run
    bound,      \* runSessionGoalId: the goal that the active run works for
    request,    \* the last model request of the active run
    child,      \* a child agent bound to a goal
    scheduled,  \* SessionGoalRunner.scheduled: a tick is pending
    rerun,      \* SessionGoalRunner.rerun
    phase,      \* the await at which SessionGoalRunner.advance stands
    initial     \* goal and generation that advance was called with

store == <<goal, issued, usage>>
ledger == <<runs, unsafe>>
runtime == <<active, cancel, queue, bound, request, child>>
runner == <<rerun, phase, initial>>
vars == <<store, ledger, host, starts, runtime, scheduled, runner>>

Generation == 1 .. MaxGeneration
GoalStatus == {"active", "paused", "blocked", "budget_limited", "completed"}

\* Terminal results by what the runner tells apart: a turn with or without a
\* work tool, a provider that returned nothing, a failure, a cancellation.
Continuable == {"worked", "idle", "empty"}
Terminal == Continuable \cup {"failed", "cancelled"}
ASSUME ResultsAssumption == Results \subseteq Terminal

Goal == [id : GoalId, generation : Generation, status : GoalStatus, objective : Objective,
         budget : Budget \cup {NoBudget}, used : Nat, known : BOOLEAN]

Run == [goal : GoalId \cup {NoId}, generation : 0 .. MaxGeneration, prior : 0 .. MaxRuns,
        followup : BOOLEAN, objective : Objective \cup {NoObjective},
        row : Terminal \cup {"admitted"}, fact : Terminal \cup {"none"}]

Ticket == [id : GoalId, generation : Generation]
Seen == [id : GoalId, generation : Generation, objective : Objective]
Request == [open : BOOLEAN, charged : GoalId \cup {NoId}, seen : Seen \cup {NoGoal}]
Child == [id : GoalId, open : BOOLEAN]

ASSUME RecordsAssumption ==
    /\ NoGoal \notin Goal \cup Ticket \cup Seen
    /\ NoRequest \notin Request
    /\ NoChild \notin Child
    /\ NoUsage \notin [goal : GoalId, known : BOOLEAN]

\* The awaits of the body that the runner dispatched to the session's lane.
InLane == {"admitted", "reading", "safe", "unsafe", "reconciling"}

TypeOK ==
    /\ goal \in Goal \cup {NoGoal}
    /\ issued \subseteq GoalId
    /\ usage \in [UsageId -> [goal : GoalId, known : BOOLEAN] \cup {NoUsage}]
    /\ runs \in Seq(Run) /\ Len(runs) <= MaxRuns
    /\ unsafe \in BOOLEAN
    /\ host \in {"down", "up", "draining"}
    /\ starts \in 0 .. MaxStarts
    /\ active \in 0 .. Len(runs)
    /\ cancel \in {"none", "paused", "other"}
    /\ queue \in {"none", "pending", "held"}
    /\ bound \in GoalId \cup {NoId}
    /\ request \in Request \cup {NoRequest}
    /\ child \in Child \cup {NoChild}
    /\ scheduled \in BOOLEAN
    /\ rerun \in BOOLEAN
    /\ phase \in {"idle", "resolving", "waiting", "queued"} \cup InLane
    /\ initial \in Ticket \cup {NoGoal}

Init ==
    /\ goal = NoGoal /\ issued = {}
    /\ usage = [u \in UsageId |-> NoUsage]
    /\ runs = <<>> /\ unsafe = FALSE
    /\ host = "down" /\ starts = 0
    /\ active = NoRun /\ cancel = "none" /\ queue = "none"
    /\ bound = NoId /\ request = NoRequest /\ child = NoChild
    /\ scheduled = FALSE /\ rerun = FALSE /\ phase = "idle" /\ initial = NoGoal

-----------------------------------------------------------------------------
(* What the handlers read.                                                 *)

HasGoal == goal # NoGoal
GoalActive == HasGoal /\ goal.status = "active"

\* The per-session lane: the body that the runner dispatched to it holds it.
LaneFree == phase \notin InLane

CanStart == host = "up"

\* requestTick: ignored unless the Host may start runs.
Wake == scheduled' = (scheduled \/ CanStart)

Limited(g) == g.budget # NoBudget
Exhausted(g) == Limited(g) /\ g.used >= g.budget
Unaccountable(g) == Limited(g) /\ ~ g.known

\* sessionGoalBudgetStopped for requests that were bound to goal id.
BudgetStopped(id) ==
    /\ HasGoal
    /\ goal.id = id
    /\ goal.status # "completed"
    /\ goal.status = "budget_limited" \/ Unaccountable(goal)

-----------------------------------------------------------------------------
(* SessionGoalStore: what users do.  Every call is one transaction.        *)

SetStatus(g) ==
    IF Unaccountable(g) THEN "blocked" ELSE IF Exhausted(g) THEN "budget_limited" ELSE g.status

\* A completed goal is replaced; any other is edited and keeps its identity,
\* its usage and its status.
Fresh(id, o, b) ==
    [id |-> id, generation |-> 1, status |-> "active", objective |-> o, budget |-> b,
     used |-> 0, known |-> TRUE]

\* Mutant: an edit keeps the status whatever the new budget is.
Edited_KeepsStatus(o, b) ==
    [goal EXCEPT !.objective = o, !.budget = IF b = NoBudget THEN @ ELSE b, !.generation = @ + 1]

\* Mutant: an edit keeps the generation.
Edited_KeepsGeneration(o, b) ==
    LET g == [goal EXCEPT !.objective = o, !.budget = IF b = NoBudget THEN @ ELSE b]
    IN  [g EXCEPT !.status = SetStatus(g)]

Edited(o, b) ==
    LET g == [goal EXCEPT !.objective = o, !.budget = IF b = NoBudget THEN @ ELSE b,
                          !.generation = @ + 1]
    IN  [g EXCEPT !.status = SetStatus(g)]

Replaceable == HasGoal => goal.status = "completed"

CreateGoal(o, b) ==
    /\ host = "up" /\ LaneFree
    /\ Replaceable
    /\ \E id \in GoalId \ issued :
          /\ goal' = Fresh(id, o, b)
          /\ issued' = issued \cup {id}
    /\ Wake
    /\ UNCHANGED <<usage, ledger, host, starts, runtime, runner>>

EditGoal(o, b) ==
    /\ host = "up" /\ LaneFree
    /\ ~ Replaceable
    /\ goal.generation < MaxGeneration
    /\ Edited(o, b).objective # goal.objective \/ Edited(o, b).budget # goal.budget
    /\ goal' = Edited(o, b)
    /\ Wake
    /\ UNCHANGED <<issued, usage, ledger, host, starts, runtime, runner>>

\* The run of an active goal is cancelled with the reason "paused".
CancelToPause ==
    cancel' = IF GoalActive /\ active # NoRun /\ cancel = "none" THEN "paused" ELSE cancel

PauseGoal ==
    /\ host # "down" /\ LaneFree
    /\ HasGoal /\ goal.status \notin {"completed", "paused"}
    /\ goal' = [goal EXCEPT !.status = "paused"]
    /\ CancelToPause
    /\ Wake
    /\ UNCHANGED <<issued, usage, ledger, host, starts, active, queue, bound, request, child, runner>>

\* run.cancel: the goal is paused before the run is cancelled.
CancelRun(reason) ==
    /\ host # "down" /\ LaneFree
    /\ active # NoRun
    /\ cancel' = IF cancel = "none" THEN reason ELSE cancel
    /\ goal' = IF GoalActive THEN [goal EXCEPT !.status = "paused"] ELSE goal
    /\ Wake
    /\ UNCHANGED <<issued, usage, ledger, host, starts, active, queue, bound, request, child, runner>>

ClearGoal ==
    /\ host # "down" /\ LaneFree
    /\ HasGoal
    /\ goal' = NoGoal
    /\ CancelToPause
    /\ Wake
    /\ UNCHANGED <<issued, usage, ledger, host, starts, active, queue, bound, request, child, runner>>

ResumeGoal ==
    /\ host = "up" /\ LaneFree
    /\ HasGoal /\ goal.status \notin {"completed", "active"}
    /\ ~ Unaccountable(goal) /\ ~ Exhausted(goal)
    /\ goal.generation < MaxGeneration
    /\ goal' = [goal EXCEPT !.status = "active", !.generation = @ + 1]
    /\ Wake
    /\ UNCHANGED <<issued, usage, ledger, host, starts, runtime, runner>>

-----------------------------------------------------------------------------
(* SessionGoalStore.recordUsage.                                           *)

\* Mutant: a report that comes after a pause or a completion is dropped.
Charged_OnTimeOnly(known) ==
    LET g == [goal EXCEPT !.used = IF known THEN @ + 1 ELSE @, !.known = @ /\ known]
    IN  IF g.status \in {"completed", "paused"} THEN goal
        ELSE IF Unaccountable(g) THEN [g EXCEPT !.status = "blocked"]
        ELSE IF Exhausted(g) THEN [g EXCEPT !.status = "budget_limited"]
        ELSE g

\* A late report is counted, but only a running goal changes its status.
Charged(known) ==
    LET g == [goal EXCEPT !.used = IF known THEN @ + 1 ELSE @, !.known = @ /\ known]
    IN  IF g.status \in {"completed", "paused"} THEN g
        ELSE IF Unaccountable(g) THEN [g EXCEPT !.status = "blocked"]
        ELSE IF Exhausted(g) THEN [g EXCEPT !.status = "budget_limited"]
        ELSE g

\* A request of goal id ends; its usage is complete or a part of it is missing.
RecordUsage(id, known) ==
    IF HasGoal /\ goal.id = id
    THEN \E u \in UsageId :
            /\ usage[u] = NoUsage
            /\ usage' = [usage EXCEPT ![u] = [goal |-> id, known |-> known]]
            /\ goal' = Charged(known)
            /\ Wake
    ELSE UNCHANGED <<usage, goal, scheduled>>

\* Bound: a request starts only while an identity is left for its report.
CanReport ==
    Cardinality({u \in UsageId : usage[u] = NoUsage})
        > Cardinality({x \in {"main"} : request # NoRequest /\ request.open}
                      \cup {x \in {"child"} : child # NoChild /\ child.open})

-----------------------------------------------------------------------------
(* A run of the session.                                                   *)

Working == active # NoRun /\ runs[active].fact = "none"
Requesting == request # NoRequest /\ request.open
NoAnswer == [open |-> FALSE, charged |-> NoId, seen |-> NoGoal]

\* startRun: the row is admitted behind the given rows, and the run holds the session.
StartRun(rows, r) ==
    /\ active = NoRun
    /\ Len(rows) < MaxRuns
    /\ runs' = Append(rows, r)
    /\ active' = Len(rows) + 1
    /\ cancel' = "none" /\ bound' = NoId /\ request' = NoRequest

Other == [goal |-> NoId, generation |-> 0, prior |-> NoRun, followup |-> FALSE,
          objective |-> NoObjective, row |-> "admitted", fact |-> "none"]

\* A user's prompt, an automation or a plan wake-up; the last two do not pass
\* through the lane.  A new root input supersedes an interrupted turn.
OtherRunStarts ==
    /\ host = "up"
    /\ StartRun(runs, Other)
    /\ unsafe' = FALSE
    /\ UNCHANGED <<store, host, starts, queue, child, scheduled, runner>>

\* The messages of the queue become a run of their own.
QueuedRunStarts ==
    /\ host = "up"
    /\ queue = "pending"
    /\ StartRun(runs, Other)
    /\ queue' = "none"
    /\ unsafe' = FALSE
    /\ UNCHANGED <<store, host, starts, child, scheduled, runner>>

\* A queued run that cannot start leaves its messages behind.
QueuedRunFails ==
    /\ host = "up"
    /\ active = NoRun /\ queue = "pending"
    /\ queue' = "held"
    /\ UNCHANGED <<store, ledger, host, starts, active, cancel, bound, request, child, scheduled, runner>>

Enqueue ==
    /\ host = "up" /\ LaneFree
    /\ MayQueue
    /\ active # NoRun
    /\ queue' = "pending"
    /\ UNCHANGED <<store, ledger, host, starts, active, cancel, bound, request, child, scheduled, runner>>

DropQueue ==
    /\ host = "up" /\ LaneFree
    /\ active = NoRun /\ queue = "held"
    /\ queue' = "none"
    /\ Wake
    /\ UNCHANGED <<store, ledger, host, starts, active, cancel, bound, request, child, runner>>

\* The turn begins: it works for the goal that is active now.
BeginTurn ==
    /\ Working /\ request = NoRequest
    /\ bound' = IF GoalActive THEN goal.id ELSE NoId
    /\ request' = NoAnswer
    /\ UNCHANGED <<store, ledger, host, starts, active, cancel, queue, child, scheduled, runner>>

\* modelRequestContext: the request is charged to the goal of the run, even
\* to one that is not active any more.
StartRequest ==
    /\ Working /\ cancel = "none"
    /\ request # NoRequest /\ ~ request.open
    /\ CanReport
    /\ ~ BudgetStopped(bound)
    /\ bound' = IF GoalActive THEN goal.id ELSE bound
    /\ request' = [open |-> TRUE,
                   charged |-> IF HasGoal /\ goal.id = bound' THEN goal.id ELSE NoId,
                   seen |-> IF GoalActive
                            THEN [id |-> goal.id, generation |-> goal.generation,
                                  objective |-> goal.objective]
                            ELSE NoGoal]
    /\ UNCHANGED <<store, ledger, host, starts, active, cancel, queue, child, scheduled, runner>>

EndRequest ==
    /\ Requesting
    /\ \E known \in BOOLEAN : RecordUsage(request.charged, known)
    /\ request' = [request EXCEPT !.open = FALSE]
    /\ UNCHANGED <<issued, ledger, host, starts, active, cancel, queue, bound, child, runner>>

\* A child agent works for the goal that is active when it is queued.
QueueChild ==
    /\ Working /\ cancel = "none"
    /\ child = NoChild
    /\ GoalActive
    /\ CanReport
    /\ child' = [id |-> goal.id, open |-> FALSE]
    /\ UNCHANGED <<store, ledger, host, starts, active, cancel, queue, bound, request, scheduled, runner>>

\* goalBudgetStopped: unlike the main agent, a child also stops for a paused goal.
ChildStopped(id) ==
    /\ HasGoal /\ goal.id = id
    /\ \/ goal.status = "budget_limited"
       \/ Unaccountable(goal)
       \/ goal.status = "paused" /\ Exhausted(goal)

StartChildRequest ==
    /\ child # NoChild /\ ~ child.open
    /\ ~ ChildStopped(child.id)
    /\ CanReport
    /\ child' = [child EXCEPT !.open = TRUE]
    /\ UNCHANGED <<store, ledger, host, starts, active, cancel, queue, bound, request, scheduled, runner>>

EndChildRequest ==
    /\ child # NoChild /\ child.open
    /\ \E known \in BOOLEAN : RecordUsage(child.id, known)
    /\ child' = [child EXCEPT !.open = FALSE]
    /\ UNCHANGED <<issued, ledger, host, starts, active, cancel, queue, bound, request, runner>>

ChildEnds ==
    /\ child # NoChild /\ ~ child.open
    /\ child' = NoChild
    /\ UNCHANGED <<store, ledger, host, starts, active, cancel, queue, bound, request, scheduled, runner>>

\* The goal that the answered request has seen is still the current one.
StillSeen ==
    /\ GoalActive
    /\ goal.id = request.seen.id
    /\ goal.generation = request.seen.generation

\* GoalUpdate: the model reports the goal as completed or blocked.
GoalUpdate(status) ==
    /\ Working /\ cancel = "none"
    /\ request # NoRequest /\ ~ request.open /\ request.seen # NoGoal
    /\ StillSeen
    /\ goal' = [goal EXCEPT !.status = status]
    /\ Wake
    /\ UNCHANGED <<issued, usage, ledger, host, starts, runtime, runner>>

GoalRun(r) == r.goal # NoId

\* ensureTerminalOutcome: the result becomes a fact of the session's JSONL.
\* Nothing reads the result of a run that is not for a goal.
WriteTerminal(result) ==
    /\ Working /\ ~ Requesting
    /\ result \in IF GoalRun(runs[active]) THEN Results ELSE {"failed"}
    /\ runs' = [runs EXCEPT ![active].fact = result]
    /\ unsafe' \in IF result \in Continuable THEN {unsafe} ELSE {unsafe, TRUE}
    /\ UNCHANGED <<store, host, starts, runtime, scheduled, runner>>

\* The run gives the session up; its messages wait when a pause ended it.
ReleaseRun ==
    /\ active' = NoRun /\ cancel' = "none" /\ bound' = NoId /\ request' = NoRequest
    /\ queue' = IF queue = "none" THEN "none" ELSE IF cancel = "paused" THEN "held" ELSE "pending"
    /\ Wake
    /\ UNCHANGED <<store, host, starts, child, runner>>

\* finishRun projects the fact into the row.
FinishRun ==
    /\ active # NoRun /\ ~ Working
    /\ runs' = [runs EXCEPT ![active].row = runs[active].fact]
    /\ ReleaseRun
    /\ UNCHANGED unsafe

\* A write fails: the run ends and its row stays without a result.
FinishFails ==
    /\ active # NoRun /\ ~ Requesting
    /\ ReleaseRun
    /\ unsafe' \in {unsafe, TRUE}
    /\ UNCHANGED runs

-----------------------------------------------------------------------------
(* SessionGoalRunner.advance.                                              *)

Current == GoalActive /\ goal.id = initial.id /\ goal.generation = initial.generation

\* Mutant: the goal is not read again after an await.
Ready_Stale == CanStart /\ active = NoRun /\ queue = "none"

Ready == CanStart /\ active = NoRun /\ queue = "none" /\ Current

\* The pending tick: a goal that is being advanced is looked at once more later.
RunTick ==
    /\ scheduled
    /\ scheduled' = FALSE
    /\ IF CanStart /\ GoalActive
       THEN IF phase = "idle"
            THEN /\ phase' = "resolving"
                 /\ initial' = [id |-> goal.id, generation |-> goal.generation]
                 /\ UNCHANGED rerun
            ELSE rerun' = TRUE /\ UNCHANGED <<phase, initial>>
       ELSE UNCHANGED runner
    /\ UNCHANGED <<store, ledger, host, starts, runtime>>

\* Mutant: the ticks that came while the goal was advanced are forgotten.
Leave_Forgets ==
    /\ phase' = "idle" /\ initial' = NoGoal /\ rerun' = FALSE
    /\ scheduled' = (scheduled \/ (CanStart /\ goal' # goal))
    /\ UNCHANGED <<issued, usage, host, starts>>

\* advance settles; a change of the goal or a tick it missed wakes the runner.
Leave ==
    /\ phase' = "idle" /\ initial' = NoGoal /\ rerun' = FALSE
    /\ scheduled' = (scheduled \/ (CanStart /\ (rerun \/ goal' # goal)))
    /\ UNCHANGED <<issued, usage, host, starts>>

\* block and pause: nothing happens to a goal that has changed meanwhile.
StopGoal(status) == goal' = IF Current THEN [goal EXCEPT !.status = status] ELSE goal

GiveUp == UNCHANGED <<goal, ledger, runtime>> /\ Leave

\* advance goes on to its next await unless a check after the last one fails.
Await(next, check) ==
    IF check
    THEN phase' = next /\ UNCHANGED <<store, ledger, host, starts, runtime, scheduled, rerun, initial>>
    ELSE GiveUp

Resolve == phase = "resolving" /\ Await("waiting", CanStart /\ active = NoRun)

\* waitForIdle returns when no run is left and no queued message is about to start one.
WaitForIdle ==
    /\ phase = "waiting"
    /\ active = NoRun /\ queue # "pending"
    /\ Await("queued", CanStart /\ Current)

Admit == phase = "queued" /\ Await("admitted", CanStart)

ResolveAgain == phase = "admitted" /\ Await("reading", Ready)

ReadCheckpoint ==
    /\ phase = "reading"
    /\ Await(IF unsafe THEN "unsafe" ELSE "safe", TRUE)

\* The session is gone, no tool can report, or a call throws.
CannotAdvance ==
    /\ phase \in {"resolving"} \cup InLane
    /\ phase = "resolving" \/ CanStart
    /\ StopGoal("blocked")
    /\ Leave
    /\ UNCHANGED <<ledger, runtime>>

BlockUnsafe ==
    /\ phase = "unsafe"
    /\ StopGoal("blocked")
    /\ Leave
    /\ UNCHANGED <<ledger, runtime>>

SameSource(r) == r.goal = initial.id /\ r.generation = initial.generation

\* The latest row of the source, or none.
Latest(p, rows) ==
    /\ p # NoRun => SameSource(rows[p])
    /\ \A j \in p + 1 .. Len(rows) : ~ SameSource(rows[j])

\* emptyTurns: the last three rows of the source are empty turns.
ThreeEmpty(p, rows) ==
    \E o \in 1 .. p :
        LET last == {j \in o .. p : SameSource(rows[j])}
        IN  Cardinality(last) >= 3 /\ \A j \in last : rows[j].row = "empty"

MustBlock(p, rows) == p # NoRun /\ (rows[p].row = "failed" \/ ThreeEmpty(p, rows))

\* Nothing but text came of the last automatic turn, and nobody else has run since.
Idles(p, rows) == rows[p].row = "idle" /\ rows[p].followup /\ p = Len(rows)
MustPause(p, rows) == p # NoRun /\ (rows[p].row = "cancelled" \/ Idles(p, rows))

\* Mutant: only prompts of the same generation count.
Prompted_PerGeneration(rows) ==
    \E i \in 1 .. Len(rows) : SameSource(rows[i]) /\ ~ rows[i].followup

\* lastInput: the last prompt of the goal asked for its present objective.
Prompted(rows) ==
    \E i \in 1 .. Len(rows) :
        /\ rows[i].goal = initial.id /\ ~ rows[i].followup
        /\ rows[i].objective = goal.objective
        /\ \A j \in i + 1 .. Len(rows) : ~ (rows[j].goal = initial.id /\ ~ rows[j].followup)

NextTurn(p, rows) ==
    LET followup == p # NoRun \/ Prompted(rows)
    IN  [goal |-> initial.id, generation |-> initial.generation, prior |-> p,
         followup |-> followup,
         objective |-> IF followup THEN NoObjective ELSE goal.objective,
         row |-> "admitted", fact |-> "none"]

\* What follows from the latest row of the source, up to submitting the next turn.
Decide(p, rows) ==
    \/ /\ MustBlock(p, rows)
       /\ StopGoal("blocked") /\ Leave
       /\ runs' = rows
       /\ UNCHANGED <<unsafe, runtime>>
    \/ /\ ~ MustBlock(p, rows) /\ MustPause(p, rows)
       /\ StopGoal("paused") /\ Leave
       /\ runs' = rows
       /\ UNCHANGED <<unsafe, runtime>>
    \/ /\ ~ MustBlock(p, rows) /\ ~ MustPause(p, rows) /\ ~ Ready
       /\ UNCHANGED <<goal, unsafe, runtime>>
       /\ runs' = rows
       /\ Leave
    \/ /\ ~ MustBlock(p, rows) /\ ~ MustPause(p, rows) /\ Ready
       /\ StartRun(rows, NextTurn(p, rows))
       /\ unsafe' = FALSE
       /\ UNCHANGED <<goal, queue, child>>
       /\ Leave

\* Mutant: a row without a result is continued like any other.
Continue_Unconfirmed ==
    /\ phase = "safe"
    /\ \/ ~ Ready /\ GiveUp
       \/ Ready /\ \E p \in 0 .. Len(runs) : Latest(p, runs) /\ Decide(p, runs)

\* The checkpoint allows to continue; a row without a result is looked up first.
Continue ==
    /\ phase = "safe"
    /\ \/ ~ Ready /\ GiveUp
       \/ /\ Ready
          /\ \E p \in 0 .. Len(runs) :
                /\ Latest(p, runs)
                /\ IF p # NoRun /\ runs[p].row = "admitted"
                   THEN Await("reconciling", TRUE)
                   ELSE Decide(p, runs)

\* reconcileRunFromSession: the fact in the JSONL decides, without one the goal is blocked.
Reconcile ==
    /\ phase = "reconciling"
    /\ \E p \in 1 .. Len(runs) :
          /\ Latest(p, runs)
          /\ IF runs[p].fact = "none"
             THEN StopGoal("blocked") /\ Leave /\ UNCHANGED <<ledger, runtime>>
             ELSE Decide(p, [runs EXCEPT ![p].row = runs[p].fact])

-----------------------------------------------------------------------------
(* The life of the Host.                                                   *)

\* Memory is lost; the facts and the rows stay.
Forget ==
    /\ active' = NoRun /\ cancel' = "none" /\ queue' = "none"
    /\ bound' = NoId /\ request' = NoRequest /\ child' = NoChild
    /\ scheduled' = FALSE /\ rerun' = FALSE /\ phase' = "idle" /\ initial' = NoGoal

\* Mutant: rows whose session has no terminal fact are overwritten, too.
StartHost_ProjectsAll ==
    /\ host = "down" /\ starts < MaxStarts
    /\ host' = "up" /\ starts' = starts + 1
    /\ runs' = [i \in DOMAIN runs |-> [runs[i] EXCEPT !.row = runs[i].fact]]
    /\ scheduled' = TRUE
    /\ UNCHANGED <<store, unsafe, runtime, runner>>

\* Opening the authority projects the facts that rows have missed.
StartHost ==
    /\ host = "down" /\ starts < MaxStarts
    /\ host' = "up" /\ starts' = starts + 1
    /\ runs' = [i \in DOMAIN runs |->
                   IF runs[i].fact = "none" THEN runs[i] ELSE [runs[i] EXCEPT !.row = runs[i].fact]]
    /\ scheduled' = TRUE
    /\ UNCHANGED <<store, unsafe, runtime, runner>>

Drain ==
    /\ host = "up"
    /\ host' = "draining"
    /\ scheduled' = FALSE
    /\ cancel' = IF active # NoRun /\ cancel = "none" THEN "other" ELSE cancel
    /\ UNCHANGED <<store, ledger, starts, active, queue, bound, request, child, runner>>

Exit ==
    /\ host = "draining" /\ active = NoRun
    /\ host' = "down"
    /\ Forget
    /\ UNCHANGED <<store, ledger, starts>>

Crash ==
    /\ host # "down"
    /\ host' = "down"
    /\ unsafe' \in IF Working THEN {unsafe, TRUE} ELSE {unsafe}
    /\ Forget
    /\ UNCHANGED <<store, runs, starts>>

-----------------------------------------------------------------------------

Users ==
    \/ \E o \in Objective, b \in Budget \cup {NoBudget} : CreateGoal(o, b) \/ EditGoal(o, b)
    \/ PauseGoal
    \/ \E reason \in {"paused", "other"} : CancelRun(reason)
    \/ ClearGoal
    \/ ResumeGoal
    \/ Enqueue
    \/ DropQueue

Turns ==
    \/ OtherRunStarts
    \/ QueuedRunStarts
    \/ QueuedRunFails
    \/ BeginTurn
    \/ StartRequest
    \/ EndRequest
    \/ QueueChild
    \/ StartChildRequest
    \/ EndChildRequest
    \/ ChildEnds
    \/ \E status \in {"completed", "blocked"} : GoalUpdate(status)
    \/ \E result \in Terminal : WriteTerminal(result)
    \/ FinishRun
    \/ FinishFails

Runner ==
    \/ RunTick
    \/ Resolve
    \/ WaitForIdle
    \/ Admit
    \/ ResolveAgain
    \/ ReadCheckpoint
    \/ CannotAdvance
    \/ BlockUnsafe
    \/ Continue
    \/ Reconcile

Life == StartHost \/ Drain \/ Exit \/ Crash

Next == Users \/ Turns \/ Runner \/ Life

Spec == Init /\ [][Next]_vars

\* A pending immediate fires, and an awaited read of a file or of a registry
\* settles; the timer of the message queue fires.
Fairness ==
    /\ WF_vars(RunTick)
    /\ WF_vars(Resolve) /\ WF_vars(WaitForIdle) /\ WF_vars(Admit) /\ WF_vars(ResolveAgain)
    /\ WF_vars(ReadCheckpoint) /\ WF_vars(BlockUnsafe)
    /\ WF_vars(Continue) /\ WF_vars(Reconcile)
    /\ WF_vars(QueuedRunStarts \/ QueuedRunFails)

FairSpec == Spec /\ Fairness

-----------------------------------------------------------------------------
(* Properties of the goal and its budget.                                  *)

\* A goal that the runner may advance can pay for it: whatever was edited,
\* resumed or reported late, an active goal with a budget has tokens left and
\* knows what it has spent.
ActiveAffordable ==
    GoalActive /\ Limited(goal) => goal.known /\ goal.used < goal.budget

\* The totals of a goal are those of its usage rows, also for reports that
\* arrive after a pause, a completion or an edit.
UsageExact ==
    HasGoal =>
        LET mine == {u \in UsageId : usage[u] # NoUsage /\ usage[u].goal = goal.id}
        IN  /\ goal.used = Cardinality({u \in mine : usage[u].known})
            /\ goal.known <=> \A u \in mine : usage[u].known

\* A model completes only what it was asked for: the request whose answer
\* completes a goal was made for this goal, with the objective it still has.
CompletesWhatItSaw ==
    [][HasGoal' /\ goal'.status = "completed" /\ ~ (HasGoal /\ goal.status = "completed")
       => /\ HasGoal /\ goal.status = "active"
          /\ request.seen.id = goal'.id
          /\ request.seen.objective = goal'.objective]_vars

\* An exhausted budget stops further requests: no request of a run starts on
\* account of an unfinished goal whose budget is spent.
BudgetLimitsRequests ==
    [][(StartRequest /\ request'.charged # NoId /\ goal.status # "completed")
       => ~ Exhausted(goal)]_vars

-----------------------------------------------------------------------------
(* Properties of the chain of runs.                                        *)

Siblings(i, j) == runs[i].goal = runs[j].goal /\ runs[i].generation = runs[j].generation

\* Every run of a source continues the run of this source that came last, and
\* only when that run has a result that both the session's JSONL and its row
\* confirm and that allows to go on: nothing is continued twice, and nothing
\* that failed, was cancelled or whose end is unknown is continued.
ChainContinues ==
    \A i \in DOMAIN runs :
        GoalRun(runs[i]) =>
            LET p == runs[i].prior
            IN  /\ p < i
                /\ \A j \in p + 1 .. i - 1 : ~ Siblings(i, j)
                /\ p # NoRun => /\ Siblings(i, p)
                                /\ runs[p].row \in Continuable
                                /\ runs[p].row = runs[p].fact

\* Automatic turns do not spin: after an automatic turn that did no work, the
\* chain goes on only if another run of the session came between.
IdleNeverRepeats ==
    \A i \in DOMAIN runs :
        LET p == runs[i].prior
        IN  p # NoRun /\ runs[p].followup /\ runs[p].row = "idle" => p + 1 < i

\* Three empty answers in a row end a chain.
EmptyBounded ==
    \A i \in DOMAIN runs :
        LET p == runs[i].prior IN p # NoRun =>
        LET q == runs[p].prior IN q # NoRun =>
        LET o == runs[q].prior IN o # NoRun =>
            {runs[p].row, runs[q].row, runs[o].row} # {"empty"}

\* The user's words are entered once per objective: two prompts of a goal in
\* succession never ask for the same objective, whatever resumes, edits and
\* crashes lie between.
PromptOnce ==
    \A i, j \in DOMAIN runs :
        /\ i < j
        /\ GoalRun(runs[i]) /\ runs[i].goal = runs[j].goal
        /\ ~ runs[i].followup /\ ~ runs[j].followup
        /\ \A k \in i + 1 .. j - 1 : runs[k].goal = runs[i].goal => runs[k].followup
        => runs[i].objective # runs[j].objective

\* A run for a goal starts only for the goal and generation that are active
\* at that moment, while no user message waits and the Host admits work,
\* although the runner awaits five times after it saw the goal.
RunsForCurrentGoal ==
    [][Len(runs') > Len(runs) /\ GoalRun(runs'[Len(runs')])
       => /\ GoalActive /\ host = "up" /\ queue = "none" /\ active = NoRun
          /\ runs'[Len(runs')].goal = goal.id
          /\ runs'[Len(runs')].generation = goal.generation]_vars

\* No wake-up is lost: an active goal gets a run or stops being active, unless
\* the Host goes away or messages the user holds back come first.
GoalAdvances ==
    (host = "up" /\ GoalActive)
        ~> (host # "up" \/ ~ GoalActive \/ active # NoRun \/ queue = "held" \/ Len(runs) = MaxRuns)
=============================================================================

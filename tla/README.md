# Biny Agent in TLA+

TLA+ models of the parts of Biny Agent that decide whether work is done once,
by one writer, and for as long as its owner allows it, and whether what is said
about it afterwards is true: the automation scheduler, the session lease, the
session goals, the ledger of capability calls, the task runs with their
verification, and the feed of Host events with its journal. TLC checks every
model on small instances; TLAPS proves the safety properties that the passing
runs check, of all six, for every value of the constants. Paths are relative to the repository.

Contents: 1 inventory, 2 what is modelled and how it corresponds to the code,
3 runs and bounds, 4 fairness, 5 proofs, 6 disagreements found, 7 what is not
modelled, 8 plan.

## 1. Inventory

One *Runtime Host* process serves a workspace. It owns a SQLite database (the
runtime authority), one JSONL file per session, and several in-memory
schedulers. Desktop, TUI, CLI and channels are clients over a local socket.
Everything in the Host runs on one JavaScript thread: code between two
`await`s is atomic towards the rest of the Host, but each SQLite transaction
and each file operation is a point where the process can die. Other processes
(a second Host, the TUI in single-process mode, an older version of the
program) share the persistence root and meet at the session lease.

| component | state | operations | interacts with | hard behaviour | correct when |
|---|---|---|---|---|---|
| Automation scheduler (`runtime/AutomationScheduler.ts`) | `automations`, `automation_pending_fires`; memory: `fireQueue`, `pendingFires` | create, pause, resume, delete, run now, poll (`claimDue`), dispatch, execute, recover, drain, stop | runtime (`submitPrompt`), `agent_runs`, Host shutdown | awaits between claim and submission, crash between submission and binding, shared sessions | a fire runs at most once, budget and pause are respected, the recorded outcome is proven |
| Session lease (`runtime/SessionLease.ts`) | SQLite gate, marker file with its inode | acquire, release | every process that writes a session | file-system races, crash between any two calls, replaced database, older clients | one writer, no crash locks the session |
| Session goals (`SessionGoalStore/Runner.ts`) | `session_goals`, `session_goal_usage`, `agent_runs` | set, edit, pause, resume, clear, record usage, tick, continue | agent session, child agents, message queue, Host restart | five awaits between seeing a goal and submitting its turn | budget exact, chain of runs continues only confirmed results, no spinning, no lost wake-up |
| Runtime (`InteractiveAgentRuntime.ts`) | active run, claims, typed-message queue, interactions | start, cancel, finish, claim session | session lease, recorder, Host | busy/idle handover, claims outliving runs | one run per session, no leaked lease |
| Runtime authority (`RuntimeAuthority.ts`) | event log, `agent_runs`, schema | admit, project terminal, migrate | all stores | crash between JSONL fact and projection | the projection follows the JSONL |
| Capability ledger (`CapabilityStore.ts`, `toolExecutionCoordinator.ts`, `session/replay.ts`) | registrations, invocations, dispatch state; the session's own record of a call | register, invoke, accept, settle, release, time out, recover | extensions, clients, session log | crash after dispatch, a failing write between two stores | an effect is asked for once, a verdict on it is true, an unknown outcome is never replayed |
| Task runs (`TaskRunStore`, `TaskClosure`, `taskVerification`, `CommandRuntime`) | tasks, attempts, evidence, durable tool events of the checks | create, dispatch, work, verify, repair, approve, resume, cancel, recover | workers, checks, workspace, goal graph | late results, cancel against closure, artifacts that change, crash between two transactions | completed only on evidence; neither a worker nor a check is replayed; an outcome is final |
| Goal graph (`GoalGraphStore.ts`) | nodes, edges, phases | plan, project closure, unblock | task runs | revision conflicts | a node runs after what it needs |
| Host server and journal (`runtime/host/server.ts`, `journal.ts`, `socket-writer.ts`) | event history, sequence, journal file, connections | publish, replay, persist, close | clients | replay against live events, back-pressure, torn lines, shutdown | a client sees each event once, in order, or is told of a gap |
| Host client and lifecycle (`client.ts`, `reconnect.ts`, `lifecycle.ts`) | cursor, epoch, registration, back-off | subscribe, acknowledge, discover, start, reconnect | server | late answers, throwing listeners, two starters, dead registration | it catches up; one Host per workspace |
| Agent session, tool loop (`agent/AgentSession.ts`, `toolExecutionCoordinator.ts`) | messages, run budget, approvals | model request, tool call, stop | permissions, tools | cancellation during a call | no request beyond the budget |
| Recorder, checkpoints (`session/recorder.ts`, `checkpointStore.ts`) | JSONL, checkpoints, claims | append, flush, claim, recover | runtime | crash between effect and record | unsafe turns are not repeated |
| Queued messages (`session/queuedMessages.ts`) | receipts | queue, deliver, drop | runtime | crash while delivering | each message delivered once |
| Others | | | | | listed in `PROJECT.json` with the reason they are left out |

`PROJECT.json` lists every component, and under `hazards` each place found so
far where a test would hardly reach, with the property that covers it or the
reason why none does.

## 2. Modules

| module | models | composed with |
|---|---|---|
| `Automation.tla` | scheduler, its tables and its memory, the runtime as it uses it, users, crashes | refines `FireLedger` |
| `FireLedger.tla` | abstract promise: a fire is submitted at most once, one at a time per automation, within the success budget, settled for good | |
| `SessionLease.tla` | election over the SQLite gate and the marker file, one file-system call per step | refines `WriterLock` |
| `WriterLock.tla` | abstract promise: at most one writer, until it releases or dies | |
| `SessionGoal.tla` | goal store, usage, runner, runs of one session, model requests, child agent, Host life | |
| `CapabilityLedger.tla` | calls that the Host executes and calls that clients execute, their rows, the session log, effects in the world | refines `EffectLedger` |
| `EffectLedger.tla` | abstract promise: a verdict is final, "done" and "none" are true, "error" is the word of the executor, a request leaves only while its record is open | |
| `TaskRun.tla` | one task: its record, closure, worker, checks, approvals, the workspace and the life of the Host | refines `TaskOutcome` |
| `TaskOutcome.tla` | abstract promise: an outcome is final, no verdict is skipped, a new try needs a failed verdict | |
| `HostEvents.tla` | events from the Host through history, journal and socket to a client | refines `EventFeed` |
| `EventFeed.tla` | abstract promise: each event of an epoch once and in order, or a gap notice | |
| `MC*.tla` | constants and symmetry for TLC | |
| `AutomationSteps.tla`, `AutomationProofs.tla`, `AutomationRefines.tla` | views and effects of the steps, invariants, refinement | |
| `SessionLeaseProofs.tla`, `SessionGoalProofs.tla` | invariants, action properties, refinement of the lease | |
| `CapabilityLedgerProofs.tla`, `TaskRunProofs.tla`, `HostEventsProofs.tla` | invariants and refinement | |

### Automation

`def` is the table of automations, `fire` that of pending fires, `run[f]` the
run submitted for a fire (the canonical JSONL terminal and its SQLite
projection merged), `pc[f]`, `queue` and `poll` the memory of the scheduler.
`submits` is a history variable. One action per operation: the owner's
commands (`Create` .. `RunNow`), the phases of a poll (`PollExpire`,
`PollRecover`, `PollDue`, `PollEnqueue`), `Dispatch`, the stages of
`executeFire` cut at its awaits (`AdmitBusy`, `Prepare`, `ClaimLost`,
`DeferUnsubmitted`, `PrepareFails`, `Submit`, `Bind`, `Settle`), the run's end
or time-out, and the Host's `Stop`, `Crash`, `Start`, `RecoverFire`.

* Run-to-completion is expressed by `Quiet` and `Settled`: an external action
  waits until the synchronous work of the thread is done. Each store call is a
  transaction of its own and `Crash` may fall between any two of them.
* The runtime (`InteractiveAgentRuntime.startRun`, `cancelRun`) and the Host's
  shutdown (`server.ts:326-345`) appear as the scheduler uses them. Because
  drain and stop share a synchronous turn, the `canStartRun` test directly
  after a claim cannot fail and has no action.
* A rejected claim gives its slot back in the same step. Polls that find
  nothing are omitted. A deferred row that waits in the memory queue and that a poll would
  set back to pending stays deferred; both are claimable.
* Left out: jitter of due times, event ids and revisions, unreadable rows
  (the code pauses the automation with an error), errors of the database. The
  last one matters and is recorded as an open hazard: a `bindFireRun` that
  throws after the submission reaches the catch block, which fails the fire
  and frees the slot while the run is alive.

### SessionLease

`gate` is the write transaction on the authority database, `marker` the file
at the lease path with its inode, owner, authority and completeness, `retired`
what was renamed away, `pc[w]` the file-system call at which process `w`
stands. Every call is one step, except that `lstat`/`open`/`BEGIN` of the
database are `BeginAcquire` and `TakeGate`, and release's `lstat` and read are
`InspectMarker`. Faults: crashes, failing writes and renames (`MaxFaults`), a replaced authority
file (`MaxAuthority`), owners of older versions (`Legacies`).

* One session; each store is a process of its own.
* An inode may be used again after an unlink, not after a rename (the renamed file
  keeps it). The pid of a dead older owner may be recycled, which is a
  nondeterministic choice.
* A file that changes while `readLease` reads it counts as unreadable, as the
  error path makes it.
* Older binaries publish and delete their marker; their own unsafe reclaim is
  excluded, as the header of the file disclaims it (lines 27-31).
* Left out: swapped directories, symlinks, permissions, wording of the
  refusal (including the pid it names).

### SessionGoal

`goal` and `usage` are the two tables, `runs` the rows of `agent_runs` of the
session in order, each with its row status and its JSONL fact; `phase` and
`initial` say at which await `SessionGoalRunner.advance` stands and what it
was called with; `scheduled` and `rerun` are its flags; `active`, `cancel`,
`queue`, `bound`, `request`, `child` belong to the runtime and the agent.
User commands, turns, the five awaits of the runner (`Resolve`, `WaitForIdle`,
`Admit`, `ResolveAgain`, `ReadCheckpoint`, then `Continue` or `Reconcile`) and
the Host's life (`StartHost`, `Drain`, `Exit`, `Crash`) interleave freely.

* Run ids are hashes of goal, generation and previous run; the model keeps the
  arguments, so a repeated id is a repeated triple. Claims on continuations
  and the revision test of a store update are functions of what one process
  does synchronously and are dropped. Redelivery of a usage id is dropped.
* A request costs one token. Whether a provider reports usage is a choice.
  Results of runs that are not for a goal are not told apart.
* The idle event and the release of the active run are one step (microtasks
  apart). Maintenance operations count as other runs. One child agent at a
  time. Automations and plan wake-ups bypass the per-session lane as in the
  code (`InLane`, `LaneFree`).
* `unsafe` stands for every checkpoint that `resolveContinuationPlan` blocks.
  Reading it is a step of its own, so the answer may be stale when used.
* Left out: two concurrent editors with revisions, a usage store that fails,
  the flag `primaryGoalSchedulingReady`.
* Messages that a pause holds back make the runner give up its tick without a
  word (`SessionGoalRunner.ts:120`); `GoalAdvances` asks for progress of a goal
  whose queue can be delivered.

### CapabilityLedger

`row` is `capability_invocations` (status and dispatch state), `reg` the
registrations, `log` the session log's last word on a call. In memory there
are `pc` (where `toolExecutionCoordinator` stands with a call), `tool` (the
promise `execute()` returned) and `told` (what the ledger answered).
`pending` and `effects` are the outside world: a request that left has its
effect at any later time, also after a time-out, a disconnect or the death of
the Host. A *host operation* is a tool call that the Host executes: `CallTool`,
`AdmitTool`, `Begin`, `Dispatch`, then a result, an error, an uncertain end,
`Abort` or `Timeout`, and `Record` into the session. A *client operation* is
offered to the client that registered the capability (`Invoke`, `AcceptOffer`,
`StartOffer`, `ReportResult`, `FailOffer`, `GiveUp`), which may release it or disconnect
(`Release`, `ReleaseByOwner`, `Disconnect`). `Restart` is
`recoverUnsettledInvocations`, `ResumeSession` the recovery of a session that
meets an interrupted call.

* What the JavaScript thread does without an `await` is one action; where a
  write may fail or the Host may die inside, a variant of the action
  (`BeginFails`, `BeginDies`, `DispatchDies`, `ReleasePartly`, `ReleaseDies`,
  `DisconnectDies`) chooses how far it got.
* An ordinary error may be thrown without an answer (the request time-out of the
  MCP client, a fetch that failed or was reset): `ToolFails` leaves the effect
  as it is, already there or still to come. A tool that *answers* with an error
  (`ErrorResult`) has nothing under way any more, but may have had its effect.
  The history variable `erred` collects the calls whose executor reported an
  error after the dispatch (for a client: at any time); the code believes it, so
  `SessionTruthful` and the verdict "error" of `EffectLedger` say who may call
  such an effect a failure, and that nobody else does (section 6).
* `FileChangeUncertain` is the one error that the row and the session word
  differently: failed in the row, unknown in the session.
* A client that reports a result, or gives up its work, is believed: `GiveUp`
  withdraws a request that had no effect yet.
* A stored result reads back equal to what the tool returned; the coordinator's
  test for a result that redaction changed
  (`toolExecutionCoordinator.ts:1460-1466`) is left out. Only tools whose retry safety is `unsafe` are modelled: the
  others may be called again and promise nothing here.
* The terminal record of a tool execution and the tool result are one step.
  A registered and a rejected registration are both `inactive`.
* Left out: request hashes and schemas, the order of result chunks, a failing
  read of the ledger (`CapabilityStore.ts:363`), the last
  `releaseConnection` of a graceful stop (which therefore looks like a crash).

### TaskRun

`verified`, `status`, `atts` and `event` are the durable record; an attempt
carries its checkpoint (`ckpt`, the fingerprint of the check definitions), its
candidate (`cand`, that of the artifacts), approvals and evidence. `calls` is the
tool log of the checks: a check of an attempt has an original call and, when that
was denied, an approved one. `clo` is the closure in the Host's memory with
its place and its locals, `worker` the subagent, `approving` an approval whose
fingerprints are being computed. `art` and `defs` are versions of what is on
disk; workers and outsiders (`Edit`) increase them. Ghosts: `std` the
definitions when the first worker was submitted, `consent` what users
approved, `torn` that a refusing verdict was written without its settlement.

The closure is cut at its awaits: `Prepare`, `Submit`, the worker, `Capture`,
`Reuse` or `VerifyBegins`, one step per check, `VerifyEnds`. A verdict and what
follows from it are two transactions of one synchronous stretch: the closure
stops at `judged` and `repair`, where only a crash or a failing write
(`JudgeFails`) can come between. `Restart` is `recoverTaskRuns`.

* One task. Two awaits of one snapshot are one step; a revision is compared by
  the record it numbers; the subagent queue is a start at any time; an aborted
  worker is gone at once.
* When a run is aborted, results of checks that are still on their way are left
  as they are. Cancelling a queued task overwrites the failure of its last
  attempt, as the code does (`CommandRuntime.ts:1241`), but not its verdict.
* Left out: review and report-only tasks, the foreground variant
  `runTaskWithVerification`, messages between tasks, `task.retry` (it asks for a
  failure class that no code records, so it is never admitted), the repair scope
  (it ends a run the same way as changed definitions), dispatch of a task that is
  completed or waits for approval (it only reads).

### HostEvents

`sequence`, `history` are the Host's numbering and window, `journal`, `tail`,
`writing`, `disk` the journal's memory, its queue of writes, the write under
way and the file with the way it ends (`clean`, `bare` without its line
feed, or `torn`). `link`, `choked`, `wire` are the socket with its
back-pressure, `subscribed`, `replay`, `requests` the Host's view of the
connection, `client` the epoch, cursor and pending subscription of the client.
Hosts follow each other; `Crash` may interrupt a write anywhere.

* `PublishEvent`, `Load`, `Replay` and the client's handlers are whole
  synchronous stretches; a replay stops where the socket pushes back, and what
  is published then waits in the history.
* `EventFeed` excuses two cases in which the code lets events overtake others
  without a gap notice: `close()` aborts a suspended replay but leaves its
  connection subscribed (`server.ts:333`), and a client whose first subscription
  timed out on a socket that it keeps asks again without a cursor
  (`client.ts:270`). In the first case what is overtaken may also be the gap that
  tells a client of the change of Host, so `Overtake` starts from a lost position
  too (section 5). Both are listed as hazards; `ImplementsFeed` fails without the
  excuses.
* One client without a session filter; `hello` is one step. Left out: snapshots
  and summaries, previews of widgets, idle retirement, the spawn circuit,
  oversized frames, the answers that a closing Host gives to requests, a close
  while the journal is read.

## 3. Runs

| run | checks | instance | result |
|---|---|---|---|
| `automation_lifecycle` | `TypeOK AtMostOneRun BudgetRespected OutcomeProven ActiveIsHealthy NoRunWhenRetired PauseNotOverridden MissedPeriodsSkipped ImplementsLedger` | an interval in fresh sessions with a budget of one, a once automation with expiry in a session a user works in; two slots, 3 fires, time 0..2, pause, resume, shutdown, one crash | holds, 0.77 M states |
| `automation_liveness` | `RunsExclusive FiresSettle` | a heartbeat and a finite cron in the one session a user works in, two slots; run now, deletion, one crash, 2 fires, time 0..2 | holds, 0.51 M states |
| `lease_safety` | `SingleWriter HolderMarked ElectedSucceeds ImplementsLock` | three processes, one older client, four inodes, one replaced database, one fault | holds, 0.46 M states |
| `lease_recovery` | `SessionRecovers` | three processes, three inodes, two faults | holds, 0.33 M states |
| `goal_budget` | `ActiveAffordable UsageExact CompletesWhatItSaw` | one run, three requests by turn and child, two objectives, budget 2, two generations | holds, 0.8 M states |
| `goal_liveness` | `TypeOK ChainContinues PromptOnce GoalAdvances RunsForCurrentGoal` | two runs, two generations, two objectives, message queue, one restart | holds, 1.1 M states |
| `goal_spend` | `BudgetLimitsRequests` | one run, three requests, budget 2 | violated (section 6) |
| `capability_calls` | `TypeOK AtMostOnce SessionTruthful ResultReachesSession KeepsPromise CallsSettle` | a tool that reports its dispatch, one that does not, one client with an offer; one tool call, two deaths of the Host, two failing writes | holds, 0.16 M states |
| `capability_release` | `CancelledNeverRan` | one client with two offers, no faults | violated (section 6) |
| `task_closure` | `TypeOK CompletedOnEvidence ChecksRunOnce NoBlindReplay KeepsPromise ComesToRest` | two checks, one of them privileged; two attempts, one edit, two deaths or stops, one failing operation | holds, 0.35 M states |
| `task_torn` | `ChangedCandidateNotReused` | two checks, one attempt, one edit, one crash, one fault | violated (section 6) |
| `host_feed` | `TypeOK JournalRecoverable ImplementsFeed CatchesUp` | two Hosts, three events, a window of two, a socket that holds one frame, two subscriptions, one fault | holds, 0.64 M states |

Why the bounds are enough for what each run asks. Two automations are what
one needs to share a session. In `automation_lifecycle` three fires let one wait
while another runs and a third is due, and an isolated run can time out. In
`automation_liveness` both automations and a user contend for one session: a
claimed fire is deferred because the user's run is active or the other fire was
admitted first (`AdmitBusy`, `DeferUnsubmitted`), is known to no queue then, and
can be deferred again at its next retry. `FiresSettle` excuses a fire only when
its retry lies past the end of the model's clock (`PastHorizon`), which happens
to what is deferred at the last tick; a deferral at time 0 or 1 must be taken up
again, and the mutant that recovers pending rows only is caught by it. That a user keeps
a session busy for longer than the clock lasts is not excluded: nothing is
assumed of users. A second crash only repeats the recovery of the first
because recovery settles every unbound or bound row it finds. Three processes
are a holder, one that reclaims, and one that publishes in between; with four
inodes a used inode can come back. Three requests exceed a budget of
two by one. In the cfgs with one goal identity, replacing a completed goal by
another one is not reached; the proofs cover it, and chains of idle and empty
runs (`IdleNeverRepeats`, `EmptyBounded`), which need four runs to break, are
proved and not run. Calls of the capability ledger meet only in the session's
bookkeeping, so one tool call beside one offer shows every order of its own
steps; two crashes let recovery itself be interrupted; the theorems hold for
any number. Two attempts are a repair and the one that the contract refuses; one
edit can come before the capture, between capture and verification or during a
check; a second crash falls into the recovery of the first. Three events and a
window of two evict one event before a client that lags has read it, and two
Hosts are a crash and its recovery; the window of two has the consequence that
every second number rewrites the journal, which hides appending after a line
without its line feed. An instance with a window of three and four events
(2.6 M states) was explored as well and holds, but takes too long for a
regular run.

Bounds named in the modules: `NFire`, `MaxTime`, `MaxCrashes`, `Commands`;
`MaxAuthority`, `MaxFaults`, `Inodes`; `Results`, `MayQueue`, `MaxGeneration`,
`MaxRuns`, `MaxStarts`, `UsageId`; `MaxCalls`; `MaxEdits`; `HistoryLimit` and
`Capacity` (constants of the code, made small), `MaxEvents`, `MaxEpoch`,
`MaxAsks`. `MaxAttempts` and `NChecks` belong to the contract of a task.
Deadlock is checked for the lease. It is switched off where the system really
may stop: when the clock, the crashes or the runs are used up, every call or
task is settled, or the Host is down for good.

Every checked property has a mutant of a mapped definition in `PROJECT.json`
that makes its run fail: a dropped re-validation, an off-by-one in the budget,
a recovery that requeues, a release in the other order, a check that runs again
after its dispatch was recorded, a window one too long, and so on.

## 4. Fairness

* `Automation!Fairness`: the scheduler's own turns (`HostTurn`: poll, dispatch,
  the start of a Host that is down and its recovery loop), the turns of the fires
  (`FireTurn`: the continuations of `executeFire`, and the end of a run, since the
  runtime settles every completion, at the latest by its deadline) and the clock
  (`Tick`) do not all stand still while one of them can move. One weak
  fairness over all of them is enough, because fires and time are bounded and
  users alone cannot keep them from moving; the code gives more, a turn to
  each. Nothing is assumed of users, and no crash is ever required.
* `SessionLease!Fairness`: acquire and release are synchronous, so a process
  that began one finishes it; and processes that want the session ask again
  (an assumption about their users, not about the code). Giving up a held
  lease is not assumed.
* `SessionGoal!Fairness`: immediates fire, awaited reads settle, and the queue
  timer fires. A run is not assumed to end, and neither is a Host to come up.
* `CapabilityLedger!Fairness`: the coordinator goes on (`AdmitTool`, `Begin`,
  `Record`), the timer of a call fires (`Timeout`), the Host is started again and
  the session resumed (an assumption about its user). Nothing is assumed of
  tools, clients or the world: a call settles although its tool never answers.
* `TaskRun!FairSpec`: awaits of the closure end (files are read, workers and
  checks have time limits): `Work`, `Verify`, `Unwind`, `ApproveEnds`,
  `Admit \/ AdmitFails`; a shutdown ends and the Host is started again. Users
  are not assumed to start, approve or resume anything.
* `HostEvents!Fairness`: the Host comes up, reads its journal, writes and shuts
  down; replays go on when the socket drains, and it drains because its reader
  lives; the client reads, drops a dead socket, reconnects and subscribes.

## 5. Proofs

Nothing is assumed beyond the named `ASSUME`s of the modules, which TLC also
evaluates. All theorems below are proved for any number of automations, fires,
sessions, processes, runs and crashes.

**Automation** (`AutomationProofs`): `TypeCorrect`, `FiresRunOnce`,
`BudgetHolds`, `RunsStayApart`, `OutcomesProven`, `ActiveStaysHealthy` and the
action properties `RetiredNeverRuns`, `PauseSurvives`, `NoBackfill`.
`AutomationRefines`: `SchedulerImplementsLedger`. `AutomationSteps` describes
each action by its effect on columns of the tables (the *views*), so that an
invariant over a column is proved once per effect and not once per action.
None of the properties is inductive alone. The invariant is `TypeOK` with
`RowsOwned` (a row has an owner once it exists), `RowsMatchMemory` and
`QueueMatchesMemory` (memory and rows agree on who is claimed, queued or
running), `SubmitsMatch` (a row that waits has not been submitted, and memory
knows every live run; this is why recovery must not requeue),
`AttemptsExclusive` (one attempt per automation and session), `UsersApart`,
`CountsMatch` (the counter counts completed rows, and a running row has budget
left), `OutcomesMatch` and `Healthy`. `AtMostOneRun` then follows from
`SubmitsMatch`, `RunsExclusive`
from `AttemptsExclusive` and `UsersApart`.

**SessionLease** (`SessionLeaseProofs`): `TypeCorrect`, `OneWriter`,
`MarkerNamesHolder`, `StaleMarkersNeverBlock`, `LeaseImplementsLock`. The
theorems assume at most one replacement of the authority file, as the module
does (`MaxAuthority \in {1, 2}`). The
invariant adds `GateHeld` (the gate of an authority file belongs to the one
process elected on it), `BoundKnown` (nobody is bound to a file that was not
there yet), `OwnPublication` (under the first file an elected process finds
the marker it made at the path until it deletes it), `StraysStop` (a holder
whose file was replaced still has its complete marker at the path, and nobody
else is past reading it) and `CalmReclaim` (before an older client or a
replacement interferes, the elected process meets at most one stale marker, so
its attempts are never used up).

**SessionGoal** (`SessionGoalProofs`): `Invariance`, `TypeCorrect`,
`ActiveGoalsAffordable`, `TotalsExact`, `ChainsContinue`, `NoSpinning`,
`EmptyAnswersEnd`, `PromptsOnce`, and the action properties `RunsAreCurrent`,
`CompletionsSeen`. Each step has an effect on the store (`StoreEffect`), the
rows (`RowsEffect`: kept, updated, or one row added by `Decide`) and the
request (`RequestEffect`); every invariant is proved from the effects. The
strengthening: `UsageBooked` (identities are issued before they are charged,
reports are finite), `SeenKnown` (a request saw no newer goal than the
stored one), `RowsConfirmed` (a row with a result agrees with its JSONL fact:
without it a continuation could rest on a projection alone) and `LooseRuns`
(a run that is not for a goal continues nothing).

**CapabilityLedger** (`CapabilityLedgerProofs`): `Invariance`, `TypeCorrect`,
`EffectsHappenOnce`, `SessionHearsTheTruth`, `LogAndLedgerAgree`,
`LedgerKeepsPromise`. The invariant says of each operation what its row, its
promise, its requests and the session know of each other (`RowOK`, `CallOK`,
`ToolOK`, `ToldOK`; a row or a session that says failed has no effect to fear
unless the executor erred), and that a dead Host remembers nothing (`DownForgets`).
`SessionTruthful` alone is not inductive: that a time-out may call a call
failed rests on the promise still waiting before its dispatch (`ToolOK`), and
that the recovery may call it cancelled, on the row's dispatch state (`RowOK`). One lemma per action;
the refinement sorts the steps of an operation into four kinds (`Stays`,
`Proceeds`, `Ends`, `Takes`) and shows apart from them that an executor is heard
only while its record is open (`NextHears`).

**TaskRun** (`TaskRunProofs`): `Invariance`, `TypeCorrect`, `VerdictsProven`,
`ChecksDispatchOnce`, `WorkNeverReplayed`, `RecordKeepsPromise`. The invariant
relates the latest attempt to the task (`RecordOK`), the closure's place to the
record (`ClosureOK`, `CheckingOK`), the worker to its attempt (`WorkOK`), every
attempt to the definitions of the first (`StandardOK`), the tool log to
approvals and artifacts (`CallsOK`) and a verdict to the calls it rests on
(`EvidenceOK`, `CandidateOK`). Steps are grouped by what they do to the record:
settle it, return from the closure, move it on, conclude, dispatch a check; each
group has one lemma for the conjuncts it can disturb. On top of it
`StartedOnce` counts starts (a queued worker that does not continue belongs to an
attempt that was never started), and the refinement needs `AskingRests`: a task
that asks for a permission has no closure. The
theorems hold for any number of checks, attempts, edits, crashes and faults.

**HostEvents** (`HostEventsProofs`): `Invariance`, `TypeCorrect`,
`JournalRecovers`, `HostImplementsFeed`. The invariant has two halves, and the
first does not need the second.

* The store (`StoreOK`): `LogsInv` and `NumberInv` (the log of an epoch is as
  long as its last number, the window agrees with it, and the tail asks for
  consecutive numbers up to the last), `LoadingInv` (numbers given before the
  journal is read are provisional and in no log), `DiskInv` (the file is an
  unbroken run of the last log, whatever was interrupted), `HealthInv` (a
  healthy journal ends where it says and reaches back to the window) and
  `WritingInv` (a write under way ends with a number not below the one its
  waiter asked for; a line is appended only to a healthy file that it
  continues). `JournalRecoverable` speaks of moments without a write; without
  `WritingInv` and the file's agreement with the log no write could be shown to
  lead back to it.
* The connection (`ConnOK`): who is connected to whom (`LinkInv`), what the
  client's position means (`ClientInv`), and for each frame on the wire, each
  request, the replay and live delivery the one fact that matters: it goes on
  from where the frames before it take the client. That is `Reaches(k, n)`: once
  the first `k` frames are read the client stands at `n` or further, or has seen
  nothing and may begin anywhere. `EmptyInv` covers a request for everything
  that meets an empty window. There is one lemma per action; frames that are
  appended to the wire (live events, replays, answers) share `AppendWire` and
  `ReplayWire`.

The refinement maps `PublishEvent` to `Publish`, `Load` and a crash while
loading to `Restart`, `CloseHost` and a second request for everything to
`Excuse`, `Connect` to `Lose`, a frame that is read to `Join`, `Deliver`,
`Resync` or `Overtake`, and `Continue` to `Join`; everything else stutters. The
attempt to prove it found a behaviour that the run's two Hosts are too few to
show, and that the specification as it stood did not allow: a client that
followed one Host connects to the next and is lost, its replay is suspended
before the gap is sent, that Host begins to close, and a live event overtakes
the gap. `EventFeed!Overtake` now allows it.

Only model-checked: the liveness properties `FiresSettle`, `SessionRecovers`,
`GoalAdvances`, `CallsSettle`, `ComesToRest` and `CatchesUp`, which are out of
the prover's reach. Every invariant, action property and refinement of a
passing run is stated by a theorem. In `HostEvents` the proofs speak of one
client, as the model does, and `Load`, `Replay` and `PublishEvent` are atomic
there because the code has no `await` inside those stretches.

## 6. Disagreements between code and documentation

* `goal_spend`: `docs/AUTOMATION.md:39` says that the budget limits later
  requests. A goal stopped by its budget and paused before the run's next
  request is no longer recognised as exhausted, and the run goes on spending
  for it.
* `capability_release`: `docs/PERMISSIONS.md:114` keeps as unknown what was
  dispatched before a disconnect. `release()` (`CapabilityStore.ts:440`) cancels
  running calls of the client, dispatched ones included, and they stay
  cancelled; a restart of the Host would have made them unknown.
* Stated as an exception and not as a run of its own: the same line of
  `docs/PERMISSIONS.md` keeps unknown what a time-out or a lost connection leaves
  open, but an ordinary error that a tool throws after its dispatch is recorded
  as failed (`CapabilityStore.ts:398`). `mcp.ts:391` rethrows whatever
  `isConnectionError` (1116-1120) does not recognise, the request time-out of
  the MCP client and a failed fetch included, and `capability.fail` of a client
  is taken the same way; the effect may still come. `SessionTruthful` without
  its exception `erred` fails through `ToolFails`. What is proved is that
  this is the only way to such a record: the ledger's own timer, an abort, a
  failed write and a crash never call a dispatched call failed.
* `task_torn`: `taskVerification.ts:340` and `docs/SESSIONS.md:19` say that old
  results are not used for changed artifacts. `TaskClosure.ts:301` stores the
  fingerprint of the changed artifacts as the candidate and settles the task as
  blocked in a second transaction. When the Host dies or that write fails in between, the
  resumed verification takes the changed artifacts for the candidate, finds the
  results of the earlier checks in the tool log and completes the task.
  `CompletedOnEvidence` therefore holds with this one exception (`torn`).

Two behaviours that no document rules out are excused in `EventFeed` (section
2, HostEvents) and listed as hazards. An older client that publishes its
lease marker while another process renames a torn one can lose it; the header
of `SessionLease.ts` excludes mixed versions from its guarantee.

## 7. Not modelled

Everything marked `not_modelled` in `PROJECT.json`, for three kinds of reason:
presentation and adapters (desktop, TUI, CLI, channels, appearance), effects
on the outside world (tools, browser, computer use, providers, activity
recording), and core components that come later in the plan (below). Parts of
a modelled component that are left out are named in section 2.

## 8. Plan

Done, in this order: automation with its ledger; session lease with its lock;
session goals; capability ledger; task runs with verification; Host events
with journal and client cursor; the proofs of all six.

Next, most important first:

1. The proof of `HostEvents` for several clients: the store's half stands as it
   is, the connection's half would be stated for each client.
2. `SessionClaims`: claims and run leases of several runtimes on top of
   `WriterLock` (`InteractiveAgentRuntime.ts:676-760`). Property: a runtime
   that is idle and claims nothing holds no lease.
3. `GoalGraph` on top of `TaskOutcome` (`GoalGraphStore.ts`): a node runs after
   what it needs, whatever order outcomes arrive in.
4. Checkpoints and queued messages (`checkpointStore.ts`, `queuedMessages.ts`):
   a message is delivered once, whatever receipts were saved.
5. `LocalFileLock` as a second refinement of `WriterLock`; the settings
   transaction of the desktop.

---------------------------- MODULE Automation ----------------------------
(***************************************************************************)
(* The automation scheduler of the Runtime Host                            *)
(* (src/runtime/AutomationScheduler.ts): automation definitions, the       *)
(* durable "fires" they produce, and the in-memory scheduler that turns a  *)
(* fire into at most one agent run, across pauses, deletions, session      *)
(* conflicts, shutdowns and crashes of the Host.                           *)
(*                                                                         *)
(* Durable state (SQLite) is def, fire and run.  Scheduler memory is pc,   *)
(* queue and poll.  The Host is one JavaScript thread: code between two    *)
(* awaits runs to completion, which Quiet expresses, but every store call  *)
(* is a transaction of its own, so a crash may fall between any two.       *)
(***************************************************************************)
EXTENDS Integers, Sequences, SequencesExt

CONSTANTS
  Automation,     \* automation ids
  NoAutomation,   \* owner of a fire row that does not exist yet
  NFire,          \* bound: fire rows a behaviour may create
  Session,        \* sessions that templates or heartbeats run in
  NoSession,      \* no such session: the run gets a fresh isolated one
  Primary,        \* the session of the Host's primary runtime
  Kind,           \* [Automation -> trigger type]
  Target,         \* [Automation -> template session or NoSession]
  Interval,       \* [Automation -> period of interval and heartbeat triggers]
  OnceAt,         \* [Automation -> instant of a once trigger]
  CronNext,       \* [Automation -> [Time -> next cron instant or NoTime]]
  MaxFires,       \* [Automation -> maxFires, Unlimited when not set]
  Expiry,         \* [Automation -> expiresAt, NoTime when not set]
  PauseAfter,     \* consecutive failures that stop an automation (3)
  MaxConcurrent,  \* maxConcurrentAutomationFires (4)
  DiscoveryLimit, \* limit of one claimDue call (32)
  DeferDelay,     \* deferDelay, in clock units
  MaxTime,        \* bound: the clock stops here
  MaxCrashes,     \* bound: Host crashes and exits
  Commands        \* bound: owner commands offered to the environment

NoTime == -1
Unlimited == 0
Time == 0..MaxTime
Fire == 1..NFire
TriggerType == {"once", "interval", "heartbeat", "cron"}

ASSUME AutomationAssumption ==
  /\ NoAutomation \notin Automation
  /\ NoSession \notin Session
  /\ Primary \in Session
  /\ NFire \in Nat /\ MaxTime \in Nat /\ MaxCrashes \in Nat
  /\ PauseAfter \in Nat \ {0}
  /\ MaxConcurrent \in Nat \ {0}
  /\ DiscoveryLimit \in Nat \ {0}
  /\ DeferDelay \in Nat
  /\ Kind \in [Automation -> TriggerType]
  /\ Target \in [Automation -> Session \cup {NoSession}]
  /\ Interval \in [Automation -> Nat \ {0}]
  /\ OnceAt \in [Automation -> Nat]
  /\ CronNext \in [Automation -> [Time -> Nat \cup {NoTime}]]
  /\ \A a \in Automation, t \in Time : CronNext[a][t] = NoTime \/ CronNext[a][t] > t
  /\ MaxFires \in [Automation -> Nat]
  /\ Expiry \in [Automation -> Nat \cup {NoTime}]

VARIABLES
  clock,     \* wall clock, also the instant every createdAt is taken from
  def,       \* automations table: status, next (next_fire_at), count, failures
  fire,      \* automation_pending_fires table
  run,       \* agent_runs row of the run submitted for a fire
  submits,   \* history: how many runs were submitted for a fire
  host,      \* "down", "recovering", "up" or "stopping"
  pc,        \* where executeFire stands for a fire of pendingFires
  queue,     \* fireQueue
  poll,      \* a claimDue call in progress
  userBusy,  \* sessions occupied by a run of somebody else
  crashes    \* history: exits and crashes so far

vars == <<clock, def, fire, run, submits, host, pc, queue, poll, userBusy, crashes>>
store == <<def, fire>>
memory == <<pc, queue, poll>>

DefStatus == {"absent", "active", "paused", "completed", "failed", "expired"}
FireStatus == {"none", "pending", "running", "deferred", "completed", "failed",
               "needs_approval", "deleted"}
RunStatus == {"none", "live", "lost", "completed", "failed"}
Place == {"idle", "queued", "claimed", "preparing", "submitted", "running", "timedOut"}

NoDef == [status |-> "absent", next |-> NoTime, count |-> 0, failures |-> 0]
NoFire == [status |-> "none", auto |-> NoAutomation, at |-> NoTime,
           created |-> NoTime, retry |-> NoTime, bound |-> FALSE]
NoPoll == [phase |-> "off", now |-> 0, left |-> 0, found |-> <<>>]

DefRow == [status : DefStatus, next : Nat \cup {NoTime}, count : Nat, failures : Nat]
FireRow == [status : FireStatus, auto : Automation \cup {NoAutomation},
            at : Time \cup {NoTime}, created : Time \cup {NoTime},
            retry : Nat \cup {NoTime}, bound : BOOLEAN]
PollState == [phase : {"off", "expire", "recover", "due", "enqueue"}, now : Time,
              left : 0..DiscoveryLimit, found : Seq(Fire)]

TypeOK ==
  /\ clock \in Time
  /\ def \in [Automation -> DefRow]
  /\ fire \in [Fire -> FireRow]
  /\ run \in [Fire -> RunStatus]
  /\ submits \in [Fire -> Nat]
  /\ host \in {"down", "recovering", "up", "stopping"}
  /\ pc \in [Fire -> Place]
  /\ queue \in Seq(Fire)
  /\ poll \in PollState
  /\ userBusy \in [Session -> BOOLEAN]
  /\ crashes \in 0..MaxCrashes

Init ==
  /\ clock = 0
  /\ def = [a \in Automation |-> NoDef]
  /\ fire = [f \in Fire |-> NoFire]
  /\ run = [f \in Fire |-> "none"]
  /\ submits = [f \in Fire |-> 0]
  /\ host = "up"
  /\ pc = [f \in Fire |-> "idle"]
  /\ queue = <<>>
  /\ poll = NoPoll
  /\ userBusy = [s \in Session |-> FALSE]
  /\ crashes = 0

-----------------------------------------------------------------------------
(* Schedules *)

\* initialFireAt
InitialFireAt(a, t) ==
  CASE Kind[a] = "once" -> OnceAt[a]
    [] Kind[a] = "cron" -> CronNext[a][t]
    [] OTHER            -> t + Interval[a]

\* advanceFireAt (jitter is a later instant of the same kind and is left out)
AdvanceFireAt(a, t) ==
  CASE Kind[a] = "once" -> NoTime
    [] Kind[a] = "cron" -> CronNext[a][t]
    [] OTHER            -> t + Interval[a]

NextCursor_Backfill(a, scheduled, now) == AdvanceFireAt(a, scheduled)
\* The cursor after a discovery: missed periods are skipped, not replayed.
NextCursor(a, scheduled, now) ==
  LET next == AdvanceFireAt(a, scheduled)
  IN  IF next # NoTime /\ next <= now THEN AdvanceFireAt(a, now) ELSE next

-----------------------------------------------------------------------------
(* Guards shared by claiming and submitting *)

BudgetLeft_OffByOne(a) == MaxFires[a] = Unlimited \/ def[a].count <= MaxFires[a]
BudgetLeft(a) == MaxFires[a] = Unlimited \/ def[a].count < MaxFires[a]

ExpiredBy(a, t) == Expiry[a] # NoTime /\ Expiry[a] <= t

\* canClaimFire: expiry stops new fires, not one admitted before it
CanClaimFire(f) ==
  LET a == fire[f].auto
  IN  /\ Expiry[a] = NoTime \/ fire[f].created < Expiry[a]
      /\ \/ def[a].status = "active"
         \/ def[a].status = "expired" /\ Expiry[a] # NoTime

\* The session key a fire occupies; none for an isolated run.
SessionOf(a) ==
  IF Target[a] # NoSession THEN Target[a]
  ELSE IF Kind[a] = "heartbeat" THEN Primary ELSE NoSession

Isolated(a) == SessionOf(a) = NoSession

\* runtimeIsBusy: the one runtime of a session has an active run
SessionBusy(s) ==
  \/ s \in Session /\ userBusy[s]
  \/ \E f \in Fire : run[f] = "live" /\ SessionOf(fire[f].auto) = s /\ s # NoSession

-----------------------------------------------------------------------------
(* Run to completion on the JavaScript thread *)

Active == {f \in Fire : pc[f] \notin {"idle", "queued"}}
ActiveAutomations == {fire[f].auto : f \in Active}
ActiveSessions == {SessionOf(fire[f].auto) : f \in Active} \ {NoSession}

\* Mutant: automations and sessions in use are not looked at.
Startable_Any(i) == i \in DOMAIN queue

\* dispatchQueuedFires may start the fire at position i
Startable(i) ==
  LET a == fire[queue[i]].auto
  IN  /\ a \notin ActiveAutomations
      /\ def[a].status = "absent" \/ SessionOf(a) \notin ActiveSessions

SlotFree == Cardinality(Active) < MaxConcurrent

Dispatchable == host = "up" /\ SlotFree /\ \E i \in DOMAIN queue : Startable(i)

\* No synchronous code is half way: the next macrotask or microtask may run.
Settled == ~Dispatchable /\ \A f \in Fire : pc[f] \notin {"claimed", "submitted"}
Quiet == Settled /\ poll.phase = "off"
Serving == host \in {"up", "stopping"}

-----------------------------------------------------------------------------
(* Store transactions on a running fire *)

\* The last success of the budget completes the automation.
CompletedStatus(a) ==
  IF MaxFires[a] # Unlimited /\ def[a].count + 1 >= MaxFires[a] THEN "completed"
  ELSE def[a].status

CompletedDef(a) ==
  [def[a] EXCEPT !.status = CompletedStatus(a), !.count = @ + 1, !.failures = 0]

FailedStatus_Unconditional(a) ==
  IF def[a].failures + 1 >= PauseAfter THEN "failed" ELSE "active"
\* A failure only moves an automation that is still active.
FailedStatus(a) ==
  IF def[a].status = "active" /\ def[a].failures + 1 >= PauseAfter THEN "failed"
  ELSE def[a].status

FailedDef(a) == [def[a] EXCEPT !.status = FailedStatus(a), !.failures = @ + 1]

CompleteFire(f) ==
  /\ fire' = [fire EXCEPT ![f].status = "completed", ![f].bound = TRUE]
  /\ def' = [def EXCEPT ![fire[f].auto] = CompletedDef(fire[f].auto)]

FailFire(f) ==
  /\ fire' = [fire EXCEPT ![f].status = "failed"]
  /\ def' = [def EXCEPT ![fire[f].auto] = FailedDef(fire[f].auto)]

DeferFire(f) ==
  /\ fire' = [fire EXCEPT ![f].status = "deferred", ![f].retry = clock + DeferDelay]
  /\ UNCHANGED def

\* The slot is given back and the fire leaves pendingFires.
Release(f) == pc' = [pc EXCEPT ![f] = "idle"] /\ UNCHANGED <<queue, poll>>

-----------------------------------------------------------------------------
(* Owner commands *)

Create(a) ==
  /\ Serving /\ Quiet
  /\ def[a].status = "absent"
  /\ InitialFireAt(a, clock) # NoTime
  /\ def' = [def EXCEPT ![a] = [NoDef EXCEPT !.status = "active",
                                            !.next = InitialFireAt(a, clock)]]
  /\ UNCHANGED <<clock, fire, run, submits, host, memory, userBusy, crashes>>

Pause(a) ==
  /\ "pause" \in Commands /\ Serving /\ Quiet
  /\ def[a].status \notin {"absent", "paused"}
  /\ def' = [def EXCEPT ![a].status = "paused"]
  /\ UNCHANGED <<clock, fire, run, submits, host, memory, userBusy, crashes>>

\* The instants a cron automation without a cursor is not resumed before: now
\* and those of the fires it already produced.
Produced(a) == {clock} \cup {fire[f].at : f \in {g \in Fire : fire[g].auto = a
                                                   /\ fire[g].status # "deleted"}}

ResumeCursor(a, from) ==
  IF def[a].next # NoTime \/ Kind[a] # "cron" THEN def[a].next ELSE CronNext[a][from]

ResumedDef_KeepsFailures(a, from) ==
  [def[a] EXCEPT !.status = "active", !.next = ResumeCursor(a, from)]
ResumedDef(a, from) ==
  [def[a] EXCEPT !.status = "active", !.failures = 0, !.next = ResumeCursor(a, from)]

Resume(a) ==
  /\ "resume" \in Commands /\ Serving /\ Quiet
  /\ def[a].status \notin {"absent", "active"}
  /\ \E latest \in Produced(a) :
       /\ \A t \in Produced(a) : t <= latest
       /\ def' = [def EXCEPT ![a] = ResumedDef(a, latest)]
  /\ UNCHANGED <<clock, fire, run, submits, host, memory, userBusy, crashes>>

\* The fire rows go with their definition (ON DELETE CASCADE).
Delete(a) ==
  /\ "delete" \in Commands /\ Serving /\ Quiet
  /\ def[a].status # "absent"
  /\ def' = [def EXCEPT ![a] = NoDef]
  /\ fire' = [f \in Fire |-> IF fire[f].auto = a THEN [fire[f] EXCEPT !.status = "deleted"]
                             ELSE fire[f]]
  /\ UNCHANGED <<clock, run, submits, host, memory, userBusy, crashes>>

\* The row randomUUID() gives a new fire: the first one not used so far.
Fresh(f) == fire[f].status = "none" /\ \A g \in Fire : g < f => fire[g].status # "none"

\* UNIQUE (automation_id, scheduled_at)
RowsAt(a, t) == {f \in Fire : fire[f].auto = a /\ fire[f].at = t /\ fire[f].status # "deleted"}

PendingFire(a, t) == [NoFire EXCEPT !.status = "pending", !.auto = a, !.at = t, !.created = clock]

Enqueue(f) == pc' = [pc EXCEPT ![f] = "queued"] /\ queue' = Append(queue, f)

\* runNow: forceFire, then enqueueFire
RunNow(a) ==
  /\ "run" \in Commands /\ host = "up" /\ Quiet
  /\ def[a].status \notin {"absent", "expired"} /\ ~ExpiredBy(a, clock) /\ BudgetLeft(a)
  /\ RowsAt(a, clock) = {}
  /\ \E f \in Fire : /\ Fresh(f)
                    /\ fire' = [fire EXCEPT ![f] = PendingFire(a, clock)]
                    /\ Enqueue(f)
  /\ UNCHANGED <<clock, def, run, submits, host, poll, userBusy, crashes>>

-----------------------------------------------------------------------------
(* queueDueFires: claimDue discovers due work in transactions of its own, *)
(* then every fire it returns is queued                                    *)

Expirable == {a \in Automation : def[a].status = "active" /\ ExpiredBy(a, clock)}

DueAt(f) == IF fire[f].status = "deferred" THEN fire[f].retry ELSE fire[f].at

\* Mutant: a deferred row is not looked for.
Recoverable_PendingOnly(t) ==
  {f \in Fire : /\ fire[f].status = "pending"
               /\ DueAt(f) <= t
               /\ pc[f] = "idle" /\ f \notin ToSet(poll.found)
               /\ def[fire[f].auto].status \in {"active", "expired"}
               /\ BudgetLeft(fire[f].auto)
               /\ CanClaimFire(f)}
\* Pending and deferred rows due by t that no memory queue knows of.
Recoverable(t) ==
  {f \in Fire : /\ fire[f].status \in {"pending", "deferred"}
               /\ DueAt(f) <= t
               /\ pc[f] = "idle" /\ f \notin ToSet(poll.found)
               /\ def[fire[f].auto].status \in {"active", "expired"}
               /\ BudgetLeft(fire[f].auto)
               /\ CanClaimFire(f)}

\* Active definitions whose cursor is due by t; one that needs a row when the
\* bound NFire is used up stays undiscovered.
Due(t) ==
  {a \in Automation : /\ def[a].status = "active"
                     /\ def[a].next # NoTime /\ def[a].next <= t
                     /\ \/ ~BudgetLeft(a) \/ ExpiredBy(a, clock)
                        \/ RowsAt(a, def[a].next) # {} \/ \E f \in Fire : Fresh(f)}

\* A poll that finds nothing changes nothing and is left out.
PollStart ==
  /\ host = "up" /\ Quiet
  /\ Expirable # {} \/ Recoverable(clock) # {} \/ Due(clock) # {}
  /\ poll' = [NoPoll EXCEPT !.phase = "expire", !.now = clock, !.left = DiscoveryLimit]
  /\ UNCHANGED <<clock, store, run, submits, host, pc, queue, userBusy, crashes>>

PollExpire(a) ==
  /\ poll.phase = "expire" /\ a \in Expirable
  /\ def' = [def EXCEPT ![a].status = "expired"]
  /\ UNCHANGED <<clock, fire, run, submits, host, memory, userBusy, crashes>>

\* One discovery returns at most DiscoveryLimit fires it did not know of.
LimitLeft_Ignored == TRUE
LimitLeft == poll.left > 0

PollRecover(f) ==
  /\ poll.phase = "recover" /\ LimitLeft
  /\ f \in Recoverable(poll.now) /\ \A g \in Recoverable(poll.now) : DueAt(f) <= DueAt(g)
  /\ fire' = [fire EXCEPT ![f].status = "pending", ![f].retry = NoTime]
  /\ poll' = [poll EXCEPT !.left = @ - 1, !.found = Append(@, f)]
  /\ UNCHANGED <<clock, def, run, submits, host, pc, queue, userBusy, crashes>>

\* claimDue inserts the fire row and moves the cursor in one transaction; a
\* definition out of budget or past its expiry is retired instead.
Retire(a, status) ==
  /\ def' = [def EXCEPT ![a].status = status]
  /\ poll' = [poll EXCEPT !.left = @ - 1]
  /\ UNCHANGED fire

ProduceFire(a) ==
  \E f \in Fire :
    /\ IF RowsAt(a, def[a].next) # {}
       THEN f \in RowsAt(a, def[a].next) /\ UNCHANGED fire
       ELSE Fresh(f) /\ fire' = [fire EXCEPT ![f] = PendingFire(a, def[a].next)]
    /\ def' = [def EXCEPT ![a].next = NextCursor(a, @, poll.now)]
    /\ poll' = [poll EXCEPT !.left = @ - 1, !.found = Append(@, f)]

PollDue(a) ==
  /\ poll.phase = "due" /\ LimitLeft
  /\ a \in Due(poll.now) /\ \A b \in Due(poll.now) : def[a].next <= def[b].next
  /\ \/ ~BudgetLeft(a) /\ Retire(a, "completed")
     \/ BudgetLeft(a) /\ ExpiredBy(a, clock) /\ Retire(a, "expired")
     \/ BudgetLeft(a) /\ ~ExpiredBy(a, clock) /\ ProduceFire(a)
  /\ UNCHANGED <<clock, run, submits, host, pc, queue, userBusy, crashes>>

\* enqueueFire for the next fire returned: a fire already pending in memory
\* keeps its one queue entry.
PollEnqueue ==
  /\ poll.phase = "enqueue" /\ Settled /\ poll.found # <<>>
  /\ IF pc[Head(poll.found)] = "idle" THEN Enqueue(Head(poll.found)) ELSE UNCHANGED <<pc, queue>>
  /\ poll' = [poll EXCEPT !.found = Tail(@)]
  /\ UNCHANGED <<clock, store, run, submits, host, userBusy, crashes>>

PhaseDone ==
  CASE poll.phase = "expire"  -> Expirable = {}
    [] poll.phase = "recover" -> ~LimitLeft \/ Recoverable(poll.now) = {}
    [] poll.phase = "due"     -> ~LimitLeft \/ Due(poll.now) = {}
    [] poll.phase = "enqueue" -> Settled /\ poll.found = <<>>

PollPhase ==
  /\ poll.phase # "off" /\ PhaseDone
  /\ poll' = CASE poll.phase = "expire"  -> [poll EXCEPT !.phase = "recover"]
               [] poll.phase = "recover" -> [poll EXCEPT !.phase = "due"]
               [] poll.phase = "due"     -> [poll EXCEPT !.phase = "enqueue"]
               [] poll.phase = "enqueue" -> NoPoll
  /\ UNCHANGED <<clock, store, run, submits, host, pc, queue, userBusy, crashes>>

-----------------------------------------------------------------------------
(* dispatchQueuedFires and executeFire *)

\* claimFire takes the row only while its definition admits a run.
Claimable(f) ==
  /\ fire[f].status \in {"pending", "deferred"}
  /\ def[fire[f].auto].status \in {"active", "expired"}
  /\ CanClaimFire(f) /\ BudgetLeft(fire[f].auto)

\* The first startable entry leaves the queue; a rejected claim gives its slot
\* back at once.
Dispatch ==
  /\ Dispatchable /\ \A f \in Fire : pc[f] \notin {"claimed", "submitted"}
  /\ \E i \in DOMAIN queue :
       LET f == queue[i] IN
       /\ Startable(i) /\ \A j \in 1..(i - 1) : ~Startable(j)
       /\ queue' = RemoveAt(queue, i)
       /\ IF Claimable(f)
          THEN /\ fire' = [fire EXCEPT ![f].status = "running"]
               /\ pc' = [pc EXCEPT ![f] = "claimed"]
          ELSE UNCHANGED fire /\ pc' = [pc EXCEPT ![f] = "idle"]
  /\ UNCHANGED <<clock, def, run, submits, host, poll, userBusy, crashes>>

UsesDedicatedRuntime(a) == Kind[a] # "heartbeat" \/ Target[a] # NoSession

\* A heartbeat of the primary session is deferred while that session is busy.
AdmitBusy(f) ==
  /\ pc[f] = "claimed"
  /\ ~UsesDedicatedRuntime(fire[f].auto) /\ SessionBusy(Primary)
  /\ DeferFire(f) /\ Release(f)
  /\ UNCHANGED <<clock, run, submits, host, userBusy, crashes>>

\* await createFreshRuntime
Prepare(f) ==
  /\ pc[f] = "claimed" /\ UsesDedicatedRuntime(fire[f].auto)
  /\ pc' = [pc EXCEPT ![f] = "preparing"]
  /\ UNCHANGED <<clock, store, run, submits, host, queue, poll, userBusy, crashes>>

\* Where the synchronous tail of executeFire, up to the submission, starts.
AtSubmission(f) ==
  \/ pc[f] = "preparing" /\ Quiet /\ Serving
  \/ pc[f] = "claimed" /\ ~UsesDedicatedRuntime(fire[f].auto) /\ ~SessionBusy(Primary)

\* revalidateUnsubmittedFire: the claim survived the await ...
ClaimHeld(f) == fire[f].status = "running" /\ ~fire[f].bound
\* ... and the definition still admits it
StillAdmitted(f) == CanClaimFire(f) /\ BudgetLeft(fire[f].auto)

ClaimLost(f) ==
  /\ AtSubmission(f) /\ ~ClaimHeld(f)
  /\ Release(f)
  /\ UNCHANGED <<clock, store, run, submits, host, userBusy, crashes>>

\* Definition paused or retired, target session busy, or Host stopping.
DeferUnsubmitted(f) ==
  /\ AtSubmission(f) /\ ClaimHeld(f)
  /\ \/ ~StillAdmitted(f)
     \/ SessionBusy(SessionOf(fire[f].auto))
     \/ host = "stopping"
  /\ DeferFire(f) /\ Release(f)
  /\ UNCHANGED <<clock, run, submits, host, userBusy, crashes>>

\* createFreshRuntime or submitPrompt throws.
PrepareFails(f) ==
  /\ AtSubmission(f) /\ ClaimHeld(f) /\ StillAdmitted(f)
  /\ FailFire(f) /\ Release(f)
  /\ UNCHANGED <<clock, run, submits, host, userBusy, crashes>>

MaySubmit_Unchecked(f) ==
  ClaimHeld(f) /\ ~SessionBusy(SessionOf(fire[f].auto)) /\ host = "up"
MaySubmit_BusyBeforeAwait(f) == ClaimHeld(f) /\ StillAdmitted(f) /\ host = "up"
\* The checks made after the await, in the same turn as submitPrompt
MaySubmit(f) ==
  /\ ClaimHeld(f) /\ StillAdmitted(f)
  /\ ~SessionBusy(SessionOf(fire[f].auto))
  /\ host = "up"

Submit(f) ==
  /\ AtSubmission(f) /\ MaySubmit(f)
  /\ run' = [run EXCEPT ![f] = "live"]
  /\ submits' = [submits EXCEPT ![f] = @ + 1]
  /\ pc' = [pc EXCEPT ![f] = "submitted"]
  /\ UNCHANGED <<clock, store, host, queue, poll, userBusy, crashes>>

\* bindFireRun
Bind(f) ==
  /\ pc[f] = "submitted"
  /\ fire' = [fire EXCEPT ![f].bound = TRUE]
  /\ pc' = [pc EXCEPT ![f] = "running"]
  /\ UNCHANGED <<clock, def, run, submits, host, queue, poll, userBusy, crashes>>

\* The runtime commits the terminal outcome before completion resolves.
RunEnds(f, outcome) ==
  /\ Quiet /\ Serving /\ run[f] = "live" /\ pc[f] \in {"running", "timedOut"}
  /\ run' = [run EXCEPT ![f] = outcome]
  /\ UNCHANGED <<clock, store, submits, host, memory, userBusy, crashes>>

\* waitForIsolatedAutomationRun: the time limit passes and cancelRun accepts
RunTimesOut(f) ==
  /\ Quiet /\ Serving /\ pc[f] = "running" /\ run[f] = "live" /\ Isolated(fire[f].auto)
  /\ pc' = [pc EXCEPT ![f] = "timedOut"]
  /\ UNCHANGED <<clock, store, run, submits, host, queue, poll, userBusy, crashes>>

\* What the outcome does to a row: nothing when it was deleted meanwhile.
SettleRow(f) ==
  CASE fire[f].status # "running"                         -> UNCHANGED store
    [] fire[f].status = "running" /\ pc[f] = "running"
         /\ run[f] = "completed"                          -> CompleteFire(f)
    [] OTHER                                              -> FailFire(f)

Settle(f) ==
  /\ Quiet /\ Serving /\ pc[f] \in {"running", "timedOut"} /\ run[f] \in {"completed", "failed"}
  /\ SettleRow(f)
  /\ Release(f)
  /\ UNCHANGED <<clock, run, submits, host, userBusy, crashes>>

-----------------------------------------------------------------------------
(* The Host: shutdown, crash, and the next owner's recovery *)

\* stop(): queued fires stay durable for the next owner; work in flight goes on.
Stop ==
  /\ "stop" \in Commands /\ host = "up" /\ Quiet
  /\ host' = "stopping"
  /\ queue' = <<>>
  /\ pc' = [f \in Fire |-> IF pc[f] = "queued" THEN "idle" ELSE pc[f]]
  /\ UNCHANGED <<clock, store, run, submits, poll, userBusy, crashes>>

\* The process ends, in order or not: memory is gone, live runs have no outcome.
Crash ==
  /\ host # "down" /\ crashes < MaxCrashes
  /\ crashes' = crashes + 1
  /\ host' = "down"
  /\ run' = [f \in Fire |-> IF run[f] = "live" THEN "lost" ELSE run[f]]
  /\ pc' = [f \in Fire |-> "idle"] /\ queue' = <<>> /\ poll' = NoPoll
  /\ userBusy' = [s \in Session |-> FALSE]
  /\ UNCHANGED <<clock, store, submits>>

Start ==
  /\ host = "down" /\ host' = "recovering"
  /\ UNCHANGED <<clock, store, run, submits, memory, userBusy, crashes>>

RecoverRow_Requeue(f) ==
  IF fire[f].bound /\ run[f] = "completed" THEN CompleteFire(f)
  ELSE fire' = [fire EXCEPT ![f].status = "pending", ![f].bound = FALSE] /\ UNCHANGED def
RecoverRow_TrustsBinding(f) == IF fire[f].bound THEN CompleteFire(f) ELSE FailFire(f)
\* recoverInFlight: a bound run's terminal outcome decides; anything else is
\* left to the owner and never run again.
RecoverRow(f) ==
  CASE fire[f].bound /\ run[f] = "completed" -> CompleteFire(f)
    [] fire[f].bound /\ run[f] = "failed"    -> FailFire(f)
    [] OTHER -> fire' = [fire EXCEPT ![f].status = "needs_approval"] /\ UNCHANGED def

RecoverFire(f) ==
  /\ host = "recovering" /\ fire[f].status = "running"
  /\ RecoverRow(f)
  /\ UNCHANGED <<clock, run, submits, host, memory, userBusy, crashes>>

RecoveryDone ==
  /\ host = "recovering" /\ \A f \in Fire : fire[f].status # "running"
  /\ host' = "up"
  /\ UNCHANGED <<clock, store, run, submits, memory, userBusy, crashes>>

-----------------------------------------------------------------------------
(* The environment *)

\* Time passes between turns of the event loop and within a discovery.
Tick ==
  /\ clock < MaxTime /\ clock' = clock + 1
  /\ Settled
  /\ UNCHANGED <<store, run, submits, host, memory, userBusy, crashes>>

UserRunStarts(s) ==
  /\ "user" \in Commands /\ host = "up" /\ Quiet /\ ~SessionBusy(s)
  /\ userBusy' = [userBusy EXCEPT ![s] = TRUE]
  /\ UNCHANGED <<clock, store, run, submits, host, memory, crashes>>

UserRunEnds(s) ==
  /\ Quiet /\ userBusy[s]
  /\ userBusy' = [userBusy EXCEPT ![s] = FALSE]
  /\ UNCHANGED <<clock, store, run, submits, host, memory, crashes>>

-----------------------------------------------------------------------------
Command(a) == Create(a) \/ Pause(a) \/ Resume(a) \/ Delete(a) \/ RunNow(a)

Poll ==
  \/ PollStart \/ PollEnqueue \/ PollPhase
  \/ \E a \in Automation : PollExpire(a) \/ PollDue(a)
  \/ \E f \in Fire : PollRecover(f)

Attempt(f) ==
  \/ AdmitBusy(f) \/ Prepare(f) \/ ClaimLost(f) \/ DeferUnsubmitted(f)
  \/ PrepareFails(f) \/ Submit(f) \/ Bind(f)

Outcome(f) ==
  \/ \E outcome \in {"completed", "failed"} : RunEnds(f, outcome)
  \/ RunTimesOut(f) \/ Settle(f)

Owner == Stop \/ Crash \/ Start \/ RecoveryDone \/ \E f \in Fire : RecoverFire(f)

Next ==
  \/ \E a \in Automation : Command(a)
  \/ Poll \/ Dispatch
  \/ \E f \in Fire : Attempt(f) \/ Outcome(f)
  \/ Owner
  \/ Tick \/ \E s \in Session : UserRunStarts(s) \/ UserRunEnds(s)

Spec == Init /\ [][Next]_vars

-----------------------------------------------------------------------------
(* Correctness *)

RowsIn(a, status) == {f \in Fire : fire[f].auto = a /\ fire[f].status = status}

\* A fire is submitted as a run at most once: neither a deferral, a second
\* discovery, nor the recovery after a crash replays it (executeFire,
\* recoverInFlight).
AtMostOneRun == \A f \in Fire : submits[f] <= 1

\* Successful runs never exceed maxFires, and the durable counter is the
\* number of completed rows, so a crash between two transactions neither loses
\* nor repeats a completion (completeFire, recoverInFlight).
BudgetRespected ==
  \A a \in Automation :
    /\ def[a].count = Cardinality(RowsIn(a, "completed"))
    /\ MaxFires[a] # Unlimited => def[a].count <= MaxFires[a]

\* One live run per automation and per session, whether the automation was
\* deleted and created again meanwhile or a user works in the session
\* (dispatchQueuedFires, the checks before submitPrompt).
RunsExclusive ==
  \A f \in Fire : run[f] = "live" =>
    /\ SessionOf(fire[f].auto) \in Session => ~userBusy[SessionOf(fire[f].auto)]
    /\ \A g \in Fire \ {f} : run[g] = "live" =>
         /\ fire[f].auto # fire[g].auto
         /\ Isolated(fire[f].auto) \/ SessionOf(fire[f].auto) # SessionOf(fire[g].auto)

\* A row says completed only when its run did, and needs_approval only when no
\* outcome could be proven (executeFire, recoverInFlight).
OutcomeProven ==
  \A f \in Fire :
    /\ fire[f].status = "completed" => run[f] = "completed"
    /\ fire[f].status = "failed" => run[f] \notin {"live", "lost"}
    /\ fire[f].status = "needs_approval" => ~(fire[f].bound /\ run[f] \in {"completed", "failed"})

\* An automation at its failure limit is not active: every resume starts a new
\* count (failFire, resume).
ActiveIsHealthy == \A a \in Automation : def[a].status = "active" => def[a].failures < PauseAfter

\* A discovery moves the cursor past its own instant, so the periods missed
\* while the Host was away are skipped and never replayed one by one (claimDue).
MissedPeriodsSkipped ==
  [][\A a \in Automation : poll.phase = "due" /\ def'[a].next # def[a].next
       => def'[a].next = NoTime \/ def'[a].next > poll.now]_vars

\* A run starts only while its definition exists, is neither paused, failed nor
\* completed, and has budget, and while the Host accepts work: whatever changed
\* during the awaits of executeFire (revalidateUnsubmittedFire).
NoRunWhenRetired ==
  [][\A f \in Fire : submits'[f] # submits[f] =>
       /\ fire[f].status = "running" /\ host = "up"
       /\ def[fire[f].auto].status \in {"active", "expired"} /\ BudgetLeft(fire[f].auto)]_vars

\* A failing run does not override the owner's pause or a terminal status
\* (failFire).
PauseNotOverridden ==
  [][\A a \in Automation : def[a].status \in {"paused", "completed", "expired"}
       => def'[a].status # "failed"]_vars

\* The scheduler implements the ledger of fires.
LedgerPhase ==
  [f \in Fire |->
    CASE fire[f].status = "none"                   -> "absent"
      [] fire[f].status \in {"pending", "deferred"} -> "waiting"
      [] fire[f].status = "running" /\ submits[f] = 0 -> "claimed"
      [] fire[f].status = "running" /\ submits[f] # 0 -> "submitted"
      [] fire[f].status = "completed"              -> "succeeded"
      [] fire[f].status = "needs_approval"         -> "unknown"
      [] OTHER                                     -> fire[f].status]

Ledger == INSTANCE FireLedger WITH
  phase <- LedgerPhase, owner <- [f \in Fire |-> fire[f].auto], starts <- submits

ImplementsLedger == Ledger!LedgerSpec

-----------------------------------------------------------------------------
(* Progress: as long as the event loop owes a turn (a poll, a dispatch, the  *)
(* start of a Host that went down, the continuation of a fire), a run has   *)
(* to end or time can pass, one of these happens in the end.  Nothing is    *)
(* assumed of users and owners.                                             *)
HostTurn == Poll \/ Dispatch \/ Start \/ RecoveryDone \/ \E f \in Fire : RecoverFire(f)
FireTurn(f) ==
  Attempt(f) \/ Settle(f) \/ \E outcome \in {"completed", "failed"} : RunEnds(f, outcome)

Fairness == WF_vars(HostTurn \/ Tick \/ \E f \in Fire : FireTurn(f))

FairSpec == Spec /\ Fairness

SettledStatus == {"completed", "failed", "needs_approval", "deleted"}
Admitted(f) == Claimable(f) \/ fire[f].status = "running"

\* Due again only after the clock of the model has stopped.
PastHorizon(f) == fire[f].status = "deferred" /\ fire[f].retry > MaxTime

\* A fire its definition admits is settled, or stops being admitted: it waits
\* for no slot, poll or crashed owner forever, and one that was deferred for a
\* busy session is taken up again whenever its retry is due, as often as it is
\* deferred; only the end of the clock excuses it (executeFire, claimDue).
FiresSettle ==
  \A f \in Fire :
    Admitted(f) ~> fire[f].status \in SettledStatus \/ ~Admitted(f) \/ PastHorizon(f)
============================================================================

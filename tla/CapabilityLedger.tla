------------------------- MODULE CapabilityLedger -------------------------
(***************************************************************************)
(* The durable ledger of capability calls                                  *)
(* (src/src/runtime/CapabilityStore.ts), the tool calls of a session that   *)
(* go through it (src/src/agent/toolExecutionCoordinator.ts), the recovery  *)
(* of an interrupted call (src/src/session/replay.ts,                       *)
(* src/src/session/capabilityOutcomeResolver.ts) and the calls that a      *)
(* connected client executes (src/src/runtime/host/composition.ts).        *)
(*                                                                         *)
(* A host operation is one tool call of a session.  The Host executes it:  *)
(* a "reported" one (MCP) tells the ledger when its request leaves, any    *)
(* other (a plugin) counts as dispatched from the start.  A client         *)
(* operation is offered to the client that registered the capability; the  *)
(* client executes it and reports by requests.  The effect of a request    *)
(* comes at any time after it left, also after a time-out, a disconnect or *)
(* the death of the Host.                                                  *)
(*                                                                         *)
(* Steps without an await between them are one action; where a write may   *)
(* fail or the Host may die inside such a run of steps, the action chooses *)
(* how far it got.                                                         *)
(***************************************************************************)
EXTENDS Naturals, FiniteSets

CONSTANTS
    HostOp,      \* tool calls of a session
    Reported,    \* those whose executor reports its dispatch
    ClientOp,    \* calls offered to clients
    Client,      \* clients, each with one registration
    Owner,       \* [ClientOp -> Client]: the registration a call names
    MaxCalls,    \* bound: how many tool calls the session makes
    MaxCrashes,  \* bound: how often the Host dies
    MaxFaults    \* bound: how many ledger writes fail

ASSUME OpAssumption == HostOp \cap ClientOp = {} /\ Reported \subseteq HostOp
ASSUME OwnerAssumption == Owner \in [ClientOp -> Client]
ASSUME BoundsAssumption == MaxCalls \in Nat /\ MaxCrashes \in Nat /\ MaxFaults \in Nat

Op == HostOp \cup ClientOp

VARIABLES
    row,      \* capability_invocations: status and dispatch_state
    reg,      \* capability_registrations: status, per client
    log,      \* the session log's last word on a host operation
    host,     \* life of the Host process
    pc,       \* a tool call in the Host's memory
    tool,     \* the promise that a tool's execute() returned
    told,     \* the outcome the ledger gave to the coordinator
    conn,     \* connected clients
    offered,  \* client operations whose offer reached the owner
    pending,  \* [Op -> requests whose effect may still come]
    effects,  \* [Op -> effects that took place]
    erred,    \* history: calls whose executor itself reported an error
    crashes, faults

durable == <<row, reg, log>>
memory == <<pc, tool, told>>
clients == <<conn, offered>>
world == <<pending, effects, erred>>
bounds == <<crashes, faults>>
vars == <<durable, host, memory, clients, world, bounds>>

Live == {"admitted", "accepted", "running"}
\* "errorResult" is the status result with a payload that says an error.
TerminalRow == {"result", "errorResult", "failed", "cancelled", "unknown"}
Row == [status : {"none"} \cup Live \cup TerminalRow, dispatched : BOOLEAN]
\* "inactive" is registered or rejected: either refuses calls until it is admitted.
RegStatus == {"none", "inactive", "admitted", "released"}
Outcome == {"succeeded", "failed", "cancelled", "unknown"}
NoOutcome == "none"

Init ==
    /\ row = [o \in Op |-> [status |-> "none", dispatched |-> FALSE]]
    /\ reg = [c \in Client |-> "none"]
    /\ log = [o \in HostOp |-> "none"]
    /\ host = "ready"
    /\ pc = [o \in HostOp |-> "idle"]
    /\ tool = [o \in HostOp |-> "off"]
    /\ told = [o \in HostOp |-> NoOutcome]
    /\ conn = {} /\ offered = {}
    /\ pending = [o \in Op |-> 0]
    /\ effects = [o \in Op |-> 0]
    /\ erred = {}
    /\ crashes = 0 /\ faults = 0

Open(o) == row[o].status \in Live
WriteFails == faults < MaxFaults /\ faults' = faults + 1
Dies ==
    /\ crashes < MaxCrashes /\ crashes' = crashes + 1
    /\ host' = "down"
    /\ pc' = [o \in HostOp |-> "idle"]
    /\ tool' = [o \in HostOp |-> "off"]
    /\ told' = [o \in HostOp |-> NoOutcome]
    /\ conn' = {}
    /\ UNCHANGED <<offered, faults>>

\* updateInvocationStatus: only an open row moves, and only forward.
Allowed(from, to) ==
    \/ from \in Live /\ to \in {"failed", "cancelled", "unknown"}
    \/ <<from, to>> \in {<<"admitted", "accepted">>, <<"accepted", "running">>, <<"running", "result">>,
                         <<"running", "errorResult">>}
SetStatus(o, status) ==
    /\ Allowed(row[o].status, status)
    /\ row' = [row EXCEPT ![o].status = status]

-----------------------------------------------------------------------------
(* Tool calls of the session, executed by the Host. *)

\* The call is on the session log before anything else happens.
CallTool(o) ==
    /\ host = "ready" /\ log[o] = "none"
    /\ Cardinality({p \in HostOp : log[p] # "none"}) < MaxCalls
    /\ log' = [log EXCEPT ![o] = "not_started"]
    /\ pc' = [pc EXCEPT ![o] = "calling"]
    /\ UNCHANGED <<row, reg, host, tool, told, clients, world, bounds>>

\* The last record before a side effect: persistState("admitted").
AdmitTool(o) ==
    /\ host = "ready" /\ pc[o] = "calling"
    /\ log' = [log EXCEPT ![o] = "admitted"]
    /\ pc' = [pc EXCEPT ![o] = "admitted"]
    /\ UNCHANGED <<row, reg, host, tool, told, clients, world, bounds>>

Tell(o, outcome) ==
    /\ told' = [told EXCEPT ![o] = outcome]
    /\ pc' = [pc EXCEPT ![o] = "told"]

\* The run was cancelled before the tool was entered.
AbortEarly(o) ==
    /\ host = "ready" /\ pc[o] \in {"calling", "admitted"}
    /\ Tell(o, "cancelled")
    /\ UNCHANGED <<durable, host, tool, clients, world, bounds>>

Inserted(o, status) ==
    [row EXCEPT ![o] = [status |-> status, dispatched |-> status # "none" /\ o \notin Reported]]

\* executeHostCapabilityOnce up to its first await: the row is created,
\* accepted and started, and execute() is entered.
Begin(o) ==
    /\ host = "ready" /\ pc[o] = "admitted" /\ row[o].status = "none"
    /\ row' = Inserted(o, "running")
    /\ pc' = [pc EXCEPT ![o] = "racing"]
    /\ IF o \in Reported
       THEN tool' = [tool EXCEPT ![o] = "waiting"] /\ UNCHANGED pending
       ELSE tool' = [tool EXCEPT ![o] = "sent"] /\ pending' = [pending EXCEPT ![o] = @ + 1]
    /\ UNCHANGED <<reg, log, host, told, clients, effects, erred, bounds>>

\* One of the three writes fails; the error is an ordinary one for the caller.
BeginFails(o) ==
    /\ host = "ready" /\ pc[o] = "admitted" /\ row[o].status = "none"
    /\ \E status \in {"none", "admitted", "accepted"} : row' = Inserted(o, status)
    /\ WriteFails /\ Tell(o, "failed")
    /\ UNCHANGED <<reg, log, host, tool, clients, world, crashes>>

BeginDies(o) ==
    /\ host = "ready" /\ pc[o] = "admitted" /\ row[o].status = "none"
    /\ \E status \in Live : row' = Inserted(o, status)
    /\ Dies
    /\ UNCHANGED <<reg, log, world>>

\* Bug: an aborted call may still dispatch.
MarkDispatched_AbortIgnored(o) ==
    /\ host = "ready" /\ tool[o] = "waiting"
    /\ row[o].status = "running"
    /\ row' = [row EXCEPT ![o].dispatched = TRUE]

\* onDispatched: refused once the call's signal is aborted, written before the
\* request leaves.
MarkDispatched(o) ==
    /\ host = "ready" /\ tool[o] = "waiting" /\ pc[o] = "racing"
    /\ row[o].status = "running"
    /\ row' = [row EXCEPT ![o].dispatched = TRUE]

Dispatch(o) ==
    /\ MarkDispatched(o)
    /\ tool' = [tool EXCEPT ![o] = "sent"]
    /\ pending' = [pending EXCEPT ![o] = @ + 1]
    /\ UNCHANGED <<reg, log, host, pc, told, clients, effects, erred, bounds>>

DispatchDies(o) ==
    /\ MarkDispatched(o)
    /\ Dies
    /\ UNCHANGED <<reg, log, world>>

\* The race in executeHostCapabilityOnce is decided, and the row with it.
Decided(o, outcome) ==
    /\ host = "ready" /\ pc[o] = "racing"
    /\ Tell(o, outcome)
    /\ UNCHANGED <<reg, log, host, clients, crashes>>
Written(o, status, outcome) == Decided(o, outcome) /\ SetStatus(o, status) /\ UNCHANGED faults

\* A write that fails leaves the row as it was and changes nothing for the caller.
Settle(o, status, outcome) ==
    \/ Written(o, status, outcome)
    \/ Decided(o, outcome) /\ WriteFails /\ UNCHANGED row

\* Bug: a reported call counts as not dispatched until it is settled.
NotDispatched_Always(o) == o \in Reported

NotDispatched(o) == o \in Reported /\ tool[o] = "waiting"
ToolEnds(o) == tool' = [tool EXCEPT ![o] = "off"]

\* A returned value is stored as the result; when that fails the call is unknown.
Stored(o, status, outcome) ==
    /\ Written(o, status, outcome) \/ Settle(o, "unknown", "unknown")
    /\ ToolEnds(o)

\* FileChangeUncertainError of an MCP file change: the row says failed, and the
\* coordinator makes unknown of it, unless the error of a failed write replaces it.
FileChangeUncertain(o) == o \in Reported /\ Written(o, "failed", "unknown")

Refuses(o) == pending[o] > 0 /\ pending' = [pending EXCEPT ![o] = @ - 1] /\ UNCHANGED effects
Errs(o) == erred' = erred \cup {o}

Result(o) ==
    /\ tool[o] = "sent" /\ pending[o] = 0 /\ effects[o] > 0
    /\ Stored(o, "result", "succeeded")
    /\ UNCHANGED world

\* The tool answers with a value that says error.  After an answer nothing is
\* under way: the request was refused, or it failed behind its effect.
ErrorResult(o) ==
    /\ tool[o] = "sent" /\ Errs(o)
    /\ Refuses(o) \/ (pending[o] = 0 /\ UNCHANGED <<pending, effects>>)
    /\ Stored(o, "errorResult", "failed")

\* The tool throws an ordinary error: before its request left, because it was
\* refused, or without an answer (a time-out of the MCP client, a fetch that
\* failed or was reset), and then the effect may have come or may still come.
ToolFails(o) ==
    /\ \/ tool[o] = "waiting" /\ UNCHANGED world
       \/ tool[o] = "sent" /\ Errs(o) /\ (Refuses(o) \/ UNCHANGED <<pending, effects>>)
    /\ \/ Settle(o, "failed", "failed")
       \/ FileChangeUncertain(o)
    /\ ToolEnds(o)

\* ToolOutcomeUnknownError, or an abort that the tool raised itself.
ToolUncertain(o) ==
    /\ tool[o] # "off"
    /\ Settle(o, "unknown", "unknown")
    /\ ToolEnds(o)
    /\ UNCHANGED world

\* The user, a replacing message or a shutdown aborts the run.
Abort(o) ==
    /\ IF NotDispatched(o)
       THEN Settle(o, "cancelled", "cancelled")
       ELSE Settle(o, "unknown", "unknown")
    /\ UNCHANGED <<tool, world>>

Timeout(o) ==
    /\ IF NotDispatched(o)
       THEN Settle(o, "failed", "failed")
       ELSE Settle(o, "unknown", "unknown")
    /\ UNCHANGED <<tool, world>>

\* The coordinator writes the tool_result.
Record(o) ==
    /\ host = "ready" /\ pc[o] = "told"
    /\ log' = [log EXCEPT ![o] = told[o]]
    /\ told' = [told EXCEPT ![o] = NoOutcome]
    /\ pc' = [pc EXCEPT ![o] = "idle"]
    /\ UNCHANGED <<row, reg, host, tool, clients, world, bounds>>

\* Bug: an open row without an executor is taken up again.
Repeat_Reruns(o) ==
    /\ host = "ready" /\ pc[o] \in {"idle", "told"} /\ Open(o)
    /\ tool' = [tool EXCEPT ![o] = "sent"]
    /\ pc' = [pc EXCEPT ![o] = "racing"]
    /\ pending' = [pending EXCEPT ![o] = @ + 1]
    /\ UNCHANGED <<durable, host, told, clients, effects, erred, bounds>>

\* The same operation is asked for again while no executor is at work on it:
\* readExistingHostInvocation settles an open row, and runs nothing.
Repeat(o) ==
    /\ host = "ready" /\ pc[o] \in {"idle", "told"} /\ Open(o)
    /\ SetStatus(o, "unknown")
    /\ UNCHANGED <<reg, log, host, memory, clients, world, bounds>>

\* Bug: the status of the row is taken over as it is.
Recovered_Raw(o) == IF row[o].status = "none" THEN "cancelled" ELSE row[o].status
\* Bug: the log alone decides.
Recovered_LogOnly(o) == IF log[o] = "not_started" THEN "cancelled" ELSE "unknown"

\* A session whose log ends in an unfinished call is opened: the ledger decides,
\* and only a call that never reached it is judged by the log alone.
Recovered(o) ==
    CASE row[o].status = "none" -> IF log[o] = "not_started" THEN "cancelled" ELSE "unknown"
      [] row[o].status = "result" -> "succeeded"
      [] row[o].status = "errorResult" -> IF o \in Reported THEN "failed" ELSE "succeeded"
      [] row[o].status = "failed" -> "failed"
      [] row[o].status = "cancelled" /\ ~row[o].dispatched -> "cancelled"
      [] OTHER -> "unknown"

\* Bug: a call that was never admitted is passed over.
ResumeSession_AdmittedOnly(o) ==
    /\ host = "ready" /\ pc[o] = "idle" /\ log[o] = "admitted"
    /\ log' = [log EXCEPT ![o] = Recovered(o)]
    /\ UNCHANGED <<row, reg, host, memory, clients, world, bounds>>

ResumeSession(o) ==
    /\ host = "ready" /\ pc[o] = "idle" /\ log[o] \in {"not_started", "admitted"}
    /\ log' = [log EXCEPT ![o] = Recovered(o)]
    /\ UNCHANGED <<row, reg, host, memory, clients, world, bounds>>

-----------------------------------------------------------------------------
(* Registrations and calls that a client executes. *)

Connect(c) ==
    /\ host = "ready" /\ c \notin conn
    /\ conn' = conn \cup {c}
    /\ UNCHANGED <<durable, host, memory, offered, world, bounds>>

OwnerSets(c, from, to) ==
    /\ host = "ready" /\ c \in conn /\ reg[c] \in from
    /\ reg' = [reg EXCEPT ![c] = to]
    /\ UNCHANGED <<row, log, host, memory, clients, world, bounds>>

\* register returns what is there already, whatever its status; admit, reject
\* and replace take any status.
Register(c) == OwnerSets(c, {"none"}, "inactive")
Admit(c) == OwnerSets(c, RegStatus \ {"none"}, "admitted")
RejectOrReplace(c) == OwnerSets(c, RegStatus \ {"none"}, "inactive")

\* An expired registration is noticed by the next call that names it.
Expire(c) ==
    /\ host = "ready" /\ reg[c] = "admitted"
    /\ reg' = [reg EXCEPT ![c] = "released"]
    /\ UNCHANGED <<row, log, host, memory, clients, world, bounds>>

OpenOf(c) == {o \in ClientOp : Owner[o] = c /\ Open(o)}
Cancelled(S) == [o \in Op |-> IF o \in S THEN [row[o] EXCEPT !.status = "cancelled"] ELSE row[o]]

\* release: the registration first, then every open call of it.
Release(c) ==
    /\ reg' = [reg EXCEPT ![c] = "released"]
    /\ row' = Cancelled(OpenOf(c))
    /\ UNCHANGED <<host, memory, bounds>>

\* A write fails, or the Host dies, before the last of these writes.
ReleasePartly(c) ==
    /\ \/ UNCHANGED <<reg, row>>
       \/ /\ reg' = [reg EXCEPT ![c] = "released"]
          /\ \E S \in SUBSET OpenOf(c) : S # OpenOf(c) /\ row' = Cancelled(S)
    /\ WriteFails /\ UNCHANGED <<host, memory, crashes>>

ReleaseDies(c) ==
    /\ reg' = [reg EXCEPT ![c] = "released"]
    /\ \E S \in SUBSET OpenOf(c) : row' = Cancelled(S)
    /\ Dies

ReleaseByOwner(c) ==
    /\ host = "ready" /\ c \in conn /\ reg[c] # "none"
    /\ Release(c) \/ ReleasePartly(c)
    /\ UNCHANGED <<log, clients, world>>

\* releaseOwner passes over a registration that is released already, with the
\* calls still open under it.
Disconnect(c) ==
    /\ host = "ready" /\ c \in conn
    /\ conn' = conn \ {c}
    /\ IF reg[c] \in {"none", "released"}
       THEN UNCHANGED <<reg, row, host, memory, bounds>>
       ELSE Release(c) \/ ReleasePartly(c)
    /\ UNCHANGED <<log, offered, world>>

DisconnectDies(c) ==
    /\ host = "ready" /\ c \in conn /\ reg[c] \notin {"none", "released"}
    /\ ReleaseDies(c)
    /\ UNCHANGED <<log, world>>

\* capability.invoke: the offer goes to the owner if it is connected now, and
\* is never sent again.
Invoke(o) ==
    /\ host = "ready" /\ row[o].status = "none" /\ reg[Owner[o]] = "admitted"
    /\ row' = [row EXCEPT ![o] = [status |-> "admitted", dispatched |-> TRUE]]
    /\ offered' = IF Owner[o] \in conn THEN offered \cup {o} ELSE offered
    /\ UNCHANGED <<reg, log, host, memory, conn, world, bounds>>

OwnerReports(o, status) ==
    /\ host = "ready" /\ Owner[o] \in conn /\ o \in offered
    /\ SetStatus(o, status)
    /\ UNCHANGED <<reg, log, host, memory, clients, bounds>>

AcceptOffer(o) == OwnerReports(o, "accepted") /\ UNCHANGED world

\* The client starts to work on what the Host has confirmed as running.
StartOffer(o) ==
    /\ OwnerReports(o, "running")
    /\ pending' = [pending EXCEPT ![o] = @ + 1]
    /\ UNCHANGED <<effects, erred>>

\* A result in one piece, or its final chunk.
ReportResult(o) ==
    /\ pending[o] = 0 /\ effects[o] > 0
    /\ OwnerReports(o, "result")
    /\ UNCHANGED world

\* The client reports an error, whatever became of the work.
FailOffer(o) ==
    /\ OwnerReports(o, "failed") /\ Errs(o)
    /\ Refuses(o) \/ UNCHANGED <<pending, effects>>

\* The client gives the work up before it had an effect.
GiveUp(o) ==
    /\ effects[o] = 0
    /\ OwnerReports(o, "cancelled")
    /\ pending' = [pending EXCEPT ![o] = 0]
    /\ UNCHANGED <<effects, erred>>

-----------------------------------------------------------------------------
(* The outside world, and the life of the Host. *)

Happen(o) ==
    /\ pending[o] > 0
    /\ pending' = [pending EXCEPT ![o] = @ - 1]
    /\ effects' = [effects EXCEPT ![o] = @ + 1]
    /\ UNCHANGED <<durable, host, memory, clients, erred, bounds>>

Crash ==
    /\ host = "ready" /\ Dies
    /\ UNCHANGED <<durable, world>>

\* recoverUnsettledInvocations, before the Host accepts work.
Unsettled == {o \in Op : Open(o)}
RecoverRows(S) ==
    row' = [o \in Op |->
        IF o \notin S THEN row[o]
        ELSE [row[o] EXCEPT !.status = IF row[o].dispatched THEN "unknown" ELSE "cancelled"]]

Restart ==
    /\ host = "down" /\ RecoverRows(Unsettled)
    /\ host' = "ready"
    /\ UNCHANGED <<reg, log, memory, clients, world, bounds>>

\* A failed write ends the start; the next start goes on from there.
RestartFails ==
    /\ host = "down" /\ WriteFails
    /\ \E S \in SUBSET Unsettled : S # Unsettled /\ RecoverRows(S)
    /\ UNCHANGED <<reg, log, host, memory, clients, world, crashes>>

HostStep(o) ==
    \/ CallTool(o) \/ AdmitTool(o) \/ AbortEarly(o)
    \/ Begin(o) \/ BeginFails(o) \/ BeginDies(o) \/ Dispatch(o) \/ DispatchDies(o)
    \/ Result(o) \/ ErrorResult(o) \/ ToolFails(o) \/ ToolUncertain(o) \/ Abort(o) \/ Timeout(o)
    \/ Record(o) \/ Repeat(o) \/ ResumeSession(o)
ClientStep(c) ==
    \/ Connect(c) \/ Register(c) \/ Admit(c) \/ RejectOrReplace(c) \/ Expire(c)
    \/ ReleaseByOwner(c) \/ Disconnect(c) \/ DisconnectDies(c)
OfferStep(o) ==
    \/ Invoke(o) \/ AcceptOffer(o) \/ StartOffer(o) \/ ReportResult(o) \/ FailOffer(o) \/ GiveUp(o)

Next ==
    \/ \E o \in HostOp : HostStep(o)
    \/ \E c \in Client : ClientStep(c)
    \/ \E o \in ClientOp : OfferStep(o)
    \/ \E o \in Op : Happen(o)
    \/ Crash \/ Restart \/ RestartFails

Spec == Init /\ [][Next]_vars

\* A tool call goes on by itself, its timer expires, a Host that died is started
\* again, and a session with an unfinished call is opened again.  Nothing is
\* assumed of tools, of clients or of the outside world.
Fairness ==
    /\ WF_vars(Restart)
    /\ \A o \in HostOp :
         /\ WF_vars(AdmitTool(o)) /\ WF_vars(Begin(o)) /\ WF_vars(Timeout(o))
         /\ WF_vars(Record(o)) /\ WF_vars(ResumeSession(o))

FairSpec == Spec /\ Fairness

-----------------------------------------------------------------------------
(* Properties. *)

TypeOK ==
    /\ row \in [Op -> Row]
    /\ reg \in [Client -> RegStatus]
    /\ log \in [HostOp -> {"none", "not_started", "admitted"} \cup Outcome]
    /\ host \in {"ready", "down"}
    /\ pc \in [HostOp -> {"idle", "calling", "admitted", "racing", "told"}]
    /\ tool \in [HostOp -> {"off", "waiting", "sent"}]
    /\ told \in [HostOp -> {NoOutcome} \cup Outcome]
    /\ conn \subseteq Client /\ offered \subseteq ClientOp
    /\ pending \in [Op -> Nat] /\ effects \in [Op -> Nat] /\ erred \subseteq Op
    /\ crashes \in 0 .. MaxCrashes /\ faults \in 0 .. MaxFaults

\* An operation has its effect at most once, however often it is asked for,
\* recovered or resumed: no second request ever leaves.
AtMostOnce == \A o \in Op : pending[o] + effects[o] <= 1

PassedOn(o) == row[o].status = "errorResult" /\ o \notin Reported

\* What the session calls a success has happened, what it calls cancelled has not
\* and will not, and it is the word of the tool, never the ledger's own timer, an
\* abort, a failed write or the death of the Host, when an effect that came or may
\* still come is called a failure.  Two exceptions are what the code does: that
\* word is believed after a dispatch too (CapabilityStore.ts:398), although
\* docs/PERMISSIONS.md:114 keeps as unknown what a time-out or a lost connection
\* of the tool leaves open; and the error value of a plugin is passed on by the
\* recovery as it was stored, as a success (the tests ask for it).
SessionTruthful ==
    \A o \in HostOp : \A outcome \in {log[o], told[o]} :
        /\ outcome = "succeeded" => effects[o] = 1 \/ PassedOn(o)
        /\ outcome = "cancelled" => pending[o] + effects[o] = 0
        /\ outcome = "failed" => pending[o] + effects[o] = 0 \/ o \in erred

\* A stored result reaches the session, and the session reports no success that
\* the ledger cannot show: the two stores are written one after the other.
ResultReachesSession ==
    \A o \in HostOp :
        log[o] \in Outcome =>
            /\ row[o].status = "result" => log[o] = "succeeded"
            /\ log[o] = "succeeded" => row[o].status = "result" \/ PassedOn(o)

\* The ledger keeps the promises of EffectLedger, reading a row the way the
\* outcome resolver does.
VerdictOf(o) ==
    CASE row[o].status = "none" -> "idle"
      [] row[o].status \in Live -> "open"
      [] row[o].status = "result" -> "done"
      [] row[o].status \in {"failed", "cancelled"} /\ ~row[o].dispatched -> "none"
      [] row[o].status = "errorResult" \/ (row[o].status = "failed" /\ row[o].dispatched) -> "error"
      [] OTHER -> "unknown"
EffectOf(o) ==
    IF effects[o] > 0 THEN "happened" ELSE IF pending[o] > 0 THEN "requested" ELSE "none"

Promise == INSTANCE EffectLedger WITH
    verdict <- [o \in Op |-> VerdictOf(o)], effect <- [o \in Op |-> EffectOf(o)]
KeepsPromise == Promise!LedgerSpec

\* Every tool call of a session comes to an outcome.
CallsSettle ==
    \A o \in HostOp : log[o] \in {"not_started", "admitted"} ~> log[o] \in Outcome

\* "After a cancel, a time-out or a lost connection an operation that was
\* dispatched may have happened; what cannot be confirmed is kept as unknown"
\* (docs/PERMISSIONS.md): what stands as cancelled when its owner has gone has
\* had no effect and will have none.
CancelledNeverRan ==
    \A o \in ClientOp :
        Owner[o] \notin conn /\ row[o].status = "cancelled" => pending[o] + effects[o] = 0
=============================================================================

------------------------ MODULE CapabilityLedgerProofs ------------------------
(***************************************************************************)
(* Proofs about CapabilityLedger.tla, for every set of operations, clients *)
(* and bounds.  The invariant speaks of one operation at a time: what its  *)
(* row says about its effects (RowOK), where its call stands (CallOK,      *)
(* ToolOK) and what the session was told (ToldOK).                         *)
(***************************************************************************)
EXTENDS CapabilityLedger, TLAPS

Spent(o) == pending[o] + effects[o]

\* What a row says about effects: none before the dispatch is on record, one
\* behind a result.  What failed after its dispatch failed on the word of its
\* executor.  A call for a client is dispatched with its offer, and has no
\* effect before the client starts it.
RowOK(o) ==
    /\ Spent(o) <= 1
    /\ row[o].status = "none" \/ ~row[o].dispatched => Spent(o) = 0
    /\ row[o].status = "result" => effects[o] = 1
    /\ row[o].status = "errorResult" \/ (row[o].status = "failed" /\ row[o].dispatched)
         => o \in erred
    /\ o \in ClientOp /\ row[o].status # "none" => row[o].dispatched
    /\ o \in ClientOp /\ row[o].status \in {"admitted", "accepted"} => Spent(o) = 0

\* A call in memory knows how far the log and the ledger are.
CallOK(o) ==
    /\ log[o] = "none" => pc[o] = "idle" /\ row[o].status = "none"
    /\ pc[o] = "calling" => log[o] = "not_started"
    /\ pc[o] \in {"admitted", "racing"} => log[o] = "admitted"
    /\ pc[o] \in {"calling", "admitted"} => row[o].status = "none"
    /\ pc[o] = "racing" => row[o].status = "running" /\ tool[o] # "off"
    /\ pc[o] = "told" <=> told[o] # NoOutcome
    /\ pc[o] = "told" => log[o] \in {"not_started", "admitted"}

\* A tool that runs has a row; it is dispatched once its request has left.
ToolOK(o) ==
    /\ tool[o] = "waiting" => o \in Reported /\ ~row[o].dispatched
    /\ tool[o] = "sent" => row[o].dispatched
    /\ tool[o] # "off" => row[o].status # "none"

\* What the session is told agrees with the row and with the effects.
ToldOK(o) ==
    /\ row[o].status = "result" =>
         /\ told[o] \in {NoOutcome, "succeeded"}
         /\ log[o] \in Outcome => log[o] = "succeeded"
    /\ log[o] = "succeeded" => row[o].status = "result" \/ PassedOn(o)
    /\ told[o] = "succeeded" => row[o].status = "result"
    /\ log[o] = "cancelled" \/ told[o] = "cancelled" => Spent(o) = 0
    /\ log[o] = "failed" \/ told[o] = "failed" => Spent(o) = 0 \/ o \in erred

\* A Host that is down has no memory.
DownForgets == host = "down" => \A o \in HostOp : pc[o] = "idle" /\ tool[o] = "off"

IInv ==
    /\ TypeOK
    /\ \A o \in Op : RowOK(o)
    /\ \A o \in HostOp : CallOK(o) /\ ToolOK(o) /\ ToldOK(o)
    /\ DownForgets

-----------------------------------------------------------------------------
(* What the building blocks of the actions do to the rows. *)

\* The row of o, and no other, moves to the status s.
Moved(o, s) ==
    /\ row' \in [Op -> Row]
    /\ row'[o].status = s /\ row'[o].dispatched = row[o].dispatched
    /\ \A p \in Op \ {o} : row'[p] = row[p]

LEMMA StatusMoves ==
    ASSUME TypeOK, NEW o \in Op, NEW s \in Live \cup TerminalRow, SetStatus(o, s)
    PROVE  Moved(o, s) /\ Allowed(row[o].status, s)
<1>1. row[o] \in Row /\ row' = [row EXCEPT ![o] = [row[o] EXCEPT !.status = s]]
  BY DEF TypeOK, SetStatus
<1>2. [row[o] EXCEPT !.status = s] \in Row
  BY <1>1 DEF Row
<1> QED BY <1>1, <1>2 DEF TypeOK, SetStatus, Moved, Row

\* A new row says that it is dispatched unless its executor will report it.
LEMMA InsertedRow ==
    ASSUME TypeOK, NEW o \in Op, NEW s \in {"none"} \cup Live, row' = Inserted(o, s)
    PROVE  /\ row' \in [Op -> Row]
           /\ row'[o].status = s /\ (row'[o].dispatched <=> s # "none" /\ o \notin Reported)
           /\ \A p \in Op \ {o} : row'[p] = row[p]
<1>1. [status |-> s, dispatched |-> s # "none" /\ o \notin Reported] \in Row
  BY DEF Row
<1> QED BY <1>1 DEF TypeOK, Inserted

\* A call is told its outcome while its row moves or stays.
Tells(o, s, outcome) ==
    /\ host = "ready" /\ pc[o] = "racing"
    /\ Moved(o, s) \/ row' = row
    /\ pc' = [pc EXCEPT ![o] = "told"] /\ told' = [told EXCEPT ![o] = outcome]
    /\ UNCHANGED <<reg, log, host, conn, offered, crashes>>
    /\ faults' \in 0 .. MaxFaults

LEMMA SettleTells ==
    ASSUME TypeOK, NEW o \in HostOp, NEW s \in TerminalRow, NEW outcome \in Outcome,
           Settle(o, s, outcome)
    PROVE  Tells(o, s, outcome)
<1>1. Moved(o, s) \/ row' = row
  BY StatusMoves DEF Settle, Written, Op
<1>2. faults' \in 0 .. MaxFaults
  BY BoundsAssumption DEF TypeOK, Settle, Written, WriteFails
<1> QED BY <1>1, <1>2 DEF Settle, Written, Decided, Tell, Tells, clients

LEMMA StoredTells ==
    ASSUME TypeOK, NEW o \in HostOp, NEW s \in TerminalRow, NEW outcome \in Outcome,
           Stored(o, s, outcome)
    PROVE  /\ \/ Tells(o, s, outcome) /\ Moved(o, s)
              \/ Tells(o, "unknown", "unknown")
           /\ tool' = [tool EXCEPT ![o] = "off"]
<1>1. CASE Settle(o, "unknown", "unknown")
  BY <1>1, SettleTells DEF Stored, ToolEnds, TerminalRow, Outcome
<1>2. CASE Written(o, s, outcome)
  BY <1>2, StatusMoves, SettleTells DEF Stored, Settle, Written, ToolEnds, Op
<1> QED BY <1>1, <1>2 DEF Stored

\* Open calls of the client c are cancelled, some or all.
Withdrawn(c) ==
    /\ row' \in [Op -> Row]
    /\ \A p \in Op :
         \/ row'[p] = row[p]
         \/ /\ p \in ClientOp /\ Owner[p] = c /\ Open(p)
            /\ row'[p].status = "cancelled" /\ row'[p].dispatched = row[p].dispatched

LEMMA CancelledWithdraws ==
    ASSUME TypeOK, NEW c \in Client, NEW S \in SUBSET OpenOf(c), row' = Cancelled(S)
    PROVE  Withdrawn(c)
<1>1. ASSUME NEW p \in Op PROVE [row[p] EXCEPT !.status = "cancelled"] \in Row
  BY DEF TypeOK, Row, TerminalRow
<1>2. row' \in [Op -> Row]
  BY <1>1 DEF Cancelled, TypeOK
<1>3. ASSUME NEW p \in Op PROVE
        \/ row'[p] = row[p]
        \/ /\ p \in ClientOp /\ Owner[p] = c /\ Open(p)
           /\ row'[p].status = "cancelled" /\ row'[p].dispatched = row[p].dispatched
  BY DEF Cancelled, OpenOf, TypeOK, Row
<1> QED BY <1>2, <1>3 DEF Withdrawn

LEMMA ReleaseWithdraws ==
    ASSUME TypeOK, NEW c \in Client, Release(c) \/ ReleasePartly(c)
    PROVE  /\ Withdrawn(c) /\ reg' \in [Client -> RegStatus]
           /\ UNCHANGED <<host, pc, tool, told, crashes>> /\ faults' \in 0 .. MaxFaults
<1>1. reg' \in [Client -> RegStatus]
  BY DEF Release, ReleasePartly, TypeOK, RegStatus
<1>2. UNCHANGED <<host, pc, tool, told, crashes>> /\ faults' \in 0 .. MaxFaults
  BY BoundsAssumption DEF Release, ReleasePartly, TypeOK, WriteFails, memory, bounds
<1>3. CASE Release(c)
  BY <1>3, <1>1, <1>2, CancelledWithdraws DEF Release
<1>4. CASE ReleasePartly(c) /\ row' = row
  BY <1>4, <1>1, <1>2 DEF Withdrawn, TypeOK
<1>5. CASE ReleasePartly(c) /\ row' # row
  BY <1>5, <1>1, <1>2, CancelledWithdraws DEF ReleasePartly
<1> QED BY <1>3, <1>4, <1>5

-----------------------------------------------------------------------------
(* Each action keeps the invariant: types, rows, calls and tools, words. *)

LEMMA CallToolKeeps == ASSUME IInv, NEW o \in HostOp, CallTool(o) PROVE IInv'
<1> USE OpAssumption, OwnerAssumption, BoundsAssumption DEF IInv
<1>1. TypeOK'
  BY DEF TypeOK, NoOutcome, CallTool, clients, world, bounds
<1>2. ASSUME NEW p \in Op PROVE RowOK(p)'
  BY <1>2 DEF TypeOK, RowOK, Spent, Op, Row, Live, CallTool, world
<1>3. ASSUME NEW p \in HostOp PROVE CallOK(p)' /\ ToolOK(p)'
  BY <1>3 DEF TypeOK, CallOK, ToolOK, CallTool, clients
<1>4. ASSUME NEW p \in HostOp PROVE ToldOK(p)'
  BY <1>4 DEF TypeOK, ToldOK, Spent, PassedOn, Outcome, NoOutcome, CallTool, world
<1>5. DownForgets'
  BY DEF TypeOK, DownForgets, CallTool, clients, world, bounds
<1> QED BY <1>1, <1>2, <1>3, <1>4, <1>5

LEMMA AdmitToolKeeps == ASSUME IInv, NEW o \in HostOp, AdmitTool(o) PROVE IInv'
<1> USE OpAssumption, OwnerAssumption, BoundsAssumption DEF IInv
<1>1. TypeOK'
  BY DEF TypeOK, NoOutcome, AdmitTool, clients, world, bounds
<1>2. ASSUME NEW p \in Op PROVE RowOK(p)'
  BY <1>2 DEF TypeOK, RowOK, Spent, Op, Row, Live, AdmitTool, world
<1>3. ASSUME NEW p \in HostOp PROVE CallOK(p)' /\ ToolOK(p)'
  BY <1>3 DEF TypeOK, CallOK, ToolOK, AdmitTool, clients
<1>4. ASSUME NEW p \in HostOp PROVE ToldOK(p)'
  BY <1>4 DEF TypeOK, ToldOK, Spent, PassedOn, Outcome, NoOutcome, AdmitTool, world
<1>5. DownForgets'
  BY DEF TypeOK, DownForgets, AdmitTool, clients, world, bounds
<1> QED BY <1>1, <1>2, <1>3, <1>4, <1>5

LEMMA AbortEarlyKeeps == ASSUME IInv, NEW o \in HostOp, AbortEarly(o) PROVE IInv'
<1> USE OpAssumption, OwnerAssumption, BoundsAssumption DEF IInv
<1>1. TypeOK'
  BY DEF TypeOK, RegStatus, Outcome, NoOutcome, AbortEarly, Tell, durable, clients,
       world, bounds
<1>2. ASSUME NEW p \in Op PROVE RowOK(p)'
  BY <1>2 DEF TypeOK, RowOK, Spent, Op, Row, Live, AbortEarly, Tell, durable, world
<1>3. ASSUME NEW p \in HostOp PROVE CallOK(p)' /\ ToolOK(p)'
  BY <1>3 DEF TypeOK, CallOK, ToolOK, NoOutcome, Op, AbortEarly, Tell, durable, clients
<1>4. ASSUME NEW p \in HostOp PROVE ToldOK(p)'
  BY <1>4
     DEF TypeOK, CallOK, ToolOK, ToldOK, RowOK, Spent, PassedOn, DownForgets, Outcome,
       NoOutcome, Op, AbortEarly, Tell, durable, world
<1>5. DownForgets'
  BY DEF TypeOK, DownForgets, AbortEarly, Tell, durable, clients, world, bounds
<1> QED BY <1>1, <1>2, <1>3, <1>4, <1>5

LEMMA BeginKeeps == ASSUME IInv, NEW o \in HostOp, Begin(o) PROVE IInv'
<1> USE OpAssumption, OwnerAssumption, BoundsAssumption DEF IInv
<1>a. /\ row' \in [Op -> Row]
      /\ row'[o].status \in {"none"} \cup Live
      /\ row'[o].dispatched <=> row'[o].status # "none" /\ o \notin Reported
      /\ \A q \in Op \ {o} : row'[q] = row[q]
  BY InsertedRow DEF Begin, Op, Live
<1>1. TypeOK'
  <2>1. row' \in [Op -> Row]
    BY <1>a DEF TypeOK, Begin, clients, bounds, Inserted
  <2>2. pending' \in [Op -> Nat] /\ effects' \in [Op -> Nat] /\ erred' \subseteq Op
    BY <1>a DEF TypeOK, Begin, clients, bounds, Inserted
  <2>3. /\ log' \in [HostOp -> {"none", "not_started", "admitted"} \cup Outcome]
        /\ pc' \in [HostOp -> {"idle", "calling", "admitted", "racing", "told"}]
        /\ tool' \in [HostOp -> {"off", "waiting", "sent"}]
        /\ told' \in [HostOp -> {NoOutcome} \cup Outcome]
    BY <1>a DEF TypeOK, Begin, clients, bounds, Inserted
  <2>4. /\ reg' \in [Client -> RegStatus] /\ host' \in {"ready", "down"}
        /\ conn' \subseteq Client /\ offered' \subseteq ClientOp
        /\ crashes' \in 0 .. MaxCrashes /\ faults' \in 0 .. MaxFaults
    BY <1>a DEF TypeOK, Begin, clients, bounds, Inserted
  <2> QED BY <2>1, <2>2, <2>3, <2>4 DEF TypeOK
<1>2. ASSUME NEW p \in Op PROVE RowOK(p)'
  BY <1>2, <1>a DEF TypeOK, RowOK, Spent, Op, Row, Live, Begin, Inserted
<1>3. ASSUME NEW p \in HostOp PROVE CallOK(p)' /\ ToolOK(p)'
  BY <1>3, <1>a DEF TypeOK, CallOK, ToolOK, Begin, clients, Inserted
<1>4. ASSUME NEW p \in HostOp PROVE ToldOK(p)'
  BY <1>4, <1>a
     DEF TypeOK, CallOK, ToolOK, ToldOK, RowOK, Spent, PassedOn, DownForgets, Outcome,
       NoOutcome, Op, Begin, Inserted
<1>5. DownForgets'
  BY <1>a DEF TypeOK, DownForgets, Begin, clients, bounds, Inserted
<1> QED BY <1>1, <1>2, <1>3, <1>4, <1>5

LEMMA BeginFailsKeeps == ASSUME IInv, NEW o \in HostOp, BeginFails(o) PROVE IInv'
<1> USE OpAssumption, OwnerAssumption, BoundsAssumption DEF IInv
<1>a. /\ row' \in [Op -> Row]
      /\ row'[o].status \in {"none"} \cup Live
      /\ row'[o].dispatched <=> row'[o].status # "none" /\ o \notin Reported
      /\ \A q \in Op \ {o} : row'[q] = row[q]
  BY InsertedRow DEF BeginFails, Op, Live
<1>1. TypeOK'
  <2>1. row' \in [Op -> Row]
    BY <1>a DEF TypeOK, BeginFails, WriteFails, Tell, clients
  <2>2. pending' \in [Op -> Nat] /\ effects' \in [Op -> Nat] /\ erred' \subseteq Op
    BY <1>a DEF TypeOK, BeginFails, WriteFails, Tell, clients, world
  <2>3. /\ log' \in [HostOp -> {"none", "not_started", "admitted"} \cup Outcome]
        /\ pc' \in [HostOp -> {"idle", "calling", "admitted", "racing", "told"}]
        /\ tool' \in [HostOp -> {"off", "waiting", "sent"}]
        /\ told' \in [HostOp -> {NoOutcome} \cup Outcome]
    BY <1>a DEF TypeOK, Outcome, BeginFails, WriteFails, Tell, clients
  <2>4. /\ reg' \in [Client -> RegStatus] /\ host' \in {"ready", "down"}
        /\ conn' \subseteq Client /\ offered' \subseteq ClientOp
        /\ crashes' \in 0 .. MaxCrashes /\ faults' \in 0 .. MaxFaults
    BY <1>a DEF TypeOK, BeginFails, WriteFails, Tell, clients
  <2> QED BY <2>1, <2>2, <2>3, <2>4 DEF TypeOK
<1>2. ASSUME NEW p \in Op PROVE RowOK(p)'
  <2>0. pending[p] \in Nat /\ effects[p] \in Nat
    BY DEF TypeOK
  <2>1. CASE p = o
    BY <2>0, <2>1, <1>a
       DEF TypeOK, RowOK, Spent, Op, Row, Live, BeginFails, WriteFails, Tell, world
  <2>2. CASE p # o
    BY <2>0, <2>2, <1>a DEF TypeOK, RowOK, Spent, BeginFails, WriteFails, Tell, world
  <2> QED BY <2>1, <2>2
<1>3. ASSUME NEW p \in HostOp PROVE CallOK(p)' /\ ToolOK(p)'
  BY <1>3, <1>a
     DEF TypeOK, CallOK, ToolOK, NoOutcome, Op, BeginFails, WriteFails, Tell, clients
<1>4. ASSUME NEW p \in HostOp PROVE ToldOK(p)'
  BY <1>4, <1>a
     DEF TypeOK, ToldOK, RowOK, Spent, PassedOn, DownForgets, Outcome, NoOutcome, Op,
       Row, Live, TerminalRow, BeginFails, WriteFails, Tell, clients, world
<1>5. DownForgets'
  BY <1>a DEF TypeOK, DownForgets, BeginFails, WriteFails, Tell, clients, world
<1> QED BY <1>1, <1>2, <1>3, <1>4, <1>5

LEMMA BeginDiesKeeps == ASSUME IInv, NEW o \in HostOp, BeginDies(o) PROVE IInv'
<1> USE OpAssumption, OwnerAssumption, BoundsAssumption DEF IInv
<1>a. /\ row' \in [Op -> Row]
      /\ row'[o].status \in {"none"} \cup Live
      /\ row'[o].dispatched <=> row'[o].status # "none" /\ o \notin Reported
      /\ \A q \in Op \ {o} : row'[q] = row[q]
  BY InsertedRow DEF BeginDies, Op, Live
<1>1. TypeOK'
  BY <1>a DEF TypeOK, NoOutcome, BeginDies, Dies, world
<1>2. ASSUME NEW p \in Op PROVE RowOK(p)'
  BY <1>2, <1>a DEF TypeOK, RowOK, Spent, Op, Row, Live, BeginDies, Dies, world
<1>3. ASSUME NEW p \in HostOp PROVE CallOK(p)' /\ ToolOK(p)'
  BY <1>3, <1>a DEF TypeOK, CallOK, ToolOK, NoOutcome, Op, BeginDies, Dies
<1>4. ASSUME NEW p \in HostOp PROVE ToldOK(p)'
  BY <1>4, <1>a
     DEF TypeOK, ToldOK, Spent, PassedOn, Outcome, NoOutcome, Op, Row, Live,
       TerminalRow, BeginDies, Dies, world
<1>5. DownForgets'
  BY <1>a DEF TypeOK, DownForgets, BeginDies, Dies, world
<1> QED BY <1>1, <1>2, <1>3, <1>4, <1>5

LEMMA DispatchKeeps == ASSUME IInv, NEW o \in HostOp, Dispatch(o) PROVE IInv'
<1> USE OpAssumption, OwnerAssumption, BoundsAssumption DEF IInv
<1>1. TypeOK'
  <2>1. row' \in [Op -> Row]
    BY ZenonT(60) DEF TypeOK, Row, Dispatch, MarkDispatched, clients, bounds
  <2>2. pending' \in [Op -> Nat] /\ effects' \in [Op -> Nat] /\ erred' \subseteq Op
    BY DEF TypeOK, Op, Dispatch, MarkDispatched, clients, bounds
  <2>3. /\ log' \in [HostOp -> {"none", "not_started", "admitted"} \cup Outcome]
        /\ pc' \in [HostOp -> {"idle", "calling", "admitted", "racing", "told"}]
        /\ tool' \in [HostOp -> {"off", "waiting", "sent"}]
        /\ told' \in [HostOp -> {NoOutcome} \cup Outcome]
    BY DEF TypeOK, Dispatch, MarkDispatched, clients, bounds
  <2>4. /\ reg' \in [Client -> RegStatus] /\ host' \in {"ready", "down"}
        /\ conn' \subseteq Client /\ offered' \subseteq ClientOp
        /\ crashes' \in 0 .. MaxCrashes /\ faults' \in 0 .. MaxFaults
    BY DEF TypeOK, Dispatch, MarkDispatched, clients, bounds
  <2> QED BY <2>1, <2>2, <2>3, <2>4 DEF TypeOK
<1>2. ASSUME NEW p \in Op PROVE RowOK(p)'
  BY <1>2
     DEF TypeOK, RowOK, Spent, ToolOK, DownForgets, Op, Row, Live, Dispatch,
       MarkDispatched
<1>3. ASSUME NEW p \in HostOp PROVE CallOK(p)' /\ ToolOK(p)'
  BY <1>3 DEF TypeOK, CallOK, ToolOK, NoOutcome, Op, Dispatch, MarkDispatched, clients
<1>4. ASSUME NEW p \in HostOp PROVE ToldOK(p)'
  BY <1>4
     DEF TypeOK, CallOK, ToolOK, ToldOK, RowOK, Spent, PassedOn, DownForgets, Outcome,
       NoOutcome, Op, Dispatch, MarkDispatched
<1>5. DownForgets'
  BY DEF TypeOK, DownForgets, Dispatch, MarkDispatched, clients, bounds
<1> QED BY <1>1, <1>2, <1>3, <1>4, <1>5

LEMMA DispatchDiesKeeps == ASSUME IInv, NEW o \in HostOp, DispatchDies(o) PROVE IInv'
<1> USE OpAssumption, OwnerAssumption, BoundsAssumption DEF IInv
<1>1. TypeOK'
  <2>1. row' \in [Op -> Row]
    BY ZenonT(60) DEF TypeOK, Row, DispatchDies, MarkDispatched, Dies
  <2>2. pending' \in [Op -> Nat] /\ effects' \in [Op -> Nat] /\ erred' \subseteq Op
    BY DEF TypeOK, DispatchDies, MarkDispatched, Dies, world
  <2>3. /\ log' \in [HostOp -> {"none", "not_started", "admitted"} \cup Outcome]
        /\ pc' \in [HostOp -> {"idle", "calling", "admitted", "racing", "told"}]
        /\ tool' \in [HostOp -> {"off", "waiting", "sent"}]
        /\ told' \in [HostOp -> {NoOutcome} \cup Outcome]
    BY DEF TypeOK, DispatchDies, MarkDispatched, Dies
  <2>4. /\ reg' \in [Client -> RegStatus] /\ host' \in {"ready", "down"}
        /\ conn' \subseteq Client /\ offered' \subseteq ClientOp
        /\ crashes' \in 0 .. MaxCrashes /\ faults' \in 0 .. MaxFaults
    BY DEF TypeOK, DispatchDies, MarkDispatched, Dies
  <2> QED BY <2>1, <2>2, <2>3, <2>4 DEF TypeOK
<1>2. ASSUME NEW p \in Op PROVE RowOK(p)'
  BY <1>2
     DEF TypeOK, RowOK, Spent, Op, Row, Live, DispatchDies, MarkDispatched, Dies, world
<1>3. ASSUME NEW p \in HostOp PROVE CallOK(p)' /\ ToolOK(p)'
  BY <1>3 DEF TypeOK, CallOK, ToolOK, DispatchDies, MarkDispatched, Dies
<1>4. ASSUME NEW p \in HostOp PROVE ToldOK(p)'
  BY <1>4
     DEF TypeOK, ToldOK, Spent, PassedOn, Outcome, NoOutcome, DispatchDies,
       MarkDispatched, Dies, world
<1>5. DownForgets'
  BY DEF TypeOK, DownForgets, DispatchDies, MarkDispatched, Dies, world
<1> QED BY <1>1, <1>2, <1>3, <1>4, <1>5

LEMMA ResultKeeps == ASSUME IInv, NEW o \in HostOp, Result(o) PROVE IInv'
<1> USE OpAssumption, OwnerAssumption, BoundsAssumption DEF IInv
<1>a. /\ \/ Tells(o, "result", "succeeded") /\ Moved(o, "result")
         \/ Tells(o, "unknown", "unknown")
      /\ tool' = [tool EXCEPT ![o] = "off"]
  BY StoredTells DEF Result, TerminalRow, Outcome
<1>1. TypeOK'
  BY <1>a
     DEF TypeOK, RegStatus, Outcome, NoOutcome, Result, world, Tells, Moved, PassedOn
<1>2. ASSUME NEW p \in Op PROVE RowOK(p)'
  <2>0. pending[p] \in Nat /\ effects[p] \in Nat
    BY DEF TypeOK
  <2>1. CASE p = o
    BY <2>0, <2>1, <1>a
       DEF TypeOK, RowOK, Spent, Op, Row, Live, Result, world, Tells, Moved
  <2>2. CASE p # o
    BY <2>0, <2>2, <1>a DEF TypeOK, RowOK, Spent, Result, world, Tells, Moved
  <2> QED BY <2>1, <2>2
<1>3. ASSUME NEW p \in HostOp PROVE CallOK(p)' /\ ToolOK(p)'
  BY <1>3, <1>a DEF TypeOK, CallOK, ToolOK, NoOutcome, Op, Result, Tells, Moved
<1>4. ASSUME NEW p \in HostOp PROVE ToldOK(p)'
  BY <1>4, <1>a
     DEF TypeOK, CallOK, ToolOK, ToldOK, RowOK, Spent, PassedOn, DownForgets, Outcome,
       NoOutcome, Op, Row, Live, TerminalRow, Result, world, Tells, Moved, PassedOn
<1>5. DownForgets'
  BY <1>a DEF TypeOK, DownForgets, Result, world, Tells, Moved
<1> QED BY <1>1, <1>2, <1>3, <1>4, <1>5

LEMMA ErrorResultKeeps == ASSUME IInv, NEW o \in HostOp, ErrorResult(o) PROVE IInv'
<1> USE OpAssumption, OwnerAssumption, BoundsAssumption DEF IInv
<1>a. /\ \/ Tells(o, "errorResult", "failed") /\ Moved(o, "errorResult")
         \/ Tells(o, "unknown", "unknown")
      /\ tool' = [tool EXCEPT ![o] = "off"]
  BY StoredTells DEF ErrorResult, TerminalRow, Outcome
<1>b. /\ row[o].status = "running" /\ tool[o] = "sent" /\ row[o].dispatched
      /\ log[o] = "admitted" /\ o \in Op /\ o \notin ClientOp
  BY <1>a DEF CallOK, ToolOK, Tells, Op, ErrorResult
<1>c. erred' = erred \cup {o} /\ effects' = effects
  BY DEF ErrorResult, Errs, Refuses
<1>d. /\ pending' \in [Op -> Nat] /\ pending'[o] <= pending[o]
      /\ \A p \in Op \ {o} : pending'[p] = pending[p]
  <2>1. CASE Refuses(o)
    BY <1>b, <2>1 DEF Refuses, TypeOK
  <2>2. CASE pending' = pending
    BY <1>b, <2>2 DEF TypeOK
  <2> QED BY <2>1, <2>2 DEF ErrorResult
<1>1. TypeOK'
  <2>1. row' \in [Op -> Row]
    BY <1>a DEF TypeOK, Tells, Moved
  <2>2. pending' \in [Op -> Nat] /\ effects' \in [Op -> Nat] /\ erred' \subseteq Op
    BY <1>b, <1>c, <1>d DEF TypeOK
  <2>3. /\ log' \in [HostOp -> {"none", "not_started", "admitted"} \cup Outcome]
        /\ pc' \in [HostOp -> {"idle", "calling", "admitted", "racing", "told"}]
        /\ tool' \in [HostOp -> {"off", "waiting", "sent"}]
        /\ told' \in [HostOp -> {NoOutcome} \cup Outcome]
    BY <1>a DEF TypeOK, Outcome, Tells, Moved
  <2>4. /\ reg' \in [Client -> RegStatus] /\ host' \in {"ready", "down"}
        /\ conn' \subseteq Client /\ offered' \subseteq ClientOp
        /\ crashes' \in 0 .. MaxCrashes /\ faults' \in 0 .. MaxFaults
    BY <1>a DEF TypeOK, Tells, Moved
  <2> QED BY <2>1, <2>2, <2>3, <2>4 DEF TypeOK
<1>2. ASSUME NEW p \in Op PROVE RowOK(p)'
  <2>0. /\ pending[p] \in Nat /\ effects[p] \in Nat /\ pending'[p] \in Nat
        /\ p = o => pending'[p] <= pending[p]
    BY <1>d DEF TypeOK
  <2>1. CASE p = o
    <3>1. Spent(p)' <= 1
      BY <2>0, <2>1, <1>c DEF RowOK, Spent
    <3>2. p \in erred' /\ p \notin ClientOp /\ row'[p].status # "result"
          /\ row'[p].status # "none" /\ row'[p].dispatched
      BY <2>1, <1>a, <1>b, <1>c DEF Tells, Moved
    <3> QED BY <3>1, <3>2 DEF RowOK
  <2>2. CASE p # o
    <3>1. row'[p] = row[p] /\ pending'[p] = pending[p] /\ effects'[p] = effects[p]
          /\ (p \in erred' <=> p \in erred)
      BY <2>2, <1>a, <1>c, <1>d DEF Tells, Moved
    <3> QED BY <3>1 DEF RowOK, Spent
  <2> QED BY <2>1, <2>2
<1>3. ASSUME NEW p \in HostOp PROVE CallOK(p)' /\ ToolOK(p)'
  BY <1>3, <1>a DEF TypeOK, CallOK, ToolOK, NoOutcome, Op, Tells, Moved
<1>4. ASSUME NEW p \in HostOp PROVE ToldOK(p)'
  <2>1. CASE p = o
    <3>1. /\ log'[p] = "admitted" /\ told'[p] \in {"failed", "unknown"} /\ p \in erred'
          /\ row'[p].status # "result"
      BY <2>1, <1>a, <1>b, <1>c DEF Tells, Moved, TypeOK
    <3> QED BY <3>1 DEF ToldOK, Outcome
  <2>2. CASE p # o
    <3>1. /\ row'[p] = row[p] /\ pending'[p] = pending[p] /\ effects'[p] = effects[p]
          /\ log'[p] = log[p] /\ told'[p] = told[p]
          /\ (p \in erred' <=> p \in erred)
      BY <2>2, <1>a, <1>c, <1>d DEF Tells, Moved, Op, TypeOK
    <3> QED BY <3>1 DEF ToldOK, Spent, PassedOn
  <2> QED BY <2>1, <2>2
<1>5. DownForgets'
  BY <1>a DEF TypeOK, DownForgets, Tells, Moved
<1> QED BY <1>1, <1>2, <1>3, <1>4, <1>5

\* A tool that throws is told as failed or, for a file change, as unknown.
LEMMA ToolFailsTells ==
    ASSUME TypeOK, NEW o \in HostOp, ToolFails(o)
    PROVE  \E outcome \in {"failed", "unknown"} : Tells(o, "failed", outcome)
<1>1. CASE Settle(o, "failed", "failed")
  BY <1>1, SettleTells DEF TerminalRow, Outcome
<1>2. CASE FileChangeUncertain(o)
  <2>1. Settle(o, "failed", "unknown")
    BY <1>2 DEF FileChangeUncertain, Settle
  <2> QED BY <2>1, SettleTells DEF TerminalRow, Outcome
<1> QED BY <1>1, <1>2 DEF ToolFails

\* It has not been dispatched and has no effect, or it is heard.
LEMMA ToolFailsHeard ==
    ASSUME IInv, NEW o \in HostOp, ToolFails(o)
    PROVE  /\ effects' = effects
           /\ pending' \in [Op -> Nat] /\ pending'[o] \in {pending[o], 0}
           /\ \A p \in Op \ {o} : pending'[p] = pending[p]
           /\ \/ erred' = erred /\ ~row[o].dispatched /\ pending'[o] = 0 /\ effects[o] = 0
              \/ erred' = erred \cup {o} /\ row[o].dispatched
<1>0. /\ o \in Op /\ pending[o] \in Nat /\ effects[o] \in Nat /\ pending[o] + effects[o] <= 1
      /\ pending \in [Op -> Nat]
  BY DEF IInv, TypeOK, RowOK, Spent, Op
<1>1. CASE tool[o] = "waiting" /\ UNCHANGED world
  <2>1. ~row[o].dispatched /\ Spent(o) = 0
    BY <1>0, <1>1 DEF IInv, ToolOK, RowOK
  <2> QED BY <1>0, <1>1, <2>1 DEF Spent, world
<1>2. CASE tool[o] = "sent" /\ Errs(o) /\ Refuses(o)
  <2>1. row[o].dispatched
    BY <1>2 DEF IInv, ToolOK
  <2> QED BY <1>0, <1>2, <2>1 DEF Errs, Refuses
<1>3. CASE tool[o] = "sent" /\ Errs(o) /\ UNCHANGED <<pending, effects>>
  <2>1. row[o].dispatched
    BY <1>3 DEF IInv, ToolOK
  <2> QED BY <1>0, <1>3, <2>1 DEF Errs
<1> QED BY <1>1, <1>2, <1>3 DEF ToolFails

LEMMA ToolFailsKeeps == ASSUME IInv, NEW o \in HostOp, ToolFails(o) PROVE IInv'
<1> USE OpAssumption, OwnerAssumption, BoundsAssumption DEF IInv
<1>a. PICK outcome \in {"failed", "unknown"} : Tells(o, "failed", outcome)
  BY ToolFailsTells
<1>b. /\ row[o].status = "running" /\ log[o] = "admitted" /\ o \in Op /\ o \notin ClientOp
      /\ tool' = [tool EXCEPT ![o] = "off"]
  BY <1>a DEF CallOK, Tells, Op, ToolFails, ToolEnds
<1>c. /\ effects' = effects
      /\ pending' \in [Op -> Nat] /\ pending'[o] \in {pending[o], 0}
      /\ \A p \in Op \ {o} : pending'[p] = pending[p]
      /\ \/ erred' = erred /\ ~row[o].dispatched /\ pending'[o] = 0 /\ effects[o] = 0
         \/ erred' = erred \cup {o} /\ row[o].dispatched
  BY ToolFailsHeard
<1>1. TypeOK'
  <2>1. row' \in [Op -> Row]
    BY <1>a DEF TypeOK, Tells, Moved
  <2>2. pending' \in [Op -> Nat] /\ effects' \in [Op -> Nat] /\ erred' \subseteq Op
    BY <1>b, <1>c DEF TypeOK
  <2>3. /\ log' \in [HostOp -> {"none", "not_started", "admitted"} \cup Outcome]
        /\ pc' \in [HostOp -> {"idle", "calling", "admitted", "racing", "told"}]
        /\ tool' \in [HostOp -> {"off", "waiting", "sent"}]
        /\ told' \in [HostOp -> {NoOutcome} \cup Outcome]
    BY <1>a, <1>b DEF TypeOK, Outcome, Tells, Moved
  <2>4. /\ reg' \in [Client -> RegStatus] /\ host' \in {"ready", "down"}
        /\ conn' \subseteq Client /\ offered' \subseteq ClientOp
        /\ crashes' \in 0 .. MaxCrashes /\ faults' \in 0 .. MaxFaults
    BY <1>a DEF TypeOK, Tells, Moved
  <2> QED BY <2>1, <2>2, <2>3, <2>4 DEF TypeOK
<1>2. ASSUME NEW p \in Op PROVE RowOK(p)'
  <2>1. CASE p = o
    <3>0. pending[p] \in Nat /\ effects[p] \in Nat /\ Spent(p) <= 1
      BY DEF TypeOK, RowOK
    <3>1. Spent(p)' <= 1 /\ (row'[p].dispatched \/ Spent(p)' = 0)
      BY <3>0, <2>1, <1>a, <1>c DEF Spent, Tells, Moved
    <3>2. /\ p \notin ClientOp /\ row'[p].status \in {"running", "failed"}
          /\ (row'[p].dispatched => p \in erred')
      BY <2>1, <1>a, <1>b, <1>c DEF Tells, Moved
    <3> QED BY <3>1, <3>2 DEF RowOK
  <2>2. CASE p # o
    <3>1. row'[p] = row[p] /\ pending'[p] = pending[p] /\ effects'[p] = effects[p]
          /\ (p \in erred' <=> p \in erred)
      BY <2>2, <1>a, <1>c DEF Tells, Moved
    <3> QED BY <3>1 DEF RowOK, Spent
  <2> QED BY <2>1, <2>2
<1>3. ASSUME NEW p \in HostOp PROVE CallOK(p)' /\ ToolOK(p)'
  BY <1>3, <1>a, <1>b DEF TypeOK, CallOK, ToolOK, NoOutcome, Op, Tells, Moved
<1>4. ASSUME NEW p \in HostOp PROVE ToldOK(p)'
  <2>1. CASE p = o
    <3>1. /\ log'[p] = "admitted" /\ told'[p] \in {"failed", "unknown"}
          /\ row'[p].status # "result"
      BY <2>1, <1>a, <1>b DEF Tells, Moved, TypeOK
    <3>2. Spent(p)' = 0 \/ p \in erred'
      BY <2>1, <1>c DEF Spent
    <3> QED BY <3>1, <3>2 DEF ToldOK, Outcome
  <2>2. CASE p # o
    <3>1. /\ row'[p] = row[p] /\ pending'[p] = pending[p] /\ effects'[p] = effects[p]
          /\ log'[p] = log[p] /\ told'[p] = told[p]
          /\ (p \in erred' <=> p \in erred)
      BY <2>2, <1>a, <1>c DEF Tells, Moved, Op, TypeOK
    <3> QED BY <3>1 DEF ToldOK, Spent, PassedOn
  <2> QED BY <2>1, <2>2
<1>5. DownForgets'
  BY <1>a, <1>b DEF TypeOK, DownForgets, Tells, Moved
<1> QED BY <1>1, <1>2, <1>3, <1>4, <1>5

LEMMA ToolUncertainKeeps == ASSUME IInv, NEW o \in HostOp, ToolUncertain(o) PROVE IInv'
<1> USE OpAssumption, OwnerAssumption, BoundsAssumption DEF IInv
<1>a. Tells(o, "unknown", "unknown")
  BY SettleTells DEF ToolUncertain, TerminalRow, Outcome
<1>1. TypeOK'
  BY <1>a
     DEF TypeOK, RegStatus, Outcome, NoOutcome, ToolUncertain, ToolEnds, world, Tells,
       Moved, PassedOn
<1>2. ASSUME NEW p \in Op PROVE RowOK(p)'
  <2>0. pending[p] \in Nat /\ effects[p] \in Nat
    BY DEF TypeOK
  <2>1. CASE p = o
    BY <2>0, <2>1, <1>a
       DEF TypeOK, RowOK, Spent, Op, Row, Live, ToolUncertain, ToolEnds, world, Tells,
         Moved
  <2>2. CASE p # o
    BY <2>0, <2>2, <1>a
       DEF TypeOK, RowOK, Spent, ToolUncertain, ToolEnds, world, Tells, Moved
  <2> QED BY <2>1, <2>2
<1>3. ASSUME NEW p \in HostOp PROVE CallOK(p)' /\ ToolOK(p)'
  BY <1>3, <1>a
     DEF TypeOK, CallOK, ToolOK, NoOutcome, Op, ToolUncertain, ToolEnds, Tells, Moved
<1>4. ASSUME NEW p \in HostOp PROVE ToldOK(p)'
  BY <1>4, <1>a
     DEF TypeOK, CallOK, ToolOK, ToldOK, RowOK, Spent, PassedOn, DownForgets, Outcome,
       NoOutcome, Op, Row, Live, TerminalRow, ToolUncertain, ToolEnds, world, Tells,
       Moved, PassedOn
<1>5. DownForgets'
  BY <1>a DEF TypeOK, DownForgets, ToolUncertain, ToolEnds, world, Tells, Moved
<1> QED BY <1>1, <1>2, <1>3, <1>4, <1>5

LEMMA AbortKeeps == ASSUME IInv, NEW o \in HostOp, Abort(o) PROVE IInv'
<1> USE OpAssumption, OwnerAssumption, BoundsAssumption DEF IInv
<1>a. \/ NotDispatched(o) /\ Tells(o, "cancelled", "cancelled")
      \/ ~NotDispatched(o) /\ Tells(o, "unknown", "unknown")
  BY SettleTells DEF Abort, TerminalRow, Outcome
<1>b. /\ row[o].status = "running" /\ tool[o] # "off" /\ log[o] = "admitted" /\ o \in Op
      /\ o \notin ClientOp
  BY <1>a DEF CallOK, Tells, Op
<1>c. /\ pending[o] \in Nat /\ effects[o] \in Nat
      /\ NotDispatched(o) => pending[o] = 0 /\ effects[o] = 0
  BY <1>b DEF NotDispatched, TypeOK, RowOK, ToolOK, Spent
<1>1. TypeOK'
  BY <1>a
     DEF TypeOK, RegStatus, Outcome, NoOutcome, Abort, NotDispatched, world, Tells,
       Moved, PassedOn
<1>2. ASSUME NEW p \in Op PROVE RowOK(p)'
  <2>0. Spent(p)' = Spent(p) /\ effects'[p] = effects[p] /\ erred' = erred
    BY DEF Abort, Spent, world
  <2>1. CASE p = o
    BY <2>0, <2>1, <1>a, <1>b, <1>c DEF RowOK, Spent, Tells, Moved
  <2>2. CASE p # o
    BY <2>0, <2>2, <1>a DEF RowOK, Tells, Moved
  <2> QED BY <2>1, <2>2
<1>3. ASSUME NEW p \in HostOp PROVE CallOK(p)' /\ ToolOK(p)'
  BY <1>3, <1>a
     DEF TypeOK, CallOK, ToolOK, NoOutcome, Op, Abort, NotDispatched, Tells, Moved
<1>4. ASSUME NEW p \in HostOp PROVE ToldOK(p)'
  BY <1>4, <1>a
     DEF TypeOK, CallOK, ToolOK, ToldOK, RowOK, Spent, PassedOn, DownForgets, Outcome,
       NoOutcome, Op, Row, Live, TerminalRow, Abort, NotDispatched, world, Tells, Moved,
       PassedOn
<1>5. DownForgets'
  BY <1>a DEF TypeOK, DownForgets, Abort, NotDispatched, world, Tells, Moved
<1> QED BY <1>1, <1>2, <1>3, <1>4, <1>5

LEMMA TimeoutKeeps == ASSUME IInv, NEW o \in HostOp, Timeout(o) PROVE IInv'
<1> USE OpAssumption, OwnerAssumption, BoundsAssumption DEF IInv
<1>a. \/ NotDispatched(o) /\ Tells(o, "failed", "failed")
      \/ ~NotDispatched(o) /\ Tells(o, "unknown", "unknown")
  BY SettleTells DEF Timeout, TerminalRow, Outcome
<1>b. /\ row[o].status = "running" /\ tool[o] # "off" /\ log[o] = "admitted" /\ o \in Op
      /\ o \notin ClientOp
  BY <1>a DEF CallOK, Tells, Op
<1>c. /\ pending[o] \in Nat /\ effects[o] \in Nat
      /\ NotDispatched(o) => pending[o] = 0 /\ effects[o] = 0 /\ ~row[o].dispatched
  BY <1>b DEF NotDispatched, TypeOK, RowOK, ToolOK, Spent
<1>1. TypeOK'
  BY <1>a
     DEF TypeOK, RegStatus, Outcome, NoOutcome, Timeout, NotDispatched, world, Tells,
       Moved, PassedOn
<1>2. ASSUME NEW p \in Op PROVE RowOK(p)'
  <2>0. Spent(p)' = Spent(p) /\ effects'[p] = effects[p] /\ erred' = erred
    BY DEF Timeout, Spent, world
  <2>1. CASE p = o
    BY <2>0, <2>1, <1>a, <1>b, <1>c DEF RowOK, Spent, Tells, Moved
  <2>2. CASE p # o
    BY <2>0, <2>2, <1>a DEF RowOK, Tells, Moved
  <2> QED BY <2>1, <2>2
<1>3. ASSUME NEW p \in HostOp PROVE CallOK(p)' /\ ToolOK(p)'
  BY <1>3, <1>a
     DEF TypeOK, CallOK, ToolOK, NoOutcome, Op, Timeout, NotDispatched, Tells, Moved
<1>4. ASSUME NEW p \in HostOp PROVE ToldOK(p)'
  BY <1>4, <1>a
     DEF TypeOK, CallOK, ToolOK, ToldOK, RowOK, Spent, PassedOn, DownForgets, Outcome,
       NoOutcome, Op, Row, Live, TerminalRow, Timeout, NotDispatched, world, Tells,
       Moved, PassedOn
<1>5. DownForgets'
  BY <1>a DEF TypeOK, DownForgets, Timeout, NotDispatched, world, Tells, Moved
<1> QED BY <1>1, <1>2, <1>3, <1>4, <1>5

LEMMA RecordKeeps == ASSUME IInv, NEW o \in HostOp, Record(o) PROVE IInv'
<1> USE OpAssumption, OwnerAssumption, BoundsAssumption DEF IInv
<1>1. TypeOK'
  BY DEF TypeOK, NoOutcome, Record, clients, world, bounds
<1>2. ASSUME NEW p \in Op PROVE RowOK(p)'
  BY <1>2 DEF TypeOK, RowOK, Spent, Op, Row, Live, Record, world
<1>3. ASSUME NEW p \in HostOp PROVE CallOK(p)' /\ ToolOK(p)'
  BY <1>3 DEF TypeOK, CallOK, ToolOK, NoOutcome, Op, Record, clients
<1>4. ASSUME NEW p \in HostOp PROVE ToldOK(p)'
  BY <1>4 DEF TypeOK, ToldOK, Spent, PassedOn, Outcome, NoOutcome, Record, world
<1>5. DownForgets'
  BY DEF TypeOK, DownForgets, Record, clients, world, bounds
<1> QED BY <1>1, <1>2, <1>3, <1>4, <1>5

LEMMA RepeatKeeps == ASSUME IInv, NEW o \in HostOp, Repeat(o) PROVE IInv'
<1> USE OpAssumption, OwnerAssumption, BoundsAssumption DEF IInv
<1>a. Moved(o, "unknown") /\ Allowed(row[o].status, "unknown")
  BY StatusMoves DEF Repeat, Op, Live, TerminalRow
<1>1. TypeOK'
  BY <1>a DEF TypeOK, Repeat, Allowed, memory, clients, world, bounds, Moved, Open
<1>2. ASSUME NEW p \in Op PROVE RowOK(p)'
  <2>0. pending[p] \in Nat /\ effects[p] \in Nat
    BY DEF TypeOK
  <2>1. CASE p = o
    BY <2>0, <2>1, <1>a
       DEF TypeOK, RowOK, Spent, Op, Row, Live, Repeat, Allowed, world, Moved, Open
  <2>2. CASE p # o
    BY <2>0, <2>2, <1>a DEF TypeOK, RowOK, Spent, Repeat, Allowed, world, Moved, Open
  <2> QED BY <2>1, <2>2
<1>3. ASSUME NEW p \in HostOp PROVE CallOK(p)' /\ ToolOK(p)'
  BY <1>3, <1>a, SMTT(30)
     DEF TypeOK, CallOK, ToolOK, NoOutcome, Op, Row, Live, TerminalRow, Repeat, Allowed,
       memory, clients, world, bounds, Moved, Open
<1>4. ASSUME NEW p \in HostOp PROVE ToldOK(p)'
  BY <1>4, <1>a
     DEF TypeOK, ToldOK, RowOK, Spent, PassedOn, DownForgets, Outcome, NoOutcome, Op,
       Row, Live, TerminalRow, Repeat, Allowed, memory, clients, world, bounds, Moved,
       Open
<1>5. DownForgets'
  BY <1>a
     DEF TypeOK, DownForgets, Repeat, Allowed, memory, clients, world, bounds, Moved,
       Open
<1> QED BY <1>1, <1>2, <1>3, <1>4, <1>5

LEMMA ResumeSessionKeeps == ASSUME IInv, NEW o \in HostOp, ResumeSession(o) PROVE IInv'
<1> USE OpAssumption, OwnerAssumption, BoundsAssumption DEF IInv
<1>1. TypeOK'
  BY DEF TypeOK, RegStatus, Outcome, NoOutcome, ResumeSession, Recovered, memory,
       clients, world, bounds
<1>2. ASSUME NEW p \in Op PROVE RowOK(p)'
  BY <1>2 DEF TypeOK, RowOK, Spent, Op, Row, Live, ResumeSession, Recovered, world
<1>3. ASSUME NEW p \in HostOp PROVE CallOK(p)' /\ ToolOK(p)'
  BY <1>3 DEF TypeOK, CallOK, ToolOK, ResumeSession, Recovered, memory, clients
<1>4. ASSUME NEW p \in HostOp PROVE ToldOK(p)'
  BY <1>4
     DEF TypeOK, ToldOK, RowOK, Spent, PassedOn, DownForgets, Outcome, NoOutcome, Op,
       Row, Live, TerminalRow, ResumeSession, Recovered, memory, clients, world, bounds
<1>5. DownForgets'
  BY DEF TypeOK, DownForgets, ResumeSession, Recovered, memory, clients, world, bounds
<1> QED BY <1>1, <1>2, <1>3, <1>4, <1>5

LEMMA ConnectKeeps == ASSUME IInv, NEW c \in Client, Connect(c) PROVE IInv'
<1> USE OpAssumption, OwnerAssumption, BoundsAssumption DEF IInv
<1>1. TypeOK'
  BY DEF TypeOK, NoOutcome, Connect, durable, memory, world, bounds
<1>2. ASSUME NEW p \in Op PROVE RowOK(p)'
  BY <1>2 DEF TypeOK, RowOK, Spent, Op, Row, Live, Connect, durable, world
<1>3. ASSUME NEW p \in HostOp PROVE CallOK(p)' /\ ToolOK(p)'
  BY <1>3 DEF TypeOK, CallOK, ToolOK, Connect, durable, memory
<1>4. ASSUME NEW p \in HostOp PROVE ToldOK(p)'
  BY <1>4
     DEF TypeOK, ToldOK, Spent, PassedOn, Outcome, NoOutcome, TerminalRow, Connect,
       durable, memory, world, bounds
<1>5. DownForgets'
  BY DEF TypeOK, DownForgets, Connect, durable, memory, world, bounds
<1> QED BY <1>1, <1>2, <1>3, <1>4, <1>5

LEMMA RegisterKeeps == ASSUME IInv, NEW c \in Client, Register(c) PROVE IInv'
<1> USE OpAssumption, OwnerAssumption, BoundsAssumption DEF IInv
<1>1. TypeOK'
  BY DEF TypeOK, RegStatus, Outcome, NoOutcome, Register, OwnerSets, memory, clients,
       world, bounds
<1>2. ASSUME NEW p \in Op PROVE RowOK(p)'
  BY <1>2 DEF TypeOK, RowOK, Spent, Op, Row, Live, Register, OwnerSets, world
<1>3. ASSUME NEW p \in HostOp PROVE CallOK(p)' /\ ToolOK(p)'
  BY <1>3 DEF TypeOK, CallOK, ToolOK, Register, OwnerSets, memory, clients
<1>4. ASSUME NEW p \in HostOp PROVE ToldOK(p)'
  BY <1>4
     DEF TypeOK, ToldOK, Spent, PassedOn, Outcome, NoOutcome, Register, OwnerSets,
       memory, clients, world, bounds
<1>5. DownForgets'
  BY DEF TypeOK, DownForgets, Register, OwnerSets, memory, clients, world, bounds
<1> QED BY <1>1, <1>2, <1>3, <1>4, <1>5

LEMMA AdmitKeeps == ASSUME IInv, NEW c \in Client, Admit(c) PROVE IInv'
<1> USE OpAssumption, OwnerAssumption, BoundsAssumption DEF IInv
<1>1. TypeOK'
  BY DEF TypeOK, RegStatus, Outcome, NoOutcome, Admit, OwnerSets, memory, clients,
       world, bounds
<1>2. ASSUME NEW p \in Op PROVE RowOK(p)'
  BY <1>2 DEF TypeOK, RowOK, Spent, Op, Row, Live, Admit, OwnerSets, world
<1>3. ASSUME NEW p \in HostOp PROVE CallOK(p)' /\ ToolOK(p)'
  BY <1>3 DEF TypeOK, CallOK, ToolOK, Admit, OwnerSets, memory, clients
<1>4. ASSUME NEW p \in HostOp PROVE ToldOK(p)'
  BY <1>4
     DEF TypeOK, ToldOK, Spent, PassedOn, Outcome, NoOutcome, Admit, OwnerSets, memory,
       clients, world, bounds
<1>5. DownForgets'
  BY DEF TypeOK, DownForgets, Admit, OwnerSets, memory, clients, world, bounds
<1> QED BY <1>1, <1>2, <1>3, <1>4, <1>5

LEMMA RejectOrReplaceKeeps == ASSUME IInv, NEW c \in Client, RejectOrReplace(c) PROVE IInv'
<1> USE OpAssumption, OwnerAssumption, BoundsAssumption DEF IInv
<1>1. TypeOK'
  BY DEF TypeOK, RegStatus, Outcome, NoOutcome, RejectOrReplace, OwnerSets, memory,
       clients, world, bounds
<1>2. ASSUME NEW p \in Op PROVE RowOK(p)'
  BY <1>2 DEF TypeOK, RowOK, Spent, Op, Row, Live, RejectOrReplace, OwnerSets, world
<1>3. ASSUME NEW p \in HostOp PROVE CallOK(p)' /\ ToolOK(p)'
  BY <1>3 DEF TypeOK, CallOK, ToolOK, RejectOrReplace, OwnerSets, memory, clients
<1>4. ASSUME NEW p \in HostOp PROVE ToldOK(p)'
  BY <1>4
     DEF TypeOK, ToldOK, Spent, PassedOn, Outcome, NoOutcome, RejectOrReplace,
       OwnerSets, memory, clients, world, bounds
<1>5. DownForgets'
  BY DEF TypeOK, DownForgets, RejectOrReplace, OwnerSets, memory, clients, world, bounds
<1> QED BY <1>1, <1>2, <1>3, <1>4, <1>5

LEMMA ExpireKeeps == ASSUME IInv, NEW c \in Client, Expire(c) PROVE IInv'
<1> USE OpAssumption, OwnerAssumption, BoundsAssumption DEF IInv
<1>1. TypeOK'
  BY DEF TypeOK, RegStatus, Outcome, NoOutcome, Expire, memory, clients, world, bounds
<1>2. ASSUME NEW p \in Op PROVE RowOK(p)'
  BY <1>2 DEF TypeOK, RowOK, Spent, Op, Row, Live, Expire, world
<1>3. ASSUME NEW p \in HostOp PROVE CallOK(p)' /\ ToolOK(p)'
  BY <1>3 DEF TypeOK, CallOK, ToolOK, Expire, memory, clients
<1>4. ASSUME NEW p \in HostOp PROVE ToldOK(p)'
  BY <1>4
     DEF TypeOK, ToldOK, Spent, PassedOn, Outcome, NoOutcome, Expire, memory, clients,
       world, bounds
<1>5. DownForgets'
  BY DEF TypeOK, DownForgets, Expire, memory, clients, world, bounds
<1> QED BY <1>1, <1>2, <1>3, <1>4, <1>5

LEMMA ReleaseByOwnerKeeps == ASSUME IInv, NEW c \in Client, ReleaseByOwner(c) PROVE IInv'
<1> USE OpAssumption, OwnerAssumption, BoundsAssumption DEF IInv
<1>a. /\ Withdrawn(c) /\ reg' \in [Client -> RegStatus]
      /\ UNCHANGED <<host, pc, tool, told, crashes>> /\ faults' \in 0 .. MaxFaults
  BY ReleaseWithdraws DEF ReleaseByOwner
<1>1. TypeOK'
  BY <1>a DEF TypeOK, NoOutcome, ReleaseByOwner, Withdrawn, Open, clients, world
<1>2. ASSUME NEW p \in Op PROVE RowOK(p)'
  BY <1>2, <1>a
     DEF TypeOK, RowOK, Spent, Op, Row, Live, ReleaseByOwner, Withdrawn, Open, world
<1>3. ASSUME NEW p \in HostOp PROVE CallOK(p)' /\ ToolOK(p)'
  BY <1>3, <1>a
     DEF TypeOK, CallOK, ToolOK, NoOutcome, Op, ReleaseByOwner, Withdrawn, Open, clients
<1>4. ASSUME NEW p \in HostOp PROVE ToldOK(p)'
  BY <1>4, <1>a
     DEF TypeOK, ToldOK, Spent, PassedOn, Outcome, NoOutcome, Op, Row, Live,
       TerminalRow, ReleaseByOwner, Withdrawn, Open, clients, world
<1>5. DownForgets'
  BY <1>a DEF TypeOK, DownForgets, ReleaseByOwner, Withdrawn, Open, clients, world
<1> QED BY <1>1, <1>2, <1>3, <1>4, <1>5

LEMMA DisconnectKeeps == ASSUME IInv, NEW c \in Client, Disconnect(c) PROVE IInv'
<1> USE OpAssumption, OwnerAssumption, BoundsAssumption DEF IInv
<1>a. /\ Withdrawn(c) /\ reg' \in [Client -> RegStatus]
      /\ UNCHANGED <<host, pc, tool, told, crashes>> /\ faults' \in 0 .. MaxFaults
  BY ReleaseWithdraws DEF Disconnect, Withdrawn, TypeOK, memory, bounds
<1>1. TypeOK'
  BY <1>a DEF TypeOK, NoOutcome, Disconnect, Withdrawn, Open, world
<1>2. ASSUME NEW p \in Op PROVE RowOK(p)'
  BY <1>2, <1>a
     DEF TypeOK, RowOK, Spent, Op, Row, Live, Disconnect, Withdrawn, Open, world
<1>3. ASSUME NEW p \in HostOp PROVE CallOK(p)' /\ ToolOK(p)'
  BY <1>3, <1>a DEF TypeOK, CallOK, ToolOK, NoOutcome, Op, Disconnect, Withdrawn, Open
<1>4. ASSUME NEW p \in HostOp PROVE ToldOK(p)'
  BY <1>4, <1>a
     DEF TypeOK, ToldOK, Spent, PassedOn, Outcome, NoOutcome, Op, Row, Live,
       TerminalRow, Disconnect, Withdrawn, Open, world
<1>5. DownForgets'
  BY <1>a DEF TypeOK, DownForgets, Disconnect, Withdrawn, Open, world
<1> QED BY <1>1, <1>2, <1>3, <1>4, <1>5

LEMMA DisconnectDiesKeeps == ASSUME IInv, NEW c \in Client, DisconnectDies(c) PROVE IInv'
<1> USE OpAssumption, OwnerAssumption, BoundsAssumption DEF IInv
<1>a. Withdrawn(c)
  BY CancelledWithdraws DEF DisconnectDies, ReleaseDies
<1>1. TypeOK'
  BY <1>a
     DEF TypeOK, RegStatus, Outcome, NoOutcome, DisconnectDies, ReleaseDies, Dies,
       Withdrawn, Open, world
<1>2. ASSUME NEW p \in Op PROVE RowOK(p)'
  BY <1>2, <1>a
     DEF TypeOK, RowOK, Spent, Op, Row, Live, DisconnectDies, ReleaseDies, Dies,
       Withdrawn, Open, world
<1>3. ASSUME NEW p \in HostOp PROVE CallOK(p)' /\ ToolOK(p)'
  BY <1>3, <1>a
     DEF TypeOK, CallOK, ToolOK, NoOutcome, Op, DisconnectDies, ReleaseDies, Dies,
       Withdrawn, Open
<1>4. ASSUME NEW p \in HostOp PROVE ToldOK(p)'
  BY <1>4, <1>a
     DEF TypeOK, ToldOK, Spent, PassedOn, Outcome, NoOutcome, Op, Row, Live,
       TerminalRow, DisconnectDies, ReleaseDies, Dies, Withdrawn, Open, world
<1>5. DownForgets'
  BY <1>a
     DEF TypeOK, DownForgets, DisconnectDies, ReleaseDies, Dies, Withdrawn, Open, world
<1> QED BY <1>1, <1>2, <1>3, <1>4, <1>5

LEMMA InvokeKeeps == ASSUME IInv, NEW o \in ClientOp, Invoke(o) PROVE IInv'
<1> USE OpAssumption, OwnerAssumption, BoundsAssumption DEF IInv
<1>1. TypeOK'
  BY DEF TypeOK, Op, Row, Live, TerminalRow, RegStatus, Outcome, NoOutcome, Invoke,
       memory, world, bounds
<1>2. ASSUME NEW p \in Op PROVE RowOK(p)'
  BY <1>2 DEF TypeOK, RowOK, Spent, Op, Row, Live, Invoke, world
<1>3. ASSUME NEW p \in HostOp PROVE CallOK(p)' /\ ToolOK(p)'
  BY <1>3 DEF TypeOK, CallOK, ToolOK, Invoke, memory
<1>4. ASSUME NEW p \in HostOp PROVE ToldOK(p)'
  BY <1>4
     DEF TypeOK, ToldOK, Spent, PassedOn, Outcome, NoOutcome, TerminalRow, Invoke,
       memory, world, bounds
<1>5. DownForgets'
  BY DEF TypeOK, DownForgets, Invoke, memory, world, bounds
<1> QED BY <1>1, <1>2, <1>3, <1>4, <1>5

LEMMA AcceptOfferKeeps == ASSUME IInv, NEW o \in ClientOp, AcceptOffer(o) PROVE IInv'
<1> USE OpAssumption, OwnerAssumption, BoundsAssumption DEF IInv
<1>a. Moved(o, "accepted") /\ Allowed(row[o].status, "accepted")
  BY StatusMoves DEF AcceptOffer, OwnerReports, Op, Live, TerminalRow
<1>1. TypeOK'
  BY <1>a
     DEF TypeOK, AcceptOffer, OwnerReports, Allowed, memory, clients, world, bounds,
       Moved
<1>2. ASSUME NEW p \in Op PROVE RowOK(p)'
  BY <1>2, <1>a
     DEF TypeOK, RowOK, Spent, Op, Row, Live, AcceptOffer, OwnerReports, Allowed, world,
       Moved
<1>3. ASSUME NEW p \in HostOp PROVE CallOK(p)' /\ ToolOK(p)'
  BY <1>3, <1>a
     DEF TypeOK, CallOK, ToolOK, NoOutcome, Op, AcceptOffer, OwnerReports, Allowed,
       memory, clients, Moved
<1>4. ASSUME NEW p \in HostOp PROVE ToldOK(p)'
  BY <1>4, <1>a
     DEF TypeOK, ToldOK, RowOK, Spent, PassedOn, DownForgets, Outcome, NoOutcome, Op,
       Row, Live, TerminalRow, AcceptOffer, OwnerReports, Allowed, memory, clients,
       world, bounds, Moved
<1>5. DownForgets'
  BY <1>a
     DEF TypeOK, DownForgets, AcceptOffer, OwnerReports, Allowed, memory, clients,
       world, bounds, Moved
<1> QED BY <1>1, <1>2, <1>3, <1>4, <1>5

LEMMA StartOfferKeeps == ASSUME IInv, NEW o \in ClientOp, StartOffer(o) PROVE IInv'
<1> USE OpAssumption, OwnerAssumption, BoundsAssumption DEF IInv
<1>a. Moved(o, "running") /\ Allowed(row[o].status, "running")
  BY StatusMoves DEF StartOffer, OwnerReports, Op, Live, TerminalRow
<1>b. /\ row[o].status = "accepted" /\ o \in Op /\ o \notin HostOp
      /\ pending[o] = 0 /\ effects[o] = 0
  BY <1>a DEF Allowed, Live, TerminalRow, TypeOK, RowOK, Spent, Op
<1>c. pending'[o] = 1 /\ effects'[o] = 0 /\ row'[o].status = "running"
        /\ row'[o].dispatched = row[o].dispatched
  BY <1>a, <1>b DEF StartOffer, OwnerReports, Moved, TypeOK
<1>d. row[o].dispatched
  BY <1>b DEF RowOK
<1>1. TypeOK'
  BY <1>a
     DEF TypeOK, Op, Row, Live, TerminalRow, RegStatus, Outcome, NoOutcome, StartOffer,
       OwnerReports, Allowed, memory, clients, bounds, Moved
<1>2. ASSUME NEW p \in Op PROVE RowOK(p)'
  <2>0. pending[p] \in Nat /\ effects[p] \in Nat
    BY DEF TypeOK
  <2>1. CASE p = o
    BY <2>1, <1>b, <1>c, <1>d DEF RowOK, Spent
  <2>2. CASE p # o
    BY <2>0, <2>2, <1>a
       DEF TypeOK, RowOK, Spent, StartOffer, OwnerReports, Allowed, Moved
  <2> QED BY <2>1, <2>2
<1>3. ASSUME NEW p \in HostOp PROVE CallOK(p)' /\ ToolOK(p)'
  BY <1>3, <1>a
     DEF TypeOK, CallOK, ToolOK, NoOutcome, Op, StartOffer, OwnerReports, Allowed,
       memory, clients, Moved
<1>4. ASSUME NEW p \in HostOp PROVE ToldOK(p)'
  BY <1>4, <1>a
     DEF TypeOK, ToldOK, RowOK, Spent, PassedOn, DownForgets, Outcome, NoOutcome, Op,
       Row, Live, TerminalRow, StartOffer, OwnerReports, Allowed, memory, clients,
       bounds, Moved
<1>5. DownForgets'
  BY <1>a
     DEF TypeOK, DownForgets, StartOffer, OwnerReports, Allowed, memory, clients,
       bounds, Moved
<1> QED BY <1>1, <1>2, <1>3, <1>4, <1>5

LEMMA ReportResultKeeps == ASSUME IInv, NEW o \in ClientOp, ReportResult(o) PROVE IInv'
<1> USE OpAssumption, OwnerAssumption, BoundsAssumption DEF IInv
<1>a. Moved(o, "result") /\ Allowed(row[o].status, "result")
  BY StatusMoves DEF ReportResult, OwnerReports, Op, Live, TerminalRow
<1>1. TypeOK'
  BY <1>a
     DEF TypeOK, ReportResult, OwnerReports, Allowed, memory, clients, world, bounds,
       Moved
<1>2. ASSUME NEW p \in Op PROVE RowOK(p)'
  <2>0. pending[p] \in Nat /\ effects[p] \in Nat
    BY DEF TypeOK
  <2>1. CASE p = o
    BY <2>0, <2>1, <1>a
       DEF TypeOK, RowOK, Spent, Op, Row, Live, ReportResult, OwnerReports, Allowed,
         world, Moved
  <2>2. CASE p # o
    BY <2>0, <2>2, <1>a
       DEF TypeOK, RowOK, Spent, ReportResult, OwnerReports, Allowed, world, Moved
  <2> QED BY <2>1, <2>2
<1>3. ASSUME NEW p \in HostOp PROVE CallOK(p)' /\ ToolOK(p)'
  BY <1>3, <1>a
     DEF TypeOK, CallOK, ToolOK, NoOutcome, Op, ReportResult, OwnerReports, Allowed,
       memory, clients, Moved
<1>4. ASSUME NEW p \in HostOp PROVE ToldOK(p)'
  BY <1>4, <1>a
     DEF TypeOK, ToldOK, RowOK, Spent, PassedOn, DownForgets, Outcome, NoOutcome, Op,
       Row, Live, TerminalRow, ReportResult, OwnerReports, Allowed, memory, clients,
       world, bounds, Moved
<1>5. DownForgets'
  BY <1>a
     DEF TypeOK, DownForgets, ReportResult, OwnerReports, Allowed, memory, clients,
       world, bounds, Moved
<1> QED BY <1>1, <1>2, <1>3, <1>4, <1>5

LEMMA FailOfferKeeps == ASSUME IInv, NEW o \in ClientOp, FailOffer(o) PROVE IInv'
<1> USE OpAssumption, OwnerAssumption, BoundsAssumption DEF IInv
<1>a. Moved(o, "failed") /\ Allowed(row[o].status, "failed")
  BY StatusMoves DEF FailOffer, OwnerReports, Op, Live, TerminalRow
<1>b. /\ o \in Op /\ o \notin HostOp /\ row[o].dispatched
      /\ UNCHANGED <<reg, log, host, memory, clients, bounds>>
  BY <1>a DEF FailOffer, OwnerReports, Allowed, Live, RowOK, Op
<1>c. erred' = erred \cup {o} /\ effects' = effects
  BY DEF FailOffer, Errs, Refuses
<1>d. /\ pending' \in [Op -> Nat] /\ pending'[o] <= pending[o]
      /\ \A p \in Op \ {o} : pending'[p] = pending[p]
  <2>1. CASE Refuses(o)
    BY <1>b, <2>1 DEF Refuses, TypeOK
  <2>2. CASE pending' = pending
    BY <1>b, <2>2 DEF TypeOK
  <2> QED BY <2>1, <2>2 DEF FailOffer
<1>1. TypeOK'
  BY <1>a, <1>b, <1>c, <1>d DEF TypeOK, NoOutcome, memory, clients, bounds, Moved
<1>2. ASSUME NEW p \in Op PROVE RowOK(p)'
  <2>1. CASE p = o
    <3>0. pending[p] \in Nat /\ effects[p] \in Nat /\ pending'[p] \in Nat /\ Spent(p) <= 1
          /\ pending'[p] <= pending[p]
      BY <2>1, <1>d DEF TypeOK, RowOK
    <3>1. Spent(p)' <= 1
      BY <3>0, <1>c DEF Spent
    <3>2. p \in erred' /\ row'[p].status = "failed" /\ row'[p].dispatched
      BY <2>1, <1>a, <1>b, <1>c DEF Moved
    <3> QED BY <3>1, <3>2 DEF RowOK
  <2>2. CASE p # o
    <3>1. row'[p] = row[p] /\ pending'[p] = pending[p] /\ effects'[p] = effects[p]
          /\ (p \in erred' <=> p \in erred)
      BY <2>2, <1>a, <1>c, <1>d DEF Moved
    <3> QED BY <3>1 DEF RowOK, Spent
  <2> QED BY <2>1, <2>2
<1>3. ASSUME NEW p \in HostOp PROVE CallOK(p)' /\ ToolOK(p)' /\ ToldOK(p)'
  <2>1. /\ row'[p] = row[p] /\ pending'[p] = pending[p] /\ effects'[p] = effects[p]
        /\ (p \in erred' <=> p \in erred)
    BY <1>a, <1>b, <1>c, <1>d DEF Moved, Op
  <2> QED BY <2>1, <1>b DEF CallOK, ToolOK, ToldOK, Spent, PassedOn, memory
<1>4. DownForgets'
  BY <1>b DEF DownForgets, memory
<1> QED BY <1>1, <1>2, <1>3, <1>4

LEMMA GiveUpKeeps == ASSUME IInv, NEW o \in ClientOp, GiveUp(o) PROVE IInv'
<1> USE OpAssumption, OwnerAssumption, BoundsAssumption DEF IInv
<1>a. Moved(o, "cancelled") /\ Allowed(row[o].status, "cancelled")
  BY StatusMoves DEF GiveUp, OwnerReports, Op, Live, TerminalRow
<1>1. TypeOK'
  BY <1>a
     DEF TypeOK, NoOutcome, GiveUp, OwnerReports, Allowed, memory, clients, bounds,
       Moved
<1>2. ASSUME NEW p \in Op PROVE RowOK(p)'
  <2>0. /\ pending[p] \in Nat /\ effects[p] \in Nat /\ erred' = erred /\ effects' = effects
        /\ o \in Op /\ pending' = [pending EXCEPT ![o] = 0]
    BY DEF TypeOK, GiveUp, Op
  <2>1. CASE p = o
    <3>1. Spent(p)' = 0 /\ effects'[p] = 0
      BY <2>0, <2>1 DEF GiveUp, Spent, TypeOK
    <3>2. row'[p].status = "cancelled" /\ row'[p].dispatched = row[p].dispatched
          /\ row[p].status # "none"
      BY <2>1, <1>a DEF Moved, Allowed, Live
    <3> QED BY <3>1, <3>2 DEF RowOK
  <2>2. CASE p # o
    <3>1. row'[p] = row[p] /\ pending'[p] = pending[p] /\ effects'[p] = effects[p]
          /\ (p \in erred' <=> p \in erred)
      BY <2>0, <2>2, <1>a DEF Moved, TypeOK
    <3> QED BY <3>1 DEF RowOK, Spent
  <2> QED BY <2>1, <2>2
<1>3. ASSUME NEW p \in HostOp PROVE CallOK(p)' /\ ToolOK(p)'
  BY <1>3, <1>a
     DEF TypeOK, CallOK, ToolOK, NoOutcome, Op, GiveUp, OwnerReports, Allowed, memory,
       clients, Moved
<1>4. ASSUME NEW p \in HostOp PROVE ToldOK(p)'
  BY <1>4, <1>a
     DEF TypeOK, ToldOK, RowOK, Spent, PassedOn, DownForgets, Outcome, NoOutcome, Op,
       Row, Live, TerminalRow, GiveUp, OwnerReports, Allowed, memory, clients, bounds,
       Moved
<1>5. DownForgets'
  BY <1>a
     DEF TypeOK, DownForgets, GiveUp, OwnerReports, Allowed, memory, clients, bounds,
       Moved
<1> QED BY <1>1, <1>2, <1>3, <1>4, <1>5

LEMMA HappenKeeps == ASSUME IInv, NEW o \in Op, Happen(o) PROVE IInv'
<1> USE OpAssumption, OwnerAssumption, BoundsAssumption DEF IInv
<1>1. TypeOK'
  BY DEF TypeOK, NoOutcome, Happen, durable, memory, clients, bounds
<1>2. ASSUME NEW p \in Op PROVE RowOK(p)'
  BY <1>2 DEF TypeOK, RowOK, Spent, Op, Row, Live, Happen, durable
<1>3. ASSUME NEW p \in HostOp PROVE CallOK(p)' /\ ToolOK(p)'
  BY <1>3 DEF TypeOK, CallOK, ToolOK, Happen, durable, memory, clients
<1>4. ASSUME NEW p \in HostOp PROVE ToldOK(p)'
  BY <1>4
     DEF TypeOK, ToldOK, Spent, PassedOn, Outcome, NoOutcome, Happen, durable, memory,
       clients, bounds
<1>5. DownForgets'
  BY DEF TypeOK, DownForgets, Happen, durable, memory, clients, bounds
<1> QED BY <1>1, <1>2, <1>3, <1>4, <1>5

LEMMA CrashKeeps == ASSUME IInv, Crash PROVE IInv'
<1> USE OpAssumption, OwnerAssumption, BoundsAssumption DEF IInv
<1>1. TypeOK'
  BY DEF TypeOK, NoOutcome, Crash, Dies, durable, world
<1>2. ASSUME NEW p \in Op PROVE RowOK(p)'
  BY <1>2 DEF TypeOK, RowOK, Spent, Op, Row, Live, Crash, Dies, durable, world
<1>3. ASSUME NEW p \in HostOp PROVE CallOK(p)' /\ ToolOK(p)'
  BY <1>3 DEF TypeOK, CallOK, ToolOK, Crash, Dies, durable
<1>4. ASSUME NEW p \in HostOp PROVE ToldOK(p)'
  BY <1>4
     DEF TypeOK, ToldOK, Spent, PassedOn, Outcome, NoOutcome, Crash, Dies, durable,
       world
<1>5. DownForgets'
  BY DEF TypeOK, DownForgets, Crash, Dies, durable, world
<1> QED BY <1>1, <1>2, <1>3, <1>4, <1>5

LEMMA RestartKeeps == ASSUME IInv, Restart PROVE IInv'
<1> USE OpAssumption, OwnerAssumption, BoundsAssumption DEF IInv
<1>1. TypeOK'
  BY SMTT(30)
     DEF TypeOK, Op, Row, Live, TerminalRow, RegStatus, Outcome, NoOutcome, Restart,
       RecoverRows, Unsettled, Open, memory, clients, world, bounds
<1>2. ASSUME NEW p \in Op PROVE RowOK(p)'
  BY <1>2
     DEF TypeOK, RowOK, Spent, Op, Row, Live, Restart, RecoverRows, Unsettled, Open,
       world
<1>3. ASSUME NEW p \in HostOp PROVE CallOK(p)' /\ ToolOK(p)'
  BY <1>3
     DEF TypeOK, CallOK, ToolOK, DownForgets, Outcome, NoOutcome, Op, Row, Live,
       TerminalRow, Restart, RecoverRows, Unsettled, Open, memory, clients, world,
       bounds
<1>4. ASSUME NEW p \in HostOp PROVE ToldOK(p)'
  BY <1>4
     DEF TypeOK, ToldOK, RowOK, Spent, PassedOn, DownForgets, Outcome, NoOutcome, Op,
       Row, Live, TerminalRow, Restart, RecoverRows, Unsettled, Open, memory, clients,
       world, bounds
<1>5. DownForgets'
  BY DEF TypeOK, DownForgets, Restart, RecoverRows, Unsettled, Open, memory, clients,
       world, bounds
<1> QED BY <1>1, <1>2, <1>3, <1>4, <1>5

LEMMA RestartFailsKeeps == ASSUME IInv, RestartFails PROVE IInv'
<1> USE OpAssumption, OwnerAssumption, BoundsAssumption DEF IInv
<1>1. TypeOK'
  BY DEF TypeOK, Op, Row, Live, TerminalRow, RegStatus, Outcome, NoOutcome,
       RestartFails, RecoverRows, Unsettled, Open, WriteFails, memory, clients, world
<1>2. ASSUME NEW p \in Op PROVE RowOK(p)'
  BY <1>2
     DEF TypeOK, RowOK, Spent, Op, Row, Live, RestartFails, RecoverRows, Unsettled,
       Open, WriteFails, world
<1>3. ASSUME NEW p \in HostOp PROVE CallOK(p)' /\ ToolOK(p)'
  BY <1>3
     DEF TypeOK, CallOK, ToolOK, DownForgets, Outcome, NoOutcome, Op, Row, Live,
       TerminalRow, RestartFails, RecoverRows, Unsettled, Open, WriteFails, memory,
       clients, world
<1>4. ASSUME NEW p \in HostOp PROVE ToldOK(p)'
  BY <1>4
     DEF TypeOK, ToldOK, RowOK, Spent, PassedOn, DownForgets, Outcome, NoOutcome, Op,
       Row, Live, TerminalRow, RestartFails, RecoverRows, Unsettled, Open, WriteFails,
       memory, clients, world
<1>5. DownForgets'
  BY DEF TypeOK, DownForgets, RestartFails, RecoverRows, Unsettled, Open, WriteFails,
       memory, clients, world
<1> QED BY <1>1, <1>2, <1>3, <1>4, <1>5
-----------------------------------------------------------------------------
(* The invariant of the ledger. *)

LEMMA InitEstablishes == Init => IInv
<1> SUFFICES ASSUME Init PROVE IInv
  OBVIOUS
<1>1. TypeOK
  BY BoundsAssumption DEF Init, TypeOK, Op, Row, RegStatus, NoOutcome
<1>2. \A o \in Op : RowOK(o)
  BY DEF Init, RowOK, Spent
<1>3. \A o \in HostOp : CallOK(o) /\ ToolOK(o) /\ ToldOK(o)
  BY DEF Init, CallOK, ToolOK, ToldOK, Op, NoOutcome, Outcome
<1>4. DownForgets
  BY DEF Init, DownForgets
<1> QED BY <1>1, <1>2, <1>3, <1>4 DEF IInv

LEMMA StutterKeeps == ASSUME IInv, UNCHANGED vars PROVE IInv'
<1> USE DEF vars, durable, memory, clients, world, bounds, IInv
<1>1. TypeOK'
  BY DEF TypeOK
<1>2. ASSUME NEW o \in Op PROVE RowOK(o)'
  BY DEF RowOK, Spent
<1>3. ASSUME NEW o \in HostOp PROVE CallOK(o)' /\ ToolOK(o)' /\ ToldOK(o)'
  BY DEF CallOK, ToolOK, ToldOK, PassedOn, Spent
<1>4. DownForgets'
  BY DEF DownForgets
<1> QED BY <1>1, <1>2, <1>3, <1>4

LEMMA NextKeeps == IInv /\ [Next]_vars => IInv'
<1> SUFFICES ASSUME IInv, [Next]_vars PROVE IInv'
  OBVIOUS
<1>1. ASSUME NEW o \in HostOp, HostStep(o) PROVE IInv'
  BY <1>1, CallToolKeeps, AdmitToolKeeps, AbortEarlyKeeps, BeginKeeps, BeginFailsKeeps,
       BeginDiesKeeps,
     DispatchKeeps, DispatchDiesKeeps, ResultKeeps, ErrorResultKeeps, ToolFailsKeeps,
     ToolUncertainKeeps, AbortKeeps, TimeoutKeeps, RecordKeeps, RepeatKeeps, ResumeSessionKeeps
  DEF HostStep
<1>2. ASSUME NEW c \in Client, ClientStep(c) PROVE IInv'
  BY <1>2, ConnectKeeps, RegisterKeeps, AdmitKeeps, RejectOrReplaceKeeps, ExpireKeeps,
     ReleaseByOwnerKeeps, DisconnectKeeps, DisconnectDiesKeeps DEF ClientStep
<1>3. ASSUME NEW o \in ClientOp, OfferStep(o) PROVE IInv'
  BY <1>3, InvokeKeeps, AcceptOfferKeeps, StartOfferKeeps, ReportResultKeeps,
       FailOfferKeeps, GiveUpKeeps
     DEF OfferStep
<1>4. ASSUME NEW o \in Op, Happen(o) PROVE IInv'
  BY <1>4, HappenKeeps
<1>5. CASE Crash \/ Restart \/ RestartFails
  BY <1>5, CrashKeeps, RestartKeeps, RestartFailsKeeps
<1>6. CASE UNCHANGED vars
  BY <1>6, StutterKeeps
<1> QED BY <1>1, <1>2, <1>3, <1>4, <1>5, <1>6 DEF Next

\* What the four stores say of one call agrees in every reachable state: the
\* row, the session log, the Host's memory and the effects in the world.
THEOREM Invariance == Spec => []IInv
  BY InitEstablishes, NextKeeps, PTL DEF Spec

\* Every variable of the capability ledger keeps its type.
THEOREM TypeCorrect == Spec => []TypeOK
<1>1. IInv => TypeOK
  BY DEF IInv
<1> QED BY <1>1, Invariance, PTL

\* However often a call is repeated, recovered or resumed, it asks for its
\* effect once at most.
THEOREM EffectsHappenOnce == Spec => []AtMostOnce
<1>1. IInv => AtMostOnce
  BY DEF IInv, RowOK, Spent, AtMostOnce
<1> QED BY <1>1, Invariance, PTL

\* The session calls a success what has happened, cancelled what has not happened
\* and will not, and failed, when an effect came or may come, only what the tool
\* itself reported as an error.
THEOREM SessionHearsTheTruth == Spec => []SessionTruthful
<1>1. ASSUME IInv, NEW o \in HostOp, NEW outcome \in {log[o], told[o]} PROVE
        /\ outcome = "succeeded" => effects[o] = 1 \/ PassedOn(o)
        /\ outcome = "cancelled" => pending[o] + effects[o] = 0
        /\ outcome = "failed" => pending[o] + effects[o] = 0 \/ o \in erred
  BY <1>1 DEF IInv, RowOK, ToldOK, Spent, Op, PassedOn
<1>2. IInv => SessionTruthful
  BY <1>1 DEF SessionTruthful
<1> QED BY <1>2, Invariance, PTL

\* The session log and the ledger, written one after the other, agree on which
\* calls succeeded.
THEOREM LogAndLedgerAgree == Spec => []ResultReachesSession
<1>1. IInv => ResultReachesSession
  BY DEF IInv, ToldOK, ResultReachesSession
<1> QED BY <1>1, Invariance, PTL

-----------------------------------------------------------------------------
(* The refinement.  What a step does to one operation is one of four things. *)

Stays(o) == row'[o] = row[o] /\ pending'[o] = pending[o] /\ effects'[o] = effects[o]

\* The call goes on; a request may leave once it runs.
Proceeds(o) ==
    /\ row[o].status \in {"none"} \cup Live /\ row'[o].status \in {"none"} \cup Live
    /\ row'[o].status = "none" => row[o].status = "none"
    /\ effects'[o] = effects[o]
    /\ \/ pending'[o] = pending[o]
       \/ pending'[o] = pending[o] + 1 /\ row'[o].status = "running"

\* The call ends, or its executor does; a request may be withdrawn.
Ends(o) ==
    /\ Open(o)
    /\ row'[o] = row[o] \/ row'[o].status \in TerminalRow
    /\ effects'[o] = effects[o] /\ pending'[o] \in {pending[o], 0}

Takes(o) ==
    /\ row'[o] = row[o] /\ pending[o] > 0
    /\ pending'[o] = pending[o] - 1 /\ effects'[o] = effects[o] + 1

Steps(o) == Stays(o) \/ Proceeds(o) \/ Ends(o) \/ Takes(o)

\* A step of one of these kinds is a step that the promise allows.
LEMMA StepsKeepPromise ==
    ASSUME IInv, IInv', NEW o \in Op, Steps(o)
    PROVE  /\ VerdictOf(o)' = VerdictOf(o) \/ Promise!Judged(o)
           /\ EffectOf(o)' = EffectOf(o) \/ Promise!Moved(o)
<1>1. /\ RowOK(o) /\ RowOK(o)' /\ row[o] \in Row /\ row'[o] \in Row
      /\ pending[o] \in Nat /\ effects[o] \in Nat /\ pending'[o] \in Nat /\ effects'[o] \in Nat
  BY DEF IInv, TypeOK
<1>2. CASE Stays(o)
  BY <1>2 DEF Stays, VerdictOf, EffectOf
<1>3. CASE Proceeds(o)
  <2>1. VerdictOf(o) \in {"idle", "open"} /\ VerdictOf(o)' \in {"idle", "open"}
        /\ (VerdictOf(o)' = "idle" => VerdictOf(o) = "idle")
    BY <1>3 DEF Proceeds, VerdictOf, Live
  <2>2. EffectOf(o)' = EffectOf(o) \/ /\ EffectOf(o) = "none" /\ EffectOf(o)' = "requested"
                                      /\ VerdictOf(o)' = "open"
    BY <1>1, <1>3 DEF Proceeds, EffectOf, VerdictOf, RowOK, Spent, Live
  <2> QED BY <2>1, <2>2
             DEF Promise!Judged, Promise!Moved, Promise!Verdict, Promise!Unsettled
<1>4. CASE Ends(o)
  <2>1. VerdictOf(o) = "open"
    BY <1>4 DEF Ends, VerdictOf, Open, Live
  <2>2. \/ VerdictOf(o)' = "open"
        \/ VerdictOf(o)' = "done" /\ effects'[o] = 1
        \/ VerdictOf(o)' = "none" /\ pending'[o] = 0 /\ effects'[o] = 0
        \/ VerdictOf(o)' = "error" /\ o \in erred'
        \/ VerdictOf(o)' = "unknown"
    <3>1. CASE row'[o] = row[o]
      BY <3>1, <2>1 DEF VerdictOf
    <3>2. CASE row'[o].status = "result"
      BY <1>1, <3>2 DEF VerdictOf, RowOK, Live
    <3>3. CASE row'[o].status \in {"failed", "cancelled"} /\ ~row'[o].dispatched
      <4>1. pending'[o] = 0 /\ effects'[o] = 0
        BY <1>1, <3>3 DEF RowOK, Spent
      <4>2. CASE row'[o].status = "failed"
        BY <3>3, <4>1, <4>2 DEF VerdictOf, Live
      <4>3. CASE row'[o].status = "cancelled"
        BY <3>3, <4>1, <4>3 DEF VerdictOf, Live
      <4> QED BY <3>3, <4>2, <4>3
    <3>4. CASE row'[o].status = "errorResult" \/ (row'[o].status = "failed" /\ row'[o].dispatched)
      <4>1. o \in erred'
        BY <1>1, <3>4 DEF RowOK
      <4> QED BY <3>4, <4>1 DEF VerdictOf, Live
    <3>5. CASE row'[o].status = "unknown" \/ (row'[o].status = "cancelled" /\ row'[o].dispatched)
      BY <3>5 DEF VerdictOf, Live
    <3> QED BY <1>4, <3>1, <3>2, <3>3, <3>4, <3>5 DEF Ends, TerminalRow
  <2>3. effects'[o] = effects[o] /\ pending'[o] \in {pending[o], 0}
    BY <1>4 DEF Ends
  <2> QED BY <1>1, <2>1, <2>2, <2>3
          DEF EffectOf, Promise!Judged, Promise!Moved, Promise!Verdict, Promise!Unsettled
<1>5. CASE Takes(o)
  <2>1. VerdictOf(o)' = VerdictOf(o)
    BY <1>5 DEF Takes, VerdictOf
  <2>2. EffectOf(o) = "requested" /\ EffectOf(o)' = "happened"
    BY <1>1, <1>5 DEF Takes, EffectOf, RowOK, Spent
  <2> QED BY <2>1, <2>2 DEF Promise!Moved
<1> QED BY <1>2, <1>3, <1>4, <1>5 DEF Steps

\* The steps that leave the ledger and the world alone.
Quiet == UNCHANGED <<row, pending, effects>>

LEMMA HostQuiet ==
    ASSUME NEW o \in HostOp, CallTool(o) \/ AdmitTool(o) \/ AbortEarly(o) \/ Record(o)
           \/ ResumeSession(o)
    PROVE  Quiet
  BY DEF Quiet, CallTool, AdmitTool, AbortEarly, Record, ResumeSession, durable, world

LEMMA ClientQuiet ==
    ASSUME NEW c \in Client, Connect(c) \/ Register(c) \/ Admit(c) \/ RejectOrReplace(c)
           \/ Expire(c)
    PROVE  Quiet
  BY DEF Quiet, Connect, Register, Admit, RejectOrReplace, OwnerSets, Expire, durable,
       world

\* The other actions, one operation at a time.

LEMMA BeginSteps == ASSUME IInv, NEW o \in HostOp, Begin(o), NEW p \in Op PROVE Steps(p)
<1>1. /\ row'[o].status = "running"
      /\ \A q \in Op \ {o} : row'[q] = row[q]
  BY InsertedRow DEF IInv, Begin, Op, Live
<1> QED BY <1>1 DEF Begin, Steps, Stays, Proceeds, IInv, TypeOK, Live

LEMMA BeginFailsSteps ==
    ASSUME IInv, NEW o \in HostOp, BeginFails(o), NEW p \in Op
    PROVE Steps(p)
<1>1. /\ row'[o].status \in {"none"} \cup Live
      /\ \A q \in Op \ {o} : row'[q] = row[q]
  BY InsertedRow DEF IInv, BeginFails, Op, Live
<1> QED BY <1>1 DEF BeginFails, Steps, Stays, Proceeds, world

LEMMA BeginDiesSteps == ASSUME IInv, NEW o \in HostOp, BeginDies(o), NEW p \in Op PROVE Steps(p)
<1>1. /\ row'[o].status \in {"none"} \cup Live
      /\ \A q \in Op \ {o} : row'[q] = row[q]
  BY InsertedRow DEF IInv, BeginDies, Op, Live
<1> QED BY <1>1 DEF BeginDies, Steps, Stays, Proceeds, world

LEMMA DispatchSteps == ASSUME IInv, NEW o \in HostOp, Dispatch(o), NEW p \in Op PROVE Steps(p)
  BY DEF Dispatch, MarkDispatched, Steps, Stays, Proceeds, IInv, TypeOK, Row, Live, Op

LEMMA DispatchDiesSteps ==
    ASSUME IInv, NEW o \in HostOp, DispatchDies(o), NEW p \in Op
    PROVE Steps(p)
  BY DEF DispatchDies, MarkDispatched, Steps, Stays, Proceeds, IInv, TypeOK, Row, Live,
       Op, world

LEMMA ResultSteps == ASSUME IInv, NEW o \in HostOp, Result(o), NEW p \in Op PROVE Steps(p)
<1>1. \E s \in TerminalRow, outcome \in Outcome : Tells(o, s, outcome)
  BY StoredTells DEF IInv, Result, TerminalRow, Outcome
<1>2. row[o].status = "running"
  BY <1>1 DEF IInv, CallOK, Tells
<1>3. /\ effects' = effects /\ pending'[o] \in {pending[o], 0}
      /\ \A q \in Op \ {o} : pending'[q] = pending[q]
  BY DEF Result, world
<1> QED BY <1>1, <1>2, <1>3 DEF Steps, Stays, Ends, Tells, Moved, Open, Live

LEMMA ErrorResultSteps ==
    ASSUME IInv, NEW o \in HostOp, ErrorResult(o), NEW p \in Op
    PROVE Steps(p)
<1>1. \E s \in TerminalRow, outcome \in Outcome : Tells(o, s, outcome)
  BY StoredTells DEF IInv, ErrorResult, TerminalRow, Outcome
<1>2. row[o].status = "running"
  BY <1>1 DEF IInv, CallOK, Tells
<1>3. /\ effects' = effects /\ pending'[o] \in {pending[o], 0}
      /\ \A q \in Op \ {o} : pending'[q] = pending[q]
  <2>1. o \in Op /\ pending[o] \in Nat /\ effects[o] \in Nat /\ pending[o] + effects[o] <= 1
    BY DEF IInv, TypeOK, RowOK, Spent, Op
  <2> QED BY <2>1 DEF ErrorResult, Refuses, IInv, TypeOK, world
<1> QED BY <1>1, <1>2, <1>3 DEF Steps, Stays, Ends, Tells, Moved, Open, Live

LEMMA ToolFailsSteps == ASSUME IInv, NEW o \in HostOp, ToolFails(o), NEW p \in Op PROVE Steps(p)
<1>1. \E s \in TerminalRow, outcome \in Outcome : Tells(o, s, outcome)
  BY SettleTells DEF IInv, ToolFails, FileChangeUncertain, Settle, TerminalRow, Outcome
<1>2. row[o].status = "running"
  BY <1>1 DEF IInv, CallOK, Tells
<1>3. /\ effects' = effects /\ pending'[o] \in {pending[o], 0}
      /\ \A q \in Op \ {o} : pending'[q] = pending[q]
  <2>1. o \in Op /\ pending[o] \in Nat /\ effects[o] \in Nat /\ pending[o] + effects[o] <= 1
    BY DEF IInv, TypeOK, RowOK, Spent, Op
  <2> QED BY <2>1 DEF ToolFails, Refuses, IInv, TypeOK, world
<1> QED BY <1>1, <1>2, <1>3 DEF Steps, Stays, Ends, Tells, Moved, Open, Live

LEMMA ToolUncertainSteps ==
    ASSUME IInv, NEW o \in HostOp, ToolUncertain(o), NEW p \in Op
    PROVE Steps(p)
<1>1. \E s \in TerminalRow, outcome \in Outcome : Tells(o, s, outcome)
  BY SettleTells DEF IInv, ToolUncertain, TerminalRow, Outcome
<1>2. row[o].status = "running"
  BY <1>1 DEF IInv, CallOK, Tells
<1>3. /\ effects' = effects /\ pending'[o] \in {pending[o], 0}
      /\ \A q \in Op \ {o} : pending'[q] = pending[q]
  BY DEF ToolUncertain, world
<1> QED BY <1>1, <1>2, <1>3 DEF Steps, Stays, Ends, Tells, Moved, Open, Live

LEMMA AbortSteps == ASSUME IInv, NEW o \in HostOp, Abort(o), NEW p \in Op PROVE Steps(p)
<1>1. \E s \in TerminalRow, outcome \in Outcome : Tells(o, s, outcome)
  BY SettleTells DEF IInv, Abort, TerminalRow, Outcome
<1>2. row[o].status = "running"
  BY <1>1 DEF IInv, CallOK, Tells
<1>3. /\ effects' = effects /\ pending'[o] \in {pending[o], 0}
      /\ \A q \in Op \ {o} : pending'[q] = pending[q]
  BY DEF Abort, world
<1> QED BY <1>1, <1>2, <1>3 DEF Steps, Stays, Ends, Tells, Moved, Open, Live

LEMMA TimeoutSteps == ASSUME IInv, NEW o \in HostOp, Timeout(o), NEW p \in Op PROVE Steps(p)
<1>1. \E s \in TerminalRow, outcome \in Outcome : Tells(o, s, outcome)
  BY SettleTells DEF IInv, Timeout, TerminalRow, Outcome
<1>2. row[o].status = "running"
  BY <1>1 DEF IInv, CallOK, Tells
<1>3. /\ effects' = effects /\ pending'[o] \in {pending[o], 0}
      /\ \A q \in Op \ {o} : pending'[q] = pending[q]
  BY DEF Timeout, world
<1> QED BY <1>1, <1>2, <1>3 DEF Steps, Stays, Ends, Tells, Moved, Open, Live

LEMMA RepeatSteps == ASSUME IInv, NEW o \in HostOp, Repeat(o), NEW p \in Op PROVE Steps(p)
<1>1. Moved(o, "unknown") /\ Allowed(row[o].status, "unknown")
  BY StatusMoves DEF IInv, Repeat, Op, Live, TerminalRow
<1> QED BY <1>1
           DEF Repeat, Moved, Allowed, Steps, Stays, Ends, Open, Live, TerminalRow,
             world

LEMMA ReleaseByOwnerSteps ==
    ASSUME IInv, NEW c \in Client, ReleaseByOwner(c), NEW p \in Op
    PROVE Steps(p)
<1>1. Withdrawn(c)
  BY ReleaseWithdraws DEF IInv, ReleaseByOwner
<1> QED BY <1>1 DEF ReleaseByOwner, Withdrawn, Steps, Stays, Ends, TerminalRow, world

LEMMA DisconnectSteps ==
    ASSUME IInv, NEW c \in Client, Disconnect(c), NEW p \in Op
    PROVE Steps(p)
<1>1. Withdrawn(c)
  BY ReleaseWithdraws DEF IInv, Disconnect, Withdrawn, TypeOK
<1> QED BY <1>1 DEF Disconnect, Withdrawn, Steps, Stays, Ends, TerminalRow, world

LEMMA DisconnectDiesSteps ==
    ASSUME IInv, NEW c \in Client, DisconnectDies(c), NEW p \in Op
    PROVE Steps(p)
<1>1. Withdrawn(c)
  BY CancelledWithdraws DEF IInv, DisconnectDies, ReleaseDies
<1> QED BY <1>1 DEF DisconnectDies, Withdrawn, Steps, Stays, Ends, TerminalRow, world

LEMMA InvokeSteps == ASSUME IInv, NEW o \in ClientOp, Invoke(o), NEW p \in Op PROVE Steps(p)
  BY DEF Invoke, Steps, Stays, Proceeds, IInv, TypeOK, Live, Op, world

LEMMA AcceptOfferSteps ==
    ASSUME IInv, NEW o \in ClientOp, AcceptOffer(o), NEW p \in Op
    PROVE Steps(p)
<1>1. Moved(o, "accepted") /\ Allowed(row[o].status, "accepted")
  BY StatusMoves DEF IInv, AcceptOffer, OwnerReports, Op, Live, TerminalRow
<1> QED BY <1>1
           DEF AcceptOffer, OwnerReports, Moved, Allowed, Steps, Stays, Proceeds, Live,
             world

LEMMA StartOfferSteps ==
    ASSUME IInv, NEW o \in ClientOp, StartOffer(o), NEW p \in Op
    PROVE Steps(p)
<1>1. Moved(o, "running") /\ Allowed(row[o].status, "running")
  BY StatusMoves DEF IInv, StartOffer, OwnerReports, Op, Live, TerminalRow
<1> QED BY <1>1
           DEF StartOffer, OwnerReports, Moved, Allowed, Steps, Stays, Proceeds, Live,
             IInv, TypeOK, Op

LEMMA ReportResultSteps ==
    ASSUME IInv, NEW o \in ClientOp, ReportResult(o), NEW p \in Op
    PROVE Steps(p)
<1>1. Moved(o, "result") /\ Allowed(row[o].status, "result")
  BY StatusMoves DEF IInv, ReportResult, OwnerReports, Op, Live, TerminalRow
<1> QED BY <1>1
           DEF ReportResult, OwnerReports, Moved, Allowed, Steps, Stays, Ends, Open,
             Live, TerminalRow, world

LEMMA FailOfferSteps ==
    ASSUME IInv, NEW o \in ClientOp, FailOffer(o), NEW p \in Op
    PROVE Steps(p)
<1>1. Moved(o, "failed") /\ Allowed(row[o].status, "failed")
  BY StatusMoves DEF IInv, FailOffer, OwnerReports, Op, Live, TerminalRow
<1>2. /\ o \in Op /\ pending[o] \in Nat /\ effects[o] \in Nat /\ pending[o] + effects[o] <= 1
      /\ pending \in [Op -> Nat]
  BY DEF IInv, TypeOK, RowOK, Spent, Op
<1>3. /\ effects' = effects /\ pending'[o] \in {pending[o], 0}
      /\ \A q \in Op \ {o} : pending'[q] = pending[q]
  BY <1>2 DEF FailOffer, Refuses
<1> QED BY <1>1, <1>3 DEF Moved, Allowed, Steps, Stays, Ends, Open, Live, TerminalRow

LEMMA GiveUpSteps == ASSUME IInv, NEW o \in ClientOp, GiveUp(o), NEW p \in Op PROVE Steps(p)
<1>1. Moved(o, "cancelled") /\ Allowed(row[o].status, "cancelled")
  BY StatusMoves DEF IInv, GiveUp, OwnerReports, Op, Live, TerminalRow
<1> QED BY <1>1
           DEF GiveUp, Moved, Allowed, Steps, Stays, Ends, Open, Live, TerminalRow,
             IInv, TypeOK, Op

LEMMA HappenSteps == ASSUME IInv, NEW o \in Op, Happen(o), NEW p \in Op PROVE Steps(p)
  BY DEF Happen, Steps, Stays, Takes, durable, IInv, TypeOK

LEMMA RestartSteps == ASSUME IInv, Restart, NEW p \in Op PROVE Steps(p)
  BY DEF Restart, RecoverRows, Unsettled, Open, Steps, Stays, Ends, IInv, TypeOK, Row,
       TerminalRow, world

LEMMA RestartFailsSteps == ASSUME IInv, RestartFails, NEW p \in Op PROVE Steps(p)
  BY DEF RestartFails, RecoverRows, Unsettled, Open, Steps, Stays, Ends, IInv, TypeOK,
       Row, TerminalRow, world

LEMMA NextSteps == ASSUME IInv, [Next]_vars, NEW p \in Op PROVE Steps(p)
<1>1. ASSUME Quiet PROVE Steps(p)
  BY <1>1 DEF Quiet, Steps, Stays
<1>2. ASSUME NEW o \in HostOp, HostStep(o) PROVE Steps(p)
  BY <1>1, <1>2, HostQuiet, BeginSteps, BeginFailsSteps, BeginDiesSteps, DispatchSteps,
     DispatchDiesSteps, ResultSteps, ErrorResultSteps, ToolFailsSteps, ToolUncertainSteps,
     AbortSteps, TimeoutSteps, RepeatSteps DEF HostStep
<1>3. ASSUME NEW c \in Client, ClientStep(c) PROVE Steps(p)
  BY <1>1, <1>3, ClientQuiet, ReleaseByOwnerSteps, DisconnectSteps, DisconnectDiesSteps
     DEF ClientStep
<1>4. ASSUME NEW o \in ClientOp, OfferStep(o) PROVE Steps(p)
  BY <1>4, InvokeSteps, AcceptOfferSteps, StartOfferSteps, ReportResultSteps,
       FailOfferSteps, GiveUpSteps
     DEF OfferStep
<1>5. ASSUME NEW o \in Op, Happen(o) PROVE Steps(p)
  BY <1>5, HappenSteps
<1>6. CASE Crash \/ UNCHANGED vars
  BY <1>1, <1>6 DEF Crash, vars, durable, world, Quiet
<1>7. CASE Restart \/ RestartFails
  BY <1>7, RestartSteps, RestartFailsSteps
<1> QED BY <1>2, <1>3, <1>4, <1>5, <1>6, <1>7 DEF Next

\* An executor is heard only while its row is open.
LEMMA NextHears == ASSUME IInv, [Next]_vars PROVE Promise!Heard
<1>1. ASSUME NEW o \in Op, Open(o), Errs(o) PROVE Promise!Heard
  BY <1>1 DEF Promise!Heard, Errs, VerdictOf, Open, Live, IInv, TypeOK
<1>2. ASSUME UNCHANGED erred PROVE Promise!Heard
  BY <1>2 DEF Promise!Heard, IInv, TypeOK
<1>3. ASSUME NEW o \in HostOp, HostStep(o) PROVE Promise!Heard
  <2>1. CASE ErrorResult(o)
    <3>1. pc[o] = "racing"
      BY <2>1 DEF ErrorResult, Stored, Settle, Written, Decided
    <3> QED BY <1>1, <2>1, <3>1 DEF ErrorResult, IInv, CallOK, Open, Live, Op
  <2>2. CASE ToolFails(o)
    <3>1. pc[o] = "racing"
      BY <2>2 DEF ToolFails, FileChangeUncertain, Settle, Written, Decided
    <3> QED BY <1>1, <1>2, <2>2, <3>1 DEF ToolFails, IInv, CallOK, Open, Live, Op, world
  <2>3. CASE ~ErrorResult(o) /\ ~ToolFails(o)
    BY <1>2, <1>3, <2>3
    DEF HostStep, CallTool, AdmitTool, AbortEarly, Begin, BeginFails, BeginDies, Dispatch,
        DispatchDies, Result, ToolUncertain, Abort, Timeout, Record, Repeat, ResumeSession, world
  <2> QED BY <2>1, <2>2, <2>3
<1>4. ASSUME NEW c \in Client, ClientStep(c) PROVE Promise!Heard
  BY <1>2, <1>4
  DEF ClientStep, Connect, Register, Admit, RejectOrReplace, OwnerSets, Expire,
      ReleaseByOwner, Disconnect, DisconnectDies, world
<1>5. ASSUME NEW o \in ClientOp, OfferStep(o) PROVE Promise!Heard
  <2>1. CASE FailOffer(o)
    <3>1. Open(o)
      BY <2>1 DEF FailOffer, OwnerReports, SetStatus, Allowed, Open, Live
    <3> QED BY <1>1, <2>1, <3>1 DEF FailOffer, Op
  <2>2. CASE ~FailOffer(o)
    BY <1>2, <1>5, <2>2
    DEF OfferStep, Invoke, AcceptOffer, StartOffer, ReportResult, GiveUp, world
  <2> QED BY <2>1, <2>2
<1>6. ASSUME NEW o \in Op, Happen(o) PROVE Promise!Heard
  BY <1>2, <1>6 DEF Happen
<1>7. CASE Crash \/ Restart \/ RestartFails \/ UNCHANGED vars
  BY <1>2, <1>7 DEF Crash, Restart, RestartFails, vars, world
<1> QED BY <1>3, <1>4, <1>5, <1>6, <1>7 DEF Next

\* The detailed ledger keeps the promise of EffectLedger: a verdict is final, a
\* definite one is true and an error is the executor's own word, and a request
\* leaves only while the record is open.
THEOREM LedgerKeepsPromise == Spec => KeepsPromise
<1>1. Init => Promise!LedgerInit
  <2> SUFFICES ASSUME Init PROVE Promise!LedgerInit
    OBVIOUS
  <2>1. ASSUME NEW o \in Op PROVE VerdictOf(o) = "idle" /\ EffectOf(o) = "none"
    <3>1. row[o].status = "none" /\ pending[o] = 0 /\ effects[o] = 0
      BY DEF Init
    <3> QED BY <3>1 DEF VerdictOf, EffectOf, Live
  <2>2. erred = {}
    BY DEF Init
  <2> QED BY <2>1, <2>2 DEF Promise!LedgerInit
<1>2. IInv /\ IInv' /\ [Next]_vars => [Promise!LedgerNext]_(Promise!lvars)
  <2> SUFFICES ASSUME IInv, IInv', [Next]_vars PROVE Promise!LedgerNext
    OBVIOUS
  <2>1. ASSUME NEW o \in Op PROVE
          /\ VerdictOf(o)' = VerdictOf(o) \/ Promise!Judged(o)
          /\ EffectOf(o)' = EffectOf(o) \/ Promise!Moved(o)
    BY NextSteps, StepsKeepPromise
  <2>2. ASSUME NEW o \in Op PROVE VerdictOf(o)' \in Promise!Verdict
          /\ EffectOf(o)' \in Promise!Effect
    BY DEF VerdictOf, EffectOf, Promise!Verdict, Promise!Effect
  <2>3. Promise!Heard
    BY NextHears
  <2> QED BY <2>1, <2>2, <2>3 DEF Promise!LedgerNext
<1> QED BY <1>1, <1>2, Invariance, PTL DEF Spec, KeepsPromise, Promise!LedgerSpec
=============================================================================

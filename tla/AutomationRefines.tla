-------------------------- MODULE AutomationRefines --------------------------
(***************************************************************************)
(* The scheduler implements the ledger of fires: every step of Automation  *)
(* moves one fire as FireLedger allows, deletes an automation with its     *)
(* fires, or changes nothing the ledger shows.                             *)
(***************************************************************************)
EXTENDS AutomationProofs

USE DEF rows, defs, runs, SetsRow, SetsPlace

\* LedgerPhase, from the columns.
PhaseOf(status, starts) ==
  CASE status = "none"                   -> "absent"
    [] status \in Waiting                -> "waiting"
    [] status = "running" /\ starts = 0  -> "claimed"
    [] status = "running" /\ starts # 0  -> "submitted"
    [] status = "completed"              -> "succeeded"
    [] status = "needs_approval"         -> "unknown"
    [] OTHER                             -> status

\* Nothing the ledger shows of a fire has changed.
LedgerStays(f) ==
  /\ PhaseOf(RowStatus'[f], submits'[f]) = PhaseOf(RowStatus[f], submits[f])
  /\ RowOwner'[f] = RowOwner[f] /\ submits'[f] = submits[f]

\* One fire moves as the ledger allows.
LedgerMoves(f) ==
  LET old == PhaseOf(RowStatus[f], submits[f])
      new == PhaseOf(RowStatus'[f], submits'[f])
      a == RowOwner[f]
  IN  \/ /\ old = "absent" /\ new = "waiting"
         /\ RowOwner'[f] \in Automation /\ submits'[f] = submits[f]
      \/ /\ old = "waiting" /\ new = "claimed"
         /\ RowOwner'[f] = a /\ submits'[f] = submits[f]
         /\ \A g \in Fire : RowOwner[g] = a => RowStatus[g] # "running"
         /\ MaxFires[a] = Unlimited \/ Cardinality(CompletedRows(a)) < MaxFires[a]
      \/ /\ old = "claimed" /\ new = "submitted"
         /\ RowOwner'[f] = a /\ submits'[f] = submits[f] + 1
      \/ /\ \/ old = "claimed" /\ new = "waiting"
            \/ old = "submitted" /\ new = "succeeded"
            \/ old \in {"claimed", "submitted"} /\ new \in {"failed", "unknown"}
         /\ RowOwner'[f] = a /\ submits'[f] = submits[f]

LedgerDeletes(a) ==
  \A f \in Fire :
    IF RowOwner[f] = a
    THEN /\ RowStatus[f] # "none" /\ RowStatus'[f] = "deleted"
         /\ RowOwner'[f] = a /\ submits'[f] = submits[f]
    ELSE LedgerStays(f)

LedgerView ==
  \/ \A f \in Fire : LedgerStays(f)
  \/ \E f \in Fire : LedgerMoves(f) /\ \A g \in Fire \ {f} : LedgerStays(g)
  \/ \E a \in Automation : LedgerDeletes(a)

-----------------------------------------------------------------------------
(* A step of the ledger seen through the columns is a step of the ledger    *)

\* The ledger of a state and of the next one, as columns.
LEMMA LedgerColumns ==
  /\ LedgerPhase = [f \in Fire |-> PhaseOf(RowStatus[f], submits[f])]
  /\ LedgerPhase' = [f \in Fire |-> PhaseOf(RowStatus'[f], submits'[f])]
BY DEF LedgerPhase, PhaseOf, Waiting, RowStatus

\* The phases a row in a known status can be in.
LEMMA PhaseRange ==
  ASSUME TypeOK, NEW f \in Fire
  PROVE  LET p == PhaseOf(RowStatus[f], submits[f])
         IN  /\ p \in Ledger!Phase
             /\ p = "absent" <=> RowStatus[f] = "none"
             /\ p = "succeeded" <=> RowStatus[f] = "completed"
             /\ p \in {"claimed", "submitted"} => RowStatus[f] = "running"
BY RowViews DEF PhaseOf, FireStatus, Waiting, Ledger!Phase

\* A fire that stays is kept.
LEMMA LedgerKeep ==
  ASSUME NEW f \in Fire, LedgerStays(f)
  PROVE  Ledger!Keep(f)
BY LedgerColumns DEF LedgerStays, Ledger!Keep, RowOwner

\* A fire that moves is admitted, claimed, submitted or settled.
LEMMA LedgerMove ==
  ASSUME TypeOK, NEW f \in Fire, LedgerMoves(f)
  PROVE  Ledger!Admit(f) \/ Ledger!Claim(f) \/ Ledger!Submit(f) \/ Ledger!Settle(f)
<1> DEFINE old == PhaseOf(RowStatus[f], submits[f])
           new == PhaseOf(RowStatus'[f], submits'[f])
           owner == [g \in Fire |-> fire[g].auto]
<1>1. /\ LedgerPhase[f] = old /\ LedgerPhase'[f] = new
      /\ owner = RowOwner /\ owner' = RowOwner'
  BY LedgerColumns DEF RowOwner
<1>2. ASSUME NEW a,
             \A g \in Fire : RowOwner[g] = a => RowStatus[g] # "running",
             MaxFires[a] = Unlimited \/ Cardinality(CompletedRows(a)) < MaxFires[a]
      PROVE  Ledger!Open(a)
  <2>1. Ledger!InFlight(a) = {}
    BY <1>1, <1>2, PhaseRange, LedgerColumns DEF Ledger!InFlight
  <2>2. Ledger!Succeeded(a) = CompletedRows(a)
    BY <1>1, PhaseRange, LedgerColumns DEF Ledger!Succeeded, CompletedRows
  <2>3. MaxFires[a] = Unlimited \/ Cardinality(Ledger!Succeeded(a)) < MaxFires[a]
    BY <1>2, <2>2
  <2> QED
    BY <2>1, <2>3 DEF Ledger!Open, Ledger!Cardinality, Cardinality
<1> HIDE DEF old, new, owner
<1>3. owner[f] = RowOwner[f] /\ owner'[f] = RowOwner'[f]
  BY <1>1
<1>4. CASE old = "absent" /\ new = "waiting" /\ RowOwner'[f] \in Automation /\ submits'[f] = submits[f]
  BY <1>1, <1>3, <1>4 DEF Ledger!Admit, owner
<1>5. CASE /\ old = "waiting" /\ new = "claimed"
           /\ RowOwner'[f] = RowOwner[f] /\ submits'[f] = submits[f] /\ Ledger!Open(RowOwner[f])
  BY <1>1, <1>3, <1>5 DEF Ledger!Claim, Ledger!Move, owner
<1>6. CASE /\ old = "claimed" /\ new = "submitted"
           /\ RowOwner'[f] = RowOwner[f] /\ submits'[f] = submits[f] + 1
  BY <1>1, <1>3, <1>6 DEF Ledger!Submit, owner
<1>7. CASE /\ \/ old = "claimed" /\ new = "waiting"
              \/ old = "submitted" /\ new = "succeeded"
              \/ old \in {"claimed", "submitted"} /\ new \in {"failed", "unknown"}
           /\ RowOwner'[f] = RowOwner[f] /\ submits'[f] = submits[f]
  BY <1>1, <1>3, <1>7 DEF Ledger!Settle, Ledger!Move, owner
<1> QED
  BY <1>2, <1>4, <1>5, <1>6, <1>7 DEF LedgerMoves, old, new

\* A step seen through the columns is a step or a stutter of the ledger.
LEMMA LedgerStep ==
  ASSUME TypeOK, TypeOK', LedgerView
  PROVE  [Ledger!LedgerNext]_(Ledger!lvars)
<1>1. ASSUME \A f \in Fire : LedgerStays(f) PROVE UNCHANGED Ledger!lvars
  <2>1. \A f \in Fire : /\ PhaseOf(RowStatus'[f], submits'[f]) = PhaseOf(RowStatus[f], submits[f])
                       /\ RowOwner'[f] = RowOwner[f] /\ submits'[f] = submits[f]
    BY <1>1 DEF LedgerStays
  <2>2. LedgerPhase' = LedgerPhase /\ RowOwner' = RowOwner
    BY <2>1, LedgerColumns DEF RowOwner
  <2>3. submits' = submits
    BY <2>1 DEF TypeOK
  <2> QED
    BY <2>2, <2>3 DEF Ledger!lvars, RowOwner
<1>2. ASSUME NEW f \in Fire, LedgerMoves(f), \A g \in Fire \ {f} : LedgerStays(g)
      PROVE  Ledger!LedgerNext
  BY <1>2, LedgerMove, LedgerKeep DEF Ledger!LedgerNext
<1>3. ASSUME NEW a \in Automation, LedgerDeletes(a) PROVE Ledger!LedgerNext
  <2>1. ASSUME NEW f \in Fire, RowOwner[f] = a PROVE Ledger!Move(f, Ledger!Phase \ {"absent"}, "deleted")
    <3>1. RowStatus[f] # "none" /\ RowStatus'[f] = "deleted" /\ RowOwner'[f] = a /\ submits'[f] = submits[f]
      BY <1>3, <2>1 DEF LedgerDeletes
    <3>2. /\ LedgerPhase[f] \in Ledger!Phase \ {"absent"}
          /\ LedgerPhase'[f] = PhaseOf("deleted", submits'[f])
      BY <3>1, LedgerColumns, PhaseRange
    <3>3. PhaseOf("deleted", submits'[f]) = "deleted"
      BY DEF PhaseOf, Waiting
    <3> QED
      BY <2>1, <3>1, <3>2, <3>3 DEF Ledger!Move, RowOwner
  <2>2. ASSUME NEW f \in Fire, RowOwner[f] # a PROVE Ledger!Keep(f)
    BY <1>3, <2>2, LedgerKeep DEF LedgerDeletes
  <2>3. \A f \in Fire : fire[f].auto = RowOwner[f]
    BY Columns
  <2> QED
    BY <2>1, <2>2, <2>3 DEF Ledger!LedgerNext
<1> QED
  BY <1>1, <1>2, <1>3 DEF LedgerView

\* Every effect a step can have is one the ledger allows.
LEMMA LedgerViewStep ==
  ASSUME ViewType, RowsOwned, RowsMatchMemory, SubmitsMatch, CountsMatch, ViewNext
  PROVE  LedgerView
<1>1. ASSUME NEW a \in Automation, EditsDef(a) PROVE LedgerView
  BY <1>1 DEF EditsDef, LedgerView, LedgerStays, ViewType, PhaseOf, Waiting
<1>2. ASSUME NEW a \in Automation, DeletesDef(a) PROVE LedgerView
  <2>1. LedgerDeletes(a)
    BY <1>2, AutomationAssumption DEF DeletesDef, LedgerDeletes, LedgerStays, RowsOwned, ViewType
  <2> QED
    BY <2>1 DEF LedgerView
<1>3. ASSUME NEW f \in Fire, NEW a \in Automation, AdmitsRow(f, a) PROVE LedgerView
  <2>1. LedgerMoves(f)
    BY <1>3 DEF AdmitsRow, LedgerMoves, PhaseOf, Waiting, ViewType, SubmitsMatch
  <2>2. \A g \in Fire \ {f} : LedgerStays(g)
    BY <1>3 DEF AdmitsRow, LedgerStays, PhaseOf, ViewType
  <2> QED
    BY <2>1, <2>2 DEF LedgerView
<1>4. ASSUME NEW f \in Fire, RequeuesRow(f) PROVE LedgerView
  BY <1>4 DEF RequeuesRow, LedgerView, LedgerStays, ViewType, PhaseOf, Waiting
<1>5. ASSUME NEW f \in Fire, QueuesRow(f) PROVE LedgerView
  BY <1>5 DEF QueuesRow, LedgerView, LedgerStays, ViewType, PhaseOf, Waiting
<1>6. ASSUME NEW f \in Fire, RejectsRow(f) PROVE LedgerView
  BY <1>6 DEF RejectsRow, LedgerView, LedgerStays, ViewType, PhaseOf, Waiting
<1>7. ASSUME NEW f \in Fire, ClaimsRow(f) PROVE LedgerView
  <2>1. \A g \in Fire : RowOwner[g] = RowOwner[f] => RowStatus[g] # "running"
    BY <1>7 DEF ClaimsRow, RowsMatchMemory, Away, Waiting
  <2>2. RowOwner[f] \in Automation
    BY <1>7 DEF ClaimsRow, RowsOwned, Waiting
  <2>3. MaxFires[RowOwner[f]] = Unlimited \/ Cardinality(CompletedRows(RowOwner[f])) < MaxFires[RowOwner[f]]
    BY <1>7, <2>2 DEF ClaimsRow, CountsMatch, HasBudget
  <2>4. LedgerMoves(f)
    <3>1. submits[f] = 0 /\ submits'[f] = 0 /\ RowOwner'[f] = RowOwner[f]
      BY <1>7 DEF ClaimsRow, SubmitsMatch, Waiting
    <3>2. PhaseOf(RowStatus[f], submits[f]) = "waiting" /\ PhaseOf(RowStatus'[f], submits'[f]) = "claimed"
      BY <1>7, <3>1 DEF ClaimsRow, PhaseOf, Waiting, ViewType
    <3> QED
      BY <2>1, <2>3, <3>1, <3>2 DEF LedgerMoves
  <2>5. \A g \in Fire \ {f} : LedgerStays(g)
    BY <1>7 DEF ClaimsRow, LedgerStays, PhaseOf, ViewType
  <2> QED
    BY <2>4, <2>5 DEF LedgerView
<1>8. ASSUME NEW f \in Fire, MovesOn(f) PROVE LedgerView
  BY <1>8 DEF MovesOn, LedgerView, LedgerStays, ViewType, PhaseOf, Waiting
<1>9. ASSUME NEW f \in Fire, DropsRow(f) PROVE LedgerView
  BY <1>9 DEF DropsRow, LedgerView, LedgerStays, ViewType, PhaseOf, Waiting
<1>10. ASSUME NEW f \in Fire, DefersRow(f) PROVE LedgerView
  <2>1. LedgerMoves(f)
    BY <1>10 DEF DefersRow, LedgerMoves, PhaseOf, Waiting, ViewType, SubmitsMatch
  <2>2. \A g \in Fire \ {f} : LedgerStays(g)
    BY <1>10 DEF DefersRow, LedgerStays, PhaseOf, ViewType
  <2> QED
    BY <2>1, <2>2 DEF LedgerView
<1>11. ASSUME NEW f \in Fire, AbortsRow(f) PROVE LedgerView
  <2>1. LedgerMoves(f)
    BY <1>11 DEF AbortsRow, LedgerMoves, PhaseOf, Waiting, ViewType, SubmitsMatch, FailsRow
  <2>2. \A g \in Fire \ {f} : LedgerStays(g)
    BY <1>11 DEF AbortsRow, LedgerStays, PhaseOf, ViewType, FailsRow
  <2> QED
    BY <2>1, <2>2 DEF LedgerView
<1>12. ASSUME NEW f \in Fire, SubmitsRow(f) PROVE LedgerView
  <2>1. LedgerMoves(f)
    BY <1>12 DEF SubmitsRow, LedgerMoves, PhaseOf, Waiting, ViewType, SubmitsMatch
  <2>2. \A g \in Fire \ {f} : LedgerStays(g)
    BY <1>12 DEF SubmitsRow, LedgerStays, PhaseOf, ViewType
  <2> QED
    BY <2>1, <2>2 DEF LedgerView
<1>13. ASSUME NEW f \in Fire, BindsRow(f) PROVE LedgerView
  BY <1>13 DEF BindsRow, LedgerView, LedgerStays, ViewType, PhaseOf, Waiting
<1>14. ASSUME NEW f \in Fire, EndsRun(f) PROVE LedgerView
  BY <1>14 DEF EndsRun, LedgerView, LedgerStays, ViewType, PhaseOf, Waiting
<1>15. ASSUME NEW f \in Fire, SettlesRow(f) PROVE LedgerView
  <2>1. LedgerStays(f) \/ LedgerMoves(f)
    BY <1>15
    DEF SettlesRow, LedgerStays, LedgerMoves, PhaseOf, Waiting, ViewType, SubmitsMatch, FailsRow,
        CompletesRow
  <2>2. \A g \in Fire \ {f} : LedgerStays(g)
    BY <1>15 DEF SettlesRow, LedgerStays, PhaseOf, ViewType, FailsRow, CompletesRow
  <2> QED
    BY <2>1, <2>2 DEF LedgerView
<1>16. ASSUME NEW f \in Fire, RecoversRow(f) PROVE LedgerView
  <2>1. LedgerStays(f) \/ LedgerMoves(f)
    BY <1>16
    DEF RecoversRow, LedgerStays, LedgerMoves, PhaseOf, Waiting, ViewType, SubmitsMatch, FailsRow,
        CompletesRow
  <2>2. \A g \in Fire \ {f} : LedgerStays(g)
    BY <1>16 DEF RecoversRow, LedgerStays, PhaseOf, ViewType, FailsRow, CompletesRow
  <2> QED
    BY <2>1, <2>2 DEF LedgerView
<1>17. ASSUME StopsHost PROVE LedgerView
  BY <1>17 DEF StopsHost, LedgerView, LedgerStays, ViewType, PhaseOf, Waiting
<1>18. ASSUME LosesHost PROVE LedgerView
  BY <1>18 DEF LosesHost, LedgerView, LedgerStays, ViewType, PhaseOf, Waiting
<1>19. ASSUME TurnsHost PROVE LedgerView
  BY <1>19 DEF TurnsHost, LedgerView, LedgerStays, ViewType, PhaseOf, Waiting
<1>20. ASSUME NEW s \in Session, UserTurn(s) PROVE LedgerView
  BY <1>20 DEF UserTurn, LedgerView, LedgerStays, ViewType, PhaseOf, Waiting
<1>21. ASSUME Skips PROVE LedgerView
  BY <1>21 DEF Skips, LedgerView, LedgerStays, ViewType, PhaseOf, Waiting
<1> QED
  BY <1>1, <1>2, <1>3, <1>4, <1>5, <1>6, <1>7, <1>8, <1>9, <1>10, <1>11,
     <1>12, <1>13, <1>14, <1>15, <1>16, <1>17, <1>18, <1>19, <1>20, <1>21 DEF ViewNext

LEMMA LedgerInitial == Init => Ledger!LedgerInit
<1> SUFFICES ASSUME Init PROVE Ledger!LedgerInit
  OBVIOUS
<1>1. LedgerPhase = [f \in Fire |-> "absent"]
  BY DEF Init, LedgerPhase, NoFire
<1>2. [f \in Fire |-> fire[f].auto] = [f \in Fire |-> NoAutomation]
  BY DEF Init, NoFire
<1> QED
  BY <1>1, <1>2 DEF Init, Ledger!LedgerInit

\* The scheduler implements the ledger: fires are admitted, claimed one at a
\* time per automation and within its budget, submitted once, and settled for
\* good, whatever polls, queues, awaits, shutdowns and crashes do in between.
THEOREM SchedulerImplementsLedger == Spec => ImplementsLedger
<1>1. Inv /\ [Next]_vars => [Ledger!LedgerNext]_(Ledger!lvars)
  BY StepInv, StepView, ViewTyped, LedgerViewStep, LedgerStep DEF Inv
<1> QED
  BY <1>1, LedgerInitial, Invariance, PTL DEF Spec, ImplementsLedger, Ledger!LedgerSpec

=============================================================================

-------------------------- MODULE AutomationProofs --------------------------
(***************************************************************************)
(* Theorems about Automation, for every set of automations and sessions,   *)
(* every schedule, budget and expiry, and every value of the bounds: an    *)
(* inductive invariant over the columns of the tables and the memory of    *)
(* the scheduler, the properties that follow from it, and the refinement   *)
(* of the fire ledger.                                                     *)
(***************************************************************************)
EXTENDS AutomationSteps, FiniteSetTheorems

-----------------------------------------------------------------------------
(* The inductive invariant: its parts about the rows and memory are stated  *)
(* in AutomationSteps, the others follow.                                   *)

\* How often a fire was submitted, and what is known of its run, follow from
\* how far its one attempt came.
SubmitsMatch ==
  \A f \in Fire :
    /\ submits[f] \in {0, 1}
    /\ submits[f] = 0 <=> run[f] = "none"
    /\ pc[f] \in {"claimed", "preparing"} => submits[f] = 0
    /\ pc[f] \in {"submitted", "running", "timedOut"} => submits[f] = 1
    /\ RowStatus[f] \in {"none", "pending", "deferred"} => submits[f] = 0
    /\ RowBound[f] => submits[f] = 1
    /\ run[f] = "live" => pc[f] \in {"submitted", "running", "timedOut"}

\* One attempt at a time for every automation and every session.
AttemptsExclusive ==
  /\ \A f, g \in Fire : RowStatus[f] = "running" /\ RowStatus[g] = "running" /\ f # g
       => RowOwner[f] # RowOwner[g]
  /\ \A f, g \in Fire : pc[f] \in InFlight /\ pc[g] \in InFlight /\ f # g =>
       /\ RowOwner[f] # RowOwner[g]
       /\ Isolated(RowOwner[f]) \/ SessionOf(RowOwner[f]) # SessionOf(RowOwner[g])

\* No run shares a session with a user.
UsersApart ==
  \A f \in Fire : run[f] = "live" /\ SessionOf(RowOwner[f]) \in Session
    => ~userBusy[SessionOf(RowOwner[f])]

\* The counter counts the completed rows, and a running row may still complete.
CompletedRows(a) == {f \in Fire : RowOwner[f] = a /\ RowStatus[f] = "completed"}
CountsMatch ==
  /\ \A a \in Automation : DefCount[a] = Cardinality(CompletedRows(a))
  /\ \A a \in Automation : MaxFires[a] # Unlimited => DefCount[a] <= MaxFires[a]
  /\ \A f \in Fire : RowStatus[f] = "running" => HasBudget(RowOwner[f])

\* What a settled row says of its run is so.
OutcomesMatch ==
  \A f \in Fire :
    /\ RowStatus[f] = "completed" => run[f] = "completed"
    /\ RowStatus[f] = "failed" => run[f] \notin {"live", "lost"}
    /\ RowStatus[f] = "needs_approval" => ~(RowBound[f] /\ run[f] \in {"completed", "failed"})

Healthy == \A a \in Automation : DefState[a] = "active" => DefFailures[a] < PauseAfter

Inv ==
  /\ TypeOK /\ RowsOwned /\ RowsMatchMemory /\ QueueMatchesMemory /\ SubmitsMatch
  /\ AttemptsExclusive /\ UsersApart /\ CountsMatch /\ OutcomesMatch /\ Healthy

\* The types of the columns and of the variables the invariant is about.
ViewType ==
  /\ RowStatus \in [Fire -> FireStatus] /\ RowBound \in [Fire -> BOOLEAN]
  /\ RowOwner \in [Fire -> Automation \cup {NoAutomation}]
  /\ DefState \in [Automation -> DefStatus]
  /\ DefCount \in [Automation -> Nat] /\ DefFailures \in [Automation -> Nat]
  /\ pc \in [Fire -> Place] /\ run \in [Fire -> RunStatus] /\ submits \in [Fire -> Nat]
  /\ userBusy \in [Session -> BOOLEAN]

\* The columns of a typed state are typed.
LEMMA ViewTyped == TypeOK => ViewType
BY RowViews DEF TypeOK, ViewType

-----------------------------------------------------------------------------
(* Each part is preserved *)

USE DEF store, memory, rows, defs, runs, SetsRow, SetsPlace

\* Rows stay owned.
LEMMA OwnedStep ==
  ASSUME ViewType, RowsOwned, RowsMatchMemory, ViewNext
  PROVE  RowsOwned'
<1>1. ASSUME NEW a \in Automation, EditsDef(a) PROVE RowsOwned'
  BY <1>1 DEF EditsDef, RowsOwned, ViewType, RowsMatchMemory, InFlight, Waiting
<1>2. ASSUME NEW a \in Automation, DeletesDef(a) PROVE RowsOwned'
  BY <1>2 DEF DeletesDef, RowsOwned, ViewType, RowsMatchMemory, InFlight, Waiting
<1>3. ASSUME NEW f \in Fire, NEW a \in Automation, AdmitsRow(f, a) PROVE RowsOwned'
  BY <1>3 DEF AdmitsRow, RowsOwned, ViewType, RowsMatchMemory, InFlight, Waiting
<1>4. ASSUME NEW f \in Fire, RequeuesRow(f) PROVE RowsOwned'
  BY <1>4 DEF RequeuesRow, RowsOwned, ViewType, RowsMatchMemory, InFlight, Waiting
<1>5. ASSUME NEW f \in Fire, QueuesRow(f) PROVE RowsOwned'
  BY <1>5 DEF QueuesRow, RowsOwned, ViewType, RowsMatchMemory, InFlight, Waiting
<1>6. ASSUME NEW f \in Fire, RejectsRow(f) PROVE RowsOwned'
  BY <1>6 DEF RejectsRow, RowsOwned, ViewType, RowsMatchMemory, InFlight, Waiting
<1>7. ASSUME NEW f \in Fire, ClaimsRow(f) PROVE RowsOwned'
  BY <1>7 DEF ClaimsRow, RowsOwned, ViewType, RowsMatchMemory, InFlight, Waiting
<1>8. ASSUME NEW f \in Fire, MovesOn(f) PROVE RowsOwned'
  BY <1>8 DEF MovesOn, RowsOwned, ViewType, RowsMatchMemory, InFlight, Waiting
<1>9. ASSUME NEW f \in Fire, DropsRow(f) PROVE RowsOwned'
  BY <1>9 DEF DropsRow, RowsOwned, ViewType, RowsMatchMemory, InFlight, Waiting
<1>10. ASSUME NEW f \in Fire, DefersRow(f) PROVE RowsOwned'
  BY <1>10 DEF DefersRow, RowsOwned, ViewType, RowsMatchMemory, InFlight, Waiting
<1>11. ASSUME NEW f \in Fire, AbortsRow(f) PROVE RowsOwned'
  BY <1>11
  DEF AbortsRow, FailsRow, OwnerFails, RowsOwned, ViewType, RowsMatchMemory, InFlight, Waiting
<1>12. ASSUME NEW f \in Fire, SubmitsRow(f) PROVE RowsOwned'
  BY <1>12 DEF SubmitsRow, RowsOwned, ViewType, RowsMatchMemory, InFlight, Waiting
<1>13. ASSUME NEW f \in Fire, BindsRow(f) PROVE RowsOwned'
  BY <1>13 DEF BindsRow, RowsOwned, ViewType, RowsMatchMemory, InFlight, Waiting
<1>14. ASSUME NEW f \in Fire, EndsRun(f) PROVE RowsOwned'
  BY <1>14 DEF EndsRun, RowsOwned, ViewType, RowsMatchMemory, InFlight, Waiting
<1>15. ASSUME NEW f \in Fire, SettlesRow(f) PROVE RowsOwned'
  BY <1>15
  DEF SettlesRow, CompletesRow, FailsRow, OwnerSucceeds, OwnerFails, RowsOwned, ViewType,
      RowsMatchMemory, InFlight, Waiting
<1>16. ASSUME NEW f \in Fire, RecoversRow(f) PROVE RowsOwned'
  BY <1>16
  DEF RecoversRow, CompletesRow, FailsRow, OwnerSucceeds, OwnerFails, RowsOwned, ViewType,
      RowsMatchMemory, InFlight, Waiting
<1>17. ASSUME StopsHost PROVE RowsOwned'
  BY <1>17 DEF StopsHost, RowsOwned, ViewType, RowsMatchMemory, InFlight, Waiting
<1>18. ASSUME LosesHost PROVE RowsOwned'
  BY <1>18 DEF LosesHost, RowsOwned, ViewType, RowsMatchMemory, InFlight, Waiting
<1>19. ASSUME TurnsHost PROVE RowsOwned'
  BY <1>19 DEF TurnsHost, RowsOwned, ViewType, RowsMatchMemory, InFlight, Waiting
<1>20. ASSUME NEW s \in Session, UserTurn(s) PROVE RowsOwned'
  BY <1>20 DEF UserTurn, RowsOwned, ViewType, RowsMatchMemory, InFlight, Waiting
<1>21. ASSUME Skips PROVE RowsOwned'
  BY <1>21 DEF Skips, RowsOwned, ViewType, RowsMatchMemory, InFlight, Waiting
<1> QED
  BY <1>1, <1>2, <1>3, <1>4, <1>5, <1>6, <1>7, <1>8, <1>9, <1>10, <1>11,
     <1>12, <1>13, <1>14, <1>15, <1>16, <1>17, <1>18, <1>19, <1>20, <1>21 DEF ViewNext

\* Rows and memory stay in agreement.
LEMMA MemoryStep ==
  ASSUME ViewType, RowsMatchMemory, SubmitsMatch, ViewNext
  PROVE  RowsMatchMemory'
<1>1. ASSUME NEW a \in Automation, EditsDef(a) PROVE RowsMatchMemory'
  BY <1>1 DEF EditsDef, RowsMatchMemory, ViewType, InFlight, Waiting, Away
<1>2. ASSUME NEW a \in Automation, DeletesDef(a) PROVE RowsMatchMemory'
  BY <1>2 DEF DeletesDef, RowsMatchMemory, ViewType, InFlight, Waiting, Away
<1>3. ASSUME NEW f \in Fire, NEW a \in Automation, AdmitsRow(f, a) PROVE RowsMatchMemory'
  BY <1>3 DEF AdmitsRow, RowsMatchMemory, ViewType, InFlight, Waiting, Away
<1>4. ASSUME NEW f \in Fire, RequeuesRow(f) PROVE RowsMatchMemory'
  BY <1>4 DEF RequeuesRow, RowsMatchMemory, ViewType, InFlight, Waiting, Away
<1>5. ASSUME NEW f \in Fire, QueuesRow(f) PROVE RowsMatchMemory'
  BY <1>5 DEF QueuesRow, RowsMatchMemory, ViewType, InFlight, Waiting, Away
<1>6. ASSUME NEW f \in Fire, RejectsRow(f) PROVE RowsMatchMemory'
  BY <1>6 DEF RejectsRow, RowsMatchMemory, ViewType, InFlight, Waiting, Away
<1>7. ASSUME NEW f \in Fire, ClaimsRow(f) PROVE RowsMatchMemory'
  BY <1>7 DEF ClaimsRow, RowsMatchMemory, ViewType, InFlight, Waiting, Away
<1>8. ASSUME NEW f \in Fire, MovesOn(f) PROVE RowsMatchMemory'
  BY <1>8 DEF MovesOn, RowsMatchMemory, ViewType, InFlight, Waiting, Away
<1>9. ASSUME NEW f \in Fire, DropsRow(f) PROVE RowsMatchMemory'
  BY <1>9 DEF DropsRow, SubmitsMatch, RowsMatchMemory, ViewType, InFlight, Waiting, Away
<1>10. ASSUME NEW f \in Fire, DefersRow(f) PROVE RowsMatchMemory'
  BY <1>10 DEF DefersRow, RowsMatchMemory, ViewType, InFlight, Waiting, Away
<1>11. ASSUME NEW f \in Fire, AbortsRow(f) PROVE RowsMatchMemory'
  BY <1>11 DEF AbortsRow, FailsRow, OwnerFails, RowsMatchMemory, ViewType, InFlight, Waiting, Away
<1>12. ASSUME NEW f \in Fire, SubmitsRow(f) PROVE RowsMatchMemory'
  BY <1>12 DEF SubmitsRow, RowsMatchMemory, ViewType, InFlight, Waiting, Away
<1>13. ASSUME NEW f \in Fire, BindsRow(f) PROVE RowsMatchMemory'
  BY <1>13 DEF BindsRow, RowsMatchMemory, ViewType, InFlight, Waiting, Away
<1>14. ASSUME NEW f \in Fire, EndsRun(f) PROVE RowsMatchMemory'
  BY <1>14 DEF EndsRun, RowsMatchMemory, ViewType, InFlight, Waiting, Away
<1>15. ASSUME NEW f \in Fire, SettlesRow(f) PROVE RowsMatchMemory'
  BY <1>15
  DEF SettlesRow, CompletesRow, FailsRow, OwnerSucceeds, OwnerFails, RowsMatchMemory, ViewType,
      InFlight, Waiting, Away
<1>16. ASSUME NEW f \in Fire, RecoversRow(f) PROVE RowsMatchMemory'
  BY <1>16
  DEF RecoversRow, CompletesRow, FailsRow, OwnerSucceeds, OwnerFails, RowsMatchMemory, ViewType,
      InFlight, Waiting, Away
<1>17. ASSUME StopsHost PROVE RowsMatchMemory'
  BY <1>17 DEF StopsHost, RowsMatchMemory, ViewType, InFlight, Waiting, Away
<1>18. ASSUME LosesHost PROVE RowsMatchMemory'
  BY <1>18 DEF LosesHost, RowsMatchMemory, ViewType, InFlight, Waiting, Away
<1>19. ASSUME TurnsHost PROVE RowsMatchMemory'
  BY <1>19 DEF TurnsHost, RowsMatchMemory, ViewType, InFlight, Waiting, Away
<1>20. ASSUME NEW s \in Session, UserTurn(s) PROVE RowsMatchMemory'
  BY <1>20 DEF UserTurn, RowsMatchMemory, ViewType, InFlight, Waiting, Away
<1>21. ASSUME Skips PROVE RowsMatchMemory'
  BY <1>21 DEF Skips, RowsMatchMemory, ViewType, InFlight, Waiting, Away
<1> QED
  BY <1>1, <1>2, <1>3, <1>4, <1>5, <1>6, <1>7, <1>8, <1>9, <1>10, <1>11,
     <1>12, <1>13, <1>14, <1>15, <1>16, <1>17, <1>18, <1>19, <1>20, <1>21 DEF ViewNext

\* No attempt is submitted twice.
LEMMA SubmitsStep ==
  ASSUME ViewType, RowsMatchMemory, SubmitsMatch, ViewNext
  PROVE  SubmitsMatch'
<1>1. ASSUME NEW a \in Automation, EditsDef(a) PROVE SubmitsMatch'
  BY <1>1 DEF EditsDef, SubmitsMatch, RowsMatchMemory, ViewType, InFlight, Waiting
<1>2. ASSUME NEW a \in Automation, DeletesDef(a) PROVE SubmitsMatch'
  BY <1>2 DEF DeletesDef, SubmitsMatch, RowsMatchMemory, ViewType, InFlight, Waiting
<1>3. ASSUME NEW f \in Fire, NEW a \in Automation, AdmitsRow(f, a) PROVE SubmitsMatch'
  BY <1>3 DEF AdmitsRow, SubmitsMatch, RowsMatchMemory, ViewType, InFlight, Waiting
<1>4. ASSUME NEW f \in Fire, RequeuesRow(f) PROVE SubmitsMatch'
  BY <1>4 DEF RequeuesRow, SubmitsMatch, RowsMatchMemory, ViewType, InFlight, Waiting
<1>5. ASSUME NEW f \in Fire, QueuesRow(f) PROVE SubmitsMatch'
  BY <1>5 DEF QueuesRow, SubmitsMatch, RowsMatchMemory, ViewType, InFlight, Waiting
<1>6. ASSUME NEW f \in Fire, RejectsRow(f) PROVE SubmitsMatch'
  BY <1>6 DEF RejectsRow, SubmitsMatch, RowsMatchMemory, ViewType, InFlight, Waiting
<1>7. ASSUME NEW f \in Fire, ClaimsRow(f) PROVE SubmitsMatch'
  BY <1>7 DEF ClaimsRow, SubmitsMatch, RowsMatchMemory, ViewType, InFlight, Waiting
<1>8. ASSUME NEW f \in Fire, MovesOn(f) PROVE SubmitsMatch'
  BY <1>8 DEF MovesOn, SubmitsMatch, RowsMatchMemory, ViewType, InFlight, Waiting
<1>9. ASSUME NEW f \in Fire, DropsRow(f) PROVE SubmitsMatch'
  BY <1>9 DEF DropsRow, SubmitsMatch, RowsMatchMemory, ViewType, InFlight, Waiting
<1>10. ASSUME NEW f \in Fire, DefersRow(f) PROVE SubmitsMatch'
  BY <1>10 DEF DefersRow, SubmitsMatch, RowsMatchMemory, ViewType, InFlight, Waiting
<1>11. ASSUME NEW f \in Fire, AbortsRow(f) PROVE SubmitsMatch'
  BY <1>11
  DEF AbortsRow, FailsRow, OwnerFails, SubmitsMatch, RowsMatchMemory, ViewType, InFlight, Waiting
<1>12. ASSUME NEW f \in Fire, SubmitsRow(f) PROVE SubmitsMatch'
  BY <1>12 DEF SubmitsRow, SubmitsMatch, RowsMatchMemory, ViewType, InFlight, Waiting
<1>13. ASSUME NEW f \in Fire, BindsRow(f) PROVE SubmitsMatch'
  BY <1>13 DEF BindsRow, SubmitsMatch, RowsMatchMemory, ViewType, InFlight, Waiting
<1>14. ASSUME NEW f \in Fire, EndsRun(f) PROVE SubmitsMatch'
  BY <1>14 DEF EndsRun, SubmitsMatch, RowsMatchMemory, ViewType, InFlight, Waiting
<1>15. ASSUME NEW f \in Fire, SettlesRow(f) PROVE SubmitsMatch'
  BY <1>15
  DEF SettlesRow, CompletesRow, FailsRow, OwnerSucceeds, OwnerFails, SubmitsMatch, RowsMatchMemory,
      ViewType, InFlight, Waiting
<1>16. ASSUME NEW f \in Fire, RecoversRow(f) PROVE SubmitsMatch'
  BY <1>16
  DEF RecoversRow, CompletesRow, FailsRow, OwnerSucceeds, OwnerFails, SubmitsMatch,
      RowsMatchMemory, ViewType, InFlight, Waiting
<1>17. ASSUME StopsHost PROVE SubmitsMatch'
  BY <1>17 DEF StopsHost, SubmitsMatch, RowsMatchMemory, ViewType, InFlight, Waiting
<1>18. ASSUME LosesHost PROVE SubmitsMatch'
  BY <1>18 DEF LosesHost, SubmitsMatch, RowsMatchMemory, ViewType, InFlight, Waiting
<1>19. ASSUME TurnsHost PROVE SubmitsMatch'
  BY <1>19 DEF TurnsHost, SubmitsMatch, RowsMatchMemory, ViewType, InFlight, Waiting
<1>20. ASSUME NEW s \in Session, UserTurn(s) PROVE SubmitsMatch'
  BY <1>20 DEF UserTurn, SubmitsMatch, RowsMatchMemory, ViewType, InFlight, Waiting
<1>21. ASSUME Skips PROVE SubmitsMatch'
  BY <1>21 DEF Skips, SubmitsMatch, RowsMatchMemory, ViewType, InFlight, Waiting
<1> QED
  BY <1>1, <1>2, <1>3, <1>4, <1>5, <1>6, <1>7, <1>8, <1>9, <1>10, <1>11,
     <1>12, <1>13, <1>14, <1>15, <1>16, <1>17, <1>18, <1>19, <1>20, <1>21 DEF ViewNext

\* No two attempts overlap.
LEMMA ExclusiveStep ==
  ASSUME ViewType, RowsMatchMemory, AttemptsExclusive, ViewNext
  PROVE  AttemptsExclusive'
<1>1. ASSUME NEW a \in Automation, EditsDef(a) PROVE AttemptsExclusive'
  BY <1>1 DEF EditsDef, AttemptsExclusive, RowsMatchMemory, ViewType, InFlight, Waiting, Away
<1>2. ASSUME NEW a \in Automation, DeletesDef(a) PROVE AttemptsExclusive'
  BY <1>2 DEF DeletesDef, AttemptsExclusive, RowsMatchMemory, ViewType, InFlight, Waiting, Away
<1>3. ASSUME NEW f \in Fire, NEW a \in Automation, AdmitsRow(f, a) PROVE AttemptsExclusive'
  BY <1>3 DEF AdmitsRow, AttemptsExclusive, RowsMatchMemory, ViewType, InFlight, Waiting, Away
<1>4. ASSUME NEW f \in Fire, RequeuesRow(f) PROVE AttemptsExclusive'
  BY <1>4 DEF RequeuesRow, AttemptsExclusive, RowsMatchMemory, ViewType, InFlight, Waiting, Away
<1>5. ASSUME NEW f \in Fire, QueuesRow(f) PROVE AttemptsExclusive'
  BY <1>5 DEF QueuesRow, AttemptsExclusive, RowsMatchMemory, ViewType, InFlight, Waiting, Away
<1>6. ASSUME NEW f \in Fire, RejectsRow(f) PROVE AttemptsExclusive'
  BY <1>6 DEF RejectsRow, AttemptsExclusive, RowsMatchMemory, ViewType, InFlight, Waiting, Away
<1>7. ASSUME NEW f \in Fire, ClaimsRow(f) PROVE AttemptsExclusive'
  <2>1. \A g \in Fire \ {f} : RowStatus'[g] = "running" => pc[g] \in InFlight
    BY <1>7 DEF ClaimsRow, RowsMatchMemory, ViewType, Away
  <2>2. \A g \in Fire \ {f} : pc'[g] \in InFlight => pc[g] \in InFlight
    BY <1>7 DEF ClaimsRow, ViewType
  <2>3. \A g \in Fire : pc[g] \in InFlight =>
          /\ RowOwner[g] # RowOwner[f]
          /\ Isolated(RowOwner[f]) \/ SessionOf(RowOwner[g]) # SessionOf(RowOwner[f])
    BY <1>7 DEF ClaimsRow
  <2>4. RowOwner' = RowOwner /\ \A g \in Fire \ {f} : RowStatus'[g] = RowStatus[g]
    BY <1>7 DEF ClaimsRow, ViewType
  <2>5. \A g \in Fire : Isolated(RowOwner[g]) <=> SessionOf(RowOwner[g]) = NoSession
    BY DEF Isolated
  <2> QED
    BY <2>1, <2>2, <2>3, <2>4, <2>5 DEF AttemptsExclusive
<1>8. ASSUME NEW f \in Fire, MovesOn(f) PROVE AttemptsExclusive'
  BY <1>8 DEF MovesOn, AttemptsExclusive, RowsMatchMemory, ViewType, InFlight, Waiting, Away
<1>9. ASSUME NEW f \in Fire, DropsRow(f) PROVE AttemptsExclusive'
  BY <1>9 DEF DropsRow, AttemptsExclusive, RowsMatchMemory, ViewType, InFlight, Waiting, Away
<1>10. ASSUME NEW f \in Fire, DefersRow(f) PROVE AttemptsExclusive'
  BY <1>10 DEF DefersRow, AttemptsExclusive, RowsMatchMemory, ViewType, InFlight, Waiting, Away
<1>11. ASSUME NEW f \in Fire, AbortsRow(f) PROVE AttemptsExclusive'
  BY <1>11
  DEF AbortsRow, FailsRow, OwnerFails, AttemptsExclusive, RowsMatchMemory, ViewType, InFlight,
      Waiting, Away
<1>12. ASSUME NEW f \in Fire, SubmitsRow(f) PROVE AttemptsExclusive'
  BY <1>12 DEF SubmitsRow, AttemptsExclusive, RowsMatchMemory, ViewType, InFlight, Waiting, Away
<1>13. ASSUME NEW f \in Fire, BindsRow(f) PROVE AttemptsExclusive'
  BY <1>13 DEF BindsRow, AttemptsExclusive, RowsMatchMemory, ViewType, InFlight, Waiting, Away
<1>14. ASSUME NEW f \in Fire, EndsRun(f) PROVE AttemptsExclusive'
  BY <1>14 DEF EndsRun, AttemptsExclusive, RowsMatchMemory, ViewType, InFlight, Waiting, Away
<1>15. ASSUME NEW f \in Fire, SettlesRow(f) PROVE AttemptsExclusive'
  BY <1>15
  DEF SettlesRow, CompletesRow, FailsRow, OwnerSucceeds, OwnerFails, AttemptsExclusive,
      RowsMatchMemory, ViewType, InFlight, Waiting, Away
<1>16. ASSUME NEW f \in Fire, RecoversRow(f) PROVE AttemptsExclusive'
  BY <1>16
  DEF RecoversRow, CompletesRow, FailsRow, OwnerSucceeds, OwnerFails, AttemptsExclusive,
      RowsMatchMemory, ViewType, InFlight, Waiting, Away
<1>17. ASSUME StopsHost PROVE AttemptsExclusive'
  BY <1>17 DEF StopsHost, AttemptsExclusive, RowsMatchMemory, ViewType, InFlight, Waiting, Away
<1>18. ASSUME LosesHost PROVE AttemptsExclusive'
  BY <1>18 DEF LosesHost, AttemptsExclusive, RowsMatchMemory, ViewType, InFlight, Waiting, Away
<1>19. ASSUME TurnsHost PROVE AttemptsExclusive'
  BY <1>19 DEF TurnsHost, AttemptsExclusive, RowsMatchMemory, ViewType, InFlight, Waiting, Away
<1>20. ASSUME NEW s \in Session, UserTurn(s) PROVE AttemptsExclusive'
  BY <1>20 DEF UserTurn, AttemptsExclusive, RowsMatchMemory, ViewType, InFlight, Waiting, Away
<1>21. ASSUME Skips PROVE AttemptsExclusive'
  BY <1>21 DEF Skips, AttemptsExclusive, RowsMatchMemory, ViewType, InFlight, Waiting, Away
<1> QED
  BY <1>1, <1>2, <1>3, <1>4, <1>5, <1>6, <1>7, <1>8, <1>9, <1>10, <1>11,
     <1>12, <1>13, <1>14, <1>15, <1>16, <1>17, <1>18, <1>19, <1>20, <1>21 DEF ViewNext

\* No run enters a session a user occupies, and no user one with a run.
LEMMA UsersStep ==
  ASSUME ViewType, SubmitsMatch, UsersApart, ViewNext
  PROVE  UsersApart'
<1>1. ASSUME NEW a \in Automation, EditsDef(a) PROVE UsersApart'
  BY <1>1 DEF EditsDef, UsersApart, SubmitsMatch, ViewType
<1>2. ASSUME NEW a \in Automation, DeletesDef(a) PROVE UsersApart'
  BY <1>2 DEF DeletesDef, UsersApart, SubmitsMatch, ViewType
<1>3. ASSUME NEW f \in Fire, NEW a \in Automation, AdmitsRow(f, a) PROVE UsersApart'
  BY <1>3 DEF AdmitsRow, UsersApart, SubmitsMatch, ViewType
<1>4. ASSUME NEW f \in Fire, RequeuesRow(f) PROVE UsersApart'
  BY <1>4 DEF RequeuesRow, UsersApart, SubmitsMatch, ViewType
<1>5. ASSUME NEW f \in Fire, QueuesRow(f) PROVE UsersApart'
  BY <1>5 DEF QueuesRow, UsersApart, SubmitsMatch, ViewType
<1>6. ASSUME NEW f \in Fire, RejectsRow(f) PROVE UsersApart'
  BY <1>6 DEF RejectsRow, UsersApart, SubmitsMatch, ViewType
<1>7. ASSUME NEW f \in Fire, ClaimsRow(f) PROVE UsersApart'
  BY <1>7 DEF ClaimsRow, UsersApart, SubmitsMatch, ViewType
<1>8. ASSUME NEW f \in Fire, MovesOn(f) PROVE UsersApart'
  BY <1>8 DEF MovesOn, UsersApart, SubmitsMatch, ViewType
<1>9. ASSUME NEW f \in Fire, DropsRow(f) PROVE UsersApart'
  BY <1>9 DEF DropsRow, UsersApart, SubmitsMatch, ViewType
<1>10. ASSUME NEW f \in Fire, DefersRow(f) PROVE UsersApart'
  BY <1>10 DEF DefersRow, UsersApart, SubmitsMatch, ViewType
<1>11. ASSUME NEW f \in Fire, AbortsRow(f) PROVE UsersApart'
  BY <1>11 DEF AbortsRow, FailsRow, OwnerFails, UsersApart, SubmitsMatch, ViewType
<1>12. ASSUME NEW f \in Fire, SubmitsRow(f) PROVE UsersApart'
  BY <1>12 DEF SubmitsRow, UsersApart, SubmitsMatch, ViewType
<1>13. ASSUME NEW f \in Fire, BindsRow(f) PROVE UsersApart'
  BY <1>13 DEF BindsRow, UsersApart, SubmitsMatch, ViewType
<1>14. ASSUME NEW f \in Fire, EndsRun(f) PROVE UsersApart'
  BY <1>14 DEF EndsRun, UsersApart, SubmitsMatch, ViewType
<1>15. ASSUME NEW f \in Fire, SettlesRow(f) PROVE UsersApart'
  BY <1>15
  DEF SettlesRow, CompletesRow, FailsRow, OwnerSucceeds, OwnerFails, UsersApart, SubmitsMatch,
      ViewType
<1>16. ASSUME NEW f \in Fire, RecoversRow(f) PROVE UsersApart'
  BY <1>16
  DEF RecoversRow, CompletesRow, FailsRow, OwnerSucceeds, OwnerFails, UsersApart, SubmitsMatch,
      ViewType
<1>17. ASSUME StopsHost PROVE UsersApart'
  BY <1>17 DEF StopsHost, UsersApart, SubmitsMatch, ViewType
<1>18. ASSUME LosesHost PROVE UsersApart'
  BY <1>18 DEF LosesHost, UsersApart, SubmitsMatch, ViewType
<1>19. ASSUME TurnsHost PROVE UsersApart'
  BY <1>19 DEF TurnsHost, UsersApart, SubmitsMatch, ViewType
<1>20. ASSUME NEW s \in Session, UserTurn(s) PROVE UsersApart'
  BY <1>20 DEF UserTurn, UsersApart, SubmitsMatch, ViewType
<1>21. ASSUME Skips PROVE UsersApart'
  BY <1>21 DEF Skips, UsersApart, SubmitsMatch, ViewType
<1> QED
  BY <1>1, <1>2, <1>3, <1>4, <1>5, <1>6, <1>7, <1>8, <1>9, <1>10, <1>11,
     <1>12, <1>13, <1>14, <1>15, <1>16, <1>17, <1>18, <1>19, <1>20, <1>21 DEF ViewNext

\* No row is settled against what its run did.
LEMMA OutcomesStep ==
  ASSUME ViewType, RowsMatchMemory, SubmitsMatch, OutcomesMatch, ViewNext
  PROVE  OutcomesMatch'
<1>1. ASSUME NEW a \in Automation, EditsDef(a) PROVE OutcomesMatch'
  BY <1>1
  DEF EditsDef, OutcomesMatch, SubmitsMatch, RowsMatchMemory, ViewType, InFlight, Waiting, Away
<1>2. ASSUME NEW a \in Automation, DeletesDef(a) PROVE OutcomesMatch'
  BY <1>2
  DEF DeletesDef, OutcomesMatch, SubmitsMatch, RowsMatchMemory, ViewType, InFlight, Waiting, Away
<1>3. ASSUME NEW f \in Fire, NEW a \in Automation, AdmitsRow(f, a) PROVE OutcomesMatch'
  BY <1>3
  DEF AdmitsRow, OutcomesMatch, SubmitsMatch, RowsMatchMemory, ViewType, InFlight, Waiting, Away
<1>4. ASSUME NEW f \in Fire, RequeuesRow(f) PROVE OutcomesMatch'
  BY <1>4
  DEF RequeuesRow, OutcomesMatch, SubmitsMatch, RowsMatchMemory, ViewType, InFlight, Waiting, Away
<1>5. ASSUME NEW f \in Fire, QueuesRow(f) PROVE OutcomesMatch'
  BY <1>5
  DEF QueuesRow, OutcomesMatch, SubmitsMatch, RowsMatchMemory, ViewType, InFlight, Waiting, Away
<1>6. ASSUME NEW f \in Fire, RejectsRow(f) PROVE OutcomesMatch'
  BY <1>6
  DEF RejectsRow, OutcomesMatch, SubmitsMatch, RowsMatchMemory, ViewType, InFlight, Waiting, Away
<1>7. ASSUME NEW f \in Fire, ClaimsRow(f) PROVE OutcomesMatch'
  BY <1>7
  DEF ClaimsRow, OutcomesMatch, SubmitsMatch, RowsMatchMemory, ViewType, InFlight, Waiting, Away
<1>8. ASSUME NEW f \in Fire, MovesOn(f) PROVE OutcomesMatch'
  BY <1>8
  DEF MovesOn, OutcomesMatch, SubmitsMatch, RowsMatchMemory, ViewType, InFlight, Waiting, Away
<1>9. ASSUME NEW f \in Fire, DropsRow(f) PROVE OutcomesMatch'
  BY <1>9
  DEF DropsRow, OutcomesMatch, SubmitsMatch, RowsMatchMemory, ViewType, InFlight, Waiting, Away
<1>10. ASSUME NEW f \in Fire, DefersRow(f) PROVE OutcomesMatch'
  BY <1>10
  DEF DefersRow, OutcomesMatch, SubmitsMatch, RowsMatchMemory, ViewType, InFlight, Waiting, Away
<1>11. ASSUME NEW f \in Fire, AbortsRow(f) PROVE OutcomesMatch'
  BY <1>11
  DEF AbortsRow, FailsRow, OwnerFails, OutcomesMatch, SubmitsMatch, RowsMatchMemory, ViewType,
      InFlight, Waiting, Away
<1>12. ASSUME NEW f \in Fire, SubmitsRow(f) PROVE OutcomesMatch'
  BY <1>12
  DEF SubmitsRow, OutcomesMatch, SubmitsMatch, RowsMatchMemory, ViewType, InFlight, Waiting, Away
<1>13. ASSUME NEW f \in Fire, BindsRow(f) PROVE OutcomesMatch'
  BY <1>13
  DEF BindsRow, OutcomesMatch, SubmitsMatch, RowsMatchMemory, ViewType, InFlight, Waiting, Away
<1>14. ASSUME NEW f \in Fire, EndsRun(f) PROVE OutcomesMatch'
  BY <1>14
  DEF EndsRun, OutcomesMatch, SubmitsMatch, RowsMatchMemory, ViewType, InFlight, Waiting, Away
<1>15. ASSUME NEW f \in Fire, SettlesRow(f) PROVE OutcomesMatch'
  BY <1>15
  DEF SettlesRow, CompletesRow, FailsRow, OwnerSucceeds, OwnerFails, OutcomesMatch, SubmitsMatch,
      RowsMatchMemory, ViewType, InFlight, Waiting, Away
<1>16. ASSUME NEW f \in Fire, RecoversRow(f) PROVE OutcomesMatch'
  BY <1>16
  DEF RecoversRow, CompletesRow, FailsRow, OwnerSucceeds, OwnerFails, OutcomesMatch, SubmitsMatch,
      RowsMatchMemory, ViewType, InFlight, Waiting, Away
<1>17. ASSUME StopsHost PROVE OutcomesMatch'
  BY <1>17
  DEF StopsHost, OutcomesMatch, SubmitsMatch, RowsMatchMemory, ViewType, InFlight, Waiting, Away
<1>18. ASSUME LosesHost PROVE OutcomesMatch'
  BY <1>18
  DEF LosesHost, OutcomesMatch, SubmitsMatch, RowsMatchMemory, ViewType, InFlight, Waiting, Away
<1>19. ASSUME TurnsHost PROVE OutcomesMatch'
  BY <1>19
  DEF TurnsHost, OutcomesMatch, SubmitsMatch, RowsMatchMemory, ViewType, InFlight, Waiting, Away
<1>20. ASSUME NEW s \in Session, UserTurn(s) PROVE OutcomesMatch'
  BY <1>20
  DEF UserTurn, OutcomesMatch, SubmitsMatch, RowsMatchMemory, ViewType, InFlight, Waiting, Away
<1>21. ASSUME Skips PROVE OutcomesMatch'
  BY <1>21
  DEF Skips, OutcomesMatch, SubmitsMatch, RowsMatchMemory, ViewType, InFlight, Waiting, Away
<1> QED
  BY <1>1, <1>2, <1>3, <1>4, <1>5, <1>6, <1>7, <1>8, <1>9, <1>10, <1>11,
     <1>12, <1>13, <1>14, <1>15, <1>16, <1>17, <1>18, <1>19, <1>20, <1>21 DEF ViewNext

\* No active automation is at its failure limit.
LEMMA HealthyStep ==
  ASSUME ViewType, RowsOwned, Healthy, ViewNext
  PROVE  Healthy'
<1>1. ASSUME NEW a \in Automation, EditsDef(a) PROVE Healthy'
  <2>1. PICK s \in {"active", "paused", "expired", "completed"} : DefState' = [DefState EXCEPT ![a] = s]
    BY <1>1 DEF EditsDef
  <2>2. DefFailures' = [DefFailures EXCEPT ![a] = 0] \/ (s # "active" /\ DefFailures' = DefFailures)
    BY <1>1, <2>1 DEF EditsDef, ViewType
  <2> QED
    BY <2>1, <2>2, AutomationAssumption DEF Healthy, ViewType
<1>2. ASSUME NEW a \in Automation, DeletesDef(a) PROVE Healthy'
  BY <1>2 DEF DeletesDef, Healthy, RowsOwned, ViewType
<1>3. ASSUME NEW f \in Fire, NEW a \in Automation, AdmitsRow(f, a) PROVE Healthy'
  BY <1>3 DEF AdmitsRow, Healthy, RowsOwned, ViewType
<1>4. ASSUME NEW f \in Fire, RequeuesRow(f) PROVE Healthy'
  BY <1>4 DEF RequeuesRow, Healthy, RowsOwned, ViewType
<1>5. ASSUME NEW f \in Fire, QueuesRow(f) PROVE Healthy'
  BY <1>5 DEF QueuesRow, Healthy, RowsOwned, ViewType
<1>6. ASSUME NEW f \in Fire, RejectsRow(f) PROVE Healthy'
  BY <1>6 DEF RejectsRow, Healthy, RowsOwned, ViewType
<1>7. ASSUME NEW f \in Fire, ClaimsRow(f) PROVE Healthy'
  BY <1>7 DEF ClaimsRow, Healthy, RowsOwned, ViewType
<1>8. ASSUME NEW f \in Fire, MovesOn(f) PROVE Healthy'
  BY <1>8 DEF MovesOn, Healthy, RowsOwned, ViewType
<1>9. ASSUME NEW f \in Fire, DropsRow(f) PROVE Healthy'
  BY <1>9 DEF DropsRow, Healthy, RowsOwned, ViewType
<1>10. ASSUME NEW f \in Fire, DefersRow(f) PROVE Healthy'
  BY <1>10 DEF DefersRow, Healthy, RowsOwned, ViewType
<1>11. ASSUME NEW f \in Fire, AbortsRow(f) PROVE Healthy'
  <2>1. ASSUME NEW a \in Automation, OwnerFails(a) PROVE Healthy'
    BY <2>1, AutomationAssumption DEF OwnerFails, Healthy, ViewType
  <2> QED
    BY <1>11, <2>1 DEF AbortsRow, FailsRow, RowsOwned
<1>12. ASSUME NEW f \in Fire, SubmitsRow(f) PROVE Healthy'
  BY <1>12 DEF SubmitsRow, Healthy, RowsOwned, ViewType
<1>13. ASSUME NEW f \in Fire, BindsRow(f) PROVE Healthy'
  BY <1>13 DEF BindsRow, Healthy, RowsOwned, ViewType
<1>14. ASSUME NEW f \in Fire, EndsRun(f) PROVE Healthy'
  BY <1>14 DEF EndsRun, Healthy, RowsOwned, ViewType
<1>15. ASSUME NEW f \in Fire, SettlesRow(f) PROVE Healthy'
  <2>1. ASSUME NEW a \in Automation, OwnerFails(a) PROVE Healthy'
    BY <2>1, AutomationAssumption DEF OwnerFails, Healthy, ViewType
  <2>2. ASSUME NEW a \in Automation, OwnerSucceeds(a) PROVE Healthy'
    BY <2>2, AutomationAssumption DEF OwnerSucceeds, Healthy, ViewType
  <2> QED
    BY <1>15, <2>1, <2>2 DEF SettlesRow, FailsRow, CompletesRow, RowsOwned, Healthy
<1>16. ASSUME NEW f \in Fire, RecoversRow(f) PROVE Healthy'
  <2>1. ASSUME NEW a \in Automation, OwnerFails(a) PROVE Healthy'
    BY <2>1, AutomationAssumption DEF OwnerFails, Healthy, ViewType
  <2>2. ASSUME NEW a \in Automation, OwnerSucceeds(a) PROVE Healthy'
    BY <2>2, AutomationAssumption DEF OwnerSucceeds, Healthy, ViewType
  <2> QED
    BY <1>16, <2>1, <2>2 DEF RecoversRow, FailsRow, CompletesRow, RowsOwned, Healthy
<1>17. ASSUME StopsHost PROVE Healthy'
  BY <1>17 DEF StopsHost, Healthy, RowsOwned, ViewType
<1>18. ASSUME LosesHost PROVE Healthy'
  BY <1>18 DEF LosesHost, Healthy, RowsOwned, ViewType
<1>19. ASSUME TurnsHost PROVE Healthy'
  BY <1>19 DEF TurnsHost, Healthy, RowsOwned, ViewType
<1>20. ASSUME NEW s \in Session, UserTurn(s) PROVE Healthy'
  BY <1>20 DEF UserTurn, Healthy, RowsOwned, ViewType
<1>21. ASSUME Skips PROVE Healthy'
  BY <1>21 DEF Skips, Healthy, RowsOwned, ViewType
<1> QED
  BY <1>1, <1>2, <1>3, <1>4, <1>5, <1>6, <1>7, <1>8, <1>9, <1>10, <1>11,
     <1>12, <1>13, <1>14, <1>15, <1>16, <1>17, <1>18, <1>19, <1>20, <1>21 DEF ViewNext

\* The completed rows of an automation can be counted.
LEMMA CompletedFinite == \A a : IsFiniteSet(CompletedRows(a))
<1>1. IsFiniteSet(Fire)
  BY AutomationAssumption, FS_Interval DEF Fire
<1> QED
  BY <1>1, FS_Subset DEF CompletedRows

\* A step that completes no row and no count keeps the counts.
LEMMA SameCounts ==
  ASSUME ViewType, CountsMatch, DefCount' = DefCount,
         \A a \in Automation : CompletedRows(a)' = CompletedRows(a),
         \A f \in Fire : RowStatus'[f] = "running" =>
           \/ RowStatus[f] = "running" /\ RowOwner'[f] = RowOwner[f]
           \/ HasBudget(RowOwner'[f])
  PROVE  CountsMatch'
BY DEF CountsMatch, HasBudget

\* Completing the one running row of an automation counts it.
LEMMA CompletionCounts ==
  ASSUME ViewType, RowsOwned, AttemptsExclusive, CountsMatch,
         NEW f \in Fire, RowStatus[f] = "running", CompletesRow(f)
  PROVE  CountsMatch'
<1>0. PICK o \in Automation : RowOwner[f] = o
  BY DEF RowsOwned
<1>1. o \in Automation /\ DefCount[o] \in Nat /\ MaxFires[o] \in Nat
  BY AutomationAssumption DEF ViewType
<1>2. /\ RowStatus' = [RowStatus EXCEPT ![f] = "completed"] /\ RowOwner' = RowOwner
      /\ DefCount' = [DefCount EXCEPT ![o] = DefCount[o] + 1]
  BY <1>0 DEF CompletesRow, OwnerSucceeds
<1>3. CompletedRows(o)' = CompletedRows(o) \cup {f} /\ f \notin CompletedRows(o)
  BY <1>0, <1>2 DEF CompletedRows, ViewType
<1>4. Cardinality(CompletedRows(o)') = Cardinality(CompletedRows(o)) + 1
  BY <1>3, CompletedFinite, FS_AddElement
<1>5. ASSUME NEW a \in Automation, a # o
      PROVE  CompletedRows(a)' = CompletedRows(a) /\ DefCount'[a] = DefCount[a]
  BY <1>0, <1>2, <1>5 DEF CompletedRows, ViewType
<1>6. DefCount'[o] = DefCount[o] + 1
  BY <1>1, <1>2 DEF ViewType
<1>7. \A a \in Automation : DefCount'[a] = Cardinality(CompletedRows(a)')
  <2>1. /\ DefCount[o] = Cardinality(CompletedRows(o))
        /\ \A a \in Automation : DefCount[a] = Cardinality(CompletedRows(a))
    BY <1>1 DEF CountsMatch
  <2>2. DefCount'[o] = Cardinality(CompletedRows(o)')
    BY <1>4, <1>6, <2>1
  <2>3. ASSUME NEW a \in Automation, a # o PROVE DefCount'[a] = Cardinality(CompletedRows(a)')
    BY <1>5, <2>1, <2>3
  <2> QED
    BY <2>2, <2>3
<1>8. MaxFires[o] = Unlimited \/ DefCount[o] < MaxFires[o]
  BY <1>0 DEF CountsMatch, HasBudget
<1>9. \A a \in Automation : MaxFires[a] # Unlimited => DefCount'[a] <= MaxFires[a]
  BY <1>1, <1>5, <1>6, <1>8 DEF CountsMatch
<1>10. ASSUME NEW g \in Fire, RowStatus'[g] = "running"
       PROVE  MaxFires[RowOwner'[g]] = Unlimited \/ DefCount'[RowOwner'[g]] < MaxFires[RowOwner'[g]]
  <2>1. g # f /\ RowStatus[g] = "running" /\ RowOwner'[g] = RowOwner[g]
    BY <1>2, <1>10 DEF ViewType
  <2>2. RowOwner[g] # o /\ RowOwner[g] \in Automation
    BY <1>0, <2>1 DEF AttemptsExclusive, RowsOwned
  <2>3. DefCount'[RowOwner[g]] = DefCount[RowOwner[g]]
    BY <1>5, <2>2
  <2> QED
    BY <2>1, <2>3 DEF CountsMatch, HasBudget
<1> QED
  BY <1>7, <1>9, <1>10 DEF CountsMatch, HasBudget

\* A definition that is created or deleted has no completed row.
LEMMA FreshCounts ==
  ASSUME ViewType, CountsMatch, NEW a \in Automation,
         DefCount' = [DefCount EXCEPT ![a] = 0], CompletedRows(a)' = {},
         \A b \in Automation \ {a} : CompletedRows(b)' = CompletedRows(b),
         \A f \in Fire : RowStatus'[f] = "running" =>
           RowStatus[f] = "running" /\ RowOwner'[f] = RowOwner[f] /\ RowOwner[f] \in Automation \ {a}
  PROVE  CountsMatch'
<1>1. DefCount'[a] = 0 /\ \A b \in Automation \ {a} : DefCount'[b] = DefCount[b]
  BY DEF ViewType
<1>2. Cardinality(CompletedRows(a)') = 0
  BY FS_EmptySet
<1>3. \A b \in Automation : DefCount'[b] = Cardinality(CompletedRows(b)')
  BY <1>1, <1>2 DEF CountsMatch
<1>4. \A b \in Automation : MaxFires[b] # Unlimited => DefCount'[b] <= MaxFires[b]
  BY <1>1, AutomationAssumption DEF CountsMatch
<1>5. \A f \in Fire : RowStatus'[f] = "running" =>
        MaxFires[RowOwner'[f]] = Unlimited \/ DefCount'[RowOwner'[f]] < MaxFires[RowOwner'[f]]
  BY <1>1 DEF CountsMatch, HasBudget
<1> QED
  BY <1>3, <1>4, <1>5 DEF CountsMatch, HasBudget

\* The counters count.
LEMMA CountsStep ==
  ASSUME ViewType, RowsOwned, AttemptsExclusive, CountsMatch, ViewNext
  PROVE  CountsMatch'
<1>1. ASSUME NEW a \in Automation, EditsDef(a) PROVE CountsMatch'
  <2>1. \A b \in Automation : CompletedRows(b)' = CompletedRows(b)
    BY <1>1 DEF EditsDef, CompletedRows
  <2>2. RowStatus' = RowStatus /\ RowOwner' = RowOwner
    BY <1>1 DEF EditsDef
  <2>3. CASE DefCount' = DefCount
    BY <2>1, <2>2, <2>3, SameCounts
  <2>4. CASE DefState[a] = "absent" /\ DefCount' = [DefCount EXCEPT ![a] = 0]
    <3>1. CompletedRows(a) = {} /\ \A f \in Fire : RowStatus[f] = "running" => RowOwner[f] \in Automation \ {a}
      BY <2>4 DEF CompletedRows, RowsOwned
    <3> QED
      BY <2>1, <2>2, <2>4, <3>1, FreshCounts
  <2> QED
    BY <1>1, <2>3, <2>4 DEF EditsDef
<1>2. ASSUME NEW a \in Automation, DeletesDef(a) PROVE CountsMatch'
  <2>1. CompletedRows(a)' = {} /\ \A b \in Automation \ {a} : CompletedRows(b)' = CompletedRows(b)
    BY <1>2 DEF DeletesDef, CompletedRows, ViewType
  <2>2. \A f \in Fire : RowStatus'[f] = "running" =>
          RowStatus[f] = "running" /\ RowOwner'[f] = RowOwner[f] /\ RowOwner[f] \in Automation \ {a}
    BY <1>2 DEF DeletesDef, RowsOwned, ViewType
  <2> QED
    BY <1>2, <2>1, <2>2, FreshCounts DEF DeletesDef
<1>3. ASSUME NEW f \in Fire, NEW a \in Automation, AdmitsRow(f, a) PROVE CountsMatch'
  BY <1>3, SameCounts DEF AdmitsRow, CompletedRows, ViewType, Waiting
<1>4. ASSUME NEW f \in Fire, RequeuesRow(f) PROVE CountsMatch'
  BY <1>4, SameCounts DEF RequeuesRow, CompletedRows, ViewType, Waiting
<1>5. ASSUME NEW f \in Fire, QueuesRow(f) PROVE CountsMatch'
  BY <1>5, SameCounts DEF QueuesRow, CompletedRows, ViewType, Waiting
<1>6. ASSUME NEW f \in Fire, RejectsRow(f) PROVE CountsMatch'
  BY <1>6, SameCounts DEF RejectsRow, CompletedRows, ViewType, Waiting
<1>7. ASSUME NEW f \in Fire, ClaimsRow(f) PROVE CountsMatch'
  BY <1>7, SameCounts DEF ClaimsRow, CompletedRows, ViewType, Waiting
<1>8. ASSUME NEW f \in Fire, MovesOn(f) PROVE CountsMatch'
  BY <1>8, SameCounts DEF MovesOn, CompletedRows, ViewType, Waiting
<1>9. ASSUME NEW f \in Fire, DropsRow(f) PROVE CountsMatch'
  BY <1>9, SameCounts DEF DropsRow, CompletedRows, ViewType, Waiting
<1>10. ASSUME NEW f \in Fire, DefersRow(f) PROVE CountsMatch'
  BY <1>10, SameCounts DEF DefersRow, CompletedRows, ViewType, Waiting
<1>11. ASSUME NEW f \in Fire, AbortsRow(f) PROVE CountsMatch'
  BY <1>11, SameCounts DEF AbortsRow, FailsRow, OwnerFails, CompletedRows, ViewType, Waiting
<1>12. ASSUME NEW f \in Fire, SubmitsRow(f) PROVE CountsMatch'
  BY <1>12, SameCounts DEF SubmitsRow, CompletedRows, ViewType, Waiting
<1>13. ASSUME NEW f \in Fire, BindsRow(f) PROVE CountsMatch'
  BY <1>13, SameCounts DEF BindsRow, CompletedRows, ViewType, Waiting
<1>14. ASSUME NEW f \in Fire, EndsRun(f) PROVE CountsMatch'
  BY <1>14, SameCounts DEF EndsRun, CompletedRows, ViewType, Waiting
<1>15. ASSUME NEW f \in Fire, SettlesRow(f) PROVE CountsMatch'
  <2>1. ASSUME RowStatus[f] = "running", FailsRow(f) PROVE CountsMatch'
    BY <2>1, SameCounts DEF FailsRow, OwnerFails, CompletedRows, ViewType
  <2>2. ASSUME UNCHANGED <<RowOwner, defs>>,
               RowStatus' = RowStatus \/ RowStatus' = [RowStatus EXCEPT ![f] = "needs_approval"],
               RowStatus' = RowStatus \/ RowStatus[f] = "running"
        PROVE  CountsMatch'
    BY <2>2, SameCounts DEF CompletedRows, ViewType
  <2> QED
    BY <1>15, <2>1, <2>2, CompletionCounts DEF SettlesRow
<1>16. ASSUME NEW f \in Fire, RecoversRow(f) PROVE CountsMatch'
  <2>1. ASSUME RowStatus[f] = "running", FailsRow(f) PROVE CountsMatch'
    BY <2>1, SameCounts DEF FailsRow, OwnerFails, CompletedRows, ViewType
  <2>2. ASSUME UNCHANGED <<RowOwner, defs>>,
               RowStatus' = RowStatus \/ RowStatus' = [RowStatus EXCEPT ![f] = "needs_approval"],
               RowStatus' = RowStatus \/ RowStatus[f] = "running"
        PROVE  CountsMatch'
    BY <2>2, SameCounts DEF CompletedRows, ViewType
  <2> QED
    BY <1>16, <2>1, <2>2, CompletionCounts DEF RecoversRow
<1>17. ASSUME StopsHost PROVE CountsMatch'
  BY <1>17, SameCounts DEF StopsHost, CompletedRows, ViewType, Waiting
<1>18. ASSUME LosesHost PROVE CountsMatch'
  BY <1>18, SameCounts DEF LosesHost, CompletedRows, ViewType, Waiting
<1>19. ASSUME TurnsHost PROVE CountsMatch'
  BY <1>19, SameCounts DEF TurnsHost, CompletedRows, ViewType, Waiting
<1>20. ASSUME NEW s \in Session, UserTurn(s) PROVE CountsMatch'
  BY <1>20, SameCounts DEF UserTurn, CompletedRows, ViewType, Waiting
<1>21. ASSUME Skips PROVE CountsMatch'
  BY <1>21, SameCounts DEF Skips, CompletedRows, ViewType, Waiting
<1> QED
  BY <1>1, <1>2, <1>3, <1>4, <1>5, <1>6, <1>7, <1>8, <1>9, <1>10, <1>11,
     <1>12, <1>13, <1>14, <1>15, <1>16, <1>17, <1>18, <1>19, <1>20, <1>21 DEF ViewNext

\* A row of the table stays in it.
RowStays(f) == RowStatus[f] # "none" => RowStatus'[f] # "none"

\* A row that exists stays in the table, as a deleted one if need be.
LEMMA RowsStay ==
  ASSUME ViewType, ViewNext
  PROVE  \A g \in Fire : RowStays(g)
<1>1. ASSUME NEW a \in Automation, EditsDef(a) PROVE \A g \in Fire : RowStays(g)
  BY <1>1 DEF EditsDef, RowStays, ViewType, Waiting
<1>2. ASSUME NEW a \in Automation, DeletesDef(a) PROVE \A g \in Fire : RowStays(g)
  BY <1>2 DEF DeletesDef, RowStays, ViewType, Waiting
<1>3. ASSUME NEW f \in Fire, NEW a \in Automation, AdmitsRow(f, a) PROVE \A g \in Fire : RowStays(g)
  BY <1>3 DEF AdmitsRow, RowStays, ViewType, Waiting
<1>4. ASSUME NEW f \in Fire, RequeuesRow(f) PROVE \A g \in Fire : RowStays(g)
  BY <1>4 DEF RequeuesRow, RowStays, ViewType, Waiting
<1>5. ASSUME NEW f \in Fire, QueuesRow(f) PROVE \A g \in Fire : RowStays(g)
  BY <1>5 DEF QueuesRow, RowStays, ViewType, Waiting
<1>6. ASSUME NEW f \in Fire, RejectsRow(f) PROVE \A g \in Fire : RowStays(g)
  BY <1>6 DEF RejectsRow, RowStays, ViewType, Waiting
<1>7. ASSUME NEW f \in Fire, ClaimsRow(f) PROVE \A g \in Fire : RowStays(g)
  BY <1>7 DEF ClaimsRow, RowStays, ViewType, Waiting
<1>8. ASSUME NEW f \in Fire, MovesOn(f) PROVE \A g \in Fire : RowStays(g)
  BY <1>8 DEF MovesOn, RowStays, ViewType, Waiting
<1>9. ASSUME NEW f \in Fire, DropsRow(f) PROVE \A g \in Fire : RowStays(g)
  BY <1>9 DEF DropsRow, RowStays, ViewType, Waiting
<1>10. ASSUME NEW f \in Fire, DefersRow(f) PROVE \A g \in Fire : RowStays(g)
  BY <1>10 DEF DefersRow, RowStays, ViewType, Waiting
<1>11. ASSUME NEW f \in Fire, AbortsRow(f) PROVE \A g \in Fire : RowStays(g)
  BY <1>11 DEF AbortsRow, FailsRow, OwnerFails, RowStays, ViewType, Waiting
<1>12. ASSUME NEW f \in Fire, SubmitsRow(f) PROVE \A g \in Fire : RowStays(g)
  BY <1>12 DEF SubmitsRow, RowStays, ViewType, Waiting
<1>13. ASSUME NEW f \in Fire, BindsRow(f) PROVE \A g \in Fire : RowStays(g)
  BY <1>13 DEF BindsRow, RowStays, ViewType, Waiting
<1>14. ASSUME NEW f \in Fire, EndsRun(f) PROVE \A g \in Fire : RowStays(g)
  BY <1>14 DEF EndsRun, RowStays, ViewType, Waiting
<1>15. ASSUME NEW f \in Fire, SettlesRow(f) PROVE \A g \in Fire : RowStays(g)
  BY <1>15
  DEF SettlesRow, CompletesRow, FailsRow, OwnerSucceeds, OwnerFails, RowStays, ViewType, Waiting
<1>16. ASSUME NEW f \in Fire, RecoversRow(f) PROVE \A g \in Fire : RowStays(g)
  BY <1>16
  DEF RecoversRow, CompletesRow, FailsRow, OwnerSucceeds, OwnerFails, RowStays, ViewType, Waiting
<1>17. ASSUME StopsHost PROVE \A g \in Fire : RowStays(g)
  BY <1>17 DEF StopsHost, RowStays, ViewType, Waiting
<1>18. ASSUME LosesHost PROVE \A g \in Fire : RowStays(g)
  BY <1>18 DEF LosesHost, RowStays, ViewType, Waiting
<1>19. ASSUME TurnsHost PROVE \A g \in Fire : RowStays(g)
  BY <1>19 DEF TurnsHost, RowStays, ViewType, Waiting
<1>20. ASSUME NEW s \in Session, UserTurn(s) PROVE \A g \in Fire : RowStays(g)
  BY <1>20 DEF UserTurn, RowStays, ViewType, Waiting
<1>21. ASSUME Skips PROVE \A g \in Fire : RowStays(g)
  BY <1>21 DEF Skips, RowStays, ViewType, Waiting
<1> QED
  BY <1>1, <1>2, <1>3, <1>4, <1>5, <1>6, <1>7, <1>8, <1>9, <1>10, <1>11,
     <1>12, <1>13, <1>14, <1>15, <1>16, <1>17, <1>18, <1>19, <1>20, <1>21 DEF ViewNext

\* Removing an entry keeps the others in their order, and only them.
LEMMA RemoveAtEntries ==
  ASSUME NEW S, NEW s \in Seq(S), NEW i \in DOMAIN s
  PROVE  /\ DOMAIN RemoveAt(s, i) = 1..(Len(s) - 1)
         /\ \A j \in 1..(Len(s) - 1) : RemoveAt(s, i)[j] = IF j < i THEN s[j] ELSE s[j + 1]
<1>1. Len(s) \in Nat /\ i \in 1..Len(s)
  BY LenProperties
<1> DEFINE before == SubSeq(s, 1, i - 1)
           after == SubSeq(s, i + 1, Len(s))
<1>2. /\ before \in Seq(S) /\ Len(before) = i - 1
      /\ \A j \in 1..(i - 1) : before[j] = s[j]
  BY <1>1, SubSeqProperties
<1>3. /\ after \in Seq(S) /\ Len(after) = Len(s) - i
      /\ \A j \in 1..(Len(s) - i) : after[j] = s[i + j]
  BY <1>1, SubSeqProperties
<1> HIDE DEF before, after
<1>4. /\ Len(before \o after) = Len(s) - 1 /\ before \o after \in Seq(S)
      /\ \A j \in 1..(Len(s) - 1) :
           (before \o after)[j] = IF j <= i - 1 THEN before[j] ELSE after[j - (i - 1)]
  <2>1. before \o after \in Seq(S) /\ Len(before \o after) = Len(before) + Len(after)
    BY <1>2, <1>3, ConcatProperties
  <2>2. \A j \in 1..(Len(before) + Len(after)) :
          (before \o after)[j] = IF j <= Len(before) THEN before[j] ELSE after[j - Len(before)]
    BY <1>2, <1>3, ConcatProperties
  <2>3. Len(before) = i - 1 /\ Len(before) + Len(after) = Len(s) - 1
    BY <1>1, <1>2, <1>3
  <2> QED
    BY <2>1, <2>2, <2>3
<1>5. \A j \in 1..(Len(s) - 1) : (before \o after)[j] = IF j < i THEN s[j] ELSE s[j + 1]
  <2> TAKE j \in 1..(Len(s) - 1)
  <2>1. CASE j < i
    BY <1>1, <1>2, <1>4, <2>1
  <2>2. CASE ~(j < i)
    <3>1. j - (i - 1) \in 1..(Len(s) - i) /\ i + (j - (i - 1)) = j + 1
      BY <1>1, <2>2
    <3>2. ~(j <= i - 1) /\ j \in Nat
      BY <1>1, <2>2
    <3>3. (before \o after)[j] = after[j - (i - 1)]
      BY <1>4, <3>2
    <3>4. after[j - (i - 1)] = s[i + (j - (i - 1))]
      BY <1>3, <3>1
    <3> QED
      BY <2>2, <3>1, <3>3, <3>4
  <2> QED
    BY <2>1, <2>2
<1>6. RemoveAt(s, i) = before \o after
  BY DEF RemoveAt, before, after
<1> QED
  BY <1>1, <1>4, <1>5, <1>6, LenProperties

\* Queueing an idle fire keeps the queue free of duplicates.
LEMMA EnqueueKeeps ==
  ASSUME TypeOK, QueueMatchesMemory, NEW f \in Fire, pc[f] = "idle", Enqueue(f)
  PROVE  /\ \A i \in DOMAIN queue' : pc'[queue'[i]] = "queued"
         /\ \A i, j \in DOMAIN queue' : queue'[i] = queue'[j] => i = j
<1>1. /\ queue \in Seq(Fire) /\ Len(queue) \in Nat /\ DOMAIN queue = 1..Len(queue)
      /\ pc \in [Fire -> Place]
  BY LenProperties DEF TypeOK
<1>2. /\ queue' \in Seq(Fire) /\ Len(queue') = Len(queue) + 1
      /\ \A i \in 1..Len(queue) : queue'[i] = queue[i]
      /\ queue'[Len(queue) + 1] = f
  BY <1>1, AppendProperties DEF Enqueue
<1>3. \A i \in DOMAIN queue' : i \in DOMAIN queue \/ i = Len(queue) + 1
  BY <1>1, <1>2, LenProperties
<1>4. \A i \in DOMAIN queue : queue[i] \in Fire /\ pc[queue[i]] = "queued" /\ queue[i] # f
  BY <1>1, ElementOfSeq DEF QueueMatchesMemory
<1>5. \A i \in DOMAIN queue : queue'[i] = queue[i] /\ pc'[queue[i]] = "queued"
  BY <1>1, <1>2, <1>4 DEF Enqueue
<1>6. pc'[f] = "queued"
  BY <1>1 DEF Enqueue
<1>7. \A i \in DOMAIN queue' : pc'[queue'[i]] = "queued"
  BY <1>2, <1>3, <1>5, <1>6
<1>8. ASSUME NEW i \in DOMAIN queue', NEW j \in DOMAIN queue', queue'[i] = queue'[j]
      PROVE  i = j
  BY <1>2, <1>3, <1>4, <1>5, <1>8 DEF QueueMatchesMemory
<1> QED
  BY <1>7, <1>8

\* The queue, a discovery and the places of fires stay in agreement.
LEMMA QueueStep ==
  ASSUME TypeOK, RowsOwned, RowsMatchMemory, QueueMatchesMemory, ViewNext, [Next]_vars
  PROVE  QueueMatchesMemory'
<1>1. \A f \in Fire : RowStatus[f] # "none" => RowStatus'[f] # "none"
  BY RowsStay, ViewTyped DEF RowStays
<1>2. /\ \A i \in DOMAIN queue : queue[i] \in Fire
      /\ \A i \in DOMAIN poll.found : poll.found[i] \in Fire
      /\ pc \in [Fire -> Place]
  BY ElementOfSeq, LenProperties DEF TypeOK, PollState
<1>3. ASSUME queue' = queue, \A f \in Fire : pc[f] = "queued" => pc'[f] = "queued"
      PROVE  /\ \A i \in DOMAIN queue' : pc'[queue'[i]] = "queued"
             /\ \A i, j \in DOMAIN queue' : queue'[i] = queue'[j] => i = j
  BY <1>2, <1>3 DEF QueueMatchesMemory
<1>4. ASSUME poll'.found = poll.found PROVE \A i \in DOMAIN poll'.found : RowStatus'[poll'.found[i]] # "none"
  BY <1>1, <1>2, <1>4 DEF QueueMatchesMemory
<1>5. ASSUME NEW f \in Fire, RowStatus'[f] # "none", poll'.found = Append(poll.found, f)
      PROVE  \A i \in DOMAIN poll'.found : RowStatus'[poll'.found[i]] # "none"
  <2>1. /\ poll.found \in Seq(Fire) /\ Len(poll.found) \in Nat
        /\ DOMAIN poll.found = 1..Len(poll.found)
    BY LenProperties DEF TypeOK, PollState
  <2>2. /\ DOMAIN poll'.found = 1..(Len(poll.found) + 1)
        /\ \A i \in 1..Len(poll.found) : poll'.found[i] = poll.found[i]
        /\ poll'.found[Len(poll.found) + 1] = f
    BY <1>5, <2>1, AppendProperties, LenProperties
  <2>3. \A i \in DOMAIN poll.found : RowStatus'[poll.found[i]] # "none"
    BY <1>1, <1>2 DEF QueueMatchesMemory
  <2> QED
    BY <1>5, <2>1, <2>2, <2>3
<1>6. ASSUME queue' = queue, poll' = poll, host' = host \/ poll.phase = "off",
             \A f \in Fire : pc[f] = "queued" => pc'[f] = "queued"
      PROVE  QueueMatchesMemory'
  BY <1>3, <1>4, <1>6 DEF QueueMatchesMemory
<1>7. CASE UNCHANGED vars \/ Tick
  BY <1>6, <1>7 DEF vars, Tick
<1>8. ASSUME NEW a \in Automation, Create(a) \/ Pause(a) \/ Resume(a) \/ Delete(a) \/ PollExpire(a)
      PROVE  QueueMatchesMemory'
  BY <1>6, <1>8 DEF Create, Pause, Resume, Delete, PollExpire
<1>9. ASSUME NEW a \in Automation, RunNow(a) PROVE QueueMatchesMemory'
  <2>1. PICK f \in Fire : Fresh(f) /\ Enqueue(f)
    BY <1>9 DEF RunNow
  <2>2. pc[f] = "idle"
    BY <2>1, Columns DEF Fresh, RowsOwned
  <2> QED
    BY <1>4, <1>9, <2>1, <2>2, EnqueueKeeps DEF RunNow, Quiet, QueueMatchesMemory
<1>10. ASSUME PollStart PROVE QueueMatchesMemory'
  <2>1. poll'.found = <<>>
    BY <1>10 DEF PollStart, NoPoll
  <2> QED
    BY <1>3, <1>10, <2>1 DEF PollStart, QueueMatchesMemory
<1>11. ASSUME PollPhase PROVE QueueMatchesMemory'
  <2>1. poll'.found = <<>> \/ poll'.found = poll.found
    BY <1>11 DEF PollPhase, NoPoll, TypeOK, PollState
  <2> QED
    <3>1. \A i \in DOMAIN poll'.found : RowStatus'[poll'.found[i]] # "none"
      BY <1>4, <2>1
    <3>2. host' = host /\ (poll'.phase # "off" => poll.phase # "off")
      BY <1>11 DEF PollPhase
    <3> QED
      BY <1>3, <1>11, <3>1, <3>2 DEF PollPhase, QueueMatchesMemory
<1>12. ASSUME PollEnqueue PROVE QueueMatchesMemory'
  <2>1. poll.found \in Seq(Fire) /\ poll.found # <<>> /\ Head(poll.found) \in Fire
    BY <1>12, HeadTailProperties DEF PollEnqueue, TypeOK, PollState
  <2>2. poll' = [poll EXCEPT !.found = Tail(poll.found)]
    BY <1>12 DEF PollEnqueue
  <2>3. poll'.found = Tail(poll.found) /\ poll'.phase = poll.phase
    BY <2>2 DEF TypeOK, PollState
  <2>4. \A i \in DOMAIN poll'.found : RowStatus'[poll'.found[i]] # "none"
    <3>1. \A i \in DOMAIN Tail(poll.found) :
            i + 1 \in DOMAIN poll.found /\ Tail(poll.found)[i] = poll.found[i + 1]
      BY <2>1, HeadTailProperties, LenProperties
    <3> QED
      BY <1>1, <1>2, <2>3, <3>1 DEF QueueMatchesMemory
  <2>5. /\ \A i \in DOMAIN queue' : pc'[queue'[i]] = "queued"
        /\ \A i, j \in DOMAIN queue' : queue'[i] = queue'[j] => i = j
    BY <1>3, <1>12, <2>1, EnqueueKeeps DEF PollEnqueue
  <2> QED
    BY <1>12, <2>3, <2>4, <2>5 DEF PollEnqueue, QueueMatchesMemory
<1>13. ASSUME NEW f \in Fire, PollRecover(f) PROVE QueueMatchesMemory'
  <2>1. RowStatus[f] # "none" /\ poll.phase = "recover"
    BY <1>13, Columns DEF PollRecover, Recoverable
  <2>2. poll'.found = Append(poll.found, f) /\ poll'.phase = poll.phase
    BY <1>13 DEF PollRecover, TypeOK, PollState
  <2> QED
    BY <1>1, <1>3, <1>5, <1>13, <2>1, <2>2 DEF PollRecover, QueueMatchesMemory
<1>14. ASSUME NEW a \in Automation, PollDue(a) PROVE QueueMatchesMemory'
  <2>1. /\ \A i \in DOMAIN queue' : pc'[queue'[i]] = "queued"
        /\ \A i, j \in DOMAIN queue' : queue'[i] = queue'[j] => i = j
    BY <1>3, <1>14 DEF PollDue
  <2>2. ASSUME NEW s, Retire(a, s) PROVE poll'.found = poll.found /\ poll'.phase = poll.phase
    BY <2>2 DEF Retire, TypeOK, PollState
  <2>3. ASSUME ProduceFire(a)
        PROVE  /\ \A i \in DOMAIN poll'.found : RowStatus'[poll'.found[i]] # "none"
               /\ poll'.phase = poll.phase
    <3>1. PICK f \in Fire :
            /\ f \in RowsAt(a, def[a].next) \/ fire' = [fire EXCEPT ![f] = PendingFire(a, def[a].next)]
            /\ poll' = [poll EXCEPT !.left = @ - 1, !.found = Append(@, f)]
      BY <2>3 DEF ProduceFire
    <3>2. poll'.found = Append(poll.found, f) /\ poll'.phase = poll.phase
      BY <3>1 DEF TypeOK, PollState
    <3>3. RowStatus'[f] # "none"
      <4>1. CASE f \in RowsAt(a, def[a].next)
        BY <1>1, <4>1, Columns, AutomationAssumption DEF RowsAt, RowsOwned
      <4>2. CASE fire' = [fire EXCEPT ![f] = PendingFire(a, def[a].next)]
        BY <4>2, AdmitView, RowViews
      <4> QED
        BY <3>1, <4>1, <4>2
    <3> QED
      BY <1>5, <3>2, <3>3
  <2>4. /\ \A i \in DOMAIN poll'.found : RowStatus'[poll'.found[i]] # "none"
        /\ poll'.phase = poll.phase
    BY <1>4, <1>14, <2>2, <2>3 DEF PollDue
  <2> QED
    BY <1>14, <2>1, <2>4 DEF PollDue, QueueMatchesMemory
<1>15. ASSUME Dispatch PROVE QueueMatchesMemory'
  <2>1. PICK i \in DOMAIN queue :
          /\ queue' = RemoveAt(queue, i)
          /\ \E p \in Place : pc' = [pc EXCEPT ![queue[i]] = p]
    BY <1>15 DEF Dispatch, Place
  <2>2. /\ Len(queue) \in Nat /\ DOMAIN queue = 1..Len(queue)
        /\ DOMAIN queue' = 1..(Len(queue) - 1)
        /\ \A j \in 1..(Len(queue) - 1) : queue'[j] = IF j < i THEN queue[j] ELSE queue[j + 1]
    <3>1. queue \in Seq(Fire)
      BY DEF TypeOK
    <3>2. Len(queue) \in Nat /\ DOMAIN queue = 1..Len(queue)
      BY <3>1, LenProperties
    <3> QED
      BY <2>1, <3>1, <3>2, RemoveAtEntries
  <2>3. \A j \in DOMAIN queue' : \E k \in DOMAIN queue :
          k = (IF j < i THEN j ELSE j + 1) /\ k # i /\ queue'[j] = queue[k]
    BY <2>1, <2>2
  <2>4. \A k \in DOMAIN queue : k # i => pc'[queue[k]] = "queued"
    BY <1>2, <2>1 DEF QueueMatchesMemory
  <2>5. \A j \in DOMAIN queue' : pc'[queue'[j]] = "queued"
    BY <2>3, <2>4
  <2>6. \A j, k \in DOMAIN queue' : queue'[j] = queue'[k] => j = k
    BY <2>1, <2>2, <2>3 DEF QueueMatchesMemory
  <2> QED
    BY <1>4, <1>15, <2>5, <2>6 DEF Dispatch, QueueMatchesMemory
<1>16. ASSUME NEW f \in Fire, pc[f] # "queued", pc' = [pc EXCEPT ![f] = pc'[f]], queue' = queue,
              poll' = poll, host' = host
       PROVE  QueueMatchesMemory'
  BY <1>2, <1>6, <1>16
<1>17. ASSUME NEW f \in Fire, Attempt(f) PROVE QueueMatchesMemory'
  <2>1. AtSubmission(f) => pc[f] # "queued"
    BY SubmissionPlace
  <2>2. ASSUME Release(f) PROVE pc' = [pc EXCEPT ![f] = pc'[f]] /\ queue' = queue /\ poll' = poll
    BY <1>2, <2>2 DEF Release
  <2>3. CASE AdmitBusy(f) \/ ClaimLost(f) \/ DeferUnsubmitted(f) \/ PrepareFails(f)
    BY <1>16, <2>1, <2>2, <2>3 DEF AdmitBusy, ClaimLost, DeferUnsubmitted, PrepareFails
  <2>4. CASE Prepare(f) \/ Submit(f) \/ Bind(f)
    BY <1>2, <1>16, <2>1, <2>4 DEF Prepare, Submit, Bind
  <2> QED
    BY <1>17, <2>3, <2>4 DEF Attempt
<1>18. ASSUME NEW f \in Fire, Outcome(f) \/ RecoverFire(f) PROVE QueueMatchesMemory'
  <2>1. CASE RunTimesOut(f)
    BY <1>2, <1>16, <2>1 DEF RunTimesOut
  <2>2. CASE Settle(f)
    BY <1>2, <1>16, <2>2 DEF Settle, Release
  <2>3. ASSUME NEW o, RunEnds(f, o) PROVE QueueMatchesMemory'
    BY <1>6, <2>3 DEF RunEnds
  <2>4. CASE RecoverFire(f)
    BY <1>6, <2>4 DEF RecoverFire
  <2> QED
    BY <1>18, <2>1, <2>2, <2>3, <2>4 DEF Outcome
<1>19. ASSUME Stop \/ Crash PROVE QueueMatchesMemory'
  <2>1. queue' = <<>>
    BY <1>19 DEF Stop, Crash
  <2>2. (poll' = poll /\ poll.phase = "off") \/ poll' = NoPoll
    BY <1>19 DEF Stop, Crash, Quiet
  <2>3. \A i \in DOMAIN poll'.found : RowStatus'[poll'.found[i]] # "none"
    BY <1>4, <2>2 DEF NoPoll
  <2> QED
    BY <2>1, <2>2, <2>3 DEF QueueMatchesMemory, NoPoll
<1>20. ASSUME Start \/ RecoveryDone PROVE QueueMatchesMemory'
  BY <1>6, <1>20 DEF Start, RecoveryDone, QueueMatchesMemory
<1>21. ASSUME NEW s \in Session, UserRunStarts(s) \/ UserRunEnds(s) PROVE QueueMatchesMemory'
  BY <1>6, <1>21 DEF UserRunStarts, UserRunEnds
<1> QED
  BY <1>7, <1>8, <1>9, <1>10, <1>11, <1>12, <1>13, <1>14, <1>15, <1>17, <1>18, <1>19, <1>20, <1>21
  DEF Next, Command, Poll, Owner

-----------------------------------------------------------------------------
(* The invariant is inductive *)

\* The first Host starts with the invariant.
LEMMA InitInv == Init => Inv
<1> SUFFICES ASSUME Init PROVE Inv
  OBVIOUS
<1>1. TypeOK
  <2>1. 0 \in Time /\ 0 \in 0..MaxCrashes /\ 0 \in 0..DiscoveryLimit
    BY AutomationAssumption DEF Time
  <2>2. NoDef \in DefRow /\ NoFire \in FireRow
    BY DEF NoDef, NoFire, DefRow, FireRow, DefStatus, FireStatus
  <2>3. NoPoll \in PollState
    BY <2>1, EmptySeq DEF NoPoll, PollState
  <2> QED
    BY <2>1, <2>2, <2>3, EmptySeq DEF Init, TypeOK, Place, RunStatus
<1>2. \A f \in Fire : /\ RowStatus[f] = "none" /\ RowOwner[f] = NoAutomation /\ RowBound[f] = FALSE
                     /\ pc[f] = "idle" /\ run[f] = "none" /\ submits[f] = 0
  BY Columns DEF Init, NoFire
<1>3. \A a \in Automation : DefState[a] = "absent" /\ DefCount[a] = 0 /\ DefFailures[a] = 0
  BY Columns DEF Init, NoDef
<1>4. RowsOwned /\ RowsMatchMemory /\ SubmitsMatch /\ AttemptsExclusive /\ UsersApart /\ OutcomesMatch
  BY <1>2, AutomationAssumption
  DEF Init, RowsOwned, RowsMatchMemory, SubmitsMatch, AttemptsExclusive, UsersApart, OutcomesMatch,
      InFlight, Away
<1>5. QueueMatchesMemory
  BY DEF Init, QueueMatchesMemory, NoPoll
<1>6. CountsMatch
  <2>1. \A a \in Automation : CompletedRows(a) = {}
    BY <1>2 DEF CompletedRows
  <2>2. \A a \in Automation : DefCount[a] = Cardinality(CompletedRows(a))
    BY <1>3, <2>1, FS_EmptySet
  <2>3. \A a \in Automation : DefCount[a] <= MaxFires[a]
    BY <1>3, AutomationAssumption
  <2> QED
    BY <1>2, <2>2, <2>3 DEF CountsMatch
<1>7. Healthy
  BY <1>3 DEF Healthy
<1> QED
  BY <1>1, <1>4, <1>5, <1>6, <1>7 DEF Inv

\* Every step of the scheduler keeps the invariant.
LEMMA StepInv == Inv /\ [Next]_vars => Inv'
<1> SUFFICES ASSUME Inv, [Next]_vars PROVE Inv'
  OBVIOUS
<1>1. ViewNext /\ ViewType
  BY StepView, ViewTyped DEF Inv
<1>2. TypeOK' /\ QueueMatchesMemory'
  BY <1>1, TypeStep, QueueStep DEF Inv
<1>3. RowsOwned' /\ RowsMatchMemory' /\ SubmitsMatch'
  BY <1>1, OwnedStep, MemoryStep, SubmitsStep DEF Inv
<1>4. AttemptsExclusive' /\ UsersApart' /\ OutcomesMatch'
  BY <1>1, ExclusiveStep, UsersStep, OutcomesStep DEF Inv
<1>5. CountsMatch' /\ Healthy'
  BY <1>1, CountsStep, HealthyStep DEF Inv
<1> QED
  BY <1>2, <1>3, <1>4, <1>5 DEF Inv

\* The invariant holds in every reachable state.
LEMMA Invariance == Spec => []Inv
BY InitInv, StepInv, PTL DEF Spec

-----------------------------------------------------------------------------
(* The safety properties *)

\* Every variable keeps its type in every behaviour of the scheduler.
THEOREM TypeCorrect == Spec => []TypeOK
<1>1. Inv => TypeOK
  BY DEF Inv
<1> QED
  BY <1>1, Invariance, PTL

\* No fire is ever submitted as a run twice: not after a deferral, a second
\* discovery, or a crash at any point of its attempt (executeFire,
\* recoverInFlight).
THEOREM FiresRunOnce == Spec => []AtMostOneRun
<1>1. Inv => AtMostOneRun
  BY DEF Inv, SubmitsMatch, AtMostOneRun
<1> QED
  BY <1>1, Invariance, PTL

\* The success counter of a definition is the number of its completed rows and
\* never passes maxFires (claimFire, completeFire, recoverInFlight).
THEOREM BudgetHolds == Spec => []BudgetRespected
<1>1. Inv => BudgetRespected
  <2>1. \A a \in Automation : RowsIn(a, "completed") = CompletedRows(a) /\ def[a].count = DefCount[a]
    BY Columns DEF RowsIn, CompletedRows
  <2> QED
    BY <2>1 DEF Inv, CountsMatch, BudgetRespected
<1> QED
  BY <1>1, Invariance, PTL

\* Live runs share neither an automation, nor a session, nor a session with a
\* user (dispatchQueuedFires, the checks before submitPrompt).
THEOREM RunsStayApart == Spec => []RunsExclusive
<1>1. Inv => RunsExclusive
  <2> SUFFICES ASSUME Inv PROVE RunsExclusive
    OBVIOUS
  <2>1. \A f \in Fire : RowOwner[f] = fire[f].auto /\ (run[f] = "live" => pc[f] \in InFlight)
    BY Columns DEF Inv, SubmitsMatch, InFlight
  <2>2. ASSUME NEW f \in Fire, NEW g \in Fire \ {f}, run[f] = "live", run[g] = "live"
        PROVE  /\ fire[f].auto # fire[g].auto
               /\ Isolated(fire[f].auto) \/ SessionOf(fire[f].auto) # SessionOf(fire[g].auto)
    BY <2>1, <2>2 DEF Inv, AttemptsExclusive
  <2>3. ASSUME NEW f \in Fire, run[f] = "live", SessionOf(fire[f].auto) \in Session
        PROVE  ~userBusy[SessionOf(fire[f].auto)]
    BY <2>1, <2>3 DEF Inv, UsersApart
  <2> QED
    BY <2>2, <2>3 DEF RunsExclusive
<1> QED
  BY <1>1, Invariance, PTL

\* A row is completed only when its run was, failed only when no run is open or
\* lost, and left to the owner only when no outcome was proven (recoverInFlight).
THEOREM OutcomesProven == Spec => []OutcomeProven
<1>1. Inv => OutcomeProven
  BY Columns DEF Inv, OutcomesMatch, OutcomeProven
<1> QED
  BY <1>1, Invariance, PTL

\* No active automation is at its failure limit (failFire, resume).
THEOREM ActiveStaysHealthy == Spec => []ActiveIsHealthy
<1>1. Inv => ActiveIsHealthy
  BY Columns DEF Inv, Healthy, ActiveIsHealthy
<1> QED
  BY <1>1, Invariance, PTL

-----------------------------------------------------------------------------
(* The action properties *)

\* Only a claimed fire of a definition that still admits it starts a run.
LEMMA SubmissionGuarded ==
  ASSUME ViewType, ViewNext
  PROVE  \A f \in Fire : submits'[f] # submits[f] =>
            /\ RowStatus[f] = "running" /\ host = "up"
            /\ DefState[RowOwner[f]] \in {"active", "expired"} /\ HasBudget(RowOwner[f])
<1> DEFINE P(f) == submits'[f] # submits[f] =>
                    /\ RowStatus[f] = "running" /\ host = "up"
                    /\ DefState[RowOwner[f]] \in {"active", "expired"} /\ HasBudget(RowOwner[f])
<1>1. ASSUME NEW a \in Automation, EditsDef(a) PROVE \A g \in Fire : P(g)
  BY <1>1 DEF EditsDef
<1>2. ASSUME NEW a \in Automation, DeletesDef(a) PROVE \A g \in Fire : P(g)
  BY <1>2 DEF DeletesDef
<1>3. ASSUME NEW f \in Fire, NEW a \in Automation, AdmitsRow(f, a) PROVE \A g \in Fire : P(g)
  BY <1>3 DEF AdmitsRow
<1>4. ASSUME NEW f \in Fire, RequeuesRow(f) PROVE \A g \in Fire : P(g)
  BY <1>4 DEF RequeuesRow
<1>5. ASSUME NEW f \in Fire, QueuesRow(f) PROVE \A g \in Fire : P(g)
  BY <1>5 DEF QueuesRow
<1>6. ASSUME NEW f \in Fire, RejectsRow(f) PROVE \A g \in Fire : P(g)
  BY <1>6 DEF RejectsRow
<1>7. ASSUME NEW f \in Fire, ClaimsRow(f) PROVE \A g \in Fire : P(g)
  BY <1>7 DEF ClaimsRow
<1>8. ASSUME NEW f \in Fire, MovesOn(f) PROVE \A g \in Fire : P(g)
  BY <1>8 DEF MovesOn
<1>9. ASSUME NEW f \in Fire, DropsRow(f) PROVE \A g \in Fire : P(g)
  BY <1>9 DEF DropsRow
<1>10. ASSUME NEW f \in Fire, DefersRow(f) PROVE \A g \in Fire : P(g)
  BY <1>10 DEF DefersRow
<1>11. ASSUME NEW f \in Fire, AbortsRow(f) PROVE \A g \in Fire : P(g)
  BY <1>11 DEF AbortsRow, FailsRow, OwnerFails
<1>12. ASSUME NEW f \in Fire, SubmitsRow(f) PROVE \A g \in Fire : P(g)
  BY <1>12 DEF SubmitsRow
<1>13. ASSUME NEW f \in Fire, BindsRow(f) PROVE \A g \in Fire : P(g)
  BY <1>13 DEF BindsRow
<1>14. ASSUME NEW f \in Fire, EndsRun(f) PROVE \A g \in Fire : P(g)
  BY <1>14 DEF EndsRun
<1>15. ASSUME NEW f \in Fire, SettlesRow(f) PROVE \A g \in Fire : P(g)
  BY <1>15 DEF SettlesRow, CompletesRow, FailsRow, OwnerSucceeds, OwnerFails
<1>16. ASSUME NEW f \in Fire, RecoversRow(f) PROVE \A g \in Fire : P(g)
  BY <1>16 DEF RecoversRow, CompletesRow, FailsRow, OwnerSucceeds, OwnerFails
<1>17. ASSUME StopsHost PROVE \A g \in Fire : P(g)
  BY <1>17 DEF StopsHost
<1>18. ASSUME LosesHost PROVE \A g \in Fire : P(g)
  BY <1>18 DEF LosesHost
<1>19. ASSUME TurnsHost PROVE \A g \in Fire : P(g)
  BY <1>19 DEF TurnsHost
<1>20. ASSUME NEW s \in Session, UserTurn(s) PROVE \A g \in Fire : P(g)
  BY <1>20 DEF UserTurn
<1>21. ASSUME Skips PROVE \A g \in Fire : P(g)
  BY <1>21 DEF Skips
<1> QED
  BY <1>1, <1>2, <1>3, <1>4, <1>5, <1>6, <1>7, <1>8, <1>9, <1>10, <1>11,
     <1>12, <1>13, <1>14, <1>15, <1>16, <1>17, <1>18, <1>19, <1>20, <1>21 DEF ViewNext

\* Whatever happened while its runtime was prepared, a fire starts a run only
\* if its definition is active (or expired after it was created), has budget,
\* and the Host is up (revalidateUnsubmittedFire).
THEOREM RetiredNeverRuns == Spec => NoRunWhenRetired
<1>1. Inv /\ [Next]_vars =>
        \A f \in Fire : submits'[f] # submits[f] =>
          /\ fire[f].status = "running" /\ host = "up"
          /\ def[fire[f].auto].status \in {"active", "expired"} /\ BudgetLeft(fire[f].auto)
  <2> SUFFICES ASSUME Inv, [Next]_vars, NEW f \in Fire, submits'[f] # submits[f]
               PROVE  /\ fire[f].status = "running" /\ host = "up"
                      /\ def[fire[f].auto].status \in {"active", "expired"} /\ BudgetLeft(fire[f].auto)
    OBVIOUS
  <2>1. /\ RowStatus[f] = "running" /\ host = "up"
        /\ DefState[RowOwner[f]] \in {"active", "expired"} /\ HasBudget(RowOwner[f])
    BY StepView, ViewTyped, SubmissionGuarded DEF Inv
  <2>2. RowOwner[f] = fire[f].auto /\ fire[f].auto \in Automation
    BY <2>1, Columns DEF Inv, RowsOwned
  <2> QED
    BY <2>1, <2>2, Columns DEF HasBudget, BudgetLeft
<1> QED
  BY <1>1, Invariance, PTL DEF Spec, NoRunWhenRetired

\* A failure moves an active definition only.
LEMMA StatusKept ==
  ASSUME ViewType, RowsOwned, ViewNext
  PROVE  \A b \in Automation : DefState[b] \in {"paused", "completed", "expired"} => DefState'[b] # "failed"
<1> DEFINE P(b) == DefState[b] \in {"paused", "completed", "expired"} => DefState'[b] # "failed"
<1>1. ASSUME NEW a \in Automation, EditsDef(a) PROVE \A b \in Automation : P(b)
  BY <1>1 DEF EditsDef, ViewType, RowsOwned
<1>2. ASSUME NEW a \in Automation, DeletesDef(a) PROVE \A b \in Automation : P(b)
  BY <1>2 DEF DeletesDef, ViewType, RowsOwned
<1>3. ASSUME NEW f \in Fire, NEW a \in Automation, AdmitsRow(f, a) PROVE \A b \in Automation : P(b)
  BY <1>3 DEF AdmitsRow, ViewType, RowsOwned
<1>4. ASSUME NEW f \in Fire, RequeuesRow(f) PROVE \A b \in Automation : P(b)
  BY <1>4 DEF RequeuesRow, ViewType, RowsOwned
<1>5. ASSUME NEW f \in Fire, QueuesRow(f) PROVE \A b \in Automation : P(b)
  BY <1>5 DEF QueuesRow, ViewType, RowsOwned
<1>6. ASSUME NEW f \in Fire, RejectsRow(f) PROVE \A b \in Automation : P(b)
  BY <1>6 DEF RejectsRow, ViewType, RowsOwned
<1>7. ASSUME NEW f \in Fire, ClaimsRow(f) PROVE \A b \in Automation : P(b)
  BY <1>7 DEF ClaimsRow, ViewType, RowsOwned
<1>8. ASSUME NEW f \in Fire, MovesOn(f) PROVE \A b \in Automation : P(b)
  BY <1>8 DEF MovesOn, ViewType, RowsOwned
<1>9. ASSUME NEW f \in Fire, DropsRow(f) PROVE \A b \in Automation : P(b)
  BY <1>9 DEF DropsRow, ViewType, RowsOwned
<1>10. ASSUME NEW f \in Fire, DefersRow(f) PROVE \A b \in Automation : P(b)
  BY <1>10 DEF DefersRow, ViewType, RowsOwned
<1>11. ASSUME NEW f \in Fire, AbortsRow(f) PROVE \A b \in Automation : P(b)
  BY <1>11 DEF AbortsRow, FailsRow, OwnerFails, ViewType, RowsOwned
<1>12. ASSUME NEW f \in Fire, SubmitsRow(f) PROVE \A b \in Automation : P(b)
  BY <1>12 DEF SubmitsRow, ViewType, RowsOwned
<1>13. ASSUME NEW f \in Fire, BindsRow(f) PROVE \A b \in Automation : P(b)
  BY <1>13 DEF BindsRow, ViewType, RowsOwned
<1>14. ASSUME NEW f \in Fire, EndsRun(f) PROVE \A b \in Automation : P(b)
  BY <1>14 DEF EndsRun, ViewType, RowsOwned
<1>15. ASSUME NEW f \in Fire, SettlesRow(f) PROVE \A b \in Automation : P(b)
  BY <1>15 DEF SettlesRow, CompletesRow, FailsRow, OwnerSucceeds, OwnerFails, ViewType, RowsOwned
<1>16. ASSUME NEW f \in Fire, RecoversRow(f) PROVE \A b \in Automation : P(b)
  BY <1>16 DEF RecoversRow, CompletesRow, FailsRow, OwnerSucceeds, OwnerFails, ViewType, RowsOwned
<1>17. ASSUME StopsHost PROVE \A b \in Automation : P(b)
  BY <1>17 DEF StopsHost, ViewType, RowsOwned
<1>18. ASSUME LosesHost PROVE \A b \in Automation : P(b)
  BY <1>18 DEF LosesHost, ViewType, RowsOwned
<1>19. ASSUME TurnsHost PROVE \A b \in Automation : P(b)
  BY <1>19 DEF TurnsHost, ViewType, RowsOwned
<1>20. ASSUME NEW s \in Session, UserTurn(s) PROVE \A b \in Automation : P(b)
  BY <1>20 DEF UserTurn, ViewType, RowsOwned
<1>21. ASSUME Skips PROVE \A b \in Automation : P(b)
  BY <1>21 DEF Skips, ViewType, RowsOwned
<1> QED
  BY <1>1, <1>2, <1>3, <1>4, <1>5, <1>6, <1>7, <1>8, <1>9, <1>10, <1>11,
     <1>12, <1>13, <1>14, <1>15, <1>16, <1>17, <1>18, <1>19, <1>20, <1>21 DEF ViewNext

\* A run that fails while its automation is paused, completed or expired leaves
\* that status alone (failFire).
THEOREM PauseSurvives == Spec => PauseNotOverridden
<1>1. Inv /\ [Next]_vars =>
        \A a \in Automation : def[a].status \in {"paused", "completed", "expired"}
          => def'[a].status # "failed"
  <2> SUFFICES ASSUME Inv, [Next]_vars
               PROVE  \A a \in Automation : def[a].status \in {"paused", "completed", "expired"}
                        => def'[a].status # "failed"
    OBVIOUS
  <2>1. \A a \in Automation : DefState[a] \in {"paused", "completed", "expired"} => DefState'[a] # "failed"
    BY StepView, ViewTyped, StatusKept DEF Inv
  <2>2. \A a \in Automation : DefState[a] = def[a].status /\ DefState'[a] = def'[a].status
    BY DEF DefState
  <2> QED
    BY <2>1, <2>2
<1> QED
  BY <1>1, Invariance, PTL DEF Spec, PauseNotOverridden

\* The next instant of a schedule after a discovery is later than the discovery.
LEMMA CursorAdvances ==
  ASSUME NEW a \in Automation, NEW t \in Time, NEW now \in Time
  PROVE  NextCursor(a, t, now) = NoTime \/ NextCursor(a, t, now) > now
<1>1. \A u \in Time : AdvanceFireAt(a, u) = NoTime \/ (AdvanceFireAt(a, u) \in Nat /\ AdvanceFireAt(a, u) > u)
  BY AutomationAssumption DEF AdvanceFireAt, Time, NoTime, TriggerType
<1>2. now \in Nat
  BY AutomationAssumption DEF Time
<1> QED
  BY <1>1, <1>2 DEF NextCursor

\* Editing other fields of a definition keeps its cursor.
LEMMA CursorKept ==
  ASSUME TypeOK, NEW f \in Fire, fire[f].auto \in Automation,
         CompleteFire(f) \/ FailFire(f) \/ DeferFire(f) \/ RecoverRow(f)
  PROVE  \A b \in Automation : def'[b].next = def[b].next
<1>1. \A b \in Automation : def[b] \in DefRow
  BY DEF TypeOK
<1>2. /\ CompletedDef(fire[f].auto).next = def[fire[f].auto].next
      /\ FailedDef(fire[f].auto).next = def[fire[f].auto].next
  BY <1>1 DEF CompletedDef, FailedDef, DefRow
<1> QED
  BY <1>2 DEF CompleteFire, FailFire, DeferFire, RecoverRow, TypeOK

\* While a discovery walks the due definitions, only it moves a cursor, and
\* past its own instant.
LEMMA DueStep ==
  ASSUME TypeOK, RowsOwned, RowsMatchMemory, [Next]_vars, poll.phase = "due",
         NEW b \in Automation, def'[b].next # def[b].next
  PROVE  def'[b].next = NoTime \/ def'[b].next > poll.now
<1>1. CASE \E a \in Automation : PollDue(a)
  <2>1. PICK a \in Automation : PollDue(a)
    BY <1>1
  <2>2. ASSUME NEW s, Retire(a, s) PROVE FALSE
    BY <2>2 DEF Retire, TypeOK, DefRow
  <2>3. /\ def' = [def EXCEPT ![a].next = NextCursor(a, def[a].next, poll.now)]
        /\ a \in Due(poll.now)
    BY <2>1, <2>2 DEF PollDue, ProduceFire
  <2>4. def[a].next \in Time /\ poll.now \in Time
    <3>1. def[a] \in DefRow /\ poll \in PollState
      BY DEF TypeOK
    <3>2. poll.now \in Time
      BY <3>1 DEF PollState
    <3>3. def[a].next \in Nat \cup {NoTime} /\ def[a].next # NoTime /\ def[a].next <= poll.now
      BY <2>3, <3>1 DEF Due, DefRow
    <3> QED
      BY <3>2, <3>3, AutomationAssumption DEF Time
  <2>5. b = a /\ def'[b].next = NextCursor(a, def[a].next, poll.now)
    BY <2>3 DEF TypeOK, DefRow
  <2> QED
    BY <2>4, <2>5, CursorAdvances
<1>2. CASE ~\E a \in Automation : PollDue(a)
  <2>1. ~Quiet
    BY DEF Quiet
  <2>2. \A f \in Fire : fire[f].status = "running" => fire[f].auto \in Automation
    BY OwnedRow
  <2>3. \A f \in Fire : pc[f] = "claimed" => fire[f].auto \in Automation
    BY <2>2, Columns DEF RowsMatchMemory
  <2>4. \A f \in Fire : Attempt(f) => def'[b].next = def[b].next
    BY <2>2, <2>3, CursorKept
    DEF Attempt, AdmitBusy, Prepare, ClaimLost, DeferUnsubmitted, PrepareFails, Submit, Bind, ClaimHeld
  <2>5. \A f \in Fire : ~Outcome(f)
    BY <2>1 DEF Outcome, RunEnds, RunTimesOut, Settle
  <2>6. \A f \in Fire : RecoverFire(f) => def'[b].next = def[b].next
    BY <2>2, CursorKept DEF RecoverFire
  <2>7. Owner => def'[b].next = def[b].next
    BY <2>6 DEF Owner, Stop, Crash, Start, RecoveryDone
  <2>8. Poll => def'[b].next = def[b].next
    BY <1>2 DEF Poll, PollStart, PollEnqueue, PollPhase, PollExpire, PollRecover
  <2>9. \A a \in Automation : ~Command(a)
    BY <2>1 DEF Command, Create, Pause, Resume, Delete, RunNow
  <2>10. Dispatch \/ Tick \/ UNCHANGED vars => def'[b].next = def[b].next
    BY DEF Dispatch, Tick, vars
  <2>11. \A s \in Session : UserRunStarts(s) \/ UserRunEnds(s) => def'[b].next = def[b].next
    BY DEF UserRunStarts, UserRunEnds
  <2> QED
    BY <2>4, <2>5, <2>7, <2>8, <2>9, <2>10, <2>11 DEF Next
<1> QED
  BY <1>1, <1>2

\* A discovery never leaves a cursor at or before its own instant, so missed
\* periods are not replayed one by one (claimDue).
THEOREM NoBackfill == Spec => MissedPeriodsSkipped
<1>1. Inv /\ [Next]_vars =>
        \A a \in Automation : poll.phase = "due" /\ def'[a].next # def[a].next
          => def'[a].next = NoTime \/ def'[a].next > poll.now
  BY DueStep DEF Inv
<1> QED
  BY <1>1, Invariance, PTL DEF Spec, MissedPeriodsSkipped

=============================================================================

------------------------- MODULE SessionGoalProofs -------------------------
(***************************************************************************)
(* Theorems about SessionGoal.  What a step does to the goal, to the rows  *)
(* of agent_runs and to the last request is stated once, as an effect; the *)
(* invariants are then proved from the effects.                            *)
(***************************************************************************)
EXTENDS SessionGoal, FiniteSetTheorems, SequenceTheorems, TLAPS

USE DEF store, ledger, runtime, runner, NoBudget, NoRun

-----------------------------------------------------------------------------
(* Types.                                                                  *)

StoreTypes ==
    /\ goal \in Goal \cup {NoGoal}
    /\ issued \subseteq GoalId
    /\ usage \in [UsageId -> [goal : GoalId, known : BOOLEAN] \cup {NoUsage}]

RowTypes ==
    /\ runs \in Seq(Run) /\ Len(runs) <= MaxRuns
    /\ active \in 0 .. Len(runs)

AgentTypes ==
    /\ bound \in GoalId \cup {NoId}
    /\ request \in Request \cup {NoRequest}
    /\ child \in Child \cup {NoChild}

FlagTypes ==
    /\ unsafe \in BOOLEAN
    /\ host \in {"down", "up", "draining"}
    /\ starts \in 0 .. MaxStarts
    /\ cancel \in {"none", "paused", "other"}
    /\ queue \in {"none", "pending", "held"}
    /\ scheduled \in BOOLEAN
    /\ rerun \in BOOLEAN
    /\ phase \in {"idle", "resolving", "waiting", "queued"} \cup InLane
    /\ initial \in Ticket \cup {NoGoal}

-----------------------------------------------------------------------------
(* What the shared operators change.                                       *)

\* Decide ends the advance, stops the goal or starts the next turn of the chain.
LEMMA Decided ==
    ASSUME NEW p, NEW rows, Decide(p, rows)
    PROVE  /\ Leave
           /\ cancel' \in {cancel, "none"} /\ queue' = queue /\ child' = child
           /\ unsafe' \in {unsafe, FALSE}
           /\ request' \in {request, NoRequest} /\ bound' \in {bound, NoId}
           /\ goal' = goal \/ StopGoal("blocked") \/ StopGoal("paused")
           /\ \/ runs' = rows /\ active' = active
              \/ /\ ~ MustBlock(p, rows) /\ ~ MustPause(p, rows) /\ Ready
                 /\ goal' = goal
                 /\ Len(rows) < MaxRuns
                 /\ runs' = Append(rows, NextTurn(p, rows)) /\ active' = Len(rows) + 1
BY DEF Decide, StartRun

\* Leaving the advance resets the runner and may schedule a tick.
LEMMA Left ==
    ASSUME Leave
    PROVE  /\ phase' = "idle" /\ initial' = NoGoal /\ rerun' = FALSE
           /\ scheduled' \in {scheduled, TRUE, FALSE}
           /\ UNCHANGED <<issued, usage, host, starts>>
BY DEF Leave, CanStart

\* A report either changes nothing or is booked under a free identity.
LEMMA Recorded ==
    ASSUME NEW id, NEW known, RecordUsage(id, known)
    PROVE  /\ scheduled' \in {scheduled, TRUE, FALSE}
           /\ \/ UNCHANGED <<usage, goal>>
              \/ /\ HasGoal /\ goal.id = id
                 /\ goal' = Charged(known)
                 /\ \E u \in UsageId :
                       /\ usage[u] = NoUsage
                       /\ usage' = [usage EXCEPT ![u] = [goal |-> id, known |-> known]]
BY DEF RecordUsage, Wake, CanStart

\* The flags keep their types.
LEMMA FlagStep == StoreTypes /\ FlagTypes /\ [Next]_vars => FlagTypes'
<1> SUFFICES ASSUME StoreTypes /\ FlagTypes, [Next]_vars PROVE FlagTypes'
  OBVIOUS
<1> USE DEF FlagTypes, InLane
<1>1. ASSUME NEW o \in Objective, NEW b \in Budget \cup {NoBudget}, CreateGoal(o, b) PROVE FlagTypes'
  BY <1>1 DEF CreateGoal, Wake, CanStart
<1>2. ASSUME NEW o \in Objective, NEW b \in Budget \cup {NoBudget}, EditGoal(o, b) PROVE FlagTypes'
  BY <1>2 DEF EditGoal, Wake, CanStart
<1>3. ASSUME PauseGoal PROVE FlagTypes'
  BY <1>3 DEF PauseGoal, CancelToPause, Wake, CanStart
<1>4. ASSUME NEW reason \in {"paused", "other"}, CancelRun(reason) PROVE FlagTypes'
  BY <1>4 DEF CancelRun, Wake, CanStart
<1>5. ASSUME ClearGoal PROVE FlagTypes'
  BY <1>5 DEF ClearGoal, CancelToPause, Wake, CanStart
<1>6. ASSUME ResumeGoal PROVE FlagTypes'
  BY <1>6 DEF ResumeGoal, Wake, CanStart
<1>7. ASSUME Enqueue PROVE FlagTypes'
  BY <1>7 DEF Enqueue
<1>8. ASSUME DropQueue PROVE FlagTypes'
  BY <1>8 DEF DropQueue, Wake, CanStart
<1>9. ASSUME OtherRunStarts PROVE FlagTypes'
  BY <1>9 DEF OtherRunStarts, StartRun
<1>10. ASSUME QueuedRunStarts PROVE FlagTypes'
  BY <1>10 DEF QueuedRunStarts, StartRun
<1>11. ASSUME QueuedRunFails PROVE FlagTypes'
  BY <1>11 DEF QueuedRunFails
<1>12. ASSUME BeginTurn PROVE FlagTypes'
  BY <1>12 DEF BeginTurn
<1>13. ASSUME StartRequest PROVE FlagTypes'
  BY <1>13 DEF StartRequest
<1>14. ASSUME EndRequest PROVE FlagTypes'
  <2>1. PICK known \in BOOLEAN : RecordUsage(request.charged, known)
    BY <1>14 DEF EndRequest
  <2>2. scheduled' \in BOOLEAN
    BY <2>1, Recorded
  <2> QED
    BY <1>14, <2>2 DEF EndRequest
<1>15. ASSUME QueueChild PROVE FlagTypes'
  BY <1>15 DEF QueueChild
<1>16. ASSUME StartChildRequest PROVE FlagTypes'
  BY <1>16 DEF StartChildRequest
<1>17. ASSUME EndChildRequest PROVE FlagTypes'
  <2>1. PICK known \in BOOLEAN : RecordUsage(child.id, known)
    BY <1>17 DEF EndChildRequest
  <2>2. scheduled' \in BOOLEAN
    BY <2>1, Recorded
  <2> QED
    BY <1>17, <2>2 DEF EndChildRequest
<1>18. ASSUME ChildEnds PROVE FlagTypes'
  BY <1>18 DEF ChildEnds
<1>19. ASSUME NEW status \in {"completed", "blocked"}, GoalUpdate(status) PROVE FlagTypes'
  BY <1>19 DEF GoalUpdate, Wake, CanStart
<1>20. ASSUME NEW result \in Terminal, WriteTerminal(result) PROVE FlagTypes'
  <2>1. unsafe' \in {unsafe, TRUE} /\ UNCHANGED <<host, starts, runtime, scheduled, runner>>
    BY <1>20 DEF WriteTerminal
  <2>2. unsafe' \in BOOLEAN
    BY <2>1
  <2> QED
    BY <2>1, <2>2
<1>21. ASSUME FinishRun PROVE FlagTypes'
  BY <1>21 DEF FinishRun, ReleaseRun, Wake, CanStart
<1>22. ASSUME FinishFails PROVE FlagTypes'
  BY <1>22 DEF FinishFails, ReleaseRun, Wake, CanStart
<1>23. ASSUME RunTick PROVE FlagTypes'
  <2>1. CASE CanStart /\ GoalActive /\ phase = "idle"
    <3>1. goal \in Goal /\ initial' = [id |-> goal.id, generation |-> goal.generation]
      BY <2>1, <1>23 DEF RunTick, GoalActive, HasGoal, StoreTypes
    <3>2. initial' \in Ticket
      BY <3>1 DEF Goal, Ticket
    <3> QED
      BY <2>1, <3>2, <1>23 DEF RunTick
  <2>2. CASE ~ (CanStart /\ GoalActive /\ phase = "idle")
    BY <2>2, <1>23, ZenonT(60) DEF RunTick
  <2> QED
    BY <2>1, <2>2
<1>24. ASSUME Resolve PROVE FlagTypes'
  BY <1>24 DEF Resolve, Await, GiveUp, Leave, CanStart
<1>25. ASSUME WaitForIdle PROVE FlagTypes'
  BY <1>25 DEF WaitForIdle, Await, GiveUp, Leave, CanStart
<1>26. ASSUME Admit PROVE FlagTypes'
  BY <1>26 DEF Admit, Await, GiveUp, Leave, CanStart
<1>27. ASSUME ResolveAgain PROVE FlagTypes'
  BY <1>27 DEF ResolveAgain, Await, GiveUp, Leave, CanStart
<1>28. ASSUME ReadCheckpoint PROVE FlagTypes'
  BY <1>28 DEF ReadCheckpoint, Await, GiveUp, Leave, CanStart
<1>29. ASSUME CannotAdvance PROVE FlagTypes'
  BY <1>29 DEF CannotAdvance, StopGoal, Leave, CanStart
<1>30. ASSUME BlockUnsafe PROVE FlagTypes'
  BY <1>30 DEF BlockUnsafe, StopGoal, Leave, CanStart
<1>31. ASSUME Continue PROVE FlagTypes'
  <2>1. CASE \E p \in 0 .. Len(runs) : Decide(p, runs)
    BY <2>1, Decided, Left
  <2>2. CASE ~ \E p \in 0 .. Len(runs) : Decide(p, runs)
    <3>1. CASE GiveUp
      BY <3>1, Left DEF GiveUp
    <3>2. CASE ~ GiveUp
      <4>1. phase' = "reconciling" /\ UNCHANGED <<store, ledger, host, starts, runtime, scheduled, rerun, initial>>
        BY <2>2, <3>2, <1>31 DEF Continue, Await
      <4> QED
        BY <4>1
    <3> QED
      BY <3>1, <3>2
  <2> QED
    BY <2>1, <2>2
<1>32. ASSUME Reconcile PROVE FlagTypes'
  <2>1. CASE \E p, rows : Decide(p, rows)
    BY <2>1, Decided, Left
  <2>2. CASE ~ \E p, rows : Decide(p, rows)
    BY <2>2, Left, <1>32 DEF Reconcile
  <2> QED
    BY <2>1, <2>2
<1>33. ASSUME StartHost PROVE FlagTypes'
  BY BoundsAssumption, <1>33 DEF StartHost
<1>34. ASSUME Drain PROVE FlagTypes'
  BY <1>34 DEF Drain
<1>35. ASSUME Exit PROVE FlagTypes'
  BY <1>35 DEF Exit, Forget
<1>36. ASSUME Crash PROVE FlagTypes'
  BY <1>36 DEF Crash, Forget
<1>37. ASSUME UNCHANGED vars PROVE FlagTypes'
  BY <1>37 DEF vars
<1> QED
  BY <1>1, <1>2, <1>3, <1>4, <1>5, <1>6, <1>7, <1>8, <1>9, <1>10, <1>11, <1>12, <1>13,
     <1>14, <1>15, <1>16, <1>17, <1>18, <1>19, <1>20, <1>21, <1>22, <1>23, <1>24, <1>25,
     <1>26, <1>27, <1>28, <1>29, <1>30, <1>31, <1>32, <1>33, <1>34, <1>35, <1>36, <1>37
     DEF Next, Users, Turns, Runner, Life

-----------------------------------------------------------------------------
(* What a step does to the store.                                          *)

Created ==
    /\ Replaceable
    /\ \E id \in GoalId \ issued, o \in Objective, b \in Budget \cup {NoBudget} :
          goal' = Fresh(id, o, b) /\ issued' = issued \cup {id}
    /\ usage' = usage

EditedByUser ==
    /\ HasGoal /\ goal.status # "completed" /\ goal.generation < MaxGeneration
    /\ \E o \in Objective, b \in Budget \cup {NoBudget} : goal' = Edited(o, b)

Stopped ==
    /\ HasGoal
    /\ \E s \in {"paused", "blocked"} : goal' = [goal EXCEPT !.status = s]

CompletedByModel ==
    /\ StillSeen /\ request # NoRequest /\ request.seen # NoGoal
    /\ goal' = [goal EXCEPT !.status = "completed"]

Resumed ==
    /\ HasGoal /\ goal.status # "completed" /\ goal.generation < MaxGeneration
    /\ ~ Unaccountable(goal) /\ ~ Exhausted(goal)
    /\ goal' = [goal EXCEPT !.status = "active", !.generation = @ + 1]

Booked ==
    /\ HasGoal /\ issued' = issued
    /\ \E u \in UsageId, known \in BOOLEAN :
          /\ goal' = Charged(known)
          /\ usage[u] = NoUsage
          /\ usage' = [usage EXCEPT ![u] = [goal |-> goal.id, known |-> known]]

StoreEffect ==
    \/ UNCHANGED store
    \/ Created
    \/ (EditedByUser \/ goal' = NoGoal \/ Stopped \/ CompletedByModel \/ Resumed) /\ UNCHANGED <<issued, usage>>
    \/ Booked

\* block and pause change the goal only while it is the one that is advanced.
LEMMA StoppedByRunner ==
    ASSUME NEW s \in {"paused", "blocked"}, StopGoal(s), UNCHANGED <<issued, usage>>
    PROVE  StoreEffect
BY DEF StopGoal, Current, GoalActive, StoreEffect, Stopped


\* Every step has one of these effects on the store.
LEMMA StoreStep == [Next]_vars => StoreEffect
<1> SUFFICES ASSUME [Next]_vars PROVE StoreEffect
  OBVIOUS
<1> USE DEF StoreEffect
<1>1. ASSUME NEW o \in Objective, NEW b \in Budget \cup {NoBudget}, CreateGoal(o, b) PROVE StoreEffect
  BY <1>1 DEF CreateGoal, Created
<1>2. ASSUME NEW o \in Objective, NEW b \in Budget \cup {NoBudget}, EditGoal(o, b) PROVE StoreEffect
  BY <1>2 DEF EditGoal, EditedByUser, Replaceable
<1>3. ASSUME PauseGoal PROVE StoreEffect
  BY <1>3 DEF PauseGoal, CancelToPause, Stopped
<1>4. ASSUME NEW reason \in {"paused", "other"}, CancelRun(reason) PROVE StoreEffect
  BY <1>4 DEF CancelRun, Stopped, GoalActive
<1>5. ASSUME ClearGoal PROVE StoreEffect
  BY <1>5 DEF ClearGoal, CancelToPause
<1>6. ASSUME ResumeGoal PROVE StoreEffect
  BY <1>6 DEF ResumeGoal, Resumed
<1>7. ASSUME Enqueue PROVE StoreEffect
  BY <1>7 DEF Enqueue
<1>8. ASSUME DropQueue PROVE StoreEffect
  BY <1>8 DEF DropQueue
<1>9. ASSUME OtherRunStarts PROVE StoreEffect
  BY <1>9 DEF OtherRunStarts, StartRun
<1>10. ASSUME QueuedRunStarts PROVE StoreEffect
  BY <1>10 DEF QueuedRunStarts, StartRun
<1>11. ASSUME QueuedRunFails PROVE StoreEffect
  BY <1>11 DEF QueuedRunFails
<1>12. ASSUME BeginTurn PROVE StoreEffect
  BY <1>12 DEF BeginTurn
<1>13. ASSUME StartRequest PROVE StoreEffect
  BY <1>13 DEF StartRequest
<1>14. ASSUME EndRequest PROVE StoreEffect
  BY <1>14, Recorded DEF EndRequest, Booked
<1>15. ASSUME QueueChild PROVE StoreEffect
  BY <1>15 DEF QueueChild
<1>16. ASSUME StartChildRequest PROVE StoreEffect
  BY <1>16 DEF StartChildRequest
<1>17. ASSUME EndChildRequest PROVE StoreEffect
  BY <1>17, Recorded DEF EndChildRequest, Booked
<1>18. ASSUME ChildEnds PROVE StoreEffect
  BY <1>18 DEF ChildEnds
<1>19. ASSUME NEW status \in {"completed", "blocked"}, GoalUpdate(status) PROVE StoreEffect
  BY <1>19 DEF GoalUpdate, Stopped, CompletedByModel, StillSeen, GoalActive
<1>20. ASSUME NEW result \in Terminal, WriteTerminal(result) PROVE StoreEffect
  BY <1>20 DEF WriteTerminal
<1>21. ASSUME FinishRun PROVE StoreEffect
  BY <1>21 DEF FinishRun, ReleaseRun
<1>22. ASSUME FinishFails PROVE StoreEffect
  BY <1>22 DEF FinishFails, ReleaseRun
<1>23. ASSUME RunTick PROVE StoreEffect
  BY <1>23 DEF RunTick
<1>24. ASSUME Resolve PROVE StoreEffect
  BY <1>24 DEF Resolve, Await, GiveUp, Leave
<1>25. ASSUME WaitForIdle PROVE StoreEffect
  BY <1>25 DEF WaitForIdle, Await, GiveUp, Leave
<1>26. ASSUME Admit PROVE StoreEffect
  BY <1>26 DEF Admit, Await, GiveUp, Leave
<1>27. ASSUME ResolveAgain PROVE StoreEffect
  BY <1>27 DEF ResolveAgain, Await, GiveUp, Leave
<1>28. ASSUME ReadCheckpoint PROVE StoreEffect
  BY <1>28 DEF ReadCheckpoint, Await, GiveUp, Leave
<1>29. ASSUME CannotAdvance PROVE StoreEffect
  BY <1>29, Left, StoppedByRunner DEF CannotAdvance
<1>30. ASSUME BlockUnsafe PROVE StoreEffect
  BY <1>30, Left, StoppedByRunner DEF BlockUnsafe
<1>31. ASSUME Continue PROVE StoreEffect
  <2>1. CASE \E p \in 0 .. Len(runs) : Decide(p, runs)
    BY <2>1, Decided, Left, StoppedByRunner
  <2>2. CASE ~ \E p \in 0 .. Len(runs) : Decide(p, runs)
    BY <2>2, <1>31, Left, StoppedByRunner DEF Continue, Await, GiveUp
  <2> QED
    BY <2>1, <2>2
<1>32. ASSUME Reconcile PROVE StoreEffect
  <2>1. CASE \E p, rows : Decide(p, rows)
    BY <2>1, Decided, Left, StoppedByRunner
  <2>2. CASE ~ \E p, rows : Decide(p, rows)
    BY <2>2, <1>32, Left, StoppedByRunner DEF Reconcile
  <2> QED
    BY <2>1, <2>2
<1>33. ASSUME StartHost PROVE StoreEffect
  BY <1>33 DEF StartHost
<1>34. ASSUME Drain PROVE StoreEffect
  BY <1>34 DEF Drain
<1>35. ASSUME Exit PROVE StoreEffect
  BY <1>35 DEF Exit, Forget
<1>36. ASSUME Crash PROVE StoreEffect
  BY <1>36 DEF Crash, Forget
<1>37. ASSUME UNCHANGED vars PROVE StoreEffect
  BY <1>37 DEF vars
<1> QED
  BY <1>1, <1>2, <1>3, <1>4, <1>5, <1>6, <1>7, <1>8, <1>9, <1>10, <1>11, <1>12, <1>13,
     <1>14, <1>15, <1>16, <1>17, <1>18, <1>19, <1>20, <1>21, <1>22, <1>23, <1>24, <1>25,
     <1>26, <1>27, <1>28, <1>29, <1>30, <1>31, <1>32, <1>33, <1>34, <1>35, <1>36, <1>37
     DEF Next, Users, Turns, Runner, Life

\* A goal with another status is a goal.
LEMMA StatusType ==
    ASSUME NEW g \in Goal, NEW s \in GoalStatus
    PROVE  /\ [g EXCEPT !.status = s] \in Goal
           /\ [g EXCEPT !.status = s].status = s
           /\ [g EXCEPT !.status = s].id = g.id
           /\ [g EXCEPT !.status = s].generation = g.generation
           /\ [g EXCEPT !.status = s].objective = g.objective
           /\ [g EXCEPT !.status = s].budget = g.budget
           /\ [g EXCEPT !.status = s].used = g.used
           /\ [g EXCEPT !.status = s].known = g.known
BY DEF Goal

\* Amounts are numbers.
LEMMA Amounts == ASSUME NEW g \in Goal PROVE g.used \in Nat /\ g.budget \in Nat
<1>1. g.used \in Nat /\ g.budget \in Budget \cup {NoBudget}
  BY DEF Goal
<1>2. \A b \in Budget : b \in Nat
  BY BudgetAssumption
<1>3. CASE g.budget \in Budget
  BY <1>1, <1>2, <1>3
<1>4. CASE g.budget = 0
  BY <1>1, <1>4
<1> QED
  BY <1>1, <1>3, <1>4

\* What the operators of the store return.
LEMMA EditedType ==
    ASSUME goal \in Goal, goal.generation < MaxGeneration, NEW o \in Objective, NEW b \in Budget \cup {NoBudget}
    PROVE  /\ Edited(o, b) \in Goal
           /\ Edited(o, b).id = goal.id /\ Edited(o, b).generation = goal.generation + 1
           /\ Edited(o, b).objective = o
           /\ Edited(o, b).used = goal.used /\ Edited(o, b).known = goal.known
           /\ Edited(o, b).status = "active" /\ Limited(Edited(o, b)) =>
                 Edited(o, b).known /\ Edited(o, b).used < Edited(o, b).budget
           /\ Edited(o, b).status = "completed" => goal.status = "completed"
<1> DEFINE g == [goal EXCEPT !.objective = o, !.budget = IF b = NoBudget THEN @ ELSE b, !.generation = @ + 1]
<1>1. /\ goal.generation + 1 \in Generation /\ goal.generation \in Nat
      /\ (IF b = NoBudget THEN goal.budget ELSE b) \in Budget \cup {NoBudget}
      /\ goal.budget \in Budget \cup {NoBudget} /\ goal.status \in GoalStatus
  BY BoundsAssumption DEF Goal, Generation
<1>2. g \in Goal
  BY <1>1 DEF Goal
<1>3. g.id = goal.id /\ g.generation = goal.generation + 1 /\ g.objective = o /\ g.used = goal.used
      /\ g.known = goal.known /\ g.status = goal.status
  BY DEF Goal
<1>4. SetStatus(g) \in GoalStatus
  BY <1>2 DEF SetStatus, Goal, GoalStatus
<1>5. Edited(o, b) = [g EXCEPT !.status = SetStatus(g)]
  BY DEF Edited
<1> HIDE DEF g
<1> DEFINE e == [g EXCEPT !.status = SetStatus(g)]
<1>6. /\ e \in Goal /\ e.id = g.id /\ e.generation = g.generation /\ e.objective = g.objective
      /\ e.used = g.used /\ e.known = g.known /\ e.budget = g.budget /\ e.status = SetStatus(g)
  BY <1>2, <1>4 DEF Goal
<1>7. g.used \in Nat /\ g.budget \in Nat
  BY <1>2, Amounts
<1> HIDE DEF e
<1>8. e.status = "active" /\ Limited(e) => e.known /\ e.used < e.budget
  BY <1>6, <1>7 DEF SetStatus, Unaccountable, Exhausted, Limited
<1>9. e.status = "completed" => goal.status = "completed"
  BY <1>3, <1>6 DEF SetStatus
<1> QED
  BY <1>3, <1>5, <1>6, <1>8, <1>9 DEF e

LEMMA ChargedType ==
    ASSUME goal \in Goal, NEW known \in BOOLEAN
    PROVE  /\ Charged(known) \in Goal
           /\ Charged(known).id = goal.id /\ Charged(known).generation = goal.generation
           /\ Charged(known).objective = goal.objective
           /\ Charged(known).used = IF known THEN goal.used + 1 ELSE goal.used
           /\ Charged(known).known = (goal.known /\ known)
           /\ Charged(known).status = "active" =>
                 /\ goal.status = "active"
                 /\ Limited(Charged(known)) =>
                       Charged(known).known /\ Charged(known).used < Charged(known).budget
           /\ Charged(known).status = "completed" => goal.status = "completed"
<1> DEFINE g == [goal EXCEPT !.used = IF known THEN @ + 1 ELSE @, !.known = @ /\ known]
<1>1. (IF known THEN goal.used + 1 ELSE goal.used) \in Nat /\ (goal.known /\ known) \in BOOLEAN
  BY DEF Goal
<1>2. g \in Goal
  BY <1>1 DEF Goal
<1>3. /\ g.id = goal.id /\ g.generation = goal.generation /\ g.objective = goal.objective
      /\ g.used = IF known THEN goal.used + 1 ELSE goal.used
      /\ g.known = (goal.known /\ known) /\ g.status = goal.status
  BY DEF Goal
<1>4. Charged(known) = IF g.status \in {"completed", "paused"} THEN g
        ELSE IF Unaccountable(g) THEN [g EXCEPT !.status = "blocked"]
        ELSE IF Exhausted(g) THEN [g EXCEPT !.status = "budget_limited"]
        ELSE g
  BY DEF Charged
<1> HIDE DEF g
<1>5. \A s \in GoalStatus : LET e == [g EXCEPT !.status = s] IN
         /\ e \in Goal /\ e.id = g.id /\ e.generation = g.generation /\ e.objective = g.objective
         /\ e.used = g.used /\ e.known = g.known /\ e.budget = g.budget /\ e.status = s
  BY <1>2 DEF Goal
<1>6. g.used \in Nat /\ g.budget \in Nat
  BY <1>2, Amounts
<1>7. Limited(g) /\ ~ Unaccountable(g) /\ ~ Exhausted(g) => g.known /\ g.used < g.budget
  BY <1>6 DEF Unaccountable, Exhausted, Limited
<1>8. CASE Charged(known) = g
  BY <1>2, <1>3, <1>4, <1>5, <1>7, <1>8 DEF GoalStatus
<1>9. CASE Charged(known) = [g EXCEPT !.status = "blocked"]
  BY <1>3, <1>5, <1>9 DEF GoalStatus
<1>10. CASE Charged(known) = [g EXCEPT !.status = "budget_limited"]
  BY <1>3, <1>5, <1>10 DEF GoalStatus
<1> QED
  BY <1>4, <1>8, <1>9, <1>10

\* The store keeps its types.
LEMMA StoreTypesStep == StoreTypes /\ StoreEffect => StoreTypes'
<1> SUFFICES ASSUME StoreTypes, StoreEffect PROVE StoreTypes'
  OBVIOUS
<1>0. HasGoal => goal \in Goal /\ goal.generation \in Generation /\ Generation \subseteq Nat
  BY DEF HasGoal, StoreTypes, Goal, Generation
<1>1. CASE UNCHANGED store
  BY <1>1 DEF StoreTypes
<1>2. CASE Created
  <2>1. PICK id \in GoalId \ issued, o \in Objective, b \in Budget \cup {NoBudget} :
            goal' = Fresh(id, o, b) /\ issued' = issued \cup {id}
    BY <1>2 DEF Created
  <2>2. Fresh(id, o, b) \in Goal
    BY BoundsAssumption, <2>1 DEF Fresh, Goal, Generation, GoalStatus
  <2> QED
    BY <1>2, <2>1, <2>2 DEF StoreTypes, Created
<1>3. ASSUME UNCHANGED <<issued, usage>>, goal' \in Goal \cup {NoGoal} PROVE StoreTypes'
  BY <1>3 DEF StoreTypes
<1>4. CASE UNCHANGED <<issued, usage>> /\ EditedByUser
  BY <1>0, <1>3, <1>4, EditedType DEF EditedByUser
<1>5. CASE UNCHANGED <<issued, usage>> /\ Stopped
  <2>1. PICK s \in {"paused", "blocked"} : goal' = [goal EXCEPT !.status = s]
    BY <1>5 DEF Stopped
  <2>2. s \in GoalStatus /\ goal \in Goal
    BY <1>0, <1>5 DEF Stopped, GoalStatus
  <2> QED
    BY <1>3, <1>5, <2>1, <2>2, StatusType
<1>6. CASE UNCHANGED <<issued, usage>> /\ CompletedByModel
  BY <1>0, <1>3, <1>6, StatusType DEF CompletedByModel, StillSeen, GoalActive, GoalStatus
<1>7. CASE UNCHANGED <<issued, usage>> /\ Resumed
  <2>1. goal.generation + 1 \in Generation
    BY BoundsAssumption, <1>0, <1>7 DEF Resumed, Generation
  <2> QED
    BY <1>0, <1>3, <1>7, <2>1 DEF Resumed, GoalStatus, Goal
<1>8. CASE Booked
  <2>1. goal' \in Goal /\ goal.id \in GoalId
    BY <1>0, <1>8, ChargedType DEF Booked, Goal
  <2> QED
    BY <1>8, <2>1 DEF StoreTypes, Booked
<1> QED
  BY <1>1, <1>2, <1>3, <1>4, <1>5, <1>6, <1>7, <1>8 DEF StoreEffect

-----------------------------------------------------------------------------
(* What a step does to the rows of agent_runs.                             *)

\* A row has the result that the JSONL confirms, or none yet.
RowsConfirmed == \A i \in 1 .. Len(runs) : runs[i].row # "admitted" => runs[i].row = runs[i].fact

\* Rows with a result stay as they are; the others may get a fact or a result
\* that the fact confirms.
Settles(rows) ==
    /\ rows \in Seq(Run) /\ Len(rows) = Len(runs)
    /\ \A i \in 1 .. Len(runs) :
          /\ rows[i].goal = runs[i].goal /\ rows[i].generation = runs[i].generation
          /\ rows[i].prior = runs[i].prior /\ rows[i].followup = runs[i].followup
          /\ rows[i].objective = runs[i].objective
          /\ runs[i].row # "admitted" => rows[i].row = runs[i].row /\ rows[i].fact = runs[i].fact
          /\ rows[i].row # "admitted" => rows[i].row = rows[i].fact

Continues(r, rows) ==
    /\ Ready
    /\ \E p \in 0 .. Len(rows) :
          /\ r = NextTurn(p, rows)
          /\ Latest(p, rows) /\ ~ MustBlock(p, rows) /\ ~ MustPause(p, rows)
          /\ p # NoRun => rows[p].row \in Continuable

RowsEffect ==
    \E rows \in Seq(Run) :
        /\ Settles(rows)
        /\ \/ runs' = rows /\ active' \in {active, NoRun}
           \/ /\ Len(rows) < MaxRuns /\ active' = Len(rows) + 1
              /\ \E r \in Run : runs' = Append(rows, r) /\ (r = Other \/ Continues(r, rows))

\* A row with another result or fact is a row.
LEMMA RowType ==
    ASSUME NEW r \in Run, NEW t \in Terminal
    PROVE  /\ [r EXCEPT !.row = t] \in Run /\ [r EXCEPT !.fact = t] \in Run
           /\ [r EXCEPT !.row = t].row = t /\ [r EXCEPT !.row = t].fact = r.fact
           /\ [r EXCEPT !.fact = t].row = r.row /\ [r EXCEPT !.fact = t].fact = t
           /\ [r EXCEPT !.row = t].goal = r.goal /\ [r EXCEPT !.fact = t].goal = r.goal
           /\ [r EXCEPT !.row = t].generation = r.generation
           /\ [r EXCEPT !.fact = t].generation = r.generation
           /\ [r EXCEPT !.row = t].prior = r.prior /\ [r EXCEPT !.fact = t].prior = r.prior
           /\ [r EXCEPT !.row = t].followup = r.followup
           /\ [r EXCEPT !.fact = t].followup = r.followup
           /\ [r EXCEPT !.row = t].objective = r.objective
           /\ [r EXCEPT !.fact = t].objective = r.objective
BY DEF Run

LEMMA FactType == \A r \in Run : r.fact # "none" => r.fact \in Terminal
BY DEF Run

\* One row that had no result changes.
LEMMA OneSettles ==
    ASSUME RowTypes, RowsConfirmed, NEW p \in 1 .. Len(runs), NEW rows,
           \/ /\ runs[p].fact # "none"
              /\ rows = [runs EXCEPT ![p].row = runs[p].fact]
           \/ /\ runs[p].fact = "none"
              /\ \E result \in Terminal : rows = [runs EXCEPT ![p].fact = result]
    PROVE  Settles(rows) /\ rows \in Seq(Run)
<1>1. runs \in Seq(Run) /\ runs[p] \in Run /\ p \in DOMAIN runs
  BY DEF RowTypes
<1>2. PICK r : rows = [runs EXCEPT ![p] = r] /\
         \/ runs[p].fact # "none" /\ r = [runs[p] EXCEPT !.row = runs[p].fact]
         \/ runs[p].fact = "none" /\ \E result \in Terminal : r = [runs[p] EXCEPT !.fact = result]
  OBVIOUS
<1> DEFINE old == runs[p]
<1>3. /\ r \in Run
      /\ r.goal = old.goal /\ r.generation = old.generation
      /\ r.prior = old.prior /\ r.followup = old.followup /\ r.objective = old.objective
  <2>0. /\ old \in Run
        /\ \/ old.fact # "none" /\ r = [old EXCEPT !.row = old.fact]
           \/ old.fact = "none" /\ \E result \in Terminal : r = [old EXCEPT !.fact = result]
    BY <1>1, <1>2
  <2> HIDE DEF old
  <2>1. CASE old.fact # "none" /\ r = [old EXCEPT !.row = old.fact]
    BY <2>0, <2>1, FactType, RowType
  <2>2. ASSUME NEW result \in Terminal, r = [old EXCEPT !.fact = result]
        PROVE  /\ r \in Run
               /\ r.goal = old.goal /\ r.generation = old.generation
               /\ r.prior = old.prior /\ r.followup = old.followup /\ r.objective = old.objective
    BY <2>0, <2>2, RowType
  <2> QED
    BY <2>0, <2>1, <2>2
<1>4. runs[p].row # "admitted" => runs[p].row = runs[p].fact /\ runs[p].fact # "none"
  BY <1>1 DEF RowsConfirmed, Run, Terminal, Continuable
<1>5. /\ runs[p].row # "admitted" => r.row = runs[p].row /\ r.fact = runs[p].fact
      /\ r.row # "admitted" => r.row = r.fact
  BY <1>1, <1>2, <1>4 DEF Run
<1>6. rows \in Seq(Run) /\ Len(rows) = Len(runs)
  BY <1>1, <1>2, <1>3
<1>7. \A i \in 1 .. Len(runs) : rows[i] = IF i = p THEN r ELSE runs[i]
  BY <1>1, <1>2
<1> QED
  BY <1>3, <1>5, <1>6, <1>7 DEF Settles, RowsConfirmed

LEMMA NoneSettles == ASSUME RowTypes, RowsConfirmed PROVE Settles(runs) /\ runs \in Seq(Run)
BY DEF RowTypes, RowsConfirmed, Settles

\* The next turn of the chain is a row.
LEMMA NextTurnType ==
    ASSUME StoreTypes, NEW rows, NEW p \in 0 .. MaxRuns, Ready
    PROVE  /\ NextTurn(p, rows) \in Run
           /\ NextTurn(p, rows).goal = goal.id /\ NextTurn(p, rows).generation = goal.generation
           /\ NextTurn(p, rows).goal \in GoalId
           /\ NextTurn(p, rows).prior = p /\ NextTurn(p, rows).row = "admitted"
           /\ NextTurn(p, rows).fact = "none"
           /\ NextTurn(p, rows).followup <=> (p # NoRun \/ Prompted(rows))
           /\ ~ NextTurn(p, rows).followup => NextTurn(p, rows).objective = goal.objective
<1> DEFINE f == p # NoRun \/ Prompted(rows)
           o == IF f THEN NoObjective ELSE goal.objective
<1>1. /\ goal \in Goal /\ initial.id = goal.id /\ initial.generation = goal.generation
      /\ f \in BOOLEAN
  BY DEF Ready, Current, GoalActive, HasGoal, StoreTypes
<1>2. /\ goal.id \in GoalId /\ goal.generation \in 0 .. MaxGeneration
      /\ o \in Objective \cup {NoObjective}
  BY <1>1 DEF Goal, Generation
<1>3. NextTurn(p, rows) = [goal |-> goal.id, generation |-> goal.generation, prior |-> p, followup |-> f,
         objective |-> o, row |-> "admitted", fact |-> "none"]
  BY <1>1 DEF NextTurn
<1> HIDE DEF f
<1>4. o = IF f THEN NoObjective ELSE goal.objective
  OBVIOUS
<1> HIDE DEF o
<1>5. NextTurn(p, rows) \in Run
  BY <1>1, <1>2, <1>3 DEF Run
<1>6. /\ NextTurn(p, rows).goal = goal.id /\ NextTurn(p, rows).generation = goal.generation
      /\ NextTurn(p, rows).prior = p /\ NextTurn(p, rows).row = "admitted"
      /\ NextTurn(p, rows).fact = "none"
      /\ NextTurn(p, rows).followup = f /\ NextTurn(p, rows).objective = o
  BY <1>3
<1>7. f <=> (p # NoRun \/ Prompted(rows))
  BY DEF f
<1> QED
  BY <1>2, <1>4, <1>5, <1>6, <1>7

LEMMA OtherType == Other \in Run /\ Other.goal = NoId /\ Other.prior = NoRun /\ Other.row = "admitted" /\ Other.fact = "none"
BY BoundsAssumption DEF Other, Run

\* Submitting the next turn behind the rows that have been looked up.
LEMMA DecidedRows ==
    ASSUME StoreTypes, RowTypes, RowsConfirmed,
           NEW rows, Settles(rows), rows \in Seq(Run), NEW p \in 0 .. Len(rows), Decide(p, rows),
           Latest(p, rows), p # NoRun => rows[p].row # "admitted"
    PROVE  RowsEffect
<1>1. CASE runs' = rows /\ active' = active
  BY <1>1 DEF RowsEffect
<1>2. CASE ~ (runs' = rows /\ active' = active)
  <2>1. /\ ~ MustBlock(p, rows) /\ ~ MustPause(p, rows) /\ Ready
        /\ Len(rows) < MaxRuns
        /\ runs' = Append(rows, NextTurn(p, rows)) /\ active' = Len(rows) + 1
    BY <1>2, Decided
  <2>2. Len(rows) \in Nat /\ Len(rows) <= MaxRuns /\ p \in 0 .. MaxRuns
    BY BoundsAssumption DEF Settles, RowTypes
  <2>3. NextTurn(p, rows) \in Run
    BY <2>1, <2>2, NextTurnType
  <2>4. p # NoRun => rows[p] \in Run
    OBVIOUS
  <2>5. p # NoRun => rows[p].row \in Continuable
    BY <2>1, <2>4 DEF MustBlock, MustPause, Run, Terminal, Continuable
  <2>6. Continues(NextTurn(p, rows), rows)
    BY <2>1, <2>5 DEF Continues
  <2> QED
    BY <2>1, <2>3, <2>6 DEF RowsEffect
<1> QED
  BY <1>1, <1>2

\* Every step has one of these effects on the rows.
LEMMA RowsStep == StoreTypes /\ RowTypes /\ RowsConfirmed /\ [Next]_vars => RowsEffect
<1> SUFFICES ASSUME StoreTypes /\ RowTypes /\ RowsConfirmed, [Next]_vars PROVE RowsEffect
  OBVIOUS
<1>1. ASSUME NEW o \in Objective, NEW b \in Budget \cup {NoBudget}, CreateGoal(o, b) PROVE RowsEffect
  BY <1>1, NoneSettles DEF RowsEffect, CreateGoal
<1>2. ASSUME NEW o \in Objective, NEW b \in Budget \cup {NoBudget}, EditGoal(o, b) PROVE RowsEffect
  BY <1>2, NoneSettles DEF RowsEffect, EditGoal
<1>3. ASSUME PauseGoal PROVE RowsEffect
  BY <1>3, NoneSettles DEF RowsEffect, PauseGoal, CancelToPause
<1>4. ASSUME NEW reason \in {"paused", "other"}, CancelRun(reason) PROVE RowsEffect
  BY <1>4, NoneSettles DEF RowsEffect, CancelRun
<1>5. ASSUME ClearGoal PROVE RowsEffect
  BY <1>5, NoneSettles DEF RowsEffect, ClearGoal, CancelToPause
<1>6. ASSUME ResumeGoal PROVE RowsEffect
  BY <1>6, NoneSettles DEF RowsEffect, ResumeGoal
<1>7. ASSUME Enqueue PROVE RowsEffect
  BY <1>7, NoneSettles DEF RowsEffect, Enqueue
<1>8. ASSUME DropQueue PROVE RowsEffect
  BY <1>8, NoneSettles DEF RowsEffect, DropQueue
<1>9. ASSUME OtherRunStarts PROVE RowsEffect
  BY <1>9, NoneSettles, OtherType DEF RowsEffect, StartRun, OtherRunStarts
<1>10. ASSUME QueuedRunStarts PROVE RowsEffect
  BY <1>10, NoneSettles, OtherType DEF RowsEffect, StartRun, QueuedRunStarts
<1>11. ASSUME QueuedRunFails PROVE RowsEffect
  BY <1>11, NoneSettles DEF RowsEffect, QueuedRunFails
<1>12. ASSUME BeginTurn PROVE RowsEffect
  BY <1>12, NoneSettles DEF RowsEffect, BeginTurn
<1>13. ASSUME StartRequest PROVE RowsEffect
  BY <1>13, NoneSettles DEF RowsEffect, StartRequest
<1>14. ASSUME EndRequest PROVE RowsEffect
  BY <1>14, NoneSettles DEF RowsEffect, EndRequest
<1>15. ASSUME QueueChild PROVE RowsEffect
  BY <1>15, NoneSettles DEF RowsEffect, QueueChild
<1>16. ASSUME StartChildRequest PROVE RowsEffect
  BY <1>16, NoneSettles DEF RowsEffect, StartChildRequest
<1>17. ASSUME EndChildRequest PROVE RowsEffect
  BY <1>17, NoneSettles DEF RowsEffect, EndChildRequest
<1>18. ASSUME ChildEnds PROVE RowsEffect
  BY <1>18, NoneSettles DEF RowsEffect, ChildEnds
<1>19. ASSUME NEW status \in {"completed", "blocked"}, GoalUpdate(status) PROVE RowsEffect
  BY <1>19, NoneSettles DEF RowsEffect, GoalUpdate
<1>20. ASSUME NEW result \in Terminal, WriteTerminal(result) PROVE RowsEffect
  <2>1. active \in 1 .. Len(runs) /\ runs[active].fact = "none"
    BY <1>20 DEF WriteTerminal, Working, RowTypes
  <2>2. Settles(runs') /\ runs' \in Seq(Run)
    BY <1>20, <2>1, OneSettles DEF WriteTerminal
  <2> QED
    BY <1>20, <2>2 DEF RowsEffect, WriteTerminal
<1>21. ASSUME FinishRun PROVE RowsEffect
  <2>1. active \in 1 .. Len(runs) /\ runs[active].fact # "none"
    BY <1>21 DEF FinishRun, Working, RowTypes
  <2>2. Settles(runs') /\ runs' \in Seq(Run)
    BY <1>21, <2>1, OneSettles DEF FinishRun
  <2> QED
    BY <1>21, <2>2 DEF RowsEffect, FinishRun, ReleaseRun
<1>22. ASSUME FinishFails PROVE RowsEffect
  BY <1>22, NoneSettles DEF RowsEffect, FinishFails, ReleaseRun
<1>23. ASSUME RunTick PROVE RowsEffect
  BY <1>23, NoneSettles DEF RowsEffect, RunTick
<1>24. ASSUME Resolve PROVE RowsEffect
  BY <1>24, NoneSettles DEF RowsEffect, Resolve, Await, GiveUp, Leave
<1>25. ASSUME WaitForIdle PROVE RowsEffect
  BY <1>25, NoneSettles DEF RowsEffect, WaitForIdle, Await, GiveUp, Leave
<1>26. ASSUME Admit PROVE RowsEffect
  BY <1>26, NoneSettles DEF RowsEffect, Admit, Await, GiveUp, Leave
<1>27. ASSUME ResolveAgain PROVE RowsEffect
  BY <1>27, NoneSettles DEF RowsEffect, ResolveAgain, Await, GiveUp, Leave
<1>28. ASSUME ReadCheckpoint PROVE RowsEffect
  BY <1>28, NoneSettles DEF RowsEffect, ReadCheckpoint, Await, GiveUp, Leave
<1>29. ASSUME CannotAdvance PROVE RowsEffect
  BY <1>29, NoneSettles DEF RowsEffect, CannotAdvance, StopGoal, Leave
<1>30. ASSUME BlockUnsafe PROVE RowsEffect
  BY <1>30, NoneSettles DEF RowsEffect, BlockUnsafe, StopGoal, Leave
<1>31. ASSUME Continue PROVE RowsEffect
  <2>1. CASE UNCHANGED <<runs, active>>
    BY <2>1, NoneSettles DEF RowsEffect
  <2>2. CASE ~ UNCHANGED <<runs, active>>
    <3>1. PICK p \in 0 .. Len(runs) :
              Latest(p, runs) /\ Decide(p, runs) /\ ~ (p # NoRun /\ runs[p].row = "admitted")
      BY <2>2, <1>31 DEF Continue, Await, GiveUp
    <3> QED
      BY <3>1, NoneSettles, DecidedRows
  <2> QED
    BY <2>1, <2>2
<1>32. ASSUME Reconcile PROVE RowsEffect
  <2>1. CASE UNCHANGED <<runs, active>>
    BY <2>1, NoneSettles DEF RowsEffect
  <2>2. CASE ~ UNCHANGED <<runs, active>>
    <3> DEFINE rows(p) == [runs EXCEPT ![p].row = runs[p].fact]
    <3>1. PICK p \in 1 .. Len(runs) :
              Latest(p, runs) /\ runs[p].fact # "none" /\ Decide(p, rows(p))
      BY <2>2, <1>32 DEF Reconcile
    <3>2. Settles(rows(p)) /\ rows(p) \in Seq(Run)
      BY <3>1, OneSettles
    <3>3. Len(rows(p)) = Len(runs) /\ p \in DOMAIN runs /\ runs[p] \in Run
      BY <3>2 DEF Settles, RowTypes
    <3>4. Latest(p, rows(p))
      <4>1. \A j \in 1 .. Len(runs) : SameSource(rows(p)[j]) <=> SameSource(runs[j])
        BY <3>2 DEF SameSource, Settles
      <4>2. p \in Nat /\ p # 0 /\ Len(runs) \in Nat
        BY <3>1, <3>3
      <4>3. SameSource(runs[p]) /\ \A j \in p + 1 .. Len(runs) : ~ SameSource(runs[j])
        BY <3>1, <4>2 DEF Latest
      <4> HIDE DEF rows
      <4>4. \A j \in p + 1 .. Len(rows(p)) : j \in 1 .. Len(runs)
        BY <3>3, <4>2
      <4> QED
        BY <3>1, <3>3, <4>1, <4>3, <4>4 DEF Latest
    <3>5. rows(p)[p].row = runs[p].fact /\ runs[p].fact # "admitted"
      BY <3>1, <3>3 DEF Run, Terminal, Continuable
    <3> HIDE DEF rows
    <3> QED
      BY <3>1, <3>2, <3>3, <3>4, <3>5, DecidedRows
  <2> QED
    BY <2>1, <2>2
<1>33. ASSUME StartHost PROVE RowsEffect
  <2> DEFINE settled(i) == IF runs[i].fact = "none" THEN runs[i] ELSE [runs[i] EXCEPT !.row = runs[i].fact]
  <2>1. runs' = [i \in 1 .. Len(runs) |-> settled(i)] /\ active' = active /\ Len(runs) \in Nat
    BY <1>33 DEF StartHost, RowTypes
  <2>2. \A i \in 1 .. Len(runs) :
           /\ settled(i) \in Run
           /\ settled(i).goal = runs[i].goal /\ settled(i).generation = runs[i].generation
           /\ settled(i).prior = runs[i].prior /\ settled(i).followup = runs[i].followup
           /\ settled(i).objective = runs[i].objective /\ settled(i).fact = runs[i].fact
           /\ settled(i).row = IF runs[i].fact = "none" THEN runs[i].row ELSE runs[i].fact
    <3> SUFFICES ASSUME NEW i \in 1 .. Len(runs) 
        PROVE  /\ settled(i) \in Run
               /\ settled(i).goal = runs[i].goal /\ settled(i).generation = runs[i].generation
               /\ settled(i).prior = runs[i].prior /\ settled(i).followup = runs[i].followup
               /\ settled(i).objective = runs[i].objective /\ settled(i).fact = runs[i].fact
               /\ settled(i).row = IF runs[i].fact = "none" THEN runs[i].row ELSE runs[i].fact
      OBVIOUS
    <3>1. runs[i] \in Run
      BY DEF RowTypes
    <3>2. CASE runs[i].fact = "none"
      BY <3>1, <3>2
    <3>3. CASE runs[i].fact # "none"
      <4>1. runs[i].fact \in Terminal
        BY <3>1, <3>3, FactType
      <4> QED
        BY <3>1, <3>3, <4>1, RowType, ZenonT(60)
    <3> QED
      BY <3>2, <3>3
  <2>3. \A i \in 1 .. Len(runs) : runs[i].row # "admitted" => runs[i].row = runs[i].fact /\ runs[i].fact # "none"
    <3>1. \A i \in 1 .. Len(runs) : runs[i] \in Run
      BY DEF RowTypes
    <3>2. \A i \in 1 .. Len(runs) : runs[i].row # "none"
      BY <3>1 DEF Run, Terminal, Continuable
    <3> QED
      BY <3>2 DEF RowsConfirmed
  <2> HIDE DEF settled
  <2>4. runs' \in Seq(Run) /\ Len(runs') = Len(runs) /\ \A i \in 1 .. Len(runs) : runs'[i] = settled(i)
    BY <2>1, <2>2
  <2>5. Settles(runs')
    BY <2>2, <2>3, <2>4 DEF Settles
  <2> QED
    BY <2>1, <2>4, <2>5 DEF RowsEffect
<1>34. ASSUME Drain PROVE RowsEffect
  BY <1>34, NoneSettles DEF RowsEffect, Drain
<1>35. ASSUME Exit PROVE RowsEffect
  BY <1>35, NoneSettles DEF RowsEffect, Exit, Forget
<1>36. ASSUME Crash PROVE RowsEffect
  BY <1>36, NoneSettles DEF RowsEffect, Crash, Forget
<1>37. ASSUME UNCHANGED vars PROVE RowsEffect
  BY <1>37, NoneSettles DEF RowsEffect, vars
<1> QED
  BY <1>1, <1>2, <1>3, <1>4, <1>5, <1>6, <1>7, <1>8, <1>9, <1>10, <1>11, <1>12, <1>13,
     <1>14, <1>15, <1>16, <1>17, <1>18, <1>19, <1>20, <1>21, <1>22, <1>23, <1>24, <1>25,
     <1>26, <1>27, <1>28, <1>29, <1>30, <1>31, <1>32, <1>33, <1>34, <1>35, <1>36, <1>37
     DEF Next, Users, Turns, Runner, Life

\* The rows keep their types, and their results stay confirmed.
LEMMA RowTypesStep == RowTypes /\ RowsConfirmed /\ RowsEffect => RowTypes' /\ RowsConfirmed'
<1> SUFFICES ASSUME RowTypes, RowsConfirmed, NEW rows \in Seq(Run), Settles(rows),
                    \/ runs' = rows /\ active' \in {active, NoRun}
                    \/ /\ Len(rows) < MaxRuns /\ active' = Len(rows) + 1
                       /\ \E r \in Run : runs' = Append(rows, r) /\ (r = Other \/ Continues(r, rows))
             PROVE  RowTypes' /\ RowsConfirmed'
  BY DEF RowsEffect
<1>1. CASE runs' = rows /\ active' \in {active, NoRun}
  BY <1>1 DEF Settles, RowTypes, RowsConfirmed
<1>2. ASSUME Len(rows) < MaxRuns, active' = Len(rows) + 1,
             NEW r \in Run, runs' = Append(rows, r), r.row = "admitted"
      PROVE  RowTypes' /\ RowsConfirmed'
  <2>1. /\ runs' \in Seq(Run) /\ Len(runs') = Len(rows) + 1 /\ Len(rows) \in Nat
        /\ runs'[Len(rows) + 1] = r /\ \A i \in 1 .. Len(rows) : runs'[i] = rows[i]
    BY <1>2
  <2> QED
    BY BoundsAssumption, <1>2, <2>1 DEF Settles, RowTypes, RowsConfirmed
<1>3. \A r : r = Other \/ Continues(r, rows) => r.row = "admitted"
  BY OtherType DEF Continues, NextTurn
<1> QED
  BY <1>1, <1>2, <1>3

-----------------------------------------------------------------------------
(* What the agents remember.                                               *)

\* What the agents remember keeps its types.
LEMMA AgentStep == StoreTypes /\ AgentTypes /\ [Next]_vars => AgentTypes'
<1> SUFFICES ASSUME StoreTypes /\ AgentTypes, [Next]_vars PROVE AgentTypes'
  OBVIOUS
<1> USE DEF AgentTypes
<1>1. ASSUME NEW o \in Objective, NEW b \in Budget \cup {NoBudget}, CreateGoal(o, b) PROVE AgentTypes'
  BY <1>1 DEF CreateGoal
<1>2. ASSUME NEW o \in Objective, NEW b \in Budget \cup {NoBudget}, EditGoal(o, b) PROVE AgentTypes'
  BY <1>2 DEF EditGoal
<1>3. ASSUME PauseGoal PROVE AgentTypes'
  BY <1>3 DEF PauseGoal, CancelToPause
<1>4. ASSUME NEW reason \in {"paused", "other"}, CancelRun(reason) PROVE AgentTypes'
  BY <1>4 DEF CancelRun
<1>5. ASSUME ClearGoal PROVE AgentTypes'
  BY <1>5 DEF ClearGoal, CancelToPause
<1>6. ASSUME ResumeGoal PROVE AgentTypes'
  BY <1>6 DEF ResumeGoal
<1>7. ASSUME Enqueue PROVE AgentTypes'
  BY <1>7 DEF Enqueue
<1>8. ASSUME DropQueue PROVE AgentTypes'
  BY <1>8 DEF DropQueue
<1>9. ASSUME OtherRunStarts PROVE AgentTypes'
  BY <1>9 DEF OtherRunStarts, StartRun
<1>10. ASSUME QueuedRunStarts PROVE AgentTypes'
  BY <1>10 DEF QueuedRunStarts, StartRun
<1>11. ASSUME QueuedRunFails PROVE AgentTypes'
  BY <1>11 DEF QueuedRunFails
<1>12. ASSUME BeginTurn PROVE AgentTypes'
  BY <1>12 DEF BeginTurn, NoAnswer, Request, GoalActive, HasGoal, StoreTypes, Goal
<1>13. ASSUME StartRequest PROVE AgentTypes'
  <2>1. request' = [open |-> TRUE,
                    charged |-> IF HasGoal /\ goal.id = bound' THEN goal.id ELSE NoId,
                    seen |-> IF GoalActive
                             THEN [id |-> goal.id, generation |-> goal.generation, objective |-> goal.objective]
                             ELSE NoGoal]
        /\ bound' = (IF GoalActive THEN goal.id ELSE bound) /\ child' = child
    BY <1>13 DEF StartRequest
  <2>2. HasGoal => goal.id \in GoalId /\ goal.generation \in Generation /\ goal.objective \in Objective
    BY DEF HasGoal, StoreTypes, Goal
  <2>3. request' \in Request
    BY <2>1, <2>2 DEF Request, Seen, GoalActive
  <2> QED
    BY <2>1, <2>2, <2>3 DEF GoalActive
<1>14. ASSUME EndRequest PROVE AgentTypes'
  <2>1. request \in Request /\ request' = [request EXCEPT !.open = FALSE] /\ UNCHANGED <<bound, child>>
    BY <1>14 DEF EndRequest, Requesting
  <2>2. request' \in Request
    BY <2>1 DEF Request
  <2> QED
    BY <2>1, <2>2
<1>15. ASSUME QueueChild PROVE AgentTypes'
  BY <1>15 DEF QueueChild, GoalActive, HasGoal, StoreTypes, Goal, Child
<1>16. ASSUME StartChildRequest PROVE AgentTypes'
  <2>1. child \in Child /\ child' = [child EXCEPT !.open = TRUE] /\ UNCHANGED <<bound, request>>
    BY <1>16 DEF StartChildRequest
  <2>2. child' \in Child
    BY <2>1 DEF Child
  <2> QED
    BY <2>1, <2>2
<1>17. ASSUME EndChildRequest PROVE AgentTypes'
  <2>1. child \in Child /\ child' = [child EXCEPT !.open = FALSE] /\ UNCHANGED <<bound, request>>
    BY <1>17 DEF EndChildRequest
  <2>2. child' \in Child
    BY <2>1 DEF Child
  <2> QED
    BY <2>1, <2>2
<1>18. ASSUME ChildEnds PROVE AgentTypes'
  BY <1>18 DEF ChildEnds
<1>19. ASSUME NEW status \in {"completed", "blocked"}, GoalUpdate(status) PROVE AgentTypes'
  BY <1>19 DEF GoalUpdate
<1>20. ASSUME NEW result \in Terminal, WriteTerminal(result) PROVE AgentTypes'
  BY <1>20 DEF WriteTerminal
<1>21. ASSUME FinishRun PROVE AgentTypes'
  BY <1>21 DEF FinishRun, ReleaseRun
<1>22. ASSUME FinishFails PROVE AgentTypes'
  BY <1>22 DEF FinishFails, ReleaseRun
<1>23. ASSUME RunTick PROVE AgentTypes'
  BY <1>23 DEF RunTick
<1>24. ASSUME Resolve PROVE AgentTypes'
  BY <1>24 DEF Resolve, Await, GiveUp, Leave
<1>25. ASSUME WaitForIdle PROVE AgentTypes'
  BY <1>25 DEF WaitForIdle, Await, GiveUp, Leave
<1>26. ASSUME Admit PROVE AgentTypes'
  BY <1>26 DEF Admit, Await, GiveUp, Leave
<1>27. ASSUME ResolveAgain PROVE AgentTypes'
  BY <1>27 DEF ResolveAgain, Await, GiveUp, Leave
<1>28. ASSUME ReadCheckpoint PROVE AgentTypes'
  BY <1>28 DEF ReadCheckpoint, Await, GiveUp, Leave
<1>29. ASSUME CannotAdvance PROVE AgentTypes'
  BY <1>29 DEF CannotAdvance, StopGoal, Leave
<1>30. ASSUME BlockUnsafe PROVE AgentTypes'
  BY <1>30 DEF BlockUnsafe, StopGoal, Leave
<1>31. ASSUME Continue PROVE AgentTypes'
  <2>1. CASE \E p \in 0 .. Len(runs) : Decide(p, runs)
    BY <2>1, Decided
  <2>2. CASE ~ \E p \in 0 .. Len(runs) : Decide(p, runs)
    BY <2>2, <1>31 DEF Continue, Await, GiveUp
  <2> QED
    BY <2>1, <2>2
<1>32. ASSUME Reconcile PROVE AgentTypes'
  <2>1. CASE \E p, rows : Decide(p, rows)
    BY <2>1, Decided
  <2>2. CASE ~ \E p, rows : Decide(p, rows)
    BY <2>2, <1>32 DEF Reconcile
  <2> QED
    BY <2>1, <2>2
<1>33. ASSUME StartHost PROVE AgentTypes'
  BY <1>33 DEF StartHost
<1>34. ASSUME Drain PROVE AgentTypes'
  BY <1>34 DEF Drain
<1>35. ASSUME Exit PROVE AgentTypes'
  BY <1>35 DEF Exit, Forget
<1>36. ASSUME Crash PROVE AgentTypes'
  BY <1>36 DEF Crash, Forget
<1>37. ASSUME UNCHANGED vars PROVE AgentTypes'
  BY <1>37 DEF vars
<1> QED
  BY <1>1, <1>2, <1>3, <1>4, <1>5, <1>6, <1>7, <1>8, <1>9, <1>10, <1>11, <1>12, <1>13,
     <1>14, <1>15, <1>16, <1>17, <1>18, <1>19, <1>20, <1>21, <1>22, <1>23, <1>24, <1>25,
     <1>26, <1>27, <1>28, <1>29, <1>30, <1>31, <1>32, <1>33, <1>34, <1>35, <1>36, <1>37
     DEF Next, Users, Turns, Runner, Life

-----------------------------------------------------------------------------
(* The chain of runs.                                                      *)

\* A run that works for no goal continues nothing.
LooseRuns == \A i \in 1 .. Len(runs) : runs[i].goal = NoId => runs[i].prior = NoRun

\* A row keeps what it was admitted with, and its result once it has one.
Kept ==
    /\ Len(runs') \in {Len(runs), Len(runs) + 1}
    /\ \A i \in 1 .. Len(runs) :
          /\ runs'[i].goal = runs[i].goal /\ runs'[i].generation = runs[i].generation
          /\ runs'[i].prior = runs[i].prior /\ runs'[i].followup = runs[i].followup
          /\ runs'[i].objective = runs[i].objective
          /\ runs[i].row # "admitted" => runs'[i].row = runs[i].row /\ runs'[i].fact = runs[i].fact

Kin(row, r) == row.goal = r.goal /\ row.generation = r.generation

\* What the runner has made sure of when it adds row r behind n rows.
NewTurn(r, n, rows) ==
    /\ r.goal \in GoalId
    /\ r.prior \in 0 .. n
    /\ r.prior # NoRun =>
          /\ Kin(rows[r.prior], r)
          /\ rows[r.prior].row \in Continuable
          /\ ~ (rows[r.prior].row = "idle" /\ rows[r.prior].followup /\ r.prior = n)
    /\ \A j \in r.prior + 1 .. n : ~ Kin(rows[j], r)
    /\ \A o \in 1 .. r.prior :
          LET last == {j \in o .. r.prior : Kin(rows[j], r)}
          IN  Cardinality(last) >= 3 => \E j \in last : rows[j].row # "empty"
    /\ ~ r.followup =>
          \A i \in 1 .. n :
             /\ rows[i].goal = r.goal /\ ~ rows[i].followup
             /\ \A j \in i + 1 .. n : ~ (rows[j].goal = r.goal /\ ~ rows[j].followup)
             => rows[i].objective # r.objective

\* A row that a step adds is not for a goal, or it is the next turn of the goal.
Addable(r) ==
    \/ r.goal = NoId /\ r.prior = NoRun
    \/ /\ Ready /\ r.goal = goal.id /\ r.generation = goal.generation
       /\ NewTurn(r, Len(runs), runs')

AddedRow == Len(runs') = Len(runs) + 1 => Addable(runs'[Len(runs) + 1])

\* The effect of a step on the chain.
LEMMA ChainEffect ==
    ASSUME StoreTypes, RowTypes, RowsConfirmed, RowsEffect
    PROVE  Kept /\ AddedRow
<1> SUFFICES ASSUME NEW rows \in Seq(Run), Settles(rows),
                    \/ runs' = rows /\ active' \in {active, NoRun}
                    \/ /\ Len(rows) < MaxRuns /\ active' = Len(rows) + 1
                       /\ \E r \in Run : runs' = Append(rows, r) /\ (r = Other \/ Continues(r, rows))
             PROVE  Kept /\ AddedRow
  BY DEF RowsEffect
<1> DEFINE n == Len(runs)
<1>0. n \in Nat /\ Len(rows) = n
  BY DEF RowTypes, Settles
<1>1. CASE runs' = rows
  BY <1>0, <1>1 DEF Settles, Kept, AddedRow
<1>2. ASSUME NEW r \in Run, runs' = Append(rows, r), r = Other \/ Continues(r, rows)
      PROVE  Kept /\ AddedRow
  <2>1. Len(runs') = n + 1 /\ runs'[n + 1] = r /\ \A i \in 1 .. n : runs'[i] = rows[i]
    BY <1>0, <1>2
  <2>2. Kept
    BY <1>0, <2>1 DEF Settles, Kept
  <2>3. CASE r = Other
    <3>1. Addable(r)
      BY <2>3, OtherType DEF Addable
    <3> QED
      BY <2>1, <2>2, <3>1 DEF AddedRow
  <2>4. CASE Continues(r, rows)
    <3>1. PICK p \in 0 .. n :
              /\ r = NextTurn(p, rows)
              /\ Latest(p, rows) /\ ~ MustBlock(p, rows) /\ ~ MustPause(p, rows)
              /\ p # NoRun => rows[p].row \in Continuable
      BY <1>0, <2>4 DEF Continues
    <3>2. Ready /\ initial.id = goal.id /\ initial.generation = goal.generation
      BY <2>4 DEF Continues, Ready, Current
    <3>3. p \in 0 .. MaxRuns
      BY BoundsAssumption, <1>0, <3>1 DEF RowTypes
    <3>4. /\ r.goal = goal.id /\ r.generation = goal.generation /\ r.goal \in GoalId
          /\ r.prior = p
          /\ r.followup <=> (p # NoRun \/ Prompted(rows))
          /\ ~ r.followup => r.objective = goal.objective
      BY <3>1, <3>2, <3>3, NextTurnType
    <3>5. \A row : SameSource(row) <=> Kin(row, r)
      BY <3>2, <3>4 DEF SameSource, Kin
    <3>6. /\ p # NoRun => Kin(rows[p], r)
          /\ \A j \in p + 1 .. n : ~ Kin(rows[j], r)
      BY <1>0, <3>1, <3>5 DEF Latest
    <3>7. p # NoRun => rows[p].row \in Continuable /\ ~ (rows[p].row = "idle" /\ rows[p].followup /\ p = n)
      BY <1>0, <3>1 DEF MustPause, Idles
    <3>8. \A o \in 1 .. p :
             LET last == {j \in o .. p : Kin(rows[j], r)}
             IN  Cardinality(last) >= 3 => \E j \in last : rows[j].row # "empty"
      <4>1. CASE p = 0
        BY <4>1
      <4>2. CASE p # 0
        <5>1. ~ ThreeEmpty(p, rows)
          BY <3>1, <4>2 DEF MustBlock
        <5>2. \A o \in 1 .. p : {j \in o .. p : SameSource(rows[j])} = {j \in o .. p : Kin(rows[j], r)}
          BY <3>5
        <5> QED
          BY <5>1, <5>2 DEF ThreeEmpty
      <4> QED
        BY <4>1, <4>2
    <3>9. ~ r.followup =>
             \A i \in 1 .. n :
                /\ rows[i].goal = r.goal /\ ~ rows[i].followup
                /\ \A j \in i + 1 .. n : ~ (rows[j].goal = r.goal /\ ~ rows[j].followup)
                => rows[i].objective # r.objective
      BY <1>0, <3>2, <3>4 DEF Prompted
    <3>10. NewTurn(r, n, runs')
      <4>1. \A o \in 1 .. p : {j \in o .. p : Kin(rows[j], r)} = {j \in o .. p : Kin(runs'[j], r)}
        BY <2>1, <1>0
      <4>2. \A o \in 1 .. p :
               LET last == {j \in o .. p : Kin(runs'[j], r)}
               IN  Cardinality(last) >= 3 => \E j \in last : runs'[j].row # "empty"
        <5> SUFFICES ASSUME NEW o \in 1 .. p, Cardinality({j \in o .. p : Kin(runs'[j], r)}) >= 3
                     PROVE  \E j \in {j \in o .. p : Kin(runs'[j], r)} : runs'[j].row # "empty"
          BY Zenon
        <5>1. Cardinality({j \in o .. p : Kin(rows[j], r)}) >= 3
          BY <4>1, Zenon
        <5>2. PICK j \in {j \in o .. p : Kin(rows[j], r)} : rows[j].row # "empty"
          BY <3>8, <5>1, Zenon
        <5>3. j \in {k \in o .. p : Kin(runs'[k], r)}
          BY <4>1, <5>2, Zenon
        <5>4. j \in 1 .. n
          BY <1>0, <5>2
        <5>5. runs'[j] = rows[j]
          BY <2>1, <5>4
        <5>6. runs'[j].row # "empty"
          BY <5>2, <5>5
        <5> QED
          BY <5>3, <5>6, Zenon
      <4>3. \A j \in p + 1 .. n : ~ Kin(runs'[j], r)
        BY <1>0, <2>1, <3>6
      <4>4. p # NoRun => runs'[p] = rows[p]
        BY <1>0, <2>1
      <4>5. ~ r.followup =>
               \A i \in 1 .. n :
                  /\ runs'[i].goal = r.goal /\ ~ runs'[i].followup
                  /\ \A j \in i + 1 .. n : ~ (runs'[j].goal = r.goal /\ ~ runs'[j].followup)
                  => runs'[i].objective # r.objective
        <5>1. \A j \in 1 .. n : runs'[j] = rows[j]
          BY <2>1
        <5>2. \A i \in 1 .. n : \A j \in i + 1 .. n : j \in 1 .. n
          BY <1>0
        <5> HIDE DEF n
        <5> QED
          BY <3>9, <5>1, <5>2
      <4> QED
        BY <3>4, <3>6, <3>7, <4>2, <4>3, <4>4, <4>5 DEF NewTurn
    <3> QED
      <4>1. Addable(r)
        BY <3>2, <3>4, <3>10 DEF Addable
      <4> QED
        BY <2>1, <2>2, <4>1 DEF AddedRow
  <2> QED
    BY <1>2, <2>2, <2>3, <2>4
<1> QED
  BY <1>1, <1>2

\* ChainContinues for one row.
Chained(i, rows) ==
    LET p == rows[i].prior
    IN  GoalRun(rows[i]) =>
          /\ p < i
          /\ \A j \in p + 1 .. i - 1 : ~ Kin(rows[j], rows[i])
          /\ p # NoRun => /\ Kin(rows[p], rows[i])
                          /\ rows[p].row \in Continuable
                          /\ rows[p].row = rows[p].fact

LEMMA ChainByRow == ChainContinues <=> \A i \in DOMAIN runs : Chained(i, runs)
BY DEF ChainContinues, Chained, Siblings, Kin

LEMMA ChainByRowNext == ChainContinues' <=> \A i \in DOMAIN runs' : Chained(i, runs')
BY DEF ChainContinues, Chained, Siblings, Kin

\* The indices of rows.
LEMMA Indices ==
    ASSUME RowTypes, RowTypes', Kept
    PROVE  /\ Len(runs) \in Nat /\ DOMAIN runs = 1 .. Len(runs) /\ DOMAIN runs' = 1 .. Len(runs')
           /\ Len(runs') \in {Len(runs), Len(runs) + 1} /\ Len(runs') \in Nat
           /\ \A i \in 1 .. Len(runs) : runs[i] \in Run /\ runs[i].prior \in Nat
           /\ \A i \in 1 .. Len(runs') : runs'[i] \in Run /\ runs'[i].prior \in Nat
<1>1. \A r \in Run : r.prior \in Nat
  BY DEF Run
<1> QED
  BY <1>1 DEF RowTypes, Kept

\* Every row continues the row of its chain that came last, and a confirmed one.
LEMMA ChainStep ==
    ASSUME RowTypes, RowTypes', RowsConfirmed, RowsConfirmed', ChainContinues, LooseRuns, Kept, AddedRow
    PROVE  ChainContinues' /\ LooseRuns'
<1> DEFINE n == Len(runs)
<1>0. /\ n \in Nat /\ Len(runs) = n /\ DOMAIN runs = 1 .. n /\ DOMAIN runs' = 1 .. Len(runs') /\ Len(runs') \in {n, n + 1}
      /\ \A i \in 1 .. n : runs[i].prior \in Nat
  BY Indices
<1> HIDE DEF n
<1>1. ASSUME NEW i \in 1 .. n PROVE runs'[i].goal = NoId => runs'[i].prior = NoRun
  BY <1>0, <1>1 DEF Kept, LooseRuns
<1>2. ASSUME NEW i \in 1 .. n PROVE Chained(i, runs')
  <2> SUFFICES ASSUME GoalRun(runs'[i]) PROVE Chained(i, runs')
    BY DEF Chained
  <2> DEFINE p == runs[i].prior
  <2>1. runs'[i].prior = p /\ GoalRun(runs[i]) /\ p \in Nat
    BY <1>0 DEF Kept, GoalRun
  <2>2. Chained(i, runs)
    BY <1>0, ChainByRow
  <2>3. /\ p < i
        /\ \A j \in p + 1 .. i - 1 : ~ Kin(runs[j], runs[i])
        /\ p # NoRun => Kin(runs[p], runs[i]) /\ runs[p].row \in Continuable /\ runs[p].row = runs[p].fact
    BY <2>1, <2>2 DEF Chained
  <2> HIDE DEF p
  <2>4. \A j \in 1 .. n : Kin(runs'[j], runs'[i]) <=> Kin(runs[j], runs[i])
    BY <1>0 DEF Kin, Kept
  <2>5. \A j \in p + 1 .. i - 1 : j \in 1 .. n
    <3>1. p \in Nat /\ n \in Nat
      BY <1>0, <2>1
    <3> QED
      BY <3>1
  <2>6. p # NoRun => p \in 1 .. n
    <3>1. p < i /\ p \in Nat
      BY <2>1, <2>3
    <3>2. i \in Nat /\ i <= n
      BY <1>0
    <3>3. n \in Nat
      BY <1>0
    <3> QED
      BY <3>1, <3>2, <3>3
  <2>7. p # NoRun => runs'[p].row = runs[p].row /\ runs'[p].fact = runs[p].fact
    BY <1>0, <2>3, <2>6 DEF Kept, Continuable
  <2> QED
    BY <2>1, <2>3, <2>4, <2>5, <2>6, <2>7 DEF Chained
<1>3. ASSUME Len(runs') = n + 1
      PROVE  /\ runs'[n + 1].goal = NoId => runs'[n + 1].prior = NoRun
             /\ Chained(n + 1, runs')
  <2> DEFINE r == runs'[n + 1]
  <2>1. Addable(r)
    BY <1>0, <1>3 DEF AddedRow
  <2>2. r.goal = NoId => r.prior = NoRun
    BY NullAssumption, <2>1 DEF Addable, NewTurn
  <2>3. ASSUME GoalRun(r), NewTurn(r, n, runs') PROVE Chained(n + 1, runs')
    <3>1. r.prior \in 0 .. n /\ \A j \in r.prior + 1 .. n : ~ Kin(runs'[j], r)
      BY <2>3 DEF NewTurn
    <3>2. r.prior # NoRun => Kin(runs'[r.prior], r) /\ runs'[r.prior].row \in Continuable
      BY <2>3 DEF NewTurn
    <3>3. r.prior # NoRun => runs'[r.prior].row = runs'[r.prior].fact
      BY <1>0, <1>3, <3>1, <3>2 DEF RowsConfirmed, Continuable
    <3>4. r.prior < n + 1 /\ (n + 1) - 1 = n
      BY <1>0, <3>1
    <3> QED
      BY <3>1, <3>2, <3>3, <3>4 DEF Chained
  <2> QED
    BY <1>0, <2>1, <2>2, <2>3 DEF Addable, GoalRun, Chained
<1>6. ASSUME NEW i \in 1 .. Len(runs') PROVE i \in 1 .. n \/ (i = n + 1 /\ Len(runs') = n + 1)
  <2>1. CASE Len(runs') = n
    BY <2>1
  <2>2. CASE Len(runs') = n + 1
    BY <1>0, <2>2
  <2> QED
    BY <1>0, <2>1, <2>2
<1>4. LooseRuns'
  <2> SUFFICES ASSUME NEW i \in 1 .. Len(runs') PROVE runs'[i].goal = NoId => runs'[i].prior = NoRun
    BY DEF LooseRuns
  <2> QED
    BY <1>1, <1>3, <1>6
<1>5. ASSUME NEW i \in DOMAIN runs' PROVE Chained(i, runs')
  <2>1. i \in 1 .. n \/ (i = n + 1 /\ Len(runs') = n + 1)
    BY <1>0, <1>5, <1>6
  <2> QED
    BY <1>2, <1>3, <2>1
<1> QED
  BY <1>4, <1>5, ChainByRowNext

\* An index is that of an old row or of the row a step has added.
LEMMA OldOrNew ==
    ASSUME RowTypes, RowTypes', Kept, NEW i \in 1 .. Len(runs')
    PROVE  i \in 1 .. Len(runs) \/ (i = Len(runs) + 1 /\ Len(runs') = Len(runs) + 1)
<1> DEFINE n == Len(runs)
<1>0. n \in Nat /\ Len(runs) = n /\ Len(runs') \in {n, n + 1}
  BY Indices
<1> HIDE DEF n
<1>1. CASE Len(runs') = n
  BY <1>0, <1>1
<1>2. CASE Len(runs') = n + 1
  BY <1>0, <1>2
<1> QED
  BY <1>0, <1>1, <1>2

\* A continued row is an earlier one and does not change any more.
LEMMA PriorKept ==
    ASSUME RowTypes, RowTypes', ChainContinues, LooseRuns, Kept,
           NEW i \in 1 .. Len(runs), runs[i].prior # NoRun
    PROVE  LET p == runs[i].prior
           IN  /\ p \in 1 .. Len(runs) /\ p < i
               /\ runs'[i].prior = p
               /\ runs'[p].row = runs[p].row /\ runs'[p].followup = runs[p].followup
<1> DEFINE p == runs[i].prior
           n == Len(runs)
<1>1. GoalRun(runs[i]) /\ p # 0
  BY DEF LooseRuns, GoalRun
<1>2. n \in Nat /\ i \in 1 .. n /\ i \in DOMAIN runs /\ p \in Nat
  BY Indices
<1>3. p < i /\ runs[p].row \in Continuable
  BY <1>1, <1>2, ChainByRow DEF Chained
<1>4. p \in 1 .. n
  <2> HIDE DEF p, n
  <2>1. i \in Nat /\ i <= n
    BY <1>2
  <2>2. p < i
    BY <1>3
  <2> QED
    BY <1>1, <1>2, <2>1, <2>2
<1> QED
  BY <1>3, <1>4 DEF Kept, Continuable

\* The runner pauses after an automatic turn without work.
LEMMA IdleStep ==
    ASSUME RowTypes, RowTypes', ChainContinues, LooseRuns, IdleNeverRepeats, Kept, AddedRow
    PROVE  IdleNeverRepeats'
<1> DEFINE n == Len(runs)
<1>0. /\ n \in Nat /\ Len(runs) = n /\ DOMAIN runs = 1 .. n /\ DOMAIN runs' = 1 .. Len(runs')
  BY Indices
<1> SUFFICES ASSUME NEW i \in 1 .. Len(runs'), runs'[i].prior # NoRun, runs'[runs'[i].prior].followup,
                    runs'[runs'[i].prior].row = "idle"
             PROVE  runs'[i].prior + 1 < i
  BY <1>0 DEF IdleNeverRepeats
<1> HIDE DEF n
<1>1. CASE i \in 1 .. n
  <2>1. runs'[i].prior = runs[i].prior
    BY <1>0, <1>1 DEF Kept
  <2>2. runs[runs[i].prior].followup /\ runs[runs[i].prior].row = "idle"
    BY <1>0, <1>1, <2>1, PriorKept
  <2> QED
    BY <1>0, <1>1, <2>1, <2>2 DEF IdleNeverRepeats
<1>2. CASE i = n + 1 /\ Len(runs') = n + 1
  <2>1. NewTurn(runs'[i], n, runs')
    BY <1>0, <1>2 DEF AddedRow, Addable
  <2>2. runs'[i].prior \in 0 .. n /\ runs'[i].prior # n
    BY <2>1 DEF NewTurn
  <2> QED
    BY <1>0, <1>2, <2>2
<1> QED
  BY <1>0, <1>1, <1>2, OldOrNew

LEMMA OneMore ==
    ASSUME NEW S, NEW x, IsFiniteSet(S), x \notin S
    PROVE  IsFiniteSet(S \cup {x}) /\ Cardinality(S \cup {x}) = Cardinality(S) + 1
<1> QED
  BY FS_AddElement

LEMMA ThreeElements ==
    ASSUME NEW S, NEW a, NEW b, NEW c, S = {a, b, c}, a # b, b # c, a # c
    PROVE  Cardinality(S) = 3
<1>2. IsFiniteSet({a}) /\ Cardinality({a}) = 1
  BY FS_Singleton
<1>3. IsFiniteSet({a} \cup {b}) /\ Cardinality({a} \cup {b}) = 2
  <2>1. b \notin {a}
    OBVIOUS
  <2>2. IsFiniteSet({a} \cup {b}) /\ Cardinality({a} \cup {b}) = Cardinality({a}) + 1
    BY <1>2, <2>1, OneMore, Zenon
  <2> QED
    BY <1>2, <2>2
<1>4. Cardinality(({a} \cup {b}) \cup {c}) = 3
  <2>1. c \notin {a} \cup {b}
    OBVIOUS
  <2>2. Cardinality(({a} \cup {b}) \cup {c}) = Cardinality({a} \cup {b}) + 1
    BY <1>3, <2>1, OneMore, Zenon
  <2> QED
    BY <1>3, <2>2
<1>5. ({a} \cup {b}) \cup {c} = S
  OBVIOUS
<1> QED
  BY <1>4, <1>5, Zenon

\* The runner does not continue a chain whose last three rows are empty.
LEMMA ThreeKin ==
    ASSUME NEW n \in Nat, NEW rows, NEW r, NewTurn(r, n, rows),
           NEW p \in Nat, NEW q \in Nat, NEW o \in Nat, p = r.prior, 0 < o, o < q, q < p,
           Kin(rows[p], r), Kin(rows[q], rows[p]), Kin(rows[o], rows[q]),
           \A j \in q + 1 .. p - 1 : ~ Kin(rows[j], rows[p]),
           \A j \in o + 1 .. q - 1 : ~ Kin(rows[j], rows[q]),
           rows[p].row = "empty", rows[q].row = "empty", rows[o].row = "empty"
    PROVE  FALSE
<1> DEFINE T == {j \in o .. p : Kin(rows[j], r)}
<1>1. \A j : /\ Kin(rows[j], r) <=> Kin(rows[j], rows[p])
             /\ Kin(rows[j], r) <=> Kin(rows[j], rows[q])
  BY DEF Kin
<1>2. \A j \in o .. p : j \notin {o, q, p} => j \in o + 1 .. q - 1 \/ j \in q + 1 .. p - 1
  OBVIOUS
<1>3. \A j \in o .. p : Kin(rows[j], r) <=> j \in {o, q, p}
  BY <1>1, <1>2
<1>4. {o, q, p} \subseteq o .. p
  OBVIOUS
<1>5. T = {o, q, p}
  BY <1>3, <1>4
<1>6. Cardinality(T) >= 3 => \E j \in T : rows[j].row # "empty"
  <2>1. o \in 1 .. r.prior /\ T = {j \in o .. r.prior : Kin(rows[j], r)}
    OBVIOUS
  <2> QED
    BY <2>1 DEF NewTurn
<1> HIDE DEF T
<1>7. Cardinality(T) = 3
  <2>1. o # q /\ q # p /\ o # p
    OBVIOUS
  <2> QED
    BY <1>5, <2>1, ThreeElements
<1>8. \E j \in T : rows[j].row # "empty"
  BY <1>6, <1>7
<1> QED
  BY <1>5, <1>8

\* A run of a goal comes after the run it continues, and no kin lies between.
LEMMA PriorChained ==
    ASSUME RowTypes, RowTypes', Kept, ChainContinues', NEW i \in 1 .. Len(runs'), GoalRun(runs'[i]), runs'[i].prior # 0
    PROVE  LET p == runs'[i].prior
           IN  /\ p \in Nat /\ p \in 1 .. Len(runs') /\ p < i
               /\ Kin(runs'[p], runs'[i]) /\ GoalRun(runs'[p])
               /\ \A j \in p + 1 .. i - 1 : ~ Kin(runs'[j], runs'[i])
<1> DEFINE p == runs'[i].prior
           m == Len(runs')
<1>0. m \in Nat /\ DOMAIN runs' = 1 .. m /\ \A j \in 1 .. m : runs'[j].prior \in Nat
  BY Indices
<1>1. p \in Nat /\ p # 0 /\ m \in Nat /\ i \in DOMAIN runs' /\ i \in 1 .. m
  BY <1>0
<1>2. p < i /\ Kin(runs'[p], runs'[i]) /\ \A j \in p + 1 .. i - 1 : ~ Kin(runs'[j], runs'[i])
  BY <1>1, ChainByRowNext DEF Chained
<1> HIDE DEF p, m
<1>3. p \in 1 .. m
  BY <1>1, <1>2
<1>4. GoalRun(runs'[p])
  BY <1>2 DEF GoalRun, Kin
<1> QED
  BY <1>1, <1>2, <1>3, <1>4 DEF p, m

\* The runner blocks after the third empty answer.
LEMMA EmptyStep ==
    ASSUME RowTypes, RowTypes', ChainContinues, ChainContinues', LooseRuns, EmptyBounded, Kept, AddedRow
    PROVE  EmptyBounded'
<1> DEFINE n == Len(runs)
<1>0. n \in Nat /\ Len(runs) = n /\ DOMAIN runs = 1 .. n /\ DOMAIN runs' = 1 .. Len(runs')
  BY Indices
<1> SUFFICES ASSUME NEW i \in 1 .. Len(runs'), NEW p, p = runs'[i].prior, p # 0,
                    NEW q, q = runs'[p].prior, q # 0, NEW o, o = runs'[q].prior, o # 0,
                    runs'[p].row = "empty", runs'[q].row = "empty", runs'[o].row = "empty"
             PROVE  FALSE
  BY <1>0, ZenonT(40) DEF EmptyBounded
<1> HIDE DEF n
<1>1. CASE i \in 1 .. n
  <2>1. runs[i].prior = p
    BY <1>0, <1>1 DEF Kept
  <2>2. p \in 1 .. n /\ runs[p].row = "empty"
    BY <1>0, <1>1, <2>1, PriorKept
  <2>3. runs[p].prior = q
    BY <1>0, <2>2 DEF Kept
  <2>4. q \in 1 .. n /\ runs[q].row = "empty"
    <3>1. p \in 1 .. Len(runs) /\ runs[p].prior # 0
      BY <1>0, <2>2, <2>3
    <3>2. q \in 1 .. Len(runs) /\ runs'[q].row = runs[q].row
      BY <2>3, <3>1, PriorKept, ZenonT(60)
    <3> QED
      BY <1>0, <3>2
  <2>5. runs[q].prior = o
    BY <1>0, <2>4 DEF Kept
  <2>6. runs[o].row = "empty"
    <3>1. q \in 1 .. Len(runs) /\ runs[q].prior # 0
      BY <1>0, <2>4, <2>5
    <3>2. runs[o].row = runs'[o].row
      BY <2>5, <3>1, PriorKept, ZenonT(60)
    <3> QED
      BY <3>2
  <2>7. {runs[p].row, runs[q].row, runs[o].row} = {"empty"}
    BY <2>2, <2>4, <2>6
  <2> QED
    BY <1>0, <1>1, <2>1, <2>3, <2>5, <2>7 DEF EmptyBounded
<1>2. CASE i = n + 1 /\ Len(runs') = n + 1
  <2>1. NewTurn(runs'[i], n, runs') /\ GoalRun(runs'[i])
    <3>1. Addable(runs'[i])
      BY <1>0, <1>2 DEF AddedRow
    <3>2. NewTurn(runs'[i], n, runs')
      BY <1>0, <3>1 DEF Addable
    <3>3. runs'[i].goal \in GoalId
      BY <3>2 DEF NewTurn
    <3> QED
      BY <3>2, <3>3, NullAssumption DEF GoalRun
  <2>2. /\ p \in Nat /\ p \in 1 .. Len(runs') /\ p < i
        /\ Kin(runs'[p], runs'[i]) /\ GoalRun(runs'[p])
    BY <2>1, PriorChained
  <2>3. /\ q \in Nat /\ q \in 1 .. Len(runs') /\ q < p
        /\ Kin(runs'[q], runs'[p]) /\ GoalRun(runs'[q])
        /\ \A j \in q + 1 .. p - 1 : ~ Kin(runs'[j], runs'[p])
    BY <2>2, PriorChained
  <2>4. /\ o \in Nat /\ o < q
        /\ Kin(runs'[o], runs'[q])
        /\ \A j \in o + 1 .. q - 1 : ~ Kin(runs'[j], runs'[q])
    BY <2>3, PriorChained
  <2>5. 0 < o
    <3>1. o \in Nat /\ o # 0
      BY <2>4
    <3> QED
      BY <3>1
  <2> QED
    BY <1>0, <2>1, <2>2, <2>3, <2>4, <2>5, ThreeKin
<1> QED
  BY <1>0, <1>1, <1>2, OldOrNew

\* The runner compares with the last prompt of the goal.
LEMMA PromptStep ==
    ASSUME RowTypes, RowTypes', PromptOnce, Kept, AddedRow
    PROVE  PromptOnce'
<1> DEFINE n == Len(runs)
<1>0. /\ n \in Nat /\ Len(runs) = n /\ DOMAIN runs = 1 .. n /\ DOMAIN runs' = 1 .. Len(runs')
  BY Indices
<1> SUFFICES ASSUME NEW i \in 1 .. Len(runs'), NEW j \in 1 .. Len(runs'), i < j,
                    GoalRun(runs'[i]), runs'[i].goal = runs'[j].goal,
                    ~ runs'[i].followup, ~ runs'[j].followup,
                    \A k \in i + 1 .. j - 1 : runs'[k].goal = runs'[i].goal => runs'[k].followup
             PROVE  runs'[i].objective # runs'[j].objective
  BY <1>0 DEF PromptOnce
<1> HIDE DEF n
<1>1. CASE j \in 1 .. n
  <2>1. i \in 1 .. n /\ \A k \in i + 1 .. j - 1 : k \in 1 .. n
    BY <1>0, <1>1
  <2>2. \A k \in 1 .. n : /\ runs'[k].goal = runs[k].goal /\ runs'[k].followup = runs[k].followup
                          /\ runs'[k].objective = runs[k].objective
    BY <1>0 DEF Kept
  <2>3. /\ GoalRun(runs[i]) /\ runs[i].goal = runs[j].goal /\ ~ runs[i].followup /\ ~ runs[j].followup
        /\ \A k \in i + 1 .. j - 1 : runs[k].goal = runs[i].goal => runs[k].followup
    BY <1>1, <2>1, <2>2 DEF GoalRun
  <2>4. runs[i].objective # runs[j].objective
    BY <1>0, <1>1, <2>1, <2>3 DEF PromptOnce
  <2> QED
    BY <1>1, <2>1, <2>2, <2>4
<1>2. CASE j = n + 1 /\ Len(runs') = n + 1
  <2> DEFINE r == runs'[n + 1]
  <2>1. NewTurn(r, n, runs') /\ ~ r.followup
    BY <1>0, <1>2 DEF AddedRow, Addable, GoalRun
  <2>2. i \in 1 .. n /\ i + 1 .. j - 1 = i + 1 .. n
    BY <1>0, <1>2
  <2>3. r = runs'[j]
    BY <1>2
  <2> HIDE DEF r
  <2>4. /\ runs'[i].goal = r.goal /\ ~ runs'[i].followup
        /\ \A k \in i + 1 .. n : ~ (runs'[k].goal = r.goal /\ ~ runs'[k].followup)
    BY <2>2, <2>3
  <2> QED
    BY <2>1, <2>2, <2>3, <2>4 DEF NewTurn
<1> QED
  BY <1>0, <1>1, <1>2, OldOrNew

-----------------------------------------------------------------------------
(* The budget of the goal.                                                 *)

\* Whatever makes a goal active looks at its budget.
LEMMA AffordableStep ==
    ASSUME StoreTypes, ActiveAffordable, StoreEffect
    PROVE  ActiveAffordable'
<1>0. HasGoal => goal \in Goal /\ goal.used \in Nat /\ goal.budget \in Nat
  BY Amounts DEF HasGoal, StoreTypes
<1>1. CASE UNCHANGED store
  BY <1>1 DEF ActiveAffordable, GoalActive, HasGoal
<1>2. CASE Created
  <2>1. PICK id \in GoalId \ issued, o \in Objective, b \in Budget \cup {NoBudget} : goal' = Fresh(id, o, b)
    BY <1>2 DEF Created
  <2>2. goal'.used = 0 /\ goal'.known = TRUE /\ goal'.budget = b
    BY <2>1 DEF Fresh
  <2>3. b # 0 => b > 0
    BY BudgetAssumption, <2>1
  <2> QED
    BY <2>2, <2>3 DEF ActiveAffordable, Limited
<1>3. CASE EditedByUser
  BY <1>0, <1>3, EditedType DEF EditedByUser, ActiveAffordable, GoalActive, Limited
<1>4. CASE goal' = NoGoal
  BY <1>4 DEF ActiveAffordable, GoalActive, HasGoal
<1>5. CASE Stopped
  <2>1. PICK s \in {"paused", "blocked"} : goal' = [goal EXCEPT !.status = s]
    BY <1>5 DEF Stopped
  <2>2. s \in GoalStatus /\ goal \in Goal
    BY <1>0, <1>5 DEF Stopped, GoalStatus
  <2>3. goal'.status = s
    BY <2>1, <2>2, StatusType
  <2> QED
    BY <2>3 DEF ActiveAffordable, GoalActive
<1>6. CASE CompletedByModel
  <2>1. goal'.status = "completed"
    BY <1>0, <1>6, StatusType DEF CompletedByModel, StillSeen, GoalActive, GoalStatus
  <2> QED
    BY <2>1 DEF ActiveAffordable, GoalActive
<1>7. CASE Resumed
  <2>1. goal'.budget = goal.budget /\ goal'.used = goal.used /\ goal'.known = goal.known
    BY <1>0, <1>7 DEF Resumed, Goal
  <2> QED
    BY <1>0, <1>7, <2>1 DEF Resumed, ActiveAffordable, Limited, Unaccountable, Exhausted
<1>8. CASE Booked
  <2>1. PICK known \in BOOLEAN : goal' = Charged(known)
    BY <1>8 DEF Booked
  <2> QED
    BY <1>0, <1>8, <2>1, ChargedType DEF Booked, ActiveAffordable, GoalActive, Limited
<1> QED
  BY <1>1, <1>2, <1>3, <1>4, <1>5, <1>6, <1>7, <1>8 DEF StoreEffect

-----------------------------------------------------------------------------
(* What a model has seen of the goal.                                      *)

\* An identity is issued once, and what a request saw of a goal is not newer
\* than the goal.
SeenKnown ==
    /\ HasGoal => goal.id \in issued
    /\ request # NoRequest /\ request.seen # NoGoal =>
          /\ request.seen.id \in issued
          /\ HasGoal /\ goal.id = request.seen.id =>
                /\ request.seen.generation <= goal.generation
                /\ request.seen.generation = goal.generation => request.seen.objective = goal.objective

SeenNow ==
    IF GoalActive THEN [id |-> goal.id, generation |-> goal.generation, objective |-> goal.objective]
    ELSE NoGoal

\* What a step does to the last request.
RequestEffect ==
    \/ request' = request
    \/ request' = NoRequest
    \/ request' # NoRequest /\ request'.seen = NoGoal
    \/ request # NoRequest /\ request' # NoRequest /\ request'.seen = request.seen
    \/ request' # NoRequest /\ request'.seen = SeenNow /\ UNCHANGED store

\* Every step has one of these effects on the request.
LEMMA RequestStep == StoreTypes /\ AgentTypes /\ [Next]_vars => RequestEffect
<1> SUFFICES ASSUME StoreTypes /\ AgentTypes, [Next]_vars PROVE RequestEffect
  OBVIOUS
<1> USE DEF RequestEffect
<1>1. ASSUME NEW o \in Objective, NEW b \in Budget \cup {NoBudget}, CreateGoal(o, b) PROVE RequestEffect
  BY <1>1 DEF CreateGoal
<1>2. ASSUME NEW o \in Objective, NEW b \in Budget \cup {NoBudget}, EditGoal(o, b) PROVE RequestEffect
  BY <1>2 DEF EditGoal
<1>3. ASSUME PauseGoal PROVE RequestEffect
  BY <1>3 DEF PauseGoal, CancelToPause
<1>4. ASSUME NEW reason \in {"paused", "other"}, CancelRun(reason) PROVE RequestEffect
  BY <1>4 DEF CancelRun
<1>5. ASSUME ClearGoal PROVE RequestEffect
  BY <1>5 DEF ClearGoal, CancelToPause
<1>6. ASSUME ResumeGoal PROVE RequestEffect
  BY <1>6 DEF ResumeGoal
<1>7. ASSUME Enqueue PROVE RequestEffect
  BY <1>7 DEF Enqueue
<1>8. ASSUME DropQueue PROVE RequestEffect
  BY <1>8 DEF DropQueue
<1>9. ASSUME OtherRunStarts PROVE RequestEffect
  BY <1>9 DEF OtherRunStarts, StartRun
<1>10. ASSUME QueuedRunStarts PROVE RequestEffect
  BY <1>10 DEF QueuedRunStarts, StartRun
<1>11. ASSUME QueuedRunFails PROVE RequestEffect
  BY <1>11 DEF QueuedRunFails
<1>12. ASSUME BeginTurn PROVE RequestEffect
  <2>1. NoAnswer \in Request /\ NoAnswer.seen = NoGoal
    BY DEF NoAnswer, Request
  <2> QED
    BY <1>12, <2>1 DEF BeginTurn
<1>13. ASSUME StartRequest PROVE RequestEffect
  <2>1. UNCHANGED store /\ request'.seen = SeenNow
    BY <1>13 DEF StartRequest, SeenNow
  <2>2. request' \in Request
    <3>1. request' = [open |-> TRUE,
                      charged |-> IF HasGoal /\ goal.id = bound' THEN goal.id ELSE NoId,
                      seen |-> SeenNow]
      BY <1>13 DEF StartRequest, SeenNow
    <3>2. HasGoal => goal.id \in GoalId /\ goal.generation \in Generation /\ goal.objective \in Objective
      BY DEF HasGoal, StoreTypes, Goal
    <3>3. SeenNow \in Seen \cup {NoGoal}
      BY <3>2 DEF SeenNow, Seen, GoalActive
    <3> QED
      BY <3>1, <3>2, <3>3 DEF Request
  <2> QED
    BY <2>1, <2>2
<1>14. ASSUME EndRequest PROVE RequestEffect
  <2>1. request \in Request /\ request' = [request EXCEPT !.open = FALSE]
    BY <1>14 DEF EndRequest, Requesting, AgentTypes
  <2>2. request' \in Request /\ request'.seen = request.seen
    BY <2>1 DEF Request
  <2> QED
    BY RecordsAssumption, <2>1, <2>2
<1>15. ASSUME QueueChild PROVE RequestEffect
  BY <1>15 DEF QueueChild
<1>16. ASSUME StartChildRequest PROVE RequestEffect
  BY <1>16 DEF StartChildRequest
<1>17. ASSUME EndChildRequest PROVE RequestEffect
  BY <1>17 DEF EndChildRequest, RecordUsage
<1>18. ASSUME ChildEnds PROVE RequestEffect
  BY <1>18 DEF ChildEnds
<1>19. ASSUME NEW status \in {"completed", "blocked"}, GoalUpdate(status) PROVE RequestEffect
  BY <1>19 DEF GoalUpdate
<1>20. ASSUME NEW result \in Terminal, WriteTerminal(result) PROVE RequestEffect
  BY <1>20 DEF WriteTerminal
<1>21. ASSUME FinishRun PROVE RequestEffect
  BY <1>21 DEF FinishRun, ReleaseRun
<1>22. ASSUME FinishFails PROVE RequestEffect
  BY <1>22 DEF FinishFails, ReleaseRun
<1>23. ASSUME RunTick PROVE RequestEffect
  BY <1>23 DEF RunTick
<1>24. ASSUME Resolve PROVE RequestEffect
  BY <1>24 DEF Resolve, Await, GiveUp, Leave
<1>25. ASSUME WaitForIdle PROVE RequestEffect
  BY <1>25 DEF WaitForIdle, Await, GiveUp, Leave
<1>26. ASSUME Admit PROVE RequestEffect
  BY <1>26 DEF Admit, Await, GiveUp, Leave
<1>27. ASSUME ResolveAgain PROVE RequestEffect
  BY <1>27 DEF ResolveAgain, Await, GiveUp, Leave
<1>28. ASSUME ReadCheckpoint PROVE RequestEffect
  BY <1>28 DEF ReadCheckpoint, Await, GiveUp, Leave
<1>29. ASSUME CannotAdvance PROVE RequestEffect
  BY <1>29 DEF CannotAdvance, StopGoal, Leave
<1>30. ASSUME BlockUnsafe PROVE RequestEffect
  BY <1>30 DEF BlockUnsafe, StopGoal, Leave
<1>31. ASSUME Continue PROVE RequestEffect
  <2>1. CASE \E p \in 0 .. Len(runs) : Decide(p, runs)
    BY <2>1, Decided
  <2>2. CASE ~ \E p \in 0 .. Len(runs) : Decide(p, runs)
    BY <2>2, <1>31 DEF Continue, Await, GiveUp
  <2> QED
    BY <2>1, <2>2
<1>32. ASSUME Reconcile PROVE RequestEffect
  <2>1. CASE \E p, rows : Decide(p, rows)
    BY <2>1, Decided
  <2>2. CASE ~ \E p, rows : Decide(p, rows)
    BY <2>2, <1>32 DEF Reconcile
  <2> QED
    BY <2>1, <2>2
<1>33. ASSUME StartHost PROVE RequestEffect
  BY <1>33 DEF StartHost
<1>34. ASSUME Drain PROVE RequestEffect
  BY <1>34 DEF Drain
<1>35. ASSUME Exit PROVE RequestEffect
  BY <1>35 DEF Exit, Forget
<1>36. ASSUME Crash PROVE RequestEffect
  BY <1>36 DEF Crash, Forget
<1>37. ASSUME UNCHANGED vars PROVE RequestEffect
  BY <1>37 DEF vars
<1> QED
  BY <1>1, <1>2, <1>3, <1>4, <1>5, <1>6, <1>7, <1>8, <1>9, <1>10, <1>11, <1>12, <1>13,
     <1>14, <1>15, <1>16, <1>17, <1>18, <1>19, <1>20, <1>21, <1>22, <1>23, <1>24, <1>25,
     <1>26, <1>27, <1>28, <1>29, <1>30, <1>31, <1>32, <1>33, <1>34, <1>35, <1>36, <1>37
     DEF Next, Users, Turns, Runner, Life


\* What a step of the store does to the generations of a goal.
LEMMA GenerationStep ==
    ASSUME StoreTypes, StoreEffect, HasGoal'
    PROVE  \/ HasGoal /\ goal'.id = goal.id /\ goal.generation \in Nat
              /\ \/ goal'.generation = goal.generation + 1
                 \/ goal'.generation = goal.generation /\ goal'.objective = goal.objective
           \/ goal'.id \in GoalId \ issued /\ goal'.id \in issued'
<1>0. HasGoal => goal \in Goal /\ goal.generation \in Nat
  BY DEF HasGoal, StoreTypes, Goal, Generation
<1>1. CASE UNCHANGED store
  BY <1>0, <1>1 DEF HasGoal
<1>2. CASE Created
  <2>1. PICK id \in GoalId \ issued, o \in Objective, b \in Budget \cup {NoBudget} :
            goal' = Fresh(id, o, b) /\ issued' = issued \cup {id}
    BY <1>2 DEF Created
  <2>2. goal'.id = id
    BY <2>1 DEF Fresh
  <2> QED
    BY <2>1, <2>2
<1>3. CASE EditedByUser
  BY <1>0, <1>3, EditedType DEF EditedByUser
<1>4. CASE Stopped
  <2>1. PICK s \in {"paused", "blocked"} : goal' = [goal EXCEPT !.status = s]
    BY <1>4 DEF Stopped
  <2>2. s \in GoalStatus /\ goal \in Goal
    BY <1>0, <1>4 DEF Stopped, GoalStatus
  <2> QED
    BY <1>0, <1>4, <2>1, <2>2, StatusType DEF Stopped
<1>5. CASE CompletedByModel
  BY <1>0, <1>5, StatusType DEF CompletedByModel, StillSeen, GoalActive, GoalStatus
<1>6. CASE Resumed
  BY <1>0, <1>6 DEF Resumed, Goal
<1>7. CASE Booked
  <2>1. PICK known \in BOOLEAN : goal' = Charged(known)
    BY <1>7 DEF Booked
  <2> QED
    BY <1>0, <1>7, <2>1, ChargedType DEF Booked
<1> QED
  BY <1>1, <1>2, <1>3, <1>4, <1>5, <1>6, <1>7 DEF StoreEffect, HasGoal

\* A request sees the goal as it is; later the goal only gets newer.
LEMMA SeenStep ==
    ASSUME StoreTypes, AgentTypes, SeenKnown, StoreEffect, RequestEffect
    PROVE  SeenKnown'
<1>1. issued \subseteq issued'
  BY DEF StoreEffect, Created, Booked
<1>2. ASSUME HasGoal' PROVE goal'.id \in issued'
  <2>1. HasGoal => goal.id \in issued'
    BY <1>1 DEF SeenKnown
  <2> QED
    BY <1>2, <2>1, GenerationStep
<1>3. HasGoal => goal \in Goal /\ goal.generation \in Nat
  BY DEF HasGoal, StoreTypes, Goal, Generation
<1>4. ASSUME request' # NoRequest, request'.seen # NoGoal
      PROVE  /\ request'.seen.id \in issued'
             /\ HasGoal' /\ goal'.id = request'.seen.id =>
                   /\ request'.seen.generation <= goal'.generation
                   /\ request'.seen.generation = goal'.generation =>
                         request'.seen.objective = goal'.objective
  <2>1. CASE request # NoRequest /\ request'.seen = request.seen
    <3> DEFINE seen == request.seen
    <3>1. seen # NoGoal /\ seen.id \in issued /\ seen.id \in issued' /\ request'.seen = seen
      BY <1>1, <1>4, <2>1 DEF SeenKnown
    <3>2. seen.generation \in Nat
      BY <2>1, <3>1 DEF AgentTypes, Request, Seen, Generation
    <3>3. HasGoal /\ goal.id = seen.id =>
             /\ seen.generation <= goal.generation
             /\ seen.generation = goal.generation => seen.objective = goal.objective
      BY <2>1, <3>1 DEF SeenKnown
    <3> HIDE DEF seen
    <3>4. ASSUME HasGoal', goal'.id = seen.id
          PROVE  /\ seen.generation <= goal'.generation
                 /\ seen.generation = goal'.generation => seen.objective = goal'.objective
      <4>1. HasGoal /\ goal'.id = goal.id /\ goal.generation \in Nat
            /\ \/ goal'.generation = goal.generation + 1
               \/ goal'.generation = goal.generation /\ goal'.objective = goal.objective
        BY <3>1, <3>4, GenerationStep
      <4> QED
        BY <3>2, <3>3, <3>4, <4>1
    <3> QED
      BY <3>1, <3>4
  <2>2. CASE request'.seen = SeenNow /\ UNCHANGED store
    BY <1>3, <1>4, <2>2 DEF SeenNow, GoalActive, HasGoal, SeenKnown
  <2> QED
    BY <1>4, <2>1, <2>2 DEF RequestEffect
<1> QED
  BY <1>2, <1>4 DEF SeenKnown

-----------------------------------------------------------------------------
(* The usage of the goal.                                                  *)

\* The reports that are booked for goal id.
Mine(id, rows) == {u \in UsageId : rows[u] # NoUsage /\ rows[u].goal = id}

\* Only issued goals have reports, finitely many, and the totals are theirs.
UsageBooked ==
    /\ HasGoal => goal.id \in issued
    /\ \A u \in UsageId : usage[u] # NoUsage => usage[u].goal \in issued
    /\ IsFiniteSet({u \in UsageId : usage[u] # NoUsage})
    /\ UsageExact

\* A goal that the step keeps, with its usage, keeps its totals.
LEMMA UsageKept ==
    ASSUME HasGoal, UsageExact, usage' = usage, goal'.id = goal.id, goal'.used = goal.used,
           goal'.known = goal.known
    PROVE  UsageExact'
BY DEF UsageExact

\* A report adds one row and is counted in the totals.
LEMMA UsageStep ==
    ASSUME StoreTypes, UsageBooked, StoreEffect
    PROVE  UsageBooked'
<1>0. /\ HasGoal => goal \in Goal
      /\ UsageExact
  BY DEF HasGoal, StoreTypes, UsageBooked
<1>1. ASSUME usage' = usage, issued \subseteq issued', HasGoal' => goal'.id \in issued', UsageExact'
      PROVE  UsageBooked'
  BY <1>1 DEF UsageBooked
<1>2. ASSUME HasGoal, UNCHANGED <<issued, usage>>, goal' \in Goal, goal'.id = goal.id,
             goal'.used = goal.used, goal'.known = goal.known
      PROVE  UsageBooked'
  BY <1>0, <1>1, <1>2, UsageKept DEF UsageBooked
<1>3. CASE UNCHANGED store
  BY <1>3 DEF UsageBooked, UsageExact, HasGoal
<1>4. CASE Created
  <2>1. PICK id \in GoalId \ issued, o \in Objective, b \in Budget \cup {NoBudget} :
            goal' = Fresh(id, o, b) /\ issued' = issued \cup {id}
    BY <1>4 DEF Created
  <2>2. goal'.id = id /\ goal'.used = 0 /\ goal'.known = TRUE /\ usage' = usage
    BY <1>4, <2>1 DEF Fresh, Created
  <2>3. \A u \in UsageId : usage[u] # NoUsage => usage[u].goal # id
    BY <2>1 DEF UsageBooked
  <2>4. {u \in UsageId : usage'[u] # NoUsage /\ usage'[u].goal = goal'.id} = {}
    BY <2>2, <2>3
  <2>5. UsageExact'
    <3> DEFINE mine == {u \in UsageId : usage'[u] # NoUsage /\ usage'[u].goal = goal'.id}
    <3>1. mine = {}
      BY <2>4
    <3> HIDE DEF mine
    <3>2. {u \in mine : usage'[u].known} = {} /\ \A u \in mine : usage'[u].known
      BY <3>1
    <3>3. Cardinality({u \in mine : usage'[u].known}) = 0
      BY <3>2, FS_EmptySet, Zenon
    <3> QED
      BY <2>2, <3>2, <3>3 DEF UsageExact, mine
  <2> QED
    BY <1>1, <2>1, <2>2, <2>5
<1>5. CASE UNCHANGED <<issued, usage>> /\ EditedByUser
  BY <1>0, <1>2, <1>5, EditedType DEF EditedByUser
<1>6. CASE UNCHANGED <<issued, usage>> /\ goal' = NoGoal
  BY <1>1, <1>6 DEF HasGoal, UsageExact
<1>7. CASE UNCHANGED <<issued, usage>> /\ Stopped
  <2>1. PICK s \in {"paused", "blocked"} : goal' = [goal EXCEPT !.status = s]
    BY <1>7 DEF Stopped
  <2>2. s \in GoalStatus /\ goal \in Goal
    BY <1>0, <1>7 DEF Stopped, GoalStatus
  <2> QED
    BY <1>2, <1>7, <2>1, <2>2, StatusType DEF Stopped
<1>8. CASE UNCHANGED <<issued, usage>> /\ CompletedByModel
  BY <1>0, <1>2, <1>8, StatusType DEF CompletedByModel, StillSeen, GoalActive, GoalStatus
<1>9. CASE UNCHANGED <<issued, usage>> /\ Resumed
  <2>0. goal \in Goal /\ goal.generation \in Generation /\ goal.generation + 1 \in Generation
    BY BoundsAssumption, <1>0, <1>9 DEF Resumed, Goal, Generation
  <2>1. goal \in Goal /\ goal' \in Goal
    BY <1>9, <2>0 DEF Resumed, Goal, GoalStatus
  <2> QED
    BY <1>2, <1>9, <2>1 DEF Resumed, Goal
<1>10. CASE Booked
  <2>1. PICK v \in UsageId, known \in BOOLEAN :
            /\ goal' = Charged(known) /\ usage[v] = NoUsage
            /\ usage' = [usage EXCEPT ![v] = [goal |-> goal.id, known |-> known]]
    BY <1>10 DEF Booked
  <2> DEFINE row == [goal |-> goal.id, known |-> known]
  <2>2. /\ goal \in Goal /\ goal.id \in GoalId /\ goal.id \in issued /\ HasGoal
        /\ goal'.id = goal.id /\ goal'.known = (goal.known /\ known)
        /\ goal'.used = (IF known THEN goal.used + 1 ELSE goal.used)
    BY <1>0, <1>10, <2>1, ChargedType DEF Booked, Goal, UsageBooked
  <2>3. row \in [goal : GoalId, known : BOOLEAN] /\ row # NoUsage /\ row.goal = goal.id /\ row.known = known
    BY <2>2, RecordsAssumption
  <2>4. usage'[v] = row /\ \A u \in UsageId \ {v} : usage'[u] = usage[u]
    BY <2>1 DEF StoreTypes
  <2> HIDE DEF row
  <2>5. \A u \in UsageId : usage'[u] # NoUsage => usage'[u].goal \in issued'
    BY <1>10, <2>2, <2>3, <2>4 DEF UsageBooked, Booked
  <2>6. IsFiniteSet({u \in UsageId : usage'[u] # NoUsage})
    <3>1. {u \in UsageId : usage'[u] # NoUsage} = {u \in UsageId : usage[u] # NoUsage} \cup {v}
      BY <2>3, <2>4
    <3>2. IsFiniteSet({u \in UsageId : usage[u] # NoUsage} \cup {v})
      BY FS_AddElement DEF UsageBooked
    <3> QED
      BY <3>1, <3>2, Zenon
  <2>7. UsageExact'
    <3> DEFINE mine == Mine(goal.id, usage)
               next == Mine(goal.id, usage')
               paid == {u \in mine : usage[u].known}
               due == {u \in next : usage'[u].known}
    <3>1. next = mine \cup {v} /\ v \notin mine
      BY <2>1, <2>2, <2>3, <2>4 DEF Mine
    <3>2. /\ goal.used = Cardinality(paid)
          /\ goal.known <=> \A u \in mine : usage[u].known
      BY <1>0, <2>2 DEF UsageExact, Mine
    <3>3. IsFiniteSet(paid)
      <4>1. paid \subseteq {u \in UsageId : usage[u] # NoUsage}
        BY DEF Mine
      <4> QED
        BY <4>1, FS_Subset DEF UsageBooked
    <3>4. mine \subseteq UsageId \ {v}
      BY <2>1 DEF Mine
    <3>5. due = IF known THEN paid \cup {v} ELSE paid
      BY <2>3, <2>4, <3>1, <3>4
    <3>6. v \notin paid
      BY <3>1
    <3>7. (\A u \in next : usage'[u].known) <=> known /\ \A u \in mine : usage[u].known
      BY <2>3, <2>4, <3>1, <3>4
    <3> HIDE DEF paid, mine
    <3>8. Cardinality(due) = IF known THEN Cardinality(paid) + 1 ELSE Cardinality(paid)
      <4>1. Cardinality(paid \cup {v}) = Cardinality(paid) + 1
        BY <3>3, <3>6, OneMore
      <4> HIDE DEF due
      <4>2. CASE known
        BY <3>5, <4>1, <4>2
      <4>3. CASE ~ known
        BY <3>5, <4>3
      <4> QED
        BY <4>2, <4>3
    <3>9. goal'.used = Cardinality(due) /\ (goal'.known <=> \A u \in next : usage'[u].known)
      BY <2>2, <3>2, <3>7, <3>8
    <3>10. goal'.used = Cardinality({u \in next : usage'[u].known})
      BY <3>9
    <3> QED
      BY <2>2, <3>9, <3>10 DEF UsageExact, Mine
  <2> QED
    BY <1>10, <2>2, <2>5, <2>6, <2>7 DEF UsageBooked, Booked
<1> QED
  BY <1>3, <1>4, <1>5, <1>6, <1>7, <1>8, <1>9, <1>10 DEF StoreEffect


-----------------------------------------------------------------------------
(* The inductive invariant.                                                *)

Inv ==
    /\ StoreTypes /\ RowTypes /\ FlagTypes /\ AgentTypes
    /\ ActiveAffordable /\ UsageBooked /\ SeenKnown
    /\ RowsConfirmed /\ ChainContinues /\ LooseRuns
    /\ IdleNeverRepeats /\ EmptyBounded /\ PromptOnce

\* The empty store and the empty ledger satisfy it.
LEMMA InitInv == Init => Inv
<1> SUFFICES ASSUME Init PROVE Inv
  OBVIOUS
<1>1. StoreTypes /\ FlagTypes /\ AgentTypes /\ ActiveAffordable /\ SeenKnown
  <2>1. StoreTypes
    BY DEF Init, StoreTypes
  <2>2. FlagTypes
    <3>1. starts \in 0 .. MaxStarts
      BY BoundsAssumption DEF Init
    <3> QED
      BY <3>1 DEF Init, FlagTypes, InLane
  <2>3. AgentTypes
    BY DEF Init, AgentTypes
  <2>4. ActiveAffordable /\ SeenKnown
    BY DEF Init, ActiveAffordable, GoalActive, HasGoal, SeenKnown
  <2> QED
    BY <2>1, <2>2, <2>3, <2>4
<1>2. UsageBooked
  <2>1. goal = NoGoal /\ {u \in UsageId : usage[u] # NoUsage} = {}
    BY DEF Init
  <2>2. IsFiniteSet({u \in UsageId : usage[u] # NoUsage})
    BY <2>1, FS_EmptySet, Zenon
  <2> QED
    BY <2>1, <2>2 DEF UsageBooked, UsageExact, HasGoal
<1>3. runs = <<>> /\ Len(runs) = 0 /\ DOMAIN runs = {} /\ active = 0
  BY DEF Init
<1>4. RowTypes
  BY BoundsAssumption, <1>3 DEF RowTypes
<1>5. RowsConfirmed /\ LooseRuns
  BY <1>3 DEF RowsConfirmed, LooseRuns
<1>6. ChainContinues /\ IdleNeverRepeats /\ EmptyBounded /\ PromptOnce
  BY <1>3 DEF ChainContinues, IdleNeverRepeats, EmptyBounded, PromptOnce
<1> QED
  BY <1>1, <1>2, <1>4, <1>5, <1>6 DEF Inv

\* Every step preserves it.
LEMMA InvStep == Inv /\ [Next]_vars => Inv'
<1> SUFFICES ASSUME Inv, [Next]_vars PROVE Inv'
  OBVIOUS
<1> USE DEF Inv
<1>1. StoreEffect
  BY StoreStep
<1>2. RowsEffect
  BY RowsStep
<1>3. RequestEffect
  BY RequestStep
<1>4. StoreTypes' /\ FlagTypes' /\ AgentTypes'
  BY <1>1, StoreTypesStep, FlagStep, AgentStep
<1>5. RowTypes' /\ RowsConfirmed'
  BY <1>2, RowTypesStep
<1>6. ActiveAffordable' /\ UsageBooked' /\ SeenKnown'
  BY <1>1, <1>3, AffordableStep, UsageStep, SeenStep
<1>7. Kept /\ AddedRow
  BY <1>2, ChainEffect
<1>8. ChainContinues' /\ LooseRuns'
  BY <1>5, <1>7, ChainStep
<1>9. IdleNeverRepeats' /\ EmptyBounded' /\ PromptOnce'
  BY <1>5, <1>7, <1>8, IdleStep, EmptyStep, PromptStep
<1> QED
  BY <1>4, <1>5, <1>6, <1>8, <1>9

THEOREM Invariance == Spec => []Inv
  BY InitInv, InvStep, PTL DEF Spec

-----------------------------------------------------------------------------
(* The theorems.                                                           *)

\* Goal, rows, runtime and runner keep their types.
THEOREM TypeCorrect == Spec => []TypeOK
<1>1. Inv => TypeOK
  BY DEF Inv, StoreTypes, RowTypes, FlagTypes, AgentTypes, TypeOK
<1> QED
  BY <1>1, Invariance, PTL

\* A goal that is active can pay for a turn, whatever was edited, resumed or
\* reported late.
THEOREM ActiveGoalsAffordable == Spec => []ActiveAffordable
<1>1. Inv => ActiveAffordable
  BY DEF Inv
<1> QED
  BY <1>1, Invariance, PTL

\* The totals of a goal are exactly those of its usage rows.
THEOREM TotalsExact == Spec => []UsageExact
<1>1. Inv => UsageExact
  BY DEF Inv, UsageBooked
<1> QED
  BY <1>1, Invariance, PTL

\* The runs of a goal form one chain, and only a confirmed result that allows
\* to go on is continued, across crashes and failed writes.
THEOREM ChainsContinue == Spec => []ChainContinues
<1>1. Inv => ChainContinues
  BY DEF Inv
<1> QED
  BY <1>1, Invariance, PTL

\* An automatic turn without work is not followed directly by another one.
THEOREM NoSpinning == Spec => []IdleNeverRepeats
<1>1. Inv => IdleNeverRepeats
  BY DEF Inv
<1> QED
  BY <1>1, Invariance, PTL

\* Nothing continues a third empty answer in a row.
THEOREM EmptyAnswersEnd == Spec => []EmptyBounded
<1>1. Inv => EmptyBounded
  BY DEF Inv
<1> QED
  BY <1>1, Invariance, PTL

\* The same objective is not entered twice in succession.
THEOREM PromptsOnce == Spec => []PromptOnce
<1>1. Inv => PromptOnce
  BY DEF Inv
<1> QED
  BY <1>1, Invariance, PTL

\* A run for a goal starts only for the goal and generation that are active
\* at that moment.
THEOREM RunsAreCurrent == Spec => RunsForCurrentGoal
<1> DEFINE Started == Len(runs') > Len(runs) /\ GoalRun(runs'[Len(runs')])
           ForGoal == /\ GoalActive /\ host = "up" /\ queue = "none" /\ active = NoRun
                      /\ runs'[Len(runs')].goal = goal.id
                      /\ runs'[Len(runs')].generation = goal.generation
<1>1. ASSUME Inv, [Next]_vars, Started PROVE ForGoal
  <2>1. Kept /\ AddedRow /\ Len(runs) \in Nat
    BY <1>1, RowsStep, ChainEffect DEF Inv, RowTypes
  <2>2. Len(runs') = Len(runs) + 1 /\ runs'[Len(runs) + 1].goal # NoId
    BY <1>1, <2>1 DEF Kept, GoalRun
  <2>3. Ready /\ runs'[Len(runs) + 1].goal = goal.id /\ runs'[Len(runs) + 1].generation = goal.generation
    BY <2>1, <2>2 DEF AddedRow, Addable
  <2> QED
    BY <2>2, <2>3 DEF Ready, CanStart, Current
<1>2. Inv /\ [Next]_vars => [Started => ForGoal]_vars
  BY <1>1
<1> QED
  BY <1>2, Invariance, PTL DEF Spec, RunsForCurrentGoal

\* A model completes only the goal, with the objective, that its request saw.
THEOREM CompletionsSeen == Spec => CompletesWhatItSaw
<1> DEFINE Completes == HasGoal' /\ goal'.status = "completed" /\ ~ (HasGoal /\ goal.status = "completed")
           Saw == /\ HasGoal /\ goal.status = "active"
                  /\ request.seen.id = goal'.id
                  /\ request.seen.objective = goal'.objective
<1>1. ASSUME Inv, [Next]_vars, Completes PROVE Saw
  <2>1. /\ HasGoal => goal \in Goal /\ goal.generation \in Nat
        /\ StoreTypes
    BY <1>1 DEF Inv, HasGoal, StoreTypes, Goal, Generation
  <2>2. StoreEffect
    BY <1>1, StoreStep
  <2>3. CASE UNCHANGED store
    BY <1>1, <2>3 DEF HasGoal
  <2>4. CASE Created
    BY <1>1, <2>4 DEF Created, Fresh
  <2>5. CASE EditedByUser
    BY <1>1, <2>1, <2>5, EditedType DEF EditedByUser
  <2>6. CASE goal' = NoGoal
    BY <1>1, <2>6 DEF HasGoal
  <2>7. CASE Stopped
    <3>1. PICK s \in {"paused", "blocked"} : goal' = [goal EXCEPT !.status = s]
      BY <2>7 DEF Stopped
    <3>2. s \in GoalStatus /\ goal \in Goal
      BY <2>1, <2>7 DEF Stopped, GoalStatus
    <3> QED
      BY <1>1, <3>1, <3>2, StatusType
  <2>8. CASE CompletedByModel
    <3>1. /\ HasGoal /\ goal.status = "active" /\ goal.id = request.seen.id
          /\ goal.generation = request.seen.generation
          /\ request # NoRequest /\ request.seen # NoGoal
      BY <2>8 DEF CompletedByModel, StillSeen, GoalActive
    <3>2. goal'.id = goal.id /\ goal'.objective = goal.objective
      BY <2>1, <2>8, <3>1, StatusType DEF CompletedByModel, GoalStatus
    <3>3. request.seen.objective = goal.objective
      BY <1>1, <3>1 DEF Inv, SeenKnown
    <3> QED
      BY <3>1, <3>2, <3>3
  <2>9. CASE Resumed
    <3>1. goal'.status = "active"
      BY <2>1, <2>9 DEF Resumed, Goal
    <3> QED
      BY <1>1, <3>1
  <2>10. CASE Booked
    <3>1. PICK known \in BOOLEAN : goal' = Charged(known)
      BY <2>10 DEF Booked
    <3> QED
      BY <1>1, <2>1, <2>10, <3>1, ChargedType DEF Booked
  <2> QED
    BY <2>2, <2>3, <2>4, <2>5, <2>6, <2>7, <2>8, <2>9, <2>10 DEF StoreEffect
<1>2. Inv /\ [Next]_vars => [Completes => Saw]_vars
  BY <1>1
<1> QED
  BY <1>2, Invariance, PTL DEF Spec, CompletesWhatItSaw

=============================================================================

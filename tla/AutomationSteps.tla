-------------------------- MODULE AutomationSteps --------------------------
(***************************************************************************)
(* What every step of Automation does to the columns of its tables and to  *)
(* memory, and that the state stays typed: the lemmas the theorems of      *)
(* AutomationProofs rest on.                                               *)
(***************************************************************************)
EXTENDS Automation, SequenceTheorems, TLAPS

USE DEF store, memory

-----------------------------------------------------------------------------
(* Views: the columns of the two tables as functions of their own.  What a *)
(* step does is stated once in terms of columns, so that the proofs of the *)
(* invariants never look into a record.                                    *)

RowStatus == [f \in Fire |-> fire[f].status]
RowOwner == [f \in Fire |-> fire[f].auto]
RowBound == [f \in Fire |-> fire[f].bound]
DefState == [a \in Automation |-> def[a].status]
DefCount == [a \in Automation |-> def[a].count]
DefFailures == [a \in Automation |-> def[a].failures]

InFlight == {"claimed", "preparing", "submitted", "running", "timedOut"}
Waiting == {"pending", "deferred"}
Away == {"down", "recovering"}

\* Every existing row has an owner, memory only knows existing rows, and the
\* rows of an automation that does not exist are deleted ones.
RowsOwned ==
  /\ \A f \in Fire : RowStatus[f] # "none" => RowOwner[f] \in Automation
  /\ \A f \in Fire : RowStatus[f] = "none" => RowOwner[f] = NoAutomation /\ pc[f] = "idle"
  /\ \A f \in Fire : RowOwner[f] \in Automation /\ DefState[RowOwner[f]] = "absent"
                       => RowStatus[f] = "deleted"

\* A row that says running is in flight in memory, or its owner went away; a
\* fire in flight is running unless its automation was deleted.
RowsMatchMemory ==
  /\ \A f \in Fire : RowStatus[f] = "running" => host \in Away \/ pc[f] \in InFlight
  /\ \A f \in Fire : pc[f] \in InFlight => RowStatus[f] \in {"running", "deleted"}
  /\ \A f \in Fire : pc[f] \in {"claimed", "submitted"} => RowStatus[f] = "running"
  /\ host \in Away => \A f \in Fire : pc[f] = "idle"

\* fireQueue holds each queued fire once; a discovery only found existing rows.
QueueMatchesMemory ==
  /\ \A i \in DOMAIN queue : pc[queue[i]] = "queued"
  /\ \A i, j \in DOMAIN queue : queue[i] = queue[j] => i = j
  /\ \A i \in DOMAIN poll.found : RowStatus[poll.found[i]] # "none"
  /\ poll.phase # "off" => host = "up"

-----------------------------------------------------------------------------
(* Types *)

\* Removing an entry of a sequence leaves a sequence over the same set.
LEMMA RemoveAtType ==
  ASSUME NEW S, NEW s \in Seq(S), NEW i \in DOMAIN s
  PROVE  RemoveAt(s, i) \in Seq(S)
<1>1. DOMAIN s = 1..Len(s) /\ Len(s) \in Nat
  BY LenProperties
<1>2. SubSeq(s, 1, i - 1) \in Seq(S)
  BY <1>1, SubSeqProperties
<1>3. SubSeq(s, i + 1, Len(s)) \in Seq(S)
  BY <1>1, SubSeqProperties
<1> QED
  BY <1>2, <1>3, ConcatProperties DEF RemoveAt

\* A definition keeps its type however it is updated.
LEMMA DefType ==
  ASSUME TypeOK, NEW a \in Automation
  PROVE  /\ def[a] \in DefRow
         /\ CompletedDef(a) \in DefRow
         /\ FailedDef(a) \in DefRow
         /\ \A s \in DefStatus : [def[a] EXCEPT !.status = s] \in DefRow
<1>1. def[a] \in DefRow
  BY DEF TypeOK
<1>2. "completed" \in DefStatus /\ "failed" \in DefStatus
  BY DEF DefStatus
<1>3. /\ def[a].status \in DefStatus
      /\ def[a].count + 1 \in Nat
      /\ def[a].failures + 1 \in Nat
  BY <1>1 DEF DefRow
<1>4. \A s \in DefStatus, n \in Nat, k \in Nat :
        /\ [def[a] EXCEPT !.status = s, !.count = n, !.failures = k] \in DefRow
        /\ [def[a] EXCEPT !.status = s, !.failures = k] \in DefRow
        /\ [def[a] EXCEPT !.status = s] \in DefRow
  BY <1>1 DEF DefRow
<1>5. CompletedStatus(a) \in DefStatus /\ FailedStatus(a) \in DefStatus
  BY <1>2, <1>3 DEF CompletedStatus, FailedStatus
<1>6. CompletedDef(a) \in DefRow
  BY <1>1, <1>3, <1>5 DEF CompletedDef, DefRow
<1>7. FailedDef(a) \in DefRow
  BY <1>1, <1>3, <1>5 DEF FailedDef, DefRow
<1> QED
  BY <1>1, <1>4, <1>6, <1>7


\* A row keeps its type in every update the store makes.
LEMMA FireType ==
  ASSUME TypeOK, NEW f \in Fire
  PROVE  /\ fire[f] \in FireRow
         /\ \A s \in FireStatus : [fire[f] EXCEPT !.status = s] \in FireRow
         /\ \A s \in FireStatus, b \in BOOLEAN : [fire[f] EXCEPT !.status = s, !.bound = b] \in FireRow
         /\ \A s \in FireStatus, r \in Nat \cup {NoTime} :
              [fire[f] EXCEPT !.status = s, !.retry = r] \in FireRow
         /\ \A b \in BOOLEAN : [fire[f] EXCEPT !.bound = b] \in FireRow
<1>1. fire[f] \in FireRow
  BY DEF TypeOK
<1> QED
  BY <1>1 DEF FireRow

\* The transactions on a running fire keep both tables typed.
LEMMA StoreType ==
  ASSUME TypeOK, NEW f \in Fire, fire[f].auto \in Automation
  PROVE  /\ CompleteFire(f) => def' \in [Automation -> DefRow] /\ fire' \in [Fire -> FireRow]
         /\ FailFire(f) => def' \in [Automation -> DefRow] /\ fire' \in [Fire -> FireRow]
         /\ DeferFire(f) => def' \in [Automation -> DefRow] /\ fire' \in [Fire -> FireRow]
         /\ RecoverRow(f) => def' \in [Automation -> DefRow] /\ fire' \in [Fire -> FireRow]
<1>1. /\ fire \in [Fire -> FireRow]
      /\ "completed" \in FireStatus /\ "failed" \in FireStatus
      /\ "deferred" \in FireStatus /\ "needs_approval" \in FireStatus
  BY DEF FireStatus, TypeOK
<1>2. clock + DeferDelay \in Nat
  BY AutomationAssumption DEF TypeOK, Time
<1>3. CompleteFire(f) => def' \in [Automation -> DefRow] /\ fire' \in [Fire -> FireRow]
  <2>1. ASSUME CompleteFire(f) PROVE def' \in [Automation -> DefRow]
    BY <2>1, DefType DEF CompleteFire, TypeOK
  <2>2. ASSUME CompleteFire(f) PROVE fire' \in [Fire -> FireRow]
    <3> DEFINE row == [fire[f] EXCEPT !.status = "completed", !.bound = TRUE]
    <3>1. fire' = [fire EXCEPT ![f] = row]
      BY <1>1, <2>2 DEF CompleteFire
    <3>2. row \in FireRow
      BY <1>1, FireType
    <3> HIDE DEF row
    <3> QED
      BY <1>1, <3>1, <3>2
  <2> QED
    BY <2>1, <2>2
<1>4. FailFire(f) => def' \in [Automation -> DefRow] /\ fire' \in [Fire -> FireRow]
  <2>1. ASSUME FailFire(f) PROVE def' \in [Automation -> DefRow]
    BY <2>1, DefType DEF FailFire, TypeOK
  <2>2. ASSUME FailFire(f) PROVE fire' \in [Fire -> FireRow]
    BY <1>1, <2>2 DEF FailFire, FireRow
  <2> QED
    BY <2>1, <2>2
<1>5. DeferFire(f) => def' \in [Automation -> DefRow] /\ fire' \in [Fire -> FireRow]
  <2>1. ASSUME DeferFire(f) PROVE def' \in [Automation -> DefRow]
    BY <2>1 DEF DeferFire, TypeOK
  <2>2. ASSUME DeferFire(f) PROVE fire' \in [Fire -> FireRow]
    <3> DEFINE later == clock + DeferDelay
    <3>1. later \in Nat
      BY <1>2
    <3> DEFINE row == [fire[f] EXCEPT !.status = "deferred", !.retry = later]
    <3>2. fire' = [fire EXCEPT ![f] = row]
      BY <1>1, <2>2 DEF DeferFire
    <3> HIDE DEF later
    <3>3. row \in FireRow
      BY <1>1, <3>1, FireType
    <3> HIDE DEF row
    <3> QED
      BY <1>1, <3>2, <3>3
  <2> QED
    BY <2>1, <2>2
<1>6. RecoverRow(f) => def' \in [Automation -> DefRow] /\ fire' \in [Fire -> FireRow]
  <2>1. ASSUME fire' = [fire EXCEPT ![f].status = "needs_approval"] PROVE fire' \in [Fire -> FireRow]
    BY <1>1, <2>1 DEF FireRow
  <2> QED
    BY <1>3, <1>4, <2>1 DEF RecoverRow, TypeOK
<1> QED
  BY <1>3, <1>4, <1>5, <1>6


\* The instants a schedule yields are instants.
LEMMA ScheduleType ==
  ASSUME NEW a \in Automation, NEW t \in Time
  PROVE  /\ InitialFireAt(a, t) \in Nat \cup {NoTime}
         /\ AdvanceFireAt(a, t) \in Nat \cup {NoTime}
         /\ \A now \in Time : NextCursor(a, t, now) \in Nat \cup {NoTime}
<1>1. \A u \in Time : AdvanceFireAt(a, u) \in Nat \cup {NoTime}
  BY AutomationAssumption DEF AdvanceFireAt, Time
<1>2. InitialFireAt(a, t) \in Nat \cup {NoTime}
  BY AutomationAssumption DEF InitialFireAt, Time
<1> QED
  BY <1>1, <1>2 DEF NextCursor

\* A row that exists has an owner.
LEMMA OwnedRow ==
  ASSUME RowsOwned, NEW f \in Fire, fire[f].status # "none"
  PROVE  fire[f].auto \in Automation
BY DEF RowsOwned, RowStatus, RowOwner

\* A command, a poll or an attempt of the scheduler keeps the state typed.
LEMMA TypeStep ==
  ASSUME TypeOK, RowsOwned, RowsMatchMemory, QueueMatchesMemory, [Next]_vars
  PROVE  TypeOK'
<1> USE DEF TypeOK
<1>1. CASE UNCHANGED vars
  BY <1>1 DEF vars
<1>2. ASSUME NEW a \in Automation, Create(a) PROVE TypeOK'
  <2>1. [NoDef EXCEPT !.status = "active", !.next = InitialFireAt(a, clock)] \in DefRow
    BY ScheduleType DEF NoDef, DefRow, DefStatus
  <2> QED
    BY <1>2, <2>1 DEF Create
<1>3. ASSUME NEW a \in Automation, Pause(a) PROVE TypeOK'
  BY <1>3, DefType DEF Pause, DefStatus
<1>4. ASSUME NEW a \in Automation, Resume(a) PROVE TypeOK'
  <2>1. PICK latest \in Produced(a) :
          /\ \A t \in Produced(a) : t <= latest
          /\ def' = [def EXCEPT ![a] = ResumedDef(a, latest)]
    BY <1>4 DEF Resume
  <2>2. latest \in Time
    BY <2>1 DEF Produced, FireRow, Time, NoTime
  <2>3. ResumeCursor(a, latest) \in Nat \cup {NoTime}
    <3>1. def[a].next \in Nat \cup {NoTime}
      BY DefType DEF DefRow
    <3>2. CronNext[a][latest] \in Nat \cup {NoTime}
      BY <2>2, AutomationAssumption
    <3> QED
      BY <3>1, <3>2 DEF ResumeCursor
  <2>4. ResumedDef(a, latest) \in DefRow
    <3> DEFINE cursor == ResumeCursor(a, latest)
               Edit(d, s, n) == [d EXCEPT !.status = s, !.failures = 0, !.next = n]
    <3>1. ResumedDef(a, latest) = Edit(def[a], "active", cursor)
      BY DEF ResumedDef
    <3>2. cursor \in Nat \cup {NoTime} /\ def[a] \in DefRow /\ "active" \in DefStatus
      BY <2>3, DefType DEF DefStatus
    <3>3. \A d \in DefRow, s \in DefStatus, n \in Nat \cup {NoTime} : Edit(d, s, n) \in DefRow
      BY DEF DefRow
    <3> HIDE DEF cursor, Edit
    <3> QED
      BY <3>1, <3>2, <3>3
  <2> QED
    BY <1>4, <2>1, <2>4 DEF Resume
<1>5. ASSUME NEW a \in Automation, Delete(a) PROVE TypeOK'
  <2>1. NoDef \in DefRow
    BY DEF NoDef, DefRow, DefStatus
  <2>2. fire' \in [Fire -> FireRow]
    BY <1>5, FireType DEF Delete, FireStatus
  <2> QED
    BY <1>5, <2>1, <2>2 DEF Delete
<1>6. ASSUME NEW a \in Automation, RunNow(a) PROVE TypeOK'
  <2>1. PendingFire(a, clock) \in FireRow
    BY DEF PendingFire, NoFire, FireRow, FireStatus, NoTime
  <2> QED
    BY <1>6, <2>1, AppendProperties DEF RunNow, Enqueue, Place
<1>7. ASSUME PollStart PROVE TypeOK'
  <2>1. DiscoveryLimit \in 0..DiscoveryLimit
    BY AutomationAssumption
  <2>2. <<>> \in Seq(Fire)
    OBVIOUS
  <2>3. poll' \in PollState
    BY <1>7, <2>1, <2>2 DEF PollStart, NoPoll, PollState
  <2> QED
    BY <1>7, <2>3 DEF PollStart
<1>8. ASSUME NEW a \in Automation, PollExpire(a) PROVE TypeOK'
  BY <1>8, DefType DEF PollExpire, DefStatus
<1>9. ASSUME NEW f \in Fire, PollRecover(f) PROVE TypeOK'
  <2>1. fire' \in [Fire -> FireRow]
    BY <1>9, FireType DEF PollRecover, FireStatus
  <2>2. poll' \in PollState
    <3> DEFINE left == poll.left - 1
    <3>1. left \in 0..DiscoveryLimit
      BY <1>9, AutomationAssumption DEF PollRecover, LimitLeft, PollState
    <3>2. Append(poll.found, f) \in Seq(Fire)
      BY AppendProperties DEF PollState
    <3>3. poll' = [poll EXCEPT !.left = left, !.found = Append(poll.found, f)]
      BY <1>9 DEF PollRecover
    <3> HIDE DEF left
    <3> QED
      BY <3>1, <3>2, <3>3 DEF PollState
  <2> QED
    BY <1>9, <2>1, <2>2 DEF PollRecover
<1>10. ASSUME NEW a \in Automation, PollDue(a) PROVE TypeOK'
  <2>1. poll.left - 1 \in 0..DiscoveryLimit
    BY <1>10, AutomationAssumption DEF PollDue, LimitLeft, PollState
  <2>2. ASSUME NEW status \in DefStatus, Retire(a, status) PROVE TypeOK'
    BY <1>10, <2>1, <2>2, DefType DEF PollDue, Retire, PollState
  <2>3. ASSUME ProduceFire(a) PROVE TypeOK'
    <3>1. def[a].next \in Time
      <4>1. def[a].next \in Nat \cup {NoTime} /\ def[a].next # NoTime /\ def[a].next <= poll.now
        BY <1>10, DefType DEF PollDue, Due, DefRow
      <4>2. poll.now \in Time
        BY DEF PollState
      <4> QED
        BY <4>1, <4>2, AutomationAssumption DEF Time
    <3>2. NextCursor(a, def[a].next, poll.now) \in Nat \cup {NoTime}
      BY <3>1, ScheduleType DEF PollState
    <3>3. PendingFire(a, def[a].next) \in FireRow
      BY <3>1 DEF PendingFire, NoFire, FireRow, FireStatus, NoTime
    <3>4. PICK f \in Fire :
            /\ fire' = fire \/ fire' = [fire EXCEPT ![f] = PendingFire(a, def[a].next)]
            /\ poll' = [poll EXCEPT !.left = @ - 1, !.found = Append(@, f)]
      BY <2>3 DEF ProduceFire
    <3>5. fire' \in [Fire -> FireRow]
      BY <3>3, <3>4
    <3>6. poll' \in PollState
      BY <3>4, <2>1, AppendProperties DEF PollState
    <3>7. def' \in [Automation -> DefRow]
      <4> DEFINE next == NextCursor(a, def[a].next, poll.now)
      <4>1. def' = [def EXCEPT ![a].next = next]
        BY <2>3 DEF ProduceFire
      <4> HIDE DEF next
      <4>2. next \in Nat \cup {NoTime}
        BY <3>2 DEF next
      <4> QED
        BY <4>1, <4>2 DEF DefRow
    <3> QED
      BY <1>10, <3>5, <3>6, <3>7 DEF PollDue
  <2> QED
    BY <1>10, <2>2, <2>3 DEF PollDue, DefStatus
<1>11. ASSUME PollEnqueue PROVE TypeOK'
  <2>1. Head(poll.found) \in Fire /\ Tail(poll.found) \in Seq(Fire)
    BY <1>11, HeadTailProperties DEF PollEnqueue, PollState
  <2>2. poll' \in PollState
    BY <1>11, <2>1 DEF PollEnqueue, PollState
  <2>3. pc' \in [Fire -> Place] /\ queue' \in Seq(Fire)
    <3>1. Append(queue, Head(poll.found)) \in Seq(Fire)
      BY <2>1, AppendProperties
    <3> QED
      BY <1>11, <2>1, <3>1 DEF PollEnqueue, Enqueue, Place
  <2> QED
    BY <1>11, <2>2, <2>3 DEF PollEnqueue
<1>12. ASSUME PollPhase PROVE TypeOK'
  <2>1. NoPoll \in PollState
    BY AutomationAssumption, EmptySeq DEF NoPoll, PollState, Time
  <2>2. poll' \in PollState
    BY <1>12, <2>1 DEF PollPhase, PollState
  <2> QED
    BY <1>12, <2>2 DEF PollPhase
<1>13. ASSUME Dispatch PROVE TypeOK'
  <2>1. PICK i \in DOMAIN queue :
          /\ queue' = RemoveAt(queue, i)
          /\ \/ /\ fire' = [fire EXCEPT ![queue[i]].status = "running"]
                /\ pc' = [pc EXCEPT ![queue[i]] = "claimed"]
             \/ fire' = fire /\ pc' = [pc EXCEPT ![queue[i]] = "idle"]
    BY <1>13 DEF Dispatch
  <2>2. queue[i] \in Fire /\ queue' \in Seq(Fire)
    BY <2>1, RemoveAtType, ElementOfSeq, LenProperties
  <2>3. fire' \in [Fire -> FireRow] /\ pc' \in [Fire -> Place]
    <3>1. "running" \in FireStatus /\ "claimed" \in Place /\ "idle" \in Place
      BY DEF FireStatus, Place
    <3>2. [fire EXCEPT ![queue[i]].status = "running"] \in [Fire -> FireRow]
      BY <2>2, <3>1, FireType
    <3>4. fire' \in [Fire -> FireRow]
      BY <2>1, <3>2
    <3>3. pc' \in [Fire -> Place]
      BY <2>1, <2>2, <3>1
    <3> QED
      BY <3>3, <3>4
  <2> QED
    BY <1>13, <2>2, <2>3 DEF Dispatch
<1>14. ASSUME NEW f \in Fire, pc[f] = "claimed" \/ ClaimHeld(f) PROVE fire[f].auto \in Automation
  BY <1>14, OwnedRow DEF ClaimHeld, RowsMatchMemory, RowStatus
<1>15. ASSUME NEW f \in Fire, Release(f)
       PROVE  pc' \in [Fire -> Place] /\ queue' \in Seq(Fire) /\ poll' \in PollState
  BY <1>15 DEF Release, Place
<1>16. ASSUME NEW f \in Fire, AdmitBusy(f) \/ DeferUnsubmitted(f) \/ PrepareFails(f) \/ ClaimLost(f)
       PROVE TypeOK'
  <2>1. CASE AdmitBusy(f)
    BY <2>1, <1>14, <1>15, StoreType DEF AdmitBusy
  <2>2. CASE DeferUnsubmitted(f)
    BY <2>2, <1>14, <1>15, StoreType DEF DeferUnsubmitted
  <2>3. CASE PrepareFails(f)
    BY <2>3, <1>14, <1>15, StoreType DEF PrepareFails
  <2>4. CASE ClaimLost(f)
    BY <2>4, <1>15 DEF ClaimLost
  <2> QED
    BY <1>16, <2>1, <2>2, <2>3, <2>4
<1>17. ASSUME NEW f \in Fire, Prepare(f) PROVE TypeOK'
  BY <1>17 DEF Prepare, Place
<1>18. ASSUME NEW f \in Fire, Submit(f) PROVE TypeOK'
  BY <1>18 DEF Submit, Place, RunStatus
<1>19. ASSUME NEW f \in Fire, Bind(f) PROVE TypeOK'
  BY <1>19, FireType DEF Bind, Place
<1>20. ASSUME NEW f \in Fire, NEW outcome \in {"completed", "failed"}, RunEnds(f, outcome) PROVE TypeOK'
  BY <1>20 DEF RunEnds, RunStatus
<1>21. ASSUME NEW f \in Fire, RunTimesOut(f) PROVE TypeOK'
  BY <1>21 DEF RunTimesOut, Place
<1>22. ASSUME NEW f \in Fire, Settle(f) PROVE TypeOK'
  <2>1. def' \in [Automation -> DefRow] /\ fire' \in [Fire -> FireRow]
    <3>1. CASE fire[f].status # "running"
      BY <3>1, <1>22 DEF Settle, SettleRow
    <3>2. CASE fire[f].status = "running"
      <4>1. fire[f].auto \in Automation
        BY <3>2, OwnedRow
      <4>2. CompleteFire(f) \/ FailFire(f)
        BY <3>2, <1>22 DEF Settle, SettleRow
      <4> QED
        BY <4>1, <4>2, StoreType
    <3> QED
      BY <3>1, <3>2
  <2> QED
    BY <1>22, <1>15, <2>1 DEF Settle
<1>23. ASSUME Stop PROVE TypeOK'
  BY <1>23, EmptySeq DEF Stop, Place
<1>24. ASSUME Crash PROVE TypeOK'
  <2>1. NoPoll \in PollState
    BY AutomationAssumption, EmptySeq DEF NoPoll, PollState, Time
  <2> QED
    BY <1>24, <2>1, EmptySeq, AutomationAssumption DEF Crash, Place, RunStatus
<1>25. ASSUME Start \/ RecoveryDone PROVE TypeOK'
  BY <1>25 DEF Start, RecoveryDone
<1>26. ASSUME NEW f \in Fire, RecoverFire(f) PROVE TypeOK'
  BY <1>26, StoreType, OwnedRow DEF RecoverFire
<1>27. ASSUME Tick PROVE TypeOK'
  BY <1>27, AutomationAssumption DEF Tick, Time
<1>28. ASSUME NEW s \in Session, UserRunStarts(s) \/ UserRunEnds(s) PROVE TypeOK'
  BY <1>28 DEF UserRunStarts, UserRunEnds
<1> QED
  BY <1>1, <1>2, <1>3, <1>4, <1>5, <1>6, <1>7, <1>8, <1>9, <1>10, <1>11, <1>12, <1>13,
     <1>16, <1>17, <1>18, <1>19, <1>20, <1>21, <1>22, <1>23, <1>24, <1>25, <1>26, <1>27, <1>28
  DEF Next, Command, Poll, Attempt, Outcome, Owner

-----------------------------------------------------------------------------
(* What a step does to the columns *)

rows == <<RowStatus, RowOwner, RowBound>>
defs == <<DefState, DefCount, DefFailures>>
runs == <<run, submits>>

SetsRow(f, s) == RowStatus' = [RowStatus EXCEPT ![f] = s] /\ RowOwner' = RowOwner
SetsPlace(f, p) == pc' = [pc EXCEPT ![f] = p]

EditsDef(a) ==
  /\ \/ /\ DefState[a] = "absent" /\ DefState' = [DefState EXCEPT ![a] = "active"]
        /\ DefCount' = [DefCount EXCEPT ![a] = 0] /\ DefFailures' = [DefFailures EXCEPT ![a] = 0]
     \/ /\ DefState[a] # "absent" /\ DefState' = [DefState EXCEPT ![a] = "active"]
        /\ DefCount' = DefCount /\ DefFailures' = [DefFailures EXCEPT ![a] = 0]
     \/ /\ DefState[a] # "absent"
        /\ \E s \in {"paused", "expired", "completed"} : DefState' = [DefState EXCEPT ![a] = s]
        /\ DefCount' = DefCount /\ DefFailures' = DefFailures
  /\ UNCHANGED <<rows, runs, pc, host, userBusy>>

DeletesDef(a) ==
  /\ DefState' = [DefState EXCEPT ![a] = "absent"]
  /\ DefCount' = [DefCount EXCEPT ![a] = 0] /\ DefFailures' = [DefFailures EXCEPT ![a] = 0]
  /\ RowStatus' = [f \in Fire |-> IF RowOwner[f] = a THEN "deleted" ELSE RowStatus[f]]
  /\ \A f \in Fire : pc[f] \notin {"claimed", "submitted"}
  /\ UNCHANGED <<RowOwner, RowBound, runs, pc, host, userBusy>>

AdmitsRow(f, a) ==
  /\ RowStatus[f] = "none" /\ DefState[a] # "absent"
  /\ RowStatus' = [RowStatus EXCEPT ![f] = "pending"]
  /\ RowOwner' = [RowOwner EXCEPT ![f] = a]
  /\ RowBound' = [RowBound EXCEPT ![f] = FALSE]
  /\ pc' = pc \/ (SetsPlace(f, "queued") /\ host = "up")
  /\ UNCHANGED <<defs, runs, host, userBusy>>

RequeuesRow(f) ==
  /\ RowStatus[f] \in Waiting /\ SetsRow(f, "pending")
  /\ UNCHANGED <<RowBound, defs, runs, pc, host, userBusy>>

QueuesRow(f) ==
  /\ pc[f] = "idle" /\ RowStatus[f] # "none" /\ SetsPlace(f, "queued") /\ host \notin Away
  /\ UNCHANGED <<rows, defs, runs, host, userBusy>>

RejectsRow(f) ==
  /\ pc[f] = "queued" /\ SetsPlace(f, "idle")
  /\ UNCHANGED <<rows, defs, runs, host, userBusy>>

HasBudget(a) == MaxFires[a] = Unlimited \/ DefCount[a] < MaxFires[a]

ClaimsRow(f) ==
  /\ pc[f] = "queued" /\ SetsPlace(f, "claimed") /\ host = "up"
  /\ RowStatus[f] \in Waiting /\ SetsRow(f, "running")
  /\ DefState[RowOwner[f]] \in {"active", "expired"} /\ HasBudget(RowOwner[f])
  /\ \A g \in Fire : pc[g] \in InFlight =>
       /\ RowOwner[g] # RowOwner[f]
       /\ Isolated(RowOwner[f]) \/ SessionOf(RowOwner[g]) # SessionOf(RowOwner[f])
  /\ UNCHANGED <<RowBound, defs, runs, host, userBusy>>

\* createFreshRuntime is awaited, or the time limit of the run passes.
MovesOn(f) ==
  /\ \/ pc[f] = "claimed" /\ SetsPlace(f, "preparing")
     \/ pc[f] = "running" /\ SetsPlace(f, "timedOut")
  /\ UNCHANGED <<rows, defs, runs, host, userBusy>>

DropsRow(f) ==
  /\ pc[f] \in {"claimed", "preparing"} /\ SetsPlace(f, "idle")
  /\ RowStatus[f] # "running" \/ RowBound[f]
  /\ UNCHANGED <<rows, defs, runs, host, userBusy>>

DefersRow(f) ==
  /\ pc[f] \in {"claimed", "preparing"} /\ SetsPlace(f, "idle")
  /\ RowStatus[f] = "running" /\ SetsRow(f, "deferred")
  /\ UNCHANGED <<RowBound, defs, runs, host, userBusy>>

OwnerFails(a) ==
  /\ DefState' = [DefState EXCEPT ![a] = IF @ = "active" /\ DefFailures[a] + 1 >= PauseAfter
                                         THEN "failed" ELSE @]
  /\ DefFailures' = [DefFailures EXCEPT ![a] = @ + 1]
  /\ DefCount' = DefCount

OwnerSucceeds(a) ==
  /\ DefState' = [DefState EXCEPT ![a] = IF MaxFires[a] # Unlimited /\ DefCount[a] + 1 >= MaxFires[a]
                                         THEN "completed" ELSE @]
  /\ DefFailures' = [DefFailures EXCEPT ![a] = 0]
  /\ DefCount' = [DefCount EXCEPT ![a] = @ + 1]

FailsRow(f) == SetsRow(f, "failed") /\ RowBound' = RowBound /\ OwnerFails(RowOwner[f])
CompletesRow(f) ==
  /\ SetsRow(f, "completed") /\ RowBound' = [RowBound EXCEPT ![f] = TRUE]
  /\ OwnerSucceeds(RowOwner[f])

AbortsRow(f) ==
  /\ pc[f] \in {"claimed", "preparing"} /\ SetsPlace(f, "idle")
  /\ RowStatus[f] = "running" /\ FailsRow(f)
  /\ UNCHANGED <<runs, host, userBusy>>

SubmitsRow(f) ==
  /\ pc[f] \in {"claimed", "preparing"} /\ SetsPlace(f, "submitted")
  /\ RowStatus[f] = "running" /\ host = "up"
  /\ DefState[RowOwner[f]] \in {"active", "expired"} /\ HasBudget(RowOwner[f])
  /\ SessionOf(RowOwner[f]) \in Session => ~userBusy[SessionOf(RowOwner[f])]
  /\ run' = [run EXCEPT ![f] = "live"] /\ submits' = [submits EXCEPT ![f] = @ + 1]
  /\ UNCHANGED <<rows, defs, host, userBusy>>

BindsRow(f) ==
  /\ pc[f] = "submitted" /\ SetsPlace(f, "running")
  /\ RowBound' = [RowBound EXCEPT ![f] = TRUE]
  /\ UNCHANGED <<RowStatus, RowOwner, defs, runs, host, userBusy>>

EndsRun(f) ==
  /\ run[f] = "live" /\ pc[f] \in {"running", "timedOut"}
  /\ \E outcome \in {"completed", "failed"} : run' = [run EXCEPT ![f] = outcome]
  /\ UNCHANGED <<rows, defs, submits, pc, host, userBusy>>

SettlesRow(f) ==
  /\ pc[f] \in {"running", "timedOut"} /\ run[f] \in {"completed", "failed"}
  /\ SetsPlace(f, "idle")
  /\ \/ RowStatus[f] # "running" /\ UNCHANGED <<rows, defs>>
     \/ RowStatus[f] = "running" /\ run[f] = "completed" /\ CompletesRow(f)
     \/ RowStatus[f] = "running" /\ FailsRow(f)
  /\ UNCHANGED <<runs, host, userBusy>>

StopsHost ==
  /\ host = "up" /\ host' = "stopping"
  /\ pc' = [f \in Fire |-> IF pc[f] = "queued" THEN "idle" ELSE pc[f]]
  /\ UNCHANGED <<rows, defs, runs, userBusy>>

LosesHost ==
  /\ host' = "down"
  /\ pc' = [f \in Fire |-> "idle"]
  /\ run' = [f \in Fire |-> IF run[f] = "live" THEN "lost" ELSE run[f]]
  /\ userBusy' = [s \in Session |-> FALSE]
  /\ UNCHANGED <<rows, defs, submits>>

TurnsHost ==
  /\ \/ host = "down" /\ host' = "recovering"
     \/ host = "recovering" /\ host' = "up" /\ \A f \in Fire : RowStatus[f] # "running"
  /\ UNCHANGED <<rows, defs, runs, pc, userBusy>>

RecoversRow(f) ==
  /\ host = "recovering" /\ RowStatus[f] = "running"
  /\ \/ RowBound[f] /\ run[f] = "completed" /\ CompletesRow(f)
     \/ RowBound[f] /\ run[f] = "failed" /\ FailsRow(f)
     \/ /\ ~(RowBound[f] /\ run[f] \in {"completed", "failed"})
        /\ SetsRow(f, "needs_approval") /\ UNCHANGED <<RowBound, defs>>
  /\ UNCHANGED <<runs, pc, host, userBusy>>

UserTurn(s) ==
  /\ \/ /\ \A f \in Fire : run[f] = "live" => SessionOf(RowOwner[f]) # s
        /\ userBusy' = [userBusy EXCEPT ![s] = TRUE]
     \/ userBusy' = [userBusy EXCEPT ![s] = FALSE]
  /\ UNCHANGED <<rows, defs, runs, pc, host>>

Skips == UNCHANGED <<rows, defs, runs, pc, host, userBusy>>

ViewNext ==
  \/ \E a \in Automation : EditsDef(a) \/ DeletesDef(a)
  \/ \E f \in Fire, a \in Automation : AdmitsRow(f, a)
  \/ \E f \in Fire :
       \/ RequeuesRow(f) \/ QueuesRow(f) \/ RejectsRow(f) \/ ClaimsRow(f) \/ MovesOn(f)
       \/ DropsRow(f) \/ DefersRow(f) \/ AbortsRow(f) \/ SubmitsRow(f) \/ BindsRow(f)
       \/ EndsRun(f) \/ SettlesRow(f) \/ RecoversRow(f)
  \/ StopsHost \/ LosesHost \/ TurnsHost
  \/ \E s \in Session : UserTurn(s)
  \/ Skips

-----------------------------------------------------------------------------
(* Every step has one of these effects *)

\* The columns of typed tables are typed.
LEMMA RowViews ==
  ASSUME TypeOK
  PROVE  /\ RowStatus \in [Fire -> FireStatus] /\ RowBound \in [Fire -> BOOLEAN]
         /\ RowOwner \in [Fire -> Automation \cup {NoAutomation}]
         /\ DefState \in [Automation -> DefStatus]
         /\ DefCount \in [Automation -> Nat] /\ DefFailures \in [Automation -> Nat]
<1>1. \A f \in Fire : /\ fire[f].status \in FireStatus /\ fire[f].bound \in BOOLEAN
                     /\ fire[f].auto \in Automation \cup {NoAutomation}
  BY DEF TypeOK, FireRow
<1>2. \A a \in Automation : /\ def[a].status \in DefStatus
                           /\ def[a].count \in Nat /\ def[a].failures \in Nat
  BY DEF TypeOK, DefRow
<1> QED
  BY <1>1, <1>2 DEF RowStatus, RowBound, RowOwner, DefState, DefCount, DefFailures

\* Replacing a row replaces its entry in every column.
LEMMA RowEdit ==
  ASSUME TypeOK, NEW f \in Fire, NEW row, fire' = [fire EXCEPT ![f] = row]
  PROVE  /\ RowStatus' = [RowStatus EXCEPT ![f] = row.status]
         /\ RowOwner' = [RowOwner EXCEPT ![f] = row.auto]
         /\ RowBound' = [RowBound EXCEPT ![f] = row.bound]
BY DEF TypeOK, RowStatus, RowOwner, RowBound

\* Replacing a definition replaces its entry in every column.
LEMMA DefEdit ==
  ASSUME TypeOK, NEW a \in Automation, NEW row, def' = [def EXCEPT ![a] = row]
  PROVE  /\ DefState' = [DefState EXCEPT ![a] = row.status]
         /\ DefCount' = [DefCount EXCEPT ![a] = row.count]
         /\ DefFailures' = [DefFailures EXCEPT ![a] = row.failures]
BY DEF TypeOK, DefState, DefCount, DefFailures

\* Editing the status of a row leaves its other columns alone.
LEMMA StatusEdit ==
  ASSUME TypeOK, NEW f \in Fire, NEW s, NEW r,
         \/ fire' = [fire EXCEPT ![f].status = s]
         \/ fire' = [fire EXCEPT ![f].status = s, ![f].retry = r]
  PROVE  SetsRow(f, s) /\ RowBound' = RowBound
<1> DEFINE row == [fire[f] EXCEPT !.status = s]
           late == [fire[f] EXCEPT !.status = s, !.retry = r]
<1>1. fire \in [Fire -> FireRow] /\ fire[f] \in FireRow
  BY DEF TypeOK
<1>2. fire' = [fire EXCEPT ![f] = row] \/ fire' = [fire EXCEPT ![f] = late]
  BY <1>1
<1>3. /\ row.status = s /\ row.auto = fire[f].auto /\ row.bound = fire[f].bound
      /\ late.status = s /\ late.auto = fire[f].auto /\ late.bound = fire[f].bound
  BY <1>1 DEF FireRow
<1> HIDE DEF row, late
<1>4. /\ RowStatus' = [RowStatus EXCEPT ![f] = s]
      /\ RowOwner' = [RowOwner EXCEPT ![f] = fire[f].auto]
      /\ RowBound' = [RowBound EXCEPT ![f] = fire[f].bound]
  BY <1>2, <1>3, RowEdit
<1> QED
  BY <1>4, RowViews DEF SetsRow, RowOwner, RowBound

\* completeFire settles the row and counts the success.
LEMMA CompleteView ==
  ASSUME TypeOK, NEW f \in Fire, fire[f].auto \in Automation, CompleteFire(f)
  PROVE  CompletesRow(f)
<1> DEFINE row == [fire[f] EXCEPT !.status = "completed", !.bound = TRUE]
           a == fire[f].auto
<1>1. fire \in [Fire -> FireRow] /\ fire[f] \in FireRow /\ def[a] \in DefRow
  BY DEF TypeOK
<1>2. fire' = [fire EXCEPT ![f] = row]
  BY <1>1 DEF CompleteFire
<1>3. row.status = "completed" /\ row.auto = fire[f].auto /\ row.bound = TRUE
  BY <1>1 DEF FireRow
<1> HIDE DEF row
<1>4. SetsRow(f, "completed") /\ RowBound' = [RowBound EXCEPT ![f] = TRUE]
  <2>1. /\ RowStatus' = [RowStatus EXCEPT ![f] = "completed"]
        /\ RowOwner' = [RowOwner EXCEPT ![f] = fire[f].auto]
        /\ RowBound' = [RowBound EXCEPT ![f] = TRUE]
    <3>1. /\ RowStatus' = [RowStatus EXCEPT ![f] = row.status]
          /\ RowOwner' = [RowOwner EXCEPT ![f] = row.auto]
          /\ RowBound' = [RowBound EXCEPT ![f] = row.bound]
      BY <1>2, RowEdit
    <3> QED
      BY <1>3, <3>1, Zenon
  <2> QED
    BY <2>1, RowViews DEF SetsRow, RowOwner
<1>5. def' = [def EXCEPT ![a] = CompletedDef(a)]
  BY DEF CompleteFire
<1>6. /\ CompletedDef(a).status = CompletedStatus(a) /\ CompletedDef(a).count = def[a].count + 1
      /\ CompletedDef(a).failures = 0
  BY <1>1 DEF CompletedDef, DefRow
<1>7. /\ RowOwner[f] = a /\ DefState[a] = def[a].status /\ DefCount[a] = def[a].count
  BY DEF RowOwner, DefState, DefCount
<1>8. OwnerSucceeds(a)
  <2>1. /\ DefState' = [DefState EXCEPT ![a] = CompletedStatus(a)]
        /\ DefCount' = [DefCount EXCEPT ![a] = DefCount[a] + 1]
        /\ DefFailures' = [DefFailures EXCEPT ![a] = 0]
    <3>1. /\ DefState' = [DefState EXCEPT ![a] = CompletedDef(a).status]
          /\ DefCount' = [DefCount EXCEPT ![a] = CompletedDef(a).count]
          /\ DefFailures' = [DefFailures EXCEPT ![a] = CompletedDef(a).failures]
      BY <1>5, DefEdit
    <3> QED
      BY <1>6, <1>7, <3>1, Zenon
  <2>2. CompletedStatus(a) = IF MaxFires[a] # Unlimited /\ DefCount[a] + 1 >= MaxFires[a]
                             THEN "completed" ELSE DefState[a]
    BY <1>7 DEF CompletedStatus
  <2> QED
    BY <2>1, <2>2, Zenon DEF OwnerSucceeds
<1> QED
  BY <1>4, <1>7, <1>8 DEF CompletesRow

\* failFire settles the row and counts the failure.
LEMMA FailView ==
  ASSUME TypeOK, NEW f \in Fire, fire[f].auto \in Automation, FailFire(f)
  PROVE  FailsRow(f)
<1> DEFINE a == fire[f].auto
<1>1. def[a] \in DefRow
  BY DEF TypeOK
<1>2. SetsRow(f, "failed") /\ RowBound' = RowBound
  BY StatusEdit DEF FailFire
<1>3. def' = [def EXCEPT ![a] = FailedDef(a)]
  BY DEF FailFire
<1>4. /\ FailedDef(a).status = FailedStatus(a) /\ FailedDef(a).count = def[a].count
      /\ FailedDef(a).failures = def[a].failures + 1
  BY <1>1 DEF FailedDef, DefRow
<1>5. /\ RowOwner[f] = a /\ DefState[a] = def[a].status /\ DefCount[a] = def[a].count
      /\ DefFailures[a] = def[a].failures
  BY DEF RowOwner, DefState, DefCount, DefFailures
<1>6. OwnerFails(a)
  <2>1. /\ DefState' = [DefState EXCEPT ![a] = FailedStatus(a)]
        /\ DefCount' = [DefCount EXCEPT ![a] = DefCount[a]]
        /\ DefFailures' = [DefFailures EXCEPT ![a] = DefFailures[a] + 1]
    <3>1. /\ DefState' = [DefState EXCEPT ![a] = FailedDef(a).status]
          /\ DefCount' = [DefCount EXCEPT ![a] = FailedDef(a).count]
          /\ DefFailures' = [DefFailures EXCEPT ![a] = FailedDef(a).failures]
      BY <1>3, DefEdit
    <3> QED
      BY <1>4, <1>5, <3>1, Zenon
  <2>2. FailedStatus(a) = IF DefState[a] = "active" /\ DefFailures[a] + 1 >= PauseAfter
                          THEN "failed" ELSE DefState[a]
    BY <1>5 DEF FailedStatus
  <2>3. DefCount' = DefCount
    BY <2>1, RowViews
  <2> QED
    BY <2>1, <2>2, <2>3, Zenon DEF OwnerFails
<1> QED
  BY <1>2, <1>5, <1>6 DEF FailsRow

\* deferFire puts the row back and leaves the definitions alone.
LEMMA DeferView ==
  ASSUME TypeOK, NEW f \in Fire, DeferFire(f)
  PROVE  SetsRow(f, "deferred") /\ UNCHANGED <<RowBound, defs>>
BY StatusEdit DEF DeferFire, defs, DefState, DefCount, DefFailures

\* Untouched rows keep their columns.
LEMMA SameRows == ASSUME fire' = fire PROVE UNCHANGED <<rows, RowStatus, RowOwner, RowBound>>
BY DEF rows, RowStatus, RowOwner, RowBound

\* Untouched definitions keep their columns.
LEMMA SameDefs == ASSUME def' = def PROVE UNCHANGED <<defs, DefState, DefCount, DefFailures>>
BY DEF defs, DefState, DefCount, DefFailures

\* What an entry of a column is.
LEMMA Columns ==
  /\ \A f \in Fire : RowStatus[f] = fire[f].status /\ RowOwner[f] = fire[f].auto
                    /\ RowBound[f] = fire[f].bound
  /\ \A a \in Automation : DefState[a] = def[a].status /\ DefCount[a] = def[a].count
                          /\ DefFailures[a] = def[a].failures
BY DEF RowStatus, RowOwner, RowBound, DefState, DefCount, DefFailures

\* A new row of an automation is admitted.
LEMMA AdmitView ==
  ASSUME TypeOK, NEW f \in Fire, NEW a \in Automation, NEW t,
         fire' = [fire EXCEPT ![f] = PendingFire(a, t)]
  PROVE  /\ RowStatus' = [RowStatus EXCEPT ![f] = "pending"]
         /\ RowOwner' = [RowOwner EXCEPT ![f] = a]
         /\ RowBound' = [RowBound EXCEPT ![f] = FALSE]
<1> DEFINE row == PendingFire(a, t)
<1>1. row.status = "pending" /\ row.auto = a /\ row.bound = FALSE
  BY DEF PendingFire, NoFire
<1> HIDE DEF row
<1>2. /\ RowStatus' = [RowStatus EXCEPT ![f] = row.status]
      /\ RowOwner' = [RowOwner EXCEPT ![f] = row.auto]
      /\ RowBound' = [RowBound EXCEPT ![f] = row.bound]
  BY RowEdit DEF row
<1> QED
  BY <1>1, <1>2, Zenon

\* The commands change one definition, delete it with its rows, or admit a row.
LEMMA CommandView ==
  ASSUME TypeOK, NEW a \in Automation, Command(a)
  PROVE  EditsDef(a) \/ DeletesDef(a) \/ \E f \in Fire : AdmitsRow(f, a)
<1>1. ASSUME Create(a) PROVE EditsDef(a)
  <2> DEFINE row == [NoDef EXCEPT !.status = "active", !.next = InitialFireAt(a, clock)]
  <2>1. row.status = "active" /\ row.count = 0 /\ row.failures = 0
    BY DEF NoDef
  <2>2. def' = [def EXCEPT ![a] = row] /\ DefState[a] = "absent"
    BY <1>1, Columns DEF Create
  <2> HIDE DEF row
  <2>3. /\ DefState' = [DefState EXCEPT ![a] = row.status]
        /\ DefCount' = [DefCount EXCEPT ![a] = row.count]
        /\ DefFailures' = [DefFailures EXCEPT ![a] = row.failures]
    BY <2>2, DefEdit
  <2>4. UNCHANGED <<rows, runs, pc, host, userBusy>>
    BY <1>1, SameRows DEF Create, runs
  <2> QED
    BY <2>1, <2>2, <2>3, <2>4 DEF EditsDef
<1>2. ASSUME Pause(a) PROVE EditsDef(a)
  <2>1. DefState' = [DefState EXCEPT ![a] = "paused"] /\ DefCount' = DefCount /\ DefFailures' = DefFailures
    BY <1>2 DEF Pause, TypeOK, DefRow, DefState, DefCount, DefFailures
  <2>2. DefState[a] # "absent" /\ UNCHANGED <<rows, runs, pc, host, userBusy>>
    BY <1>2, SameRows, Columns DEF Pause, runs
  <2> QED
    BY <2>1, <2>2 DEF EditsDef
<1>3. ASSUME Resume(a) PROVE EditsDef(a)
  <2>1. PICK latest : def' = [def EXCEPT ![a] = ResumedDef(a, latest)]
    BY <1>3 DEF Resume
  <2> DEFINE row == ResumedDef(a, latest)
  <2>2. row.status = "active" /\ row.count = DefCount[a] /\ row.failures = 0
    BY Columns DEF ResumedDef, TypeOK, DefRow
  <2> HIDE DEF row
  <2>3. /\ DefState' = [DefState EXCEPT ![a] = row.status]
        /\ DefCount' = [DefCount EXCEPT ![a] = row.count]
        /\ DefFailures' = [DefFailures EXCEPT ![a] = row.failures]
    BY <2>1, DefEdit DEF row
  <2>4. DefCount' = DefCount
    BY <2>2, <2>3, RowViews
  <2>5. DefState[a] # "absent" /\ UNCHANGED <<rows, runs, pc, host, userBusy>>
    BY <1>3, SameRows, Columns DEF Resume, runs
  <2> QED
    BY <2>2, <2>3, <2>4, <2>5 DEF EditsDef
<1>4. ASSUME Delete(a) PROVE DeletesDef(a)
  <2>1. /\ DefState' = [DefState EXCEPT ![a] = "absent"]
        /\ DefCount' = [DefCount EXCEPT ![a] = 0] /\ DefFailures' = [DefFailures EXCEPT ![a] = 0]
    BY <1>4 DEF Delete, NoDef, TypeOK, DefState, DefCount, DefFailures
  <2>2. RowStatus' = [f \in Fire |-> IF RowOwner[f] = a THEN "deleted" ELSE RowStatus[f]]
    BY <1>4 DEF Delete, TypeOK, FireRow, RowStatus, RowOwner
  <2>3. RowOwner' = RowOwner /\ RowBound' = RowBound
    BY <1>4 DEF Delete, TypeOK, FireRow, RowBound, RowOwner
  <2>4. /\ \A f \in Fire : pc[f] \notin {"claimed", "submitted"}
        /\ UNCHANGED <<runs, pc, host, userBusy>>
    BY <1>4 DEF Delete, Quiet, Settled, runs
  <2> QED
    BY <2>1, <2>2, <2>3, <2>4 DEF DeletesDef
<1>5. ASSUME RunNow(a) PROVE \E f \in Fire : AdmitsRow(f, a)
  <2>1. PICK f \in Fire : Fresh(f) /\ fire' = [fire EXCEPT ![f] = PendingFire(a, clock)] /\ Enqueue(f)
    BY <1>5 DEF RunNow
  <2>2. RowStatus[f] = "none" /\ DefState[a] # "absent"
    BY <1>5, <2>1, Columns DEF RunNow, Fresh
  <2>3. SetsPlace(f, "queued") /\ host = "up" /\ UNCHANGED <<defs, runs, host, userBusy>>
    BY <1>5, <2>1, SameDefs DEF RunNow, Enqueue, SetsPlace, runs
  <2> QED
    BY <2>1, <2>2, <2>3, AdmitView DEF AdmitsRow
<1> QED
  BY <1>1, <1>2, <1>3, <1>4, <1>5 DEF Command

\* A discovery expires or retires definitions, requeues and admits rows, and
\* queues what it found.
LEMMA PollView ==
  ASSUME TypeOK, QueueMatchesMemory, Poll
  PROVE  \/ Skips
         \/ \E a \in Automation : EditsDef(a)
         \/ \E f \in Fire : RequeuesRow(f) \/ QueuesRow(f)
         \/ \E f \in Fire, a \in Automation : AdmitsRow(f, a)
<1>1. ASSUME PollStart \/ PollPhase PROVE Skips
  BY <1>1, SameRows, SameDefs DEF PollStart, PollPhase, Skips, runs
<1>2. ASSUME PollEnqueue PROVE Skips \/ \E f \in Fire : QueuesRow(f)
  <2> DEFINE f == Head(poll.found)
  <2>1. f \in Fire /\ f = poll.found[1] /\ 1 \in DOMAIN poll.found
    BY <1>2, HeadTailProperties, LenProperties DEF PollEnqueue, TypeOK, PollState
  <2>2. RowStatus[f] # "none" /\ host = "up"
    BY <1>2, <2>1 DEF QueueMatchesMemory, PollEnqueue
  <2>3. UNCHANGED <<rows, defs, runs, host, userBusy>>
    BY <1>2, SameRows, SameDefs DEF PollEnqueue, runs
  <2>4. CASE pc[f] = "idle"
    BY <1>2, <2>1, <2>2, <2>3, <2>4 DEF PollEnqueue, Enqueue, QueuesRow, SetsPlace, Away
  <2>5. CASE pc[f] # "idle"
    BY <1>2, <2>3, <2>5 DEF PollEnqueue, Skips
  <2> QED
    BY <2>4, <2>5
<1>3. ASSUME NEW a \in Automation, PollExpire(a) PROVE EditsDef(a)
  <2>1. def' = [def EXCEPT ![a].status = "expired"] /\ def[a].status = "active"
    BY <1>3 DEF PollExpire, Expirable
  <2>2. DefState' = [DefState EXCEPT ![a] = "expired"] /\ DefCount' = DefCount /\ DefFailures' = DefFailures
    BY <2>1 DEF TypeOK, DefRow, DefState, DefCount, DefFailures
  <2>3. DefState[a] # "absent" /\ UNCHANGED <<rows, runs, pc, host, userBusy>>
    BY <1>3, <2>1, SameRows, Columns DEF PollExpire, runs
  <2> QED
    BY <2>2, <2>3 DEF EditsDef
<1>4. ASSUME NEW f \in Fire, PollRecover(f) PROVE RequeuesRow(f)
  <2>1. RowStatus[f] \in Waiting
    BY <1>4, Columns DEF PollRecover, Recoverable, Waiting
  <2>2. SetsRow(f, "pending") /\ RowBound' = RowBound
    BY <1>4, StatusEdit DEF PollRecover
  <2> QED
    BY <1>4, <2>1, <2>2, SameDefs DEF PollRecover, RequeuesRow, runs
<1>5. ASSUME NEW a \in Automation, PollDue(a)
      PROVE  \/ Skips \/ EditsDef(a) \/ \E f \in Fire : AdmitsRow(f, a)
  <2>1. def[a].status = "active" /\ UNCHANGED <<runs, pc, host, userBusy>>
    BY <1>5 DEF PollDue, Due, runs
  <2>2. ASSUME NEW s \in {"completed", "expired"}, Retire(a, s) PROVE EditsDef(a)
    <3>1. DefState' = [DefState EXCEPT ![a] = s] /\ DefCount' = DefCount /\ DefFailures' = DefFailures
      BY <2>2 DEF Retire, TypeOK, DefRow, DefState, DefCount, DefFailures
    <3>2. DefState[a] # "absent" /\ UNCHANGED rows
      BY <2>1, <2>2, SameRows, Columns DEF Retire
    <3> QED
      BY <2>1, <3>1, <3>2 DEF EditsDef
  <2>3. ASSUME ProduceFire(a) PROVE Skips \/ \E f \in Fire : AdmitsRow(f, a)
    <3>1. UNCHANGED <<defs, DefState, DefCount, DefFailures>>
      BY <2>3 DEF ProduceFire, TypeOK, DefRow, defs, DefState, DefCount, DefFailures
    <3>2. PICK f \in Fire :
            \/ fire' = fire
            \/ Fresh(f) /\ fire' = [fire EXCEPT ![f] = PendingFire(a, def[a].next)]
      BY <2>3 DEF ProduceFire
    <3>3. CASE fire' = fire
      BY <2>1, <3>1, <3>3, SameRows DEF Skips
    <3>4. CASE Fresh(f) /\ fire' = [fire EXCEPT ![f] = PendingFire(a, def[a].next)]
      <4>1. RowStatus[f] = "none" /\ DefState[a] # "absent"
        BY <2>1, <3>4, Columns DEF Fresh
      <4>2. /\ RowStatus' = [RowStatus EXCEPT ![f] = "pending"]
            /\ RowOwner' = [RowOwner EXCEPT ![f] = a]
            /\ RowBound' = [RowBound EXCEPT ![f] = FALSE]
        BY <3>4, AdmitView
      <4> QED
        BY <2>1, <3>1, <4>1, <4>2 DEF AdmitsRow
    <3> QED
      BY <3>2, <3>3, <3>4
  <2> QED
    BY <1>5, <2>2, <2>3 DEF PollDue
<1> QED
  BY <1>1, <1>2, <1>3, <1>4, <1>5 DEF Poll

\* A dispatch claims a queued row when nothing in flight excludes it.
LEMMA DispatchView ==
  ASSUME TypeOK, RowsOwned, QueueMatchesMemory, Dispatch
  PROVE  \E f \in Fire : ClaimsRow(f) \/ RejectsRow(f)
<1>1. PICK i \in DOMAIN queue :
        /\ Startable(i)
        /\ IF Claimable(queue[i])
           THEN /\ fire' = [fire EXCEPT ![queue[i]].status = "running"]
                /\ pc' = [pc EXCEPT ![queue[i]] = "claimed"]
           ELSE fire' = fire /\ pc' = [pc EXCEPT ![queue[i]] = "idle"]
  BY DEF Dispatch
<1> DEFINE f == queue[i]
           a == fire[f].auto
<1>2. f \in Fire /\ pc[f] = "queued"
  BY <1>1, ElementOfSeq, LenProperties DEF TypeOK, QueueMatchesMemory
<1>3. host = "up" /\ UNCHANGED <<defs, runs, host, userBusy>>
  BY SameDefs DEF Dispatch, Dispatchable, runs
<1>4. CASE Claimable(f)
  <2>1. SetsRow(f, "running") /\ RowBound' = RowBound
    BY <1>1, <1>2, <1>4, StatusEdit
  <2>2. fire[f].status \in Waiting /\ def[a].status \in {"active", "expired"} /\ BudgetLeft(a)
    BY <1>4 DEF Claimable, Waiting
  <2>3. a \in Automation
    BY <1>2, <2>2, OwnedRow DEF Waiting
  <2>4. /\ RowStatus[f] = fire[f].status /\ RowOwner[f] = a
        /\ DefState[a] = def[a].status /\ DefCount[a] = def[a].count
    BY <1>2, <2>3, Columns
  <2>5. def[a].status # "absent" /\ HasBudget(a)
    BY <2>2, <2>4 DEF BudgetLeft, HasBudget
  <2>6. ASSUME NEW g \in Fire, pc[g] \in InFlight
        PROVE  RowOwner[g] # a /\ (Isolated(a) \/ SessionOf(RowOwner[g]) # SessionOf(a))
    <3>1. g \in Active /\ RowOwner[g] = fire[g].auto
      BY <2>6, Columns DEF Active, InFlight
    <3>2. a # fire[g].auto
      BY <1>1, <3>1 DEF Startable, ActiveAutomations
    <3>3. SessionOf(a) \notin ActiveSessions
      BY <1>1, <2>5 DEF Startable
    <3>4. SessionOf(fire[g].auto) # SessionOf(a) \/ SessionOf(a) = NoSession
      BY <3>1, <3>3 DEF ActiveSessions
    <3> QED
      BY <3>1, <3>2, <3>4 DEF Isolated
  <2>7. ClaimsRow(f)
    BY <1>1, <1>2, <1>3, <1>4, <2>1, <2>2, <2>4, <2>5, <2>6 DEF ClaimsRow, SetsPlace
  <2> QED
    BY <1>2, <2>7
<1>5. CASE ~Claimable(f)
  <2>1. RejectsRow(f)
    BY <1>1, <1>2, <1>3, <1>5, SameRows DEF RejectsRow, SetsPlace
  <2> QED
    BY <1>2, <2>1
<1> QED
  BY <1>4, <1>5

\* Where the attempt at a fire stands when its synchronous tail runs.
LEMMA SubmissionPlace ==
  ASSUME NEW f \in Fire, AtSubmission(f)
  PROVE  pc[f] \in {"claimed", "preparing"}
BY DEF AtSubmission

\* An attempt goes on, gives its row back, fails, or submits its run.
LEMMA AttemptView ==
  ASSUME TypeOK, RowsOwned, RowsMatchMemory, NEW f \in Fire, Attempt(f)
  PROVE  \/ MovesOn(f) \/ DropsRow(f) \/ DefersRow(f) \/ AbortsRow(f)
         \/ SubmitsRow(f) \/ BindsRow(f)
<1>1. ASSUME AdmitBusy(f) PROVE DefersRow(f)
  BY <1>1, DeferView DEF AdmitBusy, RowsMatchMemory, DefersRow, Release, SetsPlace, runs
<1>2. ASSUME Prepare(f) PROVE MovesOn(f)
  BY <1>2, SameRows, SameDefs DEF Prepare, MovesOn, SetsPlace, runs
<1>3. ASSUME ClaimLost(f) PROVE DropsRow(f)
  BY <1>3, SubmissionPlace, SameRows, SameDefs, Columns
  DEF ClaimLost, ClaimHeld, DropsRow, Release, SetsPlace, runs
<1>4. ASSUME DeferUnsubmitted(f) PROVE DefersRow(f)
  BY <1>4, SubmissionPlace, DeferView, Columns
  DEF DeferUnsubmitted, ClaimHeld, DefersRow, Release, SetsPlace, runs
<1>5. ASSUME PrepareFails(f) PROVE AbortsRow(f)
  <2>1. FailsRow(f) /\ RowStatus[f] = "running"
    BY <1>5, FailView, OwnedRow, Columns DEF PrepareFails, ClaimHeld
  <2> QED
    BY <1>5, <2>1, SubmissionPlace DEF PrepareFails, AbortsRow, Release, SetsPlace, runs
<1>6. ASSUME Submit(f) PROVE SubmitsRow(f)
  <2> DEFINE a == fire[f].auto
  <2>1. RowStatus[f] = "running" /\ host = "up" /\ ~SessionBusy(SessionOf(a)) /\ StillAdmitted(f)
    BY <1>6, Columns DEF Submit, MaySubmit, ClaimHeld
  <2>2. a \in Automation /\ RowOwner[f] = a
    BY <2>1, OwnedRow, Columns
  <2>3. DefState[a] \in {"active", "expired"} /\ HasBudget(a)
    BY <2>1, <2>2, Columns DEF StillAdmitted, CanClaimFire, BudgetLeft, HasBudget
  <2>4. SessionOf(a) \in Session => ~userBusy[SessionOf(a)]
    BY <2>1 DEF SessionBusy
  <2>5. UNCHANGED <<rows, defs, host, userBusy>>
    BY <1>6, SameRows, SameDefs DEF Submit
  <2> QED
    BY <1>6, <2>1, <2>2, <2>3, <2>4, <2>5, SubmissionPlace DEF Submit, SubmitsRow, SetsPlace
<1>7. ASSUME Bind(f) PROVE BindsRow(f)
  <2>1. RowStatus' = RowStatus /\ RowOwner' = RowOwner /\ RowBound' = [RowBound EXCEPT ![f] = TRUE]
    BY <1>7 DEF Bind, TypeOK, FireRow, RowStatus, RowOwner, RowBound
  <2> QED
    BY <1>7, <2>1, SameDefs DEF Bind, BindsRow, SetsPlace, runs
<1> QED
  BY <1>1, <1>2, <1>3, <1>4, <1>5, <1>6, <1>7 DEF Attempt

\* A run ends or times out, and its outcome settles the row.
LEMMA OutcomeView ==
  ASSUME TypeOK, RowsOwned, NEW f \in Fire, Outcome(f)
  PROVE  EndsRun(f) \/ MovesOn(f) \/ SettlesRow(f)
<1>1. ASSUME NEW o \in {"completed", "failed"}, RunEnds(f, o) PROVE EndsRun(f)
  BY <1>1, SameRows, SameDefs DEF RunEnds, EndsRun
<1>2. ASSUME RunTimesOut(f) PROVE MovesOn(f)
  BY <1>2, SameRows, SameDefs DEF RunTimesOut, MovesOn, SetsPlace, runs
<1>3. ASSUME Settle(f) PROVE SettlesRow(f)
  <2>1. \/ RowStatus[f] # "running" /\ UNCHANGED <<rows, defs>>
        \/ RowStatus[f] = "running" /\ run[f] = "completed" /\ CompletesRow(f)
        \/ RowStatus[f] = "running" /\ FailsRow(f)
    <3>1. CASE fire[f].status # "running"
      BY <1>3, <3>1, SameRows, SameDefs, Columns DEF Settle, SettleRow
    <3>2. CASE fire[f].status = "running"
      <4>1. fire[f].auto \in Automation /\ RowStatus[f] = "running"
        BY <3>2, OwnedRow, Columns
      <4>2. (run[f] = "completed" /\ CompleteFire(f)) \/ FailFire(f)
        BY <1>3, <3>2 DEF Settle, SettleRow
      <4> QED
        BY <4>1, <4>2, CompleteView, FailView
    <3> QED
      BY <3>1, <3>2
  <2> QED
    BY <1>3, <2>1 DEF Settle, SettlesRow, Release, SetsPlace, runs
<1> QED
  BY <1>1, <1>2, <1>3 DEF Outcome

\* The Host stops, is lost, starts again and recovers what it left running.
LEMMA OwnerView ==
  ASSUME TypeOK, RowsOwned, Owner
  PROVE  StopsHost \/ LosesHost \/ TurnsHost \/ \E f \in Fire : RecoversRow(f)
<1>1. ASSUME Stop PROVE StopsHost
  BY <1>1, SameRows, SameDefs DEF Stop, StopsHost, runs
<1>2. ASSUME Crash PROVE LosesHost
  BY <1>2, SameRows, SameDefs DEF Crash, LosesHost
<1>3. ASSUME Start \/ RecoveryDone PROVE TurnsHost
  BY <1>3, SameRows, SameDefs, Columns DEF Start, RecoveryDone, TurnsHost, runs
<1>4. ASSUME NEW f \in Fire, RecoverFire(f) PROVE RecoversRow(f)
  <2>1. fire[f].auto \in Automation /\ RowStatus[f] = "running" /\ RowBound[f] = fire[f].bound
    BY <1>4, OwnedRow, Columns DEF RecoverFire
  <2>2. CASE fire[f].bound /\ run[f] = "completed"
    BY <1>4, <2>1, <2>2, CompleteView DEF RecoverFire, RecoverRow, RecoversRow, runs
  <2>3. CASE fire[f].bound /\ run[f] = "failed"
    BY <1>4, <2>1, <2>3, FailView DEF RecoverFire, RecoverRow, RecoversRow, runs
  <2>4. CASE ~(fire[f].bound /\ run[f] \in {"completed", "failed"})
    <3>1. fire' = [fire EXCEPT ![f].status = "needs_approval"] /\ def' = def
      BY <1>4, <2>4 DEF RecoverFire, RecoverRow
    <3>2. SetsRow(f, "needs_approval") /\ RowBound' = RowBound
      BY <3>1, StatusEdit
    <3> QED
      BY <1>4, <2>1, <2>4, <3>1, <3>2, SameDefs DEF RecoverFire, RecoversRow, runs
  <2> QED
    BY <2>2, <2>3, <2>4
<1> QED
  BY <1>1, <1>2, <1>3, <1>4 DEF Owner

\* Every step of the scheduler and its environment has one of the effects.
LEMMA StepView ==
  ASSUME TypeOK, RowsOwned, RowsMatchMemory, QueueMatchesMemory, [Next]_vars
  PROVE  ViewNext
<1>1. CASE UNCHANGED vars
  BY <1>1, SameRows, SameDefs DEF vars, ViewNext, Skips, runs
<1>2. CASE Tick
  BY <1>2, SameRows, SameDefs DEF Tick, ViewNext, Skips, runs
<1>3. ASSUME NEW s \in Session, UserRunStarts(s) \/ UserRunEnds(s) PROVE UserTurn(s)
  <2>1. UNCHANGED <<rows, defs, runs, pc, host>>
    BY <1>3, SameRows, SameDefs DEF UserRunStarts, UserRunEnds, runs
  <2>2. ASSUME UserRunStarts(s), NEW f \in Fire, run[f] = "live" PROVE SessionOf(RowOwner[f]) # s
    BY <2>2, Columns, AutomationAssumption DEF UserRunStarts, SessionBusy
  <2> QED
    BY <1>3, <2>1, <2>2 DEF UserRunStarts, UserRunEnds, UserTurn
<1> QED
  BY <1>1, <1>2, <1>3, CommandView, PollView, DispatchView, AttemptView, OutcomeView, OwnerView
  DEF Next, ViewNext

=============================================================================

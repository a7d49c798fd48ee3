---------------------------- MODULE TaskOutcome ----------------------------
(***************************************************************************)
(* What the record of one task promises to its readers, whatever happens   *)
(* to the processes behind it: a new try starts only when every earlier    *)
(* one was judged and failed, a checked task is completed only on a passed *)
(* verdict, and an outcome is final.  The one outcome that may be taken up *)
(* again is "interrupted": a worker whose state is kept.                   *)
(***************************************************************************)
EXTENDS Naturals, Sequences

CONSTANTS MaxTries

VARIABLES
    checked,   \* the task has acceptance checks
    phase,     \* "open", "asking" (for a permission), "interrupted", an outcome
    verdicts   \* the verdict on each try

vars == <<checked, phase, verdicts>>

Outcome == {"completed", "failed", "incomplete", "blocked", "aborted", "cancelled"}
Verdict == {"none", "passed", "failed", "blocked", "cancelled"}

Init == checked \in BOOLEAN /\ phase = "open" /\ verdicts = <<>>

Latest == verdicts[Len(verdicts)]
MayTry == verdicts = <<>> \/ (Latest = "failed" /\ Len(verdicts) < MaxTries)

Try ==
    /\ phase = "open" /\ MayTry
    /\ verdicts' = Append(verdicts, "none")
    /\ UNCHANGED <<checked, phase>>

Judge(v) ==
    /\ phase = "open" /\ verdicts # <<>>
    /\ verdicts' = [verdicts EXCEPT ![Len(verdicts)] = v]
    /\ UNCHANGED <<checked, phase>>

Ask ==
    /\ phase = "open" /\ verdicts # <<>> /\ Latest = "blocked"
    /\ phase' = "asking"
    /\ UNCHANGED <<checked, verdicts>>

Answer ==
    /\ phase = "asking"
    /\ phase' = "open"
    /\ UNCHANGED <<checked, verdicts>>

Interrupt ==
    /\ phase = "open" /\ verdicts # <<>>
    /\ phase' = "interrupted"
    /\ UNCHANGED <<checked, verdicts>>

Continue ==
    /\ phase = "interrupted"
    /\ phase' = "open"
    /\ UNCHANGED <<checked, verdicts>>

\* A cancellation may mark the verdict it interrupts.
Settle(o) ==
    /\ phase \in {"open", "asking"}
    /\ o = "completed" =>
          /\ phase = "open" /\ verdicts # <<>>
          /\ checked => Latest = "passed"
    /\ phase' = o
    /\ \/ UNCHANGED verdicts
       \/ /\ o = "cancelled" /\ verdicts # <<>>
          /\ verdicts' = [verdicts EXCEPT ![Len(verdicts)] = "cancelled"]
    /\ UNCHANGED checked

\* A task whose preparation fails gets a try that never ran.
Stillborn ==
    /\ phase = "open" /\ verdicts = <<>>
    /\ phase' = "failed"
    /\ verdicts' = <<"none">>
    /\ UNCHANGED checked

Next ==
    \/ Try \/ Ask \/ Answer \/ Interrupt \/ Continue \/ Stillborn
    \/ \E v \in Verdict : Judge(v)
    \/ \E o \in Outcome : Settle(o)

Spec == Init /\ [][Next]_vars
=============================================================================

----------------------------- MODULE WriterLock -----------------------------
(***************************************************************************)
(* What a session lease promises to the program: of all the processes that *)
(* share a persistence root, at most one at a time is the writer of the    *)
(* session, a process stays the writer until it gives the session up or    *)
(* dies, and a dead process never writes again.  Who asks, who is refused  *)
(* and what lies on the disk are not visible here.                         *)
(***************************************************************************)

CONSTANT Writers      \* the processes

VARIABLES
    writers,          \* the processes that hold the session: none or one
    dead              \* the processes that crashed

vars == <<writers, dead>>

Init == writers = {} /\ dead = {}

Grant(w) == /\ writers = {}
            /\ w \notin dead
            /\ writers' = {w}
            /\ UNCHANGED dead

Release(w) == /\ writers = {w}
              /\ writers' = {}
              /\ UNCHANGED dead

Crash(w) == /\ w \notin dead
            /\ dead' = dead \cup {w}
            /\ writers' = writers \ {w}

Next == \E w \in Writers : Grant(w) \/ Release(w) \/ Crash(w)

Spec == Init /\ [][Next]_vars
=============================================================================

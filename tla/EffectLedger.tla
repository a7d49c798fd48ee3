--------------------------- MODULE EffectLedger ---------------------------
(***************************************************************************)
(* What the capability ledger promises, whoever executes the calls and     *)
(* whichever of them crash: a verdict over an operation is final, "done"   *)
(* is said only of an effect that took place, "none" only of an operation  *)
(* that has no effect and will never have one, "error" only on the word of *)
(* its executor, and no effect is requested before the operation is on     *)
(* record or after it is settled.                                          *)
(* CapabilityLedger.tla implements this module.                            *)
(***************************************************************************)
CONSTANT Op

VARIABLES
    verdict,  \* [Op -> Verdict]: what the record says
    effect,   \* [Op -> Effect]: what the outside world did
    erred     \* operations whose executor reported an error

lvars == <<verdict, effect, erred>>

Verdict == {"idle", "open", "done", "none", "error", "unknown"}
Effect == {"none", "requested", "happened"}

LedgerInit ==
    /\ verdict = [o \in Op |-> "idle"]
    /\ effect = [o \in Op |-> "none"]
    /\ erred = {}

Unsettled(o) == verdict[o] \in {"idle", "open"}

\* A verdict is given once, and a definite one only when it is true.
Judged(o) ==
    /\ verdict'[o] \in Verdict \ {"idle"}
    /\ Unsettled(o)
    /\ verdict'[o] = "done" => effect[o] = "happened" /\ effect'[o] = "happened"
    /\ verdict'[o] = "none" => effect'[o] = "none"
    /\ verdict'[o] = "error" => o \in erred'

\* A request is made while the record is open; its effect may come at any
\* later time; a refusal reaches only an executor that still waits for it.
Moved(o) ==
    \/ effect[o] = "none" /\ effect'[o] = "requested" /\ verdict'[o] = "open"
    \/ effect[o] = "requested" /\ effect'[o] = "happened" /\ verdict'[o] = verdict[o]
    \/ effect[o] = "requested" /\ effect'[o] = "none" /\ verdict[o] = "open"

\* An executor is heard while the record is open, and what it said stands.
Heard ==
    /\ erred \subseteq erred' /\ erred' \subseteq Op
    /\ \A o \in erred' \ erred : verdict[o] = "open"

LedgerNext ==
    /\ Heard
    /\ verdict' \in [Op -> Verdict]
    /\ effect' \in [Op -> Effect]
    /\ \A o \in Op :
         /\ verdict'[o] = verdict[o] \/ Judged(o)
         /\ effect'[o] = effect[o] \/ Moved(o)

LedgerSpec == LedgerInit /\ [][LedgerNext]_lvars
=============================================================================

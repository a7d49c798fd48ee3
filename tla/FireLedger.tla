---------------------------- MODULE FireLedger ----------------------------
(***************************************************************************)
(* What automation promises about fires, whoever executes them: a fire is  *)
(* attempted any number of times but submitted as a run at most once, the  *)
(* fires of one automation are attempted one at a time and only while its  *)
(* success budget lasts, and a settled fire never moves again.             *)
(* Automation.tla implements this module; it knows nothing of polls,       *)
(* queues, sessions or crashes.                                            *)
(***************************************************************************)
EXTENDS Integers, FiniteSets

CONSTANTS Automation, NoAutomation, Fire, MaxFires, Unlimited

VARIABLES
  phase,   \* [Fire -> Phase]
  owner,   \* [Fire -> Automation, or NoAutomation while absent]
  starts   \* [Fire -> runs submitted for the fire]

lvars == <<phase, owner, starts>>

Phase == {"absent", "waiting", "claimed", "submitted", "succeeded", "failed",
          "unknown", "deleted"}

LedgerInit ==
  /\ phase = [f \in Fire |-> "absent"]
  /\ owner = [f \in Fire |-> NoAutomation]
  /\ starts = [f \in Fire |-> 0]

InFlight(a) == {f \in Fire : owner[f] = a /\ phase[f] \in {"claimed", "submitted"}}
Succeeded(a) == {f \in Fire : owner[f] = a /\ phase[f] = "succeeded"}
Open(a) ==
  /\ InFlight(a) = {}
  /\ MaxFires[a] = Unlimited \/ Cardinality(Succeeded(a)) < MaxFires[a]

Keep(f) == phase'[f] = phase[f] /\ starts'[f] = starts[f] /\ owner'[f] = owner[f]
Move(f, from, to) ==
  /\ phase[f] \in from /\ phase'[f] = to
  /\ owner'[f] = owner[f] /\ starts'[f] = starts[f]

Admit(f) ==
  /\ phase[f] = "absent" /\ phase'[f] = "waiting"
  /\ owner'[f] \in Automation /\ starts'[f] = starts[f]
Claim(f) == Move(f, {"waiting"}, "claimed") /\ Open(owner[f])
Submit(f) ==
  /\ phase[f] = "claimed" /\ phase'[f] = "submitted"
  /\ starts'[f] = starts[f] + 1 /\ owner'[f] = owner[f]
Settle(f) ==
  \/ Move(f, {"claimed"}, "waiting")
  \/ Move(f, {"submitted"}, "succeeded")
  \/ Move(f, {"claimed", "submitted"}, "failed")
  \/ Move(f, {"claimed", "submitted"}, "unknown")

\* One fire moves, or an automation is deleted with all its fires.
LedgerNext ==
  \/ \E f \in Fire :
       /\ Admit(f) \/ Claim(f) \/ Submit(f) \/ Settle(f)
       /\ \A g \in Fire \ {f} : Keep(g)
  \/ \E a \in Automation :
       \A f \in Fire : IF owner[f] = a THEN Move(f, Phase \ {"absent"}, "deleted") ELSE Keep(f)

LedgerSpec == LedgerInit /\ [][LedgerNext]_lvars
============================================================================

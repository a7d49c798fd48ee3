--------------------------- MODULE MCAutomation ---------------------------
(* Instances of Automation for TLC. *)
EXTENDS Automation

CONSTANTS a1, a2, s1

\* An interval in fresh sessions with a budget of one success, and a once
\* automation bound to a session, which users share.
MixedKind == (a1 :> "interval") @@ (a2 :> "once")
MixedTarget == (a1 :> NoSession) @@ (a2 :> s1)
MixedMaxFires == (a1 :> 1) @@ (a2 :> Unlimited)
MixedExpiry == (a1 :> NoTime) @@ (a2 :> 2)

NoCron == [a \in Automation |-> [t \in Time |-> NoTime]]
EveryTick == [a \in Automation |-> 1]
EveryOther == [a \in Automation |-> 2]
AtOne == [a \in Automation |-> 1]

\* A heartbeat of the session a user works in, and a finite cron bound to the
\* same session.
SharedKind == (a1 :> "heartbeat") @@ (a2 :> "cron")
SharedTarget == (a1 :> NoSession) @@ (a2 :> s1)
SharedMaxFires == (a1 :> Unlimited) @@ (a2 :> 1)
NeverExpires == [a \in Automation |-> NoTime]
CronAtOne == [a \in Automation |-> [t \in Time |-> IF t < 1 THEN 1 ELSE NoTime]]
============================================================================

----------------------------- MODULE EventFeed -----------------------------
(***************************************************************************)
(* What the Runtime Host promises a client about its events.  Each Host    *)
(* process (an epoch) numbers its events 1, 2, ...; it starts from what    *)
(* its predecessor kept and never gives a number twice.  A client sees the *)
(* events of an epoch in order, each once and none left out, unless it is  *)
(* told of a gap.  Two cases are excused, in which the code lets an event  *)
(* overtake others without a word, the gap after a change of Host          *)
(* included: a Host that is closing, and a client that asks a second time  *)
(* for everything.  HostEvents.tla implements this module.                 *)
(***************************************************************************)
EXTENDS Naturals, Sequences

VARIABLES
    logs,    \* the numbered events of each epoch
    excused, \* epochs in which an event may overtake others
    at,      \* what the client has taken: nothing yet, or a position, or a lost one
    heard    \* the last thing it was told: an event, a gap, or nothing

fvars == <<logs, excused, at, heard>>

Nothing == [kind |-> "nothing", event |-> 0]
Gap == [kind |-> "gap", event |-> 0]
Event(e) == [kind |-> "event", event |-> e]

New == [mode |-> "new", epoch |-> 0, position |-> 0]
Lost == [mode |-> "lost", epoch |-> 0, position |-> 0]
On(e, p) == [mode |-> "on", epoch |-> e, position |-> p]

Last == Len(logs)
Known == UNION {{logs[e][i] : i \in DOMAIN logs[e]} : e \in DOMAIN logs}

FeedInit == logs = <<>> /\ excused = {} /\ at = New /\ heard = Nothing

\* A new event gets the next number.
Publish ==
    /\ Last > 0 /\ Len(logs') = Last
    /\ \A e \in 1 .. Last - 1 : logs'[e] = logs[e]
    /\ \E x \in {logs'[Last][i] : i \in DOMAIN logs'[Last]} \ Known : logs'[Last] = Append(logs[Last], x)
    /\ UNCHANGED <<excused, at, heard>>

Excuse == Last > 0 /\ excused' = excused \cup {Last} /\ UNCHANGED <<logs, at, heard>>

\* A new Host keeps a beginning of what its predecessor numbered, and has new events of its own.
Restart ==
    /\ Len(logs') = Last + 1
    /\ \A e \in 1 .. Last : logs'[e] = logs[e]
    /\ LET old == IF Last = 0 THEN <<>> ELSE logs[Last]
           new == logs'[Last + 1]
       IN  \E k \in 0 .. Len(old) :
             /\ k <= Len(new)
             /\ \A i \in 1 .. k : new[i] = old[i]
             /\ \A i \in k + 1 .. Len(new) : new[i] \notin Known /\ \A j \in 1 .. i - 1 : new[i] # new[j]
    /\ UNCHANGED <<excused, at, heard>>

\* A client that has seen nothing may begin anywhere.
Join ==
    /\ at = New
    /\ \E e \in DOMAIN logs : \E p \in 0 .. Len(logs[e]) :
         /\ at' = On(e, p)
         /\ heard' = heard \/ (p > 0 /\ heard' = Event(logs[e][p]))
    /\ UNCHANGED <<logs, excused>>

\* The next event, and no other.
Deliver ==
    /\ at.mode = "on" /\ at.position < Len(logs[at.epoch])
    /\ at' = On(at.epoch, at.position + 1)
    /\ heard' = Event(logs[at.epoch][at.position + 1])
    /\ UNCHANGED <<logs, excused>>

\* The client meets another Host; but for an excuse only a gap leads back to events.
Lose == at.mode = "on" /\ at' = Lost /\ UNCHANGED <<logs, excused, heard>>

\* A gap leads forward, or to another epoch.
Resync ==
    /\ \E e \in DOMAIN logs : \E p \in 0 .. Len(logs[e]) :
         /\ at.mode = "on" => e = at.epoch /\ p >= at.position
         /\ at' = On(e, p)
    /\ heard' = Gap
    /\ UNCHANGED <<logs, excused>>

\* An event overtakes others, or the gap that a lost client waits for.
Overtake ==
    /\ \E e \in excused \cap DOMAIN logs : \E p \in 1 .. Len(logs[e]) :
         /\ at = Lost \/ (at.mode = "on" /\ at.epoch = e /\ at.position < p)
         /\ at' = On(e, p) /\ heard' = Event(logs[e][p])
    /\ UNCHANGED <<logs, excused>>

FeedNext ==
    Publish \/ Excuse \/ Restart \/ Join \/ Deliver \/ Lose \/ Resync \/ Overtake
FeedSpec == FeedInit /\ [][FeedNext]_fvars
=============================================================================

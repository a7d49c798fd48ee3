---------------------------- MODULE HostEvents ----------------------------
(***************************************************************************)
(* The events of a Runtime Host on their way to a client: numbering and    *)
(* bounded history (src/src/runtime/host/server.ts), the journal that      *)
(* survives the process (journal.ts), replay and live delivery over a      *)
(* socket that pushes back (socket-writer.ts), and the client's cursor     *)
(* across time-outs, listeners that throw, reconnections and new Hosts     *)
(* (client.ts).                                                            *)
(*                                                                         *)
(* One client; Hosts follow each other, each with an epoch of its own.  A  *)
(* Host is "loading" its journal, "ready", "closing" (its runtimes drain   *)
(* and still publish), "flushing" (sockets cut, the journal's tail is      *)
(* awaited) or "down".                                                     *)
(***************************************************************************)
EXTENDS Naturals, Sequences, FiniteSetsExt

CONSTANTS
    HistoryLimit, \* runtimeHostEventHistoryLimit
    Capacity,     \* frames that a socket which pushes back may hold
    MaxEvents,    \* bound: events published over all epochs
    MaxEpoch,     \* bound: Hosts started
    MaxAsks,      \* bound: subscriptions asked for on one connection
    MaxFaults     \* bound: failed writes, throwing listeners and time-outs

ASSUME SizeAssumption == HistoryLimit \in Nat \ {0} /\ Capacity \in Nat
ASSUME BoundAssumption ==
    MaxEvents \in Nat /\ MaxEpoch \in Nat /\ MaxAsks \in Nat /\ MaxFaults \in Nat

VARIABLES
    epoch, stage, \* the Host: its number and its life
    sequence,     \* number of the last event; until the journal is read, a provisional one
    history,      \* the newest events, at most HistoryLimit
    journal,      \* [persisted, degraded, rewrite]: the journal's memory
    tail,         \* persists that wait for their turn
    writing,      \* the write in progress
    disk,         \* the journal file: its complete records and how it ends
    link,         \* the socket: "none", "open", or "cut" by the Host's side
    choked,       \* the Host's writer waits for a drain
    wire,         \* frames that the client has not read
    subscribed, replay, requests, \* the Host's view of the connection
    client,       \* the client's epoch, cursor and pending subscription
    published,    \* events published so far; an event is known by its rank
    logs, excused, heard, \* history: the numbered events of each epoch, the epochs in which
                  \* EventFeed excuses a skip, what the client's listeners heard last
    faults

store == <<journal, tail, writing, disk>>
server == <<epoch, stage, sequence, history>>
socket == <<link, choked, wire, subscribed, replay, requests>>
ghosts == <<published, logs, excused>>
vars == <<server, store, socket, client, ghosts, heard, faults>>

Feed == INSTANCE EventFeed WITH
    at <- IF client.consumedEpoch = 0 THEN [mode |-> "new", epoch |-> 0, position |-> 0]
          ELSE IF client.consumedEpoch # client.epoch
               THEN [mode |-> "lost", epoch |-> 0, position |-> 0]
          ELSE [mode |-> "on", epoch |-> client.epoch, position |-> client.consumed]

-----------------------------------------------------------------------------
NoReplay == [on |-> FALSE, id |-> 0, cursor |-> 0, gap |-> FALSE]
NoMemory == [persisted |-> 0, degraded |-> FALSE, rewrite |-> FALSE]
NoWrite == [kind |-> "none", records |-> <<>>]
NoAnswer == [given |-> FALSE, sequence |-> 0]

\* Mutant: the window is one too long.
Newest_OffByOne(s) == IF Len(s) > HistoryLimit + 1 THEN SubSeq(s, Len(s) - HistoryLimit, Len(s)) ELSE s

\* The last records of a sequence, as many as the window holds.
Newest(s) == IF Len(s) > HistoryLimit THEN SubSeq(s, Len(s) - HistoryLimit + 1, Len(s)) ELSE s
FirstOf(h) == h[1].sequence
LastOf(h) == h[Len(h)].sequence
Record(n, e) == [sequence |-> n, event |-> e]

Init ==
    /\ epoch = 0 /\ stage = "down" /\ sequence = 0 /\ history = <<>>
    /\ journal = NoMemory
    /\ tail = <<>> /\ writing = NoWrite
    /\ disk = [lines |-> <<>>, end |-> "clean"]
    /\ link = "none" /\ choked = FALSE /\ wire = <<>>
    /\ subscribed = FALSE /\ replay = NoReplay /\ requests = <<>>
    /\ client = [epoch |-> 0, consumedEpoch |-> 0, consumed |-> 0, asks |-> 0, pending |-> 0,
                 answer |-> NoAnswer, synced |-> FALSE]
    /\ published = 0 /\ logs = <<>> /\ excused = {} /\ heard = Feed!Nothing
    /\ faults = 0

Fault == faults < MaxFaults /\ faults' = faults + 1

-----------------------------------------------------------------------------
(* The journal. *)

\* initialize: complete records up to the end of the file; one bad line and none is trusted.
ReadJournal ==
    LET lines == disk.lines
        malformed == \/ disk.end = "torn"
                     \/ \E i \in 2 .. Len(lines) : lines[i].sequence # lines[i - 1].sequence + 1
    IN  [sequence |-> Max({0} \cup {lines[i].sequence : i \in DOMAIN lines}),
         records |-> IF malformed THEN <<>> ELSE Newest(lines),
         degraded |-> malformed,
         rewrite |-> disk.end # "clean"]

\* A line appended to one that has no end spoils both.
Written(w) ==
    IF w.kind = "replace" THEN [lines |-> w.records, end |-> "clean"]
    ELSE IF disk.end = "clean" THEN [lines |-> disk.lines \o w.records, end |-> "clean"]
    ELSE [lines |-> IF disk.end = "bare" THEN SubSeq(disk.lines, 1, Len(disk.lines) - 1) ELSE disk.lines,
          end |-> "torn"]

\* What an interrupted write leaves: a line half written, or without its end, or
\* all of it; a replacement is renamed into place or it is not.
Interrupted(w) ==
    CASE w.kind = "append" ->
           {disk, Written(w), [disk EXCEPT !.end = "torn"],
            [lines |-> disk.lines \o w.records, end |-> "bare"]}
      [] w.kind = "replace" -> {disk, Written(w)}
      [] OTHER -> {disk}

\* A file that cannot be trusted, or that has grown, or an event that does not
\* follow the last line, calls for the whole window.
Replaces(p, j) ==
    p.rewrite \/ j.rewrite \/ j.degraded \/ p.sequence % HistoryLimit = 0
    \/ p.sequence # j.persisted + 1

\* persist, up to the file system: the event is looked up in the history as it is now.
Persist ==
    /\ writing = NoWrite /\ tail # <<>>
    /\ LET p == Head(tail)
           found == {i \in DOMAIN history : history[i].sequence = p.sequence}
       IN  \/ /\ p.sequence <= journal.persisted
              /\ tail' = Tail(tail) /\ UNCHANGED <<journal, writing>>
           \/ /\ p.sequence > journal.persisted /\ found = {}
              /\ journal' = [journal EXCEPT !.degraded = TRUE]
              /\ tail' = Tail(tail) /\ UNCHANGED writing
           \/ /\ p.sequence > journal.persisted
              /\ \E i \in found :
                   writing' = IF Replaces(p, journal)
                              THEN [kind |-> "replace", records |-> history]
                              ELSE [kind |-> "append", records |-> <<history[i]>>]
              /\ UNCHANGED <<journal, tail>>
    /\ UNCHANGED <<server, disk, socket, client, ghosts, heard, faults>>

WriteDone ==
    /\ writing # NoWrite
    /\ disk' = Written(writing)
    /\ journal' = [persisted |-> LastOf(writing.records), degraded |-> FALSE, rewrite |-> FALSE]
    /\ writing' = NoWrite /\ tail' = Tail(tail)
    /\ UNCHANGED <<server, socket, client, ghosts, heard, faults>>

\* Mutant: the journal does not call itself degraded.
WriteFails_Unnoticed ==
    /\ writing # NoWrite /\ Fault
    /\ disk' \in Interrupted(writing)
    /\ writing' = NoWrite /\ tail' = Tail(tail)
    /\ UNCHANGED <<journal, server, socket, client, ghosts, heard>>

WriteFails ==
    /\ writing # NoWrite /\ Fault
    /\ disk' \in Interrupted(writing)
    /\ journal' = [journal EXCEPT !.degraded = TRUE]
    /\ writing' = NoWrite /\ tail' = Tail(tail)
    /\ UNCHANGED <<server, socket, client, ghosts, heard>>

-----------------------------------------------------------------------------
(* The Host. *)

Frame(kind, n, e, id) == [kind |-> kind, epoch |-> epoch, sequence |-> n, event |-> e, id |-> id]

CutConnection ==
    /\ link' = IF link = "open" THEN "cut" ELSE link
    /\ choked' = FALSE /\ subscribed' = FALSE /\ replay' = NoReplay /\ requests' = <<>>
    /\ UNCHANGED wire

\* Mutant: live events do not wait for the replay.
TakesLive_DuringReplay == link = "open" /\ subscribed

\* Live events go to a subscriber whose replay is over.
TakesLive == link = "open" /\ subscribed /\ ~ replay.on

\* A writer that has to queue more than it may hold destroys the socket.
SendLive(r) ==
    IF ~ TakesLive THEN UNCHANGED socket
    ELSE IF choked /\ Len(wire) >= Capacity THEN CutConnection
    ELSE /\ wire' = Append(wire, Frame("event", r.sequence, r.event, 0))
         /\ choked' \in {choked, TRUE}
         /\ UNCHANGED <<link, subscribed, replay, requests>>

\* publish
PublishEvent ==
    /\ stage \in {"loading", "ready", "closing"} /\ published < MaxEvents
    /\ LET r == Record(sequence + 1, published + 1)
       IN  /\ history' = Newest(Append(history, r))
           /\ sequence' = r.sequence /\ published' = r.event
           /\ SendLive(r)
           /\ IF stage = "loading" THEN UNCHANGED <<tail, logs>>
              ELSE /\ tail' = Append(tail, [sequence |-> r.sequence, rewrite |-> FALSE])
                   /\ logs' = [logs EXCEPT ![epoch] = Append(@, r.event)]
    /\ UNCHANGED <<epoch, stage, journal, writing, disk, client, excused, heard, faults>>

Start ==
    /\ stage = "down" /\ epoch < MaxEpoch
    /\ epoch' = epoch + 1 /\ stage' = "loading"
    /\ UNCHANGED <<sequence, history, store, socket, client, ghosts, heard, faults>>

\* initializeOnce: events published while the journal was read follow its records;
\* if some of them have left the window already, the records before them go too.
Load ==
    /\ stage = "loading" /\ stage' = "ready"
    /\ LET read == ReadJournal
           moved == [i \in DOMAIN history |->
                       Record(history[i].sequence + read.sequence, history[i].event)]
           kept == IF sequence = Len(history) THEN read.records ELSE <<>>
           before == IF epoch = 1 THEN <<>> ELSE SubSeq(logs[epoch - 1], 1, read.sequence)
       IN  /\ history' = Newest(kept \o moved)
           /\ sequence' = read.sequence + sequence
           /\ tail' = IF moved = <<>> THEN <<>>
                      ELSE <<[sequence |-> sequence', rewrite |-> TRUE]>>
           /\ journal' = [persisted |-> read.sequence, degraded |-> read.degraded,
                          rewrite |-> read.rewrite]
           /\ logs' = Append(logs, before \o [i \in 1 .. sequence |-> published - sequence + i])
    /\ UNCHANGED <<epoch, writing, disk, socket, client, published, excused, heard, faults>>

\* close: replays are aborted, the runtimes drain, sockets are destroyed, the tail is awaited.
CloseHost ==
    /\ stage = "ready" /\ epoch < MaxEpoch
    /\ stage' = "closing" /\ excused' = excused \cup {epoch}
    /\ replay' = NoReplay /\ requests' = <<>>
    /\ UNCHANGED <<epoch, sequence, history, store, link, choked, wire, subscribed, client,
                   published, logs, heard, faults>>

CutSockets ==
    /\ stage = "closing" /\ stage' = "flushing"
    /\ CutConnection
    /\ UNCHANGED <<epoch, sequence, history, store, client, ghosts, heard, faults>>

Exit ==
    /\ stage = "flushing" /\ tail = <<>>
    /\ stage' = "down" /\ sequence' = 0 /\ history' = <<>> /\ journal' = NoMemory
    /\ UNCHANGED <<epoch, tail, writing, disk, socket, client, ghosts, heard, faults>>

\* A Host that dies while it loads has numbered nothing.
Crash ==
    /\ stage # "down" /\ epoch < MaxEpoch
    /\ stage' = "down" /\ sequence' = 0 /\ history' = <<>>
    /\ tail' = <<>> /\ writing' = NoWrite /\ disk' \in Interrupted(writing)
    /\ journal' = NoMemory
    /\ logs' = IF stage # "loading" THEN logs
               ELSE Append(logs, IF epoch = 1 THEN <<>> ELSE logs[epoch - 1])
    /\ CutConnection
    /\ UNCHANGED <<epoch, client, published, excused, heard, faults>>

\* canReplay
CanReplay(n) == n >= sequence \/ (history # <<>> /\ n >= FirstOf(history) - 1)

\* subscribeConnection, up to its loop: a newer request supersedes a replay.
Subscribe ==
    /\ stage = "ready" /\ link = "open" /\ requests # <<>>
    /\ LET r == Head(requests)
           sameEpoch == r.epoch \in {0, epoch}
       IN  replay' = [on |-> TRUE, id |-> r.id,
                      cursor |-> IF ~ r.fromStart THEN r.after
                                 ELSE IF history = <<>> THEN sequence ELSE FirstOf(history) - 1,
                      gap |-> ~(sameEpoch /\ (r.fromStart \/ CanReplay(r.after)))]
    /\ requests' = Tail(requests) /\ subscribed' = TRUE
    /\ UNCHANGED <<server, store, link, choked, wire, client, ghosts, heard, faults>>

\* The loop of subscribeConnection until the socket pushes back or the history is
\* exhausted; the answer and the change to live events are one step with it.
Replay ==
    /\ link = "open" /\ replay.on /\ ~ choked
    /\ LET jump == replay.gap \/ ~ CanReplay(replay.cursor)
           rest == IF history = <<>> THEN <<>>
                   ELSE SubSeq(history, replay.cursor + 2 - FirstOf(history), Len(history))
           frames == IF jump THEN <<Frame("gap", sequence, 0, 0)>>
                     ELSE [i \in DOMAIN rest |-> Frame("event", rest[i].sequence, rest[i].event, 0)]
       IN  \/ /\ wire' = wire \o frames \o <<Frame("response", sequence, 0, replay.id)>>
              /\ replay' = NoReplay /\ choked' \in BOOLEAN
           \/ \E n \in DOMAIN frames :
                /\ wire' = wire \o SubSeq(frames, 1, n) /\ choked' = TRUE
                /\ replay' = [replay EXCEPT !.cursor = frames[n].sequence, !.gap = FALSE]
    /\ UNCHANGED <<server, store, link, subscribed, requests, client, ghosts, heard, faults>>

Drain ==
    /\ link = "open" /\ choked /\ choked' = FALSE
    /\ UNCHANGED <<server, store, link, wire, subscribed, replay, requests, client, ghosts, heard,
                   faults>>

-----------------------------------------------------------------------------
(* The client. *)

\* Mutant: a lost connection leaves its subscription pending.
Rejected_NotPending(c) == [c EXCEPT !.asks = 0, !.answer = NoAnswer, !.synced = FALSE]

\* rejectPendingRequests: what was asked on a socket dies with it.
Rejected(c) == [c EXCEPT !.asks = 0, !.pending = 0, !.answer = NoAnswer, !.synced = FALSE]

\* The client's end of the socket is gone, and what it has not read with it.
Disconnected ==
    /\ link' = "none" /\ wire' = <<>> /\ choked' = FALSE
    /\ subscribed' = FALSE /\ replay' = NoReplay /\ requests' = <<>>
    /\ client' = Rejected(client)

\* applyHostEpoch: another Host's numbers start anew; which epoch was consumed is kept.
ApplyEpoch(c) ==
    IF c.epoch = epoch THEN c ELSE [c EXCEPT !.epoch = epoch, !.consumed = 0]

\* acknowledgeEvents
Acknowledge(c, n, e) ==
    [c EXCEPT !.consumedEpoch = e,
              !.consumed = IF c.consumedEpoch # e THEN n ELSE Max({@, n})]

\* openSocket and hello
Connect ==
    /\ link = "none" /\ stage \in {"loading", "ready", "closing"}
    /\ link' = "open" /\ client' = ApplyEpoch(client)
    /\ UNCHANGED <<server, store, choked, wire, subscribed, replay, requests, ghosts, heard, faults>>

\* synchronizeExecution asks a first time without a cursor, performReconnect never does.
Ask ==
    /\ link = "open" /\ stage = "ready" /\ client.asks < MaxAsks
    /\ ~ client.synced /\ client.pending = 0 /\ ~ client.answer.given
    /\ \E fromStart \in BOOLEAN :
         /\ fromStart => client.consumedEpoch = 0
         /\ excused' = IF fromStart /\ client.asks > 0 THEN excused \cup {epoch} ELSE excused
         /\ requests' = Append(requests, [id |-> client.asks + 1, fromStart |-> fromStart,
                                          after |-> client.consumed, epoch |-> client.consumedEpoch])
    /\ client' = [client EXCEPT !.asks = @ + 1, !.pending = client.asks + 1]
    /\ UNCHANGED <<server, store, link, choked, wire, subscribed, replay, published, logs, heard,
                   faults>>

\* The request timer: a reconnection destroys its socket, a synchronisation keeps it.
TimeOut ==
    /\ link # "none" /\ client.pending # 0 /\ Fault
    /\ \/ Disconnected
       \/ client.asks < MaxAsks /\ client' = [client EXCEPT !.pending = 0] /\ UNCHANGED socket
    /\ UNCHANGED <<server, store, ghosts, heard>>

Duplicate(f) == f.epoch = client.consumedEpoch /\ f.sequence <= client.consumed

\* handleClientFrame
Receive ==
    /\ link # "none" /\ wire # <<>> /\ wire' = Tail(wire)
    /\ LET f == Head(wire)
       IN  \/ /\ f.kind = "event" /\ Duplicate(f) /\ UNCHANGED <<client, heard>>
           \/ /\ f.kind = "event" /\ ~ Duplicate(f)
              /\ client' = Acknowledge(client, f.sequence, f.epoch)
              /\ heard' = Feed!Event(f.event)
           \/ /\ f.kind = "gap"
              /\ client' = Acknowledge(client, f.sequence, f.epoch)
              /\ heard' = Feed!Gap
           \/ /\ f.kind = "response" /\ f.id # client.pending /\ UNCHANGED <<client, heard>>
           \/ /\ f.kind = "response" /\ f.id = client.pending
              /\ client' = [client EXCEPT !.pending = 0,
                                          !.answer = [given |-> TRUE, sequence |-> f.sequence]]
              /\ UNCHANGED heard
    /\ UNCHANGED <<server, store, link, choked, subscribed, replay, requests, ghosts, faults>>

\* A listener throws: the event stays unacknowledged and the socket is destroyed.
ListenerThrows ==
    /\ link # "none" /\ wire # <<>> /\ Fault
    /\ Head(wire).kind = "event" /\ ~ Duplicate(Head(wire))
    /\ Disconnected
    /\ UNCHANGED <<server, store, ghosts, heard>>

\* The continuation of the subscription, on the connection that it asked on.
Continue ==
    /\ link # "none" /\ client.answer.given
    /\ client' = [Acknowledge(client, client.answer.sequence, client.epoch)
                    EXCEPT !.answer = NoAnswer, !.synced = TRUE]
    /\ UNCHANGED <<server, store, socket, ghosts, heard, faults>>

\* The client notices that the Host's side is gone.
Drop ==
    /\ link = "cut" /\ Disconnected
    /\ UNCHANGED <<server, store, ghosts, heard, faults>>

-----------------------------------------------------------------------------
Next ==
    \/ Start \/ Load \/ PublishEvent \/ CloseHost \/ CutSockets \/ Exit \/ Crash
    \/ Persist \/ WriteDone \/ WriteFails
    \/ Subscribe \/ Replay \/ Drain
    \/ Connect \/ Ask \/ TimeOut \/ Receive \/ ListenerThrows \/ Continue \/ Drop

Spec == Init /\ [][Next]_vars

\* The Host is started again and reads its journal, its writes and its shutdown
\* end, its event loop runs what is due; a socket that pushes back drains while
\* its reader lives; the client reads, reconnects and subscribes.
Fairness ==
    /\ WF_vars(Start) /\ WF_vars(Load) /\ WF_vars(CutSockets) /\ WF_vars(Exit)
    /\ WF_vars(Persist) /\ WF_vars(WriteDone \/ WriteFails)
    /\ WF_vars(Subscribe) /\ WF_vars(Replay) /\ WF_vars(Drain)
    /\ WF_vars(Connect) /\ WF_vars(Ask) /\ WF_vars(Receive) /\ WF_vars(Continue) /\ WF_vars(Drop)

FairSpec == Spec /\ Fairness

-----------------------------------------------------------------------------
Numbered == [sequence : Nat \ {0}, event : 1 .. MaxEvents]
Frames == [kind : {"event", "gap", "response"}, epoch : 1 .. MaxEpoch, sequence : Nat,
           event : 0 .. MaxEvents, id : 0 .. MaxAsks]
Requests == [id : 1 .. MaxAsks, fromStart : BOOLEAN, after : Nat, epoch : 0 .. MaxEpoch]
Clients == [epoch : 0 .. MaxEpoch, consumedEpoch : 0 .. MaxEpoch, consumed : Nat,
            asks : 0 .. MaxAsks, pending : 0 .. MaxAsks,
            answer : [given : BOOLEAN, sequence : Nat], synced : BOOLEAN]

\* Types of the state; the history is an unbroken run of at most HistoryLimit
\* numbers that ends with the last one, a write has something to write and
\* somebody who waits for it, and the client knows no Host of the future.
TypeOK ==
    /\ epoch \in 0 .. MaxEpoch /\ stage \in {"down", "loading", "ready", "closing", "flushing"}
    /\ sequence \in Nat /\ history \in Seq(Numbered) /\ Len(history) <= HistoryLimit
    /\ \A i \in DOMAIN history : history[i].sequence = sequence - Len(history) + i
    /\ journal \in [persisted : Nat, degraded : BOOLEAN, rewrite : BOOLEAN]
    /\ tail \in Seq([sequence : Nat \ {0}, rewrite : BOOLEAN])
    /\ writing \in [kind : {"none", "append", "replace"}, records : Seq(Numbered)]
    /\ writing # NoWrite => tail # <<>> /\ writing.records # <<>>
    /\ disk \in [lines : Seq(Numbered), end : {"clean", "bare", "torn"}]
    /\ link \in {"none", "open", "cut"} /\ choked \in BOOLEAN /\ wire \in Seq(Frames)
    /\ subscribed \in BOOLEAN /\ requests \in Seq(Requests)
    /\ replay \in [on : BOOLEAN, id : 0 .. MaxAsks, cursor : Nat, gap : BOOLEAN]
    /\ client \in Clients /\ client.epoch <= epoch /\ client.consumedEpoch <= client.epoch
    /\ published \in 0 .. MaxEvents /\ faults \in 0 .. MaxFaults
    /\ logs \in Seq(Seq(1 .. MaxEvents)) /\ excused \subseteq 1 .. MaxEpoch
    /\ heard \in [kind : {"nothing", "gap", "event"}, event : 0 .. MaxEvents]

\* While the journal calls itself healthy (status) and no write is under way, a
\* Host that started now would recover all numbers up to persistedSequence, every
\* event of the window up to there, each under its own number; and what is not
\* persisted is still waiting to be.
JournalRecoverable ==
    stage \in {"ready", "closing", "flushing"} /\ writing = NoWrite /\ ~ journal.degraded =>
        LET read == ReadJournal
        IN  /\ read.sequence = journal.persisted
            /\ \A i \in DOMAIN history :
                 history[i].sequence <= read.sequence =>
                     \E j \in DOMAIN read.records : read.records[j] = history[i]
            /\ \A j \in DOMAIN read.records :
                 logs[epoch][read.records[j].sequence] = read.records[j].event
            /\ tail = <<>> => journal.persisted = sequence

\* The journey of an event from runtime to listener keeps what EventFeed
\* promises: once, in order, none left out without a gap, over replays that are
\* superseded, sockets that overflow, listeners that throw, crashes and restarts.
ImplementsFeed == Feed!FeedSpec

\* When publishing ends, the client ends with everything that the last Host
\* published, whatever was cut, timed out or crashed before.
CatchesUp ==
    <>[](stage = "ready" /\ client.consumedEpoch = epoch /\ client.epoch = epoch
         /\ client.consumed = sequence)
=============================================================================

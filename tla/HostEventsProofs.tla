------------------------- MODULE HostEventsProofs -------------------------
(***************************************************************************)
(* Proofs about HostEvents: its types, the journal that a next Host could  *)
(* read back, and the refinement of EventFeed, for every size of the       *)
(* window and of the socket's buffer and for every value of the bounds.    *)
(***************************************************************************)
EXTENDS HostEvents, SequenceTheorems, TLAPS

-----------------------------------------------------------------------------
(* The inductive invariant: the Host and its journal. *)

Live == stage \in {"ready", "closing", "flushing"}

\* A run of records without a hole.
Unbroken(s) == \A i \in DOMAIN s : s[i].sequence = s[1].sequence + i - 1

\* Every record of s carries the event that the log has under its number.
Agrees(s, log) ==
    \A i \in DOMAIN s : s[i].sequence <= Len(log) /\ log[s[i].sequence] = s[i].event

\* There is a log for every epoch that has numbered something, and no log holds
\* an event that is yet to come.
LogsInv ==
    /\ Len(logs) = IF stage = "loading" THEN epoch - 1 ELSE epoch
    /\ stage # "down" => epoch > 0
    /\ \A e \in DOMAIN logs : \A i \in DOMAIN logs[e] : logs[e][i] <= published

\* What is numbered is what is logged; the tail asks for consecutive numbers up to the last.
NumberInv ==
    Live =>
        /\ Len(logs[epoch]) = sequence /\ Agrees(history, logs[epoch])
        /\ \A i \in DOMAIN tail : tail[i].sequence = sequence - Len(tail) + i
        /\ journal.persisted <= sequence

\* Before the journal is read, numbers are provisional and in no log.
LoadingInv ==
    /\ stage \in {"loading", "down"} => tail = <<>> /\ writing = NoWrite
    /\ stage = "down" => history = <<>> /\ sequence = 0
    /\ stage = "loading" =>
        /\ history = <<>> => sequence = 0
        /\ sequence <= published
        /\ \A i \in DOMAIN history : history[i].event = published - sequence + history[i].sequence
        /\ \A e \in DOMAIN logs : \A i \in DOMAIN logs[e] : logs[e][i] <= published - sequence

\* The file is a run of what the last log holds.
DiskInv ==
    /\ Unbroken(disk.lines)
    /\ disk.lines # <<>> => Len(logs) > 0 /\ Agrees(disk.lines, logs[Len(logs)])

\* A healthy journal ends where it says, reaches back to the window, and owes
\* nothing that is not in the tail.
HealthInv ==
    Live /\ ~ journal.degraded =>
        /\ disk.end # "torn" /\ (~ journal.rewrite => disk.end = "clean")
        /\ journal.persisted = IF disk.lines = <<>> THEN 0 ELSE LastOf(disk.lines)
        /\ disk.lines # <<>> /\ history # <<>> => FirstOf(disk.lines) <= FirstOf(history)
        /\ tail = <<>> => journal.persisted = sequence

\* A write under way carries what its waiter asked for; a line is appended only
\* to a healthy file that it continues.
WritingInv ==
    writing # NoWrite =>
        /\ Live /\ writing.kind # "none"
        /\ Unbroken(writing.records) /\ Agrees(writing.records, logs[epoch])
        /\ LastOf(writing.records) >= tail[1].sequence
        /\ writing.kind = "replace" => history # <<>> /\ FirstOf(writing.records) <= FirstOf(history)
        /\ writing.kind = "append" =>
             /\ ~ journal.degraded /\ ~ journal.rewrite
             /\ Len(writing.records) = 1 /\ FirstOf(writing.records) = journal.persisted + 1

StoreInv == LogsInv /\ NumberInv /\ LoadingInv /\ DiskInv /\ HealthInv /\ WritingInv

-----------------------------------------------------------------------------
(* The inductive invariant: the connection. *)

\* Where the client stands: it has consumed nothing, events of this Host, or of another.
IsNew == client.consumedEpoch = 0
IsOn == ~ IsNew /\ client.consumedEpoch = client.epoch
IsLost == ~ IsNew /\ client.consumedEpoch # client.epoch

Moves(f) == f.kind \in {"event", "gap"}

\* Once it has read the first k frames of the wire, the client stands at n or
\* further, or may begin anywhere.
Reaches(k, n) ==
    \/ IsOn /\ client.consumed >= n
    \/ client.answer.given /\ client.answer.sequence >= n
    \/ \E j \in 1 .. k : Moves(wire[j]) /\ wire[j].sequence >= n
    \/ /\ IsNew /\ ~ client.answer.given
       /\ \A j \in 1 .. k :
            ~ Moves(wire[j]) /\ (wire[j].id = client.pending => wire[j].sequence >= n)

GapWithin(k) == \E j \in 1 .. k : wire[j].kind = "gap"

Excused == client.epoch \in excused

\* The socket's two ends, and what a client that asked for nothing cannot have.
LinkInv ==
    /\ link = "none" => wire = <<>> /\ client.asks = 0
    /\ link # "open" => ~ subscribed /\ ~ replay.on /\ requests = <<>>
    /\ link # "none" => client.epoch > 0
    /\ link = "open" => stage \in {"loading", "ready", "closing"} /\ client.epoch = epoch
    /\ link = "open" /\ stage = "loading" => client.asks = 0
    /\ stage \in {"closing", "flushing"} => epoch \in excused
    /\ client.asks = 0 =>
         wire = <<>> /\ ~ subscribed /\ ~ replay.on /\ requests = <<>> /\ ~ client.answer.given

\* The client's position and its pending subscription.
ClientInv ==
    /\ ~ IsOn => client.consumed = 0
    /\ IsOn => client.epoch \in DOMAIN logs /\ client.consumed <= Len(logs[client.epoch])
    /\ client.pending \in {0, client.asks}
    /\ client.answer.given \/ client.synced => client.pending = 0 /\ requests = <<>> /\ ~ replay.on
    /\ client.answer.given =>
         /\ client.epoch \in DOMAIN logs /\ client.answer.sequence <= Len(logs[client.epoch])
         /\ ~ IsLost /\ (IsOn => client.answer.sequence <= client.consumed)
         /\ \A i \in DOMAIN wire : Moves(wire[i]) => wire[i].sequence > client.answer.sequence

\* What each frame on the wire may be, and which answers are still to come.
WireInv ==
    \A i \in DOMAIN wire :
        /\ wire[i].epoch = client.epoch /\ client.epoch \in DOMAIN logs
        /\ wire[i].sequence <= Len(logs[client.epoch])
        /\ wire[i].kind = "event" =>
             /\ wire[i].sequence > 0
             /\ logs[client.epoch][wire[i].sequence] = wire[i].event
             /\ IsLost /\ ~ Excused => GapWithin(i - 1)
             /\ ~ Excused => Reaches(i - 1, wire[i].sequence - 1)
        /\ wire[i].kind = "response" =>
             /\ wire[i].id \in 1 .. client.asks
             /\ replay.on => wire[i].id < replay.id
             /\ \A k \in DOMAIN requests : wire[i].id < requests[k].id
             /\ Reaches(i - 1, wire[i].sequence)
             /\ wire[i].id = client.asks =>
                  \A l \in i + 1 .. Len(wire) : Moves(wire[l]) => wire[l].sequence > wire[i].sequence

\* Requests wait in the order of their numbers; what they say of the client still holds.
RequestInv ==
    \A k \in DOMAIN requests :
        /\ requests[k].id <= client.asks /\ (replay.on => replay.id < requests[k].id)
        /\ \A l \in k + 1 .. Len(requests) : requests[k].id < requests[l].id
        /\ IsLost => requests[k].epoch = client.consumedEpoch
        /\ requests[k].epoch = 0 => requests[k].after = 0
        /\ requests[k].epoch = client.epoch => IsOn /\ requests[k].after <= client.consumed
        /\ requests[k].fromStart =>
             /\ requests[k].epoch = 0
             /\ Excused \/ (requests[k].id = 1 /\ IsNew)
        /\ requests[k].id = 1 => wire = <<>> /\ ~ subscribed /\ ~ replay.on

\* A replay goes on from where the wire takes the client.
ReplayInv ==
    replay.on =>
        /\ stage = "ready" /\ subscribed /\ replay.id \in 1 .. client.asks
        /\ IsLost => replay.gap \/ GapWithin(Len(wire))
        /\ ~ replay.gap /\ (~ Excused \/ replay.cursor >= sequence) => Reaches(Len(wire), replay.cursor)

\* Live events go on from the last number.
LiveInv ==
    subscribed /\ ~ replay.on /\ ~ Excused =>
        Reaches(Len(wire), sequence) /\ (IsLost => GapWithin(Len(wire)))

\* A Host with an empty window has told nothing but its number.
EmptyInv ==
    Live /\ history = <<>> /\ client.epoch = epoch =>
        /\ \A i \in DOMAIN wire : wire[i].kind # "event" /\ wire[i].sequence = sequence
        /\ IsOn => client.consumed = sequence
        /\ client.answer.given => client.answer.sequence = sequence

ConnInv ==
    LinkInv /\ ClientInv /\ WireInv /\ RequestInv /\ ReplayInv /\ LiveInv /\ EmptyInv

Inv == TypeOK /\ StoreInv /\ ConnInv

\* The types, in the parts that the actions disturb.
TypeServer ==
    /\ epoch \in 0 .. MaxEpoch /\ stage \in {"down", "loading", "ready", "closing", "flushing"}
    /\ sequence \in Nat /\ history \in Seq(Numbered) /\ Len(history) <= HistoryLimit
    /\ \A i \in DOMAIN history : history[i].sequence = sequence - Len(history) + i
    /\ published \in 0 .. MaxEvents
    /\ logs \in Seq(Seq(1 .. MaxEvents)) /\ excused \subseteq 1 .. MaxEpoch

Files == [lines : Seq(Numbered), end : {"clean", "bare", "torn"}]

TypeStore ==
    /\ journal \in [persisted : Nat, degraded : BOOLEAN, rewrite : BOOLEAN]
    /\ tail \in Seq([sequence : Nat \ {0}, rewrite : BOOLEAN])
    /\ writing \in [kind : {"none", "append", "replace"}, records : Seq(Numbered)]
    /\ writing # NoWrite => tail # <<>> /\ writing.records # <<>>
    /\ disk \in Files

TypeSocket ==
    /\ link \in {"none", "open", "cut"} /\ choked \in BOOLEAN /\ wire \in Seq(Frames)
    /\ subscribed \in BOOLEAN /\ requests \in Seq(Requests)
    /\ replay \in [on : BOOLEAN, id : 0 .. MaxAsks, cursor : Nat, gap : BOOLEAN]

TypeClient ==
    /\ client \in Clients /\ client.epoch <= epoch /\ client.consumedEpoch <= client.epoch
    /\ faults \in 0 .. MaxFaults
    /\ heard \in [kind : {"nothing", "gap", "event"}, event : 0 .. MaxEvents]

-----------------------------------------------------------------------------
(* The operators. *)

LEMMA MaxIs ==
    ASSUME NEW S \in SUBSET Nat, NEW m \in S, \A x \in S : x <= m
    PROVE  Max(S) = m
<1>1. \A y \in S : m >= y
  BY SMT
<1>2. PICK x : x = Max(S)
  OBVIOUS
<1>3. x \in S /\ \A y \in S : x >= y
  BY <1>1, <1>2, Zenon DEF Max
<1>4. QED
  BY <1>2, <1>3, SMT

LEMMA MaxOfTwo ==
    ASSUME NEW a \in Nat, NEW b \in Nat
    PROVE  Max({a, b}) = IF a <= b THEN b ELSE a
<1>1. CASE a <= b
  <2>1. {a, b} \in SUBSET Nat /\ b \in {a, b} /\ \A x \in {a, b} : x <= b
    BY <1>1
  <2>2. QED
    BY <1>1, <2>1, MaxIs
<1>2. CASE ~(a <= b)
  <2>1. {a, b} \in SUBSET Nat /\ a \in {a, b} /\ \A x \in {a, b} : x <= a
    BY <1>2
  <2>2. QED
    BY <1>2, <2>1, MaxIs
<1>3. QED
  BY <1>1, <1>2

\* The window keeps the end of a sequence.
LEMMA NewestProps ==
    ASSUME NEW S, NEW s \in Seq(S)
    PROVE  /\ Newest(s) \in Seq(S)
           /\ Len(Newest(s)) = IF Len(s) > HistoryLimit THEN HistoryLimit ELSE Len(s)
           /\ \A i \in 1 .. Len(Newest(s)) : Newest(s)[i] = s[Len(s) - Len(Newest(s)) + i]
           /\ s # <<>> => Newest(s) # <<>>
<1>1. HistoryLimit \in Nat \ {0} /\ Len(s) \in Nat
  BY SizeAssumption
<1>2. CASE Len(s) > HistoryLimit
  <2>1. Newest(s) = SubSeq(s, Len(s) - HistoryLimit + 1, Len(s))
    BY <1>2 DEF Newest
  <2>2. \A i \in Len(s) - HistoryLimit + 1 .. Len(s) : s[i] \in S
    BY <1>1, <1>2
  <2>3. /\ SubSeq(s, Len(s) - HistoryLimit + 1, Len(s)) \in Seq(S)
        /\ Len(SubSeq(s, Len(s) - HistoryLimit + 1, Len(s))) = HistoryLimit
        /\ \A i \in 1 .. HistoryLimit :
             SubSeq(s, Len(s) - HistoryLimit + 1, Len(s))[i] = s[Len(s) - HistoryLimit + i]
    BY <1>1, <1>2, <2>2, SubSeqProperties
  <2>4. QED
    BY <1>1, <1>2, <2>1, <2>3, EmptySeq
<1>3. CASE ~(Len(s) > HistoryLimit)
  BY <1>1, <1>3 DEF Newest
<1>4. QED
  BY <1>2, <1>3

\* Of an unbroken run that is a file, the last record has the highest number,
\* and no two neighbours are apart: only a torn end spoils the reading.
LEMMA Reading ==
    ASSUME disk \in [lines : Seq(Numbered), end : {"clean", "bare", "torn"}], Unbroken(disk.lines)
    PROVE  ReadJournal =
             [sequence |-> IF disk.lines = <<>> THEN 0 ELSE LastOf(disk.lines),
              records |-> IF disk.end = "torn" THEN <<>> ELSE Newest(disk.lines),
              degraded |-> disk.end = "torn",
              rewrite |-> disk.end # "clean"]
<1> DEFINE lines == disk.lines
           seqs == {0} \cup {lines[i].sequence : i \in DOMAIN lines}
<1>1. lines \in Seq(Numbered) /\ Len(lines) \in Nat /\ DOMAIN lines = 1 .. Len(lines)
  OBVIOUS
<1>2. \A i \in DOMAIN lines : lines[i].sequence \in Nat /\ lines[i].sequence = lines[1].sequence + i - 1
  <2> TAKE i \in DOMAIN lines
  <2>1. lines[i] \in Numbered
    BY <1>1
  <2>2. lines[i].sequence \in Nat
    BY <2>1 DEF Numbered
  <2>3. QED
    BY <2>2 DEF Unbroken
<1>3. ~ \E i \in 2 .. Len(lines) : lines[i].sequence # lines[i - 1].sequence + 1
  <2> SUFFICES ASSUME NEW i \in 2 .. Len(lines)
               PROVE  lines[i].sequence = lines[i - 1].sequence + 1
    OBVIOUS
  <2>1. i \in DOMAIN lines /\ i - 1 \in DOMAIN lines /\ 1 \in DOMAIN lines
    BY <1>1
  <2>2. lines[1].sequence \in Nat
    BY <1>2, <2>1
  <2>3. lines[i].sequence = lines[1].sequence + i - 1
    BY <1>2, <2>1
  <2>4. lines[i - 1].sequence = lines[1].sequence + (i - 1) - 1
    BY <1>2, <2>1
  <2>5. QED
    BY <1>1, <2>2, <2>3, <2>4
<1>4. Max(seqs) = IF lines = <<>> THEN 0 ELSE LastOf(lines)
  <2>1. seqs \in SUBSET Nat
    BY <1>2
  <2>2. CASE lines = <<>>
    <3>1. seqs = {0}
      BY <2>2
    <3>2. QED
      BY <2>2, <3>1, MaxIs
  <2>3. CASE lines # <<>>
    <3>1. Len(lines) \in DOMAIN lines /\ 1 \in DOMAIN lines
      BY <1>1, <2>3
    <3>2. LastOf(lines) \in seqs
      BY <3>1 DEF LastOf
    <3>3. ASSUME NEW i \in DOMAIN lines PROVE lines[i].sequence <= LastOf(lines)
      <4>1. /\ lines[i].sequence = lines[1].sequence + i - 1
            /\ LastOf(lines) = lines[1].sequence + Len(lines) - 1
        BY <1>2, <3>1 DEF LastOf
      <4>2. lines[1].sequence \in Nat /\ i \in Nat /\ i <= Len(lines) /\ Len(lines) \in Nat
        BY <1>1, <1>2, <3>1
      <4>3. QED
        BY <4>1, <4>2
    <3>3a. LastOf(lines) >= 0
      BY <1>2, <3>1 DEF LastOf
    <3>3b. \A x \in seqs : x <= LastOf(lines)
      BY <3>3, <3>3a
    <3>4. QED
      BY <2>1, <2>3, <3>2, <3>3b, MaxIs
  <2>4. QED
    BY <2>2, <2>3
<1>5. QED
  BY <1>3, <1>4 DEF ReadJournal

LEMMA TypeParts == TypeOK <=> TypeServer /\ TypeStore /\ TypeSocket /\ TypeClient
BY Zenon DEF TypeOK, TypeServer, TypeStore, TypeSocket, TypeClient, Files

-----------------------------------------------------------------------------
(* The journal: the Host's numbers, its writes and the file. *)

\* A write that is carried out leaves a run of the log that ends with what was
\* written and reaches back to the window.
LEMMA FileOfWrite ==
    ASSUME TypeServer, TypeStore, StoreInv, writing # NoWrite
    PROVE  LET l == IF writing.kind = "replace" THEN writing.records
                    ELSE disk.lines \o writing.records
           IN  /\ Written(writing) = [lines |-> l, end |-> "clean"]
               /\ l \in Seq(Numbered) /\ l # <<>> /\ Unbroken(l) /\ Agrees(l, logs[epoch])
               /\ LastOf(l) = LastOf(writing.records)
               /\ history # <<>> => FirstOf(l) <= FirstOf(history)
<1> DEFINE l == IF writing.kind = "replace" THEN writing.records ELSE disk.lines \o writing.records
<1>1. /\ Live /\ writing.kind # "none" /\ Unbroken(writing.records)
      /\ Agrees(writing.records, logs[epoch])
      /\ writing.kind = "replace" => history # <<>> /\ FirstOf(writing.records) <= FirstOf(history)
  BY DEF StoreInv, WritingInv
<1>2. writing.records \in Seq(Numbered) /\ writing.records # <<>> /\ disk.lines \in Seq(Numbered)
  BY DEF TypeStore, Files
<1>3. CASE writing.kind = "replace"
  <2>1. Written(writing) = [lines |-> l, end |-> "clean"]
    BY <1>3 DEF Written
  <2>2. QED
    BY <1>1, <1>2, <1>3, <2>1
<1>4. CASE writing.kind # "replace"
  <2>0. l = disk.lines \o writing.records
    BY <1>4
  <2> HIDE DEF l
  <2>1. writing.kind = "append"
    BY <1>1, <1>4 DEF TypeStore
  <2>2. /\ ~ journal.degraded /\ ~ journal.rewrite
        /\ Len(writing.records) = 1 /\ FirstOf(writing.records) = journal.persisted + 1
    BY <2>1 DEF StoreInv, WritingInv
  <2>3. /\ disk.end = "clean"
        /\ journal.persisted = IF disk.lines = <<>> THEN 0 ELSE LastOf(disk.lines)
        /\ disk.lines # <<>> /\ history # <<>> => FirstOf(disk.lines) <= FirstOf(history)
    BY <1>1, <2>2 DEF StoreInv, HealthInv
  <2>4. Written(writing) = [lines |-> l, end |-> "clean"]
    BY <1>4, <2>0, <2>3 DEF Written
  <2>5. /\ l \in Seq(Numbered) /\ Len(l) = Len(disk.lines) + 1 /\ Len(disk.lines) \in Nat
        /\ \A i \in 1 .. Len(disk.lines) : l[i] = disk.lines[i]
        /\ l[Len(disk.lines) + 1] = writing.records[1]
    <3>1. /\ l \in Seq(Numbered) /\ Len(l) = Len(disk.lines) + Len(writing.records)
          /\ \A i \in 1 .. Len(disk.lines) + Len(writing.records) :
               l[i] = IF i <= Len(disk.lines) THEN disk.lines[i]
                      ELSE writing.records[i - Len(disk.lines)]
      BY <1>2, <2>0, ConcatProperties, Zenon
    <3>2. Len(disk.lines) \in Nat /\ Len(writing.records) = 1
      BY <1>2, <2>2
    <3>3. Len(disk.lines) + 1 - Len(disk.lines) = 1 /\ ~(Len(disk.lines) + 1 <= Len(disk.lines))
      BY <3>2
    <3>4. l[Len(disk.lines) + 1] = writing.records[1]
      BY <3>1, <3>2, <3>3
    <3>5. \A i \in 1 .. Len(disk.lines) : l[i] = disk.lines[i]
      BY <3>1, <3>2
    <3>6. QED
      BY <3>1, <3>2, <3>4, <3>5
  <2>6. /\ DOMAIN l = 1 .. Len(disk.lines) + 1 /\ DOMAIN disk.lines = 1 .. Len(disk.lines)
        /\ 1 \in DOMAIN writing.records
    BY <1>2, <2>2, <2>5
  <2>7. l # <<>>
    BY <2>5, EmptySeq
  <2>8. \A i \in DOMAIN l : l[i].sequence \in Nat \ {0}
    <3> SUFFICES ASSUME NEW i \in DOMAIN l PROVE l[i].sequence \in Nat \ {0}
      OBVIOUS
    <3>1. l[i] \in Numbered
      BY <2>5
    <3>2. QED
      BY <3>1 DEF Numbered
  <2>9. Unbroken(disk.lines) /\ Agrees(disk.lines, logs[epoch])
    <3>1. disk.lines # <<>> => Agrees(disk.lines, logs[Len(logs)])
      BY DEF StoreInv, DiskInv
    <3>2. Len(logs) = epoch
      BY <1>1 DEF StoreInv, LogsInv, Live
    <3>3. disk.lines = <<>> => Agrees(disk.lines, logs[epoch])
      BY DEF Agrees
    <3>4. QED
      BY <3>1, <3>2, <3>3 DEF StoreInv, DiskInv
  <2>10. CASE disk.lines = <<>>
    <3>1. Len(disk.lines) = 0 /\ l[1].sequence = 1
      BY <2>2, <2>3, <2>5, <2>10, EmptySeq DEF FirstOf
    <3>2. Unbroken(l)
      BY <2>6, <3>1, SMT DEF Unbroken
    <3>3. Agrees(l, logs[epoch])
      BY <1>1, <2>5, <2>6, <3>1 DEF Agrees
    <3>4. history # <<>> => FirstOf(l) <= FirstOf(history)
      <4> SUFFICES ASSUME history # <<>> PROVE FirstOf(l) <= FirstOf(history)
        OBVIOUS
      <4>1. history[1] \in Numbered
        BY EmptySeq DEF TypeServer
      <4>3. history[1].sequence \in Nat \ {0}
        BY <4>1 DEF Numbered
      <4>2. QED
        BY <3>1, <4>3 DEF FirstOf
    <3>5. LastOf(l) = LastOf(writing.records)
      BY <2>2, <2>5, <3>1 DEF LastOf
    <3>6. QED
      BY <2>4, <2>5, <2>7, <3>2, <3>3, <3>4, <3>5 DEF l
  <2>11. CASE disk.lines # <<>>
    <3>1. 1 \in DOMAIN disk.lines /\ Len(disk.lines) \in DOMAIN disk.lines /\ Len(disk.lines) > 0
      BY <1>2, <2>6, <2>11, EmptySeq
    <3>2. l[1] = disk.lines[1] /\ FirstOf(l) = FirstOf(disk.lines)
      BY <2>5, <2>6, <3>1 DEF FirstOf
    <3>3. l[Len(disk.lines) + 1].sequence = disk.lines[Len(disk.lines)].sequence + 1
      BY <2>2, <2>3, <2>5, <2>11 DEF FirstOf, LastOf
    <3>4. disk.lines[Len(disk.lines)].sequence = disk.lines[1].sequence + Len(disk.lines) - 1
      BY <2>9, <3>1 DEF Unbroken
    <3>5. Unbroken(l)
      <4> SUFFICES ASSUME NEW i \in DOMAIN l PROVE l[i].sequence = l[1].sequence + i - 1
        BY DEF Unbroken
      <4>1. CASE i \in 1 .. Len(disk.lines)
        BY <2>5, <2>6, <2>9, <3>2, <4>1 DEF Unbroken
      <4>2. CASE i = Len(disk.lines) + 1
        <5>1. l[1].sequence \in Nat
          BY <2>6, <2>8, <3>1
        <5>2. disk.lines[1].sequence = l[1].sequence
          BY <3>2
        <5>3. l[i].sequence = l[1].sequence + Len(disk.lines) - 1 + 1
          BY <3>3, <3>4, <4>2, <5>2
        <5>4. QED
          BY <2>5, <4>2, <5>1, <5>3
      <4>3. QED
        BY <2>5, <2>6, <4>1, <4>2
    <3>6. Agrees(l, logs[epoch])
      <4> SUFFICES ASSUME NEW i \in DOMAIN l
                   PROVE  l[i].sequence <= Len(logs[epoch]) /\ logs[epoch][l[i].sequence] = l[i].event
        BY DEF Agrees
      <4>1. CASE i \in 1 .. Len(disk.lines)
        BY <2>5, <2>6, <2>9, <4>1 DEF Agrees
      <4>2. CASE i = Len(disk.lines) + 1
        BY <1>1, <2>5, <2>6, <4>2 DEF Agrees
      <4>3. QED
        BY <2>5, <2>6, <4>1, <4>2
    <3>7. LastOf(l) = LastOf(writing.records)
      BY <2>2, <2>5 DEF LastOf
    <3>8. QED
      BY <2>3, <2>4, <2>5, <2>7, <2>11, <3>2, <3>5, <3>6, <3>7 DEF l
  <2>12. QED
    BY <2>10, <2>11
<1>5. QED
  BY <1>3, <1>4

\* Whatever a write leaves behind, the file is a run of the last log.
LEMMA FileOfInterrupt ==
    ASSUME TypeServer, TypeStore, StoreInv, NEW d \in Interrupted(writing)
    PROVE  /\ d \in Files /\ Unbroken(d.lines)
           /\ d.lines # <<>> => Len(logs) > 0 /\ Agrees(d.lines, logs[Len(logs)])
<1>1. /\ disk \in Files /\ Unbroken(disk.lines)
      /\ disk.lines # <<>> => Len(logs) > 0 /\ Agrees(disk.lines, logs[Len(logs)])
  BY DEF TypeStore, StoreInv, DiskInv
<1>2. CASE writing = NoWrite
  <2>1. d = disk
    BY <1>2 DEF Interrupted, NoWrite
  <2>2. QED
    BY <1>1, <2>1
<1>3. CASE writing # NoWrite
  <2> DEFINE l == IF writing.kind = "replace" THEN writing.records
                  ELSE disk.lines \o writing.records
  <2>1. /\ Written(writing) = [lines |-> l, end |-> "clean"]
        /\ l \in Seq(Numbered) /\ Unbroken(l) /\ Agrees(l, logs[epoch])
    BY <1>3, FileOfWrite
  <2>2. Live /\ writing.kind \in {"append", "replace"}
    BY <1>3 DEF StoreInv, WritingInv, TypeStore
  <2>3. Len(logs) = epoch /\ epoch > 0
    BY <2>2 DEF StoreInv, LogsInv, Live
  <2>4. CASE d = disk
    BY <1>1, <2>4
  <2>5. CASE d = Written(writing)
    BY <2>1, <2>3, <2>5 DEF Files
  <2>6. CASE d = [disk EXCEPT !.end = "torn"]
    <3>1. d.lines = disk.lines /\ d \in Files
      BY <1>1, <2>6 DEF Files
    <3>2. QED
      BY <1>1, <3>1
  <2>7. CASE writing.kind = "append" /\ d = [lines |-> disk.lines \o writing.records, end |-> "bare"]
    <3>1. d.lines = l /\ d \in Files
      BY <2>1, <2>7 DEF Files
    <3>2. QED
      BY <2>1, <2>3, <3>1
  <2>8. QED
    BY <2>2, <2>4, <2>5, <2>6, <2>7 DEF Interrupted
<1>4. QED
  BY <1>2, <1>3

LEMMA Window ==
    ASSUME TypeServer
    PROVE  /\ Len(history) \in Nat /\ DOMAIN history = 1 .. Len(history)
           /\ \A i \in DOMAIN history :
                history[i] \in Numbered /\ history[i].sequence \in Nat \ {0}
           /\ Unbroken(history)
           /\ history # <<>> =>
                /\ Len(history) > 0 /\ FirstOf(history) = sequence - Len(history) + 1
                /\ LastOf(history) = sequence /\ FirstOf(history) \in Nat \ {0}
<1>1. /\ history \in Seq(Numbered) /\ sequence \in Nat
      /\ \A i \in DOMAIN history : history[i].sequence = sequence - Len(history) + i
  BY DEF TypeServer
<1>2. Len(history) \in Nat /\ DOMAIN history = 1 .. Len(history)
  BY <1>1
<1>3. ASSUME NEW i \in DOMAIN history
      PROVE  history[i] \in Numbered /\ history[i].sequence \in Nat \ {0}
  <2>1. history[i] \in Numbered
    BY <1>1, <1>3
  <2>2. QED
    BY <2>1 DEF Numbered
<1>4. history # <<>> => Len(history) > 0 /\ 1 \in DOMAIN history /\ Len(history) \in DOMAIN history
  BY <1>1, <1>2, EmptySeq
<1>5. Unbroken(history)
  BY <1>1, <1>2, SMT DEF Unbroken
<1>6. QED
  BY <1>1, <1>2, <1>3, <1>4, <1>5 DEF FirstOf, LastOf

LEMMA TailShrinks ==
    ASSUME TypeStore, TypeServer, NumberInv, Live, tail # <<>>
    PROVE  /\ Tail(tail) \in Seq([sequence : Nat \ {0}, rewrite : BOOLEAN])
           /\ Head(tail) = tail[1] /\ tail[1].sequence \in Nat \ {0}
           /\ tail[1].sequence <= sequence
           /\ \A i \in DOMAIN Tail(tail) : Tail(tail)[i].sequence = sequence - Len(Tail(tail)) + i
           /\ Tail(tail) = <<>> => tail[1].sequence = sequence
<1> DEFINE T == [sequence : Nat \ {0}, rewrite : BOOLEAN]
<1>1. /\ tail \in Seq(T) /\ sequence \in Nat
      /\ \A i \in DOMAIN tail : tail[i].sequence = sequence - Len(tail) + i
  BY DEF TypeStore, TypeServer, NumberInv
<1>2. Len(tail) \in Nat /\ Len(tail) > 0 /\ DOMAIN tail = 1 .. Len(tail)
  BY <1>1, EmptySeq
<1>3. tail[1].sequence \in Nat \ {0}
  <2>1. tail[1] \in T
    <3>1. 1 \in 1 .. Len(tail) /\ tail \in Seq(T)
      BY <1>1, <1>2
    <3> HIDE DEF T
    <3>2. QED
      BY <3>1, ElementOfSeq
  <2>2. QED
    BY <2>1
<1>4. /\ Tail(tail) \in Seq(T) /\ Len(Tail(tail)) = Len(tail) - 1
      /\ \A i \in 1 .. Len(Tail(tail)) : Tail(tail)[i] = tail[i + 1]
  BY <1>1, HeadTailProperties
<1>5. DOMAIN Tail(tail) = 1 .. Len(tail) - 1
  BY <1>4
<1>6. tail[1].sequence = sequence - Len(tail) + 1
  BY <1>1, <1>2
<1>7. ASSUME NEW i \in DOMAIN Tail(tail)
      PROVE  Tail(tail)[i].sequence = sequence - Len(Tail(tail)) + i
  <2>1. i + 1 \in DOMAIN tail /\ i \in Nat
    BY <1>2, <1>5, <1>7
  <2>2. Tail(tail)[i].sequence = sequence - Len(tail) + (i + 1)
    BY <1>1, <1>4, <1>5, <1>7, <2>1
  <2>3. QED
    BY <1>1, <1>2, <1>4, <2>1, <2>2
<1>8. Tail(tail) = <<>> => tail[1].sequence = sequence
  BY <1>1, <1>2, <1>4, <1>6, EmptySeq
<1>9. Head(tail) = tail[1]
  BY <1>1, <1>2
<1>10. tail[1].sequence <= sequence
  BY <1>1, <1>2, <1>6
<1>11. QED
  BY <1>3, <1>4, <1>7, <1>8, <1>9, <1>10

StoreOK == TypeServer /\ TypeStore /\ StoreInv

LEMMA InitStore == Init => StoreOK
<1> SUFFICES ASSUME Init PROVE StoreOK
  OBVIOUS
<1>1. /\ epoch = 0 /\ stage = "down" /\ sequence = 0 /\ history = <<>> /\ journal = NoMemory
      /\ tail = <<>> /\ writing = NoWrite /\ disk = [lines |-> <<>>, end |-> "clean"]
      /\ published = 0 /\ logs = <<>> /\ excused = {}
  BY DEF Init
<1>2. TypeServer
  BY <1>1, BoundAssumption, SizeAssumption, EmptySeq DEF TypeServer
<1>3. TypeStore
  BY <1>1, EmptySeq DEF TypeStore, Files, NoMemory, NoWrite
<1>4. LogsInv /\ NumberInv /\ LoadingInv /\ DiskInv /\ HealthInv /\ WritingInv
  BY <1>1
     DEF LogsInv, NumberInv, LoadingInv, DiskInv, HealthInv, WritingInv, Live, Unbroken
<1>5. QED
  BY <1>2, <1>3, <1>4 DEF StoreOK, StoreInv

LEMMA StartStore == ASSUME StoreOK, Start PROVE StoreOK'
<1>1. /\ stage = "down" /\ epoch < MaxEpoch /\ epoch' = epoch + 1 /\ stage' = "loading"
      /\ UNCHANGED <<sequence, history, journal, tail, writing, disk, published, logs, excused>>
  BY DEF Start, store, ghosts
<1>2. TypeServer' /\ TypeStore'
  BY <1>1, BoundAssumption DEF StoreOK, TypeServer, TypeStore, Files
<1>3. history = <<>> /\ sequence = 0 /\ tail = <<>> /\ writing = NoWrite
  BY <1>1 DEF StoreOK, StoreInv, LoadingInv
<1>4. LogsInv'
  BY <1>1 DEF StoreOK, StoreInv, LogsInv, TypeServer
<1>5. LoadingInv'
  BY <1>1, <1>3 DEF StoreOK, StoreInv, LoadingInv, LogsInv, TypeServer
<1>6. NumberInv' /\ HealthInv' /\ WritingInv'
  BY <1>1, <1>3 DEF NumberInv, HealthInv, WritingInv, Live
<1>7. DiskInv'
  BY <1>1 DEF StoreOK, StoreInv, DiskInv, Unbroken, Agrees
<1>8. QED
  BY <1>2, <1>4, <1>5, <1>6, <1>7 DEF StoreOK, StoreInv

\* The Host goes on living, or its store is left alone.
LEMMA LiveStore ==
    ASSUME StoreOK, UNCHANGED <<epoch, sequence, history, journal, tail, writing, disk, published, logs>>,
           excused' \subseteq 1 .. MaxEpoch,
           stage' \in {"down", "loading", "ready", "closing", "flushing"},
           stage' = stage \/ (Live /\ Live')
    PROVE  StoreOK'
<1>1. TypeServer' /\ TypeStore'
  BY DEF StoreOK, TypeServer, TypeStore, Files
<1>2. LogsInv' /\ NumberInv' /\ LoadingInv' /\ DiskInv' /\ HealthInv' /\ WritingInv'
  BY DEF StoreOK, StoreInv, LogsInv, NumberInv, LoadingInv, DiskInv, HealthInv,
       WritingInv, Live,
         Unbroken, Agrees
<1>3. QED
  BY <1>1, <1>2 DEF StoreOK, StoreInv

LEMMA ExitStore == ASSUME StoreOK, Exit PROVE StoreOK'
<1>1. /\ stage = "flushing" /\ tail = <<>> /\ stage' = "down" /\ sequence' = 0 /\ history' = <<>>
      /\ journal' = NoMemory /\ UNCHANGED <<epoch, tail, writing, disk, published, logs, excused>>
  BY DEF Exit, ghosts
<1>2. writing = NoWrite
  BY <1>1 DEF StoreOK, TypeStore
<1>3. TypeServer' /\ TypeStore'
  BY <1>1, SizeAssumption, EmptySeq DEF StoreOK, TypeServer, TypeStore, Files, NoMemory
<1>4. LogsInv' /\ NumberInv' /\ LoadingInv' /\ DiskInv' /\ HealthInv' /\ WritingInv'
  BY <1>1, <1>2
     DEF StoreOK, StoreInv, LogsInv, NumberInv, LoadingInv, DiskInv, HealthInv,
       WritingInv,
     Live, Unbroken, Agrees
<1>5. QED
  BY <1>3, <1>4 DEF StoreOK, StoreInv

LEMMA CrashStore == ASSUME StoreOK, Crash PROVE StoreOK'
<1>1. /\ stage # "down" /\ epoch < MaxEpoch /\ stage' = "down" /\ sequence' = 0 /\ history' = <<>>
      /\ tail' = <<>> /\ writing' = NoWrite /\ disk' \in Interrupted(writing)
      /\ journal' = NoMemory /\ UNCHANGED <<epoch, published, excused>>
      /\ logs' = IF stage # "loading" THEN logs
                 ELSE Append(logs, IF epoch = 1 THEN <<>> ELSE logs[epoch - 1])
  BY DEF Crash
<1>2. /\ disk' \in Files /\ Unbroken(disk'.lines)
      /\ disk'.lines # <<>> => Len(logs) > 0 /\ Agrees(disk'.lines, logs[Len(logs)])
  BY <1>1, FileOfInterrupt DEF StoreOK
<1>3. /\ Len(logs) = IF stage = "loading" THEN epoch - 1 ELSE epoch
      /\ epoch > 0 /\ epoch \in Nat /\ logs \in Seq(Seq(1 .. MaxEvents))
      /\ \A e \in DOMAIN logs : \A i \in DOMAIN logs[e] : logs[e][i] <= published
  BY <1>1 DEF StoreOK, StoreInv, LogsInv, TypeServer
<1>4. /\ logs' \in Seq(Seq(1 .. MaxEvents)) /\ Len(logs') = epoch
      /\ \A e \in DOMAIN logs' : \A i \in DOMAIN logs'[e] : logs'[e][i] <= published
      /\ Len(logs) > 0 => Len(logs') > 0 /\ logs'[Len(logs')] = logs[Len(logs)]
  <2>1. CASE stage # "loading"
    BY <1>1, <1>3, <2>1
  <2>2. CASE stage = "loading"
    <3> DEFINE x == IF epoch = 1 THEN <<>> ELSE logs[epoch - 1]
    <3>1. Len(logs) = epoch - 1 /\ DOMAIN logs = 1 .. epoch - 1
      BY <1>3, <2>2
    <3>2. x \in Seq(1 .. MaxEvents) /\ \A i \in DOMAIN x : x[i] <= published
      BY <1>3, <3>1, EmptySeq
    <3>3. epoch > 1 => x = logs[Len(logs)]
      BY <1>3, <3>1
    <3>4. logs' = Append(logs, x)
      BY <1>1, <2>2
    <3> HIDE DEF x
    <3>5. /\ logs' \in Seq(Seq(1 .. MaxEvents)) /\ Len(logs') = Len(logs) + 1
          /\ \A e \in 1 .. Len(logs) : logs'[e] = logs[e]
          /\ logs'[Len(logs) + 1] = x
      BY <1>3, <3>2, <3>4, AppendProperties
    <3>6. DOMAIN logs' = 1 .. epoch /\ Len(logs') = epoch
      BY <1>3, <3>1, <3>5
    <3>7. ASSUME NEW e \in DOMAIN logs', NEW i \in DOMAIN logs'[e]
          PROVE  logs'[e][i] <= published
      <4>1. CASE e \in 1 .. Len(logs)
        BY <1>3, <3>1, <3>5, <3>7, <4>1
      <4>2. CASE e = Len(logs) + 1
        BY <3>2, <3>5, <3>7, <4>2
      <4>3. QED
        BY <1>3, <3>1, <3>6, <4>1, <4>2
    <3>8. Len(logs) > 0 => Len(logs') > 0 /\ logs'[Len(logs')] = logs[Len(logs)]
      BY <1>3, <3>1, <3>3, <3>5, <3>6
    <3>9. QED
      BY <3>5, <3>6, <3>7, <3>8
  <2>3. QED
    BY <2>1, <2>2
<1>5. TypeServer'
  BY <1>1, <1>4, SizeAssumption, EmptySeq DEF StoreOK, TypeServer
<1>6. TypeStore'
  BY <1>1, <1>2, EmptySeq DEF TypeStore, NoMemory, NoWrite
<1>7. LogsInv'
  BY <1>1, <1>3, <1>4 DEF LogsInv
<1>8. LoadingInv' /\ NumberInv' /\ HealthInv' /\ WritingInv'
  BY <1>1 DEF LoadingInv, NumberInv, HealthInv, WritingInv, Live
<1>9. DiskInv'
  BY <1>2, <1>4 DEF DiskInv
<1>10. QED
  BY <1>5, <1>6, <1>7, <1>8, <1>9 DEF StoreOK, StoreInv

LEMMA PersistStore == ASSUME StoreOK, Persist PROVE StoreOK'
<1> USE DEF StoreOK, StoreInv
<1> DEFINE p == Head(tail)
           found == {i \in DOMAIN history : history[i].sequence = p.sequence}
<1>1. /\ writing = NoWrite /\ tail # <<>>
      /\ UNCHANGED <<epoch, stage, sequence, history, disk, published, logs, excused>>
  BY DEF Persist, server, ghosts
<1>2. \/ p.sequence <= journal.persisted /\ tail' = Tail(tail) /\ UNCHANGED <<journal, writing>>
      \/ /\ journal' = [journal EXCEPT !.degraded = TRUE]
         /\ tail' = Tail(tail) /\ UNCHANGED writing
      \/ \E i \in found :
           /\ writing' = IF Replaces(p, journal) THEN [kind |-> "replace", records |-> history]
                         ELSE [kind |-> "append", records |-> <<history[i]>>]
           /\ UNCHANGED <<journal, tail>>
  BY Zenon DEF Persist
<1>3. Live
  BY <1>1 DEF LoadingInv, TypeServer, Live
<1>4. TypeServer' /\ LogsInv' /\ LoadingInv' /\ DiskInv' /\ Live'
  BY <1>1, <1>3 DEF TypeServer, LogsInv, LoadingInv, DiskInv, Unbroken, Agrees, Live
<1>5. Len(logs[epoch]) = sequence /\ Agrees(history, logs[epoch]) /\ journal.persisted <= sequence
  BY <1>3 DEF NumberInv
<1>6. /\ Tail(tail) \in Seq([sequence : Nat \ {0}, rewrite : BOOLEAN])
      /\ p = tail[1] /\ p.sequence <= sequence /\ p.sequence \in Nat
      /\ \A i \in DOMAIN Tail(tail) : Tail(tail)[i].sequence = sequence - Len(Tail(tail)) + i
      /\ Tail(tail) = <<>> => p.sequence = sequence
  BY <1>1, <1>3, TailShrinks
<1>7. journal \in [persisted : Nat, degraded : BOOLEAN, rewrite : BOOLEAN] /\ sequence \in Nat
  BY DEF TypeStore, TypeServer
<1>8. CASE p.sequence <= journal.persisted /\ tail' = Tail(tail) /\ UNCHANGED <<journal, writing>>
  <2>1. TypeStore'
    BY <1>1, <1>6, <1>8 DEF TypeStore, Files
  <2>2. NumberInv'
    BY <1>1, <1>3, <1>5, <1>6, <1>8 DEF NumberInv, Agrees
  <2>3. tail' = <<>> => journal.persisted = sequence
    BY <1>5, <1>6, <1>7, <1>8
  <2>4. HealthInv'
    BY <1>1, <1>3, <1>8, <2>3 DEF HealthInv, Live
  <2>5. WritingInv'
    BY <1>1, <1>8 DEF WritingInv
  <2>6. QED
    BY <1>4, <2>1, <2>2, <2>4, <2>5
<1>9. CASE /\ journal' = [journal EXCEPT !.degraded = TRUE]
           /\ tail' = Tail(tail) /\ UNCHANGED writing
  <2>1. /\ journal' \in [persisted : Nat, degraded : BOOLEAN, rewrite : BOOLEAN]
        /\ journal'.degraded /\ journal'.persisted = journal.persisted
    BY <1>7, <1>9
  <2>2. TypeStore'
    BY <1>1, <1>6, <1>9, <2>1 DEF TypeStore, Files
  <2>3. NumberInv'
    BY <1>1, <1>3, <1>5, <1>6, <1>9, <2>1 DEF NumberInv, Agrees
  <2>4. HealthInv' /\ WritingInv'
    BY <1>1, <1>9, <2>1 DEF HealthInv, WritingInv
  <2>5. QED
    BY <1>4, <2>2, <2>3, <2>4
<1>10. ASSUME NEW i \in found,
              writing' = IF Replaces(p, journal) THEN [kind |-> "replace", records |-> history]
                         ELSE [kind |-> "append", records |-> <<history[i]>>],
              UNCHANGED <<journal, tail>>
       PROVE  StoreOK'
  <2>1. i \in DOMAIN history /\ history[i].sequence = p.sequence /\ history # <<>>
    BY <1>10
  <2>2. /\ history[i] \in Numbered /\ Unbroken(history) /\ history \in Seq(Numbered)
        /\ LastOf(history) = sequence /\ FirstOf(history) \in Nat
    BY <2>1, Window DEF TypeServer
  <2>3. NumberInv' /\ HealthInv'
    BY <1>1, <1>10 DEF NumberInv, HealthInv, Agrees, Live
  <2>4. CASE Replaces(p, journal)
    <3>1. writing' = [kind |-> "replace", records |-> history]
      BY <1>10, <2>4
    <3>2. TypeStore'
      BY <1>1, <1>10, <2>1, <2>2, <3>1 DEF TypeStore, Files
    <3>3. WritingInv'
      <4>1. /\ writing'.records = history /\ writing'.kind = "replace" /\ history' = history
            /\ tail'[1].sequence = p.sequence /\ logs'[epoch'] = logs[epoch]
        BY <1>1, <1>6, <1>10, <3>1
      <4>2. LastOf(writing'.records) >= tail'[1].sequence
        BY <1>6, <1>7, <2>2, <4>1
      <4>3. Unbroken(writing'.records) /\ Agrees(writing'.records, logs'[epoch'])
        BY <1>5, <2>2, <4>1
      <4>4. history' # <<>> /\ FirstOf(writing'.records) <= FirstOf(history')
        BY <2>1, <2>2, <4>1
      <4>5. QED
        BY <1>4, <4>1, <4>2, <4>3, <4>4 DEF WritingInv
    <3>4. QED
      BY <1>4, <2>3, <3>2, <3>3
  <2>5. CASE ~ Replaces(p, journal)
    <3>1. writing' = [kind |-> "append", records |-> <<history[i]>>]
      BY <1>10, <2>5
    <3>2. ~ journal.rewrite /\ ~ journal.degraded /\ p.sequence = journal.persisted + 1
      BY <2>5, Zenon DEF Replaces
    <3>3. /\ <<history[i]>> \in Seq(Numbered) /\ <<history[i]>> # <<>>
          /\ Len(<<history[i]>>) = 1 /\ <<history[i]>>[1] = history[i]
          /\ DOMAIN <<history[i]>> = {1}
      BY <2>2
    <3>4. TypeStore'
      BY <1>1, <1>10, <3>1, <3>3 DEF TypeStore, Files
    <3>5. Unbroken(<<history[i]>>)
      BY <1>6, <2>1, <3>3 DEF Unbroken
    <3>6. Agrees(<<history[i]>>, logs[epoch])
      BY <1>5, <2>1, <3>3 DEF Agrees
    <3>7. FirstOf(<<history[i]>>) = p.sequence /\ LastOf(<<history[i]>>) = p.sequence
      BY <2>1, <3>3 DEF FirstOf, LastOf
    <3>8. WritingInv'
      <4>1. /\ writing'.records = <<history[i]>> /\ writing'.kind = "append"
            /\ tail'[1].sequence = p.sequence /\ UNCHANGED <<journal, logs, epoch>>
        BY <1>1, <1>6, <1>10, <3>1
      <4>2. LastOf(writing'.records) >= tail'[1].sequence
        BY <1>6, <3>7, <4>1
      <4>3. Unbroken(writing'.records) /\ Agrees(writing'.records, logs'[epoch'])
        BY <3>5, <3>6, <4>1
      <4>4. QED
        BY <1>4, <3>2, <3>3, <3>7, <4>1, <4>2, <4>3 DEF WritingInv
    <3>9. QED
      BY <1>4, <2>3, <3>4, <3>8
  <2>6. QED
    BY <2>4, <2>5
<1>11. QED
  BY <1>2, <1>8, <1>9, <1>10

LEMMA WriteDoneStore == ASSUME StoreOK, WriteDone PROVE StoreOK'
<1> USE DEF StoreOK, StoreInv
<1>1. /\ writing # NoWrite /\ disk' = Written(writing)
      /\ journal' = [persisted |-> LastOf(writing.records), degraded |-> FALSE, rewrite |-> FALSE]
      /\ writing' = NoWrite /\ tail' = Tail(tail)
      /\ UNCHANGED <<epoch, stage, sequence, history, published, logs, excused>>
  BY DEF WriteDone, server, ghosts
<1>2. Live /\ LastOf(writing.records) >= tail[1].sequence
  BY <1>1 DEF WritingInv
<1>3. TypeServer' /\ LogsInv' /\ Live' /\ tail # <<>>
  BY <1>1, <1>2 DEF TypeServer, LogsInv, Live, TypeStore
<1>4. PICK l : /\ disk' = [lines |-> l, end |-> "clean"]
               /\ l \in Seq(Numbered) /\ l # <<>> /\ Unbroken(l) /\ Agrees(l, logs[epoch])
               /\ LastOf(l) = LastOf(writing.records)
               /\ history # <<>> => FirstOf(l) <= FirstOf(history)
  BY <1>1, FileOfWrite
<1>5. Len(l) \in DOMAIN l /\ l[Len(l)] \in Numbered
  <2>1. Len(l) \in Nat /\ Len(l) > 0 /\ DOMAIN l = 1 .. Len(l)
    BY <1>4, EmptySeq
  <2>2. QED
    BY <1>4, <2>1
<1>6. LastOf(l) \in Nat /\ LastOf(l) <= Len(logs[epoch])
  BY <1>4, <1>5 DEF LastOf, Agrees, Numbered
<1>7. Len(logs[epoch]) = sequence /\ Agrees(history, logs[epoch]) /\ sequence \in Nat
  BY <1>2 DEF NumberInv, TypeServer
<1>8. /\ Tail(tail) \in Seq([sequence : Nat \ {0}, rewrite : BOOLEAN])
      /\ tail[1].sequence \in Nat
      /\ \A i \in DOMAIN Tail(tail) : Tail(tail)[i].sequence = sequence - Len(Tail(tail)) + i
      /\ Tail(tail) = <<>> => tail[1].sequence = sequence
  BY <1>2, <1>3, TailShrinks
<1>9. TypeStore'
  BY <1>1, <1>4, <1>6, <1>8, EmptySeq DEF TypeStore, Files, NoWrite
<1>10. NumberInv'
  BY <1>1, <1>4, <1>6, <1>7, <1>8 DEF NumberInv, Agrees
<1>11. LoadingInv' /\ WritingInv'
  BY <1>1, <1>2 DEF LoadingInv, WritingInv, Live
<1>12. DiskInv'
  <2>1. Len(logs) = epoch /\ epoch > 0
    BY <1>2 DEF LogsInv, Live
  <2>2. disk'.lines = l /\ logs' = logs
    BY <1>1, <1>4
  <2>3. QED
    BY <1>4, <2>1, <2>2 DEF DiskInv
<1>13. HealthInv'
  <2>1. disk'.lines = l /\ disk'.end = "clean" /\ journal'.persisted = LastOf(l)
    BY <1>1, <1>4
  <2>2. tail' = <<>> => LastOf(l) = sequence
    BY <1>1, <1>2, <1>4, <1>6, <1>7, <1>8
  <2>3. QED
    BY <1>1, <1>4, <2>1, <2>2 DEF HealthInv
<1>14. QED
  BY <1>3, <1>9, <1>10, <1>11, <1>12, <1>13

LEMMA WriteFailsStore == ASSUME StoreOK, WriteFails PROVE StoreOK'
<1> USE DEF StoreOK, StoreInv
<1>1. /\ writing # NoWrite /\ disk' \in Interrupted(writing)
      /\ journal' = [journal EXCEPT !.degraded = TRUE]
      /\ writing' = NoWrite /\ tail' = Tail(tail)
      /\ UNCHANGED <<epoch, stage, sequence, history, published, logs, excused>>
  BY DEF WriteFails, server, ghosts
<1>2. Live /\ tail # <<>>
  BY <1>1 DEF WritingInv, TypeStore
<1>3. TypeServer' /\ LogsInv'
  BY <1>1 DEF TypeServer, LogsInv
<1>4. /\ disk' \in Files /\ Unbroken(disk'.lines)
      /\ disk'.lines # <<>> => Len(logs) > 0 /\ Agrees(disk'.lines, logs[Len(logs)])
  BY <1>1, FileOfInterrupt
<1>5. /\ journal' \in [persisted : Nat, degraded : BOOLEAN, rewrite : BOOLEAN]
      /\ journal'.degraded /\ journal'.persisted = journal.persisted
  BY <1>1 DEF TypeStore
<1>6. /\ Tail(tail) \in Seq([sequence : Nat \ {0}, rewrite : BOOLEAN])
      /\ \A i \in DOMAIN Tail(tail) : Tail(tail)[i].sequence = sequence - Len(Tail(tail)) + i
  BY <1>2, TailShrinks
<1>7. TypeStore'
  BY <1>1, <1>4, <1>5, <1>6, EmptySeq DEF TypeStore, NoWrite
<1>8. NumberInv'
  BY <1>1, <1>2, <1>5, <1>6 DEF NumberInv, Agrees, Live
<1>9. LoadingInv' /\ WritingInv' /\ HealthInv'
  BY <1>1, <1>2, <1>5 DEF LoadingInv, WritingInv, HealthInv, Live
<1>10. DiskInv'
  BY <1>1, <1>4 DEF DiskInv
<1>11. QED
  BY <1>3, <1>7, <1>8, <1>9, <1>10

\* Publishing keeps the window's first number or drops it.
LEMMA PublishWindow ==
    ASSUME TypeServer, published < MaxEvents,
           NEW r, r = Record(sequence + 1, published + 1), NEW h, h = Newest(Append(history, r))
    PROVE  /\ r \in Numbered /\ h \in Seq(Numbered) /\ h # <<>> /\ Len(h) <= HistoryLimit
           /\ \A i \in DOMAIN h : h[i].sequence = sequence + 1 - Len(h) + i
           /\ \A i \in DOMAIN h : h[i] = r \/ \E j \in DOMAIN history : h[i] = history[j]
           /\ history # <<>> => FirstOf(history) <= FirstOf(h)
<1>1. /\ history \in Seq(Numbered) /\ Len(history) \in Nat /\ DOMAIN history = 1 .. Len(history)
      /\ Len(history) <= HistoryLimit /\ sequence \in Nat /\ HistoryLimit \in Nat \ {0}
      /\ \A i \in DOMAIN history : history[i].sequence = sequence - Len(history) + i
  BY SizeAssumption DEF TypeServer
<1>2. r \in Numbered /\ r.sequence = sequence + 1
  <2>1. published + 1 \in 1 .. MaxEvents
    BY BoundAssumption DEF TypeServer
  <2>2. QED
    BY <1>1, <2>1 DEF Record, Numbered
<1> DEFINE a == Append(history, r)
<1>3. /\ a \in Seq(Numbered) /\ a # <<>> /\ Len(a) = Len(history) + 1
      /\ \A i \in 1 .. Len(history) : a[i] = history[i]
      /\ a[Len(history) + 1] = r
  BY <1>1, <1>2, AppendProperties
<1>4. h = Newest(a)
  OBVIOUS
<1> HIDE DEF a
<1>5. /\ h \in Seq(Numbered) /\ h # <<>>
      /\ Len(h) = IF Len(a) > HistoryLimit THEN HistoryLimit ELSE Len(a)
      /\ \A i \in 1 .. Len(h) : h[i] = a[Len(a) - Len(h) + i]
  BY <1>3, <1>4, NewestProps
<1>6. /\ Len(h) \in Nat /\ Len(h) > 0 /\ Len(h) <= HistoryLimit /\ Len(h) <= Len(a)
      /\ DOMAIN h = 1 .. Len(h) /\ Len(a) \in Nat
  BY <1>1, <1>3, <1>5, EmptySeq
<1>7. \A i \in 1 .. Len(a) : a[i].sequence = sequence + 1 - Len(a) + i
  <2> TAKE i \in 1 .. Len(a)
  <2>1. CASE i \in 1 .. Len(history)
    <3>1. a[i].sequence = sequence - Len(history) + i
      BY <1>1, <1>3, <2>1
    <3>2. QED
      BY <1>1, <1>3, <2>1, <3>1
  <2>2. CASE i = Len(history) + 1
    BY <1>1, <1>2, <1>3, <2>2
  <2>3. QED
    BY <1>1, <1>3, <2>1, <2>2
<1>8. ASSUME NEW i \in DOMAIN h
      PROVE  /\ h[i].sequence = sequence + 1 - Len(h) + i
             /\ h[i] = r \/ \E j \in DOMAIN history : h[i] = history[j]
  <2> DEFINE k == Len(a) - Len(h) + i
  <2>1. k \in 1 .. Len(a) /\ i \in 1 .. Len(h)
    BY <1>6, <1>8
  <2>2. h[i] = a[k]
    BY <1>5, <2>1
  <2>3. h[i].sequence = sequence + 1 - Len(a) + k
    BY <1>7, <2>1, <2>2
  <2>4. h[i].sequence = sequence + 1 - Len(h) + i
    BY <1>1, <1>6, <2>1, <2>3
  <2>5. k \in DOMAIN history \/ k = Len(history) + 1
    BY <1>1, <1>3, <2>1
  <2>6. QED
    BY <1>1, <1>3, <2>2, <2>4, <2>5
<1>9. history # <<>> => FirstOf(history) <= FirstOf(h)
  <2> SUFFICES ASSUME history # <<>> PROVE FirstOf(history) <= FirstOf(h)
    OBVIOUS
  <2>1. 1 \in DOMAIN h /\ 1 \in DOMAIN history
    BY <1>1, <1>6, EmptySeq
  <2>2. FirstOf(h) = sequence + 1 - Len(h) + 1 /\ FirstOf(history) = sequence - Len(history) + 1
    BY <1>1, <1>8, <2>1 DEF FirstOf
  <2>3. QED
    BY <1>1, <1>3, <1>6, <2>2
<1>10. QED
  BY <1>2, <1>5, <1>6, <1>8, <1>9

LEMMA LogTypes ==
    ASSUME TypeServer
    PROVE  /\ Len(logs) \in Nat /\ DOMAIN logs = 1 .. Len(logs)
           /\ \A e \in DOMAIN logs :
                /\ logs[e] \in Seq(1 .. MaxEvents) /\ Len(logs[e]) \in Nat
                /\ DOMAIN logs[e] = 1 .. Len(logs[e])
                /\ \A i \in DOMAIN logs[e] : logs[e][i] \in 1 .. MaxEvents /\ logs[e][i] \in Nat
<1>1. logs \in Seq(Seq(1 .. MaxEvents))
  BY DEF TypeServer
<1>2. Len(logs) \in Nat /\ DOMAIN logs = 1 .. Len(logs)
  BY <1>1
<1>3. ASSUME NEW e \in DOMAIN logs
      PROVE  /\ logs[e] \in Seq(1 .. MaxEvents) /\ Len(logs[e]) \in Nat
             /\ DOMAIN logs[e] = 1 .. Len(logs[e])
             /\ \A i \in DOMAIN logs[e] : logs[e][i] \in 1 .. MaxEvents /\ logs[e][i] \in Nat
  <2>1. logs[e] \in Seq(1 .. MaxEvents)
    BY <1>1, <1>2, <1>3, ElementOfSeq
  <2>2. DOMAIN logs[e] = 1 .. Len(logs[e]) /\ Len(logs[e]) \in Nat
    BY <2>1, LenProperties
  <2>3. \A i \in DOMAIN logs[e] : logs[e][i] \in 1 .. MaxEvents
    BY <2>1, <2>2, ElementOfSeq
  <2>4. QED
    BY <2>1, <2>2, <2>3, BoundAssumption
<1>4. QED
  BY <1>2, <1>3

LEMMA PublishStore == ASSUME StoreOK, PublishEvent PROVE StoreOK'
<1> USE DEF StoreOK, StoreInv
<1> DEFINE r == Record(sequence + 1, published + 1)
<1>1. /\ stage \in {"loading", "ready", "closing"} /\ published < MaxEvents
      /\ history' = Newest(Append(history, r)) /\ sequence' = r.sequence /\ published' = r.event
      /\ IF stage = "loading" THEN UNCHANGED <<tail, logs>>
         ELSE /\ tail' = Append(tail, [sequence |-> r.sequence, rewrite |-> FALSE])
              /\ logs' = [logs EXCEPT ![epoch] = Append(@, r.event)]
      /\ UNCHANGED <<epoch, stage, journal, writing, disk, excused>>
  BY DEF PublishEvent
<1>2. r.sequence = sequence + 1 /\ r.event = published + 1
  BY DEF Record
<1>3. /\ r \in Numbered /\ history' \in Seq(Numbered) /\ history' # <<>>
      /\ Len(history') <= HistoryLimit
      /\ \A i \in DOMAIN history' : history'[i].sequence = sequence + 1 - Len(history') + i
      /\ \A i \in DOMAIN history' :
           history'[i] = r \/ \E j \in DOMAIN history : history'[i] = history[j]
      /\ history # <<>> => FirstOf(history) <= FirstOf(history')
  BY <1>1, PublishWindow
<1> HIDE DEF r
<1>4. /\ sequence \in Nat /\ sequence' = sequence + 1 /\ published \in Nat
      /\ published' = published + 1 /\ published' \in 0 .. MaxEvents
      /\ published' \in 1 .. MaxEvents
  BY <1>1, <1>2, BoundAssumption DEF TypeServer
<1>5. CASE stage = "loading"
  <2>1. TypeServer' /\ TypeStore'
    BY <1>1, <1>3, <1>4, <1>5 DEF TypeServer, TypeStore, Files
  <2>2. LogsInv'
    <3>1. \A e \in DOMAIN logs : \A i \in DOMAIN logs[e] : logs[e][i] \in Nat /\ logs[e][i] <= published
      BY LogTypes DEF LogsInv
    <3>2. \A e \in DOMAIN logs : \A i \in DOMAIN logs[e] : logs[e][i] <= published + 1
      BY <1>4, <3>1
    <3>3. QED
      BY <1>1, <1>4, <1>5, <3>2 DEF LogsInv
  <2>3. \A i \in DOMAIN history' : history'[i].event = published' - sequence' + history'[i].sequence
    <3> TAKE i \in DOMAIN history'
    <3>1. CASE history'[i] = r
      BY <1>1, <1>2, <1>4, <3>1
    <3>2. ASSUME NEW j \in DOMAIN history, history'[i] = history[j]
          PROVE  history'[i].event = published' - sequence' + history'[i].sequence
      <4>1. /\ history[j].event = published - sequence + history[j].sequence
            /\ history[j].sequence \in Nat
        BY <1>5, Window DEF LoadingInv
      <4>2. QED
        BY <1>4, <3>2, <4>1
    <3>3. QED
      BY <1>3, <3>1, <3>2
  <2>4. LoadingInv'
    <3>1. sequence <= published
      BY <1>5 DEF LoadingInv
    <3>2. sequence' <= published' /\ published' - sequence' = published - sequence
      BY <1>4, <3>1
    <3>3. QED
      BY <1>1, <1>3, <1>5, <2>3, <3>2 DEF LoadingInv
  <2>5. NumberInv' /\ HealthInv'
    BY <1>1, <1>5 DEF NumberInv, HealthInv, Live
  <2>6. WritingInv'
    BY <1>1, <1>5 DEF WritingInv, Live
  <2>7. DiskInv'
    BY <1>1, <1>5 DEF DiskInv, Unbroken, Agrees
  <2>8. QED
    BY <2>1, <2>2, <2>4, <2>5, <2>6, <2>7
<1>6. CASE stage # "loading"
  <2>1. Live /\ Live' /\ Len(logs) = epoch /\ epoch \in DOMAIN logs
    BY <1>1, <1>6 DEF Live, LogsInv, TypeServer
  <2> DEFINE log == logs[epoch]
  <2>2. /\ log \in Seq(1 .. MaxEvents) /\ Len(log) = sequence /\ Agrees(history, log)
        /\ journal.persisted <= sequence /\ journal.persisted \in Nat
    BY <2>1 DEF TypeServer, NumberInv, TypeStore
  <2>3. logs' = [logs EXCEPT ![epoch] = Append(log, published + 1)]
    BY <1>1, <1>2, <1>6
  <2>4. /\ Append(log, published + 1) \in Seq(1 .. MaxEvents)
        /\ Len(Append(log, published + 1)) = sequence + 1
        /\ \A i \in 1 .. sequence : Append(log, published + 1)[i] = log[i]
        /\ Append(log, published + 1)[sequence + 1] = published + 1
    BY <1>4, <2>2, AppendProperties
  <2>5. /\ logs' \in Seq(Seq(1 .. MaxEvents)) /\ Len(logs') = Len(logs)
        /\ logs'[epoch] = Append(log, published + 1)
        /\ \A e \in DOMAIN logs : e # epoch => logs'[e] = logs[e]
        /\ DOMAIN logs' = DOMAIN logs
    <3>1. logs \in Seq(Seq(1 .. MaxEvents)) /\ epoch \in 1 .. Len(logs)
      BY <2>1 DEF TypeServer
    <3>2. QED
      BY <2>3, <2>4, <3>1, ExceptSeq
  <2> HIDE DEF log
  <2>6. Len(logs'[epoch]) = sequence' /\ DOMAIN logs'[epoch] = 1 .. sequence + 1 /\ DOMAIN log = 1 .. sequence
    BY <1>4, <2>2, <2>4, <2>5
  <2>7. \A s : Agrees(s, log) /\ (\A i \in DOMAIN s : s[i].sequence \in Nat \ {0}) => Agrees(s, logs'[epoch])
    BY <1>4, <2>2, <2>4, <2>5, <2>6 DEF Agrees
  <2>8. TypeServer'
    BY <1>1, <1>3, <1>4, <2>5 DEF TypeServer
  <2>9. /\ tail' \in Seq([sequence : Nat \ {0}, rewrite : BOOLEAN]) /\ tail' # <<>>
        /\ \A i \in DOMAIN tail' : tail'[i].sequence = sequence' - Len(tail') + i
        /\ tail # <<>> => tail'[1] = tail[1]
    <3> DEFINE x == [sequence |-> sequence + 1, rewrite |-> FALSE]
               T == [sequence : Nat \ {0}, rewrite : BOOLEAN]
    <3>1. tail' = Append(tail, x) /\ x \in T /\ tail \in Seq(T) /\ x.sequence = sequence + 1
      BY <1>1, <1>2, <1>4, <1>6 DEF TypeStore
    <3> HIDE DEF x, T
    <3>2. /\ tail' \in Seq(T) /\ tail' # <<>> /\ Len(tail') = Len(tail) + 1
          /\ \A i \in 1 .. Len(tail) : tail'[i] = tail[i]
          /\ tail'[Len(tail) + 1] = x
      BY <3>1, AppendProperties
    <3>3. Len(tail) \in Nat /\ DOMAIN tail = 1 .. Len(tail) /\ DOMAIN tail' = 1 .. Len(tail) + 1
      BY <3>1, <3>2
    <3>4. ASSUME NEW i \in DOMAIN tail' PROVE tail'[i].sequence = sequence' - Len(tail') + i
      <4>1. CASE i \in DOMAIN tail
        <5>1. tail'[i].sequence = sequence - Len(tail) + i
          BY <2>1, <3>2, <3>3, <4>1 DEF NumberInv
        <5>2. QED
          BY <1>4, <3>2, <3>3, <4>1, <5>1
      <4>2. CASE i = Len(tail) + 1
        BY <1>4, <3>1, <3>2, <3>3, <4>2
      <4>3. QED
        BY <3>3, <3>4, <4>1, <4>2
    <3>5. tail # <<>> => tail'[1] = tail[1]
      BY <3>1, <3>2, <3>3, EmptySeq
    <3>6. QED
      BY <3>2, <3>4, <3>5 DEF T
  <2>10. TypeStore'
    BY <1>1, <2>9 DEF TypeStore, Files
  <2>11. LogsInv'
    <3>1. ASSUME NEW e \in DOMAIN logs', NEW i \in DOMAIN logs'[e]
          PROVE  logs'[e][i] <= published'
      <4>1. \A f \in DOMAIN logs : \A k \in DOMAIN logs[f] : logs[f][k] \in Nat /\ logs[f][k] <= published
        BY LogTypes DEF LogsInv
      <4>2. CASE e = epoch
        <5>1. CASE i \in 1 .. sequence
          <6>1. log[i] \in Nat /\ log[i] <= published
            BY <2>1, <2>6, <4>1, <5>1 DEF log
          <6>2. logs'[e][i] = log[i]
            BY <2>4, <2>5, <4>2, <5>1
          <6>3. QED
            BY <1>4, <6>1, <6>2
        <5>2. CASE i = sequence + 1
          BY <1>4, <2>4, <2>5, <4>2, <5>2
        <5>3. QED
          BY <1>4, <2>6, <3>1, <4>2, <5>1, <5>2
      <4>3. CASE e # epoch
        BY <1>4, <2>5, <3>1, <4>1, <4>3
      <4>4. QED
        BY <4>2, <4>3
    <3>2. QED
      BY <1>1, <2>5, <3>1 DEF LogsInv
  <2>12. Agrees(history', logs'[epoch])
    <3>1. Agrees(history, logs'[epoch])
      BY <2>2, <2>7, Window
    <3>2. r.sequence <= Len(logs'[epoch]) /\ logs'[epoch][r.sequence] = r.event
      BY <1>2, <1>4, <2>4, <2>5, <2>6
    <3>3. QED
      BY <1>3, <3>1, <3>2 DEF Agrees
  <2>13. NumberInv'
    BY <1>1, <1>4, <2>2, <2>6, <2>9, <2>12 DEF NumberInv
  <2>14. LoadingInv'
    BY <1>1, <1>6 DEF LoadingInv
  <2>15. DiskInv'
    <3>1. disk.lines # <<>> => Agrees(disk.lines, log)
      BY <2>1 DEF DiskInv, log
    <3>2. \A i \in DOMAIN disk.lines : disk.lines[i].sequence \in Nat \ {0}
      <4> TAKE i \in DOMAIN disk.lines
      <4>1. disk.lines[i] \in Numbered
        BY DEF TypeStore, Files
      <4>2. QED
        BY <4>1 DEF Numbered
    <3>3. disk.lines # <<>> => Agrees(disk.lines, logs'[epoch])
      BY <2>7, <3>1, <3>2
    <3>4. QED
      BY <1>1, <2>1, <2>5, <3>3 DEF DiskInv
  <2>16. history # <<>> => FirstOf(history) \in Nat
    BY Window
  <2>17. FirstOf(history') \in Nat \ {0}
    <3>1. Len(history') \in Nat /\ Len(history') > 0 /\ DOMAIN history' = 1 .. Len(history')
      BY <1>3, EmptySeq
    <3>2. history'[1] \in Numbered
      BY <1>3, <3>1
    <3>3. QED
      BY <3>2 DEF FirstOf, Numbered
  <2>18. HealthInv'
    <3> SUFFICES ASSUME ~ journal.degraded PROVE HealthInv'
      BY <1>1 DEF HealthInv
    <3>1. /\ disk.end # "torn" /\ (~ journal.rewrite => disk.end = "clean")
          /\ journal.persisted = IF disk.lines = <<>> THEN 0 ELSE LastOf(disk.lines)
          /\ disk.lines # <<>> /\ history # <<>> => FirstOf(disk.lines) <= FirstOf(history)
      BY <2>1 DEF HealthInv
    <3>2. ASSUME disk.lines # <<>> PROVE FirstOf(disk.lines) <= FirstOf(history')
      <4>1. FirstOf(disk.lines) \in Nat /\ FirstOf(disk.lines) <= LastOf(disk.lines)
        <5>1. Len(disk.lines) \in Nat /\ Len(disk.lines) > 0 /\ disk.lines \in Seq(Numbered)
          BY <3>2, EmptySeq DEF TypeStore, Files
        <5>2. disk.lines[1] \in Numbered
          BY <5>1
        <5>3. disk.lines[Len(disk.lines)].sequence = disk.lines[1].sequence + Len(disk.lines) - 1
          BY <5>1 DEF DiskInv, Unbroken
        <5>4. disk.lines[1].sequence \in Nat
          BY <5>2 DEF Numbered
        <5>5. QED
          BY <5>1, <5>3, <5>4 DEF FirstOf, LastOf
      <4>2. CASE history = <<>>
        <5>1. Append(history, r) = <<r>> /\ Newest(<<r>>) = <<r>>
          BY <4>2, SizeAssumption DEF Newest
        <5>2. history' = <<r>>
          BY <1>1, <5>1 DEF r
        <5>3. FirstOf(history') = sequence + 1
          BY <1>2, <5>2 DEF FirstOf
        <5>4. journal.persisted = LastOf(disk.lines)
          BY <3>1, <3>2
        <5>5. QED
          BY <1>4, <2>2, <4>1, <5>3, <5>4
      <4>3. CASE history # <<>>
        BY <1>3, <2>16, <2>17, <3>1, <3>2, <4>1, <4>3
      <4>4. QED
        BY <4>2, <4>3
    <3>3. QED
      BY <1>1, <2>9, <3>1, <3>2 DEF HealthInv
  <2>19. WritingInv'
    <3> SUFFICES ASSUME writing # NoWrite PROVE WritingInv'
      BY <1>1 DEF WritingInv
    <3>1. WritingInv /\ writing.records \in Seq(Numbered) /\ writing.records # <<>> /\ tail # <<>>
      BY DEF TypeStore
    <3>2. /\ UNCHANGED <<writing, journal, epoch>> /\ tail'[1] = tail[1]
      BY <1>1, <2>9, <3>1
    <3>3. \A i \in DOMAIN writing.records :
            writing.records[i] \in Numbered /\ writing.records[i].sequence \in Nat \ {0}
      <4> TAKE i \in DOMAIN writing.records
      <4>1. writing.records[i] \in Numbered
        BY <3>1
      <4>2. QED
        BY <4>1 DEF Numbered
    <3>4. Agrees(writing.records, logs'[epoch])
      BY <2>7, <3>1, <3>3 DEF WritingInv, log
    <3>5. FirstOf(writing.records) \in Nat
      <4>1. 1 \in DOMAIN writing.records
        BY <3>1, EmptySeq
      <4>2. QED
        BY <3>3, <4>1 DEF FirstOf
    <3>6. writing.kind = "replace" => FirstOf(writing.records) <= FirstOf(history')
      <4> SUFFICES ASSUME writing.kind = "replace" PROVE FirstOf(writing.records) <= FirstOf(history')
        OBVIOUS
      <4>1. history # <<>> /\ FirstOf(writing.records) <= FirstOf(history)
        BY <3>1 DEF WritingInv
      <4>2. QED
        BY <1>3, <2>16, <2>17, <3>5, <4>1
    <3>7. /\ writing.kind # "none" /\ Unbroken(writing.records)
          /\ LastOf(writing.records) >= tail[1].sequence
          /\ writing.kind = "append" =>
               /\ ~ journal.degraded /\ ~ journal.rewrite
               /\ Len(writing.records) = 1 /\ FirstOf(writing.records) = journal.persisted + 1
      BY <3>1 DEF WritingInv
    <3>8. QED
      BY <1>3, <2>1, <3>2, <3>4, <3>6, <3>7 DEF WritingInv
  <2>20. QED
    BY <2>8, <2>10, <2>11, <2>13, <2>14, <2>15, <2>18, <2>19
<1>7. QED
  BY <1>5, <1>6

\* What a starting Host makes of the file and of what it published meanwhile.
LEMMA LoadLog ==
    ASSUME StoreOK, Load
    PROVE  \E R \in Nat, lg \in Seq(1 .. MaxEvents) :
             /\ R = IF disk.lines = <<>> THEN 0 ELSE LastOf(disk.lines)
             /\ sequence' = R + sequence
             /\ journal' = [persisted |-> R, degraded |-> disk.end = "torn", rewrite |-> disk.end # "clean"]
             /\ tail' = IF history = <<>> THEN <<>> ELSE <<[sequence |-> sequence', rewrite |-> TRUE]>>
             /\ logs' = Append(logs, lg) /\ Len(lg) = R + sequence
             /\ R > 0 => Len(logs) > 0 /\ R <= Len(logs[Len(logs)])
             /\ \A i \in 1 .. R : lg[i] = logs[Len(logs)][i]
             /\ \A i \in 1 .. sequence : lg[R + i] = published - sequence + i
             /\ disk.lines # <<>> => Agrees(disk.lines, lg) /\ \A i \in DOMAIN disk.lines :
                  disk.lines[i].sequence \in FirstOf(disk.lines) .. R
<1> USE DEF StoreOK, StoreInv
<1> DEFINE R == IF disk.lines = <<>> THEN 0 ELSE LastOf(disk.lines)
           moved == [i \in DOMAIN history |->
                       Record(history[i].sequence + ReadJournal.sequence, history[i].event)]
           before == IF epoch = 1 THEN <<>> ELSE SubSeq(logs[epoch - 1], 1, ReadJournal.sequence)
           new == [i \in 1 .. sequence |-> published - sequence + i]
           old == logs[epoch - 1]
<1>1. /\ stage = "loading" /\ stage' = "ready" /\ sequence' = ReadJournal.sequence + sequence
      /\ tail' = IF moved = <<>> THEN <<>> ELSE <<[sequence |-> sequence', rewrite |-> TRUE]>>
      /\ journal' = [persisted |-> ReadJournal.sequence, degraded |-> ReadJournal.degraded,
                     rewrite |-> ReadJournal.rewrite]
      /\ logs' = Append(logs, before \o new)
  BY DEF Load
<1>2. /\ ReadJournal.sequence = R /\ ReadJournal.degraded = (disk.end = "torn")
      /\ ReadJournal.rewrite = (disk.end # "clean")
  BY Reading DEF TypeStore, Files, DiskInv
<1>3. /\ Len(logs) = epoch - 1 /\ epoch \in Nat /\ epoch > 0 /\ sequence \in Nat /\ published \in Nat
      /\ sequence <= published /\ published <= MaxEvents /\ MaxEvents \in Nat
      /\ history = <<>> => sequence = 0
  BY <1>1, BoundAssumption DEF LogsInv, LoadingInv, TypeServer
<1>4. disk.lines # <<>> =>
        /\ Len(logs) > 0 /\ Agrees(disk.lines, old) /\ R <= Len(old) /\ R \in Nat
        /\ \A i \in DOMAIN disk.lines :
             disk.lines[i].sequence \in FirstOf(disk.lines) .. R /\ disk.lines[i].sequence > 0
  <2> SUFFICES ASSUME disk.lines # <<>>
               PROVE  /\ Len(logs) > 0 /\ Agrees(disk.lines, old) /\ R <= Len(old) /\ R \in Nat
                      /\ \A i \in DOMAIN disk.lines :
                           /\ disk.lines[i].sequence \in FirstOf(disk.lines) .. R
                           /\ disk.lines[i].sequence > 0
    OBVIOUS
  <2>1. /\ disk.lines \in Seq(Numbered) /\ Unbroken(disk.lines)
        /\ Len(logs) > 0 /\ Agrees(disk.lines, old)
    BY <1>3 DEF TypeStore, Files, DiskInv
  <2>2. Len(disk.lines) \in Nat /\ Len(disk.lines) > 0 /\ DOMAIN disk.lines = 1 .. Len(disk.lines)
    BY <2>1, EmptySeq
  <2>3. \A i \in DOMAIN disk.lines : disk.lines[i].sequence \in Nat \ {0}
    <3> TAKE i \in DOMAIN disk.lines
    <3>1. disk.lines[i] \in Numbered
      BY <2>1
    <3>2. QED
      BY <3>1 DEF Numbered
  <2>4. R = disk.lines[Len(disk.lines)].sequence /\ Len(disk.lines) \in DOMAIN disk.lines /\ 1 \in DOMAIN disk.lines
    BY <2>2 DEF LastOf
  <2>5. R \in Nat /\ R <= Len(old)
    BY <2>1, <2>3, <2>4 DEF Agrees
  <2>6. R = disk.lines[1].sequence + Len(disk.lines) - 1
    BY <2>1, <2>4 DEF Unbroken
  <2> HIDE DEF R
  <2>7. ASSUME NEW i \in DOMAIN disk.lines
        PROVE  disk.lines[i].sequence \in FirstOf(disk.lines) .. R /\ disk.lines[i].sequence > 0
    <3>1. disk.lines[i].sequence = disk.lines[1].sequence + i - 1
      BY <2>1, <2>7 DEF Unbroken
    <3>2. disk.lines[i].sequence \in Nat \ {0} /\ disk.lines[1].sequence \in Nat \ {0}
      BY <2>3, <2>4, <2>7
    <3>3. i \in 1 .. Len(disk.lines)
      BY <2>2, <2>7
    <3>4. i \in Nat /\ 1 <= i /\ i <= Len(disk.lines)
      BY <2>2, <3>3
    <3>5. disk.lines[1].sequence <= disk.lines[i].sequence /\ disk.lines[i].sequence <= R
      BY <2>2, <2>6, <3>1, <3>2, <3>4
    <3>6. QED
      BY <2>5, <3>2, <3>5 DEF FirstOf
  <2>8. QED
    BY <2>1, <2>5, <2>7
<1>5. R \in Nat /\ (R > 0 => Len(logs) > 0 /\ R <= Len(old))
  BY <1>4
<1>6. moved = <<>> <=> history = <<>>
  <2>1. DOMAIN history = 1 .. Len(history) /\ Len(history) \in Nat
    BY Window
  <2>2. history = <<>> <=> DOMAIN history = {}
    BY <2>1, EmptySeq DEF TypeServer
  <2>3. DOMAIN moved = DOMAIN history
    OBVIOUS
  <2>4. moved = <<>> => DOMAIN history = {}
    BY <2>3
  <2>5. history = <<>> => moved = <<>>
    BY <2>2
  <2>6. QED
    BY <2>2, <2>4, <2>5
<1>7. /\ before \in Seq(1 .. MaxEvents) /\ Len(before) = R
      /\ \A i \in 1 .. R : before[i] = old[i]
  <2>1. CASE epoch = 1
    <3>1. R = 0 /\ before = <<>>
      BY <1>3, <1>5, <2>1
    <3>2. before \in Seq(1 .. MaxEvents) /\ Len(before) = 0
      BY <3>1, EmptySeq
    <3>3. 1 .. R = {}
      BY <3>1
    <3>4. QED
      BY <3>1, <3>2, <3>3
  <2>2. CASE epoch # 1
    <3>1. epoch - 1 \in DOMAIN logs
      BY <1>3, <2>2, LogTypes
    <3>2. old \in Seq(1 .. MaxEvents) /\ \A i \in DOMAIN old : old[i] \in 1 .. MaxEvents
      BY <3>1, LogTypes
    <3>3. DOMAIN old = 1 .. Len(old) /\ Len(old) \in Nat /\ R <= Len(old)
      BY <1>5, <3>2
    <3>4. \A i \in 1 .. R : old[i] \in 1 .. MaxEvents
      BY <1>5, <3>2, <3>3
    <3>5. before = SubSeq(old, 1, R)
      BY <1>2, <2>2
    <3> HIDE DEF R, old, before
    <3>6. /\ before \in Seq(1 .. MaxEvents) /\ Len(before) = IF 1 <= R THEN R - 1 + 1 ELSE 0
          /\ \A i \in 1 .. R - 1 + 1 : before[i] = old[1 + i - 1]
      BY <1>5, <3>4, <3>5, SubSeqProperties
    <3>7. R - 1 + 1 = R /\ \A i \in 1 .. R : 1 + i - 1 = i
      BY <1>5
    <3>8. QED
      BY <1>5, <3>6, <3>7
  <2>3. QED
    BY <2>1, <2>2
<1>8. /\ new \in Seq(1 .. MaxEvents) /\ Len(new) = sequence
      /\ \A i \in 1 .. sequence : new[i] = published - sequence + i
  <2>1. \A i \in 1 .. sequence : published - sequence + i \in 1 .. MaxEvents
    BY <1>3
  <2>2. new \in Seq(1 .. MaxEvents)
    BY <1>3, <2>1, IsASeq
  <2>3. QED
    BY <1>3, <2>2
<1> DEFINE lg == before \o new
<1>9. /\ lg \in Seq(1 .. MaxEvents) /\ Len(lg) = R + sequence
      /\ \A i \in 1 .. R : lg[i] = old[i]
      /\ \A i \in 1 .. sequence : lg[R + i] = published - sequence + i
  <2> HIDE DEF before, new, R, old
  <2>1. /\ lg \in Seq(1 .. MaxEvents) /\ Len(lg) = Len(before) + Len(new)
        /\ \A i \in 1 .. Len(before) + Len(new) :
             lg[i] = IF i <= Len(before) THEN before[i] ELSE new[i - Len(before)]
    BY <1>7, <1>8, ConcatProperties
  <2> HIDE DEF lg
  <2>2. \A i \in 1 .. R : lg[i] = old[i]
    BY <1>3, <1>5, <1>7, <1>8, <2>1
  <2>3. ASSUME NEW i \in 1 .. sequence PROVE lg[R + i] = published - sequence + i
    <3>1. R + i \in 1 .. R + sequence /\ ~(R + i <= R) /\ (R + i) - R = i
      BY <1>3, <1>5, <2>3
    <3>2. lg[R + i] = new[i]
      BY <1>7, <1>8, <2>1, <3>1
    <3>3. QED
      BY <1>8, <2>3, <3>2
  <2>4. QED
    BY <1>7, <1>8, <2>1, <2>2, <2>3
<1>10. disk.lines # <<>> => Agrees(disk.lines, lg)
  <2> HIDE DEF lg, R, old
  <2> SUFFICES ASSUME disk.lines # <<>>, NEW i \in DOMAIN disk.lines
               PROVE  /\ disk.lines[i].sequence <= Len(lg)
                      /\ lg[disk.lines[i].sequence] = disk.lines[i].event
    BY DEF Agrees
  <2>1. /\ disk.lines[i].sequence \in FirstOf(disk.lines) .. R /\ disk.lines[i].sequence > 0
        /\ old[disk.lines[i].sequence] = disk.lines[i].event
    BY <1>4 DEF Agrees
  <2>2. disk.lines[i].sequence \in 1 .. R
    BY <1>5, <2>1
  <2>3. R <= Len(lg)
    BY <1>3, <1>5, <1>9
  <2>4. disk.lines[i].sequence <= Len(lg)
    BY <1>3, <1>5, <1>9, <2>2, <2>3
  <2>5. lg[disk.lines[i].sequence] = old[disk.lines[i].sequence]
    BY <1>9, <2>2
  <2>6. QED
    BY <2>1, <2>4, <2>5
<1>11. logs[Len(logs)] = old
  BY <1>3, Zenon
<1>12. R = IF disk.lines = <<>> THEN 0 ELSE LastOf(disk.lines)
  OBVIOUS
<1>13. logs' = Append(logs, lg)
  BY <1>1 DEF lg
<1> HIDE DEF lg, old, moved, R
<1>14. /\ R \in Nat /\ lg \in Seq(1 .. MaxEvents)
       /\ R = IF disk.lines = <<>> THEN 0 ELSE LastOf(disk.lines)
       /\ sequence' = R + sequence
       /\ journal' = [persisted |-> R, degraded |-> disk.end = "torn", rewrite |-> disk.end # "clean"]
       /\ tail' = IF history = <<>> THEN <<>> ELSE <<[sequence |-> sequence', rewrite |-> TRUE]>>
       /\ logs' = Append(logs, lg) /\ Len(lg) = R + sequence
       /\ R > 0 => Len(logs) > 0 /\ R <= Len(logs[Len(logs)])
       /\ \A i \in 1 .. R : lg[i] = logs[Len(logs)][i]
       /\ \A i \in 1 .. sequence : lg[R + i] = published - sequence + i
       /\ disk.lines # <<>> => Agrees(disk.lines, lg) /\ \A i \in DOMAIN disk.lines :
            disk.lines[i].sequence \in FirstOf(disk.lines) .. R
  BY <1>1, <1>2, <1>4, <1>5, <1>6, <1>9, <1>10, <1>11, <1>12, <1>13
<1>15. QED
  BY <1>14

\* The window of a Host that has loaded: the journal's records and its own, or
\* its own only.
LEMMA LoadWindow ==
    ASSUME StoreOK, Load, NEW R \in Nat, R = IF disk.lines = <<>> THEN 0 ELSE LastOf(disk.lines)
    PROVE  /\ history' \in Seq(Numbered) /\ Len(history') <= HistoryLimit
           /\ \A i \in DOMAIN history' : history'[i].sequence = R + sequence - Len(history') + i
           /\ \A i \in DOMAIN history' :
                \/ disk.lines # <<>> /\ \E j \in DOMAIN disk.lines : history'[i] = disk.lines[j]
                \/ \E j \in DOMAIN history :
                     history'[i] = Record(history[j].sequence + R, history[j].event)
<1> USE DEF StoreOK, StoreInv
<1> DEFINE lines == disk.lines
           moved == [i \in DOMAIN history |-> Record(history[i].sequence + R, history[i].event)]
           kept == IF sequence = Len(history) THEN ReadJournal.records ELSE <<>>
           c == kept \o moved
<1>1. /\ ReadJournal.sequence = R
      /\ ReadJournal.records = IF disk.end = "torn" THEN <<>> ELSE Newest(lines)
  BY Reading DEF TypeStore, Files, DiskInv
<1>2. stage = "loading" /\ history' = Newest(c)
  BY <1>1 DEF Load
<1>3. /\ history \in Seq(Numbered) /\ Len(history) \in Nat /\ DOMAIN history = 1 .. Len(history)
      /\ sequence \in Nat /\ HistoryLimit \in Nat \ {0}
      /\ \A i \in DOMAIN history :
           /\ history[i].sequence = sequence - Len(history) + i
           /\ history[i] \in Numbered /\ history[i].sequence \in Nat \ {0}
  BY Window, SizeAssumption DEF TypeServer
<1>4. /\ lines \in Seq(Numbered) /\ Unbroken(lines) /\ Len(lines) \in Nat
      /\ DOMAIN lines = 1 .. Len(lines) /\ (lines # <<>> => Len(lines) > 0)
  <2>1. lines \in Seq(Numbered) /\ Unbroken(lines)
    BY DEF TypeStore, Files, DiskInv
  <2>2. QED
    BY <2>1, EmptySeq
<1>5. \A i \in DOMAIN lines : lines[i].sequence = R - Len(lines) + i
  <2> TAKE i \in DOMAIN lines
  <2>1. 1 \in DOMAIN lines /\ Len(lines) \in DOMAIN lines /\ lines # <<>>
    BY <1>4
  <2>2. lines[1] \in Numbered
    BY <1>4, <2>1
  <2>3. lines[1].sequence \in Nat
    BY <2>2 DEF Numbered
  <2>4. R = lines[1].sequence + Len(lines) - 1
    BY <1>4, <2>1 DEF Unbroken, LastOf
  <2>5. lines[i].sequence = lines[1].sequence + i - 1
    BY <1>4 DEF Unbroken
  <2>6. PICK x \in Nat, l \in Nat, y \in Nat : x = lines[1].sequence /\ l = Len(lines) /\ y = i
    BY <1>4, <2>3
  <2>7. x + y - 1 = (x + l - 1) - l + y
    OBVIOUS
  <2>8. QED
    BY <2>4, <2>5, <2>6, <2>7
<1>6. /\ moved \in Seq(Numbered) /\ Len(moved) = Len(history)
      /\ \A i \in 1 .. Len(history) :
           /\ moved[i] = Record(history[i].sequence + R, history[i].event)
           /\ moved[i].sequence = history[i].sequence + R
  <2>1. \A i \in 1 .. Len(history) : Record(history[i].sequence + R, history[i].event) \in Numbered
    <3> TAKE i \in 1 .. Len(history)
    <3>1. history[i] \in Numbered /\ history[i].sequence \in Nat \ {0}
      BY <1>3
    <3>2. history[i].event \in 1 .. MaxEvents
      BY <3>1 DEF Numbered
    <3>3. history[i].sequence + R \in Nat \ {0}
      BY <3>1
    <3>4. QED
      BY <3>2, <3>3 DEF Record, Numbered
  <2>2. moved = [i \in 1 .. Len(history) |-> Record(history[i].sequence + R, history[i].event)]
    BY <1>3
  <2>3. moved \in Seq(Numbered)
    BY <1>3, <2>1, <2>2, IsASeq
  <2>4. Len(moved) = Len(history)
    BY <1>3, <2>2, <2>3
  <2>5. QED
    BY <2>2, <2>3, <2>4 DEF Record
<1>7. /\ kept \in Seq(Numbered) /\ Len(kept) \in Nat
      /\ Len(kept) > 0 => sequence = Len(history) /\ lines # <<>>
      /\ \A i \in 1 .. Len(kept) :
           /\ kept[i].sequence = R - Len(kept) + i
           /\ lines # <<>> /\ \E j \in DOMAIN lines : kept[i] = lines[j]
  <2>1. CASE kept = <<>>
    <3>1. kept \in Seq(Numbered) /\ Len(kept) = 0
      BY <2>1, EmptySeq
    <3>2. 1 .. Len(kept) = {}
      BY <3>1
    <3>3. QED
      BY <3>1, <3>2
  <2>2. CASE kept # <<>>
    <3>1. sequence = Len(history) /\ kept = Newest(lines)
      BY <1>1, <2>2
    <3> HIDE DEF kept
    <3>2. /\ kept \in Seq(Numbered)
          /\ Len(kept) = IF Len(lines) > HistoryLimit THEN HistoryLimit ELSE Len(lines)
          /\ \A i \in 1 .. Len(kept) : kept[i] = lines[Len(lines) - Len(kept) + i]
      BY <1>4, <3>1, NewestProps
    <3>3. Len(kept) \in Nat /\ Len(kept) <= Len(lines) /\ Len(kept) > 0
      BY <1>3, <1>4, <2>2, <3>2, EmptySeq
    <3>4. lines # <<>>
      BY <1>4, <3>3, EmptySeq
    <3>5. ASSUME NEW i \in 1 .. Len(kept)
          PROVE  kept[i].sequence = R - Len(kept) + i /\ \E j \in DOMAIN lines : kept[i] = lines[j]
      <4>1. Len(lines) - Len(kept) + i \in DOMAIN lines
        BY <1>4, <3>3, <3>5
      <4>2. kept[i] = lines[Len(lines) - Len(kept) + i]
        BY <3>2, <3>5
      <4>3. kept[i].sequence = R - Len(lines) + (Len(lines) - Len(kept) + i)
        BY <1>5, <4>1, <4>2
      <4>4. R - Len(lines) + (Len(lines) - Len(kept) + i) = R - Len(kept) + i
        BY <1>4, <3>3
      <4>5. QED
        BY <4>1, <4>2, <4>3, <4>4
    <3>6. QED
      BY <3>1, <3>2, <3>3, <3>4, <3>5
  <2>3. QED
    BY <2>1, <2>2
<1> HIDE DEF kept, moved
<1>8. /\ c \in Seq(Numbered) /\ Len(c) = Len(kept) + Len(history)
      /\ \A i \in 1 .. Len(kept) + Len(history) :
           c[i] = IF i <= Len(kept) THEN kept[i] ELSE moved[i - Len(kept)]
  <2>1. /\ c \in Seq(Numbered) /\ Len(c) = Len(kept) + Len(moved)
        /\ \A i \in 1 .. Len(kept) + Len(moved) :
             c[i] = IF i <= Len(kept) THEN kept[i] ELSE moved[i - Len(kept)]
    <3>1. kept \in Seq(Numbered) /\ moved \in Seq(Numbered)
      BY <1>6, <1>7
    <3>2. QED
      BY <3>1, ConcatProperties
  <2>2. Len(moved) = Len(history)
    BY <1>6
  <2> HIDE DEF c
  <2>3. QED
    BY <2>1, <2>2, Zenon
<1> HIDE DEF c
<1>len. /\ Len(kept) \in Nat /\ Len(history) \in Nat /\ sequence \in Nat /\ Len(c) \in Nat
        /\ Len(c) = Len(kept) + Len(history)
  <2>1. Len(kept) \in Nat /\ Len(history) \in Nat /\ sequence \in Nat
    BY <1>3, <1>7, Zenon
  <2>2. Len(c) = Len(kept) + Len(history)
    BY <1>8, Zenon
  <2>3. QED
    BY <2>1, <2>2
<1>9. ASSUME NEW i \in 1 .. Len(c)
      PROVE  /\ c[i].sequence = R + sequence - Len(c) + i
             /\ \/ lines # <<>> /\ \E j \in DOMAIN lines : c[i] = lines[j]
                \/ \E j \in DOMAIN history : c[i] = Record(history[j].sequence + R, history[j].event)
  <2>1. CASE i <= Len(kept)
    <3>1. c[i] = kept[i] /\ i \in 1 .. Len(kept) /\ sequence = Len(history)
      BY <1>3, <1>7, <1>8, <1>9, <2>1
    <3>2. QED
      BY <1>3, <1>7, <1>8, <3>1
  <2>2. CASE ~(i <= Len(kept))
    <3>1. i - Len(kept) \in 1 .. Len(history) /\ c[i] = moved[i - Len(kept)]
      <4>1. Len(kept) \in Nat /\ Len(history) \in Nat /\ i \in 1 .. Len(kept) + Len(history)
        BY <1>3, <1>7, <1>8, <1>9
      <4>2. c[i] = moved[i - Len(kept)]
        BY <1>8, <2>2, <4>1
      <4>3. QED
        BY <2>2, <4>1, <4>2
    <3>2. /\ c[i].sequence = history[i - Len(kept)].sequence + R
          /\ \E j \in DOMAIN history : c[i] = Record(history[j].sequence + R, history[j].event)
      BY <1>3, <1>6, <3>1
    <3>3. history[i - Len(kept)].sequence = sequence - Len(history) + (i - Len(kept))
      BY <1>3, <3>1
    <3>4. i \in 1 .. Len(c)
      BY <1>9
    <3>5. c[i].sequence = R + sequence - Len(c) + i
      BY <1>len, <3>2, <3>3, <3>4
    <3>6. QED
      BY <3>2, <3>5
  <2>3. QED
    BY <2>1, <2>2
<1>10. /\ history' \in Seq(Numbered)
       /\ Len(history') = IF Len(c) > HistoryLimit THEN HistoryLimit ELSE Len(c)
       /\ \A i \in 1 .. Len(history') : history'[i] = c[Len(c) - Len(history') + i]
  BY <1>2, <1>8, NewestProps
<1>11. /\ Len(history') \in Nat /\ Len(history') <= HistoryLimit /\ Len(history') <= Len(c)
       /\ Len(c) \in Nat /\ DOMAIN history' = 1 .. Len(history')
  <2>1. Len(c) \in Nat
    BY <1>len
  <2>2. DOMAIN history' = 1 .. Len(history') /\ Len(history') \in Nat
    BY <1>10, LenProperties
  <2>3. QED
    BY <1>3, <1>10, <2>1, <2>2
<1>12. ASSUME NEW i \in DOMAIN history'
       PROVE  /\ history'[i].sequence = R + sequence - Len(history') + i
              /\ \/ lines # <<>> /\ \E j \in DOMAIN lines : history'[i] = lines[j]
                 \/ \E j \in DOMAIN history :
                      history'[i] = Record(history[j].sequence + R, history[j].event)
  <2>1. Len(c) - Len(history') + i \in 1 .. Len(c) /\ i \in 1 .. Len(history')
    BY <1>11, <1>12
  <2>2. history'[i] = c[Len(c) - Len(history') + i]
    BY <1>10, <2>1
  <2>3. history'[i].sequence = R + sequence - Len(c) + (Len(c) - Len(history') + i)
    BY <1>9, <2>1, <2>2
  <2>4. R + sequence - Len(c) + (Len(c) - Len(history') + i) = R + sequence - Len(history') + i
    BY <1>3, <1>11, <2>1
  <2>5. QED
    BY <1>9, <2>1, <2>2, <2>3, <2>4
<1>13. QED
  BY <1>10, <1>11, <1>12

LEMMA LoadStore == ASSUME StoreOK, Load PROVE StoreOK'
<1> USE DEF StoreOK, StoreInv
<1>1. /\ stage = "loading" /\ stage' = "ready"
      /\ UNCHANGED <<epoch, writing, disk, published, excused>>
  BY DEF Load
<1>2. PICK R \in Nat, lg \in Seq(1 .. MaxEvents) :
        /\ R = IF disk.lines = <<>> THEN 0 ELSE LastOf(disk.lines)
        /\ sequence' = R + sequence
        /\ journal' = [persisted |-> R, degraded |-> disk.end = "torn", rewrite |-> disk.end # "clean"]
        /\ tail' = IF history = <<>> THEN <<>> ELSE <<[sequence |-> sequence', rewrite |-> TRUE]>>
        /\ logs' = Append(logs, lg) /\ Len(lg) = R + sequence
        /\ R > 0 => Len(logs) > 0 /\ R <= Len(logs[Len(logs)])
        /\ \A i \in 1 .. R : lg[i] = logs[Len(logs)][i]
        /\ \A i \in 1 .. sequence : lg[R + i] = published - sequence + i
        /\ disk.lines # <<>> => Agrees(disk.lines, lg) /\ \A i \in DOMAIN disk.lines :
             disk.lines[i].sequence \in FirstOf(disk.lines) .. R
  BY LoadLog
<1>3. /\ history' \in Seq(Numbered) /\ Len(history') <= HistoryLimit
      /\ \A i \in DOMAIN history' : history'[i].sequence = R + sequence - Len(history') + i
      /\ \A i \in DOMAIN history' :
           \/ disk.lines # <<>> /\ \E j \in DOMAIN disk.lines : history'[i] = disk.lines[j]
           \/ \E j \in DOMAIN history :
                history'[i] = Record(history[j].sequence + R, history[j].event)
  BY <1>2, LoadWindow
<1>4. /\ Len(logs) = epoch - 1 /\ epoch \in Nat /\ epoch > 0 /\ sequence \in Nat /\ published \in Nat
      /\ sequence <= published /\ tail = <<>> /\ writing = NoWrite
      /\ history = <<>> => sequence = 0
      /\ \A i \in DOMAIN history :
           /\ history[i].event = published - sequence + history[i].sequence
           /\ history[i].sequence \in 1 .. sequence
  <2>1. ASSUME NEW i \in DOMAIN history PROVE history[i].sequence \in 1 .. sequence
    <3>1. /\ history[i].sequence = sequence - Len(history) + i /\ history[i].sequence \in Nat \ {0}
          /\ Len(history) \in Nat /\ i \in 1 .. Len(history) /\ sequence \in Nat
      BY <2>1, Window DEF TypeServer
    <3>2. QED
      BY <3>1
  <2>2. QED
    BY <1>1, <2>1 DEF LogsInv, LoadingInv, TypeServer
<1>5. /\ logs' \in Seq(Seq(1 .. MaxEvents)) /\ Len(logs') = epoch /\ DOMAIN logs' = 1 .. epoch
      /\ \A e \in 1 .. epoch - 1 : logs'[e] = logs[e]
      /\ logs'[epoch] = lg
  <2>1. logs \in Seq(Seq(1 .. MaxEvents)) /\ logs' = Append(logs, lg)
    BY <1>2 DEF TypeServer
  <2>2. /\ logs' \in Seq(Seq(1 .. MaxEvents)) /\ Len(logs') = Len(logs) + 1
        /\ \A e \in 1 .. Len(logs) : logs'[e] = logs[e]
        /\ logs'[Len(logs) + 1] = lg
    BY <2>1, AppendProperties
  <2>3. QED
    BY <1>4, <2>2
<1>6. TypeServer'
  BY <1>1, <1>2, <1>3, <1>4, <1>5 DEF TypeServer
<1>7. Agrees(history', lg)
  <2> SUFFICES ASSUME NEW i \in DOMAIN history'
               PROVE  history'[i].sequence <= Len(lg) /\ lg[history'[i].sequence] = history'[i].event
    BY DEF Agrees
  <2>1. ASSUME disk.lines # <<>>, NEW j \in DOMAIN disk.lines, history'[i] = disk.lines[j]
        PROVE  history'[i].sequence <= Len(lg) /\ lg[history'[i].sequence] = history'[i].event
    BY <1>2, <2>1 DEF Agrees
  <2>2. ASSUME NEW j \in DOMAIN history,
               history'[i] = Record(history[j].sequence + R, history[j].event)
        PROVE  history'[i].sequence <= Len(lg) /\ lg[history'[i].sequence] = history'[i].event
    <3>1. history'[i].sequence = history[j].sequence + R /\ history'[i].event = history[j].event
      BY <2>2 DEF Record
    <3>2. /\ history[j].event = published - sequence + history[j].sequence
          /\ history[j].sequence \in 1 .. sequence
      BY <1>4
    <3>3. history[j].sequence + R = R + history[j].sequence
      BY <3>2
    <3>4. lg[R + history[j].sequence] = published - sequence + history[j].sequence
      BY <1>2, <3>2
    <3>5. QED
      BY <1>2, <1>4, <3>1, <3>2, <3>3, <3>4
  <2>3. QED
    BY <1>3, <2>1, <2>2
<1>8. tail' \in Seq([sequence : Nat \ {0}, rewrite : BOOLEAN])
  <2>1. CASE history = <<>>
    BY <1>2, <2>1, EmptySeq
  <2>2. CASE history # <<>>
    <3>1. history[1].sequence \in 1 .. sequence
      <4>1. 1 \in DOMAIN history
        BY <2>2, Window
      <4>2. QED
        BY <1>4, <4>1
    <3>2. sequence' \in Nat \ {0}
      BY <1>2, <1>4, <3>1
    <3>3. tail' = <<[sequence |-> sequence', rewrite |-> TRUE]>>
      BY <1>2, <2>2
    <3>4. QED
      BY <3>2, <3>3
  <2>3. QED
    BY <2>1, <2>2
<1>9. TypeStore'
  BY <1>1, <1>2, <1>4, <1>8 DEF TypeStore, Files
<1>10. LogsInv'
  <2>1. ASSUME NEW e \in DOMAIN logs', NEW i \in DOMAIN logs'[e] PROVE logs'[e][i] <= published
    <3>1. \A f \in DOMAIN logs : \A k \in DOMAIN logs[f] : logs[f][k] \in Nat /\ logs[f][k] <= published
      BY LogTypes DEF LogsInv
    <3>2. CASE e # epoch
      <4>1. e \in DOMAIN logs /\ logs'[e] = logs[e]
        BY <1>4, <1>5, <2>1, <3>2, LogTypes
      <4>2. QED
        BY <2>1, <3>1, <4>1
    <3>3. CASE e = epoch
      <4>1. DOMAIN lg = 1 .. R + sequence /\ i \in DOMAIN lg
        BY <1>2, <1>4, <1>5, <2>1, <3>3
      <4>2. CASE i \in 1 .. R
        <5>1. /\ Len(logs) \in DOMAIN logs /\ i \in DOMAIN logs[Len(logs)]
              /\ lg[i] = logs[Len(logs)][i]
          BY <1>2, <4>2, LogTypes
        <5>2. QED
          BY <1>5, <3>1, <3>3, <5>1
      <4>3. CASE i \in R + 1 .. R + sequence
        <5>1. i - R \in 1 .. sequence /\ R + (i - R) = i
          BY <1>4, <4>3
        <5>2. lg[i] = published - sequence + (i - R)
          BY <1>2, <5>1
        <5>3. QED
          BY <1>4, <1>5, <3>3, <5>1, <5>2
      <4>4. QED
        BY <1>4, <4>1, <4>2, <4>3
    <3>4. QED
      BY <3>2, <3>3
  <2>2. QED
    BY <1>1, <1>4, <1>5, <2>1 DEF LogsInv
<1>11. NumberInv'
  <2>1. \A i \in DOMAIN tail' : tail'[i].sequence = sequence' - Len(tail') + i
    BY <1>2, <1>4
  <2>2. journal'.persisted <= sequence'
    BY <1>2, <1>4
  <2>3. QED
    BY <1>1, <1>2, <1>5, <1>7, <2>1, <2>2 DEF NumberInv
<1>12. LoadingInv' /\ WritingInv'
  BY <1>1, <1>4 DEF LoadingInv, WritingInv
<1>13. DiskInv'
  BY <1>1, <1>2, <1>4, <1>5 DEF DiskInv
<1>14. HealthInv'
  <2> SUFFICES ASSUME ~ journal'.degraded PROVE HealthInv'
    BY DEF HealthInv
  <2>1. disk.end # "torn" /\ (~ journal'.rewrite => disk.end = "clean") /\ journal'.persisted = R
    BY <1>2
  <2>2. ASSUME disk.lines # <<>>, history' # <<>> PROVE FirstOf(disk.lines) <= FirstOf(history')
    <3>1. 1 \in DOMAIN history'
      BY <1>3, <2>2, EmptySeq
    <3>2. ASSUME NEW j \in DOMAIN disk.lines, history'[1] = disk.lines[j]
          PROVE  FirstOf(disk.lines) <= FirstOf(history')
      BY <1>2, <2>2, <3>2 DEF FirstOf
    <3>3. ASSUME NEW j \in DOMAIN history,
                 history'[1] = Record(history[j].sequence + R, history[j].event)
          PROVE  FirstOf(disk.lines) <= FirstOf(history')
      <4>1. FirstOf(history') = history[j].sequence + R
        BY <3>3 DEF FirstOf, Record
      <4>2. history[j].sequence \in Nat
        BY <3>3, Window
      <4>3. FirstOf(disk.lines) \in Nat /\ FirstOf(disk.lines) <= R
        <5>1. 1 \in DOMAIN disk.lines /\ disk.lines[1] \in Numbered
          BY <2>2, EmptySeq DEF TypeStore, Files
        <5>2. disk.lines[1].sequence \in Nat
          BY <5>1 DEF Numbered
        <5>3. disk.lines[1].sequence \in FirstOf(disk.lines) .. R
          BY <1>2, <2>2, <5>1
        <5>4. QED
          BY <5>2, <5>3 DEF FirstOf
      <4>4. QED
        BY <4>1, <4>2, <4>3
    <3>4. QED
      BY <1>3, <3>1, <3>2, <3>3
  <2>3. tail' = <<>> => journal'.persisted = sequence'
    BY <1>2, <1>4
  <2>4. QED
    BY <1>1, <1>2, <2>1, <2>2, <2>3 DEF HealthInv
<1>15. QED
  BY <1>6, <1>9, <1>10, <1>11, <1>12, <1>13, <1>14


\* What the invariant says of the journal is what the runs check of it.
LEMMA RecoverableStore == ASSUME StoreOK PROVE JournalRecoverable
<1> USE DEF StoreOK, StoreInv
<1> DEFINE lines == disk.lines
           records == Newest(lines)
<1> SUFFICES ASSUME stage \in {"ready", "closing", "flushing"}, writing = NoWrite, ~ journal.degraded
             PROVE  LET read == ReadJournal
                    IN  /\ read.sequence = journal.persisted
                        /\ \A i \in DOMAIN history :
                             history[i].sequence <= read.sequence =>
                               \E j \in DOMAIN read.records : read.records[j] = history[i]
                        /\ \A j \in DOMAIN read.records :
                             logs[epoch][read.records[j].sequence] = read.records[j].event
                        /\ tail = <<>> => journal.persisted = sequence
  BY DEF JournalRecoverable
<1>1. Live
  BY DEF Live
<1>2. /\ disk.end # "torn" /\ (tail = <<>> => journal.persisted = sequence)
      /\ journal.persisted = IF lines = <<>> THEN 0 ELSE LastOf(lines)
      /\ lines # <<>> /\ history # <<>> => FirstOf(lines) <= FirstOf(history)
  BY <1>1 DEF HealthInv
<1>3. lines \in Seq(Numbered) /\ Unbroken(lines) /\ disk \in Files
  BY DEF TypeStore, Files, DiskInv
<1>4. ReadJournal.sequence = journal.persisted /\ ReadJournal.records = records
  BY <1>2, <1>3, Reading DEF Files
<1>5. /\ journal.persisted <= sequence /\ Agrees(history, logs[epoch])
      /\ lines # <<>> => Agrees(lines, logs[epoch])
  BY <1>1 DEF NumberInv, DiskInv, LogsInv, Live
<1>6. /\ Len(lines) \in Nat /\ DOMAIN lines = 1 .. Len(lines)
      /\ \A k \in DOMAIN lines : lines[k] \in Numbered
  BY <1>3
<1>7. /\ records \in Seq(Numbered)
      /\ Len(records) = IF Len(lines) > HistoryLimit THEN HistoryLimit ELSE Len(lines)
      /\ \A j \in 1 .. Len(records) : records[j] = lines[Len(lines) - Len(records) + j]
  BY <1>3, NewestProps
<1>8. Len(records) \in Nat /\ DOMAIN records = 1 .. Len(records) /\ HistoryLimit \in Nat \ {0}
  BY <1>7, SizeAssumption
<1> HIDE DEF lines, records
<1>9. ASSUME NEW j \in DOMAIN records
      PROVE  logs[epoch][records[j].sequence] = records[j].event
  <2> DEFINE k == Len(lines) - Len(records) + j
  <2>1. k \in DOMAIN lines /\ records[j] = lines[k]
    <3>1. j \in 1 .. Len(records) /\ Len(records) <= Len(lines)
      BY <1>6, <1>7, <1>8, <1>9
    <3>2. k \in 1 .. Len(lines)
      BY <1>6, <1>8, <3>1
    <3>3. QED
      BY <1>6, <1>7, <3>1, <3>2
  <2>2. lines # <<>>
    BY <2>1
  <2>3. QED
    BY <1>5, <2>1, <2>2 DEF Agrees
<1>10. ASSUME NEW i \in DOMAIN history, history[i].sequence <= journal.persisted
       PROVE  \E j \in DOMAIN records : records[j] = history[i]
  <2> DEFINE n == history[i].sequence
             f == lines[1].sequence
             k == n - f + 1
             j == k - (Len(lines) - Len(records))
  <2>1. /\ n = sequence - Len(history) + i /\ Len(history) <= HistoryLimit /\ sequence \in Nat
        /\ Len(history) \in Nat /\ i \in 1 .. Len(history) /\ n \in Nat \ {0}
        /\ FirstOf(history) = sequence - Len(history) + 1 /\ history # <<>>
        /\ history[i] \in Numbered
    BY <1>10, Window DEF TypeServer
  <2>2. lines # <<>> /\ Len(lines) > 0 /\ 1 \in DOMAIN lines /\ Len(lines) \in DOMAIN lines
    BY <1>2, <1>3, <1>6, <1>10, <2>1, EmptySeq
  <2>3. f \in Nat
    BY <1>6, <2>2 DEF Numbered
  <2>4. journal.persisted = f + Len(lines) - 1 /\ f <= n
    <3>1. LastOf(lines) = lines[1].sequence + Len(lines) - 1
      BY <1>3, <2>2 DEF LastOf, Unbroken
    <3>2. FirstOf(lines) = f
      BY DEF FirstOf
    <3> HIDE DEF f, n
    <3>3. journal.persisted = f + Len(lines) - 1
      BY <1>2, <2>2, <3>1 DEF f
    <3>4. f <= sequence - Len(history) + 1
      BY <1>2, <2>1, <2>2, <3>2
    <3>5. QED
      BY <2>1, <2>3, <3>3, <3>4
  <2>5. n <= f + Len(lines) - 1 /\ f + Len(lines) - 1 <= sequence
    BY <1>5, <1>10, <2>4
  <2> HIDE DEF n, f
  <2>6. k \in 1 .. Len(lines) /\ j \in 1 .. Len(records)
    <3>1. k \in 1 .. Len(lines)
      <4>1. n \in Nat /\ f \in Nat /\ Len(lines) \in Nat /\ f <= n /\ n <= f + Len(lines) - 1
        BY <1>6, <2>1, <2>3, <2>4, <2>5
      <4>2. QED
        BY <4>1
    <3>2. Len(records) = Len(lines) \/ (Len(records) = HistoryLimit /\ n > sequence - HistoryLimit)
      BY <1>7, <1>8, <2>1
    <3> DEFINE m == Len(records)
               t == Len(lines)
    <3>3. m \in Nat /\ t \in Nat /\ HistoryLimit \in Nat /\ n \in Nat /\ f \in Nat /\ sequence \in Nat
      BY <1>6, <1>8, <2>1, <2>3
    <3> HIDE DEF m, t
    <3>4. k - (t - m) \in 1 .. m
      <4>1. CASE m = t
        BY <3>1, <3>3, <4>1 DEF t, m
      <4>2. CASE m = HistoryLimit /\ n > sequence - HistoryLimit
        <5>1. n <= f + t - 1 /\ f + t - 1 <= sequence
          BY <2>5 DEF t
        <5>2. QED
          BY <3>3, <4>2, <5>1
      <4>3. QED
        BY <3>2, <4>1, <4>2 DEF t, m
    <3>5. j \in 1 .. Len(records)
      BY <3>4, Zenon DEF t, m
    <3>6. QED
      BY <3>1, <3>5, Zenon
  <2>7. Len(lines) - Len(records) + j = k
    <3> DEFINE x == Len(lines)
               y == Len(records)
               z == k
    <3>1. x \in Int /\ y \in Int /\ z \in Int
      <4>1. z \in 1 .. x
        BY <2>6
      <4>2. QED
        BY <1>6, <1>8, <4>1
    <3>a. j = z - (x - y)
      OBVIOUS
    <3> HIDE DEF x, y, z
    <3>2. x - y + (z - (x - y)) = z
      BY <3>1
    <3>3. QED
      BY <3>a, <3>2 DEF x, y, z
  <2>8. records[j] = lines[k] /\ lines[k] \in Numbered
    BY <1>6, <1>7, <2>6, <2>7
  <2>9. lines[k].sequence = n
    <3>1. lines[k].sequence = f + k - 1
      BY <1>3, <1>6, <2>6 DEF Unbroken, f
    <3>2. QED
      BY <2>1, <2>3, <3>1
  <2>10. lines[k].event = history[i].event
    <3>1. logs[epoch][lines[k].sequence] = lines[k].event
      BY <1>5, <1>6, <2>2, <2>6 DEF Agrees
    <3>2. logs[epoch][history[i].sequence] = history[i].event
      BY <1>5, <1>10 DEF Agrees
    <3>3. QED
      BY <2>9, <3>1, <3>2 DEF n
  <2>11. lines[k] = history[i]
    <3>1. lines[k].sequence = history[i].sequence
      BY <2>9 DEF n
    <3>2. lines[k] \in Numbered /\ history[i] \in Numbered
      BY <2>1, <2>8
    <3>3. \A x, y \in Numbered : x.sequence = y.sequence /\ x.event = y.event => x = y
      BY DEF Numbered
    <3>4. QED
      BY <2>10, <3>1, <3>2, <3>3, Zenon
  <2>12. QED
    BY <1>8, <2>6, <2>8, <2>11
<1>11. QED
  BY <1>2, <1>4, <1>9, <1>10

\* An action of the socket or of the client leaves the Host and its journal alone.
LEMMA OthersStore ==
    ASSUME StoreOK,
           \/ Subscribe \/ Replay \/ Drain
           \/ Connect \/ Ask \/ TimeOut \/ Receive \/ ListenerThrows \/ Continue \/ Drop
    PROVE  StoreOK'
<1>1. UNCHANGED <<epoch, stage, sequence, history, journal, tail, writing, disk, published, logs>>
  BY Zenon
     DEF Subscribe, Replay, Drain, Connect, Ask, TimeOut, Receive, ListenerThrows,
       Continue, Drop,
     server, store, ghosts
<1>2. excused' \subseteq 1 .. MaxEpoch
  <2>1. excused' \subseteq excused \cup {epoch} /\ (Ask \/ excused' = excused)
    <3>1. CASE Ask
      <4>1. PICK fromStart \in BOOLEAN :
              excused' = IF fromStart /\ client.asks > 0 THEN excused \cup {epoch} ELSE excused
        BY <3>1, Zenon DEF Ask
      <4>2. QED
        BY <3>1, <4>1
    <3>2. CASE ~ Ask
      <4>1. excused' = excused
        BY <3>2, Zenon
           DEF Subscribe, Replay, Drain, Connect, TimeOut, Receive, ListenerThrows,
             Continue,
           Drop, ghosts
      <4>2. QED
        BY <4>1
    <3>3. QED
      BY <3>1, <3>2
  <2>2. excused \subseteq 1 .. MaxEpoch /\ epoch \in 0 .. MaxEpoch
    BY DEF StoreOK, TypeServer
  <2>3. Ask => epoch > 0
    BY DEF Ask, StoreOK, StoreInv, LogsInv
  <2>4. QED
    BY <2>1, <2>2, <2>3, BoundAssumption
<1>3. stage' = stage /\ stage \in {"down", "loading", "ready", "closing", "flushing"}
  BY <1>1 DEF StoreOK, TypeServer
<1>4. QED
  BY <1>1, <1>2, <1>3, LiveStore

LEMMA ClosingStore == ASSUME StoreOK, CloseHost \/ CutSockets PROVE StoreOK'
<1>1. UNCHANGED <<epoch, sequence, history, journal, tail, writing, disk, published, logs>>
  BY DEF CloseHost, CutSockets, store, ghosts
<1>2. Live /\ Live' /\ stage' \in {"down", "loading", "ready", "closing", "flushing"}
  BY DEF CloseHost, CutSockets, Live
<1>3. excused' \subseteq excused \cup {epoch}
  BY DEF CloseHost, CutSockets, ghosts
<1>4. epoch \in 1 .. MaxEpoch /\ excused \subseteq 1 .. MaxEpoch
  BY <1>2, BoundAssumption DEF StoreOK, TypeServer, StoreInv, LogsInv, Live
<1>5. QED
  BY <1>1, <1>2, <1>3, <1>4, LiveStore

LEMMA StepStore == ASSUME StoreOK, [Next]_vars PROVE StoreOK'
<1>1. CASE Start
  BY <1>1, StartStore
<1>2. CASE Load
  BY <1>2, LoadStore
<1>3. CASE PublishEvent
  BY <1>3, PublishStore
<1>4. CASE CloseHost \/ CutSockets
  BY <1>4, ClosingStore
<1>5. CASE Exit
  BY <1>5, ExitStore
<1>6. CASE Crash
  BY <1>6, CrashStore
<1>7. CASE Persist
  BY <1>7, PersistStore
<1>8. CASE WriteDone
  BY <1>8, WriteDoneStore
<1>9. CASE WriteFails
  BY <1>9, WriteFailsStore
<1>10. CASE \/ Subscribe \/ Replay \/ Drain
            \/ Connect \/ Ask \/ TimeOut \/ Receive \/ ListenerThrows \/ Continue \/ Drop
  BY <1>10, OthersStore
<1>11. CASE UNCHANGED vars
  <2>1. UNCHANGED <<epoch, stage, sequence, history, journal, tail, writing, disk, published, logs, excused>>
    BY <1>11, Zenon DEF vars, server, store, ghosts
  <2>2. QED
    BY <2>1, LiveStore DEF StoreOK, TypeServer
<1>12. QED
  BY <1>1, <1>2, <1>3, <1>4, <1>5, <1>6, <1>7, <1>8, <1>9, <1>10, <1>11, Zenon DEF Next

\* Through publications, writes that fail or are interrupted, crashes and
\* restarts, a journal that calls itself healthy can be read back: the next Host
\* would know every number up to the persisted one and every event of the window
\* that has been persisted, each as the log has it.
THEOREM JournalRecovers == Spec => []JournalRecoverable
<1>1. Init => StoreOK
  BY InitStore
<1>2. StoreOK /\ [Next]_vars => StoreOK'
  BY StepStore
<1>3. StoreOK => JournalRecoverable
  BY RecoverableStore
<1>4. QED
  BY <1>1, <1>2, <1>3, PTL DEF Spec

-----------------------------------------------------------------------------
(* The connection. *)

ConnOK == TypeSocket /\ TypeClient /\ ConnInv

LEMMA ClientTypes ==
    ASSUME TypeClient
    PROVE  /\ client.epoch \in 0 .. MaxEpoch /\ client.consumedEpoch \in 0 .. MaxEpoch
           /\ client.consumed \in Nat /\ client.asks \in 0 .. MaxAsks /\ client.pending \in 0 .. MaxAsks
           /\ client.answer.given \in BOOLEAN /\ client.answer.sequence \in Nat
           /\ client.synced \in BOOLEAN /\ client.consumedEpoch <= client.epoch
           /\ MaxEpoch \in Nat /\ MaxAsks \in Nat
BY BoundAssumption DEF TypeClient, Clients

LEMMA WireTypes ==
    ASSUME TypeSocket
    PROVE  /\ Len(wire) \in Nat /\ DOMAIN wire = 1 .. Len(wire)
           /\ \A i \in DOMAIN wire :
                /\ wire[i] \in Frames /\ wire[i].kind \in {"event", "gap", "response"}
                /\ wire[i].epoch \in 1 .. MaxEpoch
                /\ wire[i].sequence \in Nat /\ wire[i].event \in 0 .. MaxEvents
                /\ wire[i].id \in 0 .. MaxAsks /\ wire[i].id \in Nat
<1>1. wire \in Seq(Frames) /\ MaxAsks \in Nat
  BY BoundAssumption DEF TypeSocket
<1>2. Len(wire) \in Nat /\ DOMAIN wire = 1 .. Len(wire)
  BY <1>1
<1>3. ASSUME NEW i \in DOMAIN wire
      PROVE  /\ wire[i] \in Frames /\ wire[i].kind \in {"event", "gap", "response"}
             /\ wire[i].epoch \in 1 .. MaxEpoch
             /\ wire[i].sequence \in Nat /\ wire[i].event \in 0 .. MaxEvents
             /\ wire[i].id \in 0 .. MaxAsks /\ wire[i].id \in Nat
  <2>1. wire[i] \in Frames
    BY <1>1, <1>3
  <2>2. QED
    BY <1>1, <2>1 DEF Frames
<1>4. QED
  BY <1>2, <1>3

LEMMA RequestTypes ==
    ASSUME TypeSocket
    PROVE  /\ Len(requests) \in Nat /\ DOMAIN requests = 1 .. Len(requests)
           /\ \A k \in DOMAIN requests :
                /\ requests[k] \in Requests /\ requests[k].id \in Nat \ {0}
                /\ requests[k].id \in 1 .. MaxAsks
                /\ requests[k].fromStart \in BOOLEAN /\ requests[k].after \in Nat
                /\ requests[k].epoch \in 0 .. MaxEpoch
<1>1. requests \in Seq(Requests) /\ MaxAsks \in Nat
  BY BoundAssumption DEF TypeSocket
<1>2. Len(requests) \in Nat /\ DOMAIN requests = 1 .. Len(requests)
  BY <1>1
<1>3. ASSUME NEW k \in DOMAIN requests
      PROVE  /\ requests[k] \in Requests /\ requests[k].id \in Nat \ {0}
             /\ requests[k].id \in 1 .. MaxAsks
             /\ requests[k].fromStart \in BOOLEAN /\ requests[k].after \in Nat
             /\ requests[k].epoch \in 0 .. MaxEpoch
  <2>1. requests[k] \in Requests
    BY <1>1, <1>3
  <2>2. QED
    BY <1>1, <2>1 DEF Requests
<1>4. QED
  BY <1>2, <1>3

\* Whoever reaches a number reaches the numbers before it.
LEMMA ReachesLess ==
    ASSUME TypeSocket, TypeClient, NEW k \in 0 .. Len(wire), NEW n \in Nat, NEW m \in Nat, m <= n,
           Reaches(k, n)
    PROVE  Reaches(k, m)
<1>1. /\ client.consumed \in Nat /\ client.answer.sequence \in Nat
      /\ \A j \in 1 .. k : wire[j].sequence \in Nat
  BY ClientTypes, WireTypes
<1>2. CASE IsOn /\ client.consumed >= n
  BY <1>1, <1>2 DEF Reaches
<1>3. CASE client.answer.given /\ client.answer.sequence >= n
  BY <1>1, <1>3 DEF Reaches
<1>4. CASE \E j \in 1 .. k : Moves(wire[j]) /\ wire[j].sequence >= n
  BY <1>1, <1>4 DEF Reaches
<1>5. CASE /\ IsNew /\ ~ client.answer.given
           /\ \A j \in 1 .. k :
                ~ Moves(wire[j]) /\ (wire[j].id = client.pending => wire[j].sequence >= n)
  BY <1>1, <1>5 DEF Reaches
<1>6. QED
  BY <1>2, <1>3, <1>4, <1>5 DEF Reaches

\* The logs only grow.
LogsGrow ==
    /\ DOMAIN logs \subseteq DOMAIN logs'
    /\ \A e \in DOMAIN logs :
         /\ Len(logs[e]) \in Nat /\ Len(logs'[e]) \in Nat /\ Len(logs[e]) <= Len(logs'[e])
         /\ \A i \in 1 .. Len(logs[e]) : logs'[e][i] = logs[e][i]

\* What the client has and what is on its way to it outlive the Host's doings.
LEMMA KeepWire ==
    ASSUME ConnOK, UNCHANGED <<client, wire>>, excused \subseteq excused', LogsGrow,
           replay' = replay \/ replay' = NoReplay, requests' = requests \/ requests' = <<>>
    PROVE  ClientInv' /\ WireInv'
<1>1. TypeSocket /\ TypeClient /\ ClientInv /\ WireInv
  BY DEF ConnOK, ConnInv
<1>2. Excused => Excused'
  BY DEF Excused
<1>3. /\ IsOn' = IsOn /\ IsLost' = IsLost
      /\ \A k, n : Reaches(k, n)' <=> Reaches(k, n)
      /\ \A k : GapWithin(k)' <=> GapWithin(k)
  BY DEF IsOn, IsNew, IsLost, Reaches, GapWithin, Moves
<1>4. ClientInv'
  <2>1. client.answer.sequence \in Nat /\ client.consumed \in Nat
    BY <1>1, ClientTypes
  <2>2. client.epoch \in DOMAIN logs => client.epoch \in DOMAIN logs' /\ Len(logs[client.epoch]) \in Nat
          /\ Len(logs'[client.epoch]) \in Nat /\ Len(logs[client.epoch]) <= Len(logs'[client.epoch])
    BY DEF LogsGrow
  <2>3. IsOn' => client.epoch \in DOMAIN logs' /\ client.consumed <= Len(logs'[client.epoch])
    BY <1>1, <1>3, <2>1, <2>2 DEF ClientInv
  <2>4. client.answer.given =>
          client.epoch \in DOMAIN logs' /\ client.answer.sequence <= Len(logs'[client.epoch])
    BY <1>1, <2>1, <2>2 DEF ClientInv
  <2>5. replay'.on => replay.on
    BY DEF NoReplay
  <2>6. requests = <<>> => requests' = <<>>
    OBVIOUS
  <2>7. QED
    BY <1>1, <1>3, <2>3, <2>4, <2>5, <2>6 DEF ClientInv, Moves
<1>5. WireInv'
  <2> SUFFICES ASSUME NEW i \in DOMAIN wire
               PROVE  /\ wire[i].epoch = client.epoch /\ client.epoch \in DOMAIN logs'
                      /\ wire[i].sequence <= Len(logs'[client.epoch])
                      /\ wire[i].kind = "event" =>
                           /\ wire[i].sequence > 0
                           /\ logs'[client.epoch][wire[i].sequence] = wire[i].event
                           /\ IsLost' /\ ~ Excused' => GapWithin(i - 1)'
                           /\ ~ Excused' => Reaches(i - 1, wire[i].sequence - 1)'
                      /\ wire[i].kind = "response" =>
                           /\ wire[i].id \in 1 .. client.asks
                           /\ replay'.on => wire[i].id < replay'.id
                           /\ \A k \in DOMAIN requests' : wire[i].id < requests'[k].id
                           /\ Reaches(i - 1, wire[i].sequence)'
                           /\ wire[i].id = client.asks =>
                                \A l \in i + 1 .. Len(wire) :
                                  Moves(wire[l]) => wire[l].sequence > wire[i].sequence
    BY DEF WireInv, Moves
  <2>1. wire[i].sequence \in Nat
    BY <1>1, WireTypes
  <2>2. /\ wire[i].epoch = client.epoch /\ client.epoch \in DOMAIN logs
        /\ wire[i].sequence <= Len(logs[client.epoch])
    BY <1>1 DEF WireInv
  <2>3. /\ client.epoch \in DOMAIN logs' /\ wire[i].sequence <= Len(logs'[client.epoch])
        /\ wire[i].sequence > 0 =>
             logs'[client.epoch][wire[i].sequence] = logs[client.epoch][wire[i].sequence]
    BY <2>1, <2>2 DEF LogsGrow
  <2>4. CASE wire[i].kind = "event"
    <3>1. /\ wire[i].sequence > 0
          /\ logs[client.epoch][wire[i].sequence] = wire[i].event
          /\ IsLost /\ ~ Excused => GapWithin(i - 1)
          /\ ~ Excused => Reaches(i - 1, wire[i].sequence - 1)
      BY <1>1, <2>4 DEF WireInv
    <3>2. QED
      BY <1>2, <1>3, <2>2, <2>3, <2>4, <3>1
  <2>5. CASE wire[i].kind # "event"
    <3>1. wire[i].kind = "response" =>
            /\ wire[i].id \in 1 .. client.asks
            /\ replay.on => wire[i].id < replay.id
            /\ \A k \in DOMAIN requests : wire[i].id < requests[k].id
            /\ Reaches(i - 1, wire[i].sequence)
            /\ wire[i].id = client.asks =>
                 \A l \in i + 1 .. Len(wire) : Moves(wire[l]) => wire[l].sequence > wire[i].sequence
      BY <1>1 DEF WireInv
    <3>2. replay'.on => replay' = replay
      BY DEF NoReplay
    <3>3. \A k \in DOMAIN requests' : requests' = requests
      OBVIOUS
    <3>4. QED
      BY <1>3, <2>2, <2>3, <2>5, <3>1, <3>2, <3>3
  <2>6. QED
    BY <2>4, <2>5
<1>6. QED
  BY <1>4, <1>5

\* A socket that the Host does not hold, or holds no longer.
LEMMA Detached ==
    ASSUME ConnOK, TypeSocket', UNCHANGED <<client, wire, heard, faults>>,
           epoch \in Nat, epoch' \in Nat, epoch <= epoch', excused \subseteq excused', LogsGrow,
           link' # "open", link' = "none" <=> link = "none",
           ~ subscribed', replay' = replay \/ replay' = NoReplay, ~ replay'.on, requests' = <<>>,
           stage' \in {"closing", "flushing"} => epoch' \in excused', EmptyInv'
    PROVE  ConnOK'
<1>1. ClientInv' /\ WireInv'
  BY KeepWire
<1>2. TypeClient'
  <2>1. TypeClient
    BY DEF ConnOK
  <2>2. QED
    BY <2>1, ClientTypes DEF TypeClient
<1>3. LinkInv'
  <2>1. LinkInv
    BY DEF ConnOK, ConnInv
  <2>2. client.asks = 0 => wire = <<>> /\ ~ client.answer.given
    BY <2>1 DEF LinkInv
  <2>3. link' = "none" => wire = <<>> /\ client.asks = 0
    BY <2>1 DEF LinkInv
  <2>4. link' # "none" => client.epoch > 0
    BY <2>1 DEF LinkInv, ConnOK, TypeSocket
  <2>5. QED
    BY <2>2, <2>3, <2>4 DEF LinkInv
<1>4. RequestInv' /\ ReplayInv' /\ LiveInv'
  BY DEF RequestInv, ReplayInv, LiveInv
<1>5. QED
  BY <1>1, <1>2, <1>3, <1>4 DEF ConnOK, ConnInv

LEMMA CutTypes == ASSUME TypeSocket, CutConnection PROVE TypeSocket'
<1>1. /\ link' \in {"none", "open", "cut"} /\ choked' = FALSE /\ subscribed' = FALSE
      /\ replay' = NoReplay /\ requests' = <<>> /\ wire' = wire
  BY DEF TypeSocket, CutConnection
<1>2. requests' \in Seq(Requests)
  BY <1>1, EmptySeq
<1>3. replay' \in [on : BOOLEAN, id : 0 .. MaxAsks, cursor : Nat, gap : BOOLEAN]
  BY <1>1, BoundAssumption DEF NoReplay
<1>4. QED
  BY <1>1, <1>2, <1>3 DEF TypeSocket

LEMMA SameLogs == ASSUME TypeServer, logs' = logs PROVE LogsGrow
BY LogTypes DEF LogsGrow

LEMMA InitConn == Init => ConnOK
<1> SUFFICES ASSUME Init PROVE ConnOK
  OBVIOUS
<1>1. /\ epoch = 0 /\ stage = "down" /\ sequence = 0 /\ history = <<>> /\ logs = <<>> /\ excused = {}
      /\ link = "none" /\ choked = FALSE /\ wire = <<>>
      /\ subscribed = FALSE /\ replay = NoReplay /\ requests = <<>>
      /\ client = [epoch |-> 0, consumedEpoch |-> 0, consumed |-> 0, asks |-> 0, pending |-> 0,
                   answer |-> NoAnswer, synced |-> FALSE]
      /\ heard = [kind |-> "nothing", event |-> 0] /\ faults = 0
  BY DEF Init, Feed!Nothing
<1>2. TypeSocket
  <2>1. wire \in Seq(Frames) /\ requests \in Seq(Requests)
    BY <1>1, EmptySeq
  <2>2. replay \in [on : BOOLEAN, id : 0 .. MaxAsks, cursor : Nat, gap : BOOLEAN]
    BY <1>1, BoundAssumption DEF NoReplay
  <2>3. QED
    BY <1>1, <2>1, <2>2 DEF TypeSocket
<1>3. TypeClient
  BY <1>1, BoundAssumption DEF TypeClient, Clients, NoAnswer
<1>4. LinkInv /\ RequestInv /\ ReplayInv /\ LiveInv /\ EmptyInv /\ WireInv
  BY <1>1
     DEF LinkInv, RequestInv, ReplayInv, LiveInv, EmptyInv, WireInv, NoReplay, NoAnswer,
       Live
<1>5. ClientInv
  BY <1>1 DEF ClientInv, IsOn, IsNew, IsLost, NoAnswer
<1>6. QED
  BY <1>2, <1>3, <1>4, <1>5 DEF ConnOK, ConnInv

\* A Host that starts, ends or dies holds no socket afterwards.
LEMMA StartConn == ASSUME StoreOK, ConnOK, Start PROVE ConnOK'
<1>1. /\ stage = "down" /\ epoch' = epoch + 1 /\ stage' = "loading"
      /\ UNCHANGED <<sequence, history, link, choked, wire, subscribed, replay, requests, client,
                     logs, excused, heard, faults>>
  BY DEF Start, socket, ghosts
<1>2. epoch \in Nat /\ LogsGrow
  BY <1>1, SameLogs, BoundAssumption DEF StoreOK, TypeServer
<1>3. link # "open" /\ ~ subscribed /\ ~ replay.on /\ requests = <<>>
  BY <1>1 DEF ConnOK, ConnInv, LinkInv
<1>4. TypeSocket'
  BY <1>1 DEF ConnOK, TypeSocket
<1>5. EmptyInv'
  BY <1>1 DEF EmptyInv, Live
<1>6. QED
  BY <1>1, <1>2, <1>3, <1>4, <1>5, Detached

LEMMA ExitConn == ASSUME StoreOK, ConnOK, Exit PROVE ConnOK'
<1>1. /\ stage = "flushing" /\ stage' = "down"
      /\ UNCHANGED <<epoch, link, choked, wire, subscribed, replay, requests, client,
                     logs, excused, heard, faults>>
  BY DEF Exit, socket, ghosts
<1>2. epoch \in Nat /\ LogsGrow
  BY <1>1, SameLogs, BoundAssumption DEF StoreOK, TypeServer
<1>3. link # "open" /\ ~ subscribed /\ ~ replay.on /\ requests = <<>>
  BY <1>1 DEF ConnOK, ConnInv, LinkInv
<1>4. TypeSocket'
  BY <1>1 DEF ConnOK, TypeSocket
<1>5. EmptyInv'
  BY <1>1 DEF EmptyInv, Live
<1>6. QED
  BY <1>1, <1>2, <1>3, <1>4, <1>5, Detached

LEMMA CutSocketsConn == ASSUME StoreOK, ConnOK, CutSockets PROVE ConnOK'
<1>1. /\ stage = "closing" /\ stage' = "flushing" /\ CutConnection
      /\ UNCHANGED <<epoch, sequence, history, client, logs, excused, heard, faults>>
  BY DEF CutSockets, ghosts
<1>2. epoch \in Nat /\ LogsGrow
  BY <1>1, SameLogs, BoundAssumption DEF StoreOK, TypeServer
<1>3. /\ link' # "open" /\ (link' = "none" <=> link = "none") /\ wire' = wire
      /\ ~ subscribed' /\ replay' = NoReplay /\ ~ replay'.on /\ requests' = <<>>
  BY <1>1 DEF CutConnection, NoReplay
<1>4. TypeSocket'
  BY <1>1, CutTypes DEF ConnOK
<1>5. EmptyInv'
  BY <1>1, <1>3 DEF ConnOK, ConnInv, EmptyInv, Live, IsOn, IsNew
<1>6. epoch' \in excused'
  BY <1>1 DEF ConnOK, ConnInv, LinkInv
<1>7. QED
  BY <1>1, <1>2, <1>3, <1>4, <1>5, <1>6, Detached

LEMMA CrashConn == ASSUME StoreOK, ConnOK, Crash PROVE ConnOK'
<1>1. /\ stage # "down" /\ stage' = "down" /\ CutConnection
      /\ UNCHANGED <<epoch, client, excused, heard, faults>>
      /\ logs' = IF stage # "loading" THEN logs
                 ELSE Append(logs, IF epoch = 1 THEN <<>> ELSE logs[epoch - 1])
  BY DEF Crash
<1>2. epoch \in Nat
  BY BoundAssumption DEF StoreOK, TypeServer
<1>3. LogsGrow
  <2>1. CASE stage # "loading"
    BY <1>1, <2>1, SameLogs DEF StoreOK
  <2>2. CASE stage = "loading"
    <3> DEFINE x == IF epoch = 1 THEN <<>> ELSE logs[epoch - 1]
    <3>1. logs' = Append(logs, x)
      BY <1>1, <2>2
    <3> HIDE DEF x
    <3>2. logs \in Seq(Seq(1 .. MaxEvents)) /\ Len(logs) \in Nat /\ DOMAIN logs = 1 .. Len(logs)
      BY LogTypes DEF StoreOK, TypeServer
    <3>3. DOMAIN logs' = 1 .. Len(logs) + 1 /\ \A e \in 1 .. Len(logs) : logs'[e] = logs[e]
      BY <3>1, <3>2
    <3>4. \A e \in DOMAIN logs : Len(logs[e]) \in Nat
      BY LogTypes DEF StoreOK
    <3>5. QED
      BY <3>2, <3>3, <3>4 DEF LogsGrow
  <2>3. QED
    BY <2>1, <2>2
<1>4. /\ link' # "open" /\ (link' = "none" <=> link = "none") /\ wire' = wire
      /\ ~ subscribed' /\ replay' = NoReplay /\ ~ replay'.on /\ requests' = <<>>
  BY <1>1 DEF CutConnection, NoReplay
<1>5. TypeSocket'
  BY <1>1, CutTypes DEF ConnOK
<1>6. EmptyInv'
  BY <1>1 DEF EmptyInv, Live
<1>7. QED
  BY <1>1, <1>2, <1>3, <1>4, <1>5, <1>6, Detached

LEMMA SameConn ==
    ASSUME ConnOK, UNCHANGED <<epoch, stage, sequence, history, link, wire, subscribed, replay, requests,
                               client, logs, excused, heard>>,
           choked' \in BOOLEAN, faults' \in 0 .. MaxFaults
    PROVE  ConnOK'
<1>1. TypeSocket' /\ TypeClient'
  BY DEF ConnOK, TypeSocket, TypeClient
<1>2. LinkInv' /\ RequestInv' /\ EmptyInv'
  BY DEF ConnOK, ConnInv, LinkInv, RequestInv, EmptyInv, IsOn, IsLost, IsNew, Excused,
       Live
<1>3. ClientInv'
  BY DEF ConnOK, ConnInv, ClientInv, IsOn, IsLost, IsNew, Moves
<1>4. \A k, n : (Reaches(k, n)' <=> Reaches(k, n)) /\ (GapWithin(k)' <=> GapWithin(k))
  BY DEF Reaches, GapWithin, Moves, IsOn, IsNew
<1>5. (Excused' <=> Excused) /\ (IsLost' <=> IsLost)
  BY DEF Excused, IsLost, IsNew
<1>6. ReplayInv' /\ LiveInv'
  BY <1>4, <1>5 DEF ConnOK, ConnInv, ReplayInv, LiveInv
<1>7. WireInv'
  BY <1>4, <1>5 DEF ConnOK, ConnInv, WireInv, Moves
<1>8. QED
  BY <1>1, <1>2, <1>3, <1>6, <1>7 DEF ConnOK, ConnInv

LEMMA FaultTypes == ASSUME TypeClient, Fault PROVE faults' \in 0 .. MaxFaults
BY BoundAssumption DEF TypeClient, Fault

\* The journal writes, or a socket drains.
LEMMA WriteConn ==
    ASSUME ConnOK, Persist \/ WriteDone \/ WriteFails \/ Drain
    PROVE  ConnOK'
<1>1. UNCHANGED <<epoch, stage, sequence, history, link, wire, subscribed, replay, requests,
                  client, logs, excused, heard>>
  BY Zenon DEF Persist, WriteDone, WriteFails, Drain, server, socket, ghosts
<1>2. choked' = choked \/ choked' = FALSE
  BY DEF Persist, WriteDone, WriteFails, Drain, socket
<1>3. faults' = faults \/ Fault
  BY Zenon DEF Persist, WriteDone, WriteFails, Drain
<1>4. choked' \in BOOLEAN /\ faults' \in 0 .. MaxFaults
  BY <1>2, <1>3, FaultTypes DEF ConnOK, TypeSocket, TypeClient
<1>5. QED
  BY <1>1, <1>4, SameConn

\* Nobody has subscribed to a Host that is still loading.
LEMMA LoadConn == ASSUME StoreOK, ConnOK, Load PROVE ConnOK'
<1>1. /\ stage = "loading" /\ stage' = "ready"
      /\ \E x : logs' = Append(logs, x)
      /\ UNCHANGED <<epoch, link, choked, wire, subscribed, replay, requests, client, excused, heard, faults>>
  BY DEF Load, socket
<1>2. PICK lg : logs' = Append(logs, lg)
  BY <1>1
<1>3. /\ logs \in Seq(Seq(1 .. MaxEvents)) /\ Len(logs) \in Nat /\ DOMAIN logs = 1 .. Len(logs)
      /\ Len(logs) = epoch - 1 /\ epoch \in Nat
  BY <1>1, LogTypes, BoundAssumption DEF StoreOK, TypeServer, StoreInv, LogsInv
<1>4. TypeServer'
  BY LoadStore DEF StoreOK
<1>5. LogsGrow
  <2>1. DOMAIN logs' = 1 .. Len(logs) + 1 /\ \A e \in 1 .. Len(logs) : logs'[e] = logs[e]
    BY <1>2, <1>3
  <2>2. \A e \in DOMAIN logs : Len(logs[e]) \in Nat
    BY LogTypes DEF StoreOK
  <2>3. QED
    BY <1>3, <2>1, <2>2 DEF LogsGrow
<1>6. ClientInv' /\ WireInv'
  BY <1>1, <1>5, KeepWire
<1>7. LinkInv
  BY DEF ConnOK, ConnInv
<1>8. ~ subscribed /\ ~ replay.on /\ requests = <<>>
  BY <1>1, <1>7 DEF LinkInv
<1>9. LinkInv'
  BY <1>1, <1>7 DEF LinkInv
<1>10. RequestInv' /\ ReplayInv' /\ LiveInv'
  BY <1>1, <1>8 DEF RequestInv, ReplayInv, LiveInv
<1>11. EmptyInv'
  <2>1. client.epoch \in DOMAIN logs => client.epoch # epoch
    BY <1>3
  <2>2. /\ \A i \in DOMAIN wire : client.epoch \in DOMAIN logs
        /\ IsOn \/ client.answer.given => client.epoch \in DOMAIN logs
    BY DEF ConnOK, ConnInv, WireInv, ClientInv
  <2>3. QED
    BY <1>1, <2>1, <2>2 DEF EmptyInv, IsOn, IsNew
<1>12. TypeSocket' /\ TypeClient'
  BY <1>1 DEF ConnOK, TypeSocket, TypeClient
<1>13. QED
  BY <1>6, <1>9, <1>10, <1>11, <1>12 DEF ConnOK, ConnInv

\* The epoch of a Host that closes is excused from now on.
LEMMA CloseConn == ASSUME StoreOK, ConnOK, CloseHost PROVE ConnOK'
<1>1. /\ stage = "ready" /\ stage' = "closing" /\ excused' = excused \cup {epoch}
      /\ replay' = NoReplay /\ requests' = <<>>
      /\ UNCHANGED <<epoch, sequence, history, link, choked, wire, subscribed, client, logs, heard, faults>>
  BY DEF CloseHost
<1>2. LogsGrow
  BY <1>1, SameLogs DEF StoreOK
<1>3. ClientInv' /\ WireInv'
  BY <1>1, <1>2, KeepWire
<1>4. LinkInv
  BY DEF ConnOK, ConnInv
<1>5. LinkInv'
  BY <1>1, <1>4 DEF LinkInv, NoReplay
<1>6. RequestInv' /\ ReplayInv'
  BY <1>1 DEF RequestInv, ReplayInv, NoReplay
<1>7. LiveInv'
  <2>1. subscribed => Excused'
    BY <1>1, <1>4 DEF LinkInv, Excused, ConnOK, TypeSocket
  <2>2. QED
    BY <1>1, <2>1 DEF LiveInv
<1>8. EmptyInv'
  BY <1>1 DEF ConnOK, ConnInv, EmptyInv, Live, IsOn, IsNew
<1>9. TypeSocket'
  <2>1. requests' \in Seq(Requests)
    BY <1>1, EmptySeq
  <2>2. replay' \in [on : BOOLEAN, id : 0 .. MaxAsks, cursor : Nat, gap : BOOLEAN]
    BY <1>1, BoundAssumption DEF NoReplay
  <2>3. QED
    BY <1>1, <2>1, <2>2 DEF ConnOK, TypeSocket
<1>10. TypeClient'
  BY <1>1 DEF ConnOK, TypeClient
<1>11. QED
  BY <1>3, <1>5, <1>6, <1>7, <1>8, <1>9, <1>10 DEF ConnOK, ConnInv

\* Whatever was on a socket that is gone, the client keeps its position.
LEMMA RejectedIs ==
    ASSUME TypeClient
    PROVE  /\ Rejected(client) \in Clients
           /\ Rejected(client).epoch = client.epoch
           /\ Rejected(client).consumedEpoch = client.consumedEpoch
           /\ Rejected(client).consumed = client.consumed
           /\ Rejected(client).asks = 0 /\ Rejected(client).pending = 0
           /\ Rejected(client).answer = NoAnswer /\ Rejected(client).synced = FALSE
<1>1. client \in Clients /\ MaxAsks \in Nat
  BY BoundAssumption DEF TypeClient
<1>2. NoAnswer \in [given : BOOLEAN, sequence : Nat]
  BY DEF NoAnswer
<1>3. /\ Rejected(client).epoch = client.epoch
      /\ Rejected(client).consumedEpoch = client.consumedEpoch
      /\ Rejected(client).consumed = client.consumed
      /\ Rejected(client).asks = 0 /\ Rejected(client).pending = 0
      /\ Rejected(client).answer = NoAnswer /\ Rejected(client).synced = FALSE
  BY <1>1 DEF Clients, Rejected
<1>4. Rejected(client) \in Clients
  <2>1. [client EXCEPT !.asks = 0, !.pending = 0] \in Clients
    <3>1. 0 \in 0 .. MaxAsks
      BY <1>1
    <3>2. ASSUME NEW c \in Clients PROVE [c EXCEPT !.asks = 0] \in Clients
      BY <3>1 DEF Clients
    <3>3. ASSUME NEW c \in Clients PROVE [c EXCEPT !.pending = 0] \in Clients
      BY <3>1 DEF Clients
    <3>4. [client EXCEPT !.asks = 0, !.pending = 0] = [[client EXCEPT !.asks = 0] EXCEPT !.pending = 0]
      BY <1>1 DEF Clients
    <3>5. QED
      BY <1>1, <3>2, <3>3, <3>4
  <2>2. ASSUME NEW c \in Clients
        PROVE  [c EXCEPT !.answer = NoAnswer, !.synced = FALSE] \in Clients
    BY <1>2 DEF Clients
  <2>3. Rejected(client) =
          [[client EXCEPT !.asks = 0, !.pending = 0] EXCEPT !.answer = NoAnswer, !.synced = FALSE]
    BY <1>1 DEF Clients, Rejected
  <2>4. QED
    BY <2>1, <2>2, <2>3
<1>5. QED
  BY <1>3, <1>4

LEMMA DisconnectedConn ==
    ASSUME ConnOK, Disconnected, UNCHANGED <<epoch, stage, sequence, history, logs, excused, heard>>,
           faults' \in 0 .. MaxFaults
    PROVE  ConnOK'
<1>1. /\ link' = "none" /\ wire' = <<>> /\ choked' = FALSE
      /\ subscribed' = FALSE /\ replay' = NoReplay /\ requests' = <<>>
      /\ client' = Rejected(client)
  BY DEF Disconnected
<1>2. /\ client' \in Clients /\ client'.epoch = client.epoch
      /\ client'.consumedEpoch = client.consumedEpoch /\ client'.consumed = client.consumed
      /\ client'.asks = 0 /\ client'.pending = 0 /\ client'.answer = NoAnswer /\ client'.synced = FALSE
  BY <1>1, RejectedIs DEF ConnOK
<1>3. TypeSocket'
  <2>1. wire' \in Seq(Frames) /\ requests' \in Seq(Requests)
    BY <1>1, EmptySeq
  <2>2. replay' \in [on : BOOLEAN, id : 0 .. MaxAsks, cursor : Nat, gap : BOOLEAN]
    BY <1>1, BoundAssumption DEF NoReplay
  <2>3. QED
    BY <1>1, <2>1, <2>2 DEF TypeSocket
<1>4. TypeClient'
  BY <1>2 DEF ConnOK, TypeClient
<1>5. IsOn' = IsOn /\ IsLost' = IsLost /\ ~ client'.answer.given
  BY <1>2 DEF IsOn, IsLost, IsNew, NoAnswer
<1>6. LinkInv'
  BY <1>1, <1>2, <1>5 DEF ConnOK, ConnInv, LinkInv, NoReplay
<1>7. ClientInv'
  BY <1>1, <1>2, <1>5 DEF ConnOK, ConnInv, ClientInv
<1>8. WireInv' /\ RequestInv' /\ ReplayInv' /\ LiveInv'
  BY <1>1 DEF WireInv, RequestInv, ReplayInv, LiveInv, NoReplay
<1>9. EmptyInv'
  BY <1>1, <1>2, <1>5 DEF ConnOK, ConnInv, EmptyInv, Live
<1>10. QED
  BY <1>3, <1>4, <1>6, <1>7, <1>8, <1>9 DEF ConnOK, ConnInv

LEMMA LeavesConn == ASSUME ConnOK, ListenerThrows \/ Drop PROVE ConnOK'
<1>1. /\ Disconnected /\ UNCHANGED <<epoch, stage, sequence, history, logs, excused, heard>>
      /\ (faults' = faults \/ Fault)
  BY DEF ListenerThrows, Drop, server, ghosts
<1>2. faults' \in 0 .. MaxFaults
  BY <1>1, FaultTypes DEF ConnOK, TypeClient
<1>3. QED
  BY <1>1, <1>2, DisconnectedConn

\* A connection begins with nothing asked and nothing sent.
LEMMA ConnectConn == ASSUME StoreOK, ConnOK, Connect PROVE ConnOK'
<1>1. /\ link = "none" /\ stage \in {"loading", "ready", "closing"} /\ link' = "open"
      /\ client' = ApplyEpoch(client)
      /\ UNCHANGED <<epoch, stage, sequence, history, choked, wire, subscribed, replay, requests,
                     logs, excused, heard, faults>>
  BY DEF Connect, server, ghosts
<1>2. /\ wire = <<>> /\ client.asks = 0 /\ ~ subscribed /\ ~ replay.on /\ requests = <<>>
      /\ ~ client.answer.given
      /\ stage = "closing" => epoch \in excused
  BY <1>1 DEF ConnOK, ConnInv, LinkInv
<1>3. client.epoch <= epoch /\ epoch \in 1 .. MaxEpoch
  BY <1>1 DEF ConnOK, TypeClient, StoreOK, TypeServer, StoreInv, LogsInv
<1>4. /\ client' \in Clients /\ client'.epoch = epoch /\ client'.consumedEpoch = client.consumedEpoch
      /\ client'.consumed = IF client.epoch = epoch THEN client.consumed ELSE 0
      /\ client'.asks = 0 /\ client'.pending = client.pending /\ client'.answer = client.answer
      /\ client'.synced = client.synced
  <2>1. client \in Clients
    BY DEF ConnOK, TypeClient
  <2>2. CASE client.epoch = epoch
    BY <1>1, <1>2, <2>1, <2>2 DEF ApplyEpoch
  <2>3. CASE client.epoch # epoch
    <3>1. client' = [client EXCEPT !.epoch = epoch, !.consumed = 0]
      BY <1>1, <2>3 DEF ApplyEpoch
    <3>2. /\ client'.epoch = epoch /\ client'.consumedEpoch = client.consumedEpoch
          /\ client'.consumed = 0 /\ client'.asks = client.asks /\ client'.pending = client.pending
          /\ client'.answer = client.answer /\ client'.synced = client.synced
      BY <2>1, <3>1 DEF Clients
    <3>3. client' \in Clients
      <4>1. client' = [epoch |-> epoch, consumedEpoch |-> client.consumedEpoch, consumed |-> 0,
                       asks |-> client.asks, pending |-> client.pending,
                       answer |-> client.answer, synced |-> client.synced]
        BY <2>1, <3>1 DEF Clients
      <4>2. client.answer \in [given : BOOLEAN, sequence : Nat]
        BY <2>1 DEF Clients
      <4>3. QED
        BY <1>3, <4>1, <4>2, ClientTypes DEF ConnOK, Clients
    <3>4. QED
      BY <1>2, <2>3, <3>2, <3>3
  <2>4. QED
    BY <2>2, <2>3
<1>5. TypeSocket'
  BY <1>1 DEF ConnOK, TypeSocket
<1>6. TypeClient'
  <2>1. client.consumedEpoch <= client.epoch /\ client.consumedEpoch \in Nat /\ client.epoch \in Nat
    BY ClientTypes DEF ConnOK
  <2>2. QED
    BY <1>1, <1>3, <1>4, <2>1 DEF ConnOK, TypeClient
<1>7. LinkInv'
  BY <1>1, <1>2, <1>3, <1>4 DEF LinkInv
<1>8. WireInv' /\ RequestInv' /\ ReplayInv' /\ LiveInv'
  BY <1>1, <1>2 DEF WireInv, RequestInv, ReplayInv, LiveInv
<1>9. IsOn' => IsOn /\ client.epoch = epoch /\ client'.consumed = client.consumed
  <2>1. client.consumedEpoch <= client.epoch /\ client.consumedEpoch \in Nat /\ client.epoch \in Nat
    BY ClientTypes DEF ConnOK
  <2>2. QED
    BY <1>3, <1>4, <2>1 DEF IsOn, IsNew
<1>10. ClientInv'
  <2>1. ClientInv
    BY DEF ConnOK, ConnInv
  <2>2. ~ IsOn' => client'.consumed = 0
    BY <1>1, <1>4, <2>1 DEF ClientInv, IsOn, IsNew
  <2>3. IsOn' => client'.epoch \in DOMAIN logs' /\ client'.consumed <= Len(logs'[client'.epoch])
    BY <1>1, <1>4, <1>9, <2>1 DEF ClientInv
  <2>4. client'.pending \in {0, client'.asks} /\ ~ client'.answer.given
    BY <1>2, <1>4, <2>1 DEF ClientInv
  <2>5. client'.synced => client'.pending = 0 /\ requests' = <<>> /\ ~ replay'.on
    BY <1>1, <1>2, <1>4, <2>1 DEF ClientInv
  <2>6. QED
    BY <2>2, <2>3, <2>4, <2>5 DEF ClientInv
<1>11. EmptyInv'
  BY <1>1, <1>2, <1>4, <1>9 DEF ConnOK, ConnInv, EmptyInv, Live
<1>12. QED
  BY <1>5, <1>6, <1>7, <1>8, <1>10, <1>11 DEF ConnOK, ConnInv

\* A time-out that keeps the socket, and a new subscription: no answer on the
\* wire is waited for any longer.
LEMMA ReachesWithout ==
    ASSUME TypeSocket, TypeClient, WireInv, wire' = wire,
           client'.epoch = client.epoch, client'.consumedEpoch = client.consumedEpoch,
           client'.consumed = client.consumed, client'.answer = client.answer,
           client'.pending = 0 \/ client'.pending = client.asks + 1,
           NEW k \in 0 .. Len(wire), NEW n, Reaches(k, n)
    PROVE  Reaches(k, n)'
<1>1. IsOn' = IsOn /\ IsNew' = IsNew
  BY DEF IsOn, IsNew
<1>2. CASE IsOn /\ client.consumed >= n
  BY <1>1, <1>2 DEF Reaches
<1>3. CASE client.answer.given /\ client.answer.sequence >= n
  BY <1>3 DEF Reaches
<1>4. CASE \E j \in 1 .. k : Moves(wire[j]) /\ wire[j].sequence >= n
  BY <1>4 DEF Reaches, Moves
<1>5. CASE /\ IsNew /\ ~ client.answer.given
           /\ \A j \in 1 .. k :
                ~ Moves(wire[j]) /\ (wire[j].id = client.pending => wire[j].sequence >= n)
  <2>1. ASSUME NEW j \in 1 .. k
        PROVE  ~ Moves(wire[j]) /\ wire[j].id # client'.pending
    <3>1. j \in DOMAIN wire /\ wire[j].kind \in {"event", "gap", "response"} /\ ~ Moves(wire[j])
      BY <1>5, <2>1, WireTypes
    <3>2. wire[j].kind = "response"
      BY <3>1 DEF Moves
    <3>3. wire[j].id \in 1 .. client.asks
      BY <3>1, <3>2 DEF WireInv
    <3>4. client.asks \in Nat
      BY ClientTypes
    <3>5. QED
      BY <3>1, <3>3, <3>4
  <2>2. QED
    BY <1>1, <1>5, <2>1 DEF Reaches, Moves
<1>6. QED
  BY <1>2, <1>3, <1>4, <1>5 DEF Reaches

LEMMA TimeOutConn == ASSUME ConnOK, TimeOut PROVE ConnOK'
<1>1. /\ link # "none" /\ client.pending # 0 /\ Fault
      /\ UNCHANGED <<epoch, stage, sequence, history, logs, excused, heard>>
  BY DEF TimeOut, server, ghosts
<1>2. faults' \in 0 .. MaxFaults
  BY <1>1, FaultTypes DEF ConnOK
<1>3. CASE Disconnected
  BY <1>1, <1>2, <1>3, DisconnectedConn
<1>4. CASE client' = [client EXCEPT !.pending = 0] /\ UNCHANGED socket
  <2>1. /\ UNCHANGED <<link, choked, wire, subscribed, replay, requests>>
        /\ TypeSocket /\ TypeClient /\ LinkInv /\ ClientInv /\ WireInv /\ RequestInv /\ ReplayInv
        /\ LiveInv /\ EmptyInv
    BY <1>4 DEF socket, ConnOK, ConnInv
  <2>2. client \in Clients /\ MaxAsks \in Nat
    BY <2>1, BoundAssumption DEF TypeClient
  <2>3. /\ client'.epoch = client.epoch /\ client'.consumedEpoch = client.consumedEpoch
        /\ client'.consumed = client.consumed /\ client'.asks = client.asks
        /\ client'.pending = 0 /\ client'.answer = client.answer /\ client'.synced = client.synced
    BY <1>4, <2>2 DEF Clients
  <2>4. client' \in Clients
    BY <1>4, <2>2 DEF Clients
  <2>5. IsOn' = IsOn /\ IsLost' = IsLost /\ IsNew' = IsNew /\ Excused' = Excused
    BY <1>1, <2>3 DEF IsOn, IsLost, IsNew, Excused
  <2>6. \A n : \A k \in 0 .. Len(wire) : Reaches(k, n) => Reaches(k, n)'
    BY <2>1, <2>3, ReachesWithout
  <2>7. \A k : GapWithin(k)' = GapWithin(k)
    BY <2>1 DEF GapWithin
  <2>8. Len(wire) \in Nat /\ DOMAIN wire = 1 .. Len(wire)
    BY <2>1, WireTypes
  <2>9. TypeSocket' /\ TypeClient'
    BY <1>1, <1>2, <2>1, <2>3, <2>4 DEF TypeSocket, TypeClient
  <2>10. LinkInv' /\ EmptyInv'
    BY <1>1, <2>1, <2>3, <2>5 DEF LinkInv, EmptyInv, Live
  <2>11. ClientInv'
    BY <1>1, <2>1, <2>3, <2>5 DEF ClientInv, Moves
  <2>12. RequestInv'
    BY <1>1, <2>1, <2>3, <2>5 DEF RequestInv
  <2>13. ReplayInv'
    BY <1>1, <2>1, <2>3, <2>5, <2>6, <2>7, <2>8 DEF ReplayInv
  <2>14. LiveInv'
    BY <1>1, <2>1, <2>3, <2>5, <2>6, <2>7, <2>8 DEF LiveInv
  <2>15. WireInv'
    <3>1. \A i \in 1 .. Len(wire) : i - 1 \in 0 .. Len(wire)
      BY <2>8
    <3>2. QED
      BY <1>1, <2>1, <2>3, <2>5, <2>6, <2>7, <2>8, <3>1 DEF WireInv, Moves
  <2>16. QED
    BY <2>9, <2>10, <2>11, <2>12, <2>13, <2>14, <2>15 DEF ConnOK, ConnInv
<1>5. QED
  BY <1>3, <1>4 DEF TimeOut

\* What a request says of the client still holds when it is sent.
LEMMA AskConn == ASSUME StoreOK, ConnOK, Ask PROVE ConnOK'
<1> DEFINE id == client.asks + 1
<1>1. PICK fromStart \in BOOLEAN :
        /\ fromStart => client.consumedEpoch = 0
        /\ excused' = IF fromStart /\ client.asks > 0 THEN excused \cup {epoch} ELSE excused
        /\ requests' = Append(requests, [id |-> id, fromStart |-> fromStart,
                                         after |-> client.consumed, epoch |-> client.consumedEpoch])
  BY Zenon DEF Ask
<1>2. /\ link = "open" /\ stage = "ready" /\ client.asks < MaxAsks
      /\ ~ client.synced /\ client.pending = 0 /\ ~ client.answer.given
      /\ client' = [client EXCEPT !.asks = @ + 1, !.pending = client.asks + 1]
      /\ UNCHANGED <<epoch, stage, sequence, history, link, choked, wire, subscribed, replay, logs,
                     heard, faults>>
  BY DEF Ask, server
<1>3. /\ TypeSocket /\ TypeClient /\ LinkInv /\ ClientInv /\ WireInv /\ RequestInv /\ ReplayInv
      /\ LiveInv /\ EmptyInv
  BY DEF ConnOK, ConnInv
<1>4. /\ client \in Clients /\ MaxAsks \in Nat /\ client.asks \in Nat /\ client.consumed \in Nat
      /\ client.consumedEpoch \in 0 .. MaxEpoch
  BY <1>3, ClientTypes, BoundAssumption DEF TypeClient
<1>5. id \in 1 .. MaxAsks /\ id > client.asks
  BY <1>2, <1>4
<1>6. /\ client'.epoch = client.epoch /\ client'.consumedEpoch = client.consumedEpoch
      /\ client'.consumed = client.consumed /\ client'.asks = id
      /\ client'.pending = id /\ client'.answer = client.answer /\ client'.synced = client.synced
  BY <1>2, <1>4 DEF Clients
<1>7. client' \in Clients
  <2>1. ASSUME NEW c \in Clients PROVE [c EXCEPT !.asks = id] \in Clients
    BY <1>5 DEF Clients
  <2>2. ASSUME NEW c \in Clients PROVE [c EXCEPT !.pending = id] \in Clients
    BY <1>5 DEF Clients
  <2>3. client' = [[client EXCEPT !.asks = id] EXCEPT !.pending = id]
    BY <1>2, <1>4 DEF Clients
  <2>4. QED
    BY <1>4, <2>1, <2>2, <2>3
<1> DEFINE new == [id |-> id, fromStart |-> fromStart,
                   after |-> client.consumed, epoch |-> client.consumedEpoch]
<1>8. requests' = Append(requests, new) /\ new \in Requests
  BY <1>1, <1>4, <1>5 DEF Requests
<1>9. /\ new.id = id /\ new.fromStart = fromStart /\ new.after = client.consumed
      /\ new.epoch = client.consumedEpoch
  OBVIOUS
<1> HIDE DEF new
<1>10. /\ requests' \in Seq(Requests) /\ Len(requests') = Len(requests) + 1
       /\ requests'[Len(requests) + 1] = new
       /\ \A k \in 1 .. Len(requests) : requests'[k] = requests[k]
       /\ Len(requests) \in Nat /\ DOMAIN requests = 1 .. Len(requests)
       /\ DOMAIN requests' = 1 .. Len(requests) + 1
  <2>1. requests \in Seq(Requests)
    BY <1>3 DEF TypeSocket
  <2>2. QED
    BY <1>8, <2>1, AppendProperties
<1>11. IsOn' = IsOn /\ IsLost' = IsLost /\ IsNew' = IsNew /\ (Excused => Excused')
  BY <1>1, <1>6 DEF IsOn, IsLost, IsNew, Excused
<1>12. \A n : \A k \in 0 .. Len(wire) : Reaches(k, n) => Reaches(k, n)'
  BY <1>2, <1>3, <1>6, ReachesWithout
<1>13. \A k : GapWithin(k)' = GapWithin(k)
  BY <1>2 DEF GapWithin
<1>14. Len(wire) \in Nat /\ DOMAIN wire = 1 .. Len(wire)
  BY <1>3, WireTypes
<1>15. TypeSocket' /\ TypeClient'
  BY <1>2, <1>3, <1>6, <1>7, <1>10 DEF TypeSocket, TypeClient
<1>16. LinkInv'
  BY <1>2, <1>3, <1>4, <1>6 DEF LinkInv
<1>17. ClientInv'
  BY <1>2, <1>3, <1>6, <1>11 DEF ClientInv, Moves
<1>18. ReplayInv'
  <2>1. ReplayInv /\ client.asks \in Nat
    BY <1>3, <1>4
  <2>2. replay.on => replay.id \in 1 .. id
    BY <1>4, <2>1 DEF ReplayInv
  <2>3. QED
    BY <1>2, <1>6, <1>11, <1>12, <1>13, <1>14, <2>1, <2>2 DEF ReplayInv
<1>19. LiveInv'
  BY <1>2, <1>3, <1>6, <1>11, <1>12, <1>13, <1>14 DEF LiveInv
<1>20. EmptyInv'
  BY <1>2, <1>3, <1>6, <1>11 DEF EmptyInv, Live
<1>21. WireInv'
  <2> SUFFICES ASSUME NEW i \in DOMAIN wire
               PROVE  /\ wire[i].epoch = client.epoch /\ client.epoch \in DOMAIN logs
                      /\ wire[i].sequence <= Len(logs[client.epoch])
                      /\ wire[i].kind = "event" =>
                           /\ wire[i].sequence > 0
                           /\ logs[client.epoch][wire[i].sequence] = wire[i].event
                           /\ IsLost' /\ ~ Excused' => GapWithin(i - 1)'
                           /\ ~ Excused' => Reaches(i - 1, wire[i].sequence - 1)'
                      /\ wire[i].kind = "response" =>
                           /\ wire[i].id \in 1 .. client'.asks
                           /\ replay.on => wire[i].id < replay.id
                           /\ \A k \in DOMAIN requests' : wire[i].id < requests'[k].id
                           /\ Reaches(i - 1, wire[i].sequence)'
                           /\ wire[i].id = client'.asks =>
                                \A l \in i + 1 .. Len(wire) :
                                  Moves(wire[l]) => wire[l].sequence > wire[i].sequence
    BY <1>2, <1>6 DEF WireInv, Moves
  <2>1. i - 1 \in 0 .. Len(wire)
    BY <1>14
  <2>2. CASE wire[i].kind = "event"
    <3>1. /\ wire[i].epoch = client.epoch /\ client.epoch \in DOMAIN logs
          /\ wire[i].sequence <= Len(logs[client.epoch]) /\ wire[i].sequence > 0
          /\ logs[client.epoch][wire[i].sequence] = wire[i].event
          /\ IsLost /\ ~ Excused => GapWithin(i - 1)
          /\ ~ Excused => Reaches(i - 1, wire[i].sequence - 1)
      BY <1>3, <2>2 DEF WireInv
    <3>2. IsLost' /\ ~ Excused' => GapWithin(i - 1)'
      BY <1>11, <1>13, <3>1
    <3>3. ~ Excused' => Reaches(i - 1, wire[i].sequence - 1)'
      BY <1>2, <1>11, <1>12, <2>1, <3>1
    <3>4. QED
      BY <2>2, <3>1, <3>2, <3>3
  <2>3. CASE wire[i].kind = "response"
    <3>1. /\ wire[i].epoch = client.epoch /\ client.epoch \in DOMAIN logs
          /\ wire[i].sequence <= Len(logs[client.epoch])
          /\ wire[i].id \in 1 .. client.asks
          /\ replay.on => wire[i].id < replay.id
          /\ \A k \in DOMAIN requests : wire[i].id < requests[k].id
          /\ Reaches(i - 1, wire[i].sequence)
      BY <1>3, <2>3 DEF WireInv
    <3>2. wire[i].id \in 1 .. id /\ wire[i].id # id /\ wire[i].id < id
      BY <1>4, <3>1
    <3>3. \A k \in DOMAIN requests' : wire[i].id < requests'[k].id
      BY <1>9, <1>10, <3>1, <3>2
    <3>4. Reaches(i - 1, wire[i].sequence)'
      BY <1>2, <1>12, <2>1, <3>1
    <3>5. client'.asks = id
      BY <1>6
    <3> HIDE DEF id
    <3>6. QED
      BY <2>3, <3>1, <3>2, <3>3, <3>4, <3>5
  <2>4. CASE wire[i].kind \notin {"event", "response"}
    BY <1>3, <2>4 DEF WireInv
  <2>5. QED
    BY <2>2, <2>3, <2>4
<1>22. RequestInv'
  <2> SUFFICES ASSUME NEW k \in DOMAIN requests'
               PROVE  /\ requests'[k].id <= id /\ (replay.on => replay.id < requests'[k].id)
                      /\ \A l \in k + 1 .. Len(requests') : requests'[k].id < requests'[l].id
                      /\ IsLost => requests'[k].epoch = client.consumedEpoch
                      /\ requests'[k].epoch = 0 => requests'[k].after = 0
                      /\ requests'[k].epoch = client.epoch => IsOn /\ requests'[k].after <= client.consumed
                      /\ requests'[k].fromStart =>
                           /\ requests'[k].epoch = 0
                           /\ Excused' \/ (requests'[k].id = 1 /\ IsNew)
                      /\ requests'[k].id = 1 => wire = <<>> /\ ~ subscribed /\ ~ replay.on
    BY <1>2, <1>6, <1>11, Zenon DEF RequestInv
  <2>1. CASE k \in 1 .. Len(requests)
    <3>1. requests'[k] = requests[k] /\ k \in DOMAIN requests
      BY <1>10, <2>1
    <3>2. /\ requests[k].id <= client.asks /\ (replay.on => replay.id < requests[k].id)
          /\ \A l \in k + 1 .. Len(requests) : requests[k].id < requests[l].id
          /\ IsLost => requests[k].epoch = client.consumedEpoch
          /\ requests[k].epoch = 0 => requests[k].after = 0
          /\ requests[k].epoch = client.epoch => IsOn /\ requests[k].after <= client.consumed
          /\ requests[k].fromStart =>
               /\ requests[k].epoch = 0
               /\ Excused \/ (requests[k].id = 1 /\ IsNew)
          /\ requests[k].id = 1 => wire = <<>> /\ ~ subscribed /\ ~ replay.on
      BY <1>3, <3>1 DEF RequestInv
    <3>3. requests[k].id \in Nat
      BY <1>3, <3>1, RequestTypes
    <3>4. requests[k].id < id
      BY <1>4, <3>2, <3>3
    <3>5. \A l \in k + 1 .. Len(requests') : requests[k].id < requests'[l].id
      <4> TAKE l \in k + 1 .. Len(requests')
      <4>1. CASE l = Len(requests) + 1
        BY <1>9, <1>10, <3>4, <4>1
      <4>2. CASE l # Len(requests) + 1
        <5>1. l \in k + 1 .. Len(requests) /\ l \in 1 .. Len(requests)
          BY <1>10, <2>1, <4>2
        <5>2. QED
          BY <1>10, <3>2, <5>1
      <4>3. QED
        BY <4>1, <4>2
    <3>6. requests[k].id <= id
      BY <1>4, <3>3, <3>4
    <3>7. QED
      BY <1>11, <3>1, <3>2, <3>5, <3>6
  <2>2. CASE k = Len(requests) + 1
    <3>1. requests'[k] = new /\ ~ \E l \in k + 1 .. Len(requests') : TRUE
      BY <1>10, <2>2
    <3>2. replay.on => replay.id < id
      <4>1. replay.on => replay.id \in 1 .. client.asks
        BY <1>3 DEF ReplayInv
      <4>2. QED
        BY <1>4, <4>1
    <3>3. IsNew => client.consumed = 0
      BY <1>3 DEF ClientInv, IsOn
    <3>4. client.epoch > 0 /\ client.epoch = epoch
      BY <1>2, <1>3 DEF LinkInv
    <3>5. client.consumedEpoch = client.epoch => IsOn
      BY <3>4 DEF IsOn, IsNew
    <3>6. fromStart => Excused' \/ (id = 1 /\ IsNew)
      <4>1. CASE client.asks > 0
        BY <1>1, <1>6, <3>4, <4>1 DEF Excused
      <4>2. CASE client.asks = 0
        BY <1>1, <4>2 DEF IsNew
      <4>3. QED
        BY <1>4, <4>1, <4>2
    <3>7. id = 1 => wire = <<>> /\ ~ subscribed /\ ~ replay.on
      BY <1>3, <1>4 DEF LinkInv
    <3>8. id <= id /\ client.consumed <= client.consumed
      BY <1>4
    <3>9. IsNew <=> client.consumedEpoch = 0
      BY DEF IsNew
    <3> HIDE DEF id
    <3>10. QED
      BY <1>1, <1>9, <3>1, <3>2, <3>3, <3>5, <3>6, <3>7, <3>8, <3>9
  <2>3. QED
    BY <1>10, <2>1, <2>2
<1>23. QED
  BY <1>15, <1>16, <1>17, <1>18, <1>19, <1>20, <1>21, <1>22 DEF ConnOK, ConnInv

\* What acknowledgeEvents makes of a position in the client's own epoch.
LEMMA AcknowledgedIs ==
    ASSUME TypeClient, NEW n \in Nat, client.epoch > 0, NEW a, a = Acknowledge(client, n, client.epoch)
    PROVE  /\ a \in Clients /\ a.epoch = client.epoch /\ a.consumedEpoch = client.epoch
           /\ a.consumed = IF IsOn /\ client.consumed > n THEN client.consumed ELSE n
           /\ a.asks = client.asks /\ a.pending = client.pending /\ a.answer = client.answer
           /\ a.synced = client.synced
<1>1. client \in Clients /\ client.epoch \in 0 .. MaxEpoch /\ client.consumed \in Nat
  BY ClientTypes DEF TypeClient
<1> DEFINE m == IF client.consumedEpoch # client.epoch THEN n ELSE Max({client.consumed, n})
<1>2. a = [client EXCEPT !.consumedEpoch = client.epoch, !.consumed = m]
  BY <1>1 DEF Acknowledge, Clients
<1>3. IsOn <=> client.consumedEpoch = client.epoch
  BY DEF IsOn, IsNew
<1>4. m = IF IsOn /\ client.consumed > n THEN client.consumed ELSE n
  BY <1>1, <1>3, MaxOfTwo
<1>5. m \in Nat
  BY <1>1, <1>4
<1> HIDE DEF m
<1>6. /\ a.epoch = client.epoch /\ a.consumedEpoch = client.epoch /\ a.consumed = m
      /\ a.asks = client.asks /\ a.pending = client.pending /\ a.answer = client.answer
      /\ a.synced = client.synced
  BY <1>1, <1>2 DEF Clients
<1>7. a \in Clients
  <2>1. ASSUME NEW c \in Clients PROVE [c EXCEPT !.consumedEpoch = client.epoch] \in Clients
    BY <1>1 DEF Clients
  <2>2. ASSUME NEW c \in Clients PROVE [c EXCEPT !.consumed = m] \in Clients
    BY <1>5 DEF Clients
  <2>3. a = [[client EXCEPT !.consumedEpoch = client.epoch] EXCEPT !.consumed = m]
    BY <1>1, <1>2 DEF Clients
  <2>4. QED
    BY <1>1, <2>1, <2>2, <2>3
<1>8. QED
  BY <1>4, <1>6, <1>7

\* Reading a frame: what the wire promises from its second frame on, the rest
\* of the wire promises from its first.
LEMMA ReachesReceive ==
    ASSUME TypeSocket, TypeClient, WireInv, ClientInv, LinkInv, wire # <<>>, wire' = Tail(wire),
           client'.epoch = client.epoch, NEW f, f = wire[1],
           \/ /\ client' = client
              /\ \/ f.kind = "event" /\ IsOn /\ client.consumed >= f.sequence
                 \/ f.kind = "response" /\ f.id # client.pending
           \/ /\ Moves(f) /\ client'.answer = client.answer /\ IsOn'
              /\ client'.consumed >= f.sequence /\ (IsOn => client'.consumed >= client.consumed)
           \/ /\ f.kind = "response" /\ f.id = client.pending
              /\ client'.consumedEpoch = client.consumedEpoch /\ client'.consumed = client.consumed
              /\ client'.pending = 0
              /\ client'.answer = [given |-> TRUE, sequence |-> f.sequence],
           client'.consumed \in Nat,
           NEW k \in 1 .. Len(wire), NEW n \in Nat, Reaches(k, n)
    PROVE  Reaches(k - 1, n)'
<1>1. /\ Len(wire) \in Nat /\ DOMAIN wire = 1 .. Len(wire) /\ f.sequence \in Nat /\ f.id \in Nat
      /\ \A j \in DOMAIN wire : wire[j].sequence \in Nat /\ wire[j].id \in Nat
      /\ client.consumed \in Nat /\ client.pending \in Nat /\ 1 \in DOMAIN wire
  <2>1. 1 \in DOMAIN wire
    <3>1. wire \in Seq(Frames)
      BY DEF TypeSocket
    <3>2. QED
      BY <3>1, EmptySeq
  <2>2. client.consumed \in Nat /\ client.pending \in Nat
    BY ClientTypes
  <2>3. QED
    BY <2>1, <2>2, WireTypes
<1>2. \A j \in 1 .. Len(wire) - 1 : wire'[j] = wire[j + 1]
  BY HeadTailProperties DEF TypeSocket
<1>3. ASSUME NEW j \in 1 .. k, j # 1
      PROVE  j - 1 \in 1 .. k - 1 /\ wire'[j - 1] = wire[j]
  <2>1. j - 1 \in 1 .. k - 1 /\ j - 1 \in 1 .. Len(wire) - 1 /\ (j - 1) + 1 = j
    BY <1>1, <1>3
  <2>2. QED
    BY <1>2, <2>1
<1>4. CASE IsOn /\ client.consumed >= n
  <2>1. IsOn' /\ client'.consumed >= n
    BY <1>1, <1>4, SMT DEF IsOn, IsNew
  <2>2. QED
    BY <2>1 DEF Reaches
<1>5. CASE client.answer.given /\ client.answer.sequence >= n
  <2>1. client.pending = 0
    BY <1>5 DEF ClientInv
  <2>2. f.kind = "response" => f.id # 0
    BY <1>1 DEF WireInv
  <2>3. client'.answer = client.answer
    BY <2>1, <2>2
  <2>4. QED
    BY <1>5, <2>3 DEF Reaches
<1>6. CASE \E j \in 1 .. k : Moves(wire[j]) /\ wire[j].sequence >= n
  <2>1. PICK j \in 1 .. k : Moves(wire[j]) /\ wire[j].sequence >= n
    BY <1>6
  <2>2. CASE j = 1
    <3>1. f.sequence >= n /\ f.kind # "response"
      BY <2>1, <2>2 DEF Moves
    <3>2. IsOn' /\ client'.consumed >= n
      BY <1>1, <3>1 DEF IsOn, IsNew
    <3>3. QED
      BY <3>2 DEF Reaches
  <2>3. CASE j # 1
    <3>1. j - 1 \in 1 .. k - 1 /\ wire'[j - 1] = wire[j]
      BY <1>3, <2>3
    <3>2. QED
      BY <2>1, <3>1 DEF Reaches, Moves
  <2>4. QED
    BY <2>2, <2>3
<1>7. CASE /\ IsNew /\ ~ client.answer.given
           /\ \A j \in 1 .. k :
                ~ Moves(wire[j]) /\ (wire[j].id = client.pending => wire[j].sequence >= n)
  <2>1. ~ Moves(f) /\ (f.id = client.pending => f.sequence >= n)
    BY <1>1, <1>7
  <2>2. f.kind # "event" /\ ~ IsOn
    BY <1>7, <2>1 DEF Moves, IsOn
  <2>3. CASE client' = client /\ f.kind = "response" /\ f.id # client.pending
    <3>1. ASSUME NEW j \in 1 .. k - 1
          PROVE  ~ Moves(wire'[j]) /\ (wire'[j].id = client.pending => wire'[j].sequence >= n)
      <4>1. j + 1 \in 1 .. k /\ wire'[j] = wire[j + 1]
        BY <1>1, <1>2
      <4>2. QED
        BY <1>7, <4>1
    <3>2. QED
      BY <1>7, <2>3, <3>1 DEF Reaches, Moves, IsNew
  <2>4. CASE f.id = client.pending /\ client'.answer = [given |-> TRUE, sequence |-> f.sequence]
    BY <2>1, <2>4 DEF Reaches
  <2>5. QED
    BY <2>1, <2>2, <2>3, <2>4
<1>8. QED
  BY <1>4, <1>5, <1>6, <1>7 DEF Reaches

\* What reading one frame does to the client.
LEMMA ReceiveIs ==
    ASSUME StoreOK, ConnOK, Receive, NEW f, f = wire[1]
    PROVE  /\ wire # <<>> /\ wire' = Tail(wire) /\ f \in Frames /\ f.epoch = client.epoch
           /\ client.epoch > 0 /\ client.epoch \in DOMAIN logs /\ f.sequence <= Len(logs[client.epoch])
           /\ UNCHANGED <<epoch, stage, sequence, history, link, choked, subscribed, replay, requests,
                          logs, excused, faults>>
           /\ client' \in Clients /\ client'.epoch = client.epoch /\ client'.asks = client.asks
           /\ client'.synced = client.synced
           /\ \/ /\ client' = client /\ heard' = heard
                 /\ \/ f.kind = "event" /\ IsOn /\ client.consumed >= f.sequence
                    \/ f.kind = "response" /\ f.id # client.pending
              \/ /\ Moves(f) /\ client'.answer = client.answer /\ client'.pending = client.pending
                 /\ client'.consumedEpoch = client.epoch
                 /\ client'.consumed = IF IsOn /\ client.consumed > f.sequence THEN client.consumed
                                       ELSE f.sequence
                 /\ f.kind = "event" /\ IsOn => client.consumed < f.sequence
                 /\ heard' = IF f.kind = "event" THEN Feed!Event(f.event) ELSE Feed!Gap
              \/ /\ f.kind = "response" /\ f.id = client.pending
                 /\ client'.consumedEpoch = client.consumedEpoch /\ client'.consumed = client.consumed
                 /\ client'.pending = 0
                 /\ client'.answer = [given |-> TRUE, sequence |-> f.sequence]
                 /\ heard' = heard
<1>1. /\ link # "none" /\ wire # <<>> /\ wire' = Tail(wire)
      /\ UNCHANGED <<epoch, stage, sequence, history, link, choked, subscribed, replay, requests,
                     logs, excused, faults>>
  BY DEF Receive, server, ghosts
<1>2. TypeSocket /\ TypeClient /\ WireInv /\ LinkInv
  BY DEF ConnOK, ConnInv
<1>3. wire \in Seq(Frames) /\ Len(wire) \in Nat /\ 1 \in DOMAIN wire /\ Head(wire) = f
  <2>1. wire \in Seq(Frames)
    BY <1>2 DEF TypeSocket
  <2>2. QED
    BY <1>1, <2>1, EmptySeq
<1>4. /\ f \in Frames /\ f.sequence \in Nat /\ f.kind \in {"event", "gap", "response"}
      /\ f.epoch = client.epoch /\ client.epoch \in DOMAIN logs /\ f.sequence <= Len(logs[client.epoch])
  BY <1>2, <1>3, WireTypes DEF WireInv
<1>5. client.epoch > 0 /\ client \in Clients /\ client.consumed \in Nat /\ client.epoch \in Nat
  BY <1>1, <1>2, ClientTypes DEF LinkInv, TypeClient
<1>6. IsOn <=> client.consumedEpoch = client.epoch
  BY <1>5 DEF IsOn, IsNew
<1>7. Duplicate(f) <=> IsOn /\ f.sequence <= client.consumed
  BY <1>4, <1>6 DEF Duplicate
<1>8. CASE f.kind = "event" /\ Duplicate(f) /\ UNCHANGED <<client, heard>>
  BY <1>1, <1>4, <1>5, <1>7, <1>8
<1>9. ASSUME client' = Acknowledge(client, f.sequence, f.epoch)
      PROVE  /\ client' \in Clients /\ client'.epoch = client.epoch /\ client'.asks = client.asks
             /\ client'.synced = client.synced
             /\ client'.answer = client.answer /\ client'.pending = client.pending
             /\ client'.consumedEpoch = client.epoch
             /\ client'.consumed = IF IsOn /\ client.consumed > f.sequence THEN client.consumed
                                   ELSE f.sequence
  BY <1>2, <1>4, <1>5, <1>9, AcknowledgedIs
<1>10. CASE /\ f.kind = "event" /\ ~ Duplicate(f)
            /\ client' = Acknowledge(client, f.sequence, f.epoch) /\ heard' = Feed!Event(f.event)
  <2>1. IsOn => client.consumed < f.sequence
    BY <1>4, <1>5, <1>7, <1>10
  <2>2. QED
    BY <1>1, <1>4, <1>5, <1>9, <1>10, <2>1 DEF Moves
<1>11. CASE /\ f.kind = "gap"
            /\ client' = Acknowledge(client, f.sequence, f.epoch) /\ heard' = Feed!Gap
  BY <1>1, <1>4, <1>5, <1>9, <1>11 DEF Moves
<1>12. CASE f.kind = "response" /\ f.id # client.pending /\ UNCHANGED <<client, heard>>
  BY <1>1, <1>4, <1>5, <1>12
<1>13. CASE /\ f.kind = "response" /\ f.id = client.pending
            /\ client' = [client EXCEPT !.pending = 0,
                                        !.answer = [given |-> TRUE, sequence |-> f.sequence]]
            /\ UNCHANGED heard
  <2> DEFINE an == [given |-> TRUE, sequence |-> f.sequence]
  <2>1. an \in [given : BOOLEAN, sequence : Nat] /\ 0 \in 0 .. MaxAsks
    BY <1>4, BoundAssumption
  <2>2. client' = [[client EXCEPT !.pending = 0] EXCEPT !.answer = an]
    BY <1>5, <1>13 DEF Clients
  <2> HIDE DEF an
  <2>3. ASSUME NEW c \in Clients
        PROVE  [c EXCEPT !.pending = 0] \in Clients /\ [c EXCEPT !.answer = an] \in Clients
    BY <2>1 DEF Clients
  <2>4. client' \in Clients
    BY <1>5, <2>2, <2>3
  <2>5. /\ client'.epoch = client.epoch /\ client'.asks = client.asks /\ client'.synced = client.synced
        /\ client'.consumedEpoch = client.consumedEpoch /\ client'.consumed = client.consumed
        /\ client'.pending = 0 /\ client'.answer = an
    BY <1>5, <2>2 DEF Clients
  <2>6. QED
    BY <1>1, <1>4, <1>5, <1>13, <2>4, <2>5 DEF an
<1>14. QED
  BY <1>3, <1>8, <1>10, <1>11, <1>12, <1>13, Zenon DEF Receive

LEMMA ReceiveConn == ASSUME StoreOK, ConnOK, Receive PROVE ConnOK'
<1> DEFINE f == wire[1]
<1>1. /\ wire # <<>> /\ wire' = Tail(wire) /\ f \in Frames /\ f.epoch = client.epoch
      /\ client.epoch > 0 /\ client.epoch \in DOMAIN logs /\ f.sequence <= Len(logs[client.epoch])
      /\ UNCHANGED <<epoch, stage, sequence, history, link, choked, subscribed, replay, requests,
                     logs, excused, faults>>
      /\ client' \in Clients /\ client'.epoch = client.epoch /\ client'.asks = client.asks
      /\ client'.synced = client.synced
  BY ReceiveIs
<1>2. \/ /\ client' = client /\ heard' = heard
         /\ \/ f.kind = "event" /\ IsOn /\ client.consumed >= f.sequence
            \/ f.kind = "response" /\ f.id # client.pending
      \/ /\ Moves(f) /\ client'.answer = client.answer /\ client'.pending = client.pending
         /\ client'.consumedEpoch = client.epoch
         /\ client'.consumed = IF IsOn /\ client.consumed > f.sequence THEN client.consumed
                               ELSE f.sequence
         /\ f.kind = "event" /\ IsOn => client.consumed < f.sequence
         /\ heard' = IF f.kind = "event" THEN Feed!Event(f.event) ELSE Feed!Gap
      \/ /\ f.kind = "response" /\ f.id = client.pending
         /\ client'.consumedEpoch = client.consumedEpoch /\ client'.consumed = client.consumed
         /\ client'.pending = 0
         /\ client'.answer = [given |-> TRUE, sequence |-> f.sequence]
         /\ heard' = heard
  BY ReceiveIs
<1>3. /\ TypeSocket /\ TypeClient /\ LinkInv /\ ClientInv /\ WireInv /\ RequestInv /\ ReplayInv
      /\ LiveInv /\ EmptyInv
  BY DEF ConnOK, ConnInv
<1>4. /\ wire \in Seq(Frames) /\ Len(wire) \in Nat /\ DOMAIN wire = 1 .. Len(wire) /\ Len(wire) > 0
      /\ wire' \in Seq(Frames) /\ Len(wire') = Len(wire) - 1 /\ DOMAIN wire' = 1 .. Len(wire) - 1
      /\ \A i \in 1 .. Len(wire) - 1 : wire'[i] = wire[i + 1]
      /\ 1 \in DOMAIN wire
  <2>1. wire \in Seq(Frames)
    BY <1>3 DEF TypeSocket
  <2>2. QED
    BY <1>1, <2>1, HeadTailProperties, EmptySeq
<1>5. /\ f.kind \in {"event", "gap", "response"} /\ f.sequence \in Nat /\ f.id \in Nat
      /\ f.event \in 0 .. MaxEvents
  BY <1>3, <1>4, WireTypes
<1>6. /\ client.consumed \in Nat /\ client'.consumed \in Nat /\ client.epoch \in Nat
      /\ client.pending \in Nat /\ client.asks \in Nat /\ client.answer.sequence \in Nat
  BY <1>1, <1>3, ClientTypes DEF Clients
<1> HIDE DEF f
<1>7. /\ IsOn <=> client.consumedEpoch = client.epoch
      /\ IsOn' <=> client'.consumedEpoch = client.epoch
  BY <1>1 DEF IsOn, IsNew
<1>8. /\ IsOn => IsOn' /\ client'.consumed >= client.consumed
      /\ Moves(f) => IsOn' /\ client'.consumed >= f.sequence
  BY <1>2, <1>5, <1>6, <1>7 DEF Moves
<1>9. IsLost' => IsLost /\ client'.consumedEpoch = client.consumedEpoch /\ ~ Moves(f)
  BY <1>1, <1>2, <1>5, <1>7, <1>8 DEF IsLost, IsNew, IsOn, Moves
<1>10. ASSUME NEW k \in 1 .. Len(wire), NEW n \in Nat, Reaches(k, n)
       PROVE  Reaches(k - 1, n)'
  <2>1. \/ /\ client' = client
           /\ \/ f.kind = "event" /\ IsOn /\ client.consumed >= f.sequence
              \/ f.kind = "response" /\ f.id # client.pending
        \/ /\ Moves(f) /\ client'.answer = client.answer /\ IsOn'
           /\ client'.consumed >= f.sequence /\ (IsOn => client'.consumed >= client.consumed)
        \/ /\ f.kind = "response" /\ f.id = client.pending
           /\ client'.consumedEpoch = client.consumedEpoch /\ client'.consumed = client.consumed
           /\ client'.pending = 0
           /\ client'.answer = [given |-> TRUE, sequence |-> f.sequence]
    BY <1>2, <1>8
  <2>2. f = wire[1]
    BY DEF f
  <2>3. QED
    BY <1>1, <1>3, <1>6, <1>10, <2>1, <2>2, ReachesReceive
<1>11. ASSUME NEW k \in 1 .. Len(wire), GapWithin(k), ~ Moves(f)
       PROVE  GapWithin(k - 1)'
  <2>1. PICK j \in 1 .. k : wire[j].kind = "gap"
    BY <1>11 DEF GapWithin
  <2>2. j # 1
    BY <1>11, <2>1 DEF Moves, f
  <2>3. j - 1 \in 1 .. k - 1 /\ j - 1 \in 1 .. Len(wire) - 1 /\ (j - 1) + 1 = j
    BY <1>4, <2>2
  <2>4. wire'[j - 1] = wire[j]
    BY <1>4, <2>3
  <2>5. QED
    BY <2>1, <2>3, <2>4 DEF GapWithin
<1>12. f.kind = "response" /\ f.id = client.pending =>
         /\ client.pending = client.asks /\ client.asks > 0 /\ requests = <<>> /\ ~ replay.on
         /\ ~ IsLost /\ (IsOn => f.sequence <= client.consumed)
         /\ \A l \in 2 .. Len(wire) : Moves(wire[l]) => wire[l].sequence > f.sequence
  <2> SUFFICES ASSUME f.kind = "response", f.id = client.pending
               PROVE  /\ client.pending = client.asks /\ client.asks > 0 /\ requests = <<>> /\ ~ replay.on
                      /\ ~ IsLost /\ (IsOn => f.sequence <= client.consumed)
                      /\ \A l \in 2 .. Len(wire) : Moves(wire[l]) => wire[l].sequence > f.sequence
    OBVIOUS
  <2>1. /\ f.id \in 1 .. client.asks
        /\ replay.on => f.id < replay.id
        /\ \A k \in DOMAIN requests : f.id < requests[k].id
        /\ Reaches(1 - 1, f.sequence)
        /\ f.id = client.asks =>
             \A l \in 1 + 1 .. Len(wire) : Moves(wire[l]) => wire[l].sequence > f.sequence
    BY <1>3, <1>4 DEF WireInv, f
  <2>2. client.pending = client.asks /\ client.asks > 0
    BY <1>3, <1>6, <2>1 DEF ClientInv
  <2>3. ~ client.answer.given
    BY <1>3, <2>2 DEF ClientInv
  <2>4. ~ replay.on
    <3>1. replay.on => replay.id \in 1 .. client.asks
      BY <1>3 DEF ReplayInv
    <3>2. QED
      BY <1>6, <2>1, <2>2, <3>1
  <2>5. requests = <<>>
    <3>1. requests \in Seq(Requests) /\ Len(requests) \in Nat
      BY <1>3 DEF TypeSocket
    <3>2. \A k \in DOMAIN requests : requests[k].id <= client.asks /\ requests[k].id \in Nat
      BY <1>3, RequestTypes DEF RequestInv
    <3>3. ~ 1 \in DOMAIN requests
      BY <1>6, <2>1, <2>2, <3>2
    <3>4. QED
      BY <3>1, <3>3, EmptySeq
  <2>6. ~ IsLost /\ (IsOn => f.sequence <= client.consumed)
    <3>1. \/ IsOn /\ client.consumed >= f.sequence
          \/ IsNew
      BY <2>1, <2>3 DEF Reaches
    <3>2. QED
      BY <1>5, <1>6, <3>1 DEF IsOn, IsLost
  <2>7. QED
    BY <2>1, <2>2, <2>4, <2>5, <2>6
<1>13. TypeSocket'
  BY <1>1, <1>3, <1>4 DEF TypeSocket
<1>14. TypeClient'
  <2>1. heard' \in [kind : {"nothing", "gap", "event"}, event : 0 .. MaxEvents]
    BY <1>2, <1>3, <1>5, BoundAssumption DEF TypeClient, Feed!Event, Feed!Gap
  <2>2. client'.consumedEpoch <= client'.epoch
    BY <1>1, <1>2, <1>3, <1>6 DEF TypeClient
  <2>3. QED
    BY <1>1, <1>3, <2>1, <2>2 DEF TypeClient
<1>15. LinkInv'
  <2>1. client.asks # 0
    BY <1>1, <1>3 DEF LinkInv
  <2>2. QED
    BY <1>1, <1>3, <2>1 DEF LinkInv
<1>16. ClientInv'
  <2>1. ~ IsOn' => client'.consumed = 0
    BY <1>2, <1>3, <1>7, <1>8 DEF ClientInv
  <2>2. client'.consumed <= Len(logs[client.epoch]) \/ ~ IsOn'
    BY <1>1, <1>2, <1>3, <1>5, <1>6, <1>7 DEF ClientInv
  <2>3. client'.pending \in {0, client.asks}
    BY <1>2, <1>3 DEF ClientInv
  <2>4. client'.answer.given \/ client'.synced => client'.pending = 0 /\ requests = <<>> /\ ~ replay.on
    BY <1>1, <1>2, <1>3, <1>12 DEF ClientInv
  <2>5. ASSUME client'.answer.given
        PROVE  /\ client'.answer.sequence <= Len(logs[client.epoch])
               /\ ~ IsLost' /\ (IsOn' => client'.answer.sequence <= client'.consumed)
               /\ \A i \in 1 .. Len(wire) - 1 :
                    Moves(wire'[i]) => wire'[i].sequence > client'.answer.sequence
    <3>1. CASE client'.answer = client.answer
      <4>1. /\ client.answer.sequence <= Len(logs[client.epoch])
            /\ ~ IsLost /\ (IsOn => client.answer.sequence <= client.consumed)
            /\ \A i \in DOMAIN wire : Moves(wire[i]) => wire[i].sequence > client.answer.sequence
        BY <1>3, <2>5, <3>1 DEF ClientInv
      <4>2. Moves(f) => f.sequence > client.answer.sequence
        BY <1>4, <4>1 DEF f
      <4>3. IsOn' => client.answer.sequence <= client'.consumed
        <5>1. IsOn' => IsOn \/ Moves(f)
          BY <1>2, <1>7
        <5>2. QED
          BY <1>5, <1>6, <1>8, <4>1, <4>2, <5>1
      <4>4. \A i \in 1 .. Len(wire) - 1 : Moves(wire'[i]) => wire'[i].sequence > client.answer.sequence
        <5> TAKE i \in 1 .. Len(wire) - 1
        <5>1. i + 1 \in DOMAIN wire /\ wire'[i] = wire[i + 1]
          BY <1>4
        <5>2. QED
          BY <4>1, <5>1
      <4>5. QED
        BY <1>9, <3>1, <4>1, <4>3, <4>4
    <3>2. CASE f.kind = "response" /\ f.id = client.pending
      <4>1. /\ client'.answer.sequence = f.sequence /\ client'.consumed = client.consumed
            /\ client'.consumedEpoch = client.consumedEpoch
        <5>1. ~ Moves(f)
          BY <3>2 DEF Moves
        <5>2. QED
          BY <1>2, <3>2, <5>1
      <4>2. IsOn' <=> IsOn
        BY <1>7, <4>1
      <4>3. \A i \in 1 .. Len(wire) - 1 : Moves(wire'[i]) => wire'[i].sequence > f.sequence
        <5> TAKE i \in 1 .. Len(wire) - 1
        <5>1. i + 1 \in 2 .. Len(wire) /\ wire'[i] = wire[i + 1]
          BY <1>4
        <5>2. QED
          BY <1>12, <3>2, <5>1
      <4>4. QED
        BY <1>1, <1>9, <1>12, <3>2, <4>1, <4>2, <4>3
    <3>3. QED
      BY <1>2, <3>1, <3>2
  <2>6. QED
    BY <1>1, <1>4, <2>1, <2>2, <2>3, <2>4, <2>5 DEF ClientInv, Moves
<1>17. WireInv'
  <2> SUFFICES ASSUME NEW i \in DOMAIN wire'
               PROVE  /\ wire'[i].epoch = client'.epoch /\ client'.epoch \in DOMAIN logs'
                      /\ wire'[i].sequence <= Len(logs'[client'.epoch])
                      /\ wire'[i].kind = "event" =>
                           /\ wire'[i].sequence > 0
                           /\ logs'[client'.epoch][wire'[i].sequence] = wire'[i].event
                           /\ IsLost' /\ ~ Excused' => GapWithin(i - 1)'
                           /\ ~ Excused' => Reaches(i - 1, wire[i].sequence - 1)'
                      /\ wire'[i].kind = "response" =>
                           /\ wire'[i].id \in 1 .. client'.asks
                           /\ replay'.on => wire'[i].id < replay'.id
                           /\ \A k \in DOMAIN requests' : wire'[i].id < requests'[k].id
                           /\ Reaches(i - 1, wire[i].sequence)'
                           /\ wire'[i].id = client'.asks =>
                                \A l \in i + 1 .. Len(wire') :
                                  Moves(wire[l])' => wire'[l].sequence > wire'[i].sequence
    BY Zenon DEF WireInv
  <2>0. (Excused' <=> Excused) /\ i \in 1 .. Len(wire) - 1
    BY <1>1, <1>4 DEF Excused
  <2> DEFINE g == wire[i + 1]
  <2>1. /\ i + 1 \in DOMAIN wire /\ wire'[i] = g /\ i \in 1 .. Len(wire) /\ (i + 1) - 1 = i
        /\ g.sequence \in Nat /\ g.kind \in {"event", "gap", "response"}
    BY <1>3, <1>4, <2>0, WireTypes
  <2>2. /\ g.epoch = client.epoch /\ g.sequence <= Len(logs[client.epoch])
        /\ g.kind = "event" =>
             /\ g.sequence > 0
             /\ logs[client.epoch][g.sequence] = g.event
             /\ IsLost /\ ~ Excused => GapWithin(i)
             /\ ~ Excused => Reaches(i, g.sequence - 1)
        /\ g.kind = "response" =>
             /\ g.id \in 1 .. client.asks
             /\ replay.on => g.id < replay.id
             /\ \A k \in DOMAIN requests : g.id < requests[k].id
             /\ Reaches(i, g.sequence)
             /\ g.id = client.asks =>
                  \A l \in i + 2 .. Len(wire) : Moves(wire[l]) => wire[l].sequence > g.sequence
    <3>1. (i + 1) + 1 = i + 2
      BY <2>1
    <3>2. QED
      BY <1>3, <2>1, <3>1, Zenon DEF WireInv
  <2> HIDE DEF g
  <2>3. CASE g.kind = "event"
    <3>1. IsLost' /\ ~ Excused => GapWithin(i - 1)'
      BY <1>9, <1>11, <2>1, <2>2, <2>3
    <3>2. g.sequence - 1 \in Nat
      BY <2>1, <2>2, <2>3
    <3>3. \A n : n = g.sequence - 1 /\ ~ Excused => Reaches(i - 1, n)'
      BY <1>10, <2>1, <2>2, <2>3, <3>2
    <3>4. ~ Excused => Reaches(i - 1, wire[i].sequence - 1)'
      BY <2>1, <3>3
    <3>5. QED
      BY <1>1, <2>0, <2>1, <2>2, <2>3, <3>1, <3>4
  <2>4. CASE g.kind = "response"
    <3>1. \A n : n = g.sequence => Reaches(i - 1, n)'
      BY <1>10, <2>1, <2>2, <2>4
    <3>2. Reaches(i - 1, wire[i].sequence)'
      BY <2>1, <3>1
    <3>3. ASSUME g.id = client.asks, NEW l \in i + 1 .. Len(wire'), Moves(wire[l])'
          PROVE  wire'[l].sequence > g.sequence
      <4>1. l + 1 \in i + 2 .. Len(wire) /\ wire'[l] = wire[l + 1]
        BY <1>4, <2>1
      <4>2. Moves(wire[l + 1])
        BY <3>3, <4>1 DEF Moves
      <4>3. QED
        BY <2>2, <2>4, <3>3, <4>1, <4>2
    <3>4. QED
      BY <1>1, <2>1, <2>2, <2>4, <3>2, <3>3
  <2>5. CASE g.kind = "gap"
    BY <1>1, <2>1, <2>2, <2>5
  <2>6. QED
    BY <2>1, <2>3, <2>4, <2>5
<1>18. RequestInv'
  <2> SUFFICES ASSUME NEW k \in DOMAIN requests
               PROVE  /\ requests[k].id <= client.asks /\ (replay.on => replay.id < requests[k].id)
                      /\ \A l \in k + 1 .. Len(requests) : requests[k].id < requests[l].id
                      /\ IsLost' => requests[k].epoch = client'.consumedEpoch
                      /\ requests[k].epoch = 0 => requests[k].after = 0
                      /\ requests[k].epoch = client.epoch =>
                           IsOn' /\ requests[k].after <= client'.consumed
                      /\ requests[k].fromStart =>
                           /\ requests[k].epoch = 0
                           /\ Excused' \/ (requests[k].id = 1 /\ IsNew')
                      /\ requests[k].id = 1 => wire' = <<>> /\ ~ subscribed /\ ~ replay.on
    BY <1>1 DEF RequestInv
  <2>1. /\ requests[k].id <= client.asks /\ (replay.on => replay.id < requests[k].id)
        /\ \A l \in k + 1 .. Len(requests) : requests[k].id < requests[l].id
        /\ IsLost => requests[k].epoch = client.consumedEpoch
        /\ requests[k].epoch = 0 => requests[k].after = 0
        /\ requests[k].epoch = client.epoch => IsOn /\ requests[k].after <= client.consumed
        /\ requests[k].fromStart =>
             /\ requests[k].epoch = 0
             /\ Excused \/ (requests[k].id = 1 /\ IsNew)
        /\ requests[k].id = 1 => wire = <<>> /\ ~ subscribed /\ ~ replay.on
    BY <1>3 DEF RequestInv
  <2>2. requests[k].id # 1
    BY <1>1, <2>1
  <2>3. Excused => Excused'
    BY <1>1 DEF Excused
  <2>4. requests[k].epoch = client.epoch => IsOn' /\ requests[k].after <= client'.consumed
    <3>1. requests[k].after \in Nat
      BY <1>3, RequestTypes
    <3>2. QED
      BY <1>6, <1>8, <2>1, <3>1
  <2>5. IsLost' => requests[k].epoch = client'.consumedEpoch
    BY <1>9, <2>1
  <2>6. QED
    BY <2>1, <2>2, <2>3, <2>4, <2>5
<1>19. Len(wire) \in 1 .. Len(wire) /\ (Excused' <=> Excused)
  BY <1>1, <1>4 DEF Excused
<1>20. \A m, n : m = Len(wire') /\ n \in Nat /\ Reaches(Len(wire), n) => Reaches(m, n)'
  <2>1. \A m : m = Len(wire') => m = Len(wire) - 1
    BY <1>4
  <2>2. QED
    BY <1>10, <1>19, <2>1
<1>21. GapWithin(Len(wire)) /\ ~ Moves(f) => GapWithin(Len(wire))'
  <2>1. \A m : m = Len(wire') /\ GapWithin(Len(wire)) /\ ~ Moves(f) => GapWithin(m)'
    <3>1. \A m : m = Len(wire') => m = Len(wire) - 1
      BY <1>4
    <3>2. QED
      BY <1>11, <1>19, <3>1
  <2>2. QED
    BY <2>1
<1>22. ReplayInv'
  <2>1. CASE replay.on
    <3>1. /\ stage = "ready" /\ subscribed /\ replay.id \in 1 .. client.asks
          /\ IsLost => replay.gap \/ GapWithin(Len(wire))
          /\ ~ replay.gap /\ (~ Excused \/ replay.cursor >= sequence) => Reaches(Len(wire), replay.cursor)
      BY <1>3, <2>1 DEF ReplayInv
    <3>2. replay.cursor \in Nat
      BY <1>3 DEF TypeSocket
    <3>3. IsLost' => replay.gap \/ GapWithin(Len(wire))'
      BY <1>9, <1>21, <3>1
    <3>4. ~ replay.gap /\ (~ Excused \/ replay.cursor >= sequence) =>
            Reaches(Len(wire), replay.cursor)'
      BY <1>1, <1>20, <3>1, <3>2
    <3>5. QED
      BY <1>1, <1>19, <3>1, <3>3, <3>4 DEF ReplayInv
  <2>2. CASE ~ replay.on
    BY <1>1, <2>2 DEF ReplayInv
  <2>3. QED
    BY <2>1, <2>2
<1>23. LiveInv'
  <2>1. CASE subscribed /\ ~ replay.on /\ ~ Excused
    <3>1. Reaches(Len(wire), sequence) /\ (IsLost => GapWithin(Len(wire)))
      BY <1>3, <2>1 DEF LiveInv
    <3>2. sequence \in Nat
      BY DEF StoreOK, TypeServer
    <3>3. Reaches(Len(wire), sequence)'
      BY <1>1, <1>20, <3>1, <3>2
    <3>4. IsLost' => GapWithin(Len(wire))'
      BY <1>9, <1>21, <3>1
    <3>5. QED
      BY <3>3, <3>4 DEF LiveInv
  <2>2. CASE ~ (subscribed /\ ~ replay.on /\ ~ Excused)
    BY <1>1, <1>19, <2>2 DEF LiveInv
  <2>3. QED
    BY <2>1, <2>2
<1>24. EmptyInv'
  <2> SUFFICES ASSUME Live, history = <<>>, client.epoch = epoch
               PROVE  /\ \A i \in 1 .. Len(wire) - 1 :
                           wire'[i].kind # "event" /\ wire'[i].sequence = sequence
                      /\ IsOn' => client'.consumed = sequence
                      /\ client'.answer.given => client'.answer.sequence = sequence
    BY <1>1, <1>4 DEF EmptyInv, Live
  <2>1. /\ \A i \in DOMAIN wire : wire[i].kind # "event" /\ wire[i].sequence = sequence
        /\ IsOn => client.consumed = sequence
        /\ client.answer.given => client.answer.sequence = sequence
    BY <1>3 DEF EmptyInv
  <2>2. f.kind # "event" /\ f.sequence = sequence
    BY <1>4, <2>1 DEF f
  <2>3. \A i \in 1 .. Len(wire) - 1 : wire'[i].kind # "event" /\ wire'[i].sequence = sequence
    <3> TAKE i \in 1 .. Len(wire) - 1
    <3>1. i + 1 \in DOMAIN wire /\ wire'[i] = wire[i + 1]
      BY <1>4
    <3>2. QED
      BY <2>1, <3>1
  <2>4. IsOn' => client'.consumed = sequence
    BY <1>2, <1>7, <2>1, <2>2
  <2>5. client'.answer.given => client'.answer.sequence = sequence
    BY <1>2, <2>1, <2>2
  <2>6. QED
    BY <2>3, <2>4, <2>5
<1>25. QED
  BY <1>13, <1>14, <1>15, <1>16, <1>17, <1>18, <1>22, <1>23, <1>24 DEF ConnOK, ConnInv

\* The continuation of a subscription takes the position that it was answered.
LEMMA ContinueIs ==
    ASSUME ConnOK, Continue
    PROVE  /\ link # "none" /\ client.answer.given /\ client.epoch > 0
           /\ UNCHANGED <<epoch, stage, sequence, history, link, choked, wire, subscribed, replay,
                          requests, logs, excused, heard, faults>>
           /\ client' \in Clients /\ client'.epoch = client.epoch /\ client'.consumedEpoch = client.epoch
           /\ client'.consumed = IF IsOn THEN client.consumed ELSE client.answer.sequence
           /\ client'.consumed >= client.answer.sequence
           /\ client'.asks = client.asks /\ client'.pending = client.pending
           /\ client'.answer = NoAnswer /\ client'.synced = TRUE
<1> DEFINE a == Acknowledge(client, client.answer.sequence, client.epoch)
<1>1. /\ link # "none" /\ client.answer.given
      /\ client' = [a EXCEPT !.answer = NoAnswer, !.synced = TRUE]
      /\ UNCHANGED <<epoch, stage, sequence, history, link, choked, wire, subscribed, replay,
                     requests, logs, excused, heard, faults>>
  BY DEF Continue, server, socket, ghosts
<1>2. TypeClient /\ ClientInv /\ client.epoch > 0
  BY <1>1 DEF ConnOK, ConnInv, LinkInv
<1>3. client.answer.sequence \in Nat /\ client.consumed \in Nat
  BY <1>2, ClientTypes
<1>4. /\ a \in Clients /\ a.epoch = client.epoch /\ a.consumedEpoch = client.epoch
      /\ a.consumed = IF IsOn /\ client.consumed > client.answer.sequence THEN client.consumed
                      ELSE client.answer.sequence
      /\ a.asks = client.asks /\ a.pending = client.pending /\ a.answer = client.answer
      /\ a.synced = client.synced
  BY <1>2, <1>3, AcknowledgedIs
<1> HIDE DEF a
<1>5. /\ client'.epoch = a.epoch /\ client'.consumedEpoch = a.consumedEpoch
      /\ client'.consumed = a.consumed /\ client'.asks = a.asks /\ client'.pending = a.pending
      /\ client'.answer = NoAnswer /\ client'.synced = TRUE
  BY <1>1, <1>4 DEF Clients
<1>6. client' \in Clients
  <2>1. NoAnswer \in [given : BOOLEAN, sequence : Nat]
    BY DEF NoAnswer
  <2>2. QED
    BY <1>1, <1>4, <2>1 DEF Clients
<1>7. IsOn => client.answer.sequence <= client.consumed
  BY <1>1, <1>2 DEF ClientInv
<1>8. a.consumed = (IF IsOn THEN client.consumed ELSE client.answer.sequence)
      /\ a.consumed >= client.answer.sequence
  BY <1>3, <1>4, <1>7
<1>9. QED
  BY <1>1, <1>2, <1>4, <1>5, <1>6, <1>8

LEMMA ContinueConn == ASSUME StoreOK, ConnOK, Continue PROVE ConnOK'
<1>1. /\ link # "none" /\ client.answer.given /\ client.epoch > 0
      /\ UNCHANGED <<epoch, stage, sequence, history, link, choked, wire, subscribed, replay,
                     requests, logs, excused, heard, faults>>
      /\ client' \in Clients /\ client'.epoch = client.epoch /\ client'.consumedEpoch = client.epoch
      /\ client'.consumed = IF IsOn THEN client.consumed ELSE client.answer.sequence
      /\ client'.consumed >= client.answer.sequence
      /\ client'.asks = client.asks /\ client'.pending = client.pending
      /\ client'.answer = NoAnswer /\ client'.synced = TRUE
  BY ContinueIs
<1>2. /\ TypeSocket /\ TypeClient /\ LinkInv /\ ClientInv /\ WireInv /\ RequestInv /\ ReplayInv
      /\ LiveInv /\ EmptyInv
  BY DEF ConnOK, ConnInv
<1>3. IsOn' /\ ~ IsLost' /\ ~ IsNew' /\ ~ client'.answer.given
  BY <1>1 DEF IsOn, IsLost, IsNew, NoAnswer
<1>4. /\ client.consumed \in Nat /\ client.answer.sequence \in Nat /\ client.asks \in Nat
      /\ client'.consumed \in Nat /\ client.epoch \in Nat
  BY <1>1, <1>2, ClientTypes DEF Clients
<1>5. /\ requests = <<>> /\ ~ replay.on /\ client.pending = 0 /\ client.epoch \in DOMAIN logs
      /\ client.answer.sequence <= Len(logs[client.epoch])
      /\ IsOn => client.consumed <= Len(logs[client.epoch])
  BY <1>1, <1>2 DEF ClientInv
<1>6. ASSUME NEW k, NEW n \in Nat, Reaches(k, n)
      PROVE  Reaches(k, n)'
  <2>1. CASE IsOn /\ client.consumed >= n
    BY <1>1, <1>3, <2>1 DEF Reaches
  <2>2. CASE client.answer.sequence >= n
    BY <1>1, <1>3, <1>4, <2>2 DEF Reaches
  <2>3. CASE \E j \in 1 .. k : Moves(wire[j]) /\ wire[j].sequence >= n
    BY <1>1, <2>3 DEF Reaches, Moves
  <2>4. QED
    BY <1>1, <1>6, <2>1, <2>2, <2>3 DEF Reaches
<1>7. \A k : GapWithin(k)' <=> GapWithin(k)
  BY <1>1 DEF GapWithin
<1>8. (Excused' <=> Excused) /\ Len(wire) \in Nat /\ DOMAIN wire = 1 .. Len(wire)
  BY <1>1, <1>2, WireTypes DEF Excused
<1>9. TypeSocket' /\ TypeClient'
  BY <1>1, <1>2, <1>4 DEF TypeSocket, TypeClient
<1>10. LinkInv'
  BY <1>1, <1>2, <1>3 DEF LinkInv
<1>11. ClientInv'
  BY <1>1, <1>3, <1>5 DEF ClientInv
<1>12. RequestInv' /\ ReplayInv'
  BY <1>1, <1>5 DEF RequestInv, ReplayInv
<1>13. LiveInv'
  <2>1. CASE subscribed /\ ~ Excused
    <3>1. Reaches(Len(wire), sequence)
      BY <1>2, <1>5, <2>1 DEF LiveInv
    <3>2. sequence \in Nat
      BY DEF StoreOK, TypeServer
    <3>3. Reaches(Len(wire), sequence)'
      BY <1>1, <1>6, <3>1, <3>2
    <3>4. QED
      BY <1>3, <3>3 DEF LiveInv
  <2>2. CASE ~ (subscribed /\ ~ Excused)
    BY <1>1, <1>8, <2>2 DEF LiveInv
  <2>3. QED
    BY <2>1, <2>2
<1>14. EmptyInv'
  BY <1>1, <1>2, <1>3 DEF EmptyInv, Live
<1>15. WireInv'
  <2> SUFFICES ASSUME NEW i \in DOMAIN wire
               PROVE  /\ wire[i].epoch = client.epoch /\ client.epoch \in DOMAIN logs
                      /\ wire[i].sequence <= Len(logs[client.epoch])
                      /\ wire[i].kind = "event" =>
                           /\ wire[i].sequence > 0
                           /\ logs[client.epoch][wire[i].sequence] = wire[i].event
                           /\ ~ Excused => Reaches(i - 1, wire[i].sequence - 1)'
                      /\ wire[i].kind = "response" =>
                           /\ wire[i].id \in 1 .. client.asks
                           /\ Reaches(i - 1, wire[i].sequence)'
                           /\ wire[i].id = client.asks =>
                                \A l \in i + 1 .. Len(wire) :
                                  Moves(wire[l]) => wire[l].sequence > wire[i].sequence
    BY <1>1, <1>3, <1>5, <1>8 DEF WireInv, Moves
  <2>1. wire[i].sequence \in Nat /\ wire[i].kind \in {"event", "gap", "response"}
    BY <1>2, WireTypes
  <2>2. CASE wire[i].kind = "event"
    <3>1. /\ wire[i].epoch = client.epoch /\ client.epoch \in DOMAIN logs
          /\ wire[i].sequence <= Len(logs[client.epoch]) /\ wire[i].sequence > 0
          /\ logs[client.epoch][wire[i].sequence] = wire[i].event
          /\ ~ Excused => Reaches(i - 1, wire[i].sequence - 1)
      BY <1>2, <2>2 DEF WireInv
    <3>2. wire[i].sequence - 1 \in Nat
      BY <2>1, <3>1
    <3>3. ~ Excused => Reaches(i - 1, wire[i].sequence - 1)'
      BY <1>1, <1>6, <3>1, <3>2
    <3>4. QED
      BY <2>2, <3>1, <3>3
  <2>3. CASE wire[i].kind = "response"
    <3>1. /\ wire[i].epoch = client.epoch /\ client.epoch \in DOMAIN logs
          /\ wire[i].sequence <= Len(logs[client.epoch])
          /\ wire[i].id \in 1 .. client.asks
          /\ Reaches(i - 1, wire[i].sequence)
          /\ wire[i].id = client.asks =>
               \A l \in i + 1 .. Len(wire) : Moves(wire[l]) => wire[l].sequence > wire[i].sequence
      BY <1>2, <2>3 DEF WireInv
    <3>2. Reaches(i - 1, wire[i].sequence)'
      BY <1>1, <1>6, <2>1, <3>1
    <3>3. QED
      BY <2>3, <3>1, <3>2
  <2>4. CASE wire[i].kind = "gap"
    BY <1>2, <2>4 DEF WireInv
  <2>5. QED
    BY <2>1, <2>2, <2>3, <2>4
<1>16. QED
  BY <1>9, <1>10, <1>11, <1>12, <1>13, <1>14, <1>15 DEF ConnOK, ConnInv

\* A replay begins where the wire takes the client, or with a gap.
LEMMA SubscribeConn == ASSUME StoreOK, ConnOK, Subscribe PROVE ConnOK'
<1> DEFINE r == requests[1]
           cursor == IF ~ r.fromStart THEN r.after
                     ELSE IF history = <<>> THEN sequence ELSE FirstOf(history) - 1
           gap == ~(r.epoch \in {0, epoch} /\ (r.fromStart \/ CanReplay(r.after)))
<1>1. /\ stage = "ready" /\ link = "open" /\ requests # <<>>
      /\ requests' = Tail(requests) /\ subscribed' = TRUE
      /\ UNCHANGED <<epoch, stage, sequence, history, link, choked, wire, client, logs, excused,
                     heard, faults>>
  BY DEF Subscribe, server, ghosts
<1>2. /\ TypeSocket /\ TypeClient /\ LinkInv /\ ClientInv /\ WireInv /\ RequestInv /\ ReplayInv
      /\ LiveInv /\ EmptyInv
  BY DEF ConnOK, ConnInv
<1>3. /\ requests \in Seq(Requests) /\ Len(requests) \in Nat /\ DOMAIN requests = 1 .. Len(requests)
      /\ Len(requests) > 0 /\ 1 \in DOMAIN requests /\ Head(requests) = r
      /\ requests' \in Seq(Requests) /\ DOMAIN requests' = 1 .. Len(requests) - 1
      /\ Len(requests') = Len(requests) - 1
      /\ \A k \in 1 .. Len(requests) - 1 : requests'[k] = requests[k + 1]
  <2>1. requests \in Seq(Requests)
    BY <1>2 DEF TypeSocket
  <2>2. QED
    BY <1>1, <2>1, HeadTailProperties, EmptySeq
<1>4. replay' = [on |-> TRUE, id |-> r.id, cursor |-> cursor, gap |-> gap]
  BY <1>3 DEF Subscribe
<1>5. /\ r.id \in 1 .. MaxAsks /\ r.fromStart \in BOOLEAN /\ r.after \in Nat /\ r.epoch \in 0 .. MaxEpoch
      /\ MaxAsks \in Nat /\ MaxEpoch \in Nat
  BY <1>2, <1>3, RequestTypes, BoundAssumption
<1>6. /\ r.id <= client.asks /\ (replay.on => replay.id < r.id)
      /\ \A l \in 2 .. Len(requests) : r.id < requests[l].id
      /\ IsLost => r.epoch = client.consumedEpoch
      /\ r.epoch = 0 => r.after = 0
      /\ r.epoch = client.epoch => IsOn /\ r.after <= client.consumed
      /\ r.fromStart =>
           /\ r.epoch = 0
           /\ Excused \/ (r.id = 1 /\ IsNew)
      /\ r.id = 1 => wire = <<>> /\ ~ subscribed /\ ~ replay.on
  <2>1. 1 + 1 = 2
    OBVIOUS
  <2>2. QED
    BY <1>2, <1>3, <2>1, Zenon DEF RequestInv
<1>7. /\ client.epoch = epoch /\ epoch > 0 /\ sequence \in Nat
      /\ history # <<>> => FirstOf(history) \in Nat \ {0} /\ FirstOf(history) <= sequence
  <2>1. client.epoch = epoch /\ client.epoch > 0
    BY <1>1, <1>2 DEF LinkInv
  <2>2. TypeServer /\ sequence \in Nat
    BY DEF StoreOK, TypeServer
  <2>3. QED
    BY <2>1, <2>2, Window
<1>8. cursor \in Nat
  BY <1>5, <1>7
<1>9. client.asks \in Nat /\ client.consumed \in Nat /\ client.epoch \in Nat
  BY <1>2, ClientTypes
<1>10. client.asks # 0 /\ ~ client.answer.given /\ ~ client.synced
  BY <1>1, <1>2 DEF LinkInv, ClientInv
<1> HIDE DEF cursor, gap, r
<1>11. /\ replay'.on = TRUE /\ replay'.id = r.id /\ replay'.cursor = cursor /\ replay'.gap = gap
  BY <1>4
<1>12. /\ IsOn' <=> IsOn
       /\ IsLost' <=> IsLost
       /\ IsNew' <=> IsNew
       /\ Excused' <=> Excused
       /\ \A k, n : Reaches(k, n)' <=> Reaches(k, n)
       /\ \A k : GapWithin(k)' <=> GapWithin(k)
  BY <1>1 DEF IsOn, IsNew, IsLost, Reaches, GapWithin, Moves, Excused
<1>13. Len(wire) \in Nat /\ DOMAIN wire = 1 .. Len(wire)
  BY <1>2, WireTypes
<1>14. gap \in BOOLEAN
  BY DEF gap
<1>15. TypeSocket'
  BY <1>1, <1>2, <1>3, <1>4, <1>5, <1>8, <1>14 DEF TypeSocket
<1>16. TypeClient'
  BY <1>1, <1>2 DEF TypeClient
<1>17. LinkInv'
  BY <1>1, <1>2, <1>10 DEF LinkInv
<1>18. ClientInv'
  BY <1>1, <1>2, <1>10, <1>12 DEF ClientInv
<1>19. LiveInv' /\ EmptyInv'
  BY <1>1, <1>2, <1>11, <1>12 DEF LiveInv, EmptyInv, Live
<1>20. ASSUME NEW k \in 1 .. Len(requests) - 1
       PROVE  k + 1 \in DOMAIN requests /\ requests'[k] = requests[k + 1] /\ requests[k + 1].id \in Nat
              /\ r.id < requests[k + 1].id
  <2>1. k + 1 \in DOMAIN requests /\ k + 1 \in 2 .. Len(requests)
    BY <1>3
  <2>2. QED
    BY <1>2, <1>3, <1>6, <2>1, RequestTypes
<1>21. RequestInv'
  <2> SUFFICES ASSUME NEW k \in 1 .. Len(requests) - 1
               PROVE  /\ requests'[k].id <= client.asks /\ r.id < requests'[k].id
                      /\ \A l \in k + 1 .. Len(requests) - 1 : requests'[k].id < requests'[l].id
                      /\ IsLost => requests'[k].epoch = client.consumedEpoch
                      /\ requests'[k].epoch = 0 => requests'[k].after = 0
                      /\ requests'[k].epoch = client.epoch => IsOn /\ requests'[k].after <= client.consumed
                      /\ requests'[k].fromStart =>
                           /\ requests'[k].epoch = 0
                           /\ Excused \/ (requests'[k].id = 1 /\ IsNew)
                      /\ requests'[k].id # 1
    BY <1>1, <1>3, <1>11, <1>12 DEF RequestInv
  <2> DEFINE q == requests[k + 1]
  <2>1. requests'[k] = q /\ k + 1 \in DOMAIN requests /\ q.id \in Nat /\ r.id < q.id
    BY <1>20
  <2>2. /\ q.id <= client.asks
        /\ \A l \in (k + 1) + 1 .. Len(requests) : q.id < requests[l].id
        /\ IsLost => q.epoch = client.consumedEpoch
        /\ q.epoch = 0 => q.after = 0
        /\ q.epoch = client.epoch => IsOn /\ q.after <= client.consumed
        /\ q.fromStart =>
             /\ q.epoch = 0
             /\ Excused \/ (q.id = 1 /\ IsNew)
    BY <1>2, <2>1 DEF RequestInv
  <2> HIDE DEF q
  <2>3. \A l \in k + 1 .. Len(requests) - 1 : q.id < requests'[l].id
    <3> TAKE l \in k + 1 .. Len(requests) - 1
    <3>1. l \in 1 .. Len(requests) - 1 /\ l + 1 \in (k + 1) + 1 .. Len(requests)
      BY <1>3
    <3>2. requests'[l] = requests[l + 1]
      BY <1>3, <3>1
    <3>3. QED
      BY <2>2, <3>1, <3>2
  <2>4. q.id # 1
    BY <1>5, <2>1
  <2>5. QED
    BY <2>1, <2>2, <2>3, <2>4
<1>22. WireInv'
  <2> SUFFICES ASSUME NEW i \in DOMAIN wire
               PROVE  /\ wire[i].epoch = client.epoch /\ client.epoch \in DOMAIN logs
                      /\ wire[i].sequence <= Len(logs[client.epoch])
                      /\ wire[i].kind = "event" =>
                           /\ wire[i].sequence > 0
                           /\ logs[client.epoch][wire[i].sequence] = wire[i].event
                           /\ IsLost /\ ~ Excused => GapWithin(i - 1)
                           /\ ~ Excused => Reaches(i - 1, wire[i].sequence - 1)
                      /\ wire[i].kind = "response" =>
                           /\ wire[i].id \in 1 .. client.asks
                           /\ wire[i].id < r.id
                           /\ \A k \in DOMAIN requests' : wire[i].id < requests'[k].id
                           /\ Reaches(i - 1, wire[i].sequence)
                           /\ wire[i].id = client.asks =>
                                \A l \in i + 1 .. Len(wire) :
                                  Moves(wire[l]) => wire[l].sequence > wire[i].sequence
    BY <1>1, <1>11, <1>12 DEF WireInv, Moves
  <2>1. CASE wire[i].kind # "response"
    BY <1>2, <2>1 DEF WireInv
  <2>2. CASE wire[i].kind = "response"
    <3>1. /\ wire[i].epoch = client.epoch /\ client.epoch \in DOMAIN logs
          /\ wire[i].sequence <= Len(logs[client.epoch])
          /\ wire[i].id \in 1 .. client.asks
          /\ \A k \in DOMAIN requests : wire[i].id < requests[k].id
          /\ Reaches(i - 1, wire[i].sequence)
          /\ wire[i].id = client.asks =>
               \A l \in i + 1 .. Len(wire) : Moves(wire[l]) => wire[l].sequence > wire[i].sequence
      BY <1>2, <2>2 DEF WireInv
    <3>2. wire[i].id < r.id
      BY <1>3, <3>1 DEF r
    <3>3. \A k \in DOMAIN requests' : wire[i].id < requests'[k].id
      BY <1>3, <1>20, <3>1
    <3>4. QED
      BY <2>2, <3>1, <3>2, <3>3
  <2>3. QED
    BY <2>1, <2>2
<1>23. IsLost => gap
  BY <1>6, <1>7 DEF IsLost, IsNew, gap
<1>24. ASSUME ~ gap, ~ Excused \/ cursor >= sequence
       PROVE  Reaches(Len(wire), cursor)
  <2>1. ~ IsLost /\ r.epoch \in {0, epoch}
    BY <1>23, <1>24 DEF gap
  <2>2. CASE ~ r.fromStart
    <3>1. cursor = r.after
      BY <2>2 DEF cursor
    <3>2. CASE IsOn /\ client.consumed >= r.after
      BY <3>1, <3>2 DEF Reaches
    <3>3. CASE ~ (IsOn /\ client.consumed >= r.after)
      <4>1. r.epoch = 0 /\ cursor = 0
        BY <1>5, <1>6, <1>7, <1>9, <2>1, <3>1, <3>3
      <4>2. ~ IsOn
        BY <1>5, <1>6, <1>9, <3>1, <3>3, <4>1
      <4>3. IsNew
        BY <2>1, <4>2 DEF IsOn, IsLost
      <4>4. \A j \in 1 .. Len(wire) : wire[j].sequence \in Nat /\ wire[j].sequence >= 0
        BY <1>2, WireTypes
      <4>5. QED
        BY <1>10, <4>1, <4>3, <4>4 DEF Reaches
    <3>4. QED
      BY <3>2, <3>3
  <2>3. CASE r.fromStart
    <3>1. CASE r.id = 1 /\ IsNew
      <4>1. Len(wire) = 0
        BY <1>6, <3>1
      <4>2. QED
        BY <1>10, <3>1, <4>1 DEF Reaches
    <3>2. CASE Excused
      <4>1. history = <<>> /\ cursor = sequence
        BY <1>7, <1>24, <2>3, <3>2 DEF cursor
      <4>2. Live
        BY <1>1 DEF Live
      <4>3. /\ \A i \in DOMAIN wire : wire[i].kind # "event" /\ wire[i].sequence = sequence
            /\ IsOn => client.consumed = sequence
        BY <1>2, <1>7, <4>1, <4>2 DEF EmptyInv
      <4>4. CASE IsOn
        BY <1>7, <4>1, <4>3, <4>4 DEF Reaches
      <4>5. CASE IsNew
        <5>1. CASE \E j \in 1 .. Len(wire) : Moves(wire[j])
          BY <1>7, <1>13, <4>1, <4>3, <5>1 DEF Reaches
        <5>2. CASE ~ \E j \in 1 .. Len(wire) : Moves(wire[j])
          BY <1>7, <1>10, <1>13, <4>1, <4>3, <4>5, <5>2 DEF Reaches
        <5>3. QED
          BY <5>1, <5>2
      <4>6. QED
        BY <2>1, <4>4, <4>5 DEF IsOn, IsLost
    <3>3. QED
      BY <1>6, <2>3, <3>1, <3>2
  <2>4. QED
    BY <2>2, <2>3
<1>25. ReplayInv'
  <2>1. r.id \in 1 .. client.asks
    BY <1>5, <1>6, <1>9
  <2>2. QED
    BY <1>1, <1>11, <1>12, <1>23, <1>24, <2>1 DEF ReplayInv
<1>26. QED
  BY <1>15, <1>16, <1>17, <1>18, <1>19, <1>21, <1>22, <1>25 DEF ConnOK, ConnInv

\* Frames that follow on what is on the wire: m frames are there already.
LEMMA AppendWire ==
    ASSUME TypeSocket, TypeClient, ClientInv, WireInv, client' = client, excused' = excused, LogsGrow,
           client.epoch \in DOMAIN logs,
           NEW m \in Nat, m = Len(wire), NEW frames \in Seq(Frames), wire' = wire \o frames,
           replay'.on => replay.on /\ replay'.id = replay.id, requests' = requests,
           \A i \in DOMAIN frames :
             /\ frames[i].epoch = client.epoch
             /\ frames[i].sequence <= Len(logs'[client.epoch])
             /\ frames[i].kind = "event" =>
                  /\ frames[i].sequence > 0
                  /\ logs'[client.epoch][frames[i].sequence] = frames[i].event
                  /\ IsLost /\ ~ Excused => GapWithin(m + (i - 1))'
                  /\ ~ Excused => Reaches(m + (i - 1), frames[i].sequence - 1)'
             /\ frames[i].kind = "response" =>
                  /\ i = Len(frames) /\ frames[i].id \in 1 .. client.asks /\ ~ replay'.on
                  /\ \A k \in DOMAIN requests : frames[i].id < requests[k].id
                  /\ Reaches(m + (i - 1), frames[i].sequence)'
             /\ Moves(frames[i]) =>
                  /\ \A j \in DOMAIN wire : wire[j].kind = "response" /\ wire[j].id = client.asks =>
                                              frames[i].sequence > wire[j].sequence
                  /\ client.answer.given => frames[i].sequence > client.answer.sequence
    PROVE  ClientInv' /\ WireInv'
<1>1. /\ wire \in Seq(Frames) /\ DOMAIN wire = 1 .. m /\ Len(frames) \in Nat
      /\ DOMAIN frames = 1 .. Len(frames)
      /\ wire' \in Seq(Frames) /\ Len(wire') = m + Len(frames) /\ DOMAIN wire' = 1 .. m + Len(frames)
      /\ \A i \in 1 .. m : wire'[i] = wire[i]
      /\ \A i \in 1 .. Len(frames) : wire'[m + i] = frames[i]
  <2>1. wire \in Seq(Frames)
    BY DEF TypeSocket
  <2>2. /\ wire' \in Seq(Frames) /\ Len(wire') = Len(wire) + Len(frames)
        /\ \A i \in 1 .. Len(wire) + Len(frames) :
             wire'[i] = IF i <= Len(wire) THEN wire[i] ELSE frames[i - Len(wire)]
    BY <2>1, ConcatProperties
  <2>3. Len(frames) \in Nat /\ DOMAIN frames = 1 .. Len(frames) /\ DOMAIN wire = 1 .. m
    BY <2>1
  <2>4. \A i \in 1 .. m : wire'[i] = wire[i]
    BY <2>2, <2>3
  <2>5. ASSUME NEW i \in 1 .. Len(frames) PROVE wire'[m + i] = frames[i]
    <3>1. m + i \in 1 .. m + Len(frames) /\ ~(m + i <= m) /\ (m + i) - m = i
      BY <2>3
    <3>2. QED
      BY <2>2, <3>1
  <2>6. QED
    BY <2>1, <2>2, <2>3, <2>4, <2>5
<1>2. /\ IsOn' <=> IsOn
      /\ IsLost' <=> IsLost
      /\ IsNew' <=> IsNew
      /\ Excused' <=> Excused
  BY DEF IsOn, IsNew, IsLost, Excused
<1>3. ASSUME NEW k \in 0 .. m
      PROVE  (GapWithin(k)' <=> GapWithin(k)) /\ \A n : Reaches(k, n)' <=> Reaches(k, n)
  <2>1. \A j \in 1 .. k : wire'[j] = wire[j]
    BY <1>1
  <2>2. QED
    BY <1>2, <2>1 DEF GapWithin, Reaches, Moves
<1>4. ASSUME NEW i \in 1 .. m + Len(frames), ~ i \in 1 .. m
      PROVE  /\ i - m \in 1 .. Len(frames) /\ wire'[i] = frames[i - m]
             /\ i - 1 = m + ((i - m) - 1)
  <2>1. i - m \in 1 .. Len(frames) /\ m + (i - m) = i /\ i - 1 = m + ((i - m) - 1)
    BY <1>1, <1>4
  <2>2. QED
    BY <1>1, <2>1
<1>5. /\ client.answer.sequence \in Nat /\ client.consumed \in Nat
      /\ Len(logs[client.epoch]) \in Nat /\ Len(logs'[client.epoch]) \in Nat
      /\ Len(logs[client.epoch]) <= Len(logs'[client.epoch]) /\ client.epoch \in DOMAIN logs'
  BY ClientTypes DEF LogsGrow
<1>6. ClientInv'
  <2>1. IsOn' => client.epoch \in DOMAIN logs' /\ client.consumed <= Len(logs'[client.epoch])
    BY <1>2, <1>5 DEF ClientInv
  <2>2. ASSUME client.answer.given
        PROVE  /\ client.epoch \in DOMAIN logs' /\ client.answer.sequence <= Len(logs'[client.epoch])
               /\ \A i \in 1 .. m + Len(frames) :
                    Moves(wire[i])' => wire'[i].sequence > client.answer.sequence
    <3>1. client.answer.sequence <= Len(logs'[client.epoch])
      BY <1>5, <2>2 DEF ClientInv
    <3>2. ASSUME NEW i \in 1 .. m + Len(frames), Moves(wire[i])'
          PROVE  wire'[i].sequence > client.answer.sequence
      <4>1. CASE i \in 1 .. m
        <5>1. Moves(wire[i]) /\ wire'[i] = wire[i]
          BY <1>1, <3>2, <4>1 DEF Moves
        <5>2. QED
          BY <1>1, <2>2, <4>1, <5>1 DEF ClientInv
      <4>2. CASE ~ i \in 1 .. m
        <5>1. Moves(frames[i - m]) /\ wire'[i] = frames[i - m] /\ i - m \in DOMAIN frames
          BY <1>1, <1>4, <3>2, <4>2 DEF Moves
        <5>2. QED
          BY <2>2, <5>1
      <4>3. QED
        BY <4>1, <4>2
    <3>3. QED
      BY <1>5, <3>1, <3>2
  <2>3. QED
    BY <1>1, <1>2, <2>1, <2>2 DEF ClientInv
<1>7. WireInv'
  <2> SUFFICES ASSUME NEW i \in DOMAIN wire'
               PROVE  /\ wire'[i].epoch = client'.epoch /\ client'.epoch \in DOMAIN logs'
                      /\ wire'[i].sequence <= Len(logs'[client'.epoch])
                      /\ wire'[i].kind = "event" =>
                           /\ wire'[i].sequence > 0
                           /\ logs'[client'.epoch][wire'[i].sequence] = wire'[i].event
                           /\ IsLost' /\ ~ Excused' => GapWithin(i - 1)'
                           /\ ~ Excused' => Reaches(i - 1, wire[i].sequence - 1)'
                      /\ wire'[i].kind = "response" =>
                           /\ wire'[i].id \in 1 .. client'.asks
                           /\ replay'.on => wire'[i].id < replay'.id
                           /\ \A k \in DOMAIN requests' : wire'[i].id < requests'[k].id
                           /\ Reaches(i - 1, wire[i].sequence)'
                           /\ wire'[i].id = client'.asks =>
                                \A l \in i + 1 .. Len(wire') :
                                  Moves(wire[l])' => wire'[l].sequence > wire'[i].sequence
    BY Zenon DEF WireInv
  <2>0. i \in 1 .. m + Len(frames) /\ client.epoch \in DOMAIN logs' /\ Len(wire') = m + Len(frames)
    BY <1>1, <1>5
  <2>1. CASE i \in 1 .. m
    <3> DEFINE g == wire[i]
    <3>1. /\ g.epoch = client.epoch /\ g.sequence <= Len(logs[client.epoch])
          /\ g.kind = "event" =>
               /\ g.sequence > 0
               /\ logs[client.epoch][g.sequence] = g.event
               /\ IsLost /\ ~ Excused => GapWithin(i - 1)
               /\ ~ Excused => Reaches(i - 1, g.sequence - 1)
          /\ g.kind = "response" =>
               /\ g.id \in 1 .. client.asks
               /\ replay.on => g.id < replay.id
               /\ \A k \in DOMAIN requests : g.id < requests[k].id
               /\ Reaches(i - 1, g.sequence)
               /\ g.id = client.asks =>
                    \A l \in i + 1 .. m : Moves(wire[l]) => wire[l].sequence > g.sequence
      BY <1>1, <2>1 DEF WireInv
    <3>2. wire'[i] = g /\ g.sequence \in Nat /\ i - 1 \in 0 .. m
      BY <1>1, <2>1, WireTypes
    <3>3. /\ g.sequence <= Len(logs'[client.epoch])
          /\ g.sequence > 0 => logs'[client.epoch][g.sequence] = logs[client.epoch][g.sequence]
      <4>1. \A n \in 1 .. Len(logs[client.epoch]) : logs'[client.epoch][n] = logs[client.epoch][n]
        BY DEF LogsGrow
      <4>2. g.sequence > 0 => g.sequence \in 1 .. Len(logs[client.epoch])
        BY <1>5, <3>1, <3>2
      <4>3. g.sequence <= Len(logs'[client.epoch])
        BY <1>5, <3>1, <3>2
      <4>4. QED
        BY <4>1, <4>2, <4>3
    <3> HIDE DEF g
    <3>4. g.kind = "event" => (~ Excused => Reaches(i - 1, wire[i].sequence - 1)')
      BY <1>3, <3>1, <3>2
    <3>5. g.kind = "response" => Reaches(i - 1, wire[i].sequence)'
      BY <1>3, <3>1, <3>2
    <3>6. ASSUME g.kind = "response", g.id = client.asks, NEW l \in i + 1 .. m + Len(frames),
                 Moves(wire[l])'
          PROVE  wire'[l].sequence > g.sequence
      <4>1. CASE l \in 1 .. m
        <5>1. l \in i + 1 .. m /\ wire'[l] = wire[l] /\ Moves(wire[l])
          BY <1>1, <2>1, <3>6, <4>1 DEF Moves
        <5>2. QED
          BY <3>1, <3>6, <5>1
      <4>2. CASE ~ l \in 1 .. m
        <5>1. l \in 1 .. m + Len(frames)
          BY <1>1, <2>1
        <5>2. Moves(frames[l - m]) /\ wire'[l] = frames[l - m] /\ l - m \in DOMAIN frames
          BY <1>1, <1>4, <3>6, <4>2, <5>1 DEF Moves
        <5>3. i \in DOMAIN wire /\ wire[i] = g
          BY <1>1, <2>1 DEF g
        <5>4. QED
          BY <3>6, <5>2, <5>3
      <4>3. QED
        BY <4>1, <4>2
    <3>7. CASE g.kind = "event"
      BY <1>2, <1>3, <2>0, <3>1, <3>2, <3>3, <3>4, <3>7
    <3>8. CASE g.kind = "response"
      BY <2>0, <3>1, <3>2, <3>3, <3>5, <3>6, <3>8
    <3>9. CASE g.kind # "event" /\ g.kind # "response"
      BY <2>0, <3>1, <3>2, <3>3, <3>9
    <3>10. QED
      BY <3>7, <3>8, <3>9
  <2>2. CASE ~ i \in 1 .. m
    <3> DEFINE j == i - m
               g == frames[j]
    <3>1. j \in DOMAIN frames /\ wire'[i] = g /\ i - 1 = m + (j - 1)
      BY <1>1, <1>4, <2>0, <2>2
    <3> HIDE DEF j
    <3>2. /\ g.epoch = client.epoch
          /\ g.sequence <= Len(logs'[client.epoch])
          /\ g.kind = "event" =>
               /\ g.sequence > 0
               /\ logs'[client.epoch][g.sequence] = g.event
               /\ IsLost /\ ~ Excused => GapWithin(m + (j - 1))'
               /\ ~ Excused => Reaches(m + (j - 1), g.sequence - 1)'
          /\ g.kind = "response" =>
               /\ j = Len(frames) /\ g.id \in 1 .. client.asks /\ ~ replay'.on
               /\ \A k \in DOMAIN requests : g.id < requests[k].id
               /\ Reaches(m + (j - 1), g.sequence)'
      BY <3>1
    <3> HIDE DEF g
    <3>3. g.kind = "event" => (~ Excused => Reaches(i - 1, wire[i].sequence - 1)')
      BY <3>1, <3>2
    <3>4. g.kind = "response" => Reaches(i - 1, wire[i].sequence)'
      BY <3>1, <3>2
    <3>5. g.kind = "event" => (IsLost /\ ~ Excused => GapWithin(i - 1)')
      BY <3>1, <3>2
    <3>6. g.kind = "response" => ~ \E l \in i + 1 .. m + Len(frames) : TRUE
      BY <1>1, <3>2 DEF j
    <3>7. QED
      BY <1>2, <2>0, <3>1, <3>2, <3>3, <3>4, <3>5, <3>6
  <2>3. QED
    BY <2>1, <2>2
<1>8. QED
  BY <1>6, <1>7

LEMMA PublishGrows ==
    ASSUME StoreOK, PublishEvent
    PROVE  /\ LogsGrow
           /\ stage # "loading" =>
                /\ epoch \in DOMAIN logs /\ Len(logs'[epoch]) = sequence + 1 /\ Len(logs[epoch]) = sequence
                /\ logs'[epoch][sequence + 1] = published + 1
<1>1. /\ stage \in {"loading", "ready", "closing"}
      /\ stage = "loading" => logs' = logs
      /\ stage # "loading" => logs' = [logs EXCEPT ![epoch] = Append(@, published + 1)]
  BY DEF PublishEvent, Record
<1>2. TypeServer /\ LogsInv /\ NumberInv
  BY DEF StoreOK, StoreInv
<1>3. CASE stage = "loading"
  BY <1>1, <1>2, <1>3, SameLogs
<1>4. CASE stage # "loading"
  <2>1. /\ Len(logs) = epoch /\ epoch \in Nat \ {0} /\ Len(logs[epoch]) = sequence /\ sequence \in Nat
    BY <1>1, <1>2, <1>4, BoundAssumption DEF TypeServer, LogsInv, NumberInv, Live
  <2>2. /\ DOMAIN logs = 1 .. epoch /\ epoch \in DOMAIN logs /\ logs[epoch] \in Seq(1 .. MaxEvents)
        /\ \A e \in DOMAIN logs : Len(logs[e]) \in Nat
    BY <1>2, <2>1, LogTypes
  <2>3. /\ DOMAIN logs' = DOMAIN logs /\ logs'[epoch] = Append(logs[epoch], published + 1)
        /\ \A e \in DOMAIN logs : e # epoch => logs'[e] = logs[e]
    BY <1>1, <1>4, <2>2
  <2>4. /\ Len(logs'[epoch]) = sequence + 1 /\ logs'[epoch][sequence + 1] = published + 1
        /\ \A i \in 1 .. sequence : logs'[epoch][i] = logs[epoch][i]
    BY <2>1, <2>2, <2>3
  <2>5. ASSUME NEW e \in DOMAIN logs
        PROVE  /\ Len(logs[e]) \in Nat /\ Len(logs'[e]) \in Nat /\ Len(logs[e]) <= Len(logs'[e])
               /\ \A i \in 1 .. Len(logs[e]) : logs'[e][i] = logs[e][i]
    <3>1. CASE e = epoch
      BY <2>1, <2>4, <3>1
    <3>2. CASE e # epoch
      BY <2>2, <2>3, <3>2
    <3>3. QED
      BY <3>1, <3>2
  <2>6. QED
    BY <2>1, <2>2, <2>3, <2>4, <2>5 DEF LogsGrow
<1>5. QED
  BY <1>3, <1>4

\* A live event follows on everything that the subscriber was sent.
LEMMA PublishConn == ASSUME StoreOK, ConnOK, PublishEvent PROVE ConnOK'
<1> DEFINE r == Record(sequence + 1, published + 1)
           g == Frame("event", sequence + 1, published + 1, 0)
<1>1. /\ stage \in {"loading", "ready", "closing"} /\ published < MaxEvents
      /\ history' = Newest(Append(history, r)) /\ sequence' = sequence + 1
      /\ SendLive(r)
      /\ UNCHANGED <<epoch, stage, client, excused, heard, faults>>
  BY DEF PublishEvent, Record
<1>2. /\ TypeSocket /\ TypeClient /\ LinkInv /\ ClientInv /\ WireInv /\ RequestInv /\ ReplayInv
      /\ LiveInv /\ EmptyInv
  BY DEF ConnOK, ConnInv
<1>3. /\ LogsGrow
      /\ stage # "loading" =>
           /\ epoch \in DOMAIN logs /\ Len(logs'[epoch]) = sequence + 1 /\ Len(logs[epoch]) = sequence
           /\ logs'[epoch][sequence + 1] = published + 1
  BY PublishGrows
<1>4. history' # <<>>
  BY <1>1, PublishWindow DEF StoreOK
<1>5. sequence \in Nat /\ epoch \in Nat /\ epoch \in 1 .. MaxEpoch
  BY <1>1, BoundAssumption DEF StoreOK, TypeServer, StoreInv, LogsInv
<1>6. EmptyInv'
  BY <1>4 DEF EmptyInv
<1>7. CASE ~ TakesLive
  <2>1. UNCHANGED <<link, choked, wire, subscribed, replay, requests>>
    BY <1>1, <1>7 DEF SendLive, socket
  <2>2. ClientInv' /\ WireInv'
    BY <1>1, <1>3, <2>1, KeepWire
  <2>3. LinkInv' /\ TypeSocket' /\ TypeClient'
    BY <1>1, <1>2, <2>1 DEF LinkInv, TypeSocket, TypeClient
  <2>4. RequestInv'
    BY <1>1, <1>2, <2>1 DEF RequestInv, IsOn, IsLost, IsNew, Excused
  <2>5. LiveInv'
    BY <1>2, <1>7, <2>1 DEF LiveInv, LinkInv, TakesLive
  <2>6. ReplayInv'
    <3>1. \A n : Reaches(Len(wire), n)' <=> Reaches(Len(wire), n)
      BY <1>1, <2>1 DEF Reaches, IsOn, IsNew, Moves
    <3>2. /\ IsLost' <=> IsLost
          /\ Excused' <=> Excused
          /\ GapWithin(Len(wire))' <=> GapWithin(Len(wire))
      BY <1>1, <2>1 DEF IsLost, IsNew, Excused, GapWithin
    <3>3. replay.cursor \in Nat /\ (replay.cursor >= sequence' => replay.cursor >= sequence)
      BY <1>1, <1>2, <1>5 DEF TypeSocket
    <3>4. Reaches(Len(wire), replay.cursor)' <=> Reaches(Len(wire), replay.cursor)
      BY <2>1, <3>1
    <3>5. QED
      BY <1>1, <1>2, <2>1, <3>2, <3>3, <3>4 DEF ReplayInv
  <2>7. QED
    BY <1>6, <2>2, <2>3, <2>4, <2>5, <2>6 DEF ConnOK, ConnInv
<1>8. CASE TakesLive /\ CutConnection
  <2>1. /\ link' # "open" /\ (link' = "none" <=> link = "none") /\ wire' = wire
        /\ ~ subscribed' /\ replay' = NoReplay /\ ~ replay'.on /\ requests' = <<>>
    BY <1>8 DEF CutConnection, NoReplay
  <2>2. TypeSocket'
    BY <1>2, <1>8, CutTypes
  <2>3. stage' \in {"closing", "flushing"} => epoch' \in excused'
    BY <1>1, <1>2 DEF LinkInv
  <2>4. QED
    BY <1>1, <1>3, <1>5, <1>6, <2>1, <2>2, <2>3, Detached
<1>9. CASE /\ TakesLive /\ wire' = Append(wire, g) /\ choked' \in {choked, TRUE}
           /\ UNCHANGED <<link, subscribed, replay, requests>>
  <2>1. /\ link = "open" /\ subscribed /\ ~ replay.on /\ client.epoch = epoch /\ stage # "loading"
        /\ ~ Excused => Reaches(Len(wire), sequence) /\ (IsLost => GapWithin(Len(wire)))
    BY <1>2, <1>9 DEF TakesLive, LinkInv, LiveInv
  <2>2. g \in Frames
    BY <1>1, <1>5, BoundAssumption DEF Frame, Frames, StoreOK, TypeServer
  <2>3. /\ g.kind = "event" /\ g.epoch = epoch /\ g.sequence = sequence + 1 /\ g.event = published + 1
    BY DEF Frame
  <2>4. PICK m \in Nat : m = Len(wire)
    BY <1>2, WireTypes
  <2> HIDE DEF g
  <2>5. PICK n \in Nat : n = sequence
    BY <1>5
  <2>6. PICK frames \in Seq(Frames) : frames = <<g>>
    <3>1. <<g>> \in Seq(Frames)
      BY <2>2
    <3>2. QED
      BY <3>1, Zenon
  <2>7. /\ Len(frames) = 1 /\ frames[1] = g /\ DOMAIN frames = {1} /\ wire' = wire \o frames
        /\ wire' \in Seq(Frames) /\ Len(wire') = m + 1 /\ wire'[m + 1] = g
        /\ \A i \in 1 .. m : wire'[i] = wire[i]
    <3>1. wire \in Seq(Frames)
      BY <1>2 DEF TypeSocket
    <3>2. QED
      BY <1>9, <2>2, <2>4, <2>6, <3>1
  <2>8. /\ IsLost' <=> IsLost
        /\ Excused' <=> Excused
        /\ IsOn' <=> IsOn
        /\ IsNew' <=> IsNew
    BY <1>1 DEF IsOn, IsLost, IsNew, Excused
  <2>9. ~ Excused => Reaches(m, n)' /\ (IsLost => GapWithin(m)')
    <3>1. Reaches(m, n)' <=> Reaches(m, n)
      BY <1>1, <2>7, <2>8 DEF Reaches, Moves
    <3>2. GapWithin(m)' <=> GapWithin(m)
      BY <2>7 DEF GapWithin
    <3>3. QED
      BY <2>1, <2>4, <2>5, <3>1, <3>2
  <2>10. ClientInv' /\ WireInv'
    <3>1. ASSUME NEW i \in DOMAIN frames
          PROVE  /\ frames[i].epoch = client.epoch /\ frames[i].kind = "event"
                 /\ frames[i].sequence = n + 1 /\ frames[i].sequence - 1 = n
                 /\ frames[i].event = logs'[client.epoch][n + 1]
                 /\ Len(logs'[client.epoch]) = n + 1 /\ m + (i - 1) = m /\ i = 1
      BY <1>3, <1>5, <2>1, <2>3, <2>5, <2>7
    <3>2. \A j \in DOMAIN wire : wire[j].sequence <= n /\ wire[j].sequence \in Nat
      BY <1>2, <1>3, <2>1, <2>5, WireTypes DEF WireInv
    <3>3. client.answer.given => client.answer.sequence <= n /\ client.answer.sequence \in Nat
      BY <1>2, <1>3, <2>1, <2>5, ClientTypes DEF ClientInv
    <3>4. client.epoch \in DOMAIN logs
      BY <1>3, <2>1
    <3>5. \A i \in DOMAIN frames :
             /\ frames[i].epoch = client.epoch
             /\ frames[i].sequence <= Len(logs'[client.epoch])
             /\ frames[i].kind = "event" =>
                  /\ frames[i].sequence > 0
                  /\ logs'[client.epoch][frames[i].sequence] = frames[i].event
                  /\ IsLost /\ ~ Excused => GapWithin(m + (i - 1))'
                  /\ ~ Excused => Reaches(m + (i - 1), frames[i].sequence - 1)'
             /\ frames[i].kind = "response" =>
                  /\ i = Len(frames) /\ frames[i].id \in 1 .. client.asks /\ ~ replay'.on
                  /\ \A k \in DOMAIN requests : frames[i].id < requests[k].id
                  /\ Reaches(m + (i - 1), frames[i].sequence)'
             /\ Moves(frames[i]) =>
                  /\ \A j \in DOMAIN wire : wire[j].kind = "response" /\ wire[j].id = client.asks =>
                                              frames[i].sequence > wire[j].sequence
                  /\ client.answer.given => frames[i].sequence > client.answer.sequence
      <4> TAKE i \in DOMAIN frames
      <4>1. Moves(frames[i]) =>
              /\ \A j \in DOMAIN wire : wire[j].kind = "response" /\ wire[j].id = client.asks =>
                                          frames[i].sequence > wire[j].sequence
              /\ client.answer.given => frames[i].sequence > client.answer.sequence
        BY <2>5, <3>1, <3>2, <3>3
      <4>2. /\ IsLost /\ ~ Excused => GapWithin(m + (i - 1))'
            /\ ~ Excused => Reaches(m + (i - 1), frames[i].sequence - 1)'
        BY <2>9, <3>1
      <4>3. frames[i].sequence > 0 /\ frames[i].sequence <= Len(logs'[client.epoch])
        BY <2>5, <3>1
      <4>4. frames[i].kind # "response"
        BY <3>1
      <4>5. QED
        BY <3>1, <4>1, <4>2, <4>3, <4>4
    <3>6. QED
      BY <1>1, <1>2, <1>3, <1>9, <2>4, <2>7, <3>4, <3>5, AppendWire
  <2>11. LinkInv' /\ TypeSocket' /\ TypeClient'
    <3>1. client.asks # 0
      BY <1>2, <2>1 DEF LinkInv
    <3>2. QED
      BY <1>1, <1>2, <1>9, <2>7, <3>1 DEF LinkInv, TypeSocket, TypeClient
  <2>12. ReplayInv'
    BY <1>9, <2>1 DEF ReplayInv
  <2>13. RequestInv'
    <3>1. \A k \in DOMAIN requests : requests[k].id # 1
      BY <1>2, <2>1 DEF RequestInv
    <3>2. QED
      BY <1>1, <1>2, <1>9, <2>8, <3>1 DEF RequestInv
  <2>14. LiveInv'
    <3>1. IsLost' /\ ~ Excused' => GapWithin(m + 1)'
      <4>1. GapWithin(m)' => GapWithin(m + 1)'
        BY <2>4 DEF GapWithin
      <4>2. QED
        BY <2>8, <2>9, <4>1
    <3>2. \A k, l : k = m + 1 /\ l = n + 1 => Reaches(k, l)'
      <4>1. /\ m + 1 \in 1 .. m + 1 /\ wire'[m + 1].kind = "event"
            /\ wire'[m + 1].sequence >= n + 1
        BY <2>3, <2>5, <2>7
      <4>2. QED
        BY <4>1 DEF Reaches, Moves
    <3>3. QED
      BY <1>1, <2>5, <2>7, <3>1, <3>2 DEF LiveInv
  <2>15. QED
    BY <1>6, <2>10, <2>11, <2>12, <2>13, <2>14 DEF ConnOK, ConnInv
<1>10. QED
  BY <1>1, <1>7, <1>8, <1>9 DEF SendLive, Record

\* What is left to replay: the history's records that follow on the cursor.
RestAfter(c) ==
    IF history = <<>> THEN <<>> ELSE SubSeq(history, c + 2 - FirstOf(history), Len(history))

ReplayFrames ==
    LET rest == RestAfter(replay.cursor)
    IN  IF replay.gap \/ ~ CanReplay(replay.cursor) THEN <<Frame("gap", sequence, 0, 0)>>
        ELSE [i \in DOMAIN rest |-> Frame("event", rest[i].sequence, rest[i].event, 0)]

LEMMA RestIs ==
    ASSUME TypeServer, NEW c \in Nat, CanReplay(c)
    PROVE  /\ RestAfter(c) \in Seq(Numbered)
           /\ Len(RestAfter(c)) = IF c >= sequence THEN 0 ELSE sequence - c
           /\ \A i \in 1 .. Len(RestAfter(c)) :
                /\ RestAfter(c)[i].sequence = c + i /\ c + i <= sequence
                /\ \E j \in DOMAIN history : RestAfter(c)[i] = history[j]
<1> DEFINE rest == RestAfter(c)
<1>1. /\ Len(history) \in Nat /\ DOMAIN history = 1 .. Len(history) /\ sequence \in Nat
      /\ history \in Seq(Numbered)
      /\ \A i \in DOMAIN history :
           history[i] \in Numbered /\ history[i].sequence = sequence - Len(history) + i
      /\ history # <<>> => /\ Len(history) > 0 /\ FirstOf(history) = sequence - Len(history) + 1
                           /\ FirstOf(history) \in Nat \ {0}
  BY Window DEF TypeServer
<1>2. CASE history = <<>>
  <2>1. c >= sequence
    BY <1>2 DEF CanReplay
  <2>2. rest \in Seq(Numbered) /\ Len(rest) = 0
    BY <1>2, EmptySeq DEF RestAfter
  <2>3. QED
    BY <2>1, <2>2
<1>3. CASE history # <<>>
  <2> DEFINE a == c + 2 - FirstOf(history)
  <2>1. rest = SubSeq(history, a, Len(history))
    BY <1>3 DEF RestAfter
  <2> DEFINE first == FirstOf(history)
  <2>f. /\ first \in Nat \ {0} /\ first = sequence - Len(history) + 1
        /\ c >= sequence \/ c >= first - 1
        /\ Len(history) \in Nat /\ sequence \in Nat
    BY <1>1, <1>3 DEF CanReplay
  <2>e. Len(history) > 0
    BY <1>1, <1>3
  <2>a. a = c + 2 - first
    OBVIOUS
  <2> HIDE DEF first, a
  <2>2. a = (c + 1 + Len(history)) - sequence /\ a \in Int
    BY <2>f, <2>a
  <2>3. a >= 1
    BY <2>f, <2>e, <2>2
  <2> USE DEF a
  <2> HIDE DEF a, rest
  <2>4. \A i \in a .. Len(history) : history[i] \in Numbered
    BY <1>1, <2>2, <2>3
  <2>5. /\ rest \in Seq(Numbered)
        /\ Len(rest) = IF a <= Len(history) THEN Len(history) - a + 1 ELSE 0
        /\ \A i \in 1 .. Len(history) - a + 1 : rest[i] = history[a + i - 1]
    BY <1>1, <2>1, <2>2, <2>3, <2>4, SubSeqProperties
  <2>6. Len(rest) = IF c >= sequence THEN 0 ELSE sequence - c
    BY <1>1, <2>2, <2>5
  <2>7. ASSUME NEW i \in 1 .. Len(rest)
        PROVE  /\ rest[i].sequence = c + i /\ c + i <= sequence
               /\ \E j \in DOMAIN history : rest[i] = history[j]
    <3>1. /\ i \in 1 .. Len(history) - a + 1 /\ a + i - 1 \in DOMAIN history
          /\ sequence - Len(history) + (a + i - 1) = c + i /\ c + i <= sequence
      BY <1>1, <2>2, <2>3, <2>5
    <3>2. rest[i] = history[a + i - 1]
      BY <2>5, <3>1
    <3>3. QED
      BY <1>1, <3>1, <3>2
  <2>8. QED
    BY <2>5, <2>6, <2>7 DEF rest
<1>4. QED
  BY <1>2, <1>3

\* The frames of a replay: a gap to the last number, or every event after the cursor.
LEMMA FramesOfReplay ==
    ASSUME StoreOK, ConnOK, link = "open", replay.on, NEW frames, frames = ReplayFrames
    PROVE  /\ frames \in Seq(Frames) /\ Len(frames) \in Nat /\ DOMAIN frames = 1 .. Len(frames)
           /\ \A i \in DOMAIN frames :
                /\ frames[i].epoch = epoch /\ frames[i].sequence \in Nat /\ frames[i].sequence <= sequence
                /\ frames[i].kind \in {"event", "gap"}
                /\ frames[i].kind = "gap" => frames[i].sequence = sequence
           /\ Len(frames) > 0 => frames[Len(frames)].sequence = sequence
           /\ Len(frames) = 0 => ~ replay.gap /\ replay.cursor >= sequence
           /\ replay.gap => Len(frames) = 1 /\ frames[1].kind = "gap"
           /\ \A i \in DOMAIN frames :
                frames[i].kind = "event" =>
                  /\ ~ replay.gap /\ frames[i].sequence = replay.cursor + i
                  /\ frames[i].event = logs[epoch][frames[i].sequence] /\ history # <<>>
                  /\ \A j \in 1 .. i : frames[j].kind = "event"
<1>1. /\ TypeServer /\ sequence \in Nat /\ epoch \in 1 .. MaxEpoch
      /\ Agrees(history, logs[epoch]) /\ replay.cursor \in Nat
  <2>1. stage = "ready" /\ replay.cursor \in Nat
    BY DEF ConnOK, ConnInv, ReplayInv, TypeSocket
  <2>2. Live
    BY <2>1 DEF Live
  <2>3. QED
    BY <2>1, <2>2 DEF StoreOK, StoreInv, TypeServer, LogsInv, NumberInv
<1>2. CASE replay.gap \/ ~ CanReplay(replay.cursor)
  <2> DEFINE g == Frame("gap", sequence, 0, 0)
  <2>1. g \in Frames /\ g.kind = "gap" /\ g.sequence = sequence /\ g.epoch = epoch
    BY <1>1, BoundAssumption DEF Frame, Frames
  <2>2. frames = <<g>>
    BY <1>2 DEF ReplayFrames
  <2> HIDE DEF g
  <2>3. /\ frames \in Seq(Frames) /\ Len(frames) = 1 /\ DOMAIN frames = 1 .. 1 /\ frames[1] = g
    BY <2>1, <2>2
  <2>4. \A i \in DOMAIN frames : frames[i] = g
    BY <2>3
  <2>5. QED
    BY <1>1, <2>1, <2>3, <2>4
<1>3. CASE ~ (replay.gap \/ ~ CanReplay(replay.cursor))
  <2> DEFINE rest == RestAfter(replay.cursor)
  <2>1. /\ rest \in Seq(Numbered)
        /\ Len(rest) = IF replay.cursor >= sequence THEN 0 ELSE sequence - replay.cursor
        /\ \A i \in 1 .. Len(rest) :
             /\ rest[i].sequence = replay.cursor + i /\ replay.cursor + i <= sequence
             /\ \E j \in DOMAIN history : rest[i] = history[j]
    BY <1>1, <1>3, RestIs
  <2>2. Len(rest) \in Nat /\ DOMAIN rest = 1 .. Len(rest)
    BY <2>1
  <2>3. frames = [i \in 1 .. Len(rest) |-> Frame("event", rest[i].sequence, rest[i].event, 0)]
    BY <1>3, <2>2 DEF ReplayFrames
  <2> HIDE DEF rest
  <2>4. ASSUME NEW i \in 1 .. Len(rest)
        PROVE  /\ frames[i] \in Frames /\ frames[i].kind = "event" /\ frames[i].epoch = epoch
               /\ frames[i].sequence = replay.cursor + i
               /\ frames[i].event = logs[epoch][frames[i].sequence] /\ history # <<>>
    <3>1. PICK j \in DOMAIN history : rest[i] = history[j]
      BY <2>1
    <3>2. history[j] \in Numbered /\ history # <<>>
      BY <1>1, Window
    <3>3. logs[epoch][rest[i].sequence] = rest[i].event
      BY <1>1, <3>1 DEF Agrees
    <3>4. frames[i] = Frame("event", rest[i].sequence, rest[i].event, 0)
      BY <2>3
    <3>5. /\ frames[i].kind = "event" /\ frames[i].epoch = epoch
          /\ frames[i].sequence = rest[i].sequence /\ frames[i].event = rest[i].event
      BY <3>4 DEF Frame
    <3>6. frames[i] \in Frames
      BY <1>1, <3>1, <3>2, <3>4, BoundAssumption DEF Frame, Frames, Numbered
    <3>7. QED
      BY <2>1, <3>2, <3>3, <3>5, <3>6
  <2>5. /\ frames \in Seq(Frames) /\ Len(frames) = Len(rest) /\ DOMAIN frames = 1 .. Len(rest)
    BY <2>2, <2>3, <2>4
  <2>6. \A i \in 1 .. Len(rest) : frames[i].sequence \in Nat /\ frames[i].sequence <= sequence
    <3> TAKE i \in 1 .. Len(rest)
    <3>1. frames[i].sequence = replay.cursor + i /\ replay.cursor + i <= sequence
      BY <2>1, <2>4
    <3>2. replay.cursor + i \in Nat
      BY <1>1, <2>2
    <3>3. QED
      BY <3>1, <3>2
  <2>7. Len(rest) > 0 => frames[Len(rest)].sequence = sequence
    <3>1. Len(rest) > 0 => /\ Len(rest) \in 1 .. Len(rest)
                           /\ replay.cursor + Len(rest) = sequence
      BY <1>1, <2>1, <2>2
    <3>2. Len(rest) \in 1 .. Len(rest) => frames[Len(rest)].sequence = replay.cursor + Len(rest)
      BY <2>4
    <3>3. QED
      BY <3>1, <3>2
  <2>8. Len(rest) = 0 => replay.cursor >= sequence
    BY <1>1, <2>1
  <2>9. QED
    BY <1>3, <2>2, <2>4, <2>5, <2>6, <2>7, <2>8
<1>4. QED
  BY <1>2, <1>3

\* What a replay writes, its frames or the first of them and in the end the
\* answer, takes the client from where it is to the number of what is written last.
LEMMA ReplayWire ==
    ASSUME StoreOK, ConnOK, link = "open", replay.on,
           NEW frames, frames = ReplayFrames, NEW m \in Nat, m = Len(wire), NEW s \in Nat, s = sequence,
           NEW answer \in Frames, answer = Frame("response", sequence, 0, replay.id),
           NEW sent \in Seq(Frames), wire' = wire \o sent, Len(sent) <= Len(frames) + 1,
           \A i \in DOMAIN sent : i <= Len(frames) => sent[i] = frames[i],
           \A i \in DOMAIN sent : i = Len(frames) + 1 => sent[i] = answer /\ ~ replay'.on,
           UNCHANGED <<server, client, logs, excused, requests>>,
           replay'.on => replay'.id = replay.id
    PROVE  /\ ClientInv' /\ WireInv' /\ EmptyInv'
           /\ \A i \in DOMAIN sent : i <= Len(frames) => Reaches(m + i, frames[i].sequence)'
           /\ Len(sent) = Len(frames) + 1 => Reaches(m + Len(sent), s)'
           /\ Len(sent) > 0 => (IsLost' => GapWithin(m + Len(sent))')
<1>1. /\ TypeSocket /\ TypeClient /\ LinkInv /\ ClientInv /\ WireInv /\ RequestInv /\ ReplayInv
      /\ EmptyInv
  BY DEF ConnOK, ConnInv
<1>f. /\ frames \in Seq(Frames) /\ Len(frames) \in Nat /\ DOMAIN frames = 1 .. Len(frames)
      /\ \A i \in DOMAIN frames :
           /\ frames[i].epoch = epoch /\ frames[i].sequence \in Nat /\ frames[i].sequence <= sequence
           /\ frames[i].kind \in {"event", "gap"}
           /\ frames[i].kind = "gap" => frames[i].sequence = sequence
      /\ Len(frames) > 0 => frames[Len(frames)].sequence = sequence
      /\ Len(frames) = 0 => ~ replay.gap /\ replay.cursor >= sequence
      /\ replay.gap => Len(frames) = 1 /\ frames[1].kind = "gap"
      /\ \A i \in DOMAIN frames :
           frames[i].kind = "event" =>
             /\ ~ replay.gap /\ frames[i].sequence = replay.cursor + i
             /\ frames[i].event = logs[epoch][frames[i].sequence] /\ history # <<>>
             /\ \A j \in 1 .. i : frames[j].kind = "event"
  BY FramesOfReplay
<1>n. PICK N \in Nat : N = Len(frames)
  BY <1>f
<1>2. /\ frames \in Seq(Frames) /\ N \in Nat /\ DOMAIN frames = 1 .. N
      /\ \A i \in DOMAIN frames :
           /\ frames[i].epoch = epoch /\ frames[i].sequence \in Nat /\ frames[i].sequence <= s
           /\ frames[i].kind \in {"event", "gap"}
           /\ frames[i].kind = "gap" => frames[i].sequence = s
      /\ N > 0 => frames[N].sequence = s
      /\ N = 0 => ~ replay.gap /\ replay.cursor >= s
      /\ replay.gap => N = 1 /\ frames[1].kind = "gap"
      /\ \A i \in DOMAIN frames :
           frames[i].kind = "event" =>
             /\ ~ replay.gap /\ frames[i].sequence = replay.cursor + i
             /\ frames[i].event = logs[epoch][frames[i].sequence] /\ history # <<>>
             /\ \A j \in 1 .. i : frames[j].kind = "event"
  BY <1>f, <1>n
<1>3. /\ stage = "ready" /\ subscribed /\ replay.id \in 1 .. client.asks /\ client.epoch = epoch
      /\ IsLost => replay.gap \/ GapWithin(m)
      /\ ~ replay.gap /\ (~ Excused \/ replay.cursor >= s) => Reaches(m, replay.cursor)
      /\ replay.cursor \in Nat /\ client.asks \in Nat /\ replay.id \in Nat
  BY <1>1, ClientTypes DEF LinkInv, ReplayInv, TypeSocket
<1>4. /\ Len(logs[epoch]) = s /\ epoch \in DOMAIN logs
  <2>1. Live
    BY <1>3 DEF Live
  <2>2. Len(logs) = epoch /\ epoch \in Nat \ {0} /\ Len(logs[epoch]) = s
    BY <1>3, <2>1, BoundAssumption DEF StoreOK, StoreInv, TypeServer, LogsInv, NumberInv
  <2>3. DOMAIN logs = 1 .. Len(logs)
    BY DEF StoreOK, TypeServer
  <2>4. QED
    BY <2>2, <2>3
<1>5. /\ wire \in Seq(Frames) /\ DOMAIN wire = 1 .. m /\ Len(sent) \in Nat
      /\ DOMAIN sent = 1 .. Len(sent)
      /\ \A i \in 1 .. m : wire'[i] = wire[i] /\ wire[i].sequence \in Nat
      /\ \A i \in 1 .. Len(sent) : wire'[m + i] = sent[i]
      /\ Len(wire') = m + Len(sent) /\ DOMAIN wire' = 1 .. m + Len(sent)
  <2>1. wire \in Seq(Frames)
    BY <1>1 DEF TypeSocket
  <2>2. /\ wire' \in Seq(Frames) /\ Len(wire') = Len(wire) + Len(sent)
        /\ \A i \in 1 .. Len(wire) + Len(sent) :
             wire'[i] = IF i <= Len(wire) THEN wire[i] ELSE sent[i - Len(wire)]
    BY <2>1, ConcatProperties
  <2>3. Len(sent) \in Nat /\ DOMAIN sent = 1 .. Len(sent) /\ DOMAIN wire = 1 .. m
    BY <2>1
  <2>4. \A i \in 1 .. m : wire'[i] = wire[i] /\ wire[i].sequence \in Nat
    <3>1. \A i \in 1 .. m : i \in 1 .. Len(wire) + Len(sent) /\ i <= Len(wire)
      BY <2>3
    <3>2. \A i \in 1 .. m : wire[i].sequence \in Nat
      BY <1>1, <2>3, WireTypes
    <3>3. QED
      BY <2>2, <3>1, <3>2
  <2>5. ASSUME NEW i \in 1 .. Len(sent) PROVE wire'[m + i] = sent[i]
    <3>1. m + i \in 1 .. m + Len(sent) /\ ~(m + i <= m) /\ (m + i) - m = i
      BY <2>3
    <3>2. QED
      BY <2>2, <3>1
  <2>6. QED
    BY <2>1, <2>2, <2>3, <2>4, <2>5
<1>6. /\ IsOn' <=> IsOn
      /\ IsLost' <=> IsLost
      /\ IsNew' <=> IsNew
      /\ Excused' <=> Excused
      /\ Reaches(m, s)' <=> Reaches(m, s)
      /\ GapWithin(m)' <=> GapWithin(m)
      /\ \A n : Reaches(m, n)' <=> Reaches(m, n)
  <2>1. /\ IsOn' <=> IsOn
        /\ IsLost' <=> IsLost
        /\ IsNew' <=> IsNew
        /\ Excused' <=> Excused
    BY DEF IsOn, IsNew, IsLost, Excused
  <2>2. \A n : Reaches(m, n)' <=> Reaches(m, n)
    BY <1>5, <2>1 DEF Reaches, Moves
  <2>3. GapWithin(m)' <=> GapWithin(m)
    BY <1>5 DEF GapWithin
  <2>4. QED
    BY <2>1, <2>2, <2>3
<1>7. /\ answer.kind = "response" /\ answer.epoch = epoch /\ answer.sequence = s
      /\ answer.id = replay.id
  BY DEF Frame
<1>8. ASSUME NEW i \in DOMAIN sent
      PROVE  /\ i \in 1 .. Len(sent) /\ wire'[m + i] = sent[i]
             /\ \/ i \in 1 .. N /\ sent[i] = frames[i] /\ Moves(sent[i])
                \/ i = N + 1 /\ i = Len(sent) /\ sent[i] = answer /\ ~ replay'.on /\ ~ Moves(sent[i])
  <2>1. i \in 1 .. Len(sent) /\ wire'[m + i] = sent[i] /\ i <= N + 1
    BY <1>5, <1>8, <1>n
  <2>2. CASE i <= N
    <3>1. i \in 1 .. N /\ sent[i] = frames[i]
      BY <1>n, <1>8, <2>1, <2>2
    <3>2. Moves(frames[i])
      BY <1>2, <3>1 DEF Moves
    <3>3. QED
      BY <2>1, <3>1, <3>2
  <2>3. CASE ~ i <= N
    <3>1. i = N + 1 /\ i = Len(sent)
      BY <1>5, <1>n, <2>1, <2>3
    <3>2. sent[i] = answer /\ ~ replay'.on
      BY <1>n, <3>1
    <3>3. ~ Moves(answer)
      BY <1>7 DEF Moves
    <3>4. QED
      BY <2>1, <3>1, <3>2, <3>3
  <2>4. QED
    BY <2>2, <2>3
<1>9. ASSUME NEW i \in DOMAIN sent, i <= N, NEW n, n = frames[i].sequence
      PROVE  Reaches(m + i, n)' /\ \A k \in Nat : k >= m + i => Reaches(k, n)'
  <2>1. i \in 1 .. N /\ wire'[m + i] = frames[i] /\ m + i \in 1 .. m + i
    BY <1>5, <1>8, <1>2, <1>9
  <2>2. frames[i].kind \in {"event", "gap"} /\ frames[i].sequence \in Nat
    BY <1>2, <2>1
  <2>3. Moves(wire[m + i])' /\ wire'[m + i].sequence >= n
    BY <1>9, <2>1, <2>2 DEF Moves
  <2>4. ASSUME NEW k \in Nat, k >= m + i PROVE Reaches(k, n)'
    <3>1. m + i \in 1 .. k
      BY <2>1, <2>4
    <3>2. QED
      BY <2>3, <3>1 DEF Reaches
  <2>5. QED
    BY <2>1, <2>4
<1>10. ASSUME Len(sent) = N + 1
       PROVE  Reaches(m + N, s)' /\ Reaches(m + (N + 1), s)'
  <2>1. CASE N > 0
    <3>1. N \in DOMAIN sent /\ N <= N /\ s = frames[N].sequence /\ m + (N + 1) \in Nat
          /\ m + N \in Nat /\ m + N >= m + N /\ m + (N + 1) >= m + N
      BY <1>2, <1>5, <1>10, <2>1
    <3>2. QED
      BY <1>9, <3>1
  <2>2. CASE N = 0
    <3>1. Reaches(m, replay.cursor) /\ s <= replay.cursor
      BY <1>2, <1>3, <2>2
    <3>2. Reaches(m, s)
      <4>1. m \in 0 .. Len(wire)
        OBVIOUS
      <4>2. QED
        BY <1>1, <1>3, <3>1, <4>1, ReachesLess
    <3>3. Reaches(m, s)'
      BY <1>6, <3>2
    <3>4. wire'[m + 1] = answer /\ ~ Moves(answer)
      BY <1>2, <1>5, <1>7, <1>8, <1>10, <2>2 DEF Moves
    <3>5. Reaches(m + 1, s)'
      <4>1. \A j \in 1 .. m + 1 : j \in 1 .. m \/ j = m + 1
        OBVIOUS
      <4>2. \A j \in 1 .. m : j \in 1 .. m + 1
        OBVIOUS
      <4>3. answer.sequence >= s
        BY <1>7
      <4>4. QED
        BY <3>3, <3>4, <4>1, <4>2, <4>3 DEF Reaches, Moves
    <3>6. QED
      BY <2>2, <3>3, <3>5
  <2>3. QED
    BY <1>2, <2>1, <2>2
<1>11. ASSUME NEW i \in DOMAIN sent, i <= N, frames[i].kind = "event"
       PROVE  /\ ~ Excused => Reaches(m + (i - 1), frames[i].sequence - 1)'
              /\ IsLost => GapWithin(m + (i - 1))'
  <2>1. i \in 1 .. N /\ i \in DOMAIN frames
    BY <1>2, <1>8, <1>11
  <2>2. /\ ~ replay.gap /\ frames[i].sequence = replay.cursor + i
        /\ \A j \in 1 .. i : frames[j].kind = "event"
    BY <1>2, <1>11, <2>1
  <2>3. IsLost => GapWithin(m + (i - 1))'
    <3>1. IsLost => GapWithin(m)'
      BY <1>3, <1>6, <2>2
    <3>2. GapWithin(m)' => GapWithin(m + (i - 1))'
      BY <2>1 DEF GapWithin
    <3>3. QED
      BY <3>1, <3>2
  <2>4. ASSUME ~ Excused PROVE Reaches(m + (i - 1), frames[i].sequence - 1)'
    <3>1. CASE i = 1
      <4>1. PICK c \in Nat : c = replay.cursor
        BY <1>3
      <4>2. Reaches(m, c)'
        BY <1>3, <1>6, <2>2, <2>4, <4>1
      <4>3. m + (i - 1) = m /\ frames[i].sequence - 1 = c
        BY <2>2, <3>1, <4>1
      <4>4. QED
        BY <4>2, <4>3
    <3>2. CASE i # 1
      <4>1. PICK k \in 1 .. N : k = i - 1
        <5>1. i - 1 \in 1 .. N
          BY <2>1, <3>2
        <5>2. QED
          BY <5>1
      <4>2. k \in DOMAIN sent /\ k <= N /\ k \in DOMAIN frames /\ k \in 1 .. i
        BY <1>2, <1>5, <1>8, <2>1, <4>1
      <4>3. frames[k].sequence = replay.cursor + k
        BY <1>2, <2>2, <4>2
      <4>4. frames[i].sequence - 1 = frames[k].sequence
        <5>1. PICK c \in Nat, x \in Nat : c = replay.cursor /\ x = i
          BY <1>3, <2>1
        <5>2. (c + x) - 1 = c + (x - 1)
          OBVIOUS
        <5>3. frames[i].sequence = c + x /\ frames[k].sequence = c + (x - 1)
          BY <2>2, <4>1, <4>3, <5>1
        <5>4. QED
          BY <5>2, <5>3
      <4>5. Reaches(m + k, frames[k].sequence)'
        BY <1>9, <4>2
      <4>6. QED
        BY <4>1, <4>4, <4>5
    <3>3. QED
      BY <3>1, <3>2
  <2>5. QED
    BY <2>3, <2>4
<1>12. logs' = logs /\ LogsGrow
  <2>1. logs' = logs
    OBVIOUS
  <2>2. QED
    BY <2>1, SameLogs DEF StoreOK
<1>13. ~ client.answer.given
  BY <1>1 DEF ClientInv
<1>14. \A j \in DOMAIN wire : wire[j].kind = "response" => wire[j].id # client.asks
  <2> TAKE j \in DOMAIN wire
  <2>1. wire[j].kind = "response" => wire[j].id < replay.id
    BY <1>1 DEF WireInv
  <2>2. wire[j].id \in Nat
    BY <1>1, WireTypes
  <2>3. QED
    BY <1>3, <2>1, <2>2
<1>15. \A i \in DOMAIN sent :
         /\ sent[i].epoch = client.epoch
         /\ sent[i].sequence <= Len(logs'[client.epoch])
         /\ sent[i].kind = "event" =>
              /\ sent[i].sequence > 0
              /\ logs'[client.epoch][sent[i].sequence] = sent[i].event
              /\ IsLost /\ ~ Excused => GapWithin(m + (i - 1))'
              /\ ~ Excused => Reaches(m + (i - 1), sent[i].sequence - 1)'
         /\ sent[i].kind = "response" =>
              /\ i = Len(sent) /\ sent[i].id \in 1 .. client.asks /\ ~ replay'.on
              /\ \A k \in DOMAIN requests : sent[i].id < requests[k].id
              /\ Reaches(m + (i - 1), sent[i].sequence)'
         /\ Moves(sent[i]) =>
              /\ \A j \in DOMAIN wire : wire[j].kind = "response" /\ wire[j].id = client.asks =>
                                          sent[i].sequence > wire[j].sequence
              /\ client.answer.given => sent[i].sequence > client.answer.sequence
  <2> TAKE i \in DOMAIN sent
  <2>1. CASE i \in 1 .. N /\ sent[i] = frames[i] /\ Moves(sent[i])
    <3>1. /\ sent[i].epoch = client.epoch /\ sent[i].sequence <= Len(logs'[client.epoch])
          /\ sent[i].kind # "response"
      BY <1>2, <1>3, <1>4, <1>12, <2>1
    <3>2. sent[i].kind = "event" =>
            /\ sent[i].sequence > 0 /\ logs'[client.epoch][sent[i].sequence] = sent[i].event
      BY <1>2, <1>3, <1>12, <2>1
    <3>3. sent[i].kind = "event" =>
            /\ IsLost /\ ~ Excused => GapWithin(m + (i - 1))'
            /\ ~ Excused => Reaches(m + (i - 1), sent[i].sequence - 1)'
      <4>1. i <= N
        BY <1>2, <2>1
      <4>2. QED
        BY <1>11, <2>1, <4>1
    <3>4. QED
      BY <1>13, <1>14, <3>1, <3>2, <3>3
  <2>2. CASE i = N + 1 /\ i = Len(sent) /\ sent[i] = answer /\ ~ replay'.on /\ ~ Moves(sent[i])
    <3>1. /\ sent[i].epoch = client.epoch /\ sent[i].sequence <= Len(logs'[client.epoch])
          /\ sent[i].kind # "event" /\ sent[i].id \in 1 .. client.asks
      BY <1>3, <1>4, <1>7, <1>12, <2>2
    <3>2. \A k \in DOMAIN requests : sent[i].id < requests[k].id
      BY <1>1, <1>7, <2>2 DEF RequestInv
    <3>3. Reaches(m + (i - 1), sent[i].sequence)'
      <4>1. m + (i - 1) = m + N /\ sent[i].sequence = s
        BY <1>2, <1>7, <2>2
      <4>2. Reaches(m + N, s)'
        BY <1>10, <2>2
      <4>3. QED
        BY <4>1, <4>2
    <3>4. QED
      BY <2>2, <3>1, <3>2, <3>3
  <2>3. QED
    BY <1>8, <2>1, <2>2
<1>16. ClientInv' /\ WireInv'
  BY <1>1, <1>3, <1>4, <1>12, <1>15, AppendWire
<1>17. EmptyInv'
  <2> SUFFICES ASSUME Live, history = <<>>
               PROVE  /\ \A i \in 1 .. m + Len(sent) : wire'[i].kind # "event" /\ wire'[i].sequence = s
                      /\ IsOn => client.consumed = s
                      /\ client.answer.given => client.answer.sequence = s
    BY <1>5, <1>6 DEF EmptyInv, Live, server
  <2>1. /\ \A i \in 1 .. m : wire[i].kind # "event" /\ wire[i].sequence = s
        /\ IsOn => client.consumed = s
    BY <1>1, <1>3, <1>5 DEF EmptyInv
  <2>2. ASSUME NEW i \in 1 .. m + Len(sent)
        PROVE  wire'[i].kind # "event" /\ wire'[i].sequence = s
    <3>1. CASE i \in 1 .. m
      BY <1>5, <2>1, <3>1
    <3>2. CASE ~ i \in 1 .. m
      <4>1. PICK j \in 1 .. Len(sent) : i = m + j
        <5>1. i - m \in 1 .. Len(sent) /\ i = m + (i - m)
          BY <1>5, <3>2
        <5>2. QED
          BY <5>1
      <4>2. wire'[i] = sent[j] /\ j \in DOMAIN sent
        BY <1>5, <4>1
      <4>3. CASE j \in 1 .. N /\ sent[j] = frames[j]
        BY <1>2, <4>2, <4>3
      <4>4. CASE sent[j] = answer
        BY <1>7, <4>2, <4>4
      <4>5. QED
        BY <1>8, <4>2, <4>3, <4>4
    <3>3. QED
      BY <3>1, <3>2
  <2>3. QED
    BY <1>13, <2>1, <2>2
<1>18. Len(sent) > 0 => (IsLost' => GapWithin(m + Len(sent))')
  <2> SUFFICES ASSUME Len(sent) > 0, IsLost PROVE GapWithin(m + Len(sent))'
    BY <1>6
  <2>1. CASE replay.gap
    <3>1. 1 \in DOMAIN sent /\ 1 <= N /\ frames[1].kind = "gap" /\ m + 1 \in 1 .. m + Len(sent)
      BY <1>2, <1>5, <2>1
    <3>2. wire'[m + 1].kind = "gap"
      <4>1. wire'[m + 1] = sent[1] /\ sent[1] = frames[1]
        BY <1>5, <1>8, <1>n, <3>1
      <4>2. QED
        BY <3>1, <4>1
    <3>3. QED
      BY <3>1, <3>2 DEF GapWithin
  <2>2. CASE ~ replay.gap
    <3>1. GapWithin(m)'
      BY <1>3, <1>6, <2>2
    <3>2. QED
      BY <1>5, <3>1 DEF GapWithin
  <2>3. QED
    BY <2>1, <2>2
<1>19. QED
  <2>1. Len(sent) = N + 1 => Reaches(m + Len(sent), s)'
    BY <1>10
  <2>2. \A i \in DOMAIN sent : i <= N => Reaches(m + i, frames[i].sequence)'
    BY <1>9
  <2>3. QED
    BY <1>16, <1>17, <1>18, <1>n, <2>1, <2>2

\* A replay, to its end with the answer or until the socket pushes back.
LEMMA ReplayConn == ASSUME StoreOK, ConnOK, Replay PROVE ConnOK'
<1>1. /\ link = "open" /\ replay.on
      /\ UNCHANGED <<epoch, stage, sequence, history, store, link, subscribed, requests, client,
                     published, logs, excused, heard, faults>>
  BY DEF Replay, server, ghosts
<1>2. /\ TypeSocket /\ TypeClient /\ LinkInv /\ ClientInv /\ WireInv /\ RequestInv /\ ReplayInv
      /\ LiveInv /\ EmptyInv
  BY DEF ConnOK, ConnInv
<1>3. PICK m \in Nat : m = Len(wire)
  BY <1>2, WireTypes
<1>4. PICK s \in Nat : s = sequence
  BY DEF StoreOK, TypeServer
<1>5. PICK frames : frames = ReplayFrames
  OBVIOUS
<1>6. PICK answer : answer = Frame("response", sequence, 0, replay.id)
  OBVIOUS
<1>7. /\ frames \in Seq(Frames) /\ Len(frames) \in Nat /\ DOMAIN frames = 1 .. Len(frames)
      /\ \A i \in DOMAIN frames : frames[i].sequence \in Nat
  BY <1>1, <1>5, FramesOfReplay
<1>8. answer \in Frames
  <2>1. epoch \in 1 .. MaxEpoch
    BY <1>1, <1>2, BoundAssumption DEF LinkInv, StoreOK, TypeServer
  <2>2. replay.id \in 0 .. MaxAsks
    BY <1>2 DEF TypeSocket
  <2>3. QED
    BY <1>4, <1>6, <2>1, <2>2, BoundAssumption DEF Frame, Frames
<1>9. \/ /\ wire' = (wire \o frames) \o <<answer>> /\ replay' = NoReplay /\ choked' \in BOOLEAN
      \/ \E n \in DOMAIN frames :
           /\ wire' = wire \o SubSeq(frames, 1, n) /\ choked' = TRUE
           /\ replay' = [replay EXCEPT !.cursor = frames[n].sequence, !.gap = FALSE]
  BY <1>5, <1>6, Zenon DEF Replay, ReplayFrames, RestAfter
<1>10. wire \in Seq(Frames)
  BY <1>2 DEF TypeSocket
<1>11. UNCHANGED <<server, client, logs, excused, requests>>
  BY <1>1 DEF server
<1>12. /\ stage = "ready" /\ subscribed /\ replay.id \in 1 .. client.asks
  BY <1>1, <1>2 DEF ReplayInv
<1>13. LinkInv' /\ TypeClient'
  BY <1>1, <1>2, <1>12 DEF LinkInv, TypeClient
<1>14. /\ IsOn' <=> IsOn
       /\ IsLost' <=> IsLost
       /\ IsNew' <=> IsNew
       /\ Excused' <=> Excused
  BY <1>1 DEF IsOn, IsNew, IsLost, Excused
<1>15. \A k \in DOMAIN requests : requests[k].id # 1
  BY <1>1, <1>2 DEF RequestInv
<1>16. replay'.on => replay'.id = replay.id
  <2>1. replay \in [on : BOOLEAN, id : 0 .. MaxAsks, cursor : Nat, gap : BOOLEAN]
    BY <1>2 DEF TypeSocket
  <2>2. ASSUME NEW n, replay' = [replay EXCEPT !.cursor = n, !.gap = FALSE]
        PROVE  replay'.id = replay.id
    BY <2>1, <2>2
  <2>3. replay' = NoReplay => ~ replay'.on
    BY DEF NoReplay
  <2>4. QED
    BY <1>9, <2>2, <2>3
<1>17. RequestInv'
  BY <1>1, <1>2, <1>14, <1>15, <1>16 DEF RequestInv
<1>18. CASE wire' = (wire \o frames) \o <<answer>> /\ replay' = NoReplay /\ choked' \in BOOLEAN
  <2>1. PICK sent \in Seq(Frames) : sent = frames \o <<answer>>
    <3>1. <<answer>> \in Seq(Frames)
      BY <1>8
    <3>2. frames \o <<answer>> \in Seq(Frames)
      BY <1>7, <3>1, ConcatProperties
    <3>3. QED
      BY <3>2, Zenon
  <2>2. /\ Len(sent) = Len(frames) + 1
        /\ \A i \in 1 .. Len(frames) + 1 : sent[i] = IF i <= Len(frames) THEN frames[i] ELSE answer
    <3>1. <<answer>> \in Seq(Frames) /\ Len(<<answer>>) = 1 /\ <<answer>>[1] = answer
      BY <1>8
    <3>2. /\ Len(sent) = Len(frames) + Len(<<answer>>)
          /\ \A i \in 1 .. Len(frames) + Len(<<answer>>) :
               sent[i] = IF i <= Len(frames) THEN frames[i] ELSE <<answer>>[i - Len(frames)]
      BY <1>7, <2>1, <3>1, ConcatProperties
    <3>3. \A i \in 1 .. Len(frames) + 1 : i <= Len(frames) \/ i - Len(frames) = 1
      BY <1>7
    <3>4. QED
      BY <3>1, <3>2, <3>3
  <2>3. wire' = wire \o sent
    <3>1. <<answer>> \in Seq(Frames)
      BY <1>8
    <3>2. QED
      BY <1>7, <1>10, <1>18, <2>1, <3>1, ConcatAssociative
  <2>4. DOMAIN sent = 1 .. Len(frames) + 1 /\ ~ (Len(frames) + 1 <= Len(frames))
    BY <1>7, <2>1, <2>2
  <2>5. ~ replay'.on
    BY <1>18 DEF NoReplay
  <2>6. /\ ClientInv' /\ WireInv' /\ EmptyInv'
        /\ Len(sent) = Len(frames) + 1 => Reaches(m + Len(sent), s)'
        /\ Len(sent) > 0 => (IsLost' => GapWithin(m + Len(sent))')
    <3>1. Len(sent) <= Len(frames) + 1
      BY <1>7, <2>2
    <3>2. \A i \in DOMAIN sent : i <= Len(frames) => sent[i] = frames[i]
      BY <2>2, <2>4
    <3>3. \A i \in DOMAIN sent : i = Len(frames) + 1 => sent[i] = answer /\ ~ replay'.on
      BY <2>2, <2>4, <2>5
    <3>4. link = "open" /\ replay.on /\ (replay'.on => replay'.id = replay.id)
      BY <1>1, <1>16
    <3>5. QED
      BY <1>3, <1>4, <1>5, <1>6, <1>8, <1>11, <2>3, <3>1, <3>2, <3>3, <3>4, ReplayWire
  <2>7. wire' \in Seq(Frames) /\ Len(wire') = m + Len(sent) /\ Len(sent) > 0
    BY <1>3, <1>7, <1>10, <2>1, <2>2, <2>3, ConcatProperties
  <2>8. TypeSocket'
    <3>1. NoReplay \in [on : BOOLEAN, id : 0 .. MaxAsks, cursor : Nat, gap : BOOLEAN]
      BY BoundAssumption DEF NoReplay
    <3>2. QED
      BY <1>1, <1>2, <1>18, <2>7, <3>1 DEF TypeSocket
  <2>9. ReplayInv'
    BY <2>5 DEF ReplayInv
  <2>10. LiveInv'
    <3>1. Reaches(m + Len(sent), s)' /\ (IsLost' => GapWithin(m + Len(sent))')
      BY <2>2, <2>6, <2>7
    <3>2. Reaches(Len(wire), sequence)' /\ (IsLost' => GapWithin(Len(wire))')
      BY <1>1, <1>4, <2>7, <3>1
    <3>3. QED
      BY <3>2 DEF LiveInv
  <2>11. QED
    BY <1>13, <1>17, <2>6, <2>8, <2>9, <2>10 DEF ConnOK, ConnInv
<1>19. ASSUME NEW n \in DOMAIN frames,
              wire' = wire \o SubSeq(frames, 1, n), choked' = TRUE,
              replay' = [replay EXCEPT !.cursor = frames[n].sequence, !.gap = FALSE]
       PROVE  ConnOK'
  <2>1. n \in 1 .. Len(frames) /\ n \in Nat /\ frames[n].sequence \in Nat
    BY <1>7
  <2>2. PICK c \in Nat : c = frames[n].sequence
    BY <2>1
  <2>3. /\ SubSeq(frames, 1, n) \in Seq(Frames) /\ Len(SubSeq(frames, 1, n)) = n
        /\ \A i \in 1 .. n : SubSeq(frames, 1, n)[i] = frames[i]
    <3>1. \A i \in 1 .. n : frames[i] \in Frames
      BY <1>7, <2>1
    <3>2. 1 \in Int /\ n \in Int /\ 1 <= n /\ n - 1 + 1 = n
      BY <2>1
    <3>3. \A i \in 1 .. n : 1 + i - 1 = i
      OBVIOUS
    <3>4. QED
      BY <1>7, <2>1, <3>1, <3>2, <3>3, SubSeqProperties
  <2>4. PICK sent \in Seq(Frames) : sent = SubSeq(frames, 1, n)
    BY <2>3
  <2>5. Len(sent) = n /\ DOMAIN sent = 1 .. n /\ \A i \in 1 .. n : sent[i] = frames[i]
    BY <2>3, <2>4
  <2>6. wire' = wire \o sent
    BY <1>19, <2>4
  <2>7. /\ ClientInv' /\ WireInv' /\ EmptyInv'
        /\ Reaches(m + n, frames[n].sequence)'
        /\ IsLost' => GapWithin(m + n)'
    <3>1. Len(sent) <= Len(frames) + 1
      BY <1>7, <2>1, <2>5
    <3>2. \A i \in DOMAIN sent : i <= Len(frames) => sent[i] = frames[i]
      BY <2>5
    <3>3. \A i \in DOMAIN sent : i = Len(frames) + 1 => sent[i] = answer /\ ~ replay'.on
      <4>1. \A i \in 1 .. n : i # Len(frames) + 1
        BY <1>7, <2>1
      <4>2. QED
        BY <2>5, <4>1
    <3>4. /\ ClientInv' /\ WireInv' /\ EmptyInv'
          /\ \A i \in DOMAIN sent : i <= Len(frames) => Reaches(m + i, frames[i].sequence)'
          /\ Len(sent) > 0 => (IsLost' => GapWithin(m + Len(sent))')
      BY <1>1, <1>3, <1>4, <1>5, <1>6, <1>8, <1>11, <1>16, <2>6, <3>1, <3>2, <3>3,
           ReplayWire
    <3>5. n \in DOMAIN sent /\ n <= Len(frames) /\ Len(sent) > 0
      BY <1>7, <2>1, <2>5
    <3>6. QED
      BY <2>5, <3>4, <3>5
  <2>8. wire' \in Seq(Frames) /\ Len(wire') = m + n
    BY <1>3, <1>10, <2>5, <2>6, ConcatProperties
  <2>9. /\ replay' \in [on : BOOLEAN, id : 0 .. MaxAsks, cursor : Nat, gap : BOOLEAN]
        /\ replay'.on /\ replay'.id = replay.id /\ replay'.cursor = c /\ ~ replay'.gap
    <3>1. replay \in [on : BOOLEAN, id : 0 .. MaxAsks, cursor : Nat, gap : BOOLEAN]
      BY <1>2 DEF TypeSocket
    <3>2. QED
      BY <1>1, <1>19, <2>2, <3>1
  <2>10. TypeSocket'
    BY <1>1, <1>2, <1>19, <2>8, <2>9 DEF TypeSocket
  <2>11. ReplayInv'
    <3>1. Reaches(m + n, c)'
      BY <2>2, <2>7
    <3>2. Reaches(Len(wire), replay.cursor)' /\ (IsLost' => GapWithin(Len(wire))')
      BY <2>7, <2>8, <2>9, <3>1
    <3>3. QED
      BY <1>1, <1>12, <2>9, <3>2 DEF ReplayInv
  <2>12. LiveInv'
    BY <2>9 DEF LiveInv
  <2>13. QED
    BY <1>13, <1>17, <2>7, <2>10, <2>11, <2>12 DEF ConnOK, ConnInv
<1>20. QED
  BY <1>9, <1>18, <1>19

\* Every step keeps the connection's types and the connection's invariant.
LEMMA StepConn == ASSUME StoreOK, ConnOK, [Next]_vars PROVE ConnOK'
<1>1. CASE Start BY <1>1, StartConn
<1>2. CASE Load BY <1>2, LoadConn
<1>3. CASE PublishEvent BY <1>3, PublishConn
<1>4. CASE CloseHost BY <1>4, CloseConn
<1>5. CASE CutSockets BY <1>5, CutSocketsConn
<1>6. CASE Exit BY <1>6, ExitConn
<1>7. CASE Crash BY <1>7, CrashConn
<1>8. CASE Persist \/ WriteDone \/ WriteFails \/ Drain BY <1>8, WriteConn
<1>9. CASE Subscribe BY <1>9, SubscribeConn
<1>10. CASE Replay BY <1>10, ReplayConn
<1>11. CASE Connect BY <1>11, ConnectConn
<1>12. CASE Ask BY <1>12, AskConn
<1>13. CASE TimeOut BY <1>13, TimeOutConn
<1>14. CASE Receive BY <1>14, ReceiveConn
<1>15. CASE ListenerThrows \/ Drop BY <1>15, LeavesConn
<1>16. CASE Continue BY <1>16, ContinueConn
<1>17. CASE UNCHANGED vars
  <2>1. UNCHANGED <<epoch, stage, sequence, history, link, choked, wire, subscribed, replay, requests,
                    client, logs, excused, heard, faults>>
    BY <1>17 DEF vars, server, socket, ghosts
  <2>2. choked' \in BOOLEAN /\ faults' \in 0 .. MaxFaults
    BY <2>1 DEF ConnOK, TypeSocket, TypeClient
  <2>3. QED
    BY <2>1, <2>2, SameConn
<1>18. QED
  BY <1>1, <1>2, <1>3, <1>4, <1>5, <1>6, <1>7, <1>8, <1>9, <1>10, <1>11, <1>12, <1>13,
       <1>14, <1>15,
     <1>16, <1>17, Zenon DEF Next

\* The store's and the connection's invariants hold in every reachable state: the
\* numbers agree with the logs, the file and the journal's memory with the numbers
\* (server.ts, publish; journal.ts, persist), and whatever is on the socket or still
\* to be replayed goes on from where the client stands (client.ts, handleClientFrame).
THEOREM Invariance == Spec => [](StoreOK /\ ConnOK)
<1>1. Init => StoreOK /\ ConnOK
  BY InitStore, InitConn
<1>2. StoreOK /\ ConnOK /\ [Next]_vars => (StoreOK /\ ConnOK)'
  BY StepStore, StepConn
<1>3. QED
  BY <1>1, <1>2, PTL DEF Spec

\* The state keeps its types over every step of Host and client: the history is an
\* unbroken run of at most HistoryLimit numbers (server.ts, publish), a write under
\* way has somebody who waits for it (journal.ts, persist), and a client's cursor
\* is never of a Host that is yet to come (client.ts, applyHostEpoch).
THEOREM TypeCorrect == Spec => []TypeOK
<1>1. StoreOK /\ ConnOK => TypeOK
  BY TypeParts DEF StoreOK, ConnOK
<1>2. QED
  BY <1>1, Invariance, PTL

-----------------------------------------------------------------------------
(* The refinement of EventFeed. *)

\* Where the feed sees the client.
At == IF client.consumedEpoch = 0 THEN [mode |-> "new", epoch |-> 0, position |-> 0]
      ELSE IF client.consumedEpoch # client.epoch
           THEN [mode |-> "lost", epoch |-> 0, position |-> 0]
      ELSE [mode |-> "on", epoch |-> client.epoch, position |-> client.consumed]

FeedStep == [Feed!FeedNext]_(Feed!fvars)

LEMMA AtIs ==
    /\ IsNew => At = Feed!New
    /\ IsOn => At = Feed!On(client.epoch, client.consumed)
    /\ IsLost => At = Feed!Lost
    /\ IsNew' => At' = Feed!New
    /\ IsOn' => At' = Feed!On(client'.epoch, client'.consumed)
    /\ IsLost' => At' = Feed!Lost
    /\ IsNew \/ IsOn \/ IsLost
BY DEF At, IsNew, IsOn, IsLost, Feed!New, Feed!On, Feed!Lost

LEMMA FeedStutters ==
    ASSUME UNCHANGED <<logs, excused, heard>>, At' = At
    PROVE  FeedStep
BY DEF FeedStep, Feed!fvars, At

LEMMA FeedJoins ==
    ASSUME IsNew, NEW e \in DOMAIN logs, NEW p \in 0 .. Len(logs[e]), At' = Feed!On(e, p),
           heard' = heard \/ (p > 0 /\ heard' = Feed!Event(logs[e][p])), UNCHANGED <<logs, excused>>
    PROVE  FeedStep
<1>1. At = Feed!New
  BY AtIs
<1>2. Feed!Join
  BY <1>1 DEF Feed!Join, At
<1>3. QED
  BY <1>2 DEF FeedStep, Feed!FeedNext

LEMMA FeedDelivers ==
    ASSUME IsOn, client.consumed < Len(logs[client.epoch]),
           At' = Feed!On(client.epoch, client.consumed + 1),
           heard' = Feed!Event(logs[client.epoch][client.consumed + 1]), UNCHANGED <<logs, excused>>
    PROVE  FeedStep
<1>1. At = [mode |-> "on", epoch |-> client.epoch, position |-> client.consumed]
  BY AtIs DEF Feed!On
<1>2. At.mode = "on" /\ At.epoch = client.epoch /\ At.position = client.consumed
  BY <1>1
<1>3. Feed!Deliver
  BY <1>2 DEF Feed!Deliver, At
<1>4. QED
  BY <1>3 DEF FeedStep, Feed!FeedNext

LEMMA FeedLoses ==
    ASSUME IsOn, At' = Feed!Lost, UNCHANGED <<logs, excused, heard>>
    PROVE  FeedStep
<1>1. At.mode = "on"
  BY AtIs DEF Feed!On
<1>2. Feed!Lose
  BY <1>1 DEF Feed!Lose, At
<1>3. QED
  BY <1>2 DEF FeedStep, Feed!FeedNext

LEMMA FeedResyncs ==
    ASSUME NEW e \in DOMAIN logs, NEW p \in 0 .. Len(logs[e]), At' = Feed!On(e, p), heard' = Feed!Gap,
           IsOn => e = client.epoch /\ p >= client.consumed, UNCHANGED <<logs, excused>>
    PROVE  FeedStep
<1>1. At.mode = "on" => e = At.epoch /\ p >= At.position
  BY AtIs DEF Feed!On, Feed!New, Feed!Lost
<1>2. Feed!Resync
  BY <1>1 DEF Feed!Resync, At
<1>3. QED
  BY <1>2 DEF FeedStep, Feed!FeedNext

LEMMA FeedOvertakes ==
    ASSUME NEW e \in excused \cap DOMAIN logs, NEW p \in 1 .. Len(logs[e]), At' = Feed!On(e, p),
           heard' = Feed!Event(logs[e][p]), IsLost \/ (IsOn /\ client.epoch = e /\ client.consumed < p),
           UNCHANGED <<logs, excused>>
    PROVE  FeedStep
<1>1. At = Feed!Lost \/ (At.mode = "on" /\ At.epoch = e /\ At.position < p)
  BY AtIs DEF Feed!On
<1>2. Feed!Overtake
  BY <1>1 DEF Feed!Overtake, At
<1>3. QED
  BY <1>2 DEF FeedStep, Feed!FeedNext

LEMMA FeedExcuses ==
    ASSUME Len(logs) > 0, excused' = excused \cup {Len(logs)}, UNCHANGED <<logs, heard>>, At' = At
    PROVE  FeedStep
<1>1. Feed!Excuse
  BY DEF Feed!Excuse, Feed!Last, At
<1>2. QED
  BY <1>1 DEF FeedStep, Feed!FeedNext

\* What has been numbered is no later than what was published; a number beyond is new.
LEMMA UnknownIs ==
    ASSUME NEW x, \A e \in DOMAIN logs : \A i \in DOMAIN logs[e] : logs[e][i] # x
    PROVE  x \notin Feed!Known
BY DEF Feed!Known

LEMMA FeedPublishes ==
    ASSUME StoreOK, stage # "loading", PublishEvent
    PROVE  FeedStep
<1> DEFINE x == published + 1
           L == Len(logs)
<1>1. /\ stage \in {"ready", "closing"} /\ UNCHANGED <<excused, client, heard>>
      /\ logs' = [logs EXCEPT ![epoch] = Append(@, x)]
  BY DEF PublishEvent, Record
<1>2. /\ TypeServer /\ LogsInv /\ Live
  BY <1>1 DEF StoreOK, StoreInv, Live
<1>3. L = epoch /\ epoch \in Nat \ {0} /\ published \in Nat
  BY <1>1, <1>2, BoundAssumption DEF TypeServer, LogsInv, Live
<1>4. /\ DOMAIN logs = 1 .. L /\ L \in DOMAIN logs /\ logs \in Seq(Seq(1 .. MaxEvents))
      /\ logs[L] \in Seq(1 .. MaxEvents) /\ Len(logs[L]) \in Nat
  BY <1>2, <1>3, LogTypes DEF TypeServer
<1> HIDE DEF L
<1>5. /\ Len(logs') = L /\ logs'[L] = Append(logs[L], x)
      /\ \A e \in 1 .. L - 1 : logs'[e] = logs[e]
  <2>1. logs' = [logs EXCEPT ![L] = Append(logs[L], x)]
    BY <1>1, <1>3, <1>4
  <2>2. /\ DOMAIN logs' = DOMAIN logs /\ logs'[L] = Append(logs[L], x)
        /\ \A e \in 1 .. L : e # L => logs'[e] = logs[e]
    BY <1>4, <2>1
  <2>3. \A e \in 1 .. L - 1 : e \in 1 .. L /\ e # L
    BY <1>3
  <2>4. logs' \in Seq(Seq(1 .. MaxEvents))
    BY PublishStore DEF StoreOK, TypeServer
  <2>5. Len(logs') \in Nat /\ DOMAIN logs' = 1 .. Len(logs')
    BY <2>4
  <2>6. Len(logs') = L
    BY <1>3, <1>4, <2>2, <2>5
  <2>7. QED
    BY <2>2, <2>3, <2>6
<1>6. x \in {logs'[L][i] : i \in DOMAIN logs'[L]}
  <2>1. PICK y \in 1 .. MaxEvents : y = x
    BY <1>3, BoundAssumption DEF PublishEvent
  <2>2. /\ Append(logs[L], y)[Len(logs[L]) + 1] = y
        /\ Len(logs[L]) + 1 \in DOMAIN Append(logs[L], y)
    BY <1>4, AppendProperties
  <2>3. QED
    BY <1>5, <2>1, <2>2
<1>7. x \notin Feed!Known
  <2>1. ASSUME NEW e \in DOMAIN logs, NEW i \in DOMAIN logs[e] PROVE logs[e][i] # x
    <3>1. logs[e][i] <= published /\ logs[e][i] \in Nat
      BY <1>2, LogTypes DEF LogsInv
    <3>2. QED
      BY <1>3, <3>1
  <2>2. QED
    BY <2>1, UnknownIs
<1>8. At' = At
  BY <1>1 DEF At
<1>9. Feed!Publish
  <2> HIDE DEF x
  <2>1. L > 0
    BY <1>3
  <2>2. \E y \in {logs'[L][i] : i \in DOMAIN logs'[L]} \ Feed!Known : logs'[L] = Append(logs[L], y)
    BY <1>5, <1>6, <1>7
  <2>3. QED
    BY <1>1, <1>5, <1>8, <2>1, <2>2, Zenon DEF Feed!Publish, Feed!Last, At, L
<1>10. QED
  BY <1>9 DEF FeedStep, Feed!FeedNext

\* A new log that keeps the first k numbers of the last one, and then has news.
LEMMA FeedRestarts ==
    ASSUME TypeServer, NEW new, logs' = Append(logs, new), NEW k \in Nat, k <= Len(new),
           k > 0 => Len(logs) > 0 /\ k <= Len(logs[Len(logs)]),
           \A i \in 1 .. k : new[i] = logs[Len(logs)][i],
           \A i \in k + 1 .. Len(new) : new[i] \notin Feed!Known /\ \A j \in 1 .. i - 1 : new[i] # new[j],
           new \in Seq(1 .. MaxEvents), UNCHANGED <<excused, client, heard>>
    PROVE  FeedStep
<1> DEFINE L == Len(logs)
           old == IF L = 0 THEN <<>> ELSE logs[L]
<1>1. L \in Nat /\ DOMAIN logs = 1 .. L /\ logs \in Seq(Seq(1 .. MaxEvents))
      /\ \A e \in DOMAIN logs : Len(logs[e]) \in Nat
  BY LogTypes DEF TypeServer
<1>2. /\ Len(logs') = L + 1 /\ logs'[L + 1] = new
      /\ \A e \in 1 .. L : logs'[e] = logs[e]
  BY <1>1, AppendProperties
<1>3. k \in 0 .. Len(old) /\ \A i \in 1 .. k : new[i] = old[i]
  <2>1. CASE k = 0
    <3>1. Len(old) \in Nat
      <4>1. Len(<<>>) = 0
        BY EmptySeq
      <4>2. QED
        BY <1>1, <4>1
    <3>2. 1 .. k = {}
      BY <2>1
    <3>3. QED
      BY <2>1, <3>1, <3>2
  <2>2. CASE k # 0
    <3>1. L > 0 /\ k <= Len(logs[L]) /\ L \in DOMAIN logs
      BY <1>1, <2>2
    <3>2. old = logs[L] /\ Len(old) \in Nat
      BY <1>1, <3>1
    <3>3. QED
      BY <3>1, <3>2
  <2>3. QED
    BY <2>1, <2>2
<1>4. At' = At
  BY DEF At
<1>5. Feed!Restart
  <2> DEFINE Keeps(x, n) ==
        /\ n <= Len(x) /\ \A i \in 1 .. n : x[i] = old[i]
        /\ \A i \in n + 1 .. Len(x) : x[i] \notin Feed!Known /\ \A j \in 1 .. i - 1 : x[i] # x[j]
  <2>a. k \in 0 .. Len(old) /\ Keeps(new, k)
    BY <1>3
  <2>1. \E n \in 0 .. Len(old) : Keeps(logs'[L + 1], n)
    <3> HIDE DEF Keeps, old
    <3>1. \E n \in 0 .. Len(old) : Keeps(new, n)
      BY <2>a
    <3>2. QED
      BY <1>2, <3>1
  <2> HIDE DEF old
  <2>2. old = IF L = 0 THEN <<>> ELSE logs[L]
    BY DEF old
  <2>3. QED
    BY <1>2, <1>4, <2>1, <2>2 DEF Feed!Restart, Feed!Last, At, L
<1>6. QED
  BY <1>5 DEF FeedStep, Feed!FeedNext

LEMMA LoadFeed == ASSUME StoreOK, Load PROVE FeedStep
<1>1. stage = "loading" /\ UNCHANGED <<excused, client, heard>>
  BY DEF Load
<1>2. /\ TypeServer /\ sequence \in Nat /\ published \in Nat /\ sequence <= published
      /\ \A e \in DOMAIN logs : \A i \in DOMAIN logs[e] : logs[e][i] <= published - sequence
  BY <1>1, BoundAssumption DEF StoreOK, StoreInv, TypeServer, LoadingInv
<1>3. PICK R \in Nat, lg \in Seq(1 .. MaxEvents) :
        /\ logs' = Append(logs, lg) /\ Len(lg) = R + sequence
        /\ R > 0 => Len(logs) > 0 /\ R <= Len(logs[Len(logs)])
        /\ \A i \in 1 .. R : lg[i] = logs[Len(logs)][i]
        /\ \A i \in 1 .. sequence : lg[R + i] = published - sequence + i
  BY LoadLog
<1>4. ASSUME NEW i \in R + 1 .. Len(lg)
      PROVE  lg[i] = published - sequence + (i - R) /\ lg[i] > published - sequence /\ lg[i] \in Nat
  <2>1. PICK j \in 1 .. sequence : i = R + j
    <3>1. i - R \in 1 .. sequence /\ i = R + (i - R)
      BY <1>2, <1>3
    <3>2. QED
      BY <3>1
  <2>2. lg[i] = published - sequence + j /\ i - R = j
    BY <1>3, <2>1
  <2>3. QED
    BY <1>2, <2>1, <2>2
<1>5. ASSUME NEW i \in 1 .. R
      PROVE  lg[i] <= published - sequence /\ lg[i] \in Nat
  <2>1. Len(logs) > 0 /\ i \in 1 .. Len(logs[Len(logs)])
    BY <1>2, <1>3, LogTypes
  <2>2. Len(logs) \in DOMAIN logs /\ i \in DOMAIN logs[Len(logs)]
    BY <1>2, <2>1, LogTypes
  <2>3. QED
    BY <1>2, <1>3, <2>2, LogTypes
<1>6. ASSUME NEW i \in R + 1 .. Len(lg)
      PROVE  lg[i] \notin Feed!Known /\ \A j \in 1 .. i - 1 : lg[i] # lg[j]
  <2>1. lg[i] > published - sequence /\ lg[i] \in Nat
    BY <1>4
  <2>2. ASSUME NEW e \in DOMAIN logs, NEW n \in DOMAIN logs[e] PROVE logs[e][n] # lg[i]
    <3>1. logs[e][n] <= published - sequence /\ logs[e][n] \in Nat
      BY <1>2, LogTypes
    <3>2. QED
      BY <1>2, <2>1, <3>1
  <2>3. ASSUME NEW j \in 1 .. i - 1 PROVE lg[i] # lg[j]
    <3>1. CASE j \in 1 .. R
      BY <1>2, <1>5, <2>1, <3>1
    <3>2. CASE ~ j \in 1 .. R
      <4>1. j \in R + 1 .. Len(lg)
        BY <1>2, <1>3, <3>2
      <4>2. lg[j] = published - sequence + (j - R) /\ lg[i] = published - sequence + (i - R)
        BY <1>4, <4>1
      <4>3. j < i /\ j \in Int /\ i \in Int /\ published - sequence \in Int
        BY <1>2, <1>3
      <4>4. QED
        BY <1>3, <4>2, <4>3
    <3>3. QED
      BY <3>1, <3>2
  <2>4. QED
    BY <2>2, <2>3, UnknownIs
<1>7. QED
  <2>1. R <= Len(lg)
    BY <1>2, <1>3
  <2>2. QED
    BY <1>1, <1>2, <1>3, <1>6, <2>1, FeedRestarts

\* A Host that dies while it loads leaves its predecessor's numbers as they are.
LEMMA CrashFeed == ASSUME StoreOK, Crash PROVE FeedStep
<1>1. /\ UNCHANGED <<epoch, client, excused, heard>> /\ stage # "down"
      /\ logs' = IF stage # "loading" THEN logs
                 ELSE Append(logs, IF epoch = 1 THEN <<>> ELSE logs[epoch - 1])
  BY DEF Crash
<1>2. TypeServer /\ LogsInv
  BY DEF StoreOK, StoreInv
<1>3. At' = At
  BY <1>1 DEF At
<1>4. CASE stage # "loading"
  BY <1>1, <1>3, <1>4, FeedStutters
<1>5. CASE stage = "loading"
  <2>1. Len(logs) = epoch - 1 /\ epoch \in Nat \ {0}
    BY <1>2, <1>5, BoundAssumption DEF LogsInv, TypeServer
  <2> DEFINE L == Len(logs)
  <2>2. PICK new : new = IF epoch = 1 THEN <<>> ELSE logs[epoch - 1]
    OBVIOUS
  <2>3. logs' = Append(logs, new)
    BY <1>1, <1>5, <2>2
  <2>4. CASE epoch = 1
    <3>1. new = <<>> /\ new \in Seq(1 .. MaxEvents) /\ Len(new) = 0
      BY <2>2, <2>4, EmptySeq
    <3>2. 1 .. 0 = {} /\ 0 + 1 .. Len(new) = {} /\ 0 \in Nat /\ 0 <= Len(new) /\ ~(0 > 0)
      BY <3>1
    <3>3. QED
      BY <1>1, <1>2, <2>3, <3>1, <3>2, FeedRestarts
  <2>5. CASE epoch # 1
    <3>1. L \in DOMAIN logs /\ L > 0 /\ new = logs[L]
      BY <1>2, <2>1, <2>2, <2>5, LogTypes
    <3>2. new \in Seq(1 .. MaxEvents) /\ Len(new) \in Nat
      BY <1>2, <3>1, LogTypes
    <3>3. PICK k \in Nat : k = Len(new)
      BY <3>2
    <3>4. k + 1 .. Len(new) = {} /\ k <= Len(new)
      BY <3>3
    <3>5. k <= Len(logs[Len(logs)]) /\ \A i \in 1 .. k : new[i] = logs[Len(logs)][i]
      BY <3>1, <3>3
    <3>6. QED
      BY <1>1, <1>2, <2>3, <3>1, <3>2, <3>4, <3>5, FeedRestarts
  <2>6. QED
    BY <2>4, <2>5
<1>6. QED
  BY <1>4, <1>5

\* Asking, timing out, closing: only a closing Host and a second request for
\* everything excuse what overtakes.
LEMMA ExcuseFeed == ASSUME StoreOK, CloseHost \/ Ask PROVE FeedStep
<1>1. /\ stage = "ready" /\ UNCHANGED <<logs, heard>>
      /\ excused' = excused \/ excused' = excused \cup {epoch}
  BY DEF CloseHost, Ask
<1>2. Len(logs) = epoch /\ epoch > 0
  BY <1>1 DEF StoreOK, StoreInv, LogsInv
<1>3. At' = At
  <2>1. CASE CloseHost
    BY <2>1 DEF CloseHost, At
  <2>2. CASE Ask
    <3>1. client' = [client EXCEPT !.asks = @ + 1, !.pending = client.asks + 1]
      BY <2>2 DEF Ask
    <3>2. /\ client'.epoch = client.epoch /\ client'.consumedEpoch = client.consumedEpoch
          /\ client'.consumed = client.consumed
      BY <3>1
    <3>3. QED
      BY <3>2 DEF At
  <2>3. QED
    BY <2>1, <2>2
<1>4. QED
  BY <1>1, <1>2, <1>3, FeedStutters, FeedExcuses

LEMMA LeaveFeed ==
    ASSUME ConnOK, Disconnected, UNCHANGED <<logs, excused, heard>>
    PROVE  FeedStep
<1>1. client' = Rejected(client)
  BY DEF Disconnected
<1>2. /\ client'.epoch = client.epoch /\ client'.consumedEpoch = client.consumedEpoch
      /\ client'.consumed = client.consumed
  BY <1>1, RejectedIs DEF ConnOK
<1>3. At' = At
  BY <1>2 DEF At
<1>4. QED
  BY <1>3, FeedStutters

LEMMA TimeOutFeed == ASSUME ConnOK, TimeOut PROVE FeedStep
<1>1. UNCHANGED <<logs, excused, heard>>
  BY DEF TimeOut, ghosts
<1>2. CASE Disconnected
  BY <1>1, <1>2, LeaveFeed
<1>3. CASE client' = [client EXCEPT !.pending = 0]
  <2>1. /\ client'.epoch = client.epoch /\ client'.consumedEpoch = client.consumedEpoch
        /\ client'.consumed = client.consumed
    BY <1>3
  <2>2. QED
    BY <1>1, <2>1, FeedStutters DEF At
<1>4. QED
  BY <1>2, <1>3 DEF TimeOut

\* A client that meets another Host has lost its position.
LEMMA ConnectFeed == ASSUME StoreOK, ConnOK, Connect PROVE FeedStep
<1>1. client' = ApplyEpoch(client) /\ UNCHANGED <<logs, excused, heard>>
  BY DEF Connect, ghosts
<1>2. /\ client.epoch <= epoch /\ client.consumedEpoch <= client.epoch
      /\ client.epoch \in Nat /\ client.consumedEpoch \in Nat /\ epoch \in Nat
  BY ClientTypes, BoundAssumption DEF ConnOK, TypeClient, StoreOK, TypeServer
<1>3. CASE client.epoch = epoch
  BY <1>1, <1>3, FeedStutters DEF ApplyEpoch, At
<1>4. CASE client.epoch # epoch
  <2>1. client'.epoch = epoch /\ client'.consumedEpoch = client.consumedEpoch
    <3>1. client' = [client EXCEPT !.epoch = epoch, !.consumed = 0]
      BY <1>1, <1>4 DEF ApplyEpoch
    <3>2. client \in Clients
      BY DEF ConnOK, TypeClient
    <3>3. QED
      BY <3>1, <3>2 DEF Clients
  <2>2. client'.consumedEpoch # client'.epoch
    BY <1>2, <1>4, <2>1
  <2>3. CASE IsNew
    <3>1. At' = At
      BY <2>1, <2>3 DEF At, IsNew
    <3>2. QED
      BY <1>1, <3>1, FeedStutters
  <2>4. CASE IsLost
    <3>1. At' = At
      BY <2>1, <2>2, <2>4 DEF At, IsNew, IsLost
    <3>2. QED
      BY <1>1, <3>1, FeedStutters
  <2>5. CASE IsOn
    <3>1. IsLost'
      BY <2>1, <2>2, <2>5 DEF IsOn, IsNew, IsLost
    <3>2. QED
      BY <1>1, <2>5, <3>1, AtIs, FeedLoses
  <2>6. QED
    BY <2>3, <2>4, <2>5, AtIs
<1>5. QED
  BY <1>3, <1>4

\* An event that is read is the next one, or an excused one; a gap leads forward.
LEMMA ReceiveFeed == ASSUME StoreOK, ConnOK, Receive PROVE FeedStep
<1>1. PICK f : f = wire[1]
  OBVIOUS
<1> DEFINE E == client.epoch
<1>2. /\ wire # <<>> /\ f \in Frames /\ f.epoch = E /\ E > 0 /\ E \in DOMAIN logs
      /\ f.sequence <= Len(logs[E]) /\ UNCHANGED <<logs, excused>>
      /\ client'.epoch = E
      /\ \/ client' = client /\ heard' = heard
         \/ /\ Moves(f) /\ client'.consumedEpoch = E
            /\ client'.consumed = IF IsOn /\ client.consumed > f.sequence THEN client.consumed
                                  ELSE f.sequence
            /\ f.kind = "event" /\ IsOn => client.consumed < f.sequence
            /\ heard' = IF f.kind = "event" THEN Feed!Event(f.event) ELSE Feed!Gap
         \/ /\ client'.consumedEpoch = client.consumedEpoch /\ client'.consumed = client.consumed
            /\ heard' = heard
  BY <1>1, ReceiveIs
<1>3. /\ TypeSocket /\ TypeClient /\ ClientInv /\ WireInv
  BY DEF ConnOK, ConnInv
<1>4. /\ f.sequence \in Nat /\ client.consumed \in Nat /\ client.answer.sequence \in Nat
      /\ E \in Nat /\ Len(logs[E]) \in Nat /\ client.consumedEpoch \in Nat
  BY <1>2, <1>3, ClientTypes, LogTypes DEF Frames, StoreOK
<1>5. 1 \in DOMAIN wire
  <2>1. wire \in Seq(Frames)
    BY <1>3 DEF TypeSocket
  <2>2. QED
    BY <1>2, <2>1, EmptySeq
<1>6. f.kind = "event" =>
        /\ f.sequence > 0 /\ logs[E][f.sequence] = f.event
        /\ IsLost /\ ~ Excused => GapWithin(0)
        /\ ~ Excused => Reaches(0, f.sequence - 1)
  <2>1. 1 - 1 = 0
    OBVIOUS
  <2>2. wire[1].kind = "event" =>
          /\ wire[1].sequence > 0 /\ logs[E][wire[1].sequence] = wire[1].event
          /\ IsLost /\ ~ Excused => GapWithin(1 - 1)
          /\ ~ Excused => Reaches(1 - 1, wire[1].sequence - 1)
    BY <1>3, <1>5 DEF WireInv
  <2>3. QED
    BY <1>1, <2>1, <2>2
<1>7. IsOn => client.consumed <= Len(logs[E])
  BY <1>3 DEF ClientInv
<1>8. CASE client' = client /\ heard' = heard
  BY <1>2, <1>8, FeedStutters DEF At
<1>9. CASE /\ client'.consumedEpoch = client.consumedEpoch /\ client'.consumed = client.consumed
           /\ heard' = heard
  BY <1>2, <1>9, FeedStutters DEF At
<1>10. CASE /\ Moves(f) /\ client'.consumedEpoch = E
            /\ client'.consumed = IF IsOn /\ client.consumed > f.sequence THEN client.consumed
                                  ELSE f.sequence
            /\ f.kind = "event" /\ IsOn => client.consumed < f.sequence
            /\ heard' = IF f.kind = "event" THEN Feed!Event(f.event) ELSE Feed!Gap
  <2>1. PICK p \in Nat : p = client'.consumed
    BY <1>4, <1>10
  <2>2. At' = Feed!On(E, p)
    <3>1. IsOn'
      BY <1>2, <1>10 DEF IsOn, IsNew
    <3>2. QED
      BY <1>2, <2>1, <3>1, AtIs
  <2>3. p \in 0 .. Len(logs[E])
    BY <1>2, <1>4, <1>7, <1>10, <2>1
  <2>4. CASE f.kind = "gap"
    <3>1. IsOn => p >= client.consumed
      BY <1>4, <1>10, <2>1
    <3>2. heard' = Feed!Gap
      BY <1>10, <2>4
    <3>3. QED
      BY <1>2, <2>2, <2>3, <3>1, <3>2, FeedResyncs
  <2>5. CASE f.kind = "event"
    <3>1. /\ p = f.sequence /\ p \in 1 .. Len(logs[E]) /\ p > 0
          /\ heard' = Feed!Event(logs[E][p])
      BY <1>2, <1>4, <1>6, <1>10, <2>1, <2>5
    <3>2. CASE IsNew
      BY <1>2, <2>2, <2>3, <3>1, <3>2, FeedJoins
    <3>3. CASE ~ IsNew /\ Excused
      <4>1. E \in excused \cap DOMAIN logs
        BY <1>2, <3>3 DEF Excused
      <4>2. IsLost \/ (IsOn /\ client.epoch = E /\ client.consumed < p)
        BY <1>10, <2>5, <3>1, <3>3, AtIs
      <4>3. QED
        BY <1>2, <2>2, <3>1, <4>1, <4>2, FeedOvertakes
    <3>4. CASE ~ IsNew /\ ~ Excused
      <4>1. IsOn
        <5>1. ~ GapWithin(0)
          BY DEF GapWithin
        <5>2. QED
          BY <1>6, <2>5, <3>4, <5>1, AtIs
      <4>2. client.consumed >= p - 1
        <5>1. Reaches(0, p - 1)
          BY <1>6, <2>5, <3>1, <3>4
        <5>2. \/ client.consumed >= p - 1
              \/ client.answer.given /\ client.answer.sequence >= p - 1
          BY <3>4, <5>1 DEF Reaches
        <5>3. client.answer.given => client.answer.sequence <= client.consumed
          BY <1>3, <4>1 DEF ClientInv
        <5>4. QED
          BY <1>4, <5>2, <5>3
      <4>3. p = client.consumed + 1 /\ client.consumed < Len(logs[E])
        <5>1. client.consumed < p
          BY <1>10, <2>5, <3>1, <4>1
        <5>2. QED
          BY <1>4, <3>1, <4>2, <5>1
      <4>4. QED
        BY <1>2, <2>2, <3>1, <4>1, <4>3, FeedDelivers
    <3>5. QED
      BY <3>2, <3>3, <3>4
  <2>6. QED
    BY <1>10, <2>4, <2>5 DEF Moves
<1>11. QED
  BY <1>2, <1>8, <1>9, <1>10

\* A subscription that is continued moves only a client that has seen nothing.
LEMMA ContinueFeed == ASSUME StoreOK, ConnOK, Continue PROVE FeedStep
<1>1. /\ client.answer.given /\ client.epoch > 0 /\ UNCHANGED <<logs, excused, heard>>
      /\ client'.epoch = client.epoch /\ client'.consumedEpoch = client.epoch
      /\ client'.consumed = IF IsOn THEN client.consumed ELSE client.answer.sequence
  BY ContinueIs
<1>2. /\ client.epoch \in DOMAIN logs /\ client.answer.sequence <= Len(logs[client.epoch])
      /\ ~ IsLost /\ client.answer.sequence \in Nat /\ Len(logs[client.epoch]) \in Nat
      /\ client.epoch \in Nat
  BY <1>1, ClientTypes, LogTypes DEF ConnOK, ConnInv, ClientInv, StoreOK
<1>3. IsOn'
  BY <1>1, <1>2 DEF IsOn, IsNew
<1>4. CASE IsOn
  <2>1. At' = At
    BY <1>1, <1>3, <1>4, AtIs
  <2>2. QED
    BY <1>1, <2>1, FeedStutters
<1>5. CASE IsNew
  <2>1. client'.consumed = client.answer.sequence
    BY <1>1, <1>5 DEF IsOn
  <2>2. At' = Feed!On(client.epoch, client.answer.sequence)
    BY <1>1, <1>3, <2>1, AtIs
  <2>3. QED
    BY <1>1, <1>2, <1>5, <2>2, FeedJoins
<1>6. QED
  BY <1>2, <1>4, <1>5, AtIs

LEMMA StepFeed == ASSUME StoreOK, ConnOK, [Next]_vars PROVE FeedStep
<1>1. CASE Load BY <1>1, LoadFeed
<1>2. CASE Crash BY <1>2, CrashFeed
<1>3. CASE PublishEvent
  <2>1. CASE stage = "loading"
    BY <1>3, <2>1, FeedStutters DEF PublishEvent, At
  <2>2. CASE stage # "loading"
    BY <1>3, <2>2, FeedPublishes
  <2>3. QED
    BY <2>1, <2>2
<1>4. CASE CloseHost \/ Ask BY <1>4, ExcuseFeed
<1>5. CASE \/ Start \/ CutSockets \/ Exit \/ Persist \/ WriteDone \/ WriteFails
           \/ Subscribe \/ Replay \/ Drain \/ UNCHANGED vars
  <2>1. UNCHANGED <<logs, excused, heard, client>>
    BY <1>5
       DEF Start, CutSockets, Exit, Persist, WriteDone, WriteFails, Subscribe, Replay,
         Drain, vars,
                ghosts
  <2>2. QED
    BY <2>1, FeedStutters DEF At
<1>6. CASE Connect BY <1>6, ConnectFeed
<1>7. CASE TimeOut BY <1>7, TimeOutFeed
<1>8. CASE Receive BY <1>8, ReceiveFeed
<1>9. CASE ListenerThrows \/ Drop
  BY <1>9, LeaveFeed DEF ListenerThrows, Drop, ghosts
<1>10. CASE Continue BY <1>10, ContinueFeed
<1>11. QED
  BY <1>1, <1>2, <1>3, <1>4, <1>5, <1>6, <1>7, <1>8, <1>9, <1>10, Zenon DEF Next

\* The journey of an event from runtime to listener keeps what EventFeed promises:
\* once, in order, none left out without a gap but where EventFeed says so, whatever
\* replays are superseded (server.ts, subscribeConnection), sockets overflow
\* (socket-writer.ts), listeners throw and requests time out (client.ts), and
\* however many Hosts crash or close one after the other.
THEOREM HostImplementsFeed == Spec => ImplementsFeed
<1>1. Init => Feed!FeedInit
  BY DEF Init, Feed!FeedInit, Feed!New
<1>2. StoreOK /\ ConnOK /\ [Next]_vars => [Feed!FeedNext]_(Feed!fvars)
  BY StepFeed DEF FeedStep
<1>3. QED
  BY <1>1, <1>2, Invariance, PTL DEF Spec, ImplementsFeed, Feed!FeedSpec
=============================================================================

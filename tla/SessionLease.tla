---------------------------- MODULE SessionLease ----------------------------
(***************************************************************************)
(* The cross-process lease of one session (src/src/runtime/SessionLease.ts).*)
(* Two files decide who may write the session.  The authority file is an   *)
(* empty SQLite database that is never deleted: a process that holds BEGIN *)
(* IMMEDIATE on it is elected, and the kernel drops that lock when the     *)
(* process closes the database or dies.  The marker names the owner; it is *)
(* created with O_EXCL, and a marker found there is reclaimed or respected *)
(* by what it says.                                                        *)
(*                                                                         *)
(* acquire and release are synchronous, but the processes are not: every   *)
(* file-system call is a step of its own, a process may die between any    *)
(* two, and the authority file may be replaced under it.  The legacy       *)
(* processes run an older binary that publishes a marker without an        *)
(* authority and takes no lock.                                            *)
(***************************************************************************)
EXTENDS Naturals, FiniteSets

CONSTANTS
    Writers,        \* processes of this version, each with one SessionLeaseStore
    Legacies,       \* processes of an older binary
    Inodes,         \* inodes a marker file can get
    Nobody,         \* the gate of an authority file is free
    NoMarker,       \* no file at the marker's path
    NoInode,        \* a process that has looked at no marker yet
    MaxAuthority,   \* bound: 1 + how often the authority file is replaced
    MaxFaults       \* bound: crashes and failing writes

ASSUME WritersAssumption == Nobody \notin Writers /\ Legacies \cap Writers = {}
ASSUME BoundsAssumption  == MaxAuthority \in {1, 2} /\ MaxFaults \in Nat

Attempts == 0 .. 3
Authorities == 1 .. MaxAuthority

VARIABLES
    authority,      \* the inode at the authority file's path
    gate,           \* per authority inode: who holds BEGIN IMMEDIATE on it
    marker,         \* the file at the marker's path
    retired,        \* inodes of the markers renamed to .stale-... files
    pc,             \* the file-system call each process makes next
    bound,          \* the authority identity its acquisition is bound to
    inode,          \* the marker identity it created or looked at
    attempt,        \* iteration of acquire's loop
    legacy,         \* the life of each legacy process
    faults          \* how many crashes and failed writes happened

vars == <<authority, gate, marker, retired, pc, bound, inode, attempt, legacy, faults>>

\* The gate is held from the election to the very last call of release.
Electing == {"bind", "create", "write", "verify", "confirm", "read", "rebind", "stat", "rename"}
Releasing == {"unbind", "inspect", "unlink"}
Elected == Electing \cup Releasing \cup {"held", "closing"}

NoAuthority == 0    \* the authority field a legacy marker lacks

Marker == [inode : Inodes, owner : Writers \cup Legacies, authority : Authorities \cup {NoAuthority},
           complete : BOOLEAN]

ASSUME MarkersAssumption == NoMarker \notin Marker /\ NoInode \notin Inodes

TypeOK ==
    /\ authority \in Authorities
    /\ gate \in [Authorities -> Writers \cup {Nobody}]
    /\ marker \in Marker \cup {NoMarker}
    /\ retired \subseteq Inodes
    /\ pc \in [Writers -> {"idle", "gate", "dead"} \cup Elected]
    /\ bound \in [Writers -> Authorities]
    /\ inode \in [Writers -> Inodes \cup {NoInode}]
    /\ attempt \in [Writers -> Attempts]
    /\ legacy \in [Legacies -> {"waiting", "live", "crashed", "gone"}]
    /\ faults \in 0 .. MaxFaults

Init ==
    /\ authority = 1
    /\ gate = [a \in Authorities |-> Nobody]
    /\ marker = NoMarker
    /\ retired = {}
    /\ pc = [w \in Writers |-> "idle"]
    /\ bound = [w \in Writers |-> 1]
    /\ inode = [w \in Writers |-> NoInode]
    /\ attempt = [w \in Writers |-> 0]
    /\ legacy = [l \in Legacies |-> "waiting"]
    /\ faults = 0

-----------------------------------------------------------------------------
(* acquire: the election.                                                  *)

At(w, here, there) == pc[w] = here /\ pc' = [pc EXCEPT ![w] = there]

Bound(w) == bound[w] = authority        \* assertBinding does not throw

\* The authority file is created if it is missing and its identity is noted.
BeginAcquire(w) ==
    /\ At(w, "idle", "gate")
    /\ bound' = [bound EXCEPT ![w] = authority]
    /\ attempt' = [attempt EXCEPT ![w] = 0]
    /\ UNCHANGED <<authority, gate, marker, retired, inode, legacy, faults>>

\* Mutant: a deferred transaction, which locks nothing.
GateFree_Deferred(w) == TRUE

GateFree(w) == gate[bound[w]] = Nobody

\* BEGIN IMMEDIATE with timeout 0, and the binding still holds afterwards.
TakeGate(w) ==
    /\ At(w, "gate", "bind")
    /\ Bound(w)
    /\ GateFree(w)
    /\ gate' = [gate EXCEPT ![bound[w]] = w]
    /\ UNCHANGED <<authority, marker, retired, bound, inode, attempt, legacy, faults>>

\* The database is busy, or its file was replaced: acquire throws.
Refused(w) ==
    /\ At(w, "gate", "idle")
    /\ ~ (Bound(w) /\ GateFree(w))
    /\ UNCHANGED <<authority, gate, marker, retired, bound, inode, attempt, legacy, faults>>

\* assertBinding before a call on the marker: the next call, or the error path.
CheckBinding(w, here, there) ==
    /\ At(w, here, IF Bound(w) THEN there ELSE "closing")
    /\ UNCHANGED <<authority, gate, marker, retired, bound, inode, attempt, legacy, faults>>

-----------------------------------------------------------------------------
(* acquire: the marker is published.                                       *)

\* A new file never gets the inode of a file that still exists, be it at the
\* marker's path, renamed away, or still open in a process that writes it.
FreshInode(i) ==
    /\ i \notin retired
    /\ marker # NoMarker => marker.inode # i
    /\ \A w \in Writers : pc[w] \in {"write", "verify"} => inode[w] # i

\* O_CREAT | O_EXCL succeeds; the file is still empty.
CreateMarker(w) ==
    /\ At(w, "create", "write")
    /\ marker = NoMarker
    /\ \E i \in Inodes :
          /\ FreshInode(i)
          /\ inode' = [inode EXCEPT ![w] = i]
          /\ marker' = [inode |-> i, owner |-> w, authority |-> bound[w], complete |-> FALSE]
    /\ UNCHANGED <<authority, gate, retired, bound, attempt, legacy, faults>>

\* EEXIST.
MarkerExists(w) ==
    /\ At(w, "create", "read")
    /\ marker # NoMarker
    /\ UNCHANGED <<authority, gate, marker, retired, bound, inode, attempt, legacy, faults>>

AtPath(w) == marker # NoMarker /\ marker.inode = inode[w]

\* The bytes go to the open descriptor, wherever its file is by now.
Written(w) == IF AtPath(w) THEN [marker EXCEPT !.complete = TRUE] ELSE marker

\* writeAll and fsync.
WriteMarker(w) ==
    /\ At(w, "write", "verify")
    /\ marker' = Written(w)
    /\ UNCHANGED <<authority, gate, retired, bound, inode, attempt, legacy, faults>>

\* The disk is full or fsync fails: whatever was written stays at the path.
WriteFails(w) ==
    /\ At(w, "write", "closing")
    /\ faults < MaxFaults
    /\ faults' = faults + 1
    /\ marker' \in {marker, Written(w)}
    /\ UNCHANGED <<authority, gate, retired, bound, inode, attempt, legacy>>

\* The file at the path is still the one this process created.
VerifyMarker(w) ==
    /\ At(w, "verify", IF AtPath(w) THEN "confirm" ELSE "closing")
    /\ UNCHANGED <<authority, gate, marker, retired, bound, inode, attempt, legacy, faults>>

-----------------------------------------------------------------------------
(* acquire: a marker is already there.                                     *)

OwnerLives(m) == m.owner \in Legacies /\ legacy[m.owner] = "live"

\* What readLease makes of the path: it returns the record of a complete
\* marker and throws for an empty, a torn or a missing one.
Readable == marker # NoMarker /\ marker.complete

\* The pid of a dead legacy process may belong to another one by now: such a
\* marker may look alive, and so may be respected as well as retired.
Respected == Readable /\ marker.authority = NoAuthority

\* Mutant: a gated marker is taken for stale whatever authority it names.
Retirable_AnyGated(w) ==
    \/ ~ Readable
    \/ Readable /\ marker.authority = NoAuthority /\ ~ OwnerLives(marker)
    \/ Readable /\ marker.authority # NoAuthority

\* Mutant: the pid decides for gated markers too.
Retirable_ByPid(w) ==
    \/ ~ Readable
    \/ Readable /\ marker.authority = NoAuthority /\ ~ OwnerLives(marker)
    \/ Readable /\ marker.authority = bound[w] /\ pc[marker.owner] = "dead"

\* Mutant: an unreadable marker is respected.
Retirable_ReadableOnly(w) ==
    \/ Readable /\ marker.authority = NoAuthority /\ ~ OwnerLives(marker)
    \/ Readable /\ marker.authority = bound[w]

Retirable(w) ==
    \/ ~ Readable
    \/ Readable /\ marker.authority = NoAuthority /\ ~ OwnerLives(marker)
    \/ Readable /\ marker.authority = bound[w]

\* SessionLeaseError for a legacy owner, or an error for a marker that was
\* published under another authority file.
RespectMarker(w) ==
    /\ At(w, "read", "closing")
    /\ Respected \/ ~ Retirable(w)
    /\ UNCHANGED <<authority, gate, marker, retired, bound, inode, attempt, legacy, faults>>

JudgeStale(w) ==
    /\ At(w, "read", "rebind")
    /\ Retirable(w)
    /\ UNCHANGED <<authority, gate, marker, retired, bound, inode, attempt, legacy, faults>>

\* retireStaleLease: the identity of the file at the path, ...
StatMarker(w) ==
    /\ At(w, "stat", IF marker = NoMarker THEN "closing" ELSE "rename")
    /\ inode' = [inode EXCEPT ![w] = IF marker = NoMarker THEN @ ELSE marker.inode]
    /\ UNCHANGED <<authority, gate, marker, retired, bound, attempt, legacy, faults>>

\* ... the rename, which moves whatever is there now, and the comparison.
RenameMarker(w) ==
    /\ marker # NoMarker
    /\ At(w, "rename", IF AtPath(w) /\ attempt[w] + 1 \in Attempts THEN "bind" ELSE "closing")
    /\ attempt' = [attempt EXCEPT ![w] = IF AtPath(w) /\ @ + 1 \in Attempts THEN @ + 1 ELSE @]
    /\ marker' = NoMarker
    /\ retired' = retired \cup {marker.inode}
    /\ UNCHANGED <<authority, gate, bound, inode, legacy, faults>>

RenameFails(w) ==
    /\ marker = NoMarker
    /\ At(w, "rename", "closing")
    /\ UNCHANGED <<authority, gate, marker, retired, bound, inode, attempt, legacy, faults>>

-----------------------------------------------------------------------------
(* release and the error path.                                             *)

FreeGate(w) == [a \in Authorities |-> IF gate[a] = w THEN Nobody ELSE gate[a]]

\* Mutant: the lock is dropped before the marker is gone.
BeginRelease_GateFirst(w) ==
    /\ At(w, "held", "unbind")
    /\ gate' = FreeGate(w)
    /\ UNCHANGED <<authority, marker, retired, bound, inode, attempt, legacy, faults>>

\* lease.close() and store.close(): the map forgets the lease first.
BeginRelease(w) ==
    /\ At(w, "held", "unbind")
    /\ UNCHANGED <<authority, gate, marker, retired, bound, inode, attempt, legacy, faults>>

\* The marker is only deleted when it still is this process's own.
OwnMarker(w) == AtPath(w) /\ marker.complete /\ marker.owner = w

InspectMarker(w) ==
    /\ At(w, "inspect", IF OwnMarker(w) THEN "unlink" ELSE "closing")
    /\ UNCHANGED <<authority, gate, marker, retired, bound, inode, attempt, legacy, faults>>

UnlinkMarker(w) ==
    /\ At(w, "unlink", "closing")
    /\ marker' = NoMarker
    /\ UNCHANGED <<authority, gate, retired, bound, inode, attempt, legacy, faults>>

\* ROLLBACK and close of the database, on every way out.
CloseGate(w) ==
    /\ At(w, "closing", "idle")
    /\ gate' = FreeGate(w)
    /\ UNCHANGED <<authority, marker, retired, bound, inode, attempt, legacy, faults>>

Acquire(w) ==
    \/ BeginAcquire(w) \/ TakeGate(w) \/ Refused(w)
    \/ CheckBinding(w, "bind", "create")
    \/ CreateMarker(w) \/ MarkerExists(w) \/ WriteMarker(w) \/ VerifyMarker(w)
    \/ CheckBinding(w, "confirm", "held")
    \/ RespectMarker(w) \/ JudgeStale(w)
    \/ CheckBinding(w, "rebind", "stat")
    \/ StatMarker(w) \/ RenameMarker(w) \/ RenameFails(w)

Release(w) ==
    \/ BeginRelease(w)
    \/ CheckBinding(w, "unbind", "inspect")
    \/ InspectMarker(w) \/ UnlinkMarker(w) \/ CloseGate(w)

-----------------------------------------------------------------------------
(* The environment.                                                        *)

\* The process dies: the kernel drops its lock, its files stay.
Crash(w) ==
    /\ pc[w] # "dead"
    /\ faults < MaxFaults
    /\ faults' = faults + 1
    /\ pc' = [pc EXCEPT ![w] = "dead"]
    /\ gate' = FreeGate(w)
    /\ UNCHANGED <<authority, marker, retired, bound, inode, attempt, legacy>>

\* The authority file is moved away and another one takes its place.
ReplaceAuthority ==
    /\ authority + 1 \in Authorities
    /\ authority' = authority + 1
    /\ UNCHANGED <<gate, marker, retired, pc, bound, inode, attempt, legacy, faults>>

\* An older binary publishes its marker when it finds none, and deletes it
\* at its end.
LegacyPublishes(l) ==
    /\ legacy[l] = "waiting"
    /\ marker = NoMarker
    /\ legacy' = [legacy EXCEPT ![l] = "live"]
    /\ \E i \in Inodes :
          /\ FreshInode(i)
          /\ marker' = [inode |-> i, owner |-> l, authority |-> NoAuthority, complete |-> TRUE]
    /\ UNCHANGED <<authority, gate, retired, pc, bound, inode, attempt, faults>>

LegacyEnds(l) ==
    /\ legacy[l] = "live"
    /\ legacy' = [legacy EXCEPT ![l] = "gone"]
    /\ marker' = IF marker # NoMarker /\ marker.owner = l THEN NoMarker ELSE marker
    /\ UNCHANGED <<authority, gate, retired, pc, bound, inode, attempt, faults>>

LegacyCrashes(l) ==
    /\ legacy[l] = "live"
    /\ faults < MaxFaults
    /\ faults' = faults + 1
    /\ legacy' = [legacy EXCEPT ![l] = "crashed"]
    /\ UNCHANGED <<authority, gate, marker, retired, pc, bound, inode, attempt>>

Next ==
    \/ \E w \in Writers : Acquire(w) \/ Release(w) \/ WriteFails(w) \/ Crash(w)
    \/ ReplaceAuthority
    \/ \E l \in Legacies : LegacyPublishes(l) \/ LegacyEnds(l) \/ LegacyCrashes(l)

Spec == Init /\ [][Next]_vars

\* Both calls are synchronous, so a process that entered one goes on to its
\* end; and a process that wants the session tries again.
Fairness == \A w \in Writers : WF_vars(Acquire(w)) /\ WF_vars(Release(w) /\ pc[w] # "held")

FairSpec == Spec /\ Fairness

-----------------------------------------------------------------------------
(* Properties.                                                             *)

Holders == {w \in Writers : pc[w] = "held"}

\* One writer per session, although the authority file may be replaced under
\* a holder and a second process then wins the lock on the new file: the
\* marker of the first must stop the second (lines 215-217).
SingleWriter == \A v, w \in Holders : v = w

\* Under the original authority file nobody but its holder moves the marker:
\* every other process, and every older binary, finds the holder's complete
\* marker at the path for as long as the lease is open.
HolderMarked ==
    authority = 1 => \A w \in Holders : OwnMarker(w) /\ marker.authority = 1

\* Whatever a crash or a failed write left at the path, the elected process
\* gets past it: before an older binary started and with the authority file in place,
\* only a failing write of its own may cost it the acquisition.  In
\* particular the four attempts are never used up.
ElectedSucceeds ==
    [][\A w \in Writers :
          (pc[w] \in Electing \ {"write"} /\ pc'[w] = "closing") => authority # 1 \/ \E l \in Legacies : legacy[l] # "waiting"]_vars

\* A crash never locks the session: after a process died some other one
\* becomes its writer, whatever call the crash interrupted.
SessionRecovers == \A w \in Writers : (pc[w] = "dead") ~> (Holders # {})

\* The two files and the calls on them implement the promise of a lease.
Lock == INSTANCE WriterLock WITH
            writers <- Holders,
            dead <- {w \in Writers : pc[w] = "dead"}

ImplementsLock == Lock!Spec
=============================================================================

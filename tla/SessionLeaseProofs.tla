------------------------- MODULE SessionLeaseProofs -------------------------
(***************************************************************************)
(* Theorems about SessionLease, for any number of processes of this and of *)
(* an older version, any number of crashes and failed writes, and at most  *)
(* one replacement of the authority file.                                  *)
(***************************************************************************)
EXTENDS SessionLease, TLAPS

USE WritersAssumption, MarkersAssumption, BoundsAssumption

-----------------------------------------------------------------------------
(* The inductive invariant.                                                *)

\* The lock of an authority file belongs to the one process elected on it.
GateHeld ==
    \A w \in Writers : \A a \in Authorities : gate[a] = w <=> pc[w] \in Elected /\ bound[w] = a

\* No acquisition is bound to an authority file that was not there yet.
BoundKnown == \A w \in Writers : bound[w] <= authority

Published == {"verify", "confirm", "held", "unbind", "inspect", "unlink"}

\* Under the first authority file the elected process finds the marker it
\* created at the path until it deletes it.
OwnPublication ==
    authority = 1 =>
        \A w \in Writers :
            /\ pc[w] \in {"write"} \cup Published =>
                  marker \in Marker /\ AtPath(w) /\ marker.owner = w /\ marker.authority = 1
            /\ pc[w] \in Published => marker.complete

\* The calls in which an elected process can neither move a marker nor hold
\* the lease before it has read the marker at the path.
Unarmed == {"idle", "gate", "dead", "bind", "create", "read", "closing"}

\* A holder whose authority file was replaced is protected by its marker: it
\* is complete, and nobody else is past reading it.
StraysStop ==
    authority # 1 =>
        \A h \in Holders :
            bound[h] # authority =>
                /\ marker \in Marker /\ marker.complete
                /\ marker.owner = h /\ marker.authority = bound[h]
                /\ \A w \in Writers \ {h} : pc[w] \in Unarmed

\* Neither an older binary nor a replaced authority file has interfered yet.
Calm == authority = 1 /\ \A l \in Legacies : legacy[l] = "waiting"

\* The elected process meets at most one stale marker, which only it moves.
CalmReclaim ==
    /\ \A w \in Writers : pc[w] = "gate" => attempt[w] = 0
    /\ Calm =>
          /\ marker # NoMarker => marker.authority = 1
          /\ \A w \in Writers :
                /\ pc[w] \in {"bind", "create"} /\ attempt[w] # 0 => marker = NoMarker
                /\ pc[w] \in {"read", "rebind", "stat", "rename"} =>
                      attempt[w] = 0 /\ marker \in Marker
                /\ pc[w] = "rename" => AtPath(w)

Inv ==
    /\ TypeOK /\ GateHeld /\ BoundKnown
    /\ OwnPublication /\ StraysStop /\ CalmReclaim

-----------------------------------------------------------------------------
(* Every step preserves it.                                                *)

\* Every variable keeps its type.
LEMMA TypeStep == TypeOK /\ [Next]_vars => TypeOK'
<1> SUFFICES ASSUME TypeOK, [Next]_vars PROVE TypeOK'
  OBVIOUS
<1> USE DEF TypeOK, Elected, Electing, Releasing
<1>1. ASSUME NEW w \in Writers, BeginAcquire(w) PROVE TypeOK'
  BY <1>1 DEF BeginAcquire, At, Attempts
<1>2. ASSUME NEW w \in Writers, TakeGate(w) PROVE TypeOK'
  BY <1>2 DEF TakeGate, At, Bound, GateFree
<1>3. ASSUME NEW w \in Writers, Refused(w) PROVE TypeOK'
  BY <1>3 DEF Refused, At, Bound, GateFree
<1>4. ASSUME NEW w \in Writers, CheckBinding(w, "bind", "create") PROVE TypeOK'
  BY <1>4 DEF CheckBinding, At, Bound
<1>5. ASSUME NEW w \in Writers, CreateMarker(w) PROVE TypeOK'
  BY <1>5 DEF CreateMarker, At, Marker
<1>6. ASSUME NEW w \in Writers, MarkerExists(w) PROVE TypeOK'
  BY <1>6 DEF MarkerExists, At
<1>7. ASSUME NEW w \in Writers, WriteMarker(w) PROVE TypeOK'
  <2>1. Written(w) \in Marker \cup {NoMarker}
    BY DEF Written, AtPath, Marker
  <2> QED
    BY <2>1, <1>7 DEF WriteMarker, At
<1>8. ASSUME NEW w \in Writers, VerifyMarker(w) PROVE TypeOK'
  BY <1>8 DEF VerifyMarker, At, AtPath
<1>9. ASSUME NEW w \in Writers, CheckBinding(w, "confirm", "held") PROVE TypeOK'
  BY <1>9 DEF CheckBinding, At, Bound
<1>10. ASSUME NEW w \in Writers, RespectMarker(w) PROVE TypeOK'
  BY <1>10 DEF RespectMarker, At, Respected, Retirable, Readable, OwnerLives
<1>11. ASSUME NEW w \in Writers, JudgeStale(w) PROVE TypeOK'
  BY <1>11 DEF JudgeStale, At, Retirable, Readable
<1>12. ASSUME NEW w \in Writers, CheckBinding(w, "rebind", "stat") PROVE TypeOK'
  BY <1>12 DEF CheckBinding, At, Bound
<1>13. ASSUME NEW w \in Writers, StatMarker(w) PROVE TypeOK'
  BY <1>13 DEF StatMarker, At, Marker
<1>14. ASSUME NEW w \in Writers, RenameMarker(w) PROVE TypeOK'
  BY <1>14 DEF RenameMarker, At, Attempts, Marker
<1>15. ASSUME NEW w \in Writers, RenameFails(w) PROVE TypeOK'
  BY <1>15 DEF RenameFails, At
<1>16. ASSUME NEW w \in Writers, BeginRelease(w) PROVE TypeOK'
  BY <1>16 DEF BeginRelease, At
<1>17. ASSUME NEW w \in Writers, CheckBinding(w, "unbind", "inspect") PROVE TypeOK'
  BY <1>17 DEF CheckBinding, At, Bound
<1>18. ASSUME NEW w \in Writers, InspectMarker(w) PROVE TypeOK'
  BY <1>18 DEF InspectMarker, At, OwnMarker, AtPath
<1>19. ASSUME NEW w \in Writers, UnlinkMarker(w) PROVE TypeOK'
  BY <1>19 DEF UnlinkMarker, At
<1>20. ASSUME NEW w \in Writers, CloseGate(w) PROVE TypeOK'
  BY <1>20 DEF CloseGate, At, FreeGate
<1>21. ASSUME NEW w \in Writers, WriteFails(w) PROVE TypeOK'
  <2>1. Written(w) \in Marker \cup {NoMarker}
    BY DEF Written, AtPath, Marker
  <2> QED
    BY <2>1, <1>21 DEF WriteFails, At
<1>22. ASSUME NEW w \in Writers, Crash(w) PROVE TypeOK'
  BY <1>22 DEF Crash, FreeGate
<1>23. ASSUME ReplaceAuthority PROVE TypeOK'
  BY <1>23 DEF ReplaceAuthority
<1>24. ASSUME NEW l \in Legacies, LegacyPublishes(l) PROVE TypeOK'
  BY <1>24 DEF LegacyPublishes, Marker
<1>25. ASSUME NEW l \in Legacies, LegacyEnds(l) PROVE TypeOK'
  BY <1>25 DEF LegacyEnds
<1>26. ASSUME NEW l \in Legacies, LegacyCrashes(l) PROVE TypeOK'
  BY <1>26 DEF LegacyCrashes
<1>27. ASSUME UNCHANGED vars PROVE TypeOK'
  BY <1>27 DEF vars
<1> QED
  BY <1>1, <1>2, <1>3, <1>4, <1>5, <1>6, <1>7, <1>8, <1>9, <1>10, <1>11, <1>12, <1>13, <1>14,
     <1>15, <1>16, <1>17, <1>18, <1>19, <1>20, <1>21, <1>22, <1>23, <1>24, <1>25, <1>26, <1>27
     DEF Next, Acquire, Release

\* BEGIN IMMEDIATE elects one process; every way out gives the lock back.
LEMMA GateStep == Inv /\ [Next]_vars => GateHeld'
<1> SUFFICES ASSUME Inv, [Next]_vars PROVE GateHeld'
  OBVIOUS
<1> USE DEF Inv, TypeOK, GateHeld, Elected, Electing, Releasing
<1>1. ASSUME NEW w \in Writers, BeginAcquire(w) PROVE GateHeld'
  BY <1>1 DEF BeginAcquire, At
<1>2. ASSUME NEW w \in Writers, TakeGate(w) PROVE GateHeld'
  BY <1>2 DEF TakeGate, At, Bound, GateFree
<1>3. ASSUME NEW w \in Writers, Refused(w) PROVE GateHeld'
  BY <1>3 DEF Refused, At, Bound, GateFree
<1>4. ASSUME NEW w \in Writers, CheckBinding(w, "bind", "create") PROVE GateHeld'
  BY <1>4 DEF CheckBinding, At, Bound
<1>5. ASSUME NEW w \in Writers, CreateMarker(w) PROVE GateHeld'
  BY <1>5 DEF CreateMarker, At
<1>6. ASSUME NEW w \in Writers, MarkerExists(w) PROVE GateHeld'
  BY <1>6 DEF MarkerExists, At
<1>7. ASSUME NEW w \in Writers, WriteMarker(w) PROVE GateHeld'
  BY <1>7 DEF WriteMarker, At, Written, AtPath
<1>8. ASSUME NEW w \in Writers, VerifyMarker(w) PROVE GateHeld'
  BY <1>8 DEF VerifyMarker, At, AtPath
<1>9. ASSUME NEW w \in Writers, CheckBinding(w, "confirm", "held") PROVE GateHeld'
  BY <1>9 DEF CheckBinding, At, Bound
<1>10. ASSUME NEW w \in Writers, RespectMarker(w) PROVE GateHeld'
  BY <1>10 DEF RespectMarker, At, Respected, Retirable, Readable, OwnerLives
<1>11. ASSUME NEW w \in Writers, JudgeStale(w) PROVE GateHeld'
  BY <1>11 DEF JudgeStale, At, Retirable, Readable
<1>12. ASSUME NEW w \in Writers, CheckBinding(w, "rebind", "stat") PROVE GateHeld'
  BY <1>12 DEF CheckBinding, At, Bound
<1>13. ASSUME NEW w \in Writers, StatMarker(w) PROVE GateHeld'
  BY <1>13 DEF StatMarker, At
<1>14. ASSUME NEW w \in Writers, RenameMarker(w) PROVE GateHeld'
  BY <1>14 DEF RenameMarker, At, AtPath, Attempts
<1>15. ASSUME NEW w \in Writers, RenameFails(w) PROVE GateHeld'
  BY <1>15 DEF RenameFails, At
<1>16. ASSUME NEW w \in Writers, BeginRelease(w) PROVE GateHeld'
  BY <1>16 DEF BeginRelease, At
<1>17. ASSUME NEW w \in Writers, CheckBinding(w, "unbind", "inspect") PROVE GateHeld'
  BY <1>17 DEF CheckBinding, At, Bound
<1>18. ASSUME NEW w \in Writers, InspectMarker(w) PROVE GateHeld'
  BY <1>18 DEF InspectMarker, At, OwnMarker, AtPath
<1>19. ASSUME NEW w \in Writers, UnlinkMarker(w) PROVE GateHeld'
  BY <1>19 DEF UnlinkMarker, At
<1>20. ASSUME NEW w \in Writers, CloseGate(w) PROVE GateHeld'
  BY <1>20 DEF CloseGate, At, FreeGate
<1>21. ASSUME NEW w \in Writers, WriteFails(w) PROVE GateHeld'
  BY <1>21 DEF WriteFails, At, Written, AtPath
<1>22. ASSUME NEW w \in Writers, Crash(w) PROVE GateHeld'
  BY <1>22 DEF Crash, FreeGate
<1>23. ASSUME ReplaceAuthority PROVE GateHeld'
  BY <1>23 DEF ReplaceAuthority
<1>24. ASSUME NEW l \in Legacies, LegacyPublishes(l) PROVE GateHeld'
  BY <1>24 DEF LegacyPublishes
<1>25. ASSUME NEW l \in Legacies, LegacyEnds(l) PROVE GateHeld'
  BY <1>25 DEF LegacyEnds
<1>26. ASSUME NEW l \in Legacies, LegacyCrashes(l) PROVE GateHeld'
  BY <1>26 DEF LegacyCrashes
<1>27. ASSUME UNCHANGED vars PROVE GateHeld'
  BY <1>27 DEF vars
<1> QED
  BY <1>1, <1>2, <1>3, <1>4, <1>5, <1>6, <1>7, <1>8, <1>9, <1>10, <1>11, <1>12, <1>13, <1>14,
     <1>15, <1>16, <1>17, <1>18, <1>19, <1>20, <1>21, <1>22, <1>23, <1>24, <1>25, <1>26, <1>27
     DEF Next, Acquire, Release

\* An acquisition is bound to the file it finds.
LEMMA BoundStep == Inv /\ [Next]_vars => BoundKnown'
<1> SUFFICES ASSUME Inv, [Next]_vars PROVE BoundKnown'
  OBVIOUS
<1> USE DEF Inv, TypeOK, BoundKnown, Authorities
<1>1. ASSUME NEW w \in Writers, BeginAcquire(w) PROVE BoundKnown'
  BY <1>1 DEF BeginAcquire, At
<1>2. ASSUME NEW w \in Writers, TakeGate(w) PROVE BoundKnown'
  BY <1>2 DEF TakeGate, At, Bound, GateFree
<1>3. ASSUME NEW w \in Writers, Refused(w) PROVE BoundKnown'
  BY <1>3 DEF Refused, At, Bound, GateFree
<1>4. ASSUME NEW w \in Writers, CheckBinding(w, "bind", "create") PROVE BoundKnown'
  BY <1>4 DEF CheckBinding, At, Bound
<1>5. ASSUME NEW w \in Writers, CreateMarker(w) PROVE BoundKnown'
  BY <1>5 DEF CreateMarker, At
<1>6. ASSUME NEW w \in Writers, MarkerExists(w) PROVE BoundKnown'
  BY <1>6 DEF MarkerExists, At
<1>7. ASSUME NEW w \in Writers, WriteMarker(w) PROVE BoundKnown'
  BY <1>7 DEF WriteMarker, At, Written, AtPath
<1>8. ASSUME NEW w \in Writers, VerifyMarker(w) PROVE BoundKnown'
  BY <1>8 DEF VerifyMarker, At, AtPath
<1>9. ASSUME NEW w \in Writers, CheckBinding(w, "confirm", "held") PROVE BoundKnown'
  BY <1>9 DEF CheckBinding, At, Bound
<1>10. ASSUME NEW w \in Writers, RespectMarker(w) PROVE BoundKnown'
  BY <1>10 DEF RespectMarker, At, Respected, Retirable, Readable, OwnerLives
<1>11. ASSUME NEW w \in Writers, JudgeStale(w) PROVE BoundKnown'
  BY <1>11 DEF JudgeStale, At, Retirable, Readable
<1>12. ASSUME NEW w \in Writers, CheckBinding(w, "rebind", "stat") PROVE BoundKnown'
  BY <1>12 DEF CheckBinding, At, Bound
<1>13. ASSUME NEW w \in Writers, StatMarker(w) PROVE BoundKnown'
  BY <1>13 DEF StatMarker, At
<1>14. ASSUME NEW w \in Writers, RenameMarker(w) PROVE BoundKnown'
  BY <1>14 DEF RenameMarker, At, AtPath, Attempts
<1>15. ASSUME NEW w \in Writers, RenameFails(w) PROVE BoundKnown'
  BY <1>15 DEF RenameFails, At
<1>16. ASSUME NEW w \in Writers, BeginRelease(w) PROVE BoundKnown'
  BY <1>16 DEF BeginRelease, At
<1>17. ASSUME NEW w \in Writers, CheckBinding(w, "unbind", "inspect") PROVE BoundKnown'
  BY <1>17 DEF CheckBinding, At, Bound
<1>18. ASSUME NEW w \in Writers, InspectMarker(w) PROVE BoundKnown'
  BY <1>18 DEF InspectMarker, At, OwnMarker, AtPath
<1>19. ASSUME NEW w \in Writers, UnlinkMarker(w) PROVE BoundKnown'
  BY <1>19 DEF UnlinkMarker, At
<1>20. ASSUME NEW w \in Writers, CloseGate(w) PROVE BoundKnown'
  BY <1>20 DEF CloseGate, At, FreeGate
<1>21. ASSUME NEW w \in Writers, WriteFails(w) PROVE BoundKnown'
  BY <1>21 DEF WriteFails, At, Written, AtPath
<1>22. ASSUME NEW w \in Writers, Crash(w) PROVE BoundKnown'
  BY <1>22 DEF Crash, FreeGate
<1>23. ASSUME ReplaceAuthority PROVE BoundKnown'
  BY <1>23 DEF ReplaceAuthority
<1>24. ASSUME NEW l \in Legacies, LegacyPublishes(l) PROVE BoundKnown'
  BY <1>24 DEF LegacyPublishes
<1>25. ASSUME NEW l \in Legacies, LegacyEnds(l) PROVE BoundKnown'
  BY <1>25 DEF LegacyEnds
<1>26. ASSUME NEW l \in Legacies, LegacyCrashes(l) PROVE BoundKnown'
  BY <1>26 DEF LegacyCrashes
<1>27. ASSUME UNCHANGED vars PROVE BoundKnown'
  BY <1>27 DEF vars
<1> QED
  BY <1>1, <1>2, <1>3, <1>4, <1>5, <1>6, <1>7, <1>8, <1>9, <1>10, <1>11, <1>12, <1>13, <1>14,
     <1>15, <1>16, <1>17, <1>18, <1>19, <1>20, <1>21, <1>22, <1>23, <1>24, <1>25, <1>26, <1>27
     DEF Next, Acquire, Release

\* Completing a marker changes nothing else of it.
LEMMA CompletedMarker ==
    ASSUME NEW m \in Marker, NEW n, n = [m EXCEPT !.complete = TRUE]
    PROVE  /\ n \in Marker /\ n.complete /\ n.inode = m.inode
           /\ n.owner = m.owner /\ n.authority = m.authority
BY DEF Marker

\* Under the first authority file at most one process is elected.
LEMMA Alone ==
    ASSUME TypeOK, GateHeld, BoundKnown, authority = 1, NEW w \in Writers, pc[w] \in Elected
    PROVE  \A v \in Writers \ {w} : pc[v] \notin Elected
<1>1. \A v \in Writers : bound[v] = 1
  BY DEF TypeOK, BoundKnown, Authorities
<1> QED
  BY <1>1 DEF TypeOK, GateHeld, Authorities

\* Nobody but the elected process touches its marker.
LEMMA OwnStep == Inv /\ [Next]_vars => OwnPublication'
<1> SUFFICES ASSUME Inv, [Next]_vars PROVE OwnPublication'
  OBVIOUS
<1> USE DEF Inv, TypeOK, GateHeld, BoundKnown, OwnPublication, Elected, Electing, Releasing, Published, AtPath, Marker
<1>1. ASSUME NEW w \in Writers, BeginAcquire(w) PROVE OwnPublication'
  BY <1>1 DEF BeginAcquire, At
<1>2. ASSUME NEW w \in Writers, TakeGate(w) PROVE OwnPublication'
  BY <1>2 DEF TakeGate, At, Bound, GateFree
<1>3. ASSUME NEW w \in Writers, Refused(w) PROVE OwnPublication'
  BY <1>3 DEF Refused, At, Bound, GateFree
<1>4. ASSUME NEW w \in Writers, CheckBinding(w, "bind", "create") PROVE OwnPublication'
  BY <1>4 DEF CheckBinding, At, Bound
<1>5. ASSUME NEW w \in Writers, CreateMarker(w) PROVE OwnPublication'
  <2>1. pc[w] = "create" /\ pc' = [pc EXCEPT ![w] = "write"] /\ authority' = authority
    BY <1>5 DEF CreateMarker, At
  <2>2. authority = 1 => \A v \in Writers \ {w} : pc[v] \notin Elected /\ pc'[v] = pc[v]
    BY <2>1, Alone DEF Inv
  <2>3. PICK i \in Inodes :
            /\ inode' = [inode EXCEPT ![w] = i]
            /\ marker' = [inode |-> i, owner |-> w, authority |-> bound[w], complete |-> FALSE]
    BY <1>5 DEF CreateMarker
  <2>4. marker' \in Marker /\ marker'.inode = i /\ marker'.owner = w /\ marker'.authority = bound[w]
    BY <2>3
  <2>5. inode'[w] = i /\ bound' = bound /\ attempt' = attempt /\ legacy' = legacy /\ marker = NoMarker
    BY <2>3, <1>5 DEF CreateMarker
  <2>6. authority = 1 => bound[w] = 1
    BY DEF Authorities
  <2> QED
    BY <2>1, <2>2, <2>4, <2>5, <2>6
<1>6. ASSUME NEW w \in Writers, MarkerExists(w) PROVE OwnPublication'
  BY <1>6 DEF MarkerExists, At
<1>7. ASSUME NEW w \in Writers, WriteMarker(w) PROVE OwnPublication'
  <2>1. pc[w] = "write" /\ pc' = [pc EXCEPT ![w] = "verify"] /\ authority' = authority
    BY <1>7 DEF WriteMarker, At
  <2>2. authority = 1 => \A v \in Writers \ {w} : pc[v] \notin Elected /\ pc'[v] = pc[v]
    BY <2>1, Alone DEF Inv
  <2>3. authority = 1 => marker \in Marker /\ marker' = [marker EXCEPT !.complete = TRUE]
    BY <2>1, <1>7 DEF WriteMarker, Written
  <2>4. authority = 1 => /\ marker' \in Marker /\ marker'.inode = marker.inode /\ marker'.owner = marker.owner
                         /\ marker'.authority = marker.authority /\ marker'.complete
    BY <2>3, CompletedMarker
  <2>5. inode' = inode /\ attempt' = attempt /\ legacy' = legacy
    BY <1>7 DEF WriteMarker
  <2> QED
    BY <2>1, <2>2, <2>3, <2>4, <2>5
<1>8. ASSUME NEW w \in Writers, VerifyMarker(w) PROVE OwnPublication'
  BY <1>8 DEF VerifyMarker, At, AtPath
<1>9. ASSUME NEW w \in Writers, CheckBinding(w, "confirm", "held") PROVE OwnPublication'
  BY <1>9 DEF CheckBinding, At, Bound
<1>10. ASSUME NEW w \in Writers, RespectMarker(w) PROVE OwnPublication'
  BY <1>10 DEF RespectMarker, At, Respected, Retirable, Readable, OwnerLives
<1>11. ASSUME NEW w \in Writers, JudgeStale(w) PROVE OwnPublication'
  BY <1>11 DEF JudgeStale, At, Retirable, Readable
<1>12. ASSUME NEW w \in Writers, CheckBinding(w, "rebind", "stat") PROVE OwnPublication'
  BY <1>12 DEF CheckBinding, At, Bound
<1>13. ASSUME NEW w \in Writers, StatMarker(w) PROVE OwnPublication'
  BY <1>13 DEF StatMarker, At
<1>14. ASSUME NEW w \in Writers, RenameMarker(w) PROVE OwnPublication'
  <2>1. pc[w] = "rename" /\ marker' = NoMarker /\ authority' = authority /\ inode' = inode /\ legacy' = legacy
    BY <1>14 DEF RenameMarker, At
  <2>2. pc'[w] \in {"bind", "closing"} /\ \A v \in Writers \ {w} : pc'[v] = pc[v] /\ attempt'[v] = attempt[v]
    BY <1>14 DEF RenameMarker, At
  <2>3. authority = 1 => \A v \in Writers \ {w} : pc[v] \notin Elected
    BY <2>1, Alone DEF Inv
  <2> QED
    BY <2>1, <2>2, <2>3
<1>15. ASSUME NEW w \in Writers, RenameFails(w) PROVE OwnPublication'
  BY <1>15 DEF RenameFails, At
<1>16. ASSUME NEW w \in Writers, BeginRelease(w) PROVE OwnPublication'
  BY <1>16 DEF BeginRelease, At
<1>17. ASSUME NEW w \in Writers, CheckBinding(w, "unbind", "inspect") PROVE OwnPublication'
  BY <1>17 DEF CheckBinding, At, Bound
<1>18. ASSUME NEW w \in Writers, InspectMarker(w) PROVE OwnPublication'
  BY <1>18 DEF InspectMarker, At, OwnMarker, AtPath
<1>19. ASSUME NEW w \in Writers, UnlinkMarker(w) PROVE OwnPublication'
  BY <1>19 DEF UnlinkMarker, At
<1>20. ASSUME NEW w \in Writers, CloseGate(w) PROVE OwnPublication'
  BY <1>20 DEF CloseGate, At, FreeGate
<1>21. ASSUME NEW w \in Writers, WriteFails(w) PROVE OwnPublication'
  BY <1>21 DEF WriteFails, At, Written, AtPath
<1>22. ASSUME NEW w \in Writers, Crash(w) PROVE OwnPublication'
  BY <1>22 DEF Crash, FreeGate
<1>23. ASSUME ReplaceAuthority PROVE OwnPublication'
  BY <1>23 DEF ReplaceAuthority, Authorities
<1>24. ASSUME NEW l \in Legacies, LegacyPublishes(l) PROVE OwnPublication'
  BY <1>24 DEF LegacyPublishes
<1>25. ASSUME NEW l \in Legacies, LegacyEnds(l) PROVE OwnPublication'
  BY <1>25 DEF LegacyEnds
<1>26. ASSUME NEW l \in Legacies, LegacyCrashes(l) PROVE OwnPublication'
  BY <1>26 DEF LegacyCrashes
<1>27. ASSUME UNCHANGED vars PROVE OwnPublication'
  BY <1>27 DEF vars
<1> QED
  BY <1>1, <1>2, <1>3, <1>4, <1>5, <1>6, <1>7, <1>8, <1>9, <1>10, <1>11, <1>12, <1>13, <1>14,
     <1>15, <1>16, <1>17, <1>18, <1>19, <1>20, <1>21, <1>22, <1>23, <1>24, <1>25, <1>26, <1>27
     DEF Next, Acquire, Release

\* The marker of a stray holder stops every other process.
LEMMA StrayStep == Inv /\ [Next]_vars => StraysStop'
<1> SUFFICES ASSUME Inv, [Next]_vars PROVE StraysStop'
  OBVIOUS
<1> USE DEF Inv, TypeOK, GateHeld, BoundKnown, OwnPublication, StraysStop, Holders, Elected, Electing, Releasing, Unarmed, Published
<1>1. ASSUME NEW w \in Writers, BeginAcquire(w) PROVE StraysStop'
  BY <1>1 DEF BeginAcquire, At
<1>2. ASSUME NEW w \in Writers, TakeGate(w) PROVE StraysStop'
  BY <1>2 DEF TakeGate, At, Bound, GateFree
<1>3. ASSUME NEW w \in Writers, Refused(w) PROVE StraysStop'
  BY <1>3 DEF Refused, At, Bound, GateFree
<1>4. ASSUME NEW w \in Writers, CheckBinding(w, "bind", "create") PROVE StraysStop'
  BY <1>4 DEF CheckBinding, At, Bound
<1>5. ASSUME NEW w \in Writers, CreateMarker(w) PROVE StraysStop'
  BY <1>5 DEF CreateMarker, At
<1>6. ASSUME NEW w \in Writers, MarkerExists(w) PROVE StraysStop'
  BY <1>6 DEF MarkerExists, At
<1>7. ASSUME NEW w \in Writers, WriteMarker(w) PROVE StraysStop'
  BY <1>7 DEF WriteMarker, At, Written, AtPath
<1>8. ASSUME NEW w \in Writers, VerifyMarker(w) PROVE StraysStop'
  BY <1>8 DEF VerifyMarker, At, AtPath
<1>9. ASSUME NEW w \in Writers, CheckBinding(w, "confirm", "held") PROVE StraysStop'
  BY <1>9 DEF CheckBinding, At, Bound
<1>10. ASSUME NEW w \in Writers, RespectMarker(w) PROVE StraysStop'
  BY <1>10 DEF RespectMarker, At, Respected, Retirable, Readable, OwnerLives
<1>11. ASSUME NEW w \in Writers, JudgeStale(w) PROVE StraysStop'
  <2>1. ASSUME authority # 1, NEW h \in Holders, bound[h] # authority PROVE FALSE
    <3>1. w # h /\ marker \in Marker /\ marker.complete /\ marker.authority = bound[h]
      BY <2>1, <1>11 DEF JudgeStale, At
    <3>2. bound[w] # bound[h] /\ bound[h] # NoAuthority
      BY <3>1, <2>1, <1>11 DEF JudgeStale, At, Authorities, NoAuthority
    <3> QED
      BY <3>1, <3>2, <1>11 DEF JudgeStale, Retirable, Readable
  <2> QED
    BY <2>1, <1>11 DEF JudgeStale, At
<1>12. ASSUME NEW w \in Writers, CheckBinding(w, "rebind", "stat") PROVE StraysStop'
  BY <1>12 DEF CheckBinding, At, Bound
<1>13. ASSUME NEW w \in Writers, StatMarker(w) PROVE StraysStop'
  BY <1>13 DEF StatMarker, At
<1>14. ASSUME NEW w \in Writers, RenameMarker(w) PROVE StraysStop'
  BY <1>14 DEF RenameMarker, At, AtPath, Attempts
<1>15. ASSUME NEW w \in Writers, RenameFails(w) PROVE StraysStop'
  BY <1>15 DEF RenameFails, At
<1>16. ASSUME NEW w \in Writers, BeginRelease(w) PROVE StraysStop'
  BY <1>16 DEF BeginRelease, At
<1>17. ASSUME NEW w \in Writers, CheckBinding(w, "unbind", "inspect") PROVE StraysStop'
  BY <1>17 DEF CheckBinding, At, Bound
<1>18. ASSUME NEW w \in Writers, InspectMarker(w) PROVE StraysStop'
  BY <1>18 DEF InspectMarker, At, OwnMarker, AtPath
<1>19. ASSUME NEW w \in Writers, UnlinkMarker(w) PROVE StraysStop'
  BY <1>19 DEF UnlinkMarker, At
<1>20. ASSUME NEW w \in Writers, CloseGate(w) PROVE StraysStop'
  BY <1>20 DEF CloseGate, At, FreeGate
<1>21. ASSUME NEW w \in Writers, WriteFails(w) PROVE StraysStop'
  BY <1>21 DEF WriteFails, At, Written, AtPath
<1>22. ASSUME NEW w \in Writers, Crash(w) PROVE StraysStop'
  BY <1>22 DEF Crash, FreeGate
<1>23. ASSUME ReplaceAuthority PROVE StraysStop'
  <2>1. authority = 1 /\ pc' = pc /\ bound' = bound /\ marker' = marker
    BY <1>23 DEF ReplaceAuthority, Authorities
  <2>2. ASSUME NEW h \in Holders
        PROVE  /\ marker \in Marker /\ marker.complete /\ marker.owner = h /\ marker.authority = bound[h]
               /\ \A w \in Writers \ {h} : pc[w] \in Unarmed
    <3>1. \A w \in Writers \ {h} : pc[w] \notin Elected
      BY <2>1, <2>2, Alone
    <3>2. bound[h] = 1
      BY <2>1, <2>2 DEF Authorities
    <3> QED
      BY <2>1, <2>2, <3>1, <3>2
  <2> QED
    BY <2>1, <2>2
<1>24. ASSUME NEW l \in Legacies, LegacyPublishes(l) PROVE StraysStop'
  BY <1>24 DEF LegacyPublishes
<1>25. ASSUME NEW l \in Legacies, LegacyEnds(l) PROVE StraysStop'
  BY <1>25 DEF LegacyEnds
<1>26. ASSUME NEW l \in Legacies, LegacyCrashes(l) PROVE StraysStop'
  BY <1>26 DEF LegacyCrashes
<1>27. ASSUME UNCHANGED vars PROVE StraysStop'
  BY <1>27 DEF vars
<1> QED
  BY <1>1, <1>2, <1>3, <1>4, <1>5, <1>6, <1>7, <1>8, <1>9, <1>10, <1>11, <1>12, <1>13, <1>14,
     <1>15, <1>16, <1>17, <1>18, <1>19, <1>20, <1>21, <1>22, <1>23, <1>24, <1>25, <1>26, <1>27
     DEF Next, Acquire, Release

\* A stale marker is reclaimed once.
LEMMA ReclaimStep == Inv /\ [Next]_vars => CalmReclaim'
<1> SUFFICES ASSUME Inv, [Next]_vars PROVE CalmReclaim'
  OBVIOUS
<1> USE DEF Inv, TypeOK, GateHeld, BoundKnown, OwnPublication, CalmReclaim, Calm, Elected, Electing, Releasing, Published, AtPath, Marker
<1>1. ASSUME NEW w \in Writers, BeginAcquire(w) PROVE CalmReclaim'
  BY <1>1 DEF BeginAcquire, At
<1>2. ASSUME NEW w \in Writers, TakeGate(w) PROVE CalmReclaim'
  BY <1>2 DEF TakeGate, At, Bound, GateFree
<1>3. ASSUME NEW w \in Writers, Refused(w) PROVE CalmReclaim'
  BY <1>3 DEF Refused, At, Bound, GateFree
<1>4. ASSUME NEW w \in Writers, CheckBinding(w, "bind", "create") PROVE CalmReclaim'
  BY <1>4 DEF CheckBinding, At, Bound
<1>5. ASSUME NEW w \in Writers, CreateMarker(w) PROVE CalmReclaim'
  <2>1. pc[w] = "create" /\ pc' = [pc EXCEPT ![w] = "write"] /\ authority' = authority
    BY <1>5 DEF CreateMarker, At
  <2>2. authority = 1 => \A v \in Writers \ {w} : pc[v] \notin Elected /\ pc'[v] = pc[v]
    BY <2>1, Alone DEF Inv
  <2>3. PICK i \in Inodes :
            /\ inode' = [inode EXCEPT ![w] = i]
            /\ marker' = [inode |-> i, owner |-> w, authority |-> bound[w], complete |-> FALSE]
    BY <1>5 DEF CreateMarker
  <2>4. marker' \in Marker /\ marker'.inode = i /\ marker'.owner = w /\ marker'.authority = bound[w]
    BY <2>3
  <2>5. inode'[w] = i /\ bound' = bound /\ attempt' = attempt /\ legacy' = legacy /\ marker = NoMarker
    BY <2>3, <1>5 DEF CreateMarker
  <2>6. authority = 1 => bound[w] = 1
    BY DEF Authorities
  <2> QED
    BY <2>1, <2>2, <2>4, <2>5, <2>6
<1>6. ASSUME NEW w \in Writers, MarkerExists(w) PROVE CalmReclaim'
  BY <1>6 DEF MarkerExists, At
<1>7. ASSUME NEW w \in Writers, WriteMarker(w) PROVE CalmReclaim'
  <2>1. pc[w] = "write" /\ pc' = [pc EXCEPT ![w] = "verify"] /\ authority' = authority
    BY <1>7 DEF WriteMarker, At
  <2>2. authority = 1 => \A v \in Writers \ {w} : pc[v] \notin Elected /\ pc'[v] = pc[v]
    BY <2>1, Alone DEF Inv
  <2>3. authority = 1 => marker \in Marker /\ marker' = [marker EXCEPT !.complete = TRUE]
    BY <2>1, <1>7 DEF WriteMarker, Written
  <2>4. authority = 1 => /\ marker' \in Marker /\ marker'.inode = marker.inode /\ marker'.owner = marker.owner
                         /\ marker'.authority = marker.authority /\ marker'.complete
    BY <2>3, CompletedMarker
  <2>5. inode' = inode /\ attempt' = attempt /\ legacy' = legacy
    BY <1>7 DEF WriteMarker
  <2> QED
    BY <2>1, <2>2, <2>3, <2>4, <2>5
<1>8. ASSUME NEW w \in Writers, VerifyMarker(w) PROVE CalmReclaim'
  BY <1>8 DEF VerifyMarker, At, AtPath
<1>9. ASSUME NEW w \in Writers, CheckBinding(w, "confirm", "held") PROVE CalmReclaim'
  BY <1>9 DEF CheckBinding, At, Bound
<1>10. ASSUME NEW w \in Writers, RespectMarker(w) PROVE CalmReclaim'
  BY <1>10 DEF RespectMarker, At, Respected, Retirable, Readable, OwnerLives
<1>11. ASSUME NEW w \in Writers, JudgeStale(w) PROVE CalmReclaim'
  BY <1>11 DEF JudgeStale, At, Retirable, Readable
<1>12. ASSUME NEW w \in Writers, CheckBinding(w, "rebind", "stat") PROVE CalmReclaim'
  BY <1>12 DEF CheckBinding, At, Bound
<1>13. ASSUME NEW w \in Writers, StatMarker(w) PROVE CalmReclaim'
  BY <1>13 DEF StatMarker, At
<1>14. ASSUME NEW w \in Writers, RenameMarker(w) PROVE CalmReclaim'
  <2>1. pc[w] = "rename" /\ marker' = NoMarker /\ authority' = authority /\ inode' = inode /\ legacy' = legacy
    BY <1>14 DEF RenameMarker, At
  <2>2. pc'[w] \in {"bind", "closing"} /\ \A v \in Writers \ {w} : pc'[v] = pc[v] /\ attempt'[v] = attempt[v]
    BY <1>14 DEF RenameMarker, At
  <2>3. authority = 1 => \A v \in Writers \ {w} : pc[v] \notin Elected
    BY <2>1, Alone DEF Inv
  <2> QED
    BY <2>1, <2>2, <2>3
<1>15. ASSUME NEW w \in Writers, RenameFails(w) PROVE CalmReclaim'
  BY <1>15 DEF RenameFails, At
<1>16. ASSUME NEW w \in Writers, BeginRelease(w) PROVE CalmReclaim'
  BY <1>16 DEF BeginRelease, At
<1>17. ASSUME NEW w \in Writers, CheckBinding(w, "unbind", "inspect") PROVE CalmReclaim'
  BY <1>17 DEF CheckBinding, At, Bound
<1>18. ASSUME NEW w \in Writers, InspectMarker(w) PROVE CalmReclaim'
  BY <1>18 DEF InspectMarker, At, OwnMarker, AtPath
<1>19. ASSUME NEW w \in Writers, UnlinkMarker(w) PROVE CalmReclaim'
  <2>1. pc[w] = "unlink" /\ pc' = [pc EXCEPT ![w] = "closing"] /\ authority' = authority
    BY <1>19 DEF UnlinkMarker, At
  <2>2. authority = 1 => \A v \in Writers \ {w} : pc[v] \notin Elected /\ pc'[v] = pc[v]
    BY <2>1, Alone DEF Inv
  <2>3. marker' = NoMarker /\ inode' = inode /\ attempt' = attempt /\ legacy' = legacy
    BY <1>19 DEF UnlinkMarker
  <2> QED
    BY <2>1, <2>2, <2>3
<1>20. ASSUME NEW w \in Writers, CloseGate(w) PROVE CalmReclaim'
  BY <1>20 DEF CloseGate, At, FreeGate
<1>21. ASSUME NEW w \in Writers, WriteFails(w) PROVE CalmReclaim'
  <2>1. pc[w] = "write" /\ pc' = [pc EXCEPT ![w] = "closing"] /\ authority' = authority
    BY <1>21 DEF WriteFails, At
  <2>2. authority = 1 => \A v \in Writers \ {w} : pc[v] \notin Elected /\ pc'[v] = pc[v]
    BY <2>1, Alone DEF Inv
  <2>3. inode' = inode /\ attempt' = attempt /\ legacy' = legacy
    BY <1>21 DEF WriteFails
  <2>4. authority = 1 => marker' \in Marker /\ marker'.authority = 1
    BY <1>21, CompletedMarker DEF WriteFails, At, Written
  <2> QED
    BY <2>1, <2>2, <2>3, <2>4
<1>22. ASSUME NEW w \in Writers, Crash(w) PROVE CalmReclaim'
  BY <1>22 DEF Crash, FreeGate
<1>23. ASSUME ReplaceAuthority PROVE CalmReclaim'
  BY <1>23 DEF ReplaceAuthority, Authorities
<1>24. ASSUME NEW l \in Legacies, LegacyPublishes(l) PROVE CalmReclaim'
  BY <1>24 DEF LegacyPublishes
<1>25. ASSUME NEW l \in Legacies, LegacyEnds(l) PROVE CalmReclaim'
  BY <1>25 DEF LegacyEnds
<1>26. ASSUME NEW l \in Legacies, LegacyCrashes(l) PROVE CalmReclaim'
  BY <1>26 DEF LegacyCrashes
<1>27. ASSUME UNCHANGED vars PROVE CalmReclaim'
  BY <1>27 DEF vars
<1> QED
  BY <1>1, <1>2, <1>3, <1>4, <1>5, <1>6, <1>7, <1>8, <1>9, <1>10, <1>11, <1>12, <1>13, <1>14,
     <1>15, <1>16, <1>17, <1>18, <1>19, <1>20, <1>21, <1>22, <1>23, <1>24, <1>25, <1>26, <1>27
     DEF Next, Acquire, Release

\* The invariant holds in every reachable state.
THEOREM Invariance == Spec => []Inv
<1>1. Init => Inv
  BY DEF Init, Inv, TypeOK, GateHeld, BoundKnown, OwnPublication, StraysStop, CalmReclaim, Calm,
         Authorities, Attempts, Elected, Electing, Releasing, Published, Holders
<1>2. Inv /\ [Next]_vars => Inv'
  BY TypeStep, GateStep, BoundStep, OwnStep, StrayStep, ReclaimStep DEF Inv
<1> QED
  BY <1>1, <1>2, PTL DEF Spec

-----------------------------------------------------------------------------
(* The theorems.                                                           *)

\* Every variable of the lease protocol keeps its type.
THEOREM TypeCorrect == Spec => []TypeOK
<1>1. Inv => TypeOK
  BY DEF Inv
<1> QED
  BY <1>1, Invariance, PTL

\* A session has one writer, also when its authority file was replaced once:
\* of two holders one would be bound to the old file, and its marker stops
\* the other.
LEMMA InvSingleWriter == Inv => SingleWriter
<1> SUFFICES ASSUME Inv, NEW v \in Holders, NEW w \in Holders, v # w PROVE FALSE
  BY DEF SingleWriter
<1> USE DEF Inv, TypeOK, Holders, Elected
<1>1. v \in Writers /\ w \in Writers /\ pc[v] = "held" /\ pc[w] = "held"
  OBVIOUS
<1>2. bound[v] # bound[w]
  BY <1>1 DEF GateHeld
<1>3. authority # 1
  BY <1>1, <1>2 DEF BoundKnown, Authorities
<1>4. CASE bound[v] # authority
  BY <1>1, <1>3, <1>4 DEF StraysStop, Unarmed
<1>5. CASE bound[w] # authority
  BY <1>1, <1>3, <1>5 DEF StraysStop, Unarmed
<1> QED
  BY <1>2, <1>4, <1>5

\* At most one process holds the lease of a session.
THEOREM OneWriter == Spec => []SingleWriter
  BY Invariance, InvSingleWriter, PTL

\* While the authority file is in place, the marker at the path is the
\* holder's own and complete.
THEOREM MarkerNamesHolder == Spec => []HolderMarked
<1>1. Inv => HolderMarked
  BY DEF Inv, OwnPublication, Published, HolderMarked, Holders, OwnMarker
<1> QED
  BY <1>1, Invariance, PTL

\* An elected process fails only by its own write, until an older binary
\* starts or the authority file is replaced.
THEOREM StaleMarkersNeverBlock == Spec => ElectedSucceeds
<1> DEFINE Fails(w) == pc[w] \in Electing \ {"write"} /\ pc'[w] = "closing"
<1>1. ASSUME Inv, [Next]_vars, Calm, NEW v \in Writers, Fails(v) PROVE FALSE
  <2> USE DEF Inv, TypeOK, Electing
  <2>1. authority = 1 /\ bound[v] = 1
    BY <1>1 DEF Calm, BoundKnown, Authorities
  <2>2. ASSUME NEW w \in Writers, BeginAcquire(w) PROVE FALSE
    BY <1>1, <2>1, <2>2 DEF BeginAcquire, At
  <2>3. ASSUME NEW w \in Writers, TakeGate(w) PROVE FALSE
    BY <1>1, <2>1, <2>3 DEF TakeGate, At
  <2>4. ASSUME NEW w \in Writers, Refused(w) PROVE FALSE
    BY <1>1, <2>1, <2>4 DEF Refused, At
  <2>5. ASSUME NEW w \in Writers, CheckBinding(w, "bind", "create") PROVE FALSE
    BY <1>1, <2>1, <2>5 DEF CheckBinding, At, Bound
  <2>6. ASSUME NEW w \in Writers, CreateMarker(w) PROVE FALSE
    BY <1>1, <2>1, <2>6 DEF CreateMarker, At
  <2>7. ASSUME NEW w \in Writers, MarkerExists(w) PROVE FALSE
    BY <1>1, <2>1, <2>7 DEF MarkerExists, At
  <2>8. ASSUME NEW w \in Writers, WriteMarker(w) PROVE FALSE
    BY <1>1, <2>1, <2>8 DEF WriteMarker, At
  <2>9. ASSUME NEW w \in Writers, VerifyMarker(w) PROVE FALSE
    BY <1>1, <2>1, <2>9 DEF VerifyMarker, At, OwnPublication, Published
  <2>10. ASSUME NEW w \in Writers, CheckBinding(w, "confirm", "held") PROVE FALSE
    BY <1>1, <2>1, <2>10 DEF CheckBinding, At, Bound
  <2>11. ASSUME NEW w \in Writers, RespectMarker(w) PROVE FALSE
    BY <1>1, <2>1, <2>11 DEF RespectMarker, At, CalmReclaim, Calm, Respected, Retirable, Readable, NoAuthority
  <2>12. ASSUME NEW w \in Writers, JudgeStale(w) PROVE FALSE
    BY <1>1, <2>1, <2>12 DEF JudgeStale, At
  <2>13. ASSUME NEW w \in Writers, CheckBinding(w, "rebind", "stat") PROVE FALSE
    BY <1>1, <2>1, <2>13 DEF CheckBinding, At, Bound
  <2>14. ASSUME NEW w \in Writers, StatMarker(w) PROVE FALSE
    BY <1>1, <2>1, <2>14 DEF StatMarker, At, CalmReclaim
  <2>15. ASSUME NEW w \in Writers, RenameMarker(w) PROVE FALSE
    BY <1>1, <2>1, <2>15 DEF RenameMarker, At, CalmReclaim, Attempts
  <2>16. ASSUME NEW w \in Writers, RenameFails(w) PROVE FALSE
    BY <1>1, <2>1, <2>16 DEF RenameFails, At, CalmReclaim
  <2>17. ASSUME NEW w \in Writers, BeginRelease(w) PROVE FALSE
    BY <1>1, <2>1, <2>17 DEF BeginRelease, At
  <2>18. ASSUME NEW w \in Writers, CheckBinding(w, "unbind", "inspect") PROVE FALSE
    BY <1>1, <2>1, <2>18 DEF CheckBinding, At, Bound
  <2>19. ASSUME NEW w \in Writers, InspectMarker(w) PROVE FALSE
    BY <1>1, <2>1, <2>19 DEF InspectMarker, At
  <2>20. ASSUME NEW w \in Writers, UnlinkMarker(w) PROVE FALSE
    BY <1>1, <2>1, <2>20 DEF UnlinkMarker, At
  <2>21. ASSUME NEW w \in Writers, CloseGate(w) PROVE FALSE
    BY <1>1, <2>1, <2>21 DEF CloseGate, At
  <2>22. ASSUME NEW w \in Writers, WriteFails(w) PROVE FALSE
    BY <1>1, <2>1, <2>22 DEF WriteFails, At
  <2>23. ASSUME NEW w \in Writers, Crash(w) PROVE FALSE
    BY <1>1, <2>1, <2>23 DEF Crash
  <2>24. ASSUME ReplaceAuthority PROVE FALSE
    BY <1>1, <2>24 DEF ReplaceAuthority
  <2>25. ASSUME NEW l \in Legacies, LegacyPublishes(l) PROVE FALSE
    BY <1>1, <2>25 DEF LegacyPublishes
  <2>26. ASSUME NEW l \in Legacies, LegacyEnds(l) PROVE FALSE
    BY <1>1, <2>26 DEF LegacyEnds
  <2>27. ASSUME NEW l \in Legacies, LegacyCrashes(l) PROVE FALSE
    BY <1>1, <2>27 DEF LegacyCrashes
  <2>28. ASSUME UNCHANGED vars PROVE FALSE
    BY <1>1, <2>28 DEF vars
  <2> QED
    BY <1>1, <2>2, <2>3, <2>4, <2>5, <2>6, <2>7, <2>8, <2>9, <2>10, <2>11, <2>12, <2>13,
       <2>14, <2>15, <2>16, <2>17, <2>18, <2>19, <2>20, <2>21, <2>22, <2>23, <2>24, <2>25,
       <2>26, <2>27, <2>28
       DEF Next, Acquire, Release
<1>2. Inv /\ [Next]_vars => [\A w \in Writers : Fails(w) => authority # 1 \/ \E l \in Legacies : legacy[l] # "waiting"]_vars
  BY <1>1 DEF Calm
<1> QED
  BY <1>2, Invariance, PTL DEF Spec, ElectedSucceeds

\* ... and in every next state.
LEMMA NextSingleWriter == Inv' => SingleWriter'
  BY InvSingleWriter, PTL

\* Every step grants, releases or loses the lease, or is invisible.
LEMMA LockStep == Inv /\ Inv' /\ [Next]_vars => [Lock!Next]_(Lock!vars)
<1> SUFFICES ASSUME Inv /\ Inv', [Next]_vars PROVE [Lock!Next]_(Lock!vars)
  OBVIOUS
<1> USE DEF Inv, TypeOK, Lock!vars, Holders
<1>1. ASSUME NEW w \in Writers, BeginAcquire(w) PROVE [Lock!Next]_(Lock!vars)
  BY <1>1 DEF BeginAcquire, At
<1>2. ASSUME NEW w \in Writers, TakeGate(w) PROVE [Lock!Next]_(Lock!vars)
  BY <1>2 DEF TakeGate, At
<1>3. ASSUME NEW w \in Writers, Refused(w) PROVE [Lock!Next]_(Lock!vars)
  BY <1>3 DEF Refused, At
<1>4. ASSUME NEW w \in Writers, CheckBinding(w, "bind", "create") PROVE [Lock!Next]_(Lock!vars)
  BY <1>4 DEF CheckBinding, At
<1>5. ASSUME NEW w \in Writers, CreateMarker(w) PROVE [Lock!Next]_(Lock!vars)
  BY <1>5 DEF CreateMarker, At
<1>6. ASSUME NEW w \in Writers, MarkerExists(w) PROVE [Lock!Next]_(Lock!vars)
  BY <1>6 DEF MarkerExists, At
<1>7. ASSUME NEW w \in Writers, WriteMarker(w) PROVE [Lock!Next]_(Lock!vars)
  BY <1>7 DEF WriteMarker, At
<1>8. ASSUME NEW w \in Writers, VerifyMarker(w) PROVE [Lock!Next]_(Lock!vars)
  BY <1>8 DEF VerifyMarker, At
<1>9. ASSUME NEW w \in Writers, CheckBinding(w, "confirm", "held") PROVE [Lock!Next]_(Lock!vars)
  <2>1. CASE Bound(w)
    <3>1. Lock!Grant(w)
      <4>1. pc' = [pc EXCEPT ![w] = "held"] /\ pc[w] = "confirm"
        BY <2>1, <1>9 DEF CheckBinding, At
      <4>2. Holders' = Holders \cup {w}
        BY <4>1 DEF Holders
      <4>3. Holders = {}
        BY <4>1, <4>2, NextSingleWriter DEF SingleWriter, Holders
      <4> QED
        BY <4>1, <4>2, <4>3 DEF Lock!Grant
    <3> QED
      BY <3>1 DEF Lock!Next
  <2>2. CASE ~ Bound(w)
    BY <2>2, <1>9 DEF CheckBinding, At
  <2> QED
    BY <2>1, <2>2
<1>10. ASSUME NEW w \in Writers, RespectMarker(w) PROVE [Lock!Next]_(Lock!vars)
  BY <1>10 DEF RespectMarker, At
<1>11. ASSUME NEW w \in Writers, JudgeStale(w) PROVE [Lock!Next]_(Lock!vars)
  BY <1>11 DEF JudgeStale, At
<1>12. ASSUME NEW w \in Writers, CheckBinding(w, "rebind", "stat") PROVE [Lock!Next]_(Lock!vars)
  BY <1>12 DEF CheckBinding, At
<1>13. ASSUME NEW w \in Writers, StatMarker(w) PROVE [Lock!Next]_(Lock!vars)
  BY <1>13 DEF StatMarker, At
<1>14. ASSUME NEW w \in Writers, RenameMarker(w) PROVE [Lock!Next]_(Lock!vars)
  BY <1>14 DEF RenameMarker, At
<1>15. ASSUME NEW w \in Writers, RenameFails(w) PROVE [Lock!Next]_(Lock!vars)
  BY <1>15 DEF RenameFails, At
<1>16. ASSUME NEW w \in Writers, BeginRelease(w) PROVE [Lock!Next]_(Lock!vars)
  <2>1. pc' = [pc EXCEPT ![w] = "unbind"] /\ pc[w] = "held"
    BY <1>16 DEF BeginRelease, At
  <2>2. Holders = {w}
    BY <2>1, InvSingleWriter DEF SingleWriter, Holders
  <2>3. Lock!Release(w)
    BY <2>1, <2>2 DEF Lock!Release, Holders
  <2> QED
    BY <2>3 DEF Lock!Next
<1>17. ASSUME NEW w \in Writers, CheckBinding(w, "unbind", "inspect") PROVE [Lock!Next]_(Lock!vars)
  BY <1>17 DEF CheckBinding, At
<1>18. ASSUME NEW w \in Writers, InspectMarker(w) PROVE [Lock!Next]_(Lock!vars)
  BY <1>18 DEF InspectMarker, At
<1>19. ASSUME NEW w \in Writers, UnlinkMarker(w) PROVE [Lock!Next]_(Lock!vars)
  BY <1>19 DEF UnlinkMarker, At
<1>20. ASSUME NEW w \in Writers, CloseGate(w) PROVE [Lock!Next]_(Lock!vars)
  BY <1>20 DEF CloseGate, At
<1>21. ASSUME NEW w \in Writers, WriteFails(w) PROVE [Lock!Next]_(Lock!vars)
  BY <1>21 DEF WriteFails, At
<1>22. ASSUME NEW w \in Writers, Crash(w) PROVE [Lock!Next]_(Lock!vars)
  <2>1. pc' = [pc EXCEPT ![w] = "dead"] /\ pc[w] # "dead"
    BY <1>22 DEF Crash
  <2>2. Lock!Crash(w)
    BY <2>1 DEF Lock!Crash, Holders
  <2> QED
    BY <2>2 DEF Lock!Next
<1>23. ASSUME ReplaceAuthority PROVE [Lock!Next]_(Lock!vars)
  BY <1>23 DEF ReplaceAuthority
<1>24. ASSUME NEW l \in Legacies, LegacyPublishes(l) PROVE [Lock!Next]_(Lock!vars)
  BY <1>24 DEF LegacyPublishes
<1>25. ASSUME NEW l \in Legacies, LegacyEnds(l) PROVE [Lock!Next]_(Lock!vars)
  BY <1>25 DEF LegacyEnds
<1>26. ASSUME NEW l \in Legacies, LegacyCrashes(l) PROVE [Lock!Next]_(Lock!vars)
  BY <1>26 DEF LegacyCrashes
<1>27. ASSUME UNCHANGED vars PROVE [Lock!Next]_(Lock!vars)
  BY <1>27 DEF vars
<1> QED
  BY <1>1, <1>2, <1>3, <1>4, <1>5, <1>6, <1>7, <1>8, <1>9, <1>10, <1>11, <1>12, <1>13, <1>14,
     <1>15, <1>16, <1>17, <1>18, <1>19, <1>20, <1>21, <1>22, <1>23, <1>24, <1>25, <1>26, <1>27
     DEF Next, Acquire, Release

\* The protocol on the two files implements the promise of a lease: one
\* writer, who stays it until he releases it or dies, and never after that.
THEOREM LeaseImplementsLock == Spec => ImplementsLock
<1>1. Init => Lock!Init
  BY DEF Init, Lock!Init, Holders
<1>2. Inv /\ Inv' /\ [Next]_vars => [Lock!Next]_(Lock!vars)
  BY LockStep
<1> QED
  BY <1>1, <1>2, Invariance, PTL DEF Spec, ImplementsLock, Lock!Spec

=============================================================================

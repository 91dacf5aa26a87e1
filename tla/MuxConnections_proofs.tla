----------------------- MODULE MuxConnections_proofs -----------------------
(***************************************************************************)
(* Proofs about MuxConnections, for every number of permits and whatever   *)
(* the bounds.  Each conjunct of the inductive invariant IInv has a lemma  *)
(* that a step keeps it.                                                   *)
(***************************************************************************)
EXTENDS MuxConnections, FiniteSetTheorems, TLAPS

USE SMTT(30)

USE MuxAssumption

(* Who is about to call the listener holds muxesLock, and nobody else.     *)
LockHeld ==
  /\ provider = "notify" <=> muxesLock = Provider
  /\ \A i \in Sessions : session[i] = "notify" <=> muxesLock = i

(* The sequencer is past the IDs of all sessions there have been.          *)
FreshIds == \A i \in Sessions : session[i] = "none" <=> i > lastId

(* The manager only shuts down when the lifetime is over.                  *)
ClosedLater == closer # "idle" => ~lifetime

IInv ==
  /\ TypeOK
  /\ LockHeld
  /\ FreshIds
  /\ ClosedLater
  /\ ClientListCurrent
  /\ PermitsConserved

(* The steps that change no session and no ID.                             *)
Elsewhere ==
  \/ Start \/ Acquire \/ NewConnection \/ NewSession \/ Ping \/ Fail \/ FailShutdown
  \/ ProviderExit \/ WaitForClose \/ CloseMuxes \/ CloseListener \/ EndLifetime
  \/ TryAcquire \/ ReleaseProbe

(* The cases of a step, as the proofs below distinguish them.              *)
LEMMA NextCases ==
  ASSUME [Next]_vars
  PROVE  \/ UNCHANGED vars \/ Elsewhere \/ AddConnection \/ NotifyAdded
         \/ \E i \in Sessions : \/ Break(i) \/ WaitAndCleanup(i) \/ UnregisterMux(i)
                                \/ NotifyRemoved(i) \/ AllowMoreConns(i)
  BY Zenon DEF Next, ProviderStep, CloserStep, SessionStep, Elsewhere

(* Nothing but the muxProvider and the shutdown moves in the other steps.  *)
LEMMA ElsewhereKeeps ==
  ASSUME Elsewhere
  PROVE  /\ UNCHANGED sessionVars
         /\ (provider # "notify" /\ provider' # "notify") \/ UNCHANGED provider
  BY Zenon DEF Elsewhere, Start, Acquire, NewConnection, NewSession, Ping, Fail, FailShutdown,
         ProviderExit, WaitForClose, CloseMuxes, CloseListener, EndLifetime, TryAcquire,
         ReleaseProbe, At, Attempting

(* Permits aside, a step keeps the types.                                  *)
LEMMA TypeStep ==
  ASSUME IInv, [Next]_vars, permits' \in 0..MuxCount
  PROVE  TypeOK'
<1> USE DEF At, Attempting, shutdownVars, sessionVars
<1>0. TypeOK
  BY Zenon DEF IInv
<1>1. CASE UNCHANGED vars
  BY <1>0, <1>1 DEF TypeOK, vars
<1>2. CASE Elsewhere
  <2>1. CASE Start
    BY Zenon, <1>0, <2>1 DEF TypeOK, Start
  <2>2. CASE Acquire
    BY <1>0, <2>2 DEF TypeOK, Acquire
  <2>3. CASE NewConnection \/ NewSession \/ Ping
    BY <1>0, <2>3 DEF TypeOK, NewConnection, NewSession, Ping
  <2>4. CASE Fail
    BY <1>0, <2>4 DEF TypeOK, Fail
  <2>5. CASE FailShutdown
    BY <1>0, <2>5 DEF TypeOK, FailShutdown
  <2>6. CASE ProviderExit
    BY Zenon, <1>0, <2>6 DEF TypeOK, ProviderExit
  <2>7. CASE WaitForClose
    <3>1. hasCleanedUp' \in BOOLEAN
      BY <2>7, Zenon DEF WaitForClose
    <3> QED  BY <1>0, <2>7, <3>1 DEF TypeOK, WaitForClose
  <2>8. CASE CloseMuxes
    BY <1>0, <2>8 DEF TypeOK, CloseMuxes
  <2>9. CASE EndLifetime \/ CloseListener
    <3>1. lifetime' \in BOOLEAN /\ connClosed' \in BOOLEAN
      BY <1>0, <2>9, Zenon DEF TypeOK, EndLifetime, CloseListener
    <3> QED  BY <1>0, <2>9, <3>1 DEF TypeOK, EndLifetime, CloseListener
  <2>10. CASE TryAcquire \/ ReleaseProbe
    <3>1. probe' \in BOOLEAN
      BY <2>10, Zenon DEF TryAcquire, ReleaseProbe
    <3> QED  BY <1>0, <2>10, <3>1 DEF TypeOK, TryAcquire, ReleaseProbe
  <2> QED  BY Zenon, <1>2, <2>1, <2>2, <2>3, <2>4, <2>5, <2>6, <2>7, <2>8, <2>9, <2>10
           DEF Elsewhere
<1>3. CASE AddConnection
  <2>1. CASE lifetime
    <3>1. lastId + 1 \in Sessions
      BY <1>0, <1>3, <2>1 DEF TypeOK, AddConnection, Sessions
    <3>2. lastId' \in 0..MaxSessions
      BY <3>1, <1>3, <2>1 DEF AddConnection, Sessions
    <3> QED  BY <1>0, <1>3, <2>1, <3>1, <3>2 DEF TypeOK, AddConnection
  <2>2. CASE ~lifetime
    BY Zenon, <1>0, <1>3, <2>2 DEF TypeOK, AddConnection
  <2> QED  BY Zenon, <2>1, <2>2
<1>4. CASE NotifyAdded
  BY Zenon, <1>0, <1>4 DEF TypeOK, NotifyAdded
<1>5. ASSUME NEW i \in Sessions
      PROVE  /\ Break(i) => TypeOK'
             /\ WaitAndCleanup(i) => TypeOK'
             /\ UnregisterMux(i) => TypeOK'
             /\ NotifyRemoved(i) => TypeOK'
             /\ AllowMoreConns(i) => TypeOK'
  <2>1. Break(i) => TypeOK'
    BY <1>0 DEF TypeOK, Break
  <2>2. WaitAndCleanup(i) => TypeOK'
    BY Zenon, <1>0 DEF TypeOK, WaitAndCleanup
  <2>3. UnregisterMux(i) => TypeOK'
    BY Zenon, <1>0 DEF TypeOK, UnregisterMux
  <2>4. NotifyRemoved(i) => TypeOK'
    BY Zenon, <1>0 DEF TypeOK, NotifyRemoved
  <2>5. AllowMoreConns(i) => TypeOK'
    BY Zenon, <1>0 DEF TypeOK, AllowMoreConns
  <2> QED  BY Zenon, <2>1, <2>2, <2>3, <2>4, <2>5
<1> QED  BY Zenon, <1>1, <1>2, <1>3, <1>4, <1>5, NextCases

(* A step hands muxesLock on only with the work it protects.               *)
LEMMA LockStep ==
  ASSUME IInv, [Next]_vars
  PROVE  LockHeld'
<1> USE DEF IInv, TypeOK, LockHeld, Sessions, Free, Provider, sessionVars
<1>1. CASE UNCHANGED vars
  BY Zenon, <1>1 DEF vars
<1>2. CASE Elsewhere
  BY Zenon, <1>2, ElsewhereKeeps
<1>3. CASE AddConnection
  BY <1>3 DEF AddConnection, At
<1>4. CASE NotifyAdded
  BY <1>4 DEF NotifyAdded, At
<1>5. ASSUME NEW i \in Sessions, Break(i) \/ WaitAndCleanup(i) \/ UnregisterMux(i)
                                   \/ NotifyRemoved(i) \/ AllowMoreConns(i)
      PROVE  LockHeld'
  BY <1>5 DEF Break, WaitAndCleanup, UnregisterMux, NotifyRemoved, AllowMoreConns
<1> QED  BY Zenon, <1>1, <1>2, <1>3, <1>4, <1>5, NextCases

(* A session gets the next ID of the sequencer.                            *)
LEMMA IdStep ==
  ASSUME IInv, [Next]_vars
  PROVE  FreshIds'
<1> USE DEF IInv, TypeOK, FreshIds, Sessions, sessionVars
<1>1. CASE UNCHANGED vars
  BY Zenon, <1>1 DEF vars
<1>2. CASE Elsewhere
  BY Zenon, <1>2, ElsewhereKeeps
<1>3. CASE AddConnection
  BY <1>3 DEF AddConnection, At
<1>4. CASE NotifyAdded
  BY Zenon, <1>4 DEF NotifyAdded
<1>5. ASSUME NEW i \in Sessions, Break(i) \/ WaitAndCleanup(i) \/ UnregisterMux(i)
                                   \/ NotifyRemoved(i) \/ AllowMoreConns(i)
      PROVE  FreshIds'
  BY Zenon, <1>5 DEF Break, WaitAndCleanup, UnregisterMux, NotifyRemoved, AllowMoreConns
<1> QED  BY Zenon, <1>1, <1>2, <1>3, <1>4, <1>5, NextCases

(* The lifetime does not come back.                                        *)
LEMMA ClosedStep ==
  ASSUME IInv, [Next]_vars
  PROVE  ClosedLater' /\ (lifetime' => lifetime)
<1> USE DEF IInv, TypeOK, ClosedLater, shutdownVars
<1>1. CASE UNCHANGED vars
  BY Zenon, <1>1 DEF vars
<1>2. CASE Elsewhere
  BY <1>2 DEF Elsewhere, Start, Acquire, NewConnection, NewSession, Ping, Fail,
         FailShutdown, ProviderExit, WaitForClose, CloseMuxes, CloseListener,
         EndLifetime, TryAcquire, ReleaseProbe
<1>3. CASE AddConnection
  BY Zenon, <1>3 DEF AddConnection
<1>4. CASE NotifyAdded
  BY Zenon, <1>4 DEF NotifyAdded
<1>5. ASSUME NEW i \in Sessions, Break(i) \/ WaitAndCleanup(i) \/ UnregisterMux(i)
                                   \/ NotifyRemoved(i) \/ AllowMoreConns(i)
      PROVE  ClosedLater' /\ (lifetime' => lifetime)
  BY <1>5 DEF Break, WaitAndCleanup, UnregisterMux, NotifyRemoved, AllowMoreConns
<1> QED  BY Zenon, <1>1, <1>2, <1>3, <1>4, <1>5, NextCases

(* The client is told before muxesLock is released, and a session is       *)
(* registered until its goroutine unregisters it.                          *)
LEMMA ListStep ==
  ASSUME IInv, [Next]_vars
  PROVE  ClientListCurrent'
<1> USE DEF IInv, TypeOK, LockHeld, FreshIds, ClientListCurrent, Sessions, Free, Provider,
            sessionVars
<1>1. CASE UNCHANGED vars
  BY Zenon, <1>1 DEF vars
<1>2. CASE Elsewhere
  BY Zenon, <1>2, ElsewhereKeeps
<1>3. CASE AddConnection
  <2>1. CASE lifetime
    <3>1. /\ lastId + 1 \in Sessions
          /\ session' = [session EXCEPT ![lastId + 1] = "running"]
          /\ muxes' = muxes \cup {lastId + 1}
          /\ muxesLock' # Free
      BY <1>3, <2>1 DEF AddConnection
    <3> QED  BY Zenon, <3>1
  <2>2. CASE ~lifetime
    BY Zenon, <1>3, <2>2 DEF AddConnection
  <2> QED  BY Zenon, <2>1, <2>2
<1>4. CASE NotifyAdded
  BY Zenon, <1>4 DEF NotifyAdded, At
<1>5. ASSUME NEW i \in Sessions
      PROVE  /\ Break(i) => ClientListCurrent'
             /\ WaitAndCleanup(i) => ClientListCurrent'
             /\ UnregisterMux(i) => ClientListCurrent'
             /\ NotifyRemoved(i) => ClientListCurrent'
             /\ AllowMoreConns(i) => ClientListCurrent'
  BY Zenon DEF Break, WaitAndCleanup, UnregisterMux, NotifyRemoved, AllowMoreConns
<1> QED  BY Zenon, <1>1, <1>2, <1>3, <1>4, <1>5, NextCases

(* There are finitely many sessions.                                       *)
LEMMA HeldFinite == IsFiniteSet(Held) /\ Cardinality(Held) \in Nat
<1>1. IsFiniteSet(Sessions)
  BY FS_Interval DEF Sessions
<1>2. Held \in SUBSET Sessions
  BY Zenon DEF Held
<1> QED  BY Zenon, <1>1, <1>2, FS_Subset, FS_CardinalityType

(* How many permits are accounted for.                                     *)
Accounted == permits + Cardinality(Held) + InHand

(* A step creates no permit, and loses one only in the shutdown.           *)
LEMMA AccountStep ==
  ASSUME IInv, [Next]_vars
  PROVE  /\ permits' \in Nat
         /\ Accounted' <= Accounted
         /\ lifetime' => Accounted' = Accounted
<1> DEFINE Goal == /\ permits' \in Nat
                   /\ Accounted' <= Accounted
                   /\ lifetime' => Accounted' = Accounted
<1>0. permits \in Nat /\ Cardinality(Held) \in Nat /\ IsFiniteSet(Held)
  BY HeldFinite DEF IInv, TypeOK
<1>1. ASSUME UNCHANGED session PROVE Cardinality(Held)' = Cardinality(Held)
  <2>1. Held' = Held
    BY Zenon, <1>1 DEF Held
  <2> QED  BY Zenon, <2>1
<1>2. CASE UNCHANGED vars
  <2>1. UNCHANGED <<session, permits, provider, probe>>
    BY Zenon, <1>2 DEF vars, sessionVars
  <2> QED  BY <1>0, <1>1, <2>1 DEF Accounted, InHand
<1>3. CASE Elsewhere
  <2>1. Cardinality(Held)' = Cardinality(Held)
    BY Zenon, <1>1, <1>3, ElsewhereKeeps DEF sessionVars
  <2> QED  BY <1>0, <1>3, <2>1 DEF Accounted, InHand, Elsewhere, Start, Acquire,
         NewConnection, NewSession, Ping, Fail, FailShutdown, ProviderExit, WaitForClose,
         CloseMuxes, CloseListener, EndLifetime, TryAcquire, ReleaseProbe, At, Attempting,
         shutdownVars
<1>4. CASE AddConnection
  <2>1. CASE lifetime
    <3>1. lastId + 1 \in Sessions /\ lastId + 1 \notin Held
      BY <1>4, <2>1 DEF IInv, TypeOK, FreshIds, AddConnection, Sessions, Held
    <3>2. Held' = Held \cup {lastId + 1}
      BY Zenon, <1>4, <2>1, <3>1 DEF AddConnection, Held, IInv, TypeOK
    <3>3. Cardinality(Held') = Cardinality(Held) + 1
      BY Zenon, <1>0, <3>1, <3>2, FS_AddElement
    <3> QED  BY <1>0, <1>4, <2>1, <3>3
             DEF Accounted, InHand, AddConnection, At, Attempting, shutdownVars
  <2>2. CASE ~lifetime
    <3>1. Cardinality(Held)' = Cardinality(Held)
      BY Zenon, <1>1, <1>4, <2>2 DEF AddConnection
    <3> QED  BY <1>0, <1>4, <2>2, <3>1
             DEF Accounted, InHand, AddConnection, At, Attempting, shutdownVars
  <2> QED  BY Zenon, <2>1, <2>2
<1>5. CASE NotifyAdded
  <2>1. Cardinality(Held)' = Cardinality(Held)
    BY Zenon, <1>1, <1>5 DEF NotifyAdded
  <2> QED  BY <1>0, <1>5, <2>1 DEF Accounted, InHand, NotifyAdded, At, Attempting,
                                   shutdownVars
<1>6. ASSUME NEW i \in Sessions,
             Break(i) \/ WaitAndCleanup(i) \/ UnregisterMux(i) \/ NotifyRemoved(i)
      PROVE  Goal
  <2>1. Held' = Held
    BY Zenon, <1>6 DEF Held, IInv, TypeOK, Break, WaitAndCleanup, UnregisterMux, NotifyRemoved
  <2>2. Cardinality(Held') = Cardinality(Held)
    BY Zenon, <2>1
  <2> QED  BY <1>0, <1>6, <2>2 DEF Accounted, InHand, Break, WaitAndCleanup,
                                   UnregisterMux, NotifyRemoved, shutdownVars
<1>7. ASSUME NEW i \in Sessions, AllowMoreConns(i)
      PROVE  Goal
  <2>1. i \in Held /\ Held' = Held \ {i}
    BY Zenon, <1>7 DEF Held, IInv, TypeOK, AllowMoreConns
  <2>2. Cardinality(Held') = Cardinality(Held) - 1
    BY Zenon, <1>0, <2>1, FS_RemoveElement
  <2> QED  BY <1>0, <1>7, <2>2 DEF Accounted, InHand, AllowMoreConns, shutdownVars
<1> QED  BY Zenon, <1>2, <1>3, <1>4, <1>5, <1>6, <1>7, NextCases

(* The permits of the invariant, and their range.                          *)
LEMMA PermitStep ==
  ASSUME IInv, [Next]_vars
  PROVE  PermitsConserved' /\ permits' \in 0..MuxCount
<1>1. InHand' \in Nat /\ InHand \in Nat
  BY DEF InHand
<1>2. Cardinality(Held) \in Nat /\ Cardinality(Held') \in Nat
  <2>1. IsFiniteSet(Sessions)
    BY FS_Interval DEF Sessions
  <2>2. Held \in SUBSET Sessions /\ Held' \in SUBSET Sessions
    BY Zenon DEF Held
  <2> QED  BY Zenon, <2>1, <2>2, FS_Subset, FS_CardinalityType
<1>3. /\ permits' \in Nat /\ permits \in Nat
      /\ Accounted' <= Accounted
      /\ lifetime' => Accounted' = Accounted /\ lifetime
  BY AccountStep, ClosedStep DEF IInv, TypeOK
<1>4. Accounted <= MuxCount /\ (lifetime => Accounted = MuxCount)
  BY Zenon DEF IInv, PermitsConserved, Accounted
<1>5. Accounted' <= MuxCount /\ (lifetime' => Accounted' = MuxCount)
  BY <1>1, <1>2, <1>3, <1>4 DEF Accounted
<1> QED  BY <1>1, <1>2, <1>3, <1>5 DEF PermitsConserved, Accounted

(* Nothing runs yet, and every permit is free.                             *)
LEMMA InitIInv == Init => IInv
<1> SUFFICES ASSUME Init PROVE IInv
  BY Zenon
<1>1. Held = {}
  BY Zenon DEF Init, Held
<1>2. Cardinality(Held) = 0
  BY Zenon, <1>1, FS_EmptySet
<1>3. connClosed \in BOOLEAN
  BY Zenon DEF Init
<1>4. TypeOK
  <2>1. lifetime \in BOOLEAN /\ hasCleanedUp \in BOOLEAN /\ probe \in BOOLEAN
    BY Zenon DEF Init
  <2> QED  BY <1>3, <2>1 DEF Init, TypeOK, Free
<1>5. PermitsConserved
  BY <1>2 DEF Init, PermitsConserved, InHand, Attempting
<1>6. LockHeld /\ FreshIds /\ ClosedLater /\ ClientListCurrent
  BY DEF Init, LockHeld, FreshIds, ClosedLater, ClientListCurrent, Free, Provider, Sessions
<1> QED  BY Zenon, <1>4, <1>5, <1>6 DEF IInv

(* Every step keeps the invariant.                                         *)
LEMMA NextIInv == IInv /\ [Next]_vars => IInv'
  BY Zenon, TypeStep, LockStep, IdStep, ClosedStep, ListStep, PermitStep DEF IInv

(* The permits of the provider's semaphore are conserved, for every number *)
(* of permits and every sequence of breaks, failures and shutdown.         *)
THEOREM PermitsInvariant == Spec => []PermitsConserved
<1>1. IInv => PermitsConserved
  BY Zenon DEF IInv
<1> QED  BY <1>1, InitIInv, NextIInv, PTL DEF Spec

(* The client's list is the manager's, whenever muxesLock is free.         *)
THEOREM ListInvariant == Spec => []ClientListCurrent
<1>1. IInv => ClientListCurrent
  BY Zenon DEF IInv
<1> QED  BY <1>1, InitIInv, NextIInv, PTL DEF Spec

(* The types are an invariant.                                             *)
THEOREM MuxTypes == Spec => []TypeOK
<1>1. IInv => TypeOK
  BY Zenon DEF IInv
<1> QED  BY <1>1, InitIInv, NextIInv, PTL DEF Spec

(* A session is registered while the provider holds a permit for it: the   *)
(* pool has room.                                                          *)
LEMMA RoomForOne ==
  ASSUME IInv, provider = "add"
  PROVE  Cardinality(muxes) < MuxCount
<1>1. muxes \in SUBSET Held
  BY Zenon DEF IInv, ClientListCurrent, Held
<1>2. Cardinality(muxes) \in Nat /\ Cardinality(muxes) <= Cardinality(Held)
  BY Zenon, <1>1, HeldFinite, FS_Subset, FS_CardinalityType
<1>3. InHand \in Nat \ {0}
  BY DEF InHand
<1> QED  BY <1>2, <1>3, HeldFinite DEF IInv, TypeOK, PermitsConserved

(* The manager, its provider and its sessions implement MuxPool.           *)
THEOREM MuxImplementsPool == Spec => ImplementsPool
<1>1. Init => Pool!PoolInit
  BY Zenon DEF Init, Pool!PoolInit, hasShutDown
<1>2. IInv /\ [Next]_vars => [Pool!PoolNext]_(Pool!poolVars)
  <2> SUFFICES ASSUME IInv, [Next]_vars PROVE [Pool!PoolNext]_(Pool!poolVars)
    BY Zenon
  <2> USE DEF Pool!PoolNext, Pool!poolVars, hasShutDown, shutdownVars, sessionVars
  <2>1. CASE UNCHANGED vars
    BY Zenon, <2>1 DEF vars
  <2>2. CASE Elsewhere
    <3>1. UNCHANGED <<muxes, lastId>>
      BY Zenon, <2>2, ElsewhereKeeps
    <3>2. closer' = closer \/ (closer' = "waiting" /\ closer = "idle") \/ closer' = "done"
      BY Zenon, <2>2 DEF Elsewhere, Start, Acquire, NewConnection, NewSession, Ping, Fail,
         FailShutdown, ProviderExit, WaitForClose, CloseMuxes, CloseListener,
         EndLifetime, TryAcquire, ReleaseProbe
    <3> QED  BY Zenon, <3>1, <3>2 DEF Pool!Shut
  <2>3. CASE AddConnection
    <3>1. CASE lifetime
      <4>1. closer # "done"
        BY Zenon, <3>1 DEF IInv, ClosedLater
      <4>2. Cardinality(muxes) < MuxCount
        BY Zenon, <2>3, <3>1, RoomForOne DEF AddConnection, At
      <4>3. closer' = closer /\ lastId' = lastId + 1 /\ muxes' = muxes \cup {lastId + 1}
        BY Zenon, <2>3, <3>1 DEF AddConnection
      <4>4. Pool!Open
        <5>1. Pool!Cardinality(muxes) = Cardinality(muxes)
          BY Zenon DEF Pool!Cardinality, Cardinality
        <5> QED  BY Zenon, <4>1, <4>2, <4>3, <5>1 DEF Pool!Open
      <4> QED  BY Zenon, <4>4
    <3>2. CASE ~lifetime
      BY Zenon, <2>3, <3>2 DEF AddConnection
    <3> QED  BY Zenon, <3>1, <3>2
  <2>4. CASE NotifyAdded
    BY Zenon, <2>4 DEF NotifyAdded
  <2>5. ASSUME NEW i \in Sessions, UnregisterMux(i)
        PROVE  Pool!PoolNext
    <3>1. i \in muxes
      BY Zenon, <2>5 DEF UnregisterMux, IInv, ClientListCurrent
    <3> QED  BY Zenon, <2>5, <3>1 DEF UnregisterMux, Pool!Close
  <2>6. ASSUME NEW i \in Sessions,
               Break(i) \/ WaitAndCleanup(i) \/ NotifyRemoved(i) \/ AllowMoreConns(i)
        PROVE  UNCHANGED Pool!poolVars
    BY Zenon, <2>6 DEF Break, WaitAndCleanup, NotifyRemoved, AllowMoreConns
  <2> QED  BY Zenon, <2>1, <2>2, <2>3, <2>4, <2>5, <2>6, NextCases
<1> QED  BY <1>1, <1>2, InitIInv, NextIInv, PTL DEF Spec, ImplementsPool, Pool!PoolSpec
=============================================================================

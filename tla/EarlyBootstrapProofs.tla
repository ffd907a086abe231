------------------------ MODULE EarlyBootstrapProofs ------------------------
(***************************************************************************)
(* Proofs about the earlier bootstrap() revisions of EarlyBootstrap, for   *)
(* every peer set, addnode list, directory answers and height set allowed *)
(* by ConstantsAssumption.                                                 *)
(***************************************************************************)
EXTENDS EarlyBootstrap, NetworkManagerLemmas, TLAPS

\* The three start_sync() versions under bootstrap() B1.
B1Revisions == {"stub", "fetch", "continue"}

TypeOK == rev \in Revisions /\ nm \in Call

(***************************************************************************)
(* The inductive strengthening of BootstrapEndsNotSyncing and HeightsAgree *)
(* under B1.  No step writes one height without the other, so the two     *)
(* agree in every state, not only at the return; and is_syncing is false  *)
(* before the first await, since new() leaves it false and discovery does  *)
(* not touch it: B1's skip of start_sync() on an empty registry returns    *)
(* with the flag as discovery left it.                                     *)
(***************************************************************************)
B1Inv ==
    /\ rev \in B1Revisions
    /\ nm.mgr.current = nm.mgr.network
    /\ nm.pc \in {"discover", "done"} => ~nm.mgr.syncing

IInv == TypeOK /\ B1Inv

-----------------------------------------------------------------------------
USE ConstantsAssumption

(***************************************************************************)
(* The steps start_sync() and the fold of the earlier revisions add to     *)
(* NetworkManager's take a Call to a Call.                                 *)
(***************************************************************************)
LEMMA SyncStepsType ==
  ASSUME NEW c \in Call
  PROVE  /\ SyncStarted(c) \in Call
         /\ StubSynced(c) \in Call
         /\ SyncSkipped(c) \in Call
         /\ StartSyncFailed(c) \in Call
         /\ StartSyncContinued(c) \in Call
         /\ B2Failed(c) \in Call
  <1>1. SyncStarted(c) \in Call
    BY DEF SyncStarted, Call, Manager, Progress
  <1>2. StubSynced(c) \in Call
    BY DEF StubSynced, Call, Manager, Progress
  <1>3. SyncSkipped(c) \in Call
    BY DEF SyncSkipped, Call
  <1>4. StartSyncFailed(c) \in Call
    BY DEF StartSyncFailed, Call, Manager, Progress, HeightVals
  <1>5. StartSyncContinued(c) \in Call
    BY DEF StartSyncContinued, Call, Manager, Progress
  <1>6. B2Failed(c) \in Call
    BY DEF B2Failed, Call, Manager, Progress
  <1>7. QED
    BY <1>1, <1>2, <1>3, <1>4, <1>5, <1>6

LEMMA AfterDiscoveryType ==
  ASSUME NEW c \in Call
  PROVE  AfterDiscovery(c) \in Call
  BY SyncStepsType DEF AfterDiscovery

LEMMA FoldFailedType ==
  ASSUME NEW c \in Call
  PROVE  FoldFailed(c) \in Call
  BY SyncStepsType DEF FoldFailed

LEMMA TypeInit == Init => TypeOK
  BY NewType, FetchErrType, EmptyAskedType, OneType
     DEF Init, TypeOK, BootstrapCall, Call

LEMMA TypeStep == TypeOK /\ [Next]_vars => TypeOK'
  <1> SUFFICES ASSUME TypeOK, [Next]_vars PROVE TypeOK'
    OBVIOUS
  <1>t. nm \in Call
    BY DEF TypeOK
  <1>1. CASE DiscoverOk
    <2>1. PICK a \in DirAnswers : nm' = AfterDiscovery(Discovered(nm, a))
      BY <1>1 DEF DiscoverOk
    <2>2. Discovered(nm, a) \in Call
      BY <1>t, DiscoveredType
    <2>3. QED
      BY <1>1, <2>1, <2>2, AfterDiscoveryType DEF DiscoverOk, TypeOK
  <1>2. CASE DiscoverFailed
    <2>1. FellBack(nm) \in Call
      BY <1>t, FellBackType
    <2>2. QED
      BY <1>2, <2>1, AfterDiscoveryType DEF DiscoverFailed, TypeOK
  <1>3. CASE FetchClientFail
    BY <1>3, <1>t, ClientBuildFailedType DEF FetchClientFail, TypeOK
  <1>4. CASE FetchPeerOk
    BY <1>4, <1>t, PeerAnsweredType DEF FetchPeerOk, TypeOK
  <1>5. CASE FetchPeerFail
    BY <1>5, <1>t, PeerFailedType DEF FetchPeerFail, TypeOK
  <1>6. CASE FetchExhausted
    BY <1>6, <1>t, NoPeerAnsweredType DEF FetchExhausted, TypeOK
  <1>7. CASE Fold
    BY <1>7, <1>t, BootstrapSyncedType, FoldFailedType DEF Fold, StartSynced, TypeOK
  <1>8. CASE UNCHANGED vars
    BY <1>8 DEF vars, TypeOK
  <1>9. QED
    BY <1>1, <1>2, <1>3, <1>4, <1>5, <1>6, <1>7, <1>8 DEF Next

(***************************************************************************)
(* Every revision's bootstrap() call stays a well-formed Call.             *)
(***************************************************************************)
THEOREM TypeCorrect == Spec => []TypeOK
  BY TypeInit, TypeStep, PTL DEF Spec

-----------------------------------------------------------------------------
\* The B1 code between discovery and the first fetch await, on a call that
\* has just finished discovery with is_syncing false and equal heights:
\* it either returns at once with is_syncing false (empty registry, or the
\* stub), or goes to the fetch; the heights are left alone.
LEMMA AfterDiscoveryB1 ==
  ASSUME NEW c \in Call, rev \in B1Revisions, c.pc = "fetch",
         ~c.mgr.syncing, c.mgr.current = c.mgr.network
  PROVE  /\ AfterDiscovery(c).mgr.current = AfterDiscovery(c).mgr.network
         /\ AfterDiscovery(c).pc \in {"discover", "done"} => ~AfterDiscovery(c).mgr.syncing
  <1>1. rev # "B2"
    BY DEF B1Revisions
  <1>2. CASE c.mgr.peers = << >>
    <2>1. AfterDiscovery(c) = SyncSkipped(c)
      BY <1>1, <1>2, Zenon DEF AfterDiscovery
    <2>2. QED
      <3>1. /\ SyncSkipped(c).mgr.current = c.mgr.current
            /\ SyncSkipped(c).mgr.network = c.mgr.network
            /\ SyncSkipped(c).pc \in {"discover", "done"} => ~SyncSkipped(c).mgr.syncing
        BY DEF SyncSkipped, Call, Manager
      <3>2. QED
        BY <2>1, <3>1, Zenon
  <1>3. CASE c.mgr.peers # << >> /\ rev = "stub"
    <2>1. AfterDiscovery(c) = StubSynced(c)
      BY <1>1, <1>3, Zenon DEF AfterDiscovery
    <2>2. QED
      <3>1. /\ StubSynced(c).mgr.current = c.mgr.current
            /\ StubSynced(c).mgr.network = c.mgr.network
            /\ StubSynced(c).pc \in {"discover", "done"} => ~StubSynced(c).mgr.syncing
        BY DEF StubSynced, Call, Manager
      <3>2. QED
        BY <2>1, <3>1, Zenon
  <1>4. CASE c.mgr.peers # << >> /\ rev # "stub"
    <2>1. AfterDiscovery(c) = SyncStarted(c)
      BY <1>1, <1>4, Zenon DEF AfterDiscovery
    <2>2. QED
      <3>1. /\ SyncStarted(c).mgr.current = c.mgr.current
            /\ SyncStarted(c).mgr.network = c.mgr.network
            /\ SyncStarted(c).pc \in {"discover", "done"} => ~SyncStarted(c).mgr.syncing
        BY DEF SyncStarted, Call, Manager
      <3>2. QED
        BY <2>1, <3>1, Zenon
  <1>5. QED
    BY <1>2, <1>3, <1>4

\* A chain-status fold of B1 returns with is_syncing false and equal heights.
LEMMA FoldB1 ==
  ASSUME NEW c \in Call, rev \in B1Revisions, c.mgr.current = c.mgr.network
  PROVE  /\ StartSynced(c).mgr.current = StartSynced(c).mgr.network
         /\ ~StartSynced(c).mgr.syncing
         /\ FoldFailed(c).mgr.current = FoldFailed(c).mgr.network
         /\ ~FoldFailed(c).mgr.syncing
  <1>1. /\ StartSynced(c).mgr.current = StartSynced(c).mgr.network
        /\ ~StartSynced(c).mgr.syncing
    BY DEF StartSynced, BootstrapSynced, Call, Manager
  <1>2. CASE rev = "fetch"
    <2>1. FoldFailed(c) = StartSyncFailed(c)
      BY <1>2 DEF FoldFailed
    <2>2. QED
      <3>1. /\ StartSyncFailed(c).mgr.current = StartSyncFailed(c).mgr.network
            /\ ~StartSyncFailed(c).mgr.syncing
        BY DEF StartSyncFailed, Call, Manager
      <3>2. QED
        BY <1>1, <2>1, <3>1
  <1>3. CASE rev # "fetch"
    <2>1. FoldFailed(c) = StartSyncContinued(c)
      BY <1>3 DEF FoldFailed, B1Revisions
    <2>2. QED
      <3>1. /\ StartSyncContinued(c).mgr.current = StartSyncContinued(c).mgr.network
            /\ ~StartSyncContinued(c).mgr.syncing
        BY DEF StartSyncContinued, Call, Manager
      <3>2. QED
        BY <1>1, <2>1, <3>1
  <1>4. QED
    BY <1>2, <1>3

LEMMA IInvInit ==
  ASSUME Revisions \subseteq B1Revisions
  PROVE  Init => IInv
  BY TypeInit DEF Init, IInv, B1Inv, BootstrapCall, New

LEMMA IInvStep == IInv /\ [Next]_vars => IInv'
  <1> SUFFICES ASSUME IInv, [Next]_vars PROVE IInv'
    OBVIOUS
  <1>0. TypeOK'
    BY TypeStep DEF IInv
  <1>t. nm \in Call /\ rev \in B1Revisions /\ nm.mgr.current = nm.mgr.network
    BY DEF IInv, TypeOK, B1Inv
  <1> SUFFICES B1Inv'
    BY <1>0 DEF IInv
  <1>1. CASE DiscoverOk
    <2>1. PICK a \in DirAnswers : nm' = AfterDiscovery(Discovered(nm, a))
      BY <1>1 DEF DiscoverOk
    <2>2. ~nm.mgr.syncing
      BY <1>1 DEF DiscoverOk, IInv, B1Inv
    <2>3. /\ Discovered(nm, a) \in Call
          /\ Discovered(nm, a).pc = "fetch"
          /\ Discovered(nm, a).mgr.syncing = nm.mgr.syncing
          /\ Discovered(nm, a).mgr.current = nm.mgr.current
          /\ Discovered(nm, a).mgr.network = nm.mgr.network
      BY <1>t, DiscoveredType DEF Discovered, Call, Manager
    <2>4. /\ AfterDiscovery(Discovered(nm, a)).mgr.current = AfterDiscovery(Discovered(nm, a)).mgr.network
          /\ AfterDiscovery(Discovered(nm, a)).pc \in {"discover", "done"}
               => ~AfterDiscovery(Discovered(nm, a)).mgr.syncing
      BY <1>t, <2>2, <2>3, AfterDiscoveryB1
    <2>5. rev' = rev
      BY <1>1 DEF DiscoverOk
    <2>6. QED
      BY <1>t, <2>1, <2>4, <2>5 DEF B1Inv
  <1>2. CASE DiscoverFailed
    <2>1. nm' = AfterDiscovery(FellBack(nm))
      BY <1>2 DEF DiscoverFailed
    <2>2. ~nm.mgr.syncing
      BY <1>2 DEF DiscoverFailed, IInv, B1Inv
    <2>3. /\ FellBack(nm) \in Call
          /\ FellBack(nm).pc = "fetch"
          /\ FellBack(nm).mgr.syncing = nm.mgr.syncing
          /\ FellBack(nm).mgr.current = nm.mgr.current
          /\ FellBack(nm).mgr.network = nm.mgr.network
      BY <1>t, FellBackType DEF FellBack, Call, Manager
    <2>4. /\ AfterDiscovery(FellBack(nm)).mgr.current = AfterDiscovery(FellBack(nm)).mgr.network
          /\ AfterDiscovery(FellBack(nm)).pc \in {"discover", "done"}
               => ~AfterDiscovery(FellBack(nm)).mgr.syncing
      BY <1>t, <2>2, <2>3, AfterDiscoveryB1
    <2>5. rev' = rev
      BY <1>2 DEF DiscoverFailed
    <2>6. QED
      BY <1>t, <2>1, <2>4, <2>5 DEF B1Inv
  <1>3. CASE FetchClientFail
    BY <1>3, <1>t DEF FetchClientFail, Fetching, ClientBuildFailed, B1Inv, Call
  <1>4. CASE FetchPeerOk
    BY <1>4, <1>t DEF FetchPeerOk, Fetching, PeerAnswered, B1Inv, Call
  <1>5. CASE FetchPeerFail
    BY <1>5, <1>t DEF FetchPeerFail, Fetching, PeerFailed, B1Inv, Call
  <1>6. CASE FetchExhausted
    BY <1>6, <1>t DEF FetchExhausted, Exhausted, NoPeerAnswered, B1Inv, Call
  <1>7. CASE Fold
    BY <1>7, <1>t, FoldB1 DEF Fold, B1Inv
  <1>8. CASE UNCHANGED vars
    BY <1>8, <1>t DEF vars, IInv, B1Inv
  <1>9. QED
    BY <1>1, <1>2, <1>3, <1>4, <1>5, <1>6, <1>7, <1>8 DEF Next

(***************************************************************************)
(* Bootstrap B1 never leaves the status bar "Synchronizing...": whatever   *)
(* set of start_sync() versions B1 runs with, and whatever discovery and   *)
(* the peers do, a returned bootstrap() has is_syncing false (start_sync() *)
(* clears the flag it set on each of its paths back, and its skip on an    *)
(* empty registry returns before setting it).                              *)
(***************************************************************************)
THEOREM B1EndsNotSyncing ==
  ASSUME Revisions \subseteq B1Revisions
  PROVE  Spec => []BootstrapEndsNotSyncing
  <1>1. IInv => BootstrapEndsNotSyncing
    BY DEF IInv, B1Inv, BootstrapEndsNotSyncing
  <1>2. QED
    BY <1>1, IInvInit, IInvStep, PTL DEF Spec

(***************************************************************************)
(* No torn heights under B1: for every instance, a returned bootstrap()    *)
(* has equal local and network block heights, whichever fold arm ran      *)
(* (both written together, both zeroed, or both left at new()'s 0).        *)
(***************************************************************************)
THEOREM B1HeightsAgree ==
  ASSUME Revisions \subseteq B1Revisions
  PROVE  Spec => []HeightsAgree
  <1>1. IInv => HeightsAgree
    BY DEF IInv, B1Inv, HeightsAgree
  <1>2. QED
    BY <1>1, IInvInit, IInvStep, PTL DEF Spec

=============================================================================

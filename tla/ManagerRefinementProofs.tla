----------------------- MODULE ManagerRefinementProofs -----------------------
(***************************************************************************)
(* Proofs that the step-by-step bootstrap() and refresh_blockchain_state() *)
(* of ManagerCaller implement the atomic calls of SyncManager (the safety  *)
(* part; that bootstrap() returns is checked by TLC), and that every       *)
(* bootstrap() returns one of BootstrapResults.                            *)
(***************************************************************************)
EXTENDS ManagerCallerProofs

USE ConstantsAssumption

(***************************************************************************)
(* While bootstrap() runs, the manager it works on differs from new() in   *)
(* its registry only: empty before discovery, a directory answer or the    *)
(* addnode list after it.  Only bootstrap() has a discovery step.          *)
(***************************************************************************)
BootShape ==
    /\ nm.pc = "discover" => nm.op = "bootstrap" /\ nm.mgr.peers = << >>
    /\ Booting =>
          /\ nm.mgr.syncing = FALSE /\ nm.mgr.progress = 0
          /\ nm.mgr.current = 0 /\ nm.mgr.network = 0
          /\ nm.pc \in {"fetch", "fold"} => nm.mgr.peers \in Registries

RInv == IInv /\ BootShape /\ BootstrapSummary

\* Two managers with the same fields are the same manager.
LEMMA ManagerExt ==
  ASSUME NEW m \in Manager, NEW n \in Manager,
         m.peers = n.peers, m.syncing = n.syncing, m.progress = n.progress,
         m.current = n.current, m.network = n.network
  PROVE  m = n
  BY DEF Manager

LEMMA RInvInit == Init => RInv
  <1> SUFFICES ASSUME Init PROVE RInv
    OBVIOUS
  <1>1. IInv
    BY IInvInit
  <1>2. nm.op = "bootstrap" /\ nm.pc = "discover" /\ nm.mgr = New
    BY DEF Init, BootstrapCall
  <1>3. QED
    BY <1>1, <1>2 DEF RInv, BootShape, Booting, BootstrapSummary, New

LEMMA BootedManagerType ==
  ASSUME NEW r \in Seq(Peers), NEW h \in HeightVals
  PROVE  BootedManager(r, h) \in Manager
  BY DEF BootedManager, Manager, Progress

\* The manager a bootstrap() returns when its fold runs on the manager
\* BootShape describes.
LEMMA BootFoldResult ==
  ASSUME NEW c \in Call, c.mgr.syncing = FALSE, c.mgr.progress = 0,
         c.mgr.peers \in Registries,
         c.res.ok => c.mgr.peers # << >>
  PROVE  /\ c.res.ok =>
              [mgr |-> BootstrapSynced(c).mgr, ret |-> BootstrapSynced(c).ret]
                \in BootstrapResults
         /\ ~c.res.ok =>
              [mgr |-> BootstrapHeightUnknown(c).mgr,
               ret |-> BootstrapHeightUnknown(c).ret] \in BootstrapResults
  <1>m. c.mgr \in Manager
    BY DEF Call
  <1>p. c.mgr.peers \in Seq(Peers)
    BY CallFields
  <1>1. ASSUME c.res.ok
        PROVE  [mgr |-> BootstrapSynced(c).mgr, ret |-> BootstrapSynced(c).ret]
                 \in BootstrapResults
    <2>0. c.res \in FetchResults
      BY CallFields
    <2>a. c.res # FetchErr
      BY <1>1 DEF FetchErr
    <2>1. c.res \in [ok : {TRUE}, height : Heights, from : Nat \ {0}]
      BY <2>0, <2>a DEF FetchResults
    <2> DEFINE r == c.mgr.peers
               h == c.res.height
    <2>2. h \in Heights /\ r \in Registries \ {<< >>}
      BY <1>1, <2>1
    <2>3. BootstrapSynced(c).mgr = BootedManager(r, h)
      <3>1. BootstrapSynced(c).mgr \in Manager
        BY BootstrapSyncedType DEF Call
      <3>2. BootedManager(r, h) \in Manager
        BY <1>p, <2>2, BootedManagerType DEF HeightVals
      <3>3. /\ BootstrapSynced(c).mgr.peers = r
            /\ BootstrapSynced(c).mgr.syncing = FALSE
            /\ BootstrapSynced(c).mgr.progress = 1
            /\ BootstrapSynced(c).mgr.current = h
            /\ BootstrapSynced(c).mgr.network = h
        BY <1>m DEF BootstrapSynced, Call, Manager
      <3>4. QED
        BY <3>1, <3>2, <3>3, ManagerExt DEF BootedManager
    <2>4. BootstrapSynced(c).ret = "ok"
      BY DEF BootstrapSynced
    <2>5. [mgr |-> BootedManager(r, h), ret |-> "ok"] \in BootstrapOk
      <3>1. \E rr \in Registries \ {<< >>}, hh \in Heights :
              [mgr |-> BootedManager(r, h), ret |-> "ok"]
                = [mgr |-> BootedManager(rr, hh), ret |-> "ok"]
        BY <2>2
      <3>2. QED
        BY <3>1 DEF BootstrapOk
    <2>6. QED
      BY <2>3, <2>4, <2>5 DEF BootstrapResults
  <1>2. ASSUME ~c.res.ok
        PROVE  [mgr |-> BootstrapHeightUnknown(c).mgr,
                ret |-> BootstrapHeightUnknown(c).ret] \in BootstrapResults
    <2> DEFINE r == c.mgr.peers
    <2>1. BootstrapHeightUnknown(c).mgr = BootedManager(r, 0)
      <3>1. BootstrapHeightUnknown(c).mgr \in Manager
        BY BootstrapHeightUnknownType DEF Call
      <3>2. BootedManager(r, 0) \in Manager
        BY <1>p, BootedManagerType DEF HeightVals
      <3>3. /\ BootstrapHeightUnknown(c).mgr.peers = r
            /\ BootstrapHeightUnknown(c).mgr.syncing = FALSE
            /\ BootstrapHeightUnknown(c).mgr.progress = 1
            /\ BootstrapHeightUnknown(c).mgr.current = 0
            /\ BootstrapHeightUnknown(c).mgr.network = 0
        BY <1>m DEF BootstrapHeightUnknown, Call, Manager
      <3>4. QED
        BY <3>1, <3>2, <3>3, ManagerExt DEF BootedManager
    <2>2. BootstrapHeightUnknown(c).ret = "ok"
      BY DEF BootstrapHeightUnknown
    <2>3. [mgr |-> BootedManager(r, 0), ret |-> "ok"] \in BootstrapOk
      BY DEF BootstrapOk
    <2>4. QED
      BY <2>1, <2>2, <2>3 DEF BootstrapResults
  <1>3. QED
    BY <1>1, <1>2

\* Replacing the registry leaves the other fields of the manager.
LEMMA SetPeersFields ==
  ASSUME NEW m \in Manager, NEW a
  PROVE  /\ [m EXCEPT !.peers = a].peers = a
         /\ [m EXCEPT !.peers = a].syncing = m.syncing
         /\ [m EXCEPT !.peers = a].progress = m.progress
         /\ [m EXCEPT !.peers = a].current = m.current
         /\ [m EXCEPT !.peers = a].network = m.network
  BY DEF Manager

\* Discovery replaces the registry of the call's manager and enters the loop.
LEMMA DiscoveryFields ==
  ASSUME NEW c \in Call, NEW a
  PROVE  /\ Discovered(c, a).mgr = [c.mgr EXCEPT !.peers = a]
         /\ Discovered(c, a).op = c.op /\ Discovered(c, a).pc = "fetch"
         /\ FellBack(c).mgr = [c.mgr EXCEPT !.peers = c.mgr.peers \o BootNodes]
         /\ FellBack(c).op = c.op /\ FellBack(c).pc = "fetch"
  BY DEF Discovered, FellBack, Call

\* A step of the chain-status loop keeps the manager and the operation and
\* stays before the return.
LEMMA LoopStepKeeps ==
  ASSUME RInv, nm.pc = "fetch", nm'.mgr = nm.mgr, nm'.op = nm.op,
         nm'.pc \in {"fetch", "fold"}
  PROVE  BootShape' /\ BootstrapSummary'
  BY DEF RInv, BootShape, Booting, BootstrapSummary

\* A step that leaves the call a refresh, or returns from one, is past
\* bootstrap() and out of reach of BootShape and BootstrapSummary.
LEMMA RefreshStepKeeps ==
  ASSUME nm'.op = "refresh", nm'.pc \in {"fetch", "done"}
  PROVE  BootShape' /\ BootstrapSummary'
  BY DEF BootShape, Booting, BootstrapSummary

LEMMA RInvNext == RInv /\ [Next]_vars => RInv'
<1> SUFFICES ASSUME RInv, [Next]_vars PROVE RInv'
  OBVIOUS
<1>0. IInv'
  BY IInvNext DEF RInv
<1> SUFFICES BootShape' /\ BootstrapSummary'
  BY <1>0 DEF RInv
<1>t. nm \in Call
  BY DEF RInv, IInv, TypeOK
<1>1. CASE DiscoverOk
  <2>1. PICK a \in DirAnswers : nm' = Discovered(nm, a)
    BY <1>1 DEF DiscoverOk
  <2>2. nm.op = "bootstrap" /\ nm.pc = "discover"
    BY <1>1 DEF DiscoverOk, RInv, BootShape
  <2>3. /\ nm'.op = "bootstrap" /\ nm'.pc = "fetch" /\ nm'.mgr.peers = a
        /\ nm'.mgr.syncing = nm.mgr.syncing /\ nm'.mgr.progress = nm.mgr.progress
        /\ nm'.mgr.current = nm.mgr.current /\ nm'.mgr.network = nm.mgr.network
    <3>1. nm.mgr \in Manager
      BY <1>t DEF Call
    <3> DEFINE n == [nm.mgr EXCEPT !.peers = a]
    <3>2. nm'.mgr = n /\ nm'.op = nm.op /\ nm'.pc = "fetch"
      BY <1>t, <2>1, DiscoveryFields, Zenon
    <3>3. /\ n.peers = a /\ n.syncing = nm.mgr.syncing
          /\ n.progress = nm.mgr.progress /\ n.current = nm.mgr.current
          /\ n.network = nm.mgr.network
      BY <3>1, SetPeersFields, Zenon
    <3>4. QED
      BY <2>2, <3>2, <3>3, Zenon
  <2>4. QED
    BY <2>2, <2>3 DEF RInv, BootShape, Booting, BootstrapSummary, Registries
<1>2. CASE DiscoverFailed
  <2>1. nm.op = "bootstrap" /\ nm.pc = "discover" /\ nm.mgr.peers = << >>
    BY <1>2 DEF DiscoverFailed, RInv, BootShape
  <2>2. << >> \o BootNodes = BootNodes
    BY DEF ConstantsAssumption
  <2>3. /\ nm'.op = "bootstrap" /\ nm'.pc = "fetch"
        /\ nm'.mgr.peers = nm.mgr.peers \o BootNodes
        /\ nm'.mgr.syncing = nm.mgr.syncing /\ nm'.mgr.progress = nm.mgr.progress
        /\ nm'.mgr.current = nm.mgr.current /\ nm'.mgr.network = nm.mgr.network
    <3>1. nm.mgr \in Manager
      BY <1>t DEF Call
    <3>2. nm' = FellBack(nm)
      BY <1>2 DEF DiscoverFailed
    <3> DEFINE n == [nm.mgr EXCEPT !.peers = nm.mgr.peers \o BootNodes]
    <3>3. nm'.mgr = n /\ nm'.op = nm.op /\ nm'.pc = "fetch"
      BY <1>t, <3>2, DiscoveryFields, Zenon
    <3>4. /\ n.peers = nm.mgr.peers \o BootNodes /\ n.syncing = nm.mgr.syncing
          /\ n.progress = nm.mgr.progress /\ n.current = nm.mgr.current
          /\ n.network = nm.mgr.network
      BY <3>1, SetPeersFields, Zenon
    <3>5. QED
      BY <2>1, <3>3, <3>4, Zenon
  <2>a. nm'.mgr.peers = BootNodes
    BY <2>1, <2>2, <2>3
  <2>4. QED
    BY <2>1, <2>3, <2>a DEF RInv, BootShape, Booting, BootstrapSummary, Registries
<1>3. CASE ConnectFailed
  <2>1. nm.op = "bootstrap" /\ nm.pc = "discover" /\ nm.mgr.peers = << >>
    BY <1>3 DEF ConnectFailed, RInv, BootShape
  <2>2. /\ nm.mgr.syncing = FALSE /\ nm.mgr.progress = 0
        /\ nm.mgr.current = 0 /\ nm.mgr.network = 0
    BY <2>1 DEF RInv, BootShape, Booting
  <2>3. nm.mgr = New
    BY <1>t, <2>1, <2>2, NewType, ManagerExt DEF Call, New
  <2>4. /\ nm'.op = "bootstrap" /\ nm'.pc = "done" /\ nm'.ret = "err"
        /\ nm'.mgr = nm.mgr
    BY <1>t, <1>3, <2>1 DEF ConnectFailed, FallbackFailed, Call
  <2>5. QED
    BY <2>3, <2>4 DEF BootShape, Booting, BootstrapSummary, BootstrapResults,
       BootstrapErr
<1>4. CASE FetchClientFail
  <2>1. nm'.mgr = nm.mgr /\ nm'.op = nm.op /\ nm'.pc = "fold"
    BY <1>t, <1>4 DEF FetchClientFail, ClientBuildFailed, Call
  <2>2. QED
    BY <1>4, <2>1, LoopStepKeeps DEF FetchClientFail, Fetching
<1>5. CASE FetchPeerOk
  <2>1. PICK h \in Heights : nm' = PeerAnswered(nm, h)
    BY <1>5 DEF FetchPeerOk
  <2>2. nm'.mgr = nm.mgr /\ nm'.op = nm.op /\ nm'.pc = "fold"
    BY <1>t, <2>1 DEF PeerAnswered, Call
  <2>3. QED
    BY <1>5, <2>2, LoopStepKeeps DEF FetchPeerOk, Fetching
<1>6. CASE FetchPeerFail
  <2>1. PICK o \in PeerFailures : nm' = PeerFailed(nm, o)
    BY <1>6 DEF FetchPeerFail
  <2>2. nm'.mgr = nm.mgr /\ nm'.op = nm.op /\ nm'.pc = "fetch"
    BY <1>t, <1>6, <2>1 DEF FetchPeerFail, Fetching, PeerFailed, Call
  <2>3. QED
    BY <1>6, <2>2, LoopStepKeeps DEF FetchPeerFail, Fetching
<1>7. CASE FetchExhausted
  <2>1. nm'.mgr = nm.mgr /\ nm'.op = nm.op /\ nm'.pc = "fold"
    BY <1>t, <1>7 DEF FetchExhausted, NoPeerAnswered, Call
  <2>2. QED
    BY <1>7, <2>1, LoopStepKeeps DEF FetchExhausted, Exhausted
<1>8. CASE FoldBootstrap
  <2>1. nm.op = "bootstrap" /\ nm.pc = "fold"
    BY <1>8 DEF FoldBootstrap
  <2>2. /\ nm.mgr.syncing = FALSE /\ nm.mgr.progress = 0
        /\ nm.mgr.peers \in Registries
    BY <2>1 DEF RInv, BootShape, Booting
  <2>3. nm.res.ok => nm.mgr.peers # << >>
    BY <2>1 DEF RInv, IInv, FirstSuccessWins
  <2>4. nm'.op = "bootstrap" /\ nm'.pc = "done"
    BY <1>t, <1>8 DEF FoldBootstrap, BootstrapSynced, BootstrapHeightUnknown, Call
  <2>5. [mgr |-> nm'.mgr, ret |-> nm'.ret] \in BootstrapResults
    <3>1. CASE nm.res.ok
      <4>1. nm' = BootstrapSynced(nm)
        BY <1>8, <3>1 DEF FoldBootstrap
      <4>2. QED
        BY <1>t, <2>2, <2>3, <3>1, <4>1, BootFoldResult
    <3>2. CASE ~nm.res.ok
      <4>1. nm' = BootstrapHeightUnknown(nm)
        BY <1>8, <3>2 DEF FoldBootstrap
      <4>2. QED
        BY <1>t, <2>2, <2>3, <3>2, <4>1, BootFoldResult
    <3>3. QED
      BY <3>1, <3>2
  <2>6. QED
    BY <2>4, <2>5 DEF BootShape, Booting, BootstrapSummary
<1>9. CASE StartRefresh
  <2>1. nm'.op = "refresh" /\ nm'.pc \in {"fetch", "done"}
    <3>1. RefreshCall(nm.mgr).op = "refresh" /\ RefreshCall(nm.mgr).pc = "fetch"
      BY DEF RefreshCall
    <3>2. RefreshNoPeers(nm.mgr).op = "refresh" /\ RefreshNoPeers(nm.mgr).pc = "done"
      BY <3>1 DEF RefreshNoPeers
    <3>3. QED
      BY <1>9, <3>1, <3>2 DEF StartRefresh
  <2>2. QED
    BY <2>1, RefreshStepKeeps
<1>10. CASE FoldRefresh
  <2>1. nm'.op = "refresh" /\ nm'.pc = "done"
    BY <1>t, <1>10 DEF FoldRefresh, RefreshUpdated, RefreshFailed, Call
  <2>2. QED
    BY <2>1, RefreshStepKeeps
<1>11. CASE UNCHANGED vars
  BY <1>11 DEF vars, RInv, BootShape, Booting, BootstrapSummary
<1>12. QED
  BY <1>1, <1>2, <1>3, <1>4, <1>5, <1>6, <1>7, <1>8, <1>9, <1>10, <1>11
     DEF Next, CallStep

(***************************************************************************)
(* Every bootstrap() that has returned has returned one of                  *)
(* BootstrapResults: Err with the manager untouched, or Ok with a registry *)
(* from discovery and the heights of the first peer to answer (or the 0    *)
(* sentinel), not syncing and sync_progress 1.0.                           *)
(***************************************************************************)
THEOREM BootstrapSummaryHolds == Spec => []BootstrapSummary
  <1>1. RInv => BootstrapSummary
    BY DEF RInv
  <1>2. QED
    BY RInvInit, RInvNext, <1>1, PTL DEF Spec

-----------------------------------------------------------------------------
(***************************************************************************)
(* Refinement.  Every step of ManagerCaller is a step of SyncManager or a  *)
(* stutter of it under AbsMgr and AbsPhase: the steps inside bootstrap()   *)
(* before its return, the loop steps of a refresh, the start of a refresh  *)
(* and the fold of a failed refresh leave the owner's view alone; the      *)
(* return of bootstrap() is SyncManager's Bootstrap, with the result       *)
(* BootstrapSummary names; the fold of a successful refresh is its Refresh *)
(* with the height the peer reported.                                      *)
(***************************************************************************)

\* A step that keeps the manager and the operation and neither starts nor
\* ends at the return is invisible to the owner.
LEMMA InnerStepStutters ==
  ASSUME nm'.mgr = nm.mgr, nm'.op = nm.op, nm.pc # "done", nm'.pc # "done"
  PROVE  UNCHANGED <<AbsMgr, AbsPhase>>
  BY DEF AbsMgr, AbsPhase, Booting

\* SyncManager's results of bootstrap() are those of NetworkManager.
LEMMA AbsResults == Abs!BootstrapResults = BootstrapResults
  BY DEF Abs!BootstrapResults, Abs!BootstrapOk, Abs!BootstrapErr, Abs!BootedManager,
         Abs!Registries, Abs!New, BootstrapResults, BootstrapOk, BootstrapErr,
         BootedManager, Registries, New

\* The return of bootstrap() is SyncManager's Bootstrap.
LEMMA ReturnIsBootstrap ==
  ASSUME Booting, nm'.op = "bootstrap", nm'.pc = "done", BootstrapSummary'
  PROVE  Abs!Bootstrap
  <1>1. [mgr |-> nm'.mgr, ret |-> nm'.ret] \in BootstrapResults
    BY DEF BootstrapSummary
  <1>2. AbsPhase = "booting" /\ AbsPhase' = "ready" /\ AbsMgr' = nm'.mgr
    BY DEF AbsPhase, AbsMgr, Booting
  <1>3. QED
    BY <1>1, <1>2, AbsResults DEF Abs!Bootstrap

\* The manager a successful refresh leaves is the SyncedAt of its manager.
LEMMA RefreshUpdatedSynced ==
  ASSUME NEW c \in Call
  PROVE  RefreshUpdated(c).mgr = Abs!SyncedAt(c.mgr, c.res.height)
  <1>m. c.mgr \in Manager
    BY DEF Call
  <1> DEFINE h == c.res.height
  <1>h. h \in HeightVals
    BY CallFields, ResHeightType
  <1>1. RefreshUpdated(c).mgr \in Manager
    BY RefreshUpdatedType DEF Call
  <1>2. Abs!SyncedAt(c.mgr, h) \in Manager
    BY <1>m, <1>h, FoldType DEF Abs!SyncedAt
  <1>3. /\ RefreshUpdated(c).mgr.peers = c.mgr.peers
        /\ RefreshUpdated(c).mgr.syncing = FALSE
        /\ RefreshUpdated(c).mgr.progress = 1
        /\ RefreshUpdated(c).mgr.current = h
        /\ RefreshUpdated(c).mgr.network = h
    BY <1>m, Zenon DEF RefreshUpdated, Call, Manager
  <1>4. /\ Abs!SyncedAt(c.mgr, h).peers = c.mgr.peers
        /\ Abs!SyncedAt(c.mgr, h).syncing = FALSE
        /\ Abs!SyncedAt(c.mgr, h).progress = 1
        /\ Abs!SyncedAt(c.mgr, h).current = h
        /\ Abs!SyncedAt(c.mgr, h).network = h
    BY <1>m, Zenon DEF Abs!SyncedAt, Manager
  <1>5. QED
    BY <1>1, <1>2, <1>3, <1>4, ManagerExt

LEMMA RefineStep == RInv /\ [Next]_vars => [Abs!Next]_<<AbsMgr, AbsPhase>>
<1> SUFFICES ASSUME RInv, [Next]_vars
             PROVE  Abs!Bootstrap \/ Abs!Refresh \/ UNCHANGED <<AbsMgr, AbsPhase>>
  BY DEF Abs!Next
<1>t. nm \in Call
  BY DEF RInv, IInv, TypeOK
<1>1. CASE DiscoverOk
  <2>1. PICK a \in DirAnswers : nm' = Discovered(nm, a)
    BY <1>1 DEF DiscoverOk
  <2>2. nm.op = "bootstrap" /\ nm.pc = "discover"
    BY <1>1 DEF DiscoverOk, RInv, BootShape
  <2>3. nm'.op = "bootstrap" /\ nm'.pc = "fetch"
    BY <1>t, <2>1, <2>2, DiscoveryFields, Zenon
  <2>4. QED
    BY <2>2, <2>3 DEF AbsMgr, AbsPhase, Booting
<1>2. CASE DiscoverFailed
  <2>1. nm.op = "bootstrap" /\ nm.pc = "discover"
    BY <1>2 DEF DiscoverFailed, RInv, BootShape
  <2>2. nm' = FellBack(nm)
    BY <1>2 DEF DiscoverFailed
  <2>3. nm'.op = "bootstrap" /\ nm'.pc = "fetch"
    BY <1>t, <2>1, <2>2, DiscoveryFields, Zenon
  <2>4. QED
    BY <2>1, <2>3 DEF AbsMgr, AbsPhase, Booting
<1>3. CASE ConnectFailed
  <2>1. nm.op = "bootstrap" /\ nm.pc = "discover"
    BY <1>3 DEF ConnectFailed, RInv, BootShape
  <2>2. nm'.op = "bootstrap" /\ nm'.pc = "done"
    BY <1>t, <1>3, <2>1 DEF ConnectFailed, FallbackFailed, Call
  <2>3. BootstrapSummary'
    BY RInvNext DEF RInv
  <2>4. QED
    BY <2>1, <2>2, <2>3, ReturnIsBootstrap DEF Booting
<1>4. CASE FetchClientFail
  <2>1. nm'.mgr = nm.mgr /\ nm'.op = nm.op /\ nm'.pc = "fold"
    BY <1>t, <1>4 DEF FetchClientFail, ClientBuildFailed, Call
  <2>2. QED
    BY <1>4, <2>1, InnerStepStutters DEF FetchClientFail, Fetching
<1>5. CASE FetchPeerOk
  <2>1. PICK h \in Heights : nm' = PeerAnswered(nm, h)
    BY <1>5 DEF FetchPeerOk
  <2>2. nm'.mgr = nm.mgr /\ nm'.op = nm.op /\ nm'.pc = "fold"
    BY <1>t, <2>1 DEF PeerAnswered, Call
  <2>3. QED
    BY <1>5, <2>2, InnerStepStutters DEF FetchPeerOk, Fetching
<1>6. CASE FetchPeerFail
  <2>1. PICK o \in PeerFailures : nm' = PeerFailed(nm, o)
    BY <1>6 DEF FetchPeerFail
  <2>2. nm'.mgr = nm.mgr /\ nm'.op = nm.op /\ nm'.pc = "fetch"
    BY <1>t, <1>6, <2>1 DEF FetchPeerFail, Fetching, PeerFailed, Call
  <2>3. QED
    BY <1>6, <2>2, InnerStepStutters DEF FetchPeerFail, Fetching
<1>7. CASE FetchExhausted
  <2>1. nm'.mgr = nm.mgr /\ nm'.op = nm.op /\ nm'.pc = "fold"
    BY <1>t, <1>7 DEF FetchExhausted, NoPeerAnswered, Call
  <2>2. QED
    BY <1>7, <2>1, InnerStepStutters DEF FetchExhausted, Exhausted
<1>8. CASE FoldBootstrap
  <2>1. nm.op = "bootstrap" /\ nm.pc = "fold"
    BY <1>8 DEF FoldBootstrap
  <2>2. nm'.op = "bootstrap" /\ nm'.pc = "done"
    BY <1>t, <1>8 DEF FoldBootstrap, BootstrapSynced, BootstrapHeightUnknown, Call
  <2>3. BootstrapSummary'
    BY RInvNext DEF RInv
  <2>4. QED
    BY <2>1, <2>2, <2>3, ReturnIsBootstrap DEF Booting
<1>9. CASE StartRefresh
  <2>1. nm.pc = "done"
    BY <1>9 DEF StartRefresh
  <2>2. nm'.op = "refresh" /\ nm'.mgr = nm.mgr
    <3>1. RefreshCall(nm.mgr).op = "refresh" /\ RefreshCall(nm.mgr).mgr = nm.mgr
      BY DEF RefreshCall
    <3>2. RefreshNoPeers(nm.mgr).op = "refresh" /\ RefreshNoPeers(nm.mgr).mgr = nm.mgr
      BY <3>1 DEF RefreshNoPeers
    <3>3. QED
      BY <1>9, <3>1, <3>2 DEF StartRefresh
  <2>3. QED
    BY <2>1, <2>2 DEF AbsMgr, AbsPhase, Booting
<1>10. CASE FoldRefresh
  <2>1. nm.op = "refresh" /\ nm.pc = "fold"
    BY <1>10 DEF FoldRefresh
  <2>2. AbsPhase = "ready" /\ AbsMgr = nm.mgr
    BY <2>1 DEF AbsMgr, AbsPhase, Booting
  <2>3. nm'.op = "refresh" /\ nm'.pc = "done"
    BY <1>t, <1>10 DEF FoldRefresh, RefreshUpdated, RefreshFailed, Call
  <2>4. AbsPhase' = "ready" /\ AbsMgr' = nm'.mgr
    BY <2>3 DEF AbsMgr, AbsPhase, Booting
  <2>5. CASE nm.res.ok
    <3>1. nm' = RefreshUpdated(nm)
      BY <1>10, <2>5 DEF FoldRefresh
    <3>2. nm.mgr.peers # << >>
      BY <2>1, <2>5 DEF RInv, IInv, FirstSuccessWins
    <3>3. nm.res.height \in Heights
      <4>1. nm.res \in FetchResults
        BY <1>t, CallFields
      <4>2. nm.res # FetchErr
        BY <2>5 DEF FetchErr
      <4>3. QED
        BY <4>1, <4>2 DEF FetchResults
    <3>4. nm'.mgr = Abs!SyncedAt(nm.mgr, nm.res.height)
      BY <1>t, <3>1, RefreshUpdatedSynced
    <3>5. QED
      BY <2>2, <2>4, <3>2, <3>3, <3>4 DEF Abs!Refresh
  <2>6. CASE ~nm.res.ok
    <3>1. nm'.mgr = nm.mgr
      BY <1>t, <1>10, <2>6 DEF FoldRefresh, RefreshFailed, Call
    <3>2. QED
      BY <2>2, <2>4, <3>1
  <2>7. QED
    BY <2>5, <2>6
<1>11. CASE UNCHANGED vars
  BY <1>11 DEF vars, AbsMgr, AbsPhase, Booting
<1>12. QED
  BY <1>1, <1>2, <1>3, <1>4, <1>5, <1>6, <1>7, <1>8, <1>9, <1>10, <1>11
     DEF Next, CallStep

(***************************************************************************)
(* The safety part of ImplementsSyncManager, for every value of the        *)
(* constants: seen between calls, the manager starts as new(), becomes one *)
(* of BootstrapResults when bootstrap() returns, and after that changes    *)
(* only by a refresh that records a reported height in both fields, on a  *)
(* registry with a peer.                                                   *)
(***************************************************************************)
THEOREM RefinementHolds == Spec => Abs!SafetySpec
  <1>1. Init => Abs!Init
    BY DEF Init, BootstrapCall, Abs!Init, Abs!New, New, AbsMgr, AbsPhase, Booting
  <1>2. QED
    BY <1>1, RInvInit, RInvNext, RefineStep, PTL DEF Spec, Abs!SafetySpec, Abs!absvars

=============================================================================

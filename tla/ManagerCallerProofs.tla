------------------------- MODULE ManagerCallerProofs -------------------------
(***************************************************************************)
(* Proofs about one NetworkManager and its caller, for every peer set,     *)
(* addnode list, directory answers and height set allowed by              *)
(* ConstantsAssumption.                                                    *)
(***************************************************************************)
EXTENDS ManagerCaller, NetworkManagerLemmas, TLAPS

USE ConstantsAssumption

(***************************************************************************)
(* Type correctness: every state of the caller holds a well-formed call.   *)
(***************************************************************************)
LEMMA InitType == Init => TypeOK
  <1>1. BootstrapCall(New) \in Call
    BY NewType, FetchErrType, EmptyAskedType, OneType DEF BootstrapCall, Call
  <1>2. QED
    BY <1>1 DEF Init, TypeOK

LEMMA NextType == TypeOK /\ [Next]_vars => TypeOK'
<1> SUFFICES ASSUME TypeOK, [Next]_vars PROVE TypeOK'
  OBVIOUS
<1> USE DEF TypeOK
<1>1. CASE DiscoverOk
  BY <1>1, DiscoveredType DEF DiscoverOk
<1>2. CASE DiscoverFailed
  BY <1>2, FellBackType DEF DiscoverFailed
<1>3. CASE ConnectFailed
  BY <1>3, FallbackFailedType DEF ConnectFailed
<1>4. CASE FetchClientFail
  BY <1>4, ClientBuildFailedType DEF FetchClientFail
<1>5. CASE FetchPeerOk
  BY <1>5, PeerAnsweredType DEF FetchPeerOk
<1>6. CASE FetchPeerFail
  BY <1>6, PeerFailedType DEF FetchPeerFail
<1>7. CASE FetchExhausted
  BY <1>7, NoPeerAnsweredType DEF FetchExhausted
<1>8. CASE FoldBootstrap
  BY <1>8, BootstrapSyncedType, BootstrapHeightUnknownType DEF FoldBootstrap
<1>9. CASE StartRefresh
  <2>1. nm.mgr \in Manager
    BY DEF Call
  <2>2. QED
    BY <1>9, <2>1, RefreshCallType DEF StartRefresh
<1>10. CASE FoldRefresh
  BY <1>10, RefreshUpdatedType, RefreshFailedType DEF FoldRefresh
<1>11. CASE UNCHANGED vars
  BY <1>11 DEF vars
<1>12. QED
  BY <1>1, <1>2, <1>3, <1>4, <1>5, <1>6, <1>7, <1>8, <1>9, <1>10, <1>11
     DEF Next, CallStep

(***************************************************************************)
(* Every reachable call record is a Call: the registry is a sequence of    *)
(* peers, the heights are reported heights or the 0 sentinel, and the loop *)
(* index is a positive integer.                                            *)
(***************************************************************************)
THEOREM TypeCorrect == Spec => []TypeOK
  BY InitType, NextType, PTL DEF Spec

-----------------------------------------------------------------------------
(***************************************************************************)
(* First success wins, for every registry and every sequence of peer       *)
(* answers.                                                                *)
(***************************************************************************)
LEMMA CallFields ==
  ASSUME NEW c \in Call
  PROVE  /\ c.i \in Nat \ {0}
         /\ c.asked \in Seq(Outcomes)
         /\ c.mgr.peers \in Seq(Peers)
         /\ c.res \in FetchResults
  BY DEF Call, Manager

\* A fresh loop (i = 1, nothing asked) satisfies LoopInv and, not being at
\* the fold, FirstSuccessWins.
LEMMA FreshLoop ==
  ASSUME TypeOK', nm'.pc = "fetch", nm'.i = 1, nm'.asked = << >>
  PROVE  LoopInv' /\ FirstSuccessWins'
  <1>1. nm'.mgr.peers \in Seq(Peers)
    BY CallFields DEF TypeOK
  <1>2. QED
    BY <1>1 DEF LoopInv, FirstSuccessWins

\* A call that has returned satisfies LoopInv and FirstSuccessWins.
LEMMA Returned ==
  ASSUME nm'.pc = "done"
  PROVE  LoopInv' /\ FirstSuccessWins'
  BY DEF LoopInv, FirstSuccessWins

LEMMA IInvInit == Init => IInv
  <1> SUFFICES ASSUME Init PROVE IInv
    OBVIOUS
  <1>1. nm.pc = "discover"
    BY DEF Init, BootstrapCall
  <1>2. QED
    BY <1>1, InitType DEF IInv, LoopInv, FirstSuccessWins

LEMMA IInvNext == IInv /\ [Next]_vars => IInv'
<1> SUFFICES ASSUME IInv, [Next]_vars PROVE IInv'
  OBVIOUS
<1>0. TypeOK'
  BY NextType DEF IInv
<1> SUFFICES LoopInv' /\ FirstSuccessWins'
  BY <1>0 DEF IInv
<1>t. nm \in Call
  BY DEF IInv, TypeOK
<1>a. /\ nm.i \in Nat \ {0}
      /\ nm.asked \in Seq(Outcomes)
      /\ nm.mgr.peers \in Seq(Peers)
  BY CallFields DEF IInv, TypeOK
<1>1. CASE DiscoverOk
  <2>1. PICK a \in DirAnswers : nm' = Discovered(nm, a)
    BY <1>1 DEF DiscoverOk
  <2>2. nm'.pc = "fetch" /\ nm'.i = 1 /\ nm'.asked = << >>
    BY <1>t, <2>1 DEF Discovered, Call
  <2>3. QED
    BY <1>0, <2>2, FreshLoop
<1>2. CASE DiscoverFailed
  <2>1. nm'.pc = "fetch" /\ nm'.i = 1 /\ nm'.asked = << >>
    BY <1>t, <1>2 DEF DiscoverFailed, FellBack, Call
  <2>2. QED
    BY <1>0, <2>1, FreshLoop
<1>3. CASE ConnectFailed
  BY <1>t, <1>3, Returned DEF ConnectFailed, FallbackFailed, Call
<1>4. CASE FetchClientFail
  <2>1. /\ nm'.pc = "fold" /\ nm'.res = FetchErr /\ nm'.asked = nm.asked
    BY <1>t, <1>4 DEF FetchClientFail, ClientBuildFailed, Call
  <2>2. \A j \in 1..Len(nm.asked) : nm.asked[j] # "ok"
    BY <1>4 DEF FetchClientFail, Fetching, IInv, LoopInv
  <2>3. QED
    BY <2>1, <2>2 DEF LoopInv, FirstSuccessWins, FetchErr
<1>5. CASE FetchPeerOk
  <2>1. PICK h \in Heights : nm' = PeerAnswered(nm, h)
    BY <1>5 DEF FetchPeerOk
  <2>2. /\ nm'.pc = "fold" /\ nm'.res = FetchOk(h, nm.i)
        /\ nm'.asked = Append(nm.asked, "ok") /\ nm'.mgr = nm.mgr
    BY <1>t, <2>1 DEF PeerAnswered, Call
  <2>3. /\ nm.i <= Len(nm.mgr.peers)
        /\ Len(nm.asked) = nm.i - 1
        /\ \A j \in 1..Len(nm.asked) : nm.asked[j] # "ok"
    BY <1>5 DEF FetchPeerOk, Fetching, IInv, LoopInv
  <2>4. QED
    BY <1>a, <2>2, <2>3 DEF LoopInv, FirstSuccessWins, FetchOk
<1>6. CASE FetchPeerFail
  <2>1. PICK o \in PeerFailures : nm' = PeerFailed(nm, o)
    BY <1>6 DEF FetchPeerFail
  <2>2. /\ nm'.pc = "fetch" /\ nm'.i = nm.i + 1
        /\ nm'.asked = Append(nm.asked, o) /\ nm'.mgr = nm.mgr
    BY <1>t, <1>6, <2>1 DEF FetchPeerFail, Fetching, PeerFailed, Call
  <2>3. /\ nm.i <= Len(nm.mgr.peers)
        /\ Len(nm.asked) = nm.i - 1
        /\ \A j \in 1..Len(nm.asked) : nm.asked[j] # "ok"
    BY <1>6 DEF FetchPeerFail, Fetching, IInv, LoopInv
  <2>4. o # "ok"
    BY DEF PeerFailures
  <2>5. QED
    BY <1>a, <2>2, <2>3, <2>4 DEF LoopInv, FirstSuccessWins
<1>7. CASE FetchExhausted
  <2>1. /\ nm'.pc = "fold" /\ nm'.res = FetchErr /\ nm'.asked = nm.asked
    BY <1>t, <1>7 DEF FetchExhausted, NoPeerAnswered, Call
  <2>2. \A j \in 1..Len(nm.asked) : nm.asked[j] # "ok"
    BY <1>7 DEF FetchExhausted, Exhausted, IInv, LoopInv
  <2>3. QED
    BY <2>1, <2>2 DEF LoopInv, FirstSuccessWins, FetchErr
<1>8. CASE FoldBootstrap
  <2>1. nm'.pc = "done"
    BY <1>t, <1>8 DEF FoldBootstrap, BootstrapSynced, BootstrapHeightUnknown, Call
  <2>2. QED
    BY <2>1, Returned
<1>9. CASE StartRefresh
  <2>1. CASE nm.mgr.peers = << >>
    BY <1>9, <2>1, Returned DEF StartRefresh, RefreshNoPeers, RefreshCall
  <2>2. CASE nm.mgr.peers # << >>
    <3>1. nm'.pc = "fetch" /\ nm'.i = 1 /\ nm'.asked = << >>
      BY <1>9, <2>2 DEF StartRefresh, RefreshCall
    <3>2. QED
      BY <1>0, <3>1, FreshLoop
  <2>3. QED
    BY <2>1, <2>2
<1>10. CASE FoldRefresh
  <2>1. nm'.pc = "done"
    BY <1>t, <1>10 DEF FoldRefresh, RefreshUpdated, RefreshFailed, Call
  <2>2. QED
    BY <2>1, Returned
<1>11. CASE UNCHANGED vars
  <2>1. nm' = nm
    BY <1>11 DEF vars
  <2>2. QED
    BY <2>1 DEF IInv, LoopInv, FirstSuccessWins
<1>12. QED
  BY <1>1, <1>2, <1>3, <1>4, <1>5, <1>6, <1>7, <1>8, <1>9, <1>10, <1>11
     DEF Next, CallStep

(***************************************************************************)
(* fetch_blockchain_info returns the first good answer: in every state,    *)
(* a success handed to the fold comes from the only peer that answered    *)
(* well, the last one asked, and an Err from a loop where no peer did.     *)
(***************************************************************************)
THEOREM FirstSuccessWinsHolds == Spec => []FirstSuccessWins
  <1>1. IInv => FirstSuccessWins
    BY DEF IInv
  <1>2. QED
    BY IInvInit, IInvNext, <1>1, PTL DEF Spec

-----------------------------------------------------------------------------
(***************************************************************************)
(* The heights move only on a successful fold.  The fold of a failed       *)
(* bootstrap writes the 0 sentinel, which changes nothing because a        *)
(* bootstrap runs on NetworkManager::new(): until it returns, both heights *)
(* are still 0.                                                            *)
(***************************************************************************)
BootHeightsZero ==
    (nm.op = "bootstrap" /\ nm.pc # "done") =>
        nm.mgr.current = 0 /\ nm.mgr.network = 0

HInv == TypeOK /\ BootHeightsZero

\* The manager's fields after each step that is not a fold.
LEMMA SameHeights ==
  ASSUME NEW c \in Call
  PROVE  /\ \A a \in Seq(Peers) :
              /\ Discovered(c, a).mgr.current = c.mgr.current
              /\ Discovered(c, a).mgr.network = c.mgr.network
              /\ Discovered(c, a).op = c.op
         /\ FellBack(c).mgr.current = c.mgr.current
         /\ FellBack(c).mgr.network = c.mgr.network
         /\ FellBack(c).op = c.op
         /\ FallbackFailed(c).mgr = c.mgr
         /\ ClientBuildFailed(c).mgr = c.mgr /\ ClientBuildFailed(c).op = c.op
         /\ \A h \in Heights :
              PeerAnswered(c, h).mgr = c.mgr /\ PeerAnswered(c, h).op = c.op
         /\ \A o \in PeerFailures :
              PeerFailed(c, o).mgr = c.mgr /\ PeerFailed(c, o).op = c.op
         /\ NoPeerAnswered(c).mgr = c.mgr /\ NoPeerAnswered(c).op = c.op
         /\ RefreshFailed(c).mgr = c.mgr
  BY DEF Call, Manager, Discovered, FellBack, FallbackFailed, ClientBuildFailed,
         PeerAnswered, PeerFailed, NoPeerAnswered, RefreshFailed

LEMMA HInvInit == Init => HInv
  BY InitType DEF Init, HInv, BootHeightsZero, BootstrapCall, New

LEMMA HInvNext == HInv /\ [Next]_vars => HInv'
<1> SUFFICES ASSUME HInv, [Next]_vars PROVE HInv'
  OBVIOUS
<1>0. TypeOK'
  BY NextType DEF HInv
<1> SUFFICES BootHeightsZero'
  BY <1>0 DEF HInv
<1>t. nm \in Call
  BY DEF HInv, TypeOK
<1>z. BootHeightsZero
  BY DEF HInv
<1>1. CASE DiscoverOk
  BY <1>1, <1>t, <1>z, SameHeights DEF DiscoverOk, BootHeightsZero, ConstantsAssumption
<1>2. CASE DiscoverFailed
  BY <1>2, <1>t, <1>z, SameHeights DEF DiscoverFailed, BootHeightsZero
<1>3. CASE ConnectFailed
  BY <1>3, <1>t, <1>z, SameHeights DEF ConnectFailed, FallbackFailed, Call,
                                       BootHeightsZero
<1>4. CASE FetchClientFail
  BY <1>4, <1>t, <1>z, SameHeights DEF FetchClientFail, Fetching, BootHeightsZero
<1>5. CASE FetchPeerOk
  BY <1>5, <1>t, <1>z, SameHeights DEF FetchPeerOk, Fetching, BootHeightsZero
<1>6. CASE FetchPeerFail
  BY <1>6, <1>t, <1>z, SameHeights DEF FetchPeerFail, Fetching, BootHeightsZero
<1>7. CASE FetchExhausted
  BY <1>7, <1>t, <1>z, SameHeights DEF FetchExhausted, Exhausted, BootHeightsZero
<1>8. CASE FoldBootstrap
  <2>1. nm'.pc = "done"
    BY <1>8, <1>t DEF FoldBootstrap, BootstrapSynced, BootstrapHeightUnknown, Call
  <2>2. QED
    BY <2>1 DEF BootHeightsZero
<1>9. CASE StartRefresh
  <2>0. RefreshCall(nm.mgr).op = "refresh" /\ RefreshNoPeers(nm.mgr).op = "refresh"
    BY DEF RefreshNoPeers, RefreshCall
  <2>1. nm'.op = "refresh"
    BY <1>9, <2>0 DEF StartRefresh
  <2>2. QED
    BY <2>1 DEF BootHeightsZero
<1>10. CASE FoldRefresh
  BY <1>10, <1>t DEF FoldRefresh, RefreshUpdated, RefreshFailed, Call,
                     BootHeightsZero
<1>11. CASE UNCHANGED vars
  BY <1>11, <1>z DEF vars, BootHeightsZero
<1>12. QED
  BY <1>1, <1>2, <1>3, <1>4, <1>5, <1>6, <1>7, <1>8, <1>9, <1>10, <1>11
     DEF Next, CallStep

\* The manager's heights after each fold.
LEMMA FoldHeights ==
  ASSUME NEW c \in Call
  PROVE  /\ BootstrapSynced(c).mgr.current = c.res.height
         /\ BootstrapSynced(c).mgr.network = c.res.height
         /\ BootstrapHeightUnknown(c).mgr.current = 0
         /\ BootstrapHeightUnknown(c).mgr.network = 0
         /\ RefreshUpdated(c).mgr.current = c.res.height
         /\ RefreshUpdated(c).mgr.network = c.res.height
  <1>1. c.mgr \in Manager
    BY DEF Call
  <1>2. QED
    BY <1>1 DEF Call, Manager, BootstrapSynced, BootstrapHeightUnknown, RefreshUpdated

LEMMA HeightStep == HInv /\ [Next]_vars => [HeightFromAnswer]_vars
<1> SUFFICES ASSUME HInv, [Next]_vars PROVE [HeightFromAnswer]_vars
  OBVIOUS
<1>t. nm \in Call
  BY DEF HInv, TypeOK
<1>m. nm.mgr \in Manager
  BY <1>t DEF Call
\* A step that leaves both heights alone satisfies HeightFromAnswer.
<1>s. ASSUME nm'.mgr.current = nm.mgr.current, nm'.mgr.network = nm.mgr.network
      PROVE  [HeightFromAnswer]_vars
  BY <1>s DEF HeightFromAnswer
<1>1. CASE DiscoverOk
  BY <1>1, <1>s, <1>t, SameHeights DEF DiscoverOk, ConstantsAssumption
<1>2. CASE DiscoverFailed
  BY <1>2, <1>s, <1>t, SameHeights DEF DiscoverFailed
<1>3. CASE ConnectFailed
  BY <1>3, <1>s, <1>t, SameHeights DEF ConnectFailed
<1>4. CASE FetchClientFail
  BY <1>4, <1>s, <1>t, SameHeights DEF FetchClientFail
<1>5. CASE FetchPeerOk
  BY <1>5, <1>s, <1>t, SameHeights DEF FetchPeerOk
<1>6. CASE FetchPeerFail
  BY <1>6, <1>s, <1>t, SameHeights DEF FetchPeerFail
<1>7. CASE FetchExhausted
  BY <1>7, <1>s, <1>t, SameHeights DEF FetchExhausted
<1>8. CASE FoldBootstrap
  <2>1. CASE nm.res.ok
    <3>1. /\ nm'.mgr.current = nm.res.height /\ nm'.mgr.network = nm.res.height
      BY <1>8, <2>1, <1>t, FoldHeights DEF FoldBootstrap
    <3>2. QED
      BY <1>8, <2>1, <3>1 DEF FoldBootstrap, HeightFromAnswer
  <2>2. CASE ~nm.res.ok
    <3>1. nm.mgr.current = 0 /\ nm.mgr.network = 0
      BY <1>8 DEF FoldBootstrap, HInv, BootHeightsZero
    <3>2. nm'.mgr.current = 0 /\ nm'.mgr.network = 0
      BY <1>8, <2>2, <1>t, FoldHeights DEF FoldBootstrap
    <3>3. QED
      BY <3>1, <3>2, <1>s
  <2>3. QED
    BY <2>1, <2>2
<1>9. CASE StartRefresh
  <2>1. RefreshCall(nm.mgr).mgr = nm.mgr /\ RefreshNoPeers(nm.mgr).mgr = nm.mgr
    BY DEF RefreshNoPeers, RefreshCall
  <2>2. QED
    BY <1>9, <2>1, <1>s DEF StartRefresh
<1>10. CASE FoldRefresh
  <2>1. CASE nm.res.ok
    <3>1. /\ nm'.mgr.current = nm.res.height /\ nm'.mgr.network = nm.res.height
      BY <1>10, <2>1, <1>t, FoldHeights DEF FoldRefresh
    <3>2. QED
      BY <1>10, <2>1, <3>1 DEF FoldRefresh, HeightFromAnswer
  <2>2. CASE ~nm.res.ok
    BY <1>10, <2>2, <1>s, <1>t, SameHeights DEF FoldRefresh
  <2>3. QED
    BY <2>1, <2>2
<1>11. CASE UNCHANGED vars
  BY <1>11 DEF vars
<1>12. QED
  BY <1>1, <1>2, <1>3, <1>4, <1>5, <1>6, <1>7, <1>8, <1>9, <1>10, <1>11
     DEF Next, CallStep

(***************************************************************************)
(* No step of bootstrap() or refresh_blockchain_state() moves              *)
(* current_block_height or network_block_height, except the fold of a      *)
(* successful chain-status fetch, which sets both to the reported height;  *)
(* in particular a failed refresh keeps the heights it found.              *)
(***************************************************************************)
THEOREM HeightOnlyFromAnswerHolds == Spec => HeightOnlyFromAnswer
  <1>1. Spec => []HInv
    BY HInvInit, HInvNext, PTL DEF Spec
  <1>2. QED
    BY <1>1, HeightStep, PTL DEF Spec, HeightOnlyFromAnswer

=============================================================================

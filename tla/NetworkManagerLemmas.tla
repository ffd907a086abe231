------------------------- MODULE NetworkManagerLemmas -------------------------
(***************************************************************************)
(* Facts about NetworkManager's data and the operators its calls are made  *)
(* of, for every peer set, addnode list, directory answers and height set *)
(* allowed by ConstantsAssumption: each step of bootstrap() and            *)
(* refresh_blockchain_state() takes a Call to a Call.  The proofs of the   *)
(* callers (ManagerCaller, EarlyBootstrap) cite them.                      *)
(***************************************************************************)
EXTENDS NetworkManager, TLAPS

USE ConstantsAssumption

(***************************************************************************)
(* The manager updates the steps make keep a Manager: NetworkManager::new, *)
(* replacing the registry, and folding a chain status (or the 0 sentinel). *)
(***************************************************************************)
LEMMA NewType == New \in Manager
  BY DEF New, Manager, Progress, HeightVals

LEMMA SetPeersType ==
  ASSUME NEW m \in Manager, NEW a \in Seq(Peers)
  PROVE  [m EXCEPT !.peers = a] \in Manager
  BY DEF Manager

LEMMA FoldType ==
  ASSUME NEW m \in Manager, NEW h \in HeightVals
  PROVE  [m EXCEPT !.current = h, !.network = h, !.syncing = FALSE, !.progress = 1]
           \in Manager
  BY DEF Manager, Progress

LEMMA FetchErrType == FetchErr \in FetchResults
  BY DEF FetchErr, FetchResults

LEMMA ResHeightType ==
  ASSUME NEW r \in FetchResults
  PROVE  r.height \in HeightVals
  <1>1. CASE r = FetchErr
    BY <1>1 DEF FetchErr, HeightVals
  <1>2. CASE r \in [ok : {TRUE}, height : Heights, from : Nat \ {0}]
    BY <1>2 DEF HeightVals
  <1>3. QED
    BY <1>1, <1>2 DEF FetchResults

LEMMA EmptyAskedType == << >> \in Seq(Outcomes)
  OBVIOUS

LEMMA AppendAskedType ==
  ASSUME NEW s \in Seq(Outcomes), NEW o \in Outcomes
  PROVE  Append(s, o) \in Seq(Outcomes)
  OBVIOUS

(***************************************************************************)
(* Updating one field of a Call with a value of that field's type leaves  *)
(* a Call; the steps below are chains of such updates.                     *)
(***************************************************************************)
LEMMA SetMgr ==
  ASSUME NEW c \in Call, NEW v \in Manager PROVE [c EXCEPT !.mgr = v] \in Call
  BY DEF Call

LEMMA SetPc ==
  ASSUME NEW c \in Call, NEW v \in {"discover", "fetch", "fold", "done"}
  PROVE  [c EXCEPT !.pc = v] \in Call
  BY DEF Call

LEMMA SetI ==
  ASSUME NEW c \in Call, NEW v \in Nat \ {0} PROVE [c EXCEPT !.i = v] \in Call
  BY DEF Call

LEMMA SetRes ==
  ASSUME NEW c \in Call, NEW v \in FetchResults PROVE [c EXCEPT !.res = v] \in Call
  BY DEF Call

LEMMA SetAsked ==
  ASSUME NEW c \in Call, NEW v \in Seq(Outcomes) PROVE [c EXCEPT !.asked = v] \in Call
  BY DEF Call

LEMMA SetRet ==
  ASSUME NEW c \in Call, NEW v \in {"pending", "ok", "err"}
  PROVE  [c EXCEPT !.ret = v] \in Call
  BY DEF Call

LEMMA OneType == 1 \in Nat \ {0}
  OBVIOUS

(***************************************************************************)
(* Each step of bootstrap() and refresh_blockchain_state() takes a Call to *)
(* a Call.                                                                 *)
(***************************************************************************)
LEMMA DiscoveredType ==
  ASSUME NEW c \in Call, NEW a \in DirAnswers
  PROVE  Discovered(c, a) \in Call
  <1>1. [c EXCEPT !.mgr.peers = a] \in Call
    BY SetPeersType, SetMgr DEF Call
  <1>2. [[c EXCEPT !.mgr.peers = a] EXCEPT !.pc = "fetch"] \in Call
    BY <1>1, SetPc
  <1>3. [[[c EXCEPT !.mgr.peers = a] EXCEPT !.pc = "fetch"] EXCEPT !.i = 1] \in Call
    BY <1>2, OneType, SetI
  <1>4. [[[[c EXCEPT !.mgr.peers = a] EXCEPT !.pc = "fetch"] EXCEPT !.i = 1]
           EXCEPT !.asked = << >>] \in Call
    BY <1>3, EmptyAskedType, SetAsked
  <1>5. QED
    BY <1>4 DEF Discovered

LEMMA FellBackType ==
  ASSUME NEW c \in Call
  PROVE  FellBack(c) \in Call
  <1> DEFINE b == c.mgr.peers \o BootNodes
  <1>0. c.mgr.peers \in Seq(Peers)
    BY DEF Call, Manager
  <1>a. b \in Seq(Peers)
    BY <1>0
  <1>b. [c.mgr EXCEPT !.peers = b] \in Manager
    BY <1>a, SetPeersType DEF Call
  <1>1. [c EXCEPT !.mgr.peers = b] \in Call
    BY <1>b, SetMgr
  <1>2. [[c EXCEPT !.mgr.peers = b] EXCEPT !.pc = "fetch"] \in Call
    BY <1>1, SetPc
  <1>3. [[[c EXCEPT !.mgr.peers = b] EXCEPT !.pc = "fetch"] EXCEPT !.i = 1] \in Call
    BY <1>2, OneType, SetI
  <1>4. [[[[c EXCEPT !.mgr.peers = b] EXCEPT !.pc = "fetch"] EXCEPT !.i = 1]
           EXCEPT !.asked = << >>] \in Call
    BY <1>3, EmptyAskedType, SetAsked
  <1>5. QED
    BY <1>4 DEF FellBack

LEMMA FallbackFailedType ==
  ASSUME NEW c \in Call
  PROVE  FallbackFailed(c) \in Call
  BY DEF FallbackFailed, Call

LEMMA ClientBuildFailedType ==
  ASSUME NEW c \in Call
  PROVE  ClientBuildFailed(c) \in Call
  BY FetchErrType DEF ClientBuildFailed, Call

LEMMA PeerAnsweredType ==
  ASSUME NEW c \in Call, NEW h \in Heights
  PROVE  PeerAnswered(c, h) \in Call
  <1>1. [c EXCEPT !.res = FetchOk(h, c.i)] \in Call
    <2>1. FetchOk(h, c.i) \in FetchResults
      BY DEF FetchOk, FetchResults, Call
    <2>2. QED
      BY <2>1, SetRes
  <1>2. [[c EXCEPT !.res = FetchOk(h, c.i)] EXCEPT !.pc = "fold"] \in Call
    BY <1>1, SetPc
  <1>3. Append(c.asked, "ok") \in Seq(Outcomes)
    BY AppendAskedType DEF Call, Outcomes
  <1>4. [[[c EXCEPT !.res = FetchOk(h, c.i)] EXCEPT !.pc = "fold"]
           EXCEPT !.asked = Append(c.asked, "ok")] \in Call
    BY <1>2, <1>3, SetAsked
  <1>5. QED
    BY <1>4 DEF PeerAnswered

LEMMA PeerFailedType ==
  ASSUME NEW c \in Call, NEW o \in PeerFailures
  PROVE  PeerFailed(c, o) \in Call
  <1>1. [c EXCEPT !.i = c.i + 1] \in Call
    <2>1. c.i + 1 \in Nat \ {0}
      BY DEF Call
    <2>2. QED
      BY <2>1, SetI
  <1>2. Append(c.asked, o) \in Seq(Outcomes)
    BY AppendAskedType DEF Call, Outcomes, PeerFailures
  <1>3. [[c EXCEPT !.i = c.i + 1] EXCEPT !.asked = Append(c.asked, o)] \in Call
    BY <1>1, <1>2, SetAsked
  <1>4. QED
    BY <1>3 DEF PeerFailed

LEMMA NoPeerAnsweredType ==
  ASSUME NEW c \in Call
  PROVE  NoPeerAnswered(c) \in Call
  BY FetchErrType DEF NoPeerAnswered, Call

LEMMA BootstrapSyncedType ==
  ASSUME NEW c \in Call
  PROVE  BootstrapSynced(c) \in Call
  <1>1. [c.mgr EXCEPT !.current = c.res.height, !.network = c.res.height,
                      !.syncing = FALSE, !.progress = 1] \in Manager
    BY ResHeightType, FoldType DEF Call
  <1>2. QED
    BY <1>1 DEF BootstrapSynced, Call

LEMMA BootstrapHeightUnknownType ==
  ASSUME NEW c \in Call
  PROVE  BootstrapHeightUnknown(c) \in Call
  <1>1. [c.mgr EXCEPT !.current = 0, !.network = 0,
                      !.syncing = FALSE, !.progress = 1] \in Manager
    BY FoldType DEF Call, HeightVals
  <1>2. QED
    BY <1>1 DEF BootstrapHeightUnknown, Call

LEMMA RefreshCallType ==
  ASSUME NEW m \in Manager
  PROVE  /\ RefreshCall(m) \in Call
         /\ RefreshNoPeers(m) \in Call
  <1>1. RefreshCall(m) \in Call
    BY FetchErrType DEF RefreshCall, Call
  <1>2. QED
    BY <1>1 DEF RefreshNoPeers, Call

LEMMA RefreshUpdatedType ==
  ASSUME NEW c \in Call
  PROVE  RefreshUpdated(c) \in Call
  <1>1. [c.mgr EXCEPT !.network = c.res.height, !.current = c.res.height,
                      !.syncing = FALSE, !.progress = 1] \in Manager
    BY ResHeightType DEF Call, Manager, Progress
  <1>2. QED
    BY <1>1 DEF RefreshUpdated, Call

LEMMA RefreshFailedType ==
  ASSUME NEW c \in Call
  PROVE  RefreshFailed(c) \in Call
  BY DEF RefreshFailed, Call

=============================================================================

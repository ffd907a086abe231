---------------------------- MODULE ManagerCaller ----------------------------
(***************************************************************************)
(* One NetworkManager and the caller that owns it: NetworkManager::new(),  *)
(* bootstrap(addnode), then refresh_blockchain_state() whenever the caller *)
(* likes, one call at a time (the methods take &mut self).  The variable   *)
(* nm is the in-flight call: the manager and the locals of the call.       *)
(***************************************************************************)
EXTENDS NetworkManager

VARIABLE nm

vars == <<nm>>

Init == nm = BootstrapCall(New)

DiscoverOk ==
    /\ nm.pc = "discover"
    /\ \E ans \in DirAnswers : nm' = Discovered(nm, ans)

DiscoverFailed ==
    /\ nm.pc = "discover"
    /\ nm' = FellBack(nm)

ConnectFailed ==
    /\ nm.pc = "discover"
    /\ nm' = FallbackFailed(nm)

FetchClientFail ==
    /\ Fetching(nm)
    /\ nm' = ClientBuildFailed(nm)

FetchPeerOk ==
    /\ Fetching(nm)
    /\ \E h \in Heights : nm' = PeerAnswered(nm, h)

FetchPeerFail ==
    /\ Fetching(nm)
    /\ \E o \in PeerFailures : nm' = PeerFailed(nm, o)

FetchExhausted ==
    /\ Exhausted(nm)
    /\ nm' = NoPeerAnswered(nm)

FoldBootstrap ==
    /\ nm.pc = "fold"
    /\ nm.op = "bootstrap"
    /\ \/ nm.res.ok /\ nm' = BootstrapSynced(nm)
       \/ ~nm.res.ok /\ nm' = BootstrapHeightUnknown(nm)

\* The caller starts refresh_blockchain_state() once the previous call has
\* returned.
StartRefresh ==
    /\ nm.pc = "done"
    /\ \/ nm.mgr.peers = << >> /\ nm' = RefreshNoPeers(nm.mgr)
       \/ nm.mgr.peers # << >> /\ nm' = RefreshCall(nm.mgr)

FoldRefresh ==
    /\ nm.pc = "fold"
    /\ nm.op = "refresh"
    /\ \/ nm.res.ok /\ nm' = RefreshUpdated(nm)
       \/ ~nm.res.ok /\ nm' = RefreshFailed(nm)

\* The steps of an in-flight call, each ending at an await or a return.
CallStep ==
    \/ DiscoverOk \/ DiscoverFailed \/ ConnectFailed
    \/ FetchClientFail \/ FetchPeerOk \/ FetchPeerFail \/ FetchExhausted
    \/ FoldBootstrap \/ FoldRefresh

Next == CallStep \/ StartRefresh

\* The tokio task that runs the call is not starved, and every request
\* returns within the client's 5 s timeout: a started call keeps stepping.
\* Starting a refresh is the caller's choice and gets no fairness.
Spec == Init /\ [][Next]_vars /\ WF_vars(CallStep)

-----------------------------------------------------------------------------
TypeOK == nm \in Call

(***************************************************************************)
(* What bootstrap() returns is one of BootstrapResults, the summary the    *)
(* application model runs in place of the step-by-step call.               *)
(***************************************************************************)
BootstrapSummary ==
    (nm.op = "bootstrap" /\ nm.pc = "done") =>
        [mgr |-> nm.mgr, ret |-> nm.ret] \in BootstrapResults

(***************************************************************************)
(* First success wins (fetch_blockchain_info's early return): when the     *)
(* loop hands a ChainStatus to the fold, it came from the first peer of    *)
(* the registry that answered well in this call, every peer before it was  *)
(* asked and failed, and no peer after it was asked; when the loop hands   *)
(* Err to the fold, no peer it asked answered well.                        *)
(***************************************************************************)
FirstSuccessWins ==
    nm.pc = "fold" =>
        /\ nm.res.ok => /\ nm.res.from = Len(nm.asked)
                        /\ nm.mgr.peers # << >>
                        /\ \A j \in 1..Len(nm.asked) :
                               (nm.asked[j] = "ok") <=> (j = nm.res.from)
        /\ ~nm.res.ok => \A j \in 1..Len(nm.asked) : nm.asked[j] # "ok"

(***************************************************************************)
(* The block height shown by the manager only ever changes to the height a *)
(* peer has just reported: no step of bootstrap() or of                    *)
(* refresh_blockchain_state() moves current_block_height or                *)
(* network_block_height except the fold of a successful fetch, and that   *)
(* fold sets both to the answer's height.  In particular a failed refresh  *)
(* leaves the heights it found.                                            *)
(***************************************************************************)
HeightFromAnswer ==
    (nm'.mgr.current # nm.mgr.current \/ nm'.mgr.network # nm.mgr.network)
        => /\ nm.pc = "fold" /\ nm.res.ok
           /\ nm'.mgr.current = nm.res.height
           /\ nm'.mgr.network = nm.res.height

HeightOnlyFromAnswer == [][HeightFromAnswer]_vars

(***************************************************************************)
(* Every call returns: bootstrap() and refresh_blockchain_state() reach    *)
(* their return whatever the peers do, because the loop advances past     *)
(* every failing peer and each request is bounded by the client timeout.   *)
(***************************************************************************)
CallReturns == (nm.pc # "done") ~> (nm.pc = "done")

(***************************************************************************)
(* The inductive strengthening of FirstSuccessWins: while the loop runs,   *)
(* it has asked exactly the peers before position i, none of them well;    *)
(* when it hands a success to the fold, that position is within the        *)
(* registry.                                                               *)
(***************************************************************************)
LoopInv ==
    /\ nm.pc = "fetch" =>
          /\ nm.i <= Len(nm.mgr.peers) + 1
          /\ Len(nm.asked) = nm.i - 1
          /\ \A j \in 1..Len(nm.asked) : nm.asked[j] # "ok"
    /\ (nm.pc = "fold" /\ nm.res.ok) => Len(nm.asked) <= Len(nm.mgr.peers)

IInv == TypeOK /\ LoopInv /\ FirstSuccessWins

(***************************************************************************)
(* Refinement.  The owner of the manager sees it only between calls: while *)
(* bootstrap() runs, it works on a temporary the owner cannot reach (the   *)
(* task's temp_net), so the owner still sees NetworkManager::new(); while  *)
(* a refresh runs, it writes nothing until its fold.                       *)
(***************************************************************************)
Booting == nm.op = "bootstrap" /\ nm.pc # "done"

AbsMgr == IF Booting THEN New ELSE nm.mgr

AbsPhase == IF Booting THEN "booting" ELSE "ready"

Abs == INSTANCE SyncManager WITH mgr <- AbsMgr, phase <- AbsPhase

(***************************************************************************)
(* The step-by-step bootstrap() and refresh_blockchain_state() implement   *)
(* the atomic calls of SyncManager: seen between calls, the manager only   *)
(* ever goes from new() to a bootstrap result, and then only by a refresh  *)
(* that records a reported height in both fields and marks it synced; the  *)
(* registry never changes after bootstrap; and bootstrap() returns.        *)
(***************************************************************************)
ImplementsSyncManager == Abs!Spec

(***************************************************************************)
(* The spec (4.2, 7) says a failure at any one peer is never fatal to the  *)
(* chain-status fetch: it fails only once every peer of the registry has   *)
(* been tried.  fetch_blockchain_info() builds its HTTP client inside the  *)
(* loop with `?`, so a client build error ends the loop early.             *)
(***************************************************************************)
ErrOnlyAfterAllPeers ==
    (nm.pc = "fold" /\ ~nm.res.ok) => Len(nm.asked) = Len(nm.mgr.peers)

(***************************************************************************)
(* The spec (4.3) says that when the chain-status fetch of bootstrap()     *)
(* fails, is_syncing becomes false and sync_progress is held at its prior  *)
(* value.  bootstrap()'s Err arm sets sync_progress = 1.0.                 *)
(***************************************************************************)
FailedBootstrapHoldsProgress ==
    [][ (nm.op = "bootstrap" /\ nm.pc = "fold" /\ ~nm.res.ok)
          => nm'.mgr.progress = nm.mgr.progress ]_vars

=============================================================================

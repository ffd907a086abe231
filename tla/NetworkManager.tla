--------------------------- MODULE NetworkManager ---------------------------
(***************************************************************************)
(* The wallet's NetworkManager (src/network.rs of the wallet GUI, whose     *)
(* Rust text is carried by the patch scripts under src/wallet-gui/).       *)
(*                                                                         *)
(* The struct holds the peer registry (connected_peers) and the sync       *)
(* fields.  Its two async methods, bootstrap() and                         *)
(* refresh_blockchain_state(), suspend at every network request; the       *)
(* chain-status loop fetch_blockchain_info() tries the registry in order   *)
(* and returns the first peer answer that is 2xx and parses.               *)
(*                                                                         *)
(* An in-flight call is a record Call: the manager it mutates (mgr), the   *)
(* await point it is at (pc), the loop index of fetch_blockchain_info (i), *)
(* the loop's result (res) and the value the call returns (ret).  The      *)
(* steps are operators from Call to Call; ManagerCaller runs them for one  *)
(* manager and one caller, and WalletApp uses their summary,               *)
(* BootstrapResults, for the bootstrap() of each background task.          *)
(***************************************************************************)
EXTENDS Naturals, Sequences

CONSTANTS
    Peers,       \* peer addresses ("host:port" strings), as model values
    BootNodes,   \* config.addnode: the static fallback list, in file order
    DirAnswers,  \* peer lists the directory endpoint (fetch_peers) may return
    Heights      \* heights a peer's /blockchain/info may report (u64)

ASSUME ConstantsAssumption ==
    /\ BootNodes \in Seq(Peers)
    /\ DirAnswers \subseteq Seq(Peers)
    /\ Heights \subseteq Nat

(***************************************************************************)
(* Data.  sync_progress is an f32 to which the code only ever assigns 0.0  *)
(* and 1.0; it is kept as the integer 0 or 1.  A height of 0 is the        *)
(* code's "unknown" sentinel (it is also the genesis height).              *)
(***************************************************************************)
Progress == {0, 1}

HeightVals == Heights \cup {0}

Manager == [peers : Seq(Peers), syncing : BOOLEAN, progress : Progress,
            current : HeightVals, network : HeightVals]

\* Why one peer request of the loop did not produce a ChainStatus: connect
\* error or the 5 s client timeout, a non-2xx status, a body that is not JSON
\* of the BlockchainInfo shape.
PeerFailures == {"connect", "status", "body"}

Outcomes == PeerFailures \cup {"ok"}

\* The Result of fetch_blockchain_info: Ok(info) or Err.  "from" is a
\* witness the model keeps, the registry position of the answering peer;
\* the code's `for peer in &self.connected_peers` keeps no index.
FetchErr == [ok |-> FALSE, height |-> 0, from |-> 0]

FetchOk(h, k) == [ok |-> TRUE, height |-> h, from |-> k]

FetchResults == {FetchErr} \cup [ok : {TRUE}, height : Heights, from : Nat \ {0}]

Call == [mgr : Manager, op : {"bootstrap", "refresh"},
         pc : {"discover", "fetch", "fold", "done"}, i : Nat \ {0},
         res : FetchResults, asked : Seq(Outcomes), ret : {"pending", "ok", "err"}]

(***************************************************************************)
(* NetworkManager::new(api_endpoint)                                       *)
(***************************************************************************)
New == [peers |-> << >>, syncing |-> FALSE, progress |-> 0,
        current |-> 0, network |-> 0]

\* A bootstrap() call on manager m, before its first await.
BootstrapCall(m) == [mgr |-> m, op |-> "bootstrap", pc |-> "discover", i |-> 1,
                     res |-> FetchErr, asked |-> << >>, ret |-> "pending"]

(***************************************************************************)
(* bootstrap(): discovery.  fetch_peers() either returns a list, which     *)
(* replaces the registry, or fails; then every addnode entry is added with *)
(* add_peer, in order.  One version of the fallback hands the list to      *)
(* connect_to_peers(..).await? instead, whose error ends bootstrap() with  *)
(* Err before the chain status is fetched.                                 *)
(***************************************************************************)
Discovered(c, ans) ==
    [c EXCEPT !.mgr.peers = ans, !.pc = "fetch", !.i = 1, !.asked = << >>]

FellBack(c) ==
    [c EXCEPT !.mgr.peers = c.mgr.peers \o BootNodes, !.pc = "fetch", !.i = 1,
              !.asked = << >>]

FallbackFailed(c) == [c EXCEPT !.pc = "done", !.ret = "err"]

(***************************************************************************)
(* fetch_blockchain_info(): one iteration per await.  Each iteration first *)
(* builds a reqwest client; a build error leaves the whole loop through    *)
(* `?`.  Otherwise the request to connected_peers[i] either yields a       *)
(* ChainStatus, which is returned at once, or fails and the loop goes on.  *)
(* After the last peer the loop returns Err.                               *)
(***************************************************************************)
Fetching(c) == c.pc = "fetch" /\ c.i <= Len(c.mgr.peers)

ClientBuildFailed(c) == [c EXCEPT !.res = FetchErr, !.pc = "fold"]

\* Variant: the parsed answer is stored but the loop goes on (no `return`).
PeerAnsweredNoReturn(c, h) ==
    [c EXCEPT !.res = FetchOk(h, c.i), !.i = c.i + 1, !.asked = Append(c.asked, "ok")]

PeerAnswered(c, h) ==
    [c EXCEPT !.res = FetchOk(h, c.i), !.pc = "fold", !.asked = Append(c.asked, "ok")]

\* Variant: after the last peer fails the fetch starts over from the first
\* peer instead of returning Err (retry until some peer answers).
PeerFailedRetry(c, o) ==
    IF c.i >= Len(c.mgr.peers) THEN [c EXCEPT !.i = 1, !.asked = << >>]
                               ELSE [c EXCEPT !.i = c.i + 1, !.asked = Append(c.asked, o)]

PeerFailed(c, o) == [c EXCEPT !.i = c.i + 1, !.asked = Append(c.asked, o)]

Exhausted(c) == c.pc = "fetch" /\ c.i > Len(c.mgr.peers)

NoPeerAnswered(c) == [c EXCEPT !.res = FetchErr, !.pc = "fold"]

(***************************************************************************)
(* bootstrap(): folding the chain status.  Either way is_syncing becomes   *)
(* false and sync_progress 1.0; on Err both heights become the 0 sentinel. *)
(* bootstrap() then returns Ok(()).                                        *)
(***************************************************************************)
\* Variant: sync_progress written as a percentage, 100.0, where the status
\* bar's ProgressBar::new and its "{:.1}%" of progress * 100.0 expect a
\* fraction in [0, 1].
BootstrapSyncedPercent(c) ==
    [c EXCEPT !.mgr.current = c.res.height, !.mgr.network = c.res.height,
              !.mgr.syncing = FALSE, !.mgr.progress = 100, !.pc = "done", !.ret = "ok"]

BootstrapSynced(c) ==
    [c EXCEPT !.mgr.current = c.res.height, !.mgr.network = c.res.height,
              !.mgr.syncing = FALSE, !.mgr.progress = 1, !.pc = "done", !.ret = "ok"]

\* Variant: the Err fold of the earlier bootstrap (is_syncing = true,
\* sync_progress = 0.0) kept with the later Ok(()) return.
BootstrapHeightUnknownStillSyncing(c) ==
    [c EXCEPT !.mgr.syncing = TRUE, !.mgr.progress = 0, !.mgr.current = 0,
              !.mgr.network = 0, !.pc = "done", !.ret = "ok"]

BootstrapHeightUnknown(c) ==
    [c EXCEPT !.mgr.syncing = FALSE, !.mgr.progress = 1, !.mgr.current = 0,
              !.mgr.network = 0, !.pc = "done", !.ret = "ok"]

(***************************************************************************)
(* refresh_blockchain_state(): Err at once on an empty registry; else the  *)
(* chain-status loop, whose Ok is folded like bootstrap's and whose Err is *)
(* returned with the manager left as it was.                               *)
(***************************************************************************)
RefreshCall(m) == [mgr |-> m, op |-> "refresh", pc |-> "fetch", i |-> 1,
                   res |-> FetchErr, asked |-> << >>, ret |-> "pending"]

RefreshNoPeers(m) == [RefreshCall(m) EXCEPT !.pc = "done", !.ret = "err"]

\* Variant: network_block_height is recorded, current_block_height left behind.
RefreshUpdatedNetworkOnly(c) ==
    [c EXCEPT !.mgr.network = c.res.height, !.mgr.syncing = FALSE, !.mgr.progress = 1,
              !.pc = "done", !.ret = "ok"]

RefreshUpdated(c) ==
    [c EXCEPT !.mgr.network = c.res.height, !.mgr.current = c.res.height,
              !.mgr.syncing = FALSE, !.mgr.progress = 1, !.pc = "done", !.ret = "ok"]

\* Variant: refresh's Err folded like bootstrap's, writing the 0 sentinel.
RefreshFailedZeroes(c) ==
    [c EXCEPT !.mgr.current = 0, !.mgr.network = 0, !.pc = "done", !.ret = "err"]

RefreshFailed(c) == [c EXCEPT !.pc = "done", !.ret = "err"]

(***************************************************************************)
(* What bootstrap() on a fresh manager can return, as (manager, result):   *)
(* the registry is a directory answer or the addnode list; the heights    *)
(* are a reported height (non-empty registry only) or the 0 sentinel; or  *)
(* connect_to_peers failed and the manager is untouched.  ManagerCaller    *)
(* checks that every bootstrap() of its runs returns one of these.         *)
(***************************************************************************)
Registries == DirAnswers \cup {BootNodes}

\* The manager bootstrap() leaves behind when it returns Ok(()): registry r,
\* both heights h (the 0 sentinel when no peer answered), not syncing,
\* sync_progress 1.0.
BootedManager(r, h) ==
    [peers |-> r, syncing |-> FALSE, progress |-> 1, current |-> h, network |-> h]

BootstrapOk ==
    { [mgr |-> BootedManager(r, h), ret |-> "ok"] : r \in Registries \ {<< >>}, h \in Heights }
    \cup { [mgr |-> BootedManager(r, 0), ret |-> "ok"] : r \in Registries }

BootstrapErr == { [mgr |-> New, ret |-> "err"] }

BootstrapResults == BootstrapOk \cup BootstrapErr

=============================================================================

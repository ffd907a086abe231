---------------------------- MODULE EarlyBootstrap ----------------------------
(***************************************************************************)
(* The bootstrap() revisions that came before the one NetworkManager       *)
(* models, on one manager:                                                 *)
(*                                                                         *)
(*  B1 (the text fix_sync_logic.py replaces): discovery, then              *)
(*     `if !self.connected_peers.is_empty() { self.start_sync().await?; }` *)
(*     and Ok(()).  start_sync() exists in three versions:                 *)
(*       "stub"     add_fetch_method.py's marker: no fetch at all;         *)
(*       "fetch"    add_fetch_method.py / fix_start_sync.py: on Err it      *)
(*                  zeroes the heights and sync_progress and returns Err;  *)
(*       "continue" the text fix_sync_logic.py replaces: on Err it goes on *)
(*                  with sync_progress 1.0 and returns Ok.                 *)
(*  B2 (fix_sync_logic.py's new text): discovery, then the chain-status    *)
(*     fetch; on Err is_syncing = true, sync_progress = 0.0, return Err.   *)
(*                                                                         *)
(* The discovery step and the chain-status loop are NetworkManager's.      *)
(* The revision is fixed for a run: rev is chosen in Init from Revisions.  *)
(***************************************************************************)
EXTENDS NetworkManager

CONSTANT Revisions   \* a subset of {"stub", "fetch", "continue", "B2"}

VARIABLES
    rev,   \* the revision of bootstrap() / start_sync() this run executes
    nm     \* the bootstrap() call in flight, a Call as in ManagerCaller

vars == <<rev, nm>>

(***************************************************************************)
(* start_sync(), from its entry up to its first await: is_syncing = true,  *)
(* sync_progress = 0.0.  The stub has no await and finishes at once with   *)
(* sync_progress = 1.0, is_syncing = false, Ok(()).                        *)
(***************************************************************************)
SyncStarted(c) == [c EXCEPT !.mgr.syncing = TRUE, !.mgr.progress = 0]

StubSynced(c) ==
    [c EXCEPT !.mgr.syncing = FALSE, !.mgr.progress = 1, !.pc = "done", !.ret = "ok"]

\* B1 on an empty registry: start_sync() is skipped and bootstrap returns Ok.
SyncSkipped(c) == [c EXCEPT !.pc = "done", !.ret = "ok"]

\* What bootstrap() does between discovery and the first fetch await.
AfterDiscovery(c) ==
    CASE rev = "B2"                          -> c
      [] rev # "B2" /\ c.mgr.peers = << >>   -> SyncSkipped(c)
      [] rev = "stub" /\ c.mgr.peers # << >> -> StubSynced(c)
      [] OTHER                               -> SyncStarted(c)

(***************************************************************************)
(* The fold of the chain-status fetch.  Ok: both heights, is_syncing       *)
(* false, sync_progress 1.0 in every revision (BootstrapSynced).  Err:     *)
(***************************************************************************)
\* "fetch": zero everything and return Err, which bootstrap's `?` passes on.
StartSyncFailed(c) ==
    [c EXCEPT !.mgr.syncing = FALSE, !.mgr.progress = 0, !.mgr.current = 0,
              !.mgr.network = 0, !.pc = "done", !.ret = "err"]

\* Variant: the Err arm leaves is_syncing at the true start_sync set.
StartSyncContinuedStillSyncing(c) ==
    [c EXCEPT !.mgr.progress = 1, !.pc = "done", !.ret = "ok"]

\* "continue": carry on without blockchain info.
StartSyncContinued(c) ==
    [c EXCEPT !.mgr.progress = 1, !.mgr.syncing = FALSE, !.pc = "done", !.ret = "ok"]

\* B2: still syncing, no progress, Err.
B2Failed(c) ==
    [c EXCEPT !.mgr.syncing = TRUE, !.mgr.progress = 0, !.pc = "done", !.ret = "err"]

\* Variant: the Ok arm records network_block_height only.
StartSyncedNetworkOnly(c) ==
    [c EXCEPT !.mgr.network = c.res.height, !.mgr.syncing = FALSE, !.mgr.progress = 1,
              !.pc = "done", !.ret = "ok"]

StartSynced(c) == BootstrapSynced(c)

FoldFailed(c) ==
    CASE rev = "B2"    -> B2Failed(c)
      [] rev = "fetch" -> StartSyncFailed(c)
      [] OTHER         -> StartSyncContinued(c)

Init ==
    /\ rev \in Revisions
    /\ nm = BootstrapCall(New)

DiscoverOk ==
    /\ nm.pc = "discover"
    /\ \E ans \in DirAnswers : nm' = AfterDiscovery(Discovered(nm, ans))
    /\ UNCHANGED rev

DiscoverFailed ==
    /\ nm.pc = "discover"
    /\ nm' = AfterDiscovery(FellBack(nm))
    /\ UNCHANGED rev

FetchClientFail ==
    /\ Fetching(nm)
    /\ nm' = ClientBuildFailed(nm)
    /\ UNCHANGED rev

FetchPeerOk ==
    /\ Fetching(nm)
    /\ \E h \in Heights : nm' = PeerAnswered(nm, h)
    /\ UNCHANGED rev

FetchPeerFail ==
    /\ Fetching(nm)
    /\ \E o \in PeerFailures : nm' = PeerFailed(nm, o)
    /\ UNCHANGED rev

FetchExhausted ==
    /\ Exhausted(nm)
    /\ nm' = NoPeerAnswered(nm)
    /\ UNCHANGED rev

Fold ==
    /\ nm.pc = "fold"
    /\ \/ nm.res.ok /\ nm' = StartSynced(nm)
       \/ ~nm.res.ok /\ nm' = FoldFailed(nm)
    /\ UNCHANGED rev

Next ==
    \/ DiscoverOk \/ DiscoverFailed
    \/ FetchClientFail \/ FetchPeerOk \/ FetchPeerFail \/ FetchExhausted
    \/ Fold

\* As in ManagerCaller, a started call keeps stepping.  bootstrap() is the
\* only call: the run stops when it has returned.
Spec == Init /\ [][Next]_vars /\ WF_vars(Next)

-----------------------------------------------------------------------------
(***************************************************************************)
(* The spec (4.3) says bootstrap() leaves is_syncing false on both          *)
(* outcomes of the chain-status fetch (Synced or Disconnected), so a        *)
(* returned bootstrap never leaves the status bar "Synchronizing...".       *)
(* start_sync() sets is_syncing = true before its first await and has to   *)
(* clear it on every path back.                                            *)
(***************************************************************************)
BootstrapEndsNotSyncing == nm.pc = "done" => ~nm.mgr.syncing

(***************************************************************************)
(* No torn heights (spec 7): when bootstrap() has returned, the local and  *)
(* the network block height agree, whichever of the fold's arms ran.       *)
(***************************************************************************)
HeightsAgree == nm.pc = "done" => nm.mgr.current = nm.mgr.network

=============================================================================

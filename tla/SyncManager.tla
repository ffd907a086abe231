----------------------------- MODULE SyncManager -----------------------------
(***************************************************************************)
(* What a NetworkManager promises its owner, with each call as one atomic  *)
(* step.  bootstrap() and refresh_blockchain_state() take &mut self, so    *)
(* their owner never sees the manager between two awaits of a call: for   *)
(* the owner a call goes from the manager it started on to the manager it *)
(* returns, in one step.                                                   *)
(*                                                                         *)
(* The promise: a manager starts as NetworkManager::new(); one bootstrap   *)
(* turns it into one of BootstrapResults, and eventually does so; after   *)
(* that the registry is fixed, and a refresh can only record a height a    *)
(* peer reported (both heights, is_syncing false, sync_progress 1.0), and  *)
(* only when the registry has a peer to ask.  A failed refresh changes     *)
(* nothing.                                                                *)
(***************************************************************************)
EXTENDS NetworkManager

VARIABLES
    mgr,     \* the manager as its owner sees it
    phase    \* "booting" until bootstrap() has returned, then "ready"

absvars == <<mgr, phase>>

\* The manager after a chain-status fetch that returned height h.
SyncedAt(m, h) == [m EXCEPT !.current = h, !.network = h, !.syncing = FALSE,
                            !.progress = 1]

Init ==
    /\ mgr = New
    /\ phase = "booting"

Bootstrap ==
    /\ phase = "booting"
    /\ phase' = "ready"
    /\ \E r \in BootstrapResults : mgr' = r.mgr

Refresh ==
    /\ phase = "ready"
    /\ mgr.peers # << >>
    /\ \E h \in Heights : mgr' = SyncedAt(mgr, h)
    /\ UNCHANGED phase

Next == Bootstrap \/ Refresh

SafetySpec == Init /\ [][Next]_absvars

\* bootstrap() returns: it is spawned on the tokio runtime and every request
\* it makes is bounded by a client timeout.  Refreshing is the owner's choice.
Spec == Init /\ [][Next]_absvars /\ WF_absvars(Bootstrap)

=============================================================================

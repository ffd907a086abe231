----------------------------- MODULE WalletAppR2 -----------------------------
(***************************************************************************)
(* The wallet GUI as fix_network_integration.py leaves it, the first       *)
(* version of the network integration that compiles (integrate_network.py  *)
(* moved network_mgr into the task and then used it).                      *)
(*                                                                         *)
(* self.network_manager is a plain Option<NetworkManager>.  When a wallet  *)
(* is unlocked or created and the config loads, the handler stores a       *)
(* fresh NetworkManager there and spawns a task that makes a second fresh  *)
(* manager `net` of its own, runs bootstrap() on it, logs the result and   *)
(* calls ctx.request_repaint(); `net` is dropped when the task ends.  The   *)
(* status bar reads self.network_manager directly on the UI thread.        *)
(*                                                                         *)
(* The task's bootstrap() is one step whose result is one of               *)
(* BootstrapResults, as in WalletApp: its manager is local to the task.    *)
(***************************************************************************)
EXTENDS NetworkManager

CONSTANTS
    Sessions,    \* one id per successful unlock/create
    NoSession,   \* no wallet open
    NoManager    \* self.network_manager == None

VARIABLES
    open,      \* the unlocked wallet session, or NoSession
    netmgr,    \* self.network_manager: a NetworkManager, or NoManager
    status,    \* self.network_status
    task,      \* task[s]: session s's tokio task: where it is, its net, result
    repaint,   \* a ctx.request_repaint() not yet served by a frame
    shown      \* what the last frame's status bar drew from

vars == <<open, netmgr, status, task, repaint, shown>>

\* impl Default: network_manager None, network_status "Not connected".
Init ==
    /\ open = NoSession
    /\ netmgr = NoManager
    /\ status = "not_connected"
    /\ task = [s \in Sessions |-> [pc |-> "unspawned", net |-> New, ret |-> "pending"]]
    /\ repaint = FALSE
    /\ shown = [mgr |-> NoManager, status |-> "not_connected"]

(***************************************************************************)
(* WalletManager::load_default / create_new succeeded.  If WalletConfig    *)
(* loads: a fresh manager into self.network_manager, "Connecting...", and  *)
(* the task spawned; if not, the wallet opens and nothing else changes.    *)
(***************************************************************************)
Unlock(s) ==
    /\ open = NoSession
    /\ task[s].pc = "unspawned"
    /\ open' = s
    /\ netmgr' = New
    /\ status' = "connecting"
    /\ task' = [task EXCEPT ![s].pc = "bootstrap"]
    /\ UNCHANGED <<repaint, shown>>

\* create_new's branch does exactly what load_default's does.
CreateWallet(s) == Unlock(s)

UnlockNoConfig(s) ==
    /\ open = NoSession
    /\ task[s].pc = "unspawned"
    /\ open' = s
    /\ task' = [task EXCEPT ![s].pc = "end"]
    /\ UNCHANGED <<netmgr, status, repaint, shown>>

\* Session end: the wallet is locked and its network state discarded.
LockWallet ==
    /\ open # NoSession
    /\ open' = NoSession
    /\ netmgr' = NoManager
    /\ UNCHANGED <<status, task, repaint, shown>>

\* let mut net = NetworkManager::new(api_endpoint); net.bootstrap(..).await,
\* then log::error! or log::info!.
TaskBootstrap(s) ==
    /\ task[s].pc = "bootstrap"
    /\ \E r \in BootstrapResults :
          task' = [task EXCEPT ![s] = [pc |-> "repaint", net |-> r.mgr, ret |-> r.ret]]
    /\ UNCHANGED <<open, netmgr, status, repaint, shown>>

\* ctx_clone.request_repaint(); the task ends and `net` is dropped.
TaskRepaint(s) ==
    /\ task[s].pc = "repaint"
    /\ repaint' = TRUE
    /\ task' = [task EXCEPT ![s].pc = "end"]
    /\ UNCHANGED <<open, netmgr, status, shown>>

\* The status bar: peer count and sync state of self.network_manager if it
\* is Some, else the "Status: .." label.
Render ==
    /\ shown' = [mgr |-> netmgr, status |-> status]
    /\ repaint' = FALSE
    /\ UNCHANGED <<open, netmgr, status, task>>

TaskStep(s) == TaskBootstrap(s) \/ TaskRepaint(s)

Next ==
    \/ \E s \in Sessions :
          Unlock(s) \/ CreateWallet(s) \/ UnlockNoConfig(s) \/ TaskStep(s)
    \/ LockWallet
    \/ Render

\* As in WalletApp: spawned tasks run to completion and a requested frame
\* is drawn.
Fairness ==
    /\ \A s \in Sessions : WF_vars(TaskStep(s))
    /\ WF_vars(repaint /\ Render)

Spec == Init /\ [][Next]_vars /\ Fairness

-----------------------------------------------------------------------------
(***************************************************************************)
(* The spec (2, 4.3, 7) says the orchestrator that runs bootstrap owns the *)
(* session's SyncState and readers observe what bootstrap left: once the   *)
(* task of the open session has bootstrapped successfully, a frame draws   *)
(* that manager, unless the wallet is locked first.                        *)
(***************************************************************************)
BootstrapReachesScreen ==
    \A s \in Sessions :
        (open = s /\ task[s].pc \in {"repaint", "end"} /\ task[s].ret = "ok")
            ~> (open # s \/ shown.mgr = task[s].net)

=============================================================================

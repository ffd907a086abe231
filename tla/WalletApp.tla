------------------------------ MODULE WalletApp ------------------------------
(***************************************************************************)
(* The wallet GUI (src/main.rs of the wallet GUI, as the patch scripts     *)
(* under src/wallet-gui/ leave it) and its network state.                  *)
(*                                                                         *)
(* When a wallet is unlocked or created and the config loads, the handler  *)
(* wraps a fresh NetworkManager in an Arc<Mutex<..>>, stores one clone in  *)
(* self.network_manager and moves another into a tokio task.  The task     *)
(* locks the Arc only to copy api_endpoint, runs bootstrap() on a          *)
(* temporary manager of its own, and on Ok swaps the whole temporary into  *)
(* the Arc under the lock with `*net = temp_net`; either way it then     *)
(* calls ctx.request_repaint().  The status bar locks                      *)
(* self.network_manager once per frame and draws peer count, heights and  *)
(* the connection label from that one guard.                              *)
(*                                                                         *)
(* Every critical section (the endpoint copy, the swap, the frame's        *)
(* reads) holds the std Mutex without an await inside, so each is one      *)
(* step.  The task's bootstrap() works on its own temporary that no one    *)
(* else can see until the swap, so it is one step whose result is one of   *)
(* BootstrapResults (ManagerCaller checks that summary against the         *)
(* step-by-step call).                                                     *)
(***************************************************************************)
EXTENDS NetworkManager

CONSTANTS
    Sessions,    \* one id per successful unlock/create: each gets its own Arc
    NoSession    \* self.network_manager == None

ASSUME SessionsAssumption == NoSession \notin Sessions

VARIABLES
    open,      \* the unlocked wallet session, or NoSession
    netmgr,    \* whose Arc self.network_manager holds, or NoSession (None)
    arc,       \* arc[s]: the NetworkManager inside session s's Arc<Mutex<..>>
    task,      \* task[s]: session s's tokio task: where it is, temp_net, result
    repaint,   \* a ctx.request_repaint() not yet served by a frame
    shown      \* what the last frame's status bar drew: whose Arc, which manager

vars == <<open, netmgr, arc, task, repaint, shown>>

TaskPcs == {"unspawned", "endpoint", "bootstrap", "publish", "repaint", "end"}

Task == [pc : TaskPcs, tmp : Manager, ret : {"pending", "ok", "err"}]

Frame == [arc : Sessions \cup {NoSession}, mgr : Manager]

Init ==
    /\ open = NoSession
    /\ netmgr = NoSession
    /\ arc = [s \in Sessions |-> New]
    /\ task = [s \in Sessions |-> [pc |-> "unspawned", tmp |-> New, ret |-> "pending"]]
    /\ repaint = FALSE
    /\ shown = [arc |-> NoSession, mgr |-> New]

(***************************************************************************)
(* WalletManager::load_default / create_new succeeded.  If WalletConfig    *)
(* loads, a fresh Arc is made, self.network_manager is set to it and the   *)
(* task is spawned; if not, the wallet opens with no network manager.      *)
(***************************************************************************)
Unlock(s) ==
    /\ open = NoSession
    /\ task[s].pc = "unspawned"
    /\ open' = s
    /\ netmgr' = s
    /\ arc' = [arc EXCEPT ![s] = New]
    /\ task' = [task EXCEPT ![s].pc = "endpoint"]
    /\ UNCHANGED <<repaint, shown>>

UnlockNoConfig(s) ==
    /\ open = NoSession
    /\ task[s].pc = "unspawned"
    /\ open' = s
    /\ task' = [task EXCEPT ![s].pc = "end"]
    /\ UNCHANGED <<netmgr, arc, repaint, shown>>

\* Session end: the wallet is locked and its network state discarded; a task
\* still in flight keeps its own clone of the Arc.
LockWallet ==
    /\ open # NoSession
    /\ open' = NoSession
    /\ netmgr' = NoSession
    /\ UNCHANGED <<arc, task, repaint, shown>>

(***************************************************************************)
(* The task.                                                               *)
(***************************************************************************)
\* let api_endpoint = { net_mgr.lock().unwrap().api_endpoint().to_string() };
TaskEndpoint(s) ==
    /\ task[s].pc = "endpoint"
    /\ task' = [task EXCEPT ![s].pc = "bootstrap"]
    /\ UNCHANGED <<open, netmgr, arc, repaint, shown>>

\* temp_net = NetworkManager::new(api_endpoint); temp_net.bootstrap(..).await
TaskBootstrap(s) ==
    /\ task[s].pc = "bootstrap"
    /\ \E r \in BootstrapResults :
          task' = [task EXCEPT ![s] = [pc |-> IF r.ret = "ok" THEN "publish" ELSE "repaint",
                                       tmp |-> r.mgr, ret |-> r.ret]]
    /\ UNCHANGED <<open, netmgr, arc, repaint, shown>>

\* Variant: the swap goes into whatever self.network_manager holds now
\* rather than into the task's own clone of its Arc.
PublishToCurrent(s) ==
    /\ task[s].pc = "publish"
    /\ arc' = [arc EXCEPT ![IF netmgr = NoSession THEN s ELSE netmgr] = task[s].tmp]
    /\ task' = [task EXCEPT ![s].pc = "repaint"]
    /\ UNCHANGED <<open, netmgr, repaint, shown>>

\* Ok(_) => { let mut net = net_mgr.lock().unwrap(); *net = temp_net; }
Publish(s) ==
    /\ task[s].pc = "publish"
    /\ arc' = [arc EXCEPT ![s] = task[s].tmp]
    /\ task' = [task EXCEPT ![s].pc = "repaint"]
    /\ UNCHANGED <<open, netmgr, repaint, shown>>

\* Variant: the task ends without ctx_clone.request_repaint().
TaskRepaintForgotten(s) ==
    /\ task[s].pc = "repaint"
    /\ task' = [task EXCEPT ![s].pc = "end"]
    /\ UNCHANGED <<open, netmgr, arc, repaint, shown>>

\* ctx_clone.request_repaint()
TaskRepaint(s) ==
    /\ task[s].pc = "repaint"
    /\ repaint' = TRUE
    /\ task' = [task EXCEPT ![s].pc = "end"]
    /\ UNCHANGED <<open, netmgr, arc, shown>>

(***************************************************************************)
(* A frame: with a network manager, one lock guard for all fields;         *)
(* without, the "Status: .." label.  Frames come on input events at any    *)
(* time, and are guaranteed after a request_repaint().                     *)
(***************************************************************************)
Render ==
    /\ shown' = IF netmgr = NoSession THEN [arc |-> NoSession, mgr |-> New]
                                      ELSE [arc |-> netmgr, mgr |-> arc[netmgr]]
    /\ repaint' = FALSE
    /\ UNCHANGED <<open, netmgr, arc, task>>

TaskStep(s) ==
    TaskEndpoint(s) \/ TaskBootstrap(s) \/ Publish(s) \/ TaskRepaint(s)

Next ==
    \/ \E s \in Sessions : Unlock(s) \/ UnlockNoConfig(s) \/ TaskStep(s)
    \/ LockWallet
    \/ Render

\* The tokio runtime runs every spawned task to completion (each request is
\* bounded by its client timeout), and eframe draws a frame after
\* request_repaint().  The user's unlock and lock get no fairness.
Fairness ==
    /\ \A s \in Sessions : WF_vars(TaskStep(s))
    /\ WF_vars(repaint /\ Render)

Spec == Init /\ [][Next]_vars /\ Fairness

-----------------------------------------------------------------------------
TypeOK ==
    /\ open \in Sessions \cup {NoSession}
    /\ netmgr \in Sessions \cup {NoSession}
    /\ arc \in [Sessions -> Manager]
    /\ task \in [Sessions -> Task]
    /\ repaint \in BOOLEAN
    /\ shown \in Frame

(***************************************************************************)
(* No foreign or torn state on the status bar: whatever a frame drew from  *)
(* a session's Arc is either the fresh manager that unlock put there or    *)
(* exactly the manager that this session's own task bootstrapped and      *)
(* swapped in, never a mix of two updates and never the result of another *)
(* session's late task (a task from a locked session still completes).    *)
(***************************************************************************)
ShownIsOwnResult ==
    shown.arc # NoSession =>
        \/ shown.mgr = New
        \/ /\ task[shown.arc].pc \in {"repaint", "end"}
           /\ task[shown.arc].ret = "ok"
           /\ shown.mgr = task[shown.arc].tmp

(***************************************************************************)
(* A bootstrap that succeeded reaches the screen: once a session's task    *)
(* has swapped its manager in, a frame draws it, unless the wallet is      *)
(* locked first.  This rests on the task's request_repaint().              *)
(***************************************************************************)
PublishedIsShown ==
    \A s \in Sessions :
        (task[s].pc \in {"repaint", "end"} /\ task[s].ret = "ok" /\ netmgr = s)
            ~> (netmgr # s \/ shown = [arc |-> s, mgr |-> arc[s]])

(***************************************************************************)
(* The spec (4.3, 7) says bootstrap always leaves the wallet Synced or     *)
(* Disconnected and the reader sees that state: the status bar of an       *)
(* unlocked wallet eventually leaves the fresh "Connecting..." manager.    *)
(***************************************************************************)
EventuallyLeavesConnecting ==
    \A s \in Sessions :
        (netmgr = s) ~> (netmgr # s \/ (shown.arc = s /\ shown.mgr # New))

-----------------------------------------------------------------------------
(***************************************************************************)
(* The refinement mapping to WalletSessions.  A session was opened once    *)
(* its task left "unspawned"; it was opened with a network manager unless  *)
(* UnlockNoConfig sent it straight to "end", the one way to end with no    *)
(* bootstrap result.                                                       *)
(***************************************************************************)
Opened == {s \in Sessions : task[s].pc # "unspawned"}

Spawned == {s \in Opened : ~(task[s].pc = "end" /\ task[s].ret = "pending")}

Sess == INSTANCE WalletSessions WITH opened <- Opened, spawned <- Spawned

(***************************************************************************)
(* The app with its background tasks implements WalletSessions: seen from *)
(* the app, a session's Arc holds new() until, in one step, the task's     *)
(* swap puts a manager a successful bootstrap() left into it, at most once *)
(* and only for a session unlocked with a config; the task's own steps,    *)
(* its failed bootstrap and its repaint change nothing the app can see.    *)
(***************************************************************************)
ImplementsWalletSessions == Sess!Spec

=============================================================================

---------------------------- MODULE WalletSessions ----------------------------
(***************************************************************************)
(* What the wallet app promises about its network state, with the          *)
(* background task hidden.  A session opened with a loadable config gets   *)
(* its own network manager, fresh from NetworkManager::new(); later, at    *)
(* most once and in one step, that manager is replaced by one a successful *)
(* bootstrap() leaves, whether or not the session is still open.  A        *)
(* session opened without a config never gets one.  Locking drops the     *)
(* app's reference, and a frame draws the manager the app refers to.       *)
(***************************************************************************)
EXTENDS NetworkManager

CONSTANTS Sessions, NoSession

VARIABLES
    open,      \* the unlocked wallet session, or NoSession
    netmgr,    \* whose manager the app refers to, or NoSession
    arc,       \* arc[s]: session s's network manager
    shown,     \* what the last frame drew: whose manager, which manager
    opened,    \* the sessions ever unlocked or created
    spawned    \* the sessions opened with a network manager

wsvars == <<open, netmgr, arc, shown, opened, spawned>>

\* The managers a successful bootstrap() leaves behind.
Connected == {r.mgr : r \in BootstrapOk}

Init ==
    /\ open = NoSession
    /\ netmgr = NoSession
    /\ arc = [s \in Sessions |-> New]
    /\ shown = [arc |-> NoSession, mgr |-> New]
    /\ opened = {}
    /\ spawned = {}

OpenWithNetwork(s) ==
    /\ open = NoSession
    /\ s \notin opened
    /\ open' = s
    /\ netmgr' = s
    /\ arc' = [arc EXCEPT ![s] = New]
    /\ opened' = opened \cup {s}
    /\ spawned' = spawned \cup {s}
    /\ UNCHANGED shown

OpenWithoutNetwork(s) ==
    /\ open = NoSession
    /\ s \notin opened
    /\ open' = s
    /\ opened' = opened \cup {s}
    /\ UNCHANGED <<netmgr, arc, shown, spawned>>

Connect(s) ==
    /\ s \in spawned
    /\ arc[s] = New
    /\ \E m \in Connected : arc' = [arc EXCEPT ![s] = m]
    /\ UNCHANGED <<open, netmgr, shown, opened, spawned>>

Close ==
    /\ open # NoSession
    /\ open' = NoSession
    /\ netmgr' = NoSession
    /\ UNCHANGED <<arc, shown, opened, spawned>>

Draw ==
    /\ shown' = IF netmgr = NoSession THEN [arc |-> NoSession, mgr |-> New]
                                      ELSE [arc |-> netmgr, mgr |-> arc[netmgr]]
    /\ UNCHANGED <<open, netmgr, arc, opened, spawned>>

Next ==
    \/ \E s \in Sessions : OpenWithNetwork(s) \/ OpenWithoutNetwork(s) \/ Connect(s)
    \/ Close
    \/ Draw

Spec == Init /\ [][Next]_wsvars

=============================================================================

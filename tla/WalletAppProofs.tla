--------------------------- MODULE WalletAppProofs ---------------------------
(***************************************************************************)
(* Proofs about WalletApp for every set of sessions, peers and heights     *)
(* that the assumptions of NetworkManager and WalletApp allow.             *)
(***************************************************************************)
EXTENDS WalletApp, TLAPS

(***************************************************************************)
(* The inductive strengthening of ShownIsOwnResult.  A frame copies a      *)
(* whole Arc, so what it may draw is what an Arc may hold: the fresh       *)
(* manager unlock put there, or the temp_net its own task bootstrapped and *)
(* swapped in.  A task waits to swap only with an Ok result.               *)
(***************************************************************************)
ArcIsOwnResult ==
    \A s \in Sessions :
        /\ \/ arc[s] = New
           \/ /\ task[s].pc \in {"repaint", "end"}
              /\ task[s].ret = "ok"
              /\ arc[s] = task[s].tmp
        /\ task[s].pc = "publish" => task[s].ret = "ok"

IInv == TypeOK /\ ArcIsOwnResult /\ ShownIsOwnResult

-----------------------------------------------------------------------------
USE ConstantsAssumption, SessionsAssumption

\* NetworkManager::new() is a manager.
LEMMA NewType == New \in Manager
  BY DEF New, Manager, Progress, HeightVals

\* Whatever bootstrap() returns is a manager and an Ok or an Err.
LEMMA BootstrapResultsType ==
  ASSUME NEW r \in BootstrapResults
  PROVE  r.mgr \in Manager /\ r.ret \in {"ok", "err"}
  <1>1. Registries \subseteq Seq(Peers)
    BY DEF Registries
  <1>2. ASSUME NEW q \in Registries, NEW h \in HeightVals
        PROVE  BootedManager(q, h) \in Manager
    BY <1>1 DEF BootedManager, Manager, Progress
  <1>3. Heights \subseteq HeightVals /\ 0 \in HeightVals
    BY DEF HeightVals
  <1>4. QED
    BY <1>2, <1>3, NewType DEF BootstrapResults, BootstrapOk, BootstrapErr

\* Moving session s's task to another await point keeps the other fields
\* and the other sessions' tasks.
LEMMA TaskPcUpdate ==
  ASSUME NEW t \in [Sessions -> Task], NEW s \in Sessions, NEW v \in TaskPcs
  PROVE  /\ [t EXCEPT ![s].pc = v] \in [Sessions -> Task]
         /\ [t EXCEPT ![s].pc = v][s] = [pc |-> v, tmp |-> t[s].tmp, ret |-> t[s].ret]
         /\ \A u \in Sessions \ {s} : [t EXCEPT ![s].pc = v][u] = t[u]
  <1>1. t[s] = [pc |-> t[s].pc, tmp |-> t[s].tmp, ret |-> t[s].ret]
    BY DEF Task
  <1>2. [t EXCEPT ![s].pc = v][s] = [pc |-> v, tmp |-> t[s].tmp, ret |-> t[s].ret]
    BY <1>1, Zenon
  <1>3. [pc |-> v, tmp |-> t[s].tmp, ret |-> t[s].ret] \in Task
    BY DEF Task
  <1>4. QED
    BY <1>2, <1>3, Zenon

-----------------------------------------------------------------------------
LEMMA TypeInit == Init => TypeOK
  <1>1. [pc |-> "unspawned", tmp |-> New, ret |-> "pending"] \in Task
    BY NewType DEF Task, TaskPcs
  <1>2. [arc |-> NoSession, mgr |-> New] \in Frame
    BY NewType DEF Frame
  <1>3. QED
    BY <1>1, <1>2, NewType DEF Init, TypeOK

LEMMA TypeStep == TypeOK /\ [Next]_vars => TypeOK'
  <1> SUFFICES ASSUME TypeOK, [Next]_vars PROVE TypeOK'
    OBVIOUS
  <1>1. ASSUME NEW s \in Sessions, Unlock(s) PROVE TypeOK'
    BY <1>1, NewType, TaskPcUpdate DEF Unlock, TypeOK, TaskPcs
  <1>2. ASSUME NEW s \in Sessions, UnlockNoConfig(s) PROVE TypeOK'
    BY <1>2, TaskPcUpdate DEF UnlockNoConfig, TypeOK, TaskPcs
  <1>3. ASSUME NEW s \in Sessions, TaskEndpoint(s) PROVE TypeOK'
    BY <1>3, TaskPcUpdate DEF TaskEndpoint, TypeOK, TaskPcs
  <1>4. ASSUME NEW s \in Sessions, TaskBootstrap(s) PROVE TypeOK'
    <2>1. PICK r \in BootstrapResults :
            task' = [task EXCEPT ![s] = [pc |-> IF r.ret = "ok" THEN "publish" ELSE "repaint",
                                         tmp |-> r.mgr, ret |-> r.ret]]
      BY <1>4 DEF TaskBootstrap
    <2>2. [pc |-> IF r.ret = "ok" THEN "publish" ELSE "repaint", tmp |-> r.mgr, ret |-> r.ret]
            \in Task
      BY BootstrapResultsType DEF Task, TaskPcs
    <2>3. QED
      BY <1>4, <2>1, <2>2 DEF TaskBootstrap, TypeOK
  <1>5. ASSUME NEW s \in Sessions, Publish(s) PROVE TypeOK'
    BY <1>5, TaskPcUpdate DEF Publish, TypeOK, TaskPcs, Task
  <1>6. ASSUME NEW s \in Sessions, TaskRepaint(s) PROVE TypeOK'
    BY <1>6, TaskPcUpdate DEF TaskRepaint, TypeOK, TaskPcs
  <1>7. CASE LockWallet
    BY <1>7 DEF LockWallet, TypeOK
  <1>8. CASE Render
    BY <1>8, NewType DEF Render, TypeOK, Frame
  <1>9. CASE UNCHANGED vars
    BY <1>9 DEF vars, TypeOK
  <1>10. QED
    BY <1>1, <1>2, <1>3, <1>4, <1>5, <1>6, <1>7, <1>8, <1>9 DEF Next, TaskStep

(***************************************************************************)
(* Every reachable state is well typed: session ids, one manager per Arc,  *)
(* one task record per session, a frame built from an Arc.                 *)
(***************************************************************************)
THEOREM TypeCorrect == Spec => []TypeOK
  BY TypeInit, TypeStep, PTL DEF Spec

-----------------------------------------------------------------------------
LEMMA IInvInit == Init => IInv
  BY TypeInit DEF Init, IInv, ArcIsOwnResult, ShownIsOwnResult

\* A step that moves task s from a pc where its Arc holds New to another
\* pc, and touches neither the Arcs nor the frame, keeps the invariant.
LEMMA MoveKeeps ==
  ASSUME IInv, TypeOK', NEW s \in Sessions, NEW v \in TaskPcs,
         task[s].pc \in {"unspawned", "endpoint"},
         v \notin {"publish"},
         task' = [task EXCEPT ![s].pc = v],
         arc' = arc, shown' = shown
  PROVE  IInv'
  <1>1. arc[s] = New
    BY DEF IInv, ArcIsOwnResult
  <1>2. task'[s] = [pc |-> v, tmp |-> task[s].tmp, ret |-> task[s].ret]
        /\ \A u \in Sessions \ {s} : task'[u] = task[u]
    BY TaskPcUpdate DEF IInv, TypeOK
  <1>3. ArcIsOwnResult'
    BY <1>1, <1>2 DEF IInv, ArcIsOwnResult
  <1>4. ShownIsOwnResult'
    <2>1. CASE shown.arc = s
      BY <2>1 DEF IInv, ShownIsOwnResult
    <2>2. CASE shown.arc # s
      BY <1>2, <2>2 DEF IInv, ShownIsOwnResult, TypeOK, Frame
    <2>3. QED
      BY <2>1, <2>2
  <1>5. QED
    BY <1>3, <1>4 DEF IInv

LEMMA IInvStep == IInv /\ [Next]_vars => IInv'
  <1> SUFFICES ASSUME IInv, [Next]_vars PROVE IInv'
    OBVIOUS
  <1>0. TypeOK'
    BY TypeStep DEF IInv
  <1>1. ASSUME NEW s \in Sessions, Unlock(s) PROVE IInv'
    <2>0. task' = [task EXCEPT ![s].pc = "endpoint"]
      BY <1>1 DEF Unlock
    <2>1. task'[s] = [pc |-> "endpoint", tmp |-> task[s].tmp, ret |-> task[s].ret]
          /\ \A u \in Sessions \ {s} : task'[u] = task[u]
      <3>1. "endpoint" \in TaskPcs /\ task \in [Sessions -> Task]
        BY DEF TaskPcs, IInv, TypeOK
      <3>2. QED
        BY <2>0, <3>1, TaskPcUpdate
    <2>2. arc'[s] = New /\ \A u \in Sessions \ {s} : arc'[u] = arc[u]
      BY <1>1 DEF Unlock, IInv, TypeOK
    <2>3. ArcIsOwnResult'
      BY <2>1, <2>2 DEF IInv, ArcIsOwnResult
    <2>4. ShownIsOwnResult'
      <3>1. CASE shown.arc = s
        BY <1>1, <3>1 DEF Unlock, IInv, ShownIsOwnResult
      <3>2. CASE shown.arc # s
        BY <1>1, <2>1, <3>2 DEF Unlock, IInv, ShownIsOwnResult, TypeOK, Frame
      <3>3. QED
        BY <3>1, <3>2
    <2>5. QED
      BY <1>0, <2>3, <2>4 DEF IInv
  <1>2. ASSUME NEW s \in Sessions, UnlockNoConfig(s) PROVE IInv'
    BY <1>2, <1>0, MoveKeeps DEF UnlockNoConfig, TaskPcs
  <1>3. ASSUME NEW s \in Sessions, TaskEndpoint(s) PROVE IInv'
    BY <1>3, <1>0, MoveKeeps DEF TaskEndpoint, TaskPcs
  <1>4. ASSUME NEW s \in Sessions, TaskBootstrap(s) PROVE IInv'
    <2>1. PICK r \in BootstrapResults :
            task' = [task EXCEPT ![s] = [pc |-> IF r.ret = "ok" THEN "publish" ELSE "repaint",
                                         tmp |-> r.mgr, ret |-> r.ret]]
      BY <1>4 DEF TaskBootstrap
    <2>2. task'[s] = [pc |-> IF r.ret = "ok" THEN "publish" ELSE "repaint",
                      tmp |-> r.mgr, ret |-> r.ret]
          /\ \A u \in Sessions \ {s} : task'[u] = task[u]
      BY <2>1 DEF IInv, TypeOK
    <2>3. arc[s] = New
      BY <1>4 DEF TaskBootstrap, IInv, ArcIsOwnResult
    <2>4. ArcIsOwnResult'
      BY <1>4, <2>2, <2>3 DEF TaskBootstrap, IInv, ArcIsOwnResult
    <2>5. ShownIsOwnResult'
      <3>1. CASE shown.arc = s
        BY <1>4, <3>1 DEF TaskBootstrap, IInv, ShownIsOwnResult
      <3>2. CASE shown.arc # s
        BY <1>4, <2>2, <3>2 DEF TaskBootstrap, IInv, ShownIsOwnResult, TypeOK, Frame
      <3>3. QED
        BY <3>1, <3>2
    <2>6. QED
      BY <1>0, <2>4, <2>5 DEF IInv
  <1>5. ASSUME NEW s \in Sessions, Publish(s) PROVE IInv'
    <2>0. task' = [task EXCEPT ![s].pc = "repaint"]
      BY <1>5 DEF Publish
    <2>1. task'[s] = [pc |-> "repaint", tmp |-> task[s].tmp, ret |-> task[s].ret]
          /\ \A u \in Sessions \ {s} : task'[u] = task[u]
      <3>1. "repaint" \in TaskPcs /\ task \in [Sessions -> Task]
        BY DEF TaskPcs, IInv, TypeOK
      <3>2. QED
        BY <2>0, <3>1, TaskPcUpdate
    <2>2. arc'[s] = task[s].tmp /\ \A u \in Sessions \ {s} : arc'[u] = arc[u]
      BY <1>5 DEF Publish, IInv, TypeOK
    <2>3. task[s].ret = "ok"
      BY <1>5 DEF Publish, IInv, ArcIsOwnResult
    <2>4. ArcIsOwnResult'
      BY <2>1, <2>2, <2>3 DEF IInv, ArcIsOwnResult
    <2>5. ShownIsOwnResult'
      <3>1. CASE shown.arc = s
        BY <1>5, <3>1 DEF Publish, IInv, ShownIsOwnResult
      <3>2. CASE shown.arc # s
        BY <1>5, <2>1, <3>2 DEF Publish, IInv, ShownIsOwnResult, TypeOK, Frame
      <3>3. QED
        BY <3>1, <3>2
    <2>6. QED
      BY <1>0, <2>4, <2>5 DEF IInv
  <1>6. ASSUME NEW s \in Sessions, TaskRepaint(s) PROVE IInv'
    <2>0. task' = [task EXCEPT ![s].pc = "end"]
      BY <1>6 DEF TaskRepaint
    <2>1. task'[s] = [pc |-> "end", tmp |-> task[s].tmp, ret |-> task[s].ret]
          /\ \A u \in Sessions \ {s} : task'[u] = task[u]
      <3>1. "end" \in TaskPcs /\ task \in [Sessions -> Task]
        BY DEF TaskPcs, IInv, TypeOK
      <3>2. QED
        BY <2>0, <3>1, TaskPcUpdate
    <2>2. ArcIsOwnResult'
      BY <1>6, <2>1 DEF TaskRepaint, IInv, ArcIsOwnResult
    <2>3. ShownIsOwnResult'
      <3>1. CASE shown.arc = s
        BY <1>6, <2>1, <3>1 DEF TaskRepaint, IInv, ShownIsOwnResult
      <3>2. CASE shown.arc # s
        BY <1>6, <2>1, <3>2 DEF TaskRepaint, IInv, ShownIsOwnResult, TypeOK, Frame
      <3>3. QED
        BY <3>1, <3>2
    <2>4. QED
      BY <1>0, <2>2, <2>3 DEF IInv
  <1>7. CASE LockWallet
    BY <1>7, <1>0 DEF LockWallet, IInv, ArcIsOwnResult, ShownIsOwnResult
  <1>8. CASE Render
    <2>0. task' = task /\ arc' = arc /\ netmgr' = netmgr
      BY <1>8 DEF Render
    <2>1. ArcIsOwnResult'
      BY <2>0 DEF IInv, ArcIsOwnResult
    <2>2. ASSUME netmgr = NoSession PROVE ShownIsOwnResult'
      <3>1. shown'.arc = NoSession
        BY <1>8, <2>2 DEF Render
      <3>2. QED
        BY <3>1 DEF ShownIsOwnResult
    <2>3. ASSUME netmgr # NoSession PROVE ShownIsOwnResult'
      <3>1. netmgr \in Sessions
        BY <2>3 DEF IInv, TypeOK
      <3>2. shown'.arc = netmgr /\ shown'.mgr = arc[netmgr]
        BY <1>8, <2>3 DEF Render
      <3>3. \/ arc[netmgr] = New
            \/ /\ task[netmgr].pc \in {"repaint", "end"}
               /\ task[netmgr].ret = "ok"
               /\ arc[netmgr] = task[netmgr].tmp
        BY <3>1 DEF IInv, ArcIsOwnResult
      <3>4. QED
        BY <2>0, <3>2, <3>3 DEF ShownIsOwnResult
    <2>4. QED
      BY <1>0, <2>1, <2>2, <2>3 DEF IInv
  <1>9. CASE UNCHANGED vars
    BY <1>9 DEF vars, IInv, TypeOK, ArcIsOwnResult, ShownIsOwnResult
  <1>10. QED
    BY <1>1, <1>2, <1>3, <1>4, <1>5, <1>6, <1>7, <1>8, <1>9 DEF Next, TaskStep

(***************************************************************************)
(* The status bar never shows a foreign or torn manager: for every set of  *)
(* sessions, whatever a frame drew from a session's Arc is the fresh       *)
(* manager or exactly the temp_net that session's own task bootstrapped    *)
(* and swapped in (Publish writes only its own clone of the Arc, and a     *)
(* frame copies one Arc under one guard).                                  *)
(***************************************************************************)
THEOREM ShownIsOwnResultHolds == Spec => []ShownIsOwnResult
  <1>1. IInv => ShownIsOwnResult
    BY DEF IInv
  <1>2. QED
    BY <1>1, IInvInit, IInvStep, PTL DEF Spec

-----------------------------------------------------------------------------
(***************************************************************************)
(* What the refinement to WalletSessions needs beyond IInv.  A session's   *)
(* Arc holds new() until its task swaps: Unlock puts new() there and       *)
(* nothing else writes it before Publish.  A task has no result before    *)
(* bootstrap() and has one after it, so the only task that ends with no  *)
(* result is one UnlockNoConfig sent to "end".  A task about to swap holds *)
(* a manager a successful bootstrap() left.                                *)
(***************************************************************************)
TaskShape ==
    \A s \in Sessions :
        /\ task[s].pc \in {"unspawned", "endpoint", "bootstrap", "publish"} => arc[s] = New
        /\ task[s].pc \in {"unspawned", "endpoint", "bootstrap"} => task[s].ret = "pending"
        /\ task[s].pc \in {"publish", "repaint"} => task[s].ret \in {"ok", "err"}
        /\ task[s].pc = "publish" => task[s].tmp \in Sess!Connected

RInv == IInv /\ TaskShape

\* A bootstrap() that returned Ok left one of the managers WalletSessions
\* calls connected.
LEMMA OkResultConnected ==
  ASSUME NEW r \in BootstrapResults, r.ret = "ok"
  PROVE  r.mgr \in Sess!Connected
  <1>1. r \in BootstrapOk
    BY DEF BootstrapResults, BootstrapErr
  <1>2. Sess!BootstrapOk = BootstrapOk
    BY DEF Sess!BootstrapOk, Sess!BootedManager, Sess!Registries,
           BootstrapOk, BootedManager, Registries
  <1>3. QED
    BY <1>1, <1>2 DEF Sess!Connected

\* Session s's task at pc v with the same tmp and ret as before, every other
\* task unchanged.
TaskMovedTo(s, v) ==
    /\ task'[s] = [pc |-> v, tmp |-> task[s].tmp, ret |-> task[s].ret]
    /\ \A u \in Sessions \ {s} : task'[u] = task[u]

LEMMA TaskMoved ==
  ASSUME NEW s \in Sessions, NEW v \in TaskPcs, task \in [Sessions -> Task],
         task' = [task EXCEPT ![s].pc = v]
  PROVE  TaskMovedTo(s, v)
  BY TaskPcUpdate DEF TaskMovedTo

LEMMA RInvInit == Init => RInv
  <1> SUFFICES ASSUME Init PROVE RInv
    OBVIOUS
  <1>1. TaskShape
    BY DEF Init, TaskShape
  <1>2. QED
    BY <1>1, IInvInit DEF RInv

LEMMA RInvStep == RInv /\ [Next]_vars => RInv'
  <1> SUFFICES ASSUME RInv, [Next]_vars PROVE RInv'
    OBVIOUS
  <1>0. IInv'
    BY IInvStep DEF RInv
  <1> SUFFICES TaskShape'
    BY <1>0 DEF RInv
  <1>t. task \in [Sessions -> Task] /\ arc \in [Sessions -> Manager]
    BY DEF RInv, IInv, TypeOK
  <1>1. ASSUME NEW s \in Sessions, Unlock(s) PROVE TaskShape'
    <2>1. TaskMovedTo(s, "endpoint")
      BY <1>1, <1>t, TaskMoved DEF Unlock, TaskPcs
    <2>2. arc'[s] = New /\ \A u \in Sessions \ {s} : arc'[u] = arc[u]
      BY <1>1, <1>t DEF Unlock
    <2>3. task[s].ret = "pending"
      BY <1>1 DEF Unlock, RInv, TaskShape
    <2>4. QED
      BY <2>1, <2>2, <2>3 DEF TaskMovedTo, RInv, TaskShape
  <1>2. ASSUME NEW s \in Sessions, UnlockNoConfig(s) PROVE TaskShape'
    <2>1. TaskMovedTo(s, "end")
      BY <1>2, <1>t, TaskMoved DEF UnlockNoConfig, TaskPcs
    <2>2. QED
      BY <1>2, <2>1 DEF UnlockNoConfig, TaskMovedTo, RInv, TaskShape
  <1>3. ASSUME NEW s \in Sessions, TaskEndpoint(s) PROVE TaskShape'
    <2>1. TaskMovedTo(s, "bootstrap")
      BY <1>3, <1>t, TaskMoved DEF TaskEndpoint, TaskPcs
    <2>2. QED
      BY <1>3, <2>1 DEF TaskEndpoint, TaskMovedTo, RInv, TaskShape
  <1>4. ASSUME NEW s \in Sessions, TaskBootstrap(s) PROVE TaskShape'
    <2>1. PICK r \in BootstrapResults :
            task' = [task EXCEPT ![s] = [pc |-> IF r.ret = "ok" THEN "publish" ELSE "repaint",
                                         tmp |-> r.mgr, ret |-> r.ret]]
      BY <1>4 DEF TaskBootstrap
    <2>2. task'[s] = [pc |-> IF r.ret = "ok" THEN "publish" ELSE "repaint",
                      tmp |-> r.mgr, ret |-> r.ret]
          /\ \A u \in Sessions \ {s} : task'[u] = task[u]
      BY <1>t, <2>1
    <2>3. r.ret \in {"ok", "err"}
      BY BootstrapResultsType
    <2>4. r.ret = "ok" => r.mgr \in Sess!Connected
      BY OkResultConnected
    <2>5. arc[s] = New
      BY <1>4 DEF TaskBootstrap, RInv, TaskShape
    <2>6. QED
      BY <1>4, <2>2, <2>3, <2>4, <2>5 DEF TaskBootstrap, RInv, TaskShape
  <1>5. ASSUME NEW s \in Sessions, Publish(s) PROVE TaskShape'
    <2>1. TaskMovedTo(s, "repaint")
      BY <1>5, <1>t, TaskMoved DEF Publish, TaskPcs
    <2>2. \A u \in Sessions \ {s} : arc'[u] = arc[u]
      BY <1>5, <1>t DEF Publish
    <2>3. task[s].ret = "ok"
      BY <1>5 DEF Publish, RInv, IInv, ArcIsOwnResult
    <2>4. QED
      BY <2>1, <2>2, <2>3 DEF TaskMovedTo, RInv, TaskShape
  <1>6. ASSUME NEW s \in Sessions, TaskRepaint(s) PROVE TaskShape'
    <2>1. TaskMovedTo(s, "end")
      BY <1>6, <1>t, TaskMoved DEF TaskRepaint, TaskPcs
    <2>2. QED
      BY <1>6, <2>1 DEF TaskRepaint, TaskMovedTo, RInv, TaskShape
  <1>7. CASE LockWallet
    BY <1>7 DEF LockWallet, RInv, TaskShape
  <1>8. CASE Render
    BY <1>8 DEF Render, RInv, TaskShape
  <1>9. CASE UNCHANGED vars
    BY <1>9 DEF vars, RInv, TaskShape
  <1>10. QED
    BY <1>1, <1>2, <1>3, <1>4, <1>5, <1>6, <1>7, <1>8, <1>9 DEF Next, TaskStep

\* WalletSessions' new() is NetworkManager's.
LEMMA SessNew == Sess!New = New
  BY DEF Sess!New, New

LEMMA RefInit == Init => Sess!Init
  <1> SUFFICES ASSUME Init PROVE Sess!Init
    OBVIOUS
  <1>1. Opened = {} /\ Spawned = {}
    BY DEF Init, Opened, Spawned
  <1>2. QED
    BY <1>1, SessNew DEF Init, Sess!Init

\* A task step of session s that leaves it opened, and opened with a
\* network manager, as it was.
LEMMA SetsKept ==
  ASSUME NEW s \in Sessions, NEW v \in TaskPcs, TaskMovedTo(s, v),
         task[s].pc \notin {"unspawned", "end"}, v # "unspawned",
         v = "end" => task[s].ret # "pending"
  PROVE  Opened' = Opened /\ Spawned' = Spawned
  <1>1. /\ task'[s].pc = v /\ task'[s].ret = task[s].ret
        /\ \A u \in Sessions \ {s} : task'[u] = task[u]
    BY DEF TaskMovedTo
  <1>2. ASSUME NEW u \in Sessions
        PROVE  /\ u \in Opened' <=> u \in Opened
               /\ u \in Spawned' <=> u \in Spawned
    <2>1. CASE u = s
      BY <1>1, <2>1 DEF Opened, Spawned
    <2>2. CASE u # s
      BY <1>1, <2>2 DEF Opened, Spawned
    <2>3. QED
      BY <2>1, <2>2
  <1>3. QED
    BY <1>2 DEF Opened, Spawned

LEMMA RefStep == RInv /\ [Next]_vars => [Sess!Next]_Sess!wsvars
  <1> SUFFICES ASSUME RInv, [Next]_vars PROVE [Sess!Next]_Sess!wsvars
    OBVIOUS
  <1>t. task \in [Sessions -> Task] /\ arc \in [Sessions -> Manager]
    BY DEF RInv, IInv, TypeOK
  <1>1. ASSUME NEW s \in Sessions, Unlock(s) PROVE Sess!OpenWithNetwork(s)
    <2>1. TaskMovedTo(s, "endpoint")
      BY <1>1, <1>t, TaskMoved DEF Unlock, TaskPcs
    <2>2. s \notin Opened
      BY <1>1 DEF Unlock, Opened
    <2>3. Opened' = Opened \cup {s} /\ Spawned' = Spawned \cup {s}
      BY <1>1, <2>1 DEF Unlock, TaskMovedTo, Opened, Spawned
    <2>4. QED
      BY <1>1, <2>2, <2>3, SessNew DEF Unlock, Sess!OpenWithNetwork
  <1>2. ASSUME NEW s \in Sessions, UnlockNoConfig(s) PROVE Sess!OpenWithoutNetwork(s)
    <2>1. TaskMovedTo(s, "end")
      BY <1>2, <1>t, TaskMoved DEF UnlockNoConfig, TaskPcs
    <2>2. s \notin Opened
      BY <1>2 DEF UnlockNoConfig, Opened
    <2>3. task[s].ret = "pending"
      BY <1>2 DEF UnlockNoConfig, RInv, TaskShape
    <2>4. Opened' = Opened \cup {s} /\ Spawned' = Spawned
      BY <1>2, <2>1, <2>3 DEF UnlockNoConfig, TaskMovedTo, Opened, Spawned
    <2>5. QED
      BY <1>2, <2>2, <2>4 DEF UnlockNoConfig, Sess!OpenWithoutNetwork
  <1>3. ASSUME NEW s \in Sessions, TaskEndpoint(s) PROVE UNCHANGED Sess!wsvars
    <2>1. TaskMovedTo(s, "bootstrap")
      BY <1>3, <1>t, TaskMoved DEF TaskEndpoint, TaskPcs
    <2>2. Opened' = Opened /\ Spawned' = Spawned
      BY <1>3, <2>1, SetsKept DEF TaskEndpoint, TaskPcs
    <2>3. QED
      BY <1>3, <2>2 DEF TaskEndpoint, Sess!wsvars
  <1>4. ASSUME NEW s \in Sessions, TaskBootstrap(s) PROVE UNCHANGED Sess!wsvars
    <2>1. PICK r \in BootstrapResults :
            task' = [task EXCEPT ![s] = [pc |-> IF r.ret = "ok" THEN "publish" ELSE "repaint",
                                         tmp |-> r.mgr, ret |-> r.ret]]
      BY <1>4 DEF TaskBootstrap
    <2>2. /\ task'[s].pc \in {"publish", "repaint"}
          /\ \A u \in Sessions \ {s} : task'[u] = task[u]
      BY <1>t, <2>1
    <2>3. Opened' = Opened /\ Spawned' = Spawned
      BY <1>4, <2>2 DEF TaskBootstrap, Opened, Spawned
    <2>4. QED
      BY <1>4, <2>3 DEF TaskBootstrap, Sess!wsvars
  <1>5. ASSUME NEW s \in Sessions, Publish(s) PROVE Sess!Connect(s)
    <2>1. TaskMovedTo(s, "repaint")
      BY <1>5, <1>t, TaskMoved DEF Publish, TaskPcs
    <2>2. Opened' = Opened /\ Spawned' = Spawned
      BY <1>5, <2>1, SetsKept DEF Publish, TaskPcs
    <2>3. s \in Spawned
      BY <1>5 DEF Publish, Opened, Spawned
    <2>4. arc[s] = New /\ task[s].tmp \in Sess!Connected
      BY <1>5 DEF Publish, RInv, TaskShape
    <2>5. QED
      BY <1>5, <2>2, <2>3, <2>4, SessNew DEF Publish, Sess!Connect
  <1>6. ASSUME NEW s \in Sessions, TaskRepaint(s) PROVE UNCHANGED Sess!wsvars
    <2>1. TaskMovedTo(s, "end")
      BY <1>6, <1>t, TaskMoved DEF TaskRepaint, TaskPcs
    <2>2. task[s].ret # "pending"
      BY <1>6 DEF TaskRepaint, RInv, TaskShape
    <2>3. Opened' = Opened /\ Spawned' = Spawned
      BY <1>6, <2>1, <2>2, SetsKept DEF TaskRepaint, TaskPcs
    <2>4. QED
      BY <1>6, <2>3 DEF TaskRepaint, Sess!wsvars
  <1>7. CASE LockWallet
    <2>1. Opened' = Opened /\ Spawned' = Spawned
      BY <1>7 DEF LockWallet, Opened, Spawned
    <2>2. QED
      BY <1>7, <2>1 DEF LockWallet, Sess!Close, Sess!Next
  <1>8. CASE Render
    <2>1. Opened' = Opened /\ Spawned' = Spawned
      BY <1>8 DEF Render, Opened, Spawned
    <2>2. QED
      BY <1>8, <2>1, SessNew DEF Render, Sess!Draw, Sess!Next
  <1>9. CASE UNCHANGED vars
    BY <1>9 DEF vars, Sess!wsvars, Opened, Spawned
  <1>10. QED
    BY <1>1, <1>2, <1>3, <1>4, <1>5, <1>6, <1>7, <1>8, <1>9
       DEF Next, TaskStep, Sess!Next

(***************************************************************************)
(* The wallet app implements WalletSessions for every set of sessions: its *)
(* background tasks are invisible to the app except for the swap, which   *)
(* replaces a session's new() manager at most once, by a successful        *)
(* bootstrap() result, and only for a session unlocked with a config.      *)
(***************************************************************************)
THEOREM SessionsRefinementHolds == Spec => ImplementsWalletSessions
  BY RInvInit, RInvStep, RefInit, RefStep, PTL DEF Spec, ImplementsWalletSessions, Sess!Spec

=============================================================================

------------------------ MODULE AgentLifecycleProofs ------------------------
(***************************************************************************)
(* Proofs about AgentLifecycle, for any number of processes and starts,    *)
(* with and without crashes.                                               *)
(*                                                                         *)
(* SocketIsMine and LocksExclude are inductive given the types.  That a    *)
(* socket outlives only a crash needs to be said of every moment: without  *)
(* a crash, the process whose socket is there is between bind and the end  *)
(* of its clean-up.                                                        *)
(***************************************************************************)
EXTENDS AgentLifecycle, TLAPS

\* The lock excludes: two processes past it opened two different files, of
\* which one at most is the pid file (Daemonize::start, controller/agent.rs:26).
LocksExclude ==
    \A p, q \in Locking : opened[p] = opened[q] => p = q

\* The states of a process that has bound the socket and not yet removed it.
Bound == {"serving", "draining", "unpid", "unsock"}

\* Without a crash, whoever bound the socket that is there is still at it.
SocketHasOwner == (clean /\ socket # NoFile) => pc[socket] \in Bound

LifecycleInv ==
    /\ TypeOK
    /\ SocketIsMine
    /\ LocksExclude
    /\ SocketHasOwner

LEMMA InitLifecycleInv == Init => LifecycleInv
BY LifecycleAssumption
   DEF Init, LifecycleInv, TypeOK, PC, SocketIsMine, LocksExclude, Locking, SocketHasOwner

\* The files and what the processes opened stay well typed.
LEMMA NextTypeOK == TypeOK /\ [Next]_vars => TypeOK'
<1> SUFFICES ASSUME TypeOK, [Next]_vars PROVE TypeOK'
  OBVIOUS
<1> USE DEF TypeOK, PC
<1>1. ASSUME NEW p \in Process, Start(p)
      PROVE  TypeOK'
  BY <1>1, LifecycleAssumption DEF Start, Goto
<1>2. ASSUME NEW p \in Process, OpenPidFile(p)
      PROVE  TypeOK'
  <2>1. inodes' \in Nat /\ inodes <= inodes' /\ pidfile' \in 1..inodes'
    BY <1>2, LifecycleAssumption DEF OpenPidFile
  <2>2. opened' \in [Process -> 1..inodes' \cup {NoFile}]
    BY <1>2, <2>1 DEF OpenPidFile
  <2>3. QED
    BY <1>2, <2>1, <2>2 DEF OpenPidFile, Goto
<1>3. ASSUME NEW p \in Process, LockPidFile(p) \/ LockRefused(p) \/ Bind(p) \/ BindRefused(p)
      PROVE  TypeOK'
  BY <1>3 DEF LockPidFile, LockRefused, Bind, BindRefused, Goto, Leave
<1>4. ASSUME NEW p \in Process, ShutDown(p) \/ Cleanup(p) \/ Kill(p)
      PROVE  TypeOK'
  BY <1>4 DEF ShutDown, Cleanup, Drained, RemovePidFile, RemovePidFilePanics, RemoveSocket,
              Kill, Goto, Leave
<1>5. CASE UNCHANGED vars
  BY <1>5 DEF vars
<1>6. QED
  BY <1>1, <1>2, <1>3, <1>4, <1>5 DEF Next, Daemonize, Serve

\* Only Bind takes the path of the socket, when nothing is there, and only
\* its owner gives it back.
LEMMA NextSocketIsMine == TypeOK /\ SocketIsMine /\ [Next]_vars => SocketIsMine'
<1> SUFFICES ASSUME TypeOK, SocketIsMine, [Next]_vars PROVE SocketIsMine'
  OBVIOUS
<1>1. ASSUME NEW p \in Process, Start(p) \/ Daemonize(p) \/ BindRefused(p) \/ Kill(p)
      PROVE  SocketIsMine'
  BY <1>1 DEF Start, Daemonize, OpenPidFile, LockPidFile, LockRefused, BindRefused, Kill,
              Goto, Leave, SocketIsMine, TypeOK
<1>2. ASSUME NEW p \in Process, Bind(p)
      PROVE  SocketIsMine'
  <2>1. \A q \in Process : pc[q] \notin Bound
    BY <1>2, LifecycleAssumption DEF Bind, SocketIsMine, Bound
  <2>2. QED
    BY <1>2, <2>1 DEF Bind, Goto, SocketIsMine, TypeOK, Bound
<1>3. ASSUME NEW p \in Process,
             ShutDown(p) \/ Drained(p) \/ RemovePidFile(p) \/ RemovePidFilePanics(p)
      PROVE  SocketIsMine'
  BY <1>3 DEF ShutDown, Drained, RemovePidFile, RemovePidFilePanics, Goto, Leave,
              SocketIsMine, TypeOK
<1>4. ASSUME NEW p \in Process, RemoveSocket(p)
      PROVE  SocketIsMine'
  <2>1. \A q \in Process : q # p => pc[q] \notin Bound
    BY <1>4 DEF RemoveSocket, SocketIsMine, Bound
  <2>2. QED
    BY <1>4, <2>1 DEF RemoveSocket, Leave, SocketIsMine, TypeOK, Bound
<1>5. CASE UNCHANGED vars
  BY <1>5 DEF vars, SocketIsMine
<1>6. QED
  BY <1>1, <1>2, <1>3, <1>4, <1>5 DEF Next, Serve, Cleanup

\* A lock is taken only where no other process has one.
LEMMA NextLocksExclude == TypeOK /\ LocksExclude /\ [Next]_vars => LocksExclude'
<1> SUFFICES ASSUME TypeOK, LocksExclude, [Next]_vars PROVE LocksExclude'
  OBVIOUS
<1>1. ASSUME Locking' \subseteq Locking, \A q \in Locking' : opened'[q] = opened[q]
      PROVE  LocksExclude'
  BY <1>1 DEF LocksExclude
<1>2. ASSUME NEW p \in Process, LockPidFile(p)
      PROVE  LocksExclude'
  <2>1. Locking' \subseteq Locking \cup {p} /\ opened' = opened
    BY <1>2 DEF LockPidFile, Goto, Locking, TypeOK
  <2>2. \A q \in Locking : opened[q] # opened[p]
    BY <1>2 DEF LockPidFile
  <2>3. QED
    BY <2>1, <2>2 DEF LocksExclude
<1>3. ASSUME NEW p \in Process, Start(p) \/ OpenPidFile(p)
      PROVE  LocksExclude'
  BY <1>1, <1>3 DEF Start, OpenPidFile, Goto, Locking, TypeOK
<1>4. ASSUME NEW p \in Process,
             Bind(p) \/ ShutDown(p) \/ Drained(p) \/ RemovePidFile(p)
      PROVE  LocksExclude'
  BY <1>1, <1>4 DEF Bind, ShutDown, Drained, RemovePidFile, Goto, Locking, TypeOK
<1>5. ASSUME NEW p \in Process,
             \/ LockRefused(p) \/ BindRefused(p) \/ RemovePidFilePanics(p)
             \/ RemoveSocket(p) \/ Kill(p)
      PROVE  LocksExclude'
  <2>1. Leave(p)
    BY <1>5 DEF LockRefused, BindRefused, RemovePidFilePanics, RemoveSocket, Kill
  <2>2. QED
    BY <1>1, <2>1 DEF Leave, Locking, TypeOK
<1>6. CASE UNCHANGED vars
  BY <1>1, <1>6 DEF vars, Locking
<1>7. QED
  BY <1>2, <1>3, <1>4, <1>5, <1>6 DEF Next, Daemonize, Serve, Cleanup

\* Without a crash a process leaves the socket only by removing it.
LEMMA NextSocketHasOwner ==
    TypeOK /\ SocketIsMine /\ SocketHasOwner /\ [Next]_vars => SocketHasOwner'
<1> SUFFICES ASSUME TypeOK, SocketIsMine, SocketHasOwner, [Next]_vars PROVE SocketHasOwner'
  OBVIOUS
<1> USE DEF Bound
<1>1. ASSUME NEW p \in Process, Start(p) \/ Daemonize(p) \/ BindRefused(p)
      PROVE  SocketHasOwner'
  BY <1>1 DEF Start, Daemonize, OpenPidFile, LockPidFile, LockRefused, BindRefused,
              Goto, Leave, SocketHasOwner, TypeOK
<1>2. ASSUME NEW p \in Process,
             Bind(p) \/ ShutDown(p) \/ Drained(p) \/ RemovePidFile(p)
      PROVE  SocketHasOwner'
  BY <1>2 DEF Bind, ShutDown, Drained, RemovePidFile, Goto, SocketHasOwner, TypeOK
<1>3. ASSUME NEW p \in Process, RemovePidFilePanics(p) \/ RemoveSocket(p) \/ Kill(p)
      PROVE  SocketHasOwner'
  BY <1>3 DEF RemovePidFilePanics, RemoveSocket, Kill, SocketHasOwner
<1>4. CASE UNCHANGED vars
  BY <1>4 DEF vars, SocketHasOwner
<1>5. QED
  BY <1>1, <1>2, <1>3, <1>4 DEF Next, Serve, Cleanup

LEMMA LifecycleInvHolds == Spec => []LifecycleInv
<1>1. LifecycleInv /\ [Next]_vars => LifecycleInv'
  BY NextTypeOK, NextSocketIsMine, NextLocksExclude, NextSocketHasOwner DEF LifecycleInv
<1>2. QED
  BY <1>1, InitLifecycleInv, PTL DEF Spec

-----------------------------------------------------------------------------
(* The results.                                                            *)

\* The state keeps its types.
THEOREM TypeCorrect == Spec => []TypeOK
<1>1. LifecycleInv => TypeOK
  BY DEF LifecycleInv
<1>2. QED
  BY <1>1, LifecycleInvHolds, PTL

\* However many agents are started, stopped and killed, the path of the
\* socket leads to the one that serves, and only its owner removes it.
THEOREM SocketIsMineHolds == Spec => []SocketIsMine
<1>1. LifecycleInv => SocketIsMine
  BY DEF LifecycleInv
<1>2. QED
  BY <1>1, LifecycleInvHolds, PTL

\* No two processes hold the lock of one pid file.
THEOREM LocksExcludeHolds == Spec => []LocksExclude
<1>1. LifecycleInv => LocksExclude
  BY DEF LifecycleInv
<1>2. QED
  BY <1>1, LifecycleInvHolds, PTL

\* When all agents are gone and none was killed or panicked, no socket is
\* left to keep the next one from starting.
THEOREM SocketOutlivesOnlyCrashHolds == Spec => []SocketOutlivesOnlyCrash
<1>1. LifecycleInv => SocketOutlivesOnlyCrash
  BY DEF LifecycleInv, TypeOK, SocketHasOwner, SocketOutlivesOnlyCrash, Bound
<1>2. QED
  BY <1>1, LifecycleInvHolds, PTL

-----------------------------------------------------------------------------
(* AgentLifecycle implements AgentLife.                                    *)

\* Past bind there is one process, which decides what the clients see.
OneDecides ==
    /\ \A p \in Process : pc[p] = "serving" => Agent = "up"
    /\ \A p \in Process : pc[p] = "draining" => Agent = "draining"
    /\ (\A p \in Process : pc[p] \notin {"serving", "draining"}) => Agent = "down"

LEMMA AgentIs == LifecycleInv => OneDecides
BY DEF LifecycleInv, SocketIsMine, OneDecides, Agent, IsRunning

\* A step of a process that is not seen before, and not seen after.
LEMMA UnseenStep ==
    ASSUME LifecycleInv, LifecycleInv', NEW p \in Process,
           pc[p] \notin {"serving", "draining"},
           pc' = [pc EXCEPT ![p] = pc'[p]], pc'[p] \notin {"serving", "draining"}
    PROVE  UNCHANGED Agent
<1>1. \A q \in Process : q # p => pc'[q] = pc[q]
  BY DEF LifecycleInv, TypeOK
<1>2. OneDecides /\ OneDecides'
  BY AgentIs, PTL
<1>3. CASE \E q \in Process : pc[q] = "serving"
  BY <1>1, <1>2, <1>3 DEF OneDecides
<1>4. CASE \E q \in Process : pc[q] = "draining"
  BY <1>1, <1>2, <1>4 DEF OneDecides
<1>5. CASE \A q \in Process : pc[q] \notin {"serving", "draining"}
  BY <1>1, <1>2, <1>5 DEF OneDecides
<1>6. QED
  BY <1>3, <1>4, <1>5

\* A step of the process that is seen.
LEMMA SeenStep ==
    ASSUME LifecycleInv, LifecycleInv', NEW p \in Process,
           pc[p] \in {"bind", "serving", "draining"},
           pc[p] = "bind" => \A q \in Process : pc[q] \notin Bound,
           pc' = [pc EXCEPT ![p] = pc'[p]]
    PROVE  /\ Agent = CASE pc[p] = "serving" -> "up" [] pc[p] = "draining" -> "draining"
                      [] OTHER -> "down"
           /\ Agent' = CASE pc'[p] = "serving" -> "up" [] pc'[p] = "draining" -> "draining"
                       [] OTHER -> "down"
<1>1. \A q \in Process : q # p => pc'[q] = pc[q] /\ pc[q] \notin {"serving", "draining"}
  <2>1. pc[p] # "bind" => \A q \in Process : q # p => pc[q] \notin Bound
    BY DEF LifecycleInv, SocketIsMine, Bound
  <2>2. QED
    BY <2>1 DEF LifecycleInv, TypeOK, Bound
<1>2. OneDecides /\ OneDecides'
  BY AgentIs, PTL
<1>3. QED
  BY <1>1, <1>2 DEF OneDecides

LEMMA NextLife == LifecycleInv /\ LifecycleInv' /\ [Next]_vars => [Life!Next]_Agent
<1> SUFFICES ASSUME LifecycleInv, LifecycleInv', [Next]_vars PROVE [Life!Next]_Agent
  OBVIOUS
<1> USE DEF Life!Next, Life!Start, Life!Stop, Life!Exit, Life!Kill
<1>0. TypeOK
  BY DEF LifecycleInv
<1>1. ASSUME NEW p \in Process,
             \/ Start(p) \/ Daemonize(p) \/ BindRefused(p)
             \/ RemovePidFile(p) \/ RemovePidFilePanics(p) \/ RemoveSocket(p)
      PROVE  UNCHANGED Agent
  <2>1. /\ pc[p] \notin {"serving", "draining"} /\ pc'[p] \notin {"serving", "draining"}
        /\ pc' = [pc EXCEPT ![p] = pc'[p]]
    BY <1>0, <1>1 DEF TypeOK, Start, Daemonize, OpenPidFile, LockPidFile, LockRefused,
       BindRefused, RemovePidFile, RemovePidFilePanics, RemoveSocket, Goto, Leave
  <2>2. QED
    BY <2>1, UnseenStep
<1>2. ASSUME NEW p \in Process, Bind(p)
      PROVE  Life!Start
  <2>1. /\ pc[p] = "bind" /\ pc'[p] = "serving" /\ pc' = [pc EXCEPT ![p] = pc'[p]]
        /\ socket = NoFile
    BY <1>0, <1>2 DEF TypeOK, Bind, Goto
  <2>2. \A q \in Process : pc[q] \notin Bound
    BY <2>1, LifecycleAssumption DEF LifecycleInv, SocketIsMine, Bound
  <2>3. QED
    BY <2>1, <2>2, SeenStep
<1>3. ASSUME NEW p \in Process, ShutDown(p)
      PROVE  Life!Stop
  <2>1. /\ pc[p] = "serving" /\ pc'[p] = "draining" /\ pc' = [pc EXCEPT ![p] = pc'[p]]
    BY <1>0, <1>3 DEF TypeOK, ShutDown, Goto
  <2>2. QED
    BY <2>1, SeenStep
<1>4. ASSUME NEW p \in Process, Drained(p)
      PROVE  Life!Exit
  <2>1. /\ pc[p] = "draining" /\ pc'[p] = "unpid" /\ pc' = [pc EXCEPT ![p] = pc'[p]]
    BY <1>0, <1>4 DEF TypeOK, Drained, Goto
  <2>2. QED
    BY <2>1, SeenStep
<1>5. ASSUME NEW p \in Process, Kill(p)
      PROVE  Life!Kill \/ UNCHANGED Agent
  <2>1. Crashes /\ pc'[p] = "out" /\ pc' = [pc EXCEPT ![p] = pc'[p]]
    BY <1>0, <1>5 DEF TypeOK, Kill, Leave
  <2>2. CASE pc[p] \in {"serving", "draining"}
    BY <2>1, <2>2, SeenStep
  <2>3. CASE pc[p] \notin {"serving", "draining"}
    BY <2>1, <2>3, UnseenStep
  <2>4. QED
    BY <2>2, <2>3
<1>6. CASE UNCHANGED vars
  BY <1>6 DEF vars, Agent, IsRunning
<1>7. QED
  BY <1>1, <1>2, <1>3, <1>4, <1>5, <1>6 DEF Next, Serve, Cleanup

\* Whatever processes start, are refused, stop, panic and are killed, the
\* clients see one agent, whose last request is answered before the next one
\* takes its first.
THEOREM ImplementsLifeHolds == Spec => ImplementsLife
<1>1. Init => Life!Init
  BY LifecycleAssumption DEF Init, Life!Init, Agent, IsRunning
<1>2. LifecycleInv /\ LifecycleInv' /\ [Next]_vars => [Life!Next]_Agent
  BY NextLife
<1>3. QED
  BY <1>1, <1>2, LifecycleInvHolds, PTL DEF Spec, ImplementsLife, Life!Spec
=============================================================================

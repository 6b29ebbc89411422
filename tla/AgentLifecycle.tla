--------------------------- MODULE AgentLifecycle ---------------------------
(***************************************************************************)
(* Starting and stopping the agent: start of src/src/controller/agent.rs   *)
(* and serve of src/src/agent/server.rs.                                   *)
(*                                                                         *)
(* Two files in XDG_RUNTIME_DIR coordinate the agents of a user.  The pid  *)
(* file is locked by the Daemonize crate, which opens it, making it if     *)
(* needed, and then takes a lock on what it opened; the lock goes with the *)
(* process.  The socket is bound by the server, which fails if the path    *)
(* exists, and stays behind when the process dies.  Each process here is   *)
(* one run of `shrine agent start' and the daemon it becomes; it can run   *)
(* again.                                                                  *)
(***************************************************************************)
EXTENDS Naturals, FiniteSets

CONSTANTS
    Process,        \* the processes that start an agent
    NoFile,         \* the path leads to no file
    Crashes,        \* whether agents are killed
    MaxStarts       \* bound on the number of starts

ASSUME LifecycleAssumption ==
    /\ NoFile \notin Process /\ NoFile \notin Nat
    /\ Crashes \in BOOLEAN
    /\ MaxStarts \in Nat

VARIABLES
    pc,             \* where each process is
    pidfile,        \* the inode at the path of the pid file
    opened,         \* the inode each process has opened as its pid file
    inodes,         \* how many inodes were made
    socket,         \* the process whose socket is at the path of the socket
    starts,         \* how many starts there were
    clean           \* history: no agent was killed, or panicked

vars == <<pc, pidfile, opened, inodes, socket, starts, clean>>

PC == {"out", "open", "lock", "bind", "serving", "draining", "unpid", "unsock"}

\* The processes that hold the lock of the inode they opened.
Locking == {p \in Process : pc[p] \in {"bind", "serving", "draining", "unpid", "unsock"}}

\* A client that connects to the socket gets an answer: is_running.
IsRunning == \E p \in Process : socket = p /\ pc[p] = "serving"

\* p is gone: it prints an error, or not, and its lock is released.
Leave(p) ==
    /\ pc' = [pc EXCEPT ![p] = "out"]
    /\ opened' = [opened EXCEPT ![p] = NoFile]

Goto(p, from, to) ==
    /\ pc[p] = from
    /\ pc' = [pc EXCEPT ![p] = to]

-----------------------------------------------------------------------------
Init ==
    /\ pc = [p \in Process |-> "out"]
    /\ pidfile = NoFile
    /\ opened = [p \in Process |-> NoFile]
    /\ inodes = 0
    /\ socket = NoFile
    /\ starts = 0
    /\ clean = TRUE

\* start: nothing to do when an agent answers.
Start(p) ==
    /\ starts < MaxStarts
    /\ ~IsRunning
    /\ Goto(p, "out", "open")
    /\ starts' = starts + 1
    /\ UNCHANGED <<pidfile, opened, inodes, socket, clean>>

\* Mutant of OpenPidFile: what is opened is not what is at the path.
OpenNextPidFile(p) ==
    /\ Goto(p, "open", "lock")
    /\ opened' = [opened EXCEPT ![p] = inodes + 1]
    /\ UNCHANGED <<pidfile, inodes, socket, starts, clean>>

\* Daemonize opens the pid file, making it if it is not there.
OpenPidFile(p) ==
    /\ Goto(p, "open", "lock")
    /\ IF pidfile = NoFile
         THEN /\ inodes' = inodes + 1
              /\ pidfile' = inodes + 1
         ELSE UNCHANGED <<inodes, pidfile>>
    /\ opened' = [opened EXCEPT ![p] = pidfile']
    /\ UNCHANGED <<socket, starts, clean>>

\* ... and locks it, without waiting.
LockPidFile(p) ==
    /\ Goto(p, "lock", "bind")
    /\ \A q \in Locking : opened[q] # opened[p]
    /\ UNCHANGED <<pidfile, opened, inodes, socket, starts, clean>>

\* Mutant of LockRefused: the lock is tried again.
LockRetried(p) ==
    /\ pc[p] = "lock"
    /\ \E q \in Locking : opened[q] = opened[p]
    /\ UNCHANGED vars

\* start prints the error of Daemonize and returns Ok.
LockRefused(p) ==
    /\ pc[p] = "lock"
    /\ \E q \in Locking : opened[q] = opened[p]
    /\ Leave(p)
    /\ UNCHANGED <<pidfile, inodes, socket, starts, clean>>

\* Mutant of Bind: a socket that is there is removed first.
BindOver(p) ==
    /\ Goto(p, "bind", "serving")
    /\ socket' = p
    /\ UNCHANGED <<pidfile, opened, inodes, starts, clean>>

\* Server::bind_unix
Bind(p) ==
    /\ Goto(p, "bind", "serving")
    /\ socket = NoFile
    /\ socket' = p
    /\ UNCHANGED <<pidfile, opened, inodes, starts, clean>>

\* "Could not open socket.": the pid file is left where it is.
BindRefused(p) ==
    /\ pc[p] = "bind"
    /\ socket # NoFile
    /\ Leave(p)
    /\ UNCHANGED <<pidfile, inodes, socket, starts, clean>>

\* Mutant of ShutDown: the socket goes with the listener.
ShutDownUnlinks(p) ==
    /\ Goto(p, "serving", "draining")
    /\ socket' = NoFile
    /\ UNCHANGED <<pidfile, opened, inodes, starts, clean>>

\* DELETE /, SIGTERM or SIGINT: the listener is closed, the requests being
\* served go on.
ShutDown(p) ==
    /\ Goto(p, "serving", "draining")
    /\ UNCHANGED <<pidfile, opened, inodes, socket, starts, clean>>

\* The last request is answered.
Drained(p) ==
    /\ Goto(p, "draining", "unpid")
    /\ UNCHANGED <<pidfile, opened, inodes, socket, starts, clean>>

\* Mutant of RemovePidFile: the process ends there.
RemoveOnlyPidFile(p) ==
    /\ pc[p] = "unpid"
    /\ pidfile # NoFile
    /\ pidfile' = NoFile
    /\ Leave(p)
    /\ UNCHANGED <<inodes, socket, starts, clean>>

\* remove_file(pidfile).unwrap() removes what is at the path now.
RemovePidFile(p) ==
    /\ Goto(p, "unpid", "unsock")
    /\ pidfile # NoFile
    /\ pidfile' = NoFile
    /\ UNCHANGED <<opened, inodes, socket, starts, clean>>

\* ... and panics if nothing is there: the socket is not removed.
RemovePidFilePanics(p) ==
    /\ pc[p] = "unpid"
    /\ pidfile = NoFile
    /\ Leave(p)
    /\ clean' = FALSE
    /\ UNCHANGED <<pidfile, inodes, socket, starts>>

\* Mutant of RemoveSocket: the socket is not removed.
LeaveSocket(p) ==
    /\ pc[p] = "unsock"
    /\ Leave(p)
    /\ UNCHANGED <<pidfile, inodes, socket, starts, clean>>

\* remove_file(socketfile).unwrap(), and the process ends.
RemoveSocket(p) ==
    /\ pc[p] = "unsock"
    /\ socket' = NoFile
    /\ Leave(p)
    /\ UNCHANGED <<pidfile, inodes, starts, clean>>

\* The process is killed: both files stay.
Kill(p) ==
    /\ Crashes
    /\ pc[p] # "out"
    /\ Leave(p)
    /\ clean' = FALSE
    /\ UNCHANGED <<pidfile, inodes, socket, starts>>

Daemonize(p) == OpenPidFile(p) \/ LockPidFile(p) \/ LockRefused(p)

Serve(p) == Bind(p) \/ BindRefused(p)

Cleanup(p) == Drained(p) \/ RemovePidFile(p) \/ RemovePidFilePanics(p) \/ RemoveSocket(p)

Next ==
    \E p \in Process :
        Start(p) \/ Daemonize(p) \/ Serve(p) \/ ShutDown(p) \/ Cleanup(p) \/ Kill(p)

Spec == Init /\ [][Next]_vars

\* A running process takes its next step; nobody has to start or stop agents.
\* A request being served ends, so that the server is drained at last.
Fairness == \A p \in Process : WF_vars(Daemonize(p) \/ Serve(p) \/ Cleanup(p))

FairSpec == Spec /\ Fairness

-----------------------------------------------------------------------------
(* The refinement mapping: what the clients see of the agents.  One that   *)
(* cleans up, all its requests answered, is no longer seen.                *)

Agent ==
    IF IsRunning THEN "up"
    ELSE IF \E p \in Process : pc[p] = "draining" THEN "draining"
    ELSE "down"

Life == INSTANCE AgentLife WITH agent <- Agent

-----------------------------------------------------------------------------
(* Properties.                                                             *)

\* Types of the state.
TypeOK ==
    /\ pc \in [Process -> PC]
    /\ pidfile \in 1..inodes \cup {NoFile}
    /\ opened \in [Process -> 1..inodes \cup {NoFile}]
    /\ inodes \in Nat
    /\ socket \in Process \cup {NoFile}
    /\ starts \in 0..MaxStarts
    /\ clean \in BOOLEAN

\* From bind to the end of the clean-up the path of the socket leads to the
\* agent that bound it: clients reach the agent that serves, an agent that
\* ends never removes the socket of the next, and two agents never serve at
\* once, although two can hold the locks of two pid files.
SocketIsMine ==
    \A p \in Process :
        pc[p] \in {"serving", "draining", "unpid", "unsock"} => socket = p

\* A socket without an agent is the mark of one that was killed or panicked.
SocketOutlivesOnlyCrash ==
    (clean /\ \A p \in Process : pc[p] = "out") => socket = NoFile

\* To the clients there is one agent, whatever processes come and go: the next
\* one takes no request before the last one has answered all of its own, which
\* is what System relies on.
ImplementsLife == Life!Spec

\* A start ends: the process serves, or it is gone; and an agent told to stop
\* is gone in the end.
StartsAndStopsEnd ==
    \A p \in Process :
        /\ pc[p] = "open" ~> pc[p] \in {"serving", "out"}
        /\ pc[p] = "draining" ~> pc[p] = "out"

\* "Starts shrine agent" (cli.rs): a start is followed by a time when an agent
\* runs, also if several start at once and refuse each other; unless one that
\* was told to stop has yet to end, or one was killed or panicked.
StartLeadsToAgent ==
    LET ending == \E q \in Process : pc[q] \in {"draining", "unpid", "unsock"}
    IN  \A p \in Process : pc[p] = "open" ~> IsRunning \/ ending \/ ~clean
=============================================================================

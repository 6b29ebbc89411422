------------------------------- MODULE System -------------------------------
(***************************************************************************)
(* The commands of one user, the agent, and the shrine file they share:    *)
(* Vault, composed with the life of the agent.                             *)
(*                                                                         *)
(* set and rm ask whether an agent runs (is_running) and only then decide  *)
(* how to work: they load and save the file themselves, or a handler of    *)
(* the agent does it for them.  Between the question and the work the      *)
(* agent may start, stop or be killed.  An agent that stops takes no new   *)
(* request and waits for its handlers; one that is killed takes them with  *)
(* it.  The other commands never ask.  The user runs one command after     *)
(* another, and may interrupt one (Ctrl-C): a command that works itself is *)
(* then gone, but a handler does not notice that its client has left.      *)
(*                                                                         *)
(* AgentLifecycle, where the pid file and the socket coordinate agents,    *)
(* implements the AgentLife this module is built from; how passwords reach *)
(* the agent is in AgentProtocol.                                          *)
(***************************************************************************)
EXTENDS Vault

CONSTANT NoWorker   \* nobody works on a command of the user

ASSUME SystemAssumption == NoWorker \notin Process

VARIABLES
    agent,          \* whether the agent is down, up or draining
    route,          \* what is_running said to the command that has not begun
    worker,         \* the process that works on the user's command
    answer,         \* what the last command said: "none", "ok" or "error"
    patient         \* history: no command was interrupted while a handler worked

Life == INSTANCE AgentLife WITH Crashes <- Faults

user == <<route, worker, answer>>
sysvars == <<vars, agent, user, patient>>

SystemInit ==
    /\ Init
    /\ Life!Init
    /\ route = "none"
    /\ worker = NoWorker
    /\ answer = "none"
    /\ patient = TRUE

-----------------------------------------------------------------------------
(* The user's commands.                                                    *)

\* client.is_running() of set and rm
IsRunning ==
    /\ worker = NoWorker /\ route = "none"
    /\ runs < MaxRuns
    /\ route' = IF agent = "up" THEN "agent" ELSE "direct"
    /\ UNCHANGED <<vars, agent, worker, answer, patient>>

Employ(p) ==
    /\ worker = NoWorker
    /\ worker' = p
    /\ route' = "none"
    /\ UNCHANGED <<agent, answer, patient>>

\* The command works itself.
RunDirect(p) ==
    /\ Employ(p)
    /\ \/ /\ route = "direct"
          /\ \E key \in Key, given \in BOOLEAN :
                \/ \E value \in Value : Set(p, key, value, given)
                \/ Rm(p, key, given)
       \/ /\ route = "none"
          /\ \/ \E force, git \in BOOLEAN, password \in Password \cup {NoPassword} :
                   Init_(p, force, password, git)
             \/ \E setting \in {"git.enabled", "git.commit.auto"},
                   on, given \in BOOLEAN : ConfigSet(p, setting, on, given)
             \/ \E sets \in [Key -> Value], given \in BOOLEAN : Import(p, sets, given)
             \/ \E password \in Password \cup {NoPassword}, keep, given \in BOOLEAN :
                   Convert(p, password, keep, given)

\* A handler of the agent takes the request.
RunInAgent(p) ==
    /\ Employ(p)
    /\ route = "agent"
    /\ agent = "up"
    /\ \E key \in Key :
          \/ \E value \in Value : PutKey(p, key, value)
          \/ DeleteKey(p, key)

\* The command is refused before it touches anything, or nobody listens on
\* the socket any more ("communication problem").
Refused ==
    /\ worker = NoWorker /\ route # "none"
    /\ route' = "none"
    /\ answer' = "error"
    /\ UNCHANGED <<vars, agent, worker, patient>>

\* The work of p ends; if p is the user's worker, the command says so.
Report(p, result) ==
    IF p = worker THEN worker' = NoWorker /\ answer' = result
                  ELSE UNCHANGED <<worker, answer>>

Succeed(p) ==
    /\ (Write(p) /\ ~job[p].commit) \/ Commit(p)
    /\ Report(p, IF p \in Handlers /\ job[p].op = "rm" THEN "error" ELSE "ok")

Fail(p) ==
    /\ SavePanics(p) \/ GiveUp(p) \/ WriteFails(p) \/ CommitFails(p)
    /\ Report(p, "error")

GoOn(p) ==
    /\ Create(p) \/ (Write(p) /\ job[p].commit) \/ Stage(p) \/ ReadHead(p)
    /\ UNCHANGED <<worker, answer>>

\* Mutant of Work: an agent that stops lets go of its requests.
WorkWhileUp(p) ==
    /\ p \in Handlers => agent = "up"
    /\ Succeed(p) \/ Fail(p) \/ GoOn(p)
    /\ UNCHANGED <<agent, route, patient>>

\* One step of a command or handler.  The answer to a removal by the agent
\* is one that the client takes for an error.
Work(p) ==
    /\ Succeed(p) \/ Fail(p) \/ GoOn(p)
    /\ UNCHANGED <<agent, route, patient>>

\* Ctrl-C while the command works itself.
InterruptDirect(p) ==
    /\ worker = p /\ p \notin Handlers
    /\ Crash(p)
    /\ Report(p, "error")
    /\ UNCHANGED <<agent, route, patient>>

\* Ctrl-C while the command waits for the agent: the handler works on.
InterruptAgent ==
    /\ worker \in Handlers
    /\ worker' = NoWorker
    /\ patient' = FALSE
    /\ UNCHANGED <<vars, agent, route, answer>>

-----------------------------------------------------------------------------
(* The agent.                                                              *)

StartAgent == Life!Start /\ UNCHANGED <<vars, user, patient>>

StopAgent == Life!Stop /\ UNCHANGED <<vars, user, patient>>

\* Mutant of Exit: the agent does not wait for its handlers.
ExitAtOnce ==
    /\ agent = "draining"
    /\ agent' = "down"
    /\ worker' = IF worker \in Handlers THEN NoWorker ELSE worker
    /\ UNCHANGED <<vars, route, answer, patient>>

\* Every request is answered.
Exit ==
    /\ Life!Exit
    /\ Working \cap Handlers = {}
    /\ UNCHANGED <<vars, user, patient>>

\* The agent is killed, and its handlers with it.
Kill ==
    LET gone == Working \cap Handlers IN
    /\ Life!Kill
    /\ pc' = [p \in Process |-> IF p \in gone THEN "idle" ELSE pc[p]]
    /\ job' = [p \in Process |-> IF p \in gone THEN NoJob ELSE job[p]]
    /\ blob' = [p \in Process |-> IF p \in gone THEN Missing ELSE blob[p]]
    /\ base' = [p \in Process |-> IF p \in gone THEN 0 ELSE base[p]]
    /\ intact' = (intact /\ \A p \in gone : pc[p] # "write")
    /\ IF worker \in gone
         THEN worker' = NoWorker /\ answer' = "error"
         ELSE UNCHANGED <<worker, answer>>
    /\ UNCHANGED <<file, commits, uuids, runs, expected, reported, route, patient>>

Agent == StartAgent \/ StopAgent \/ Exit \/ Kill

SystemNext ==
    \/ IsRunning \/ Refused \/ InterruptAgent
    \/ \E p \in Process :
          RunDirect(p) \/ RunInAgent(p) \/ Work(p) \/ InterruptDirect(p)
    \/ Agent

SystemSpec == SystemInit /\ [][SystemNext]_sysvars

\* A command or handler that works takes its next step, and an agent whose
\* requests are answered ends.
SystemFairness == (\A p \in Process : WF_sysvars(Work(p))) /\ WF_sysvars(Exit)

SystemFairSpec == SystemSpec /\ SystemFairness

-----------------------------------------------------------------------------
(* Properties.                                                             *)

\* Handlers work only while their agent is there, and unless a command was
\* interrupted while a handler worked, nobody but the user's worker has its
\* hands on the file: not even an agent that was stopped just before a command
\* found none (controller/agent.rs, stop, returns before the agent has ended).
OneAtATime ==
    /\ agent = "down" => Working \cap Handlers = {}
    /\ patient => Working \subseteq {worker}

\* A command ends, and so does an agent that was told to stop, even if it waits
\* for a handler whose client has left (serve of server.rs:69).
WorkEnds ==
    /\ worker # NoWorker ~> worker = NoWorker
    /\ agent = "draining" ~> agent = "down"

\* What the user sees as the store: while a command is saving, what it was
\* before; else what the file holds.
Seen ==
    IF ~patient THEN [kind |-> "unknown"]
    ELSE IF \E p \in Process : pc[p] = "write"
      THEN IF ~intact THEN [kind |-> "lost"]
           ELSE IF expected = Nothing THEN [kind |-> "absent"]
           ELSE [kind |-> "whole", uuid |-> expected.uuid, secrets |-> expected.secrets]
      ELSE IF file.kind = "whole"
             THEN [kind |-> "whole", uuid |-> file.shrine.uuid,
                   secrets |-> file.shrine.secrets]
           ELSE IF file.kind = "missing" THEN [kind |-> "absent"]
           ELSE [kind |-> "lost"]

\* The user's command, as long as somebody works on it.
Call ==
    IF worker = NoWorker THEN [op |-> "none"]
    ELSE [op |-> IF job[worker].op \in {"init", "convert"} THEN job[worker].op ELSE "edit",
          uuid |-> job[worker].draft.uuid,
          dels |-> job[worker].edit.dels, sets |-> job[worker].edit.sets,
          done |-> pc[worker] \in {"stage", "head", "commit"}]

S == INSTANCE ShrineStore WITH
        Uuid <- 1..MaxUuid, made <- 1..uuids, store <- Seen, call <- Call

\* To a user who runs one command at a time and lets those that the agent
\* works on finish, shrine is a store that each command changes at once,
\* whichever way each command takes, and whenever agents start, stop, drain
\* and die between its question and its work (is_running of set.rs:41 and
\* rm.rs:12).
ImplementsStore == S!Spec
=============================================================================

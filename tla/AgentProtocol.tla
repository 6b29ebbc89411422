---------------------------- MODULE AgentProtocol ----------------------------
(***************************************************************************)
(* A command that finds an agent running sends it one request: get, set    *)
(* and rm of src/src/controller, the client of src/src/agent/client.rs and *)
(* the handlers of src/src/agent/server.rs.  A command that finds none is  *)
(* one of those of Vault.                                                  *)
(*                                                                         *)
(* The agent answers at once if the shrine is plain or the password it has *)
(* for the uuid opens it.  Otherwise it answers with the uuid, the client  *)
(* asks the user, puts the password and sends its request again, until it  *)
(* gets another answer.  Meanwhile the shrine may be converted, passwords  *)
(* expire or are deleted, other clients put other passwords, and the agent *)
(* is stopped, killed and started.                                         *)
(*                                                                         *)
(* A handler is one step here: how handlers and commands that work on the  *)
(* file interleave is in Vault, how agents start and stop is in            *)
(* AgentLifecycle, and when a password expires is in PasswordCache.        *)
(***************************************************************************)
EXTENDS Naturals, Sequences

CONSTANTS
    Client,         \* the commands, each of which runs once
    Key,            \* the keys of secrets
    Password,       \* the passwords of encrypted shrines
    NoPassword,     \* the password of a plain shrine
    First,          \* the passwords the shrine may have at first
    NoKey,          \* the key of a command that has not started
    MaxUuid,        \* bound on the versions of the shrine with their own uuid
    MaxTypos,       \* bound on the wrong passwords users type
    MaxLosses       \* bound on the losses of cached passwords and of agents

ASSUME ProtocolAssumption ==
    /\ NoPassword \notin Password
    /\ First \subseteq Password \cup {NoPassword}
    /\ NoKey \notin Key
    /\ MaxUuid \in Nat \ {0} /\ MaxTypos \in Nat /\ MaxLosses \in Nat

VARIABLES
    lock,           \* the password of each uuid; the last one is of the file
    keys,           \* the keys in the file
    agent,          \* whether the agent is down, up or draining
    cache,          \* AgentState.passwords: uuid -> password
    client,         \* where each command is, and what it knows
    typos,          \* how many wrong passwords were typed
    losses,         \* how often passwords, or the agent, were lost
    applied,        \* history: how often the edit of each command was saved
    prompts         \* history: how often each command asked for a password

vars == <<lock, keys, agent, cache, client, typos, losses, applied, prompts>>

Uuid == Len(lock)

NoPasswords == [u \in {} |-> NoPassword]

-----------------------------------------------------------------------------
(* Commands.                                                               *)

At(c, here) == client[c].pc = here

\* The command prints its result and is over.
Over(c, result) == [client[c] EXCEPT !.pc = "done", !.outcome = result,
                                     !.reply = "none", !.uuid = 0]

End(c, result) == client' = [client EXCEPT ![c] = Over(c, result)]

\* is_running: an agent answers, and the command goes through it.
Check(c, op, key) ==
    /\ At(c, "start")
    /\ agent = "up"
    /\ client' = [client EXCEPT ![c].pc = "request", ![c].op = op, ![c].key = key]
    /\ UNCHANGED <<lock, keys, agent, cache, typos, losses, applied, prompts>>

\* What a handler does with the shrine once it is open, and its answer: an
\* edit may be refused or not saved, and it may be saved but not committed.
Work(c, answer) ==
    LET op == client[c].op
        key == client[c].key
        found == key \in keys
        edits == op = "set" \/ (op = "rm" /\ found)
    IN  \/ /\ op = "get" /\ found
           /\ answer = "ok"
           /\ UNCHANGED <<keys, applied>>
        \/ /\ op \in {"get", "rm"} /\ ~found
           /\ answer = "not_found"
           /\ UNCHANGED <<keys, applied>>
        \/ /\ edits
           /\ answer = "error"
           /\ UNCHANGED <<keys, applied>>
        \/ /\ edits
           /\ answer \in {"ok", "error"}
           /\ keys' = IF op = "set" THEN keys \cup {key} ELSE keys \ {key}
           /\ applied' = [applied EXCEPT ![c] = @ + 1]

-----------------------------------------------------------------------------
(* The agent.                                                              *)

Reply(c, answer) ==
    client' = [client EXCEPT ![c].pc = "answered", ![c].reply = answer,
                             ![c].uuid = IF answer \in {"unauthorized", "forbidden"}
                                           THEN Uuid ELSE 0]

IsPlain == lock[Uuid] = NoPassword

\* open_shrine fails: no readable file, no password, or the wrong one.
OpenFails(answer) ==
    \/ answer = "error"
    \/ /\ answer = "unauthorized"
       /\ ~IsPlain /\ Uuid \notin DOMAIN cache
    \/ /\ answer = "forbidden"
       /\ ~IsPlain /\ Uuid \in DOMAIN cache /\ cache[Uuid] # lock[Uuid]

\* open_shrine gets the shrine open.
Opens == IsPlain \/ (Uuid \in DOMAIN cache /\ cache[Uuid] = lock[Uuid])

\* get_key, put_key, delete_key
Handle(c) ==
    /\ At(c, "request")
    /\ agent = "up"
    /\ \/ \E answer \in {"error", "unauthorized", "forbidden"} :
             /\ OpenFails(answer)
             /\ Reply(c, answer)
             /\ UNCHANGED <<keys, applied>>
       \/ \E answer \in {"ok", "not_found", "error"} :
             /\ Opens
             /\ Work(c, answer)
             /\ Reply(c, answer)
    /\ UNCHANGED <<lock, agent, cache, typos, losses, prompts>>

\* clean_expired_passwords of one password.
Expire(uuid) ==
    /\ losses < MaxLosses
    /\ uuid \in DOMAIN cache
    /\ cache' = [u \in DOMAIN cache \ {uuid} |-> cache[u]]
    /\ losses' = losses + 1
    /\ UNCHANGED <<lock, keys, agent, client, typos, applied, prompts>>

\* delete_passwords
DeletePasswords ==
    /\ losses < MaxLosses
    /\ agent = "up"
    /\ cache' = NoPasswords
    /\ losses' = losses + 1
    /\ UNCHANGED <<lock, keys, agent, client, typos, applied, prompts>>

StartAgent ==
    /\ agent = "down"
    /\ agent' = "up"
    /\ UNCHANGED <<lock, keys, cache, client, typos, losses, applied, prompts>>

\* delete_agent: no new request is taken.
StopAgent ==
    /\ losses < MaxLosses
    /\ agent = "up"
    /\ agent' = "draining"
    /\ losses' = losses + 1
    /\ UNCHANGED <<lock, keys, cache, client, typos, applied, prompts>>

\* Every answer is delivered, the agent ends, and its passwords with it.
Exit ==
    /\ agent = "draining"
    /\ \A c \in Client : ~At(c, "answered")
    /\ agent' = "down"
    /\ cache' = NoPasswords
    /\ UNCHANGED <<lock, keys, client, typos, losses, applied, prompts>>

\* Mutant of Kill: a client whose answer is lost sends its request again.
KillAndRetry ==
    /\ losses < MaxLosses
    /\ agent # "down"
    /\ agent' = "down"
    /\ cache' = NoPasswords
    /\ losses' = losses + 1
    /\ client' = [c \in Client |->
                    IF At(c, "answered")
                      THEN [client[c] EXCEPT !.pc = "request", !.uuid = 0]
                      ELSE client[c]]
    /\ UNCHANGED <<lock, keys, typos, applied, prompts>>

\* The agent is killed, and the answers that are on their way are lost.
Kill ==
    /\ losses < MaxLosses
    /\ agent # "down"
    /\ agent' = "down"
    /\ cache' = NoPasswords
    /\ losses' = losses + 1
    /\ client' = [c \in Client |->
                    IF At(c, "answered")
                      THEN Over(c, "communication")
                      ELSE client[c]]
    /\ UNCHANGED <<lock, keys, typos, applied, prompts>>

-----------------------------------------------------------------------------
(* The client.                                                             *)

\* Mutant of Receive: the request is sent again without a password.
ReceiveAndRetry(c) ==
    /\ At(c, "answered")
    /\ IF client[c].reply \in {"unauthorized", "forbidden"}
         THEN client' = [client EXCEPT ![c].pc = "request", ![c].reply = "none",
                                       ![c].uuid = 0]
         ELSE End(c, IF client[c].reply = "ok" /\ client[c].op = "rm"
                       THEN "invalid" ELSE client[c].reply)
    /\ UNCHANGED <<lock, keys, agent, cache, typos, losses, applied, prompts>>

\* execute takes the answer.  The answer to a successful rm is empty, and is
\* not the list of secrets that delete_key of the client expects.
Receive(c) ==
    /\ At(c, "answered")
    /\ IF client[c].reply \in {"unauthorized", "forbidden"}
         THEN /\ client' = [client EXCEPT ![c].pc = "prompted", ![c].reply = "none"]
              /\ prompts' = [prompts EXCEPT ![c] = @ + 1]
         ELSE /\ End(c, IF client[c].reply = "ok" /\ client[c].op = "rm"
                          THEN "invalid" ELSE client[c].reply)
              /\ UNCHANGED prompts
    /\ UNCHANGED <<lock, keys, agent, cache, typos, losses, applied>>

\* Mutants of Store: the password is kept as the empty one, kept for the
\* version that is in the file now, or kept in place of all others.
StoreBlank(uuid, password) ==
    cache' = [u \in DOMAIN cache \cup {uuid} |->
                 IF u = uuid THEN NoPassword ELSE cache[u]]

StoreForFile(uuid, password) ==
    cache' = [u \in DOMAIN cache \cup {Uuid} |->
                 IF u = Uuid THEN password ELSE cache[u]]

StoreOnly(uuid, password) == cache' = [u \in {uuid} |-> password]

\* set_password
Store(uuid, password) ==
    cache' = [u \in DOMAIN cache \cup {uuid} |->
                 IF u = uuid THEN password ELSE cache[u]]

\* read_password and put_password: the user types the password of the uuid
\* that was asked for, or a wrong one, and the agent takes it for that uuid,
\* whatever it has; then the loop goes on with the same request.
PutPassword(c, password) ==
    LET uuid == client[c].uuid IN
    /\ At(c, "prompted")
    /\ agent = "up"
    /\ IF password = lock[uuid]
         THEN UNCHANGED typos
         ELSE typos < MaxTypos /\ typos' = typos + 1
    /\ Store(uuid, password)
    /\ client' = [client EXCEPT ![c].pc = "request", ![c].uuid = 0]
    /\ UNCHANGED <<lock, keys, agent, losses, applied, prompts>>

\* Nobody listens on the socket: "communication problem".
Unreachable(c) ==
    /\ At(c, "request") \/ At(c, "prompted")
    /\ agent # "up"
    /\ End(c, "communication")
    /\ UNCHANGED <<lock, keys, agent, cache, typos, losses, applied, prompts>>

\* A convert, of a process that does not go through the agent: the file has
\* a new uuid, and a password, the old one or another.
Convert(password) ==
    /\ Uuid < MaxUuid
    /\ lock' = Append(lock, password)
    /\ UNCHANGED <<keys, agent, cache, client, typos, losses, applied, prompts>>

-----------------------------------------------------------------------------

Init ==
    /\ lock \in {<<password>> : password \in First}
    /\ keys = {}
    /\ agent = "down"
    /\ cache = NoPasswords
    /\ client = [c \in Client |->
                    [pc |-> "start", op |-> "get", key |-> NoKey, uuid |-> 0,
                     reply |-> "none", outcome |-> "none"]]
    /\ typos = 0
    /\ losses = 0
    /\ applied = [c \in Client |-> 0]
    /\ prompts = [c \in Client |-> 0]

Execute(c) ==
    \/ Handle(c) \/ Receive(c) \/ Unreachable(c)
    \/ \E password \in Password : PutPassword(c, password)

Agent ==
    \/ DeletePasswords
    \/ \E uuid \in DOMAIN cache : Expire(uuid)
    \/ StartAgent \/ StopAgent \/ Exit \/ Kill

Next ==
    \/ \E c \in Client :
          \/ \E op \in {"get", "set", "rm"}, key \in Key : Check(c, op, key)
          \/ Execute(c)
    \/ Agent
    \/ \E password \in Password \cup {NoPassword} : Convert(password)

Spec == Init /\ [][Next]_vars

\* Requests are served, answers delivered and read, and users answer the
\* prompt; nobody has to run a command, or an agent.
Fairness == \A c \in Client : WF_vars(Execute(c))

FairSpec == Spec /\ Fairness

-----------------------------------------------------------------------------
(* Properties.                                                             *)

Talk == [pc : {"start", "request", "answered", "prompted", "done"},
         op : {"get", "set", "rm"}, key : Key \cup {NoKey}, uuid : 0..MaxUuid,
         reply : {"none", "ok", "not_found", "error", "unauthorized", "forbidden"},
         outcome : {"none", "ok", "not_found", "error", "invalid", "communication"}]

\* Types of the state.
TypeOK ==
    /\ lock \in Seq(Password \cup {NoPassword}) /\ Uuid \in 1..MaxUuid
    /\ keys \subseteq Key
    /\ agent \in {"down", "up", "draining"}
    /\ DOMAIN cache \subseteq 1..MaxUuid
    /\ cache \in [DOMAIN cache -> Password]
    /\ client \in [Client -> Talk]
    /\ typos \in 0..MaxTypos /\ losses \in 0..MaxLosses
    /\ applied \in [Client -> Nat] /\ prompts \in [Client -> Nat]

\* However often a command sends its request, its edit is saved at most once;
\* exactly once if it reports success, and not at all if it reports that the
\* key is not there.
ReportsAreTrue ==
    \A c \in Client :
        /\ applied[c] <= 1
        /\ client[c].outcome = "ok" => (applied[c] = 1 <=> client[c].op # "get")
        /\ client[c].outcome = "not_found" => applied[c] = 0

\* While users type the right passwords nobody is ever told that a password
\* is wrong, although passwords outlive converts in the cache, are asked for
\* one version and put when there is another, and are put by several clients.
RightPasswordsSuffice ==
    typos = 0 => \A c \in Client : client[c].reply # "forbidden"

\* A command asks for a password once for each version of the shrine, and
\* once more only for a wrong password or a loss: no prompt is needless.
PromptsAreAccounted ==
    \A c \in Client : prompts[c] <= Uuid + typos + losses

\* A command that was sent to the agent ends: the loop of the client goes
\* round only as long as users mistype, shrines are converted, or passwords
\* are lost.
CommandsEnd ==
    \A c \in Client : At(c, "request") ~> At(c, "done")

-----------------------------------------------------------------------------
(* Statements of the sources that the code does not keep.                  *)

\* cli.rs:101, "Removes secrets stored in keys matching the provided
\* pattern", and rm.rs:15 passes on what the client returns: a command whose
\* edit is saved, and that got its answer, reports success or what went wrong
\* when committing it.
SuccessIsReported ==
    \A c \in Client :
        At(c, "done") /\ applied[c] = 1
            => client[c].outcome \in {"ok", "error", "communication"}
=============================================================================

------------------------- MODULE AgentProtocolProofs -------------------------
(***************************************************************************)
(* Proofs about AgentProtocol, for any number of clients, keys, passwords  *)
(* and versions of the shrine, and any number of typos and losses.         *)
(*                                                                         *)
(* What a command reports is about the past of its edit, so the invariant  *)
(* says for each place a command can be at what has become of its edit.    *)
(* That right passwords suffice is about the cache: without a typo it      *)
(* holds the password of every uuid it knows.  That prompts are accounted  *)
(* for is a matter of credit: a command that may be asked once more has    *)
(* been asked once less than the bound allows, and a prompt for a version  *)
(* is charged to the versions up to that one.                              *)
(***************************************************************************)
EXTENDS AgentProtocol, TLAPS

\* The answers that make the client ask for a password, and all of them.
Refusals == {"unauthorized", "forbidden"}
Answers == {"ok", "not_found", "error"} \cup Refusals
Outcomes == {"none", "ok", "not_found", "error", "invalid", "communication"}

\* A password is only ever asked for a version that the shrine has had.
AskedForKnown ==
    /\ DOMAIN cache \subseteq 1..Uuid
    /\ \A c \in Client :
          At(c, "prompted") \/ (At(c, "answered") /\ client[c].reply \in Refusals)
              => client[c].uuid \in 1..Uuid

\* A command that is on its way has a key.
KeyIsGiven ==
    \A c \in Client :
        At(c, "request") \/ At(c, "answered") \/ At(c, "prompted") => client[c].key \in Key

\* What has become of the edit of a command, wherever the command is.
EditIsKnown ==
    \A c \in Client :
        /\ At(c, "start") \/ At(c, "request") \/ At(c, "prompted")
              => applied[c] = 0 /\ client[c].reply = "none"
        /\ At(c, "answered") =>
              /\ applied[c] <= 1
              /\ client[c].reply = "ok" => (applied[c] = 1 <=> client[c].op # "get")
              /\ client[c].reply \in {"not_found"} \cup Refusals => applied[c] = 0
        /\ ~At(c, "done") => client[c].outcome = "none"

\* Without a typo the agent has nothing but right passwords, and has never
\* found one wrong.
CacheIsRight ==
    typos = 0 =>
        /\ \A u \in DOMAIN cache : cache[u] = lock[u]
        /\ \A c \in Client : client[c].reply # "forbidden"

\* A request can be refused, now or when the agent that drains is gone.
MayBeRefused == agent = "draining" \/ ~Opens

\* A command that will be asked, or may be, has a prompt left; a prompt for a
\* version is charged to the versions up to it.
PromptsLeft ==
    \A c \in Client :
        /\ At(c, "start") => prompts[c] = 0
        /\ At(c, "request") /\ MayBeRefused => prompts[c] + 1 <= Uuid + typos + losses
        /\ At(c, "answered") /\ client[c].reply \in Refusals =>
              prompts[c] + 1 <= client[c].uuid + typos + losses
        /\ At(c, "prompted") => prompts[c] <= client[c].uuid + typos + losses

ProtocolInv ==
    /\ TypeOK /\ KeyIsGiven /\ AskedForKnown
    /\ EditIsKnown /\ ReportsAreTrue
    /\ CacheIsRight
    /\ PromptsLeft /\ PromptsAreAccounted

-----------------------------------------------------------------------------
(* How the conversation of a command goes on.                              *)

\* Command c goes on, and no other.
OnlyMoves(c) ==
    /\ client' \in [Client -> Talk]
    /\ \A d \in Client : d # c => client'[d] = client[d]

\* The bounds of the types that the moves of a client need.
LEMMA Bounds == TypeOK => 0 \in 0..MaxUuid /\ Uuid \in 0..MaxUuid
BY ProtocolAssumption DEF TypeOK

\* A command that goes on to another place of its conversation.
LEMMA Moves ==
    ASSUME client \in [Client -> Talk], NEW c \in Client, NEW talk \in Talk,
           client' = [client EXCEPT ![c] = talk]
    PROVE  OnlyMoves(c) /\ client'[c] = talk
BY DEF OnlyMoves

\* is_running has found an agent.
LEMMA CheckMoves ==
    ASSUME TypeOK, NEW c \in Client, NEW op \in {"get", "set", "rm"}, NEW key \in Key,
           Check(c, op, key)
    PROVE  /\ OnlyMoves(c)
           /\ client'[c].pc = "request" /\ client'[c].reply = client[c].reply
           /\ client'[c].outcome = client[c].outcome /\ client'[c].key = key
<1> DEFINE talk == [client[c] EXCEPT !.pc = "request", !.op = op, !.key = key]
<1>1. client \in [Client -> Talk]
  BY DEF TypeOK
<1>2. /\ talk \in Talk /\ talk.pc = "request" /\ talk.reply = client[c].reply
      /\ talk.outcome = client[c].outcome /\ talk.key = key
  BY <1>1 DEF Talk
<1>3. client' = [client EXCEPT ![c] = talk]
  BY DEF Check
<1> QED
  BY <1>1, <1>2, <1>3, Moves

\* The agent answers.
LEMMA ReplyMoves ==
    ASSUME TypeOK, NEW c \in Client, NEW answer \in Answers, Reply(c, answer)
    PROVE  /\ OnlyMoves(c)
           /\ client'[c].pc = "answered" /\ client'[c].reply = answer
           /\ client'[c].uuid = IF answer \in Refusals THEN Uuid ELSE 0
           /\ client'[c].op = client[c].op /\ client'[c].key = client[c].key
           /\ client'[c].outcome = client[c].outcome
<1> DEFINE uuid == IF answer \in Refusals THEN Uuid ELSE 0
           talk == [client[c] EXCEPT !.pc = "answered", !.reply = answer, !.uuid = uuid]
<1>1. client \in [Client -> Talk] /\ uuid \in 0..MaxUuid
  BY Bounds DEF TypeOK
<1>2. client' = [client EXCEPT ![c] = talk]
  BY DEF Reply, Refusals
<1> HIDE DEF uuid
<1>3. /\ talk \in Talk /\ talk.pc = "answered" /\ talk.reply = answer /\ talk.uuid = uuid
      /\ talk.op = client[c].op /\ talk.key = client[c].key
      /\ talk.outcome = client[c].outcome
  BY <1>1 DEF Talk, Answers, Refusals
<1>4. OnlyMoves(c) /\ client'[c] = talk
  BY <1>1, <1>2, <1>3, Moves
<1> QED
  BY <1>3, <1>4 DEF uuid

\* What a command is once it is over.
LEMMA OverMoves ==
    ASSUME TypeOK, NEW c \in Client, NEW outcome \in Outcomes
    PROVE  /\ Over(c, outcome) \in Talk
           /\ Over(c, outcome).pc = "done" /\ Over(c, outcome).outcome = outcome
           /\ Over(c, outcome).reply = "none" /\ Over(c, outcome).op = client[c].op
BY Bounds DEF TypeOK, Over, Talk, Outcomes

\* The command ends.
LEMMA EndMoves ==
    ASSUME TypeOK, NEW c \in Client, NEW outcome \in Outcomes, End(c, outcome)
    PROVE  OnlyMoves(c) /\ client'[c] = Over(c, outcome)
BY OverMoves, Moves DEF TypeOK, End

\* The client asks for a password.
LEMMA PromptMoves ==
    ASSUME TypeOK, NEW c \in Client,
           client' = [client EXCEPT ![c].pc = "prompted", ![c].reply = "none"]
    PROVE  /\ OnlyMoves(c)
           /\ client'[c].pc = "prompted" /\ client'[c].reply = "none"
           /\ client'[c].uuid = client[c].uuid /\ client'[c].op = client[c].op
           /\ client'[c].key = client[c].key /\ client'[c].outcome = client[c].outcome
<1> DEFINE talk == [client[c] EXCEPT !.pc = "prompted", !.reply = "none"]
<1>1. client \in [Client -> Talk]
  BY DEF TypeOK
<1>2. /\ talk \in Talk /\ talk.pc = "prompted" /\ talk.reply = "none"
      /\ talk.uuid = client[c].uuid /\ talk.op = client[c].op
      /\ talk.key = client[c].key /\ talk.outcome = client[c].outcome
  BY <1>1 DEF Talk
<1>3. client' = [client EXCEPT ![c] = talk]
  OBVIOUS
<1> QED
  BY <1>1, <1>2, <1>3, Moves

\* The client has put the password, and goes round the loop.
LEMMA PutMoves ==
    ASSUME TypeOK, NEW c \in Client,
           client' = [client EXCEPT ![c].pc = "request", ![c].uuid = 0]
    PROVE  /\ OnlyMoves(c)
           /\ client'[c].pc = "request" /\ client'[c].reply = client[c].reply
           /\ client'[c].key = client[c].key /\ client'[c].outcome = client[c].outcome
<1> DEFINE talk == [client[c] EXCEPT !.pc = "request", !.uuid = 0]
<1>1. client \in [Client -> Talk] /\ 0 \in 0..MaxUuid
  BY Bounds DEF TypeOK
<1>2. /\ talk \in Talk /\ talk.pc = "request" /\ talk.reply = client[c].reply
      /\ talk.key = client[c].key /\ talk.outcome = client[c].outcome
  BY <1>1 DEF Talk
<1>3. client' = [client EXCEPT ![c] = talk]
  OBVIOUS
<1> QED
  BY <1>1, <1>2, <1>3, Moves

\* The client takes an answer: it asks for a password, or is over.
LEMMA ReceiveMoves ==
    ASSUME TypeOK, NEW c \in Client, Receive(c)
    PROVE  /\ OnlyMoves(c)
           /\ client'[c].pc \in {"prompted", "done"}
           /\ client'[c].reply = "none" /\ client'[c].op = client[c].op
           /\ client'[c].pc = "prompted" =>
                 /\ client[c].reply \in Refusals
                 /\ client'[c].uuid = client[c].uuid /\ client'[c].key = client[c].key
                 /\ client'[c].outcome = client[c].outcome
                 /\ prompts' = [prompts EXCEPT ![c] = @ + 1]
           /\ client'[c].pc = "done" =>
                 /\ client'[c].outcome \in {client[c].reply, "invalid"}
                 /\ prompts' = prompts
<1> DEFINE outcome == IF client[c].reply = "ok" /\ client[c].op = "rm"
                        THEN "invalid" ELSE client[c].reply
<1>1. CASE client[c].reply \in Refusals
  <2>1. /\ client' = [client EXCEPT ![c].pc = "prompted", ![c].reply = "none"]
        /\ prompts' = [prompts EXCEPT ![c] = @ + 1]
    BY <1>1 DEF Receive, Refusals
  <2>2. QED
    BY <1>1, <2>1, PromptMoves
<1>2. CASE client[c].reply \notin Refusals
  <2>1. outcome \in Outcomes
    BY <1>2 DEF TypeOK, Talk, Refusals, Outcomes
  <2>2. End(c, outcome) /\ prompts' = prompts
    BY <1>2 DEF Receive, Refusals
  <2>3. outcome \in {client[c].reply, "invalid"}
    OBVIOUS
  <2> HIDE DEF outcome
  <2>4. QED
    BY <2>1, <2>2, <2>3, EndMoves, OverMoves
<1>3. QED
  BY <1>1, <1>2

\* The command cannot reach the agent.
LEMMA UnreachableMoves ==
    ASSUME TypeOK, NEW c \in Client, Unreachable(c)
    PROVE  /\ OnlyMoves(c)
           /\ client'[c].pc = "done" /\ client'[c].outcome = "communication"
           /\ client'[c].reply = "none"
<1>1. "communication" \in Outcomes /\ End(c, "communication")
  BY DEF Unreachable, Outcomes
<1>2. QED
  BY <1>1, EndMoves, OverMoves

\* The agent is killed, and with it the answers that are on their way.
LEMMA KillMoves ==
    ASSUME TypeOK, Kill
    PROVE  /\ client' \in [Client -> Talk]
           /\ \A c \in Client :
                 \/ client'[c] = client[c] /\ ~At(c, "answered")
                 \/ /\ client'[c].pc = "done" /\ client'[c].outcome = "communication"
                    /\ client'[c].reply = "none"
<1>1. \A c \in Client :
        LET over == Over(c, "communication")
        IN  over \in Talk /\ over.pc = "done" /\ over.outcome = "communication" /\ over.reply = "none"
  <2>1. "communication" \in Outcomes
    BY DEF Outcomes
  <2>2. QED
    BY <2>1, OverMoves
<1>2. \A c \in Client : client'[c] = IF At(c, "answered") THEN Over(c, "communication") ELSE client[c]
  BY DEF Kill
<1>3. client' \in [Client -> Talk]
  BY <1>1 DEF Kill, TypeOK
<1>4. QED
  BY <1>1, <1>2, <1>3

\* The agent answers a request: it refuses, or has the shrine open and does
\* what it is asked.
LEMMA HandleAnswers ==
    ASSUME TypeOK, NEW c \in Client, Handle(c)
    PROVE  /\ OnlyMoves(c)
           /\ client'[c].pc = "answered" /\ client'[c].reply \in Answers
           /\ client'[c].op = client[c].op /\ client'[c].key = client[c].key
           /\ client'[c].outcome = client[c].outcome
           /\ client'[c].reply \in Refusals =>
                 /\ client'[c].uuid = Uuid /\ ~Opens
                 /\ keys' = keys /\ applied' = applied
           /\ client'[c].reply = "forbidden" =>
                 Uuid \in DOMAIN cache /\ cache[Uuid] # lock[Uuid]
           /\ client'[c].reply \notin Refusals =>
                 \/ client'[c].reply = "error" /\ keys' = keys /\ applied' = applied
                 \/ Work(c, client'[c].reply)
<1>1. PICK answer \in Answers :
        /\ Reply(c, answer)
        /\ \/ OpenFails(answer) /\ answer \in {"error"} \cup Refusals
              /\ keys' = keys /\ applied' = applied
           \/ answer \notin Refusals /\ Work(c, answer)
  BY DEF Handle, Answers, Refusals
<1>2. /\ OnlyMoves(c)
      /\ client'[c].pc = "answered" /\ client'[c].reply = answer
      /\ client'[c].uuid = IF answer \in Refusals THEN Uuid ELSE 0
      /\ client'[c].op = client[c].op /\ client'[c].key = client[c].key
      /\ client'[c].outcome = client[c].outcome
  BY <1>1, ReplyMoves
<1>3. answer \in Refusals => OpenFails(answer) /\ keys' = keys /\ applied' = applied
  BY <1>1
<1>4. answer \in Refusals => ~Opens
  BY <1>3 DEF OpenFails, Opens, IsPlain, Refusals
<1>5. answer = "forbidden" => Uuid \in DOMAIN cache /\ cache[Uuid] # lock[Uuid]
  BY <1>3 DEF OpenFails, Refusals
<1>6. answer \notin Refusals =>
        \/ answer = "error" /\ keys' = keys /\ applied' = applied
        \/ Work(c, answer)
  BY <1>1
<1>7. QED
  BY <1>2, <1>3, <1>4, <1>5, <1>6

\* A convert adds a version, and leaves the passwords of the others alone.
LEMMA ConvertAppends ==
    ASSUME TypeOK, NEW password \in Password \cup {NoPassword}, Convert(password)
    PROVE  /\ lock' \in Seq(Password \cup {NoPassword})
           /\ Uuid' = Uuid + 1 /\ Uuid' \in 1..MaxUuid
           /\ \A u \in 1..Uuid : lock'[u] = lock[u]
BY ProtocolAssumption DEF TypeOK, Convert, Uuid

-----------------------------------------------------------------------------
(* The invariant.                                                          *)

LEMMA InitProtocolInv == Init => ProtocolInv
<1> SUFFICES ASSUME Init PROVE ProtocolInv
  OBVIOUS
<1>1. PICK password \in First : lock = <<password>>
  BY DEF Init
<1>2. lock \in Seq(Password \cup {NoPassword}) /\ Uuid = 1 /\ Uuid \in 1..MaxUuid
  BY <1>1, ProtocolAssumption DEF Uuid
<1>3. client \in [Client -> Talk]
  BY Bounds, ProtocolAssumption DEF Init, Talk
<1>4. TypeOK
  BY <1>2, <1>3, ProtocolAssumption DEF Init, TypeOK, NoPasswords
<1>5. AskedForKnown /\ EditIsKnown /\ ReportsAreTrue /\ CacheIsRight
  BY <1>2 DEF Init, AskedForKnown, EditIsKnown, ReportsAreTrue, CacheIsRight, At, NoPasswords
<1>6. PromptsLeft /\ PromptsAreAccounted
  BY <1>2 DEF Init, PromptsLeft, PromptsAreAccounted, At
<1>7. KeyIsGiven
  BY DEF Init, KeyIsGiven, At
<1>8. QED
  BY <1>4, <1>5, <1>6, <1>7 DEF ProtocolInv

LEMMA NextTypeOK == TypeOK /\ KeyIsGiven /\ AskedForKnown /\ [Next]_vars => TypeOK'
<1> SUFFICES ASSUME TypeOK, KeyIsGiven, AskedForKnown, [Next]_vars PROVE TypeOK'
  OBVIOUS
<1>1. ASSUME NEW c \in Client, NEW op \in {"get", "set", "rm"}, NEW key \in Key,
             Check(c, op, key)
      PROVE  TypeOK'
  BY <1>1, CheckMoves DEF Check, OnlyMoves, TypeOK, Uuid
<1>2. ASSUME NEW c \in Client, Handle(c)
      PROVE  TypeOK'
  <2>1. client' \in [Client -> Talk]
    BY <1>2, HandleAnswers DEF OnlyMoves
  <2>2. client[c].key \in Key
    BY <1>2 DEF Handle, KeyIsGiven
  <2>3. /\ keys' \subseteq keys \cup {client[c].key}
        /\ applied' = applied \/ applied' = [applied EXCEPT ![c] = @ + 1]
    BY <1>2 DEF Handle, Work
  <2>4. keys' \subseteq Key
    BY <2>2, <2>3 DEF TypeOK
  <2>5. applied' \in [Client -> Nat]
    BY <2>3 DEF TypeOK
  <2>6. QED
    BY <1>2, <2>1, <2>4, <2>5 DEF Handle, TypeOK, Uuid
<1>3. ASSUME NEW c \in Client, Receive(c)
      PROVE  TypeOK'
  <2>1. client' \in [Client -> Talk]
    BY <1>3, ReceiveMoves DEF OnlyMoves
  <2>2. prompts' = prompts \/ prompts' = [prompts EXCEPT ![c] = @ + 1]
    BY <1>3 DEF Receive
  <2>3. prompts' \in [Client -> Nat]
    BY <2>2 DEF TypeOK
  <2>4. QED
    BY <1>3, <2>1, <2>3 DEF Receive, TypeOK, Uuid
<1>4. ASSUME NEW c \in Client, Unreachable(c)
      PROVE  TypeOK'
  BY <1>4, UnreachableMoves DEF OnlyMoves, Unreachable, TypeOK, Uuid
<1>5. ASSUME NEW c \in Client, NEW password \in Password, PutPassword(c, password)
      PROVE  TypeOK'
  <2>1. client[c].uuid \in 1..MaxUuid
    BY <1>5, ProtocolAssumption DEF PutPassword, AskedForKnown, TypeOK
  <2>2. DOMAIN cache' = DOMAIN cache \cup {client[c].uuid}
    BY <1>5 DEF PutPassword, Store
  <2>3. \A u \in DOMAIN cache' : cache'[u] \in Password
    BY <1>5, <2>1, <2>2 DEF PutPassword, Store, TypeOK
  <2>4. cache' = [u \in DOMAIN cache' |-> cache'[u]]
    BY <1>5 DEF PutPassword, Store
  <2>5. DOMAIN cache' \subseteq 1..MaxUuid /\ cache' \in [DOMAIN cache' -> Password]
    BY <2>1, <2>2, <2>3, <2>4 DEF TypeOK
  <2>6. client' \in [Client -> Talk]
    BY <1>5, PutMoves DEF PutPassword, OnlyMoves
  <2>7. typos' \in 0..MaxTypos
    BY <1>5, ProtocolAssumption DEF PutPassword, TypeOK
  <2>8. QED
    BY <1>5, <2>5, <2>6, <2>7 DEF PutPassword, TypeOK, Uuid
<1>6. ASSUME NEW uuid \in DOMAIN cache, Expire(uuid)
      PROVE  TypeOK'
  BY <1>6, ProtocolAssumption DEF Expire, TypeOK, Uuid
<1>7. ASSUME DeletePasswords \/ StartAgent \/ StopAgent \/ Exit
      PROVE  TypeOK'
  <2>1. DOMAIN cache' \subseteq 1..MaxUuid /\ cache' \in [DOMAIN cache' -> Password]
    BY <1>7 DEF DeletePasswords, StartAgent, StopAgent, Exit, NoPasswords, TypeOK
  <2>2. losses' \in 0..MaxLosses /\ agent' \in {"down", "up", "draining"}
    BY <1>7, ProtocolAssumption DEF DeletePasswords, StartAgent, StopAgent, Exit, TypeOK
  <2>3. QED
    BY <1>7, <2>1, <2>2 DEF DeletePasswords, StartAgent, StopAgent, Exit, TypeOK, Uuid
<1>8. CASE Kill
  <2>1. DOMAIN cache' \subseteq 1..MaxUuid /\ cache' \in [DOMAIN cache' -> Password]
    BY <1>8 DEF Kill, NoPasswords
  <2>2. losses' \in 0..MaxLosses
    BY <1>8, ProtocolAssumption DEF Kill, TypeOK
  <2>3. QED
    BY <1>8, <2>1, <2>2, KillMoves DEF Kill, TypeOK, Uuid
<1>9. ASSUME NEW password \in Password \cup {NoPassword}, Convert(password)
      PROVE  TypeOK'
  BY <1>9, ConvertAppends DEF Convert, TypeOK
<1>10. CASE UNCHANGED vars
  BY <1>10 DEF vars, TypeOK, Uuid
<1>11. QED
  BY <1>1, <1>2, <1>3, <1>4, <1>5, <1>6, <1>7, <1>8, <1>9, <1>10 DEF Next, Execute, Agent

\* A command keeps the key it was given.
LEMMA NextKeyIsGiven == TypeOK /\ KeyIsGiven /\ [Next]_vars => KeyIsGiven'
<1> SUFFICES ASSUME TypeOK, KeyIsGiven, [Next]_vars PROVE KeyIsGiven'
  OBVIOUS
<1>1. ASSUME NEW c \in Client, OnlyMoves(c), client'[c].key \in Key \/ client'[c].pc = "done"
      PROVE  KeyIsGiven'
  BY <1>1 DEF OnlyMoves, KeyIsGiven, At
<1>2. ASSUME NEW c \in Client, NEW op \in {"get", "set", "rm"}, NEW key \in Key,
             Check(c, op, key)
      PROVE  KeyIsGiven'
  BY <1>1, <1>2, CheckMoves
<1>3. ASSUME NEW c \in Client, Execute(c)
      PROVE  KeyIsGiven'
  <2>1. CASE Handle(c)
    BY <1>1, <2>1, HandleAnswers DEF Handle, KeyIsGiven
  <2>2. CASE Receive(c)
    BY <1>1, <2>2, ReceiveMoves DEF Receive, KeyIsGiven
  <2>3. CASE Unreachable(c)
    BY <1>1, <2>3, UnreachableMoves
  <2>4. ASSUME NEW password \in Password, PutPassword(c, password)
        PROVE  KeyIsGiven'
    BY <1>1, <2>4, PutMoves DEF PutPassword, KeyIsGiven
  <2>5. QED
    BY <1>3, <2>1, <2>2, <2>3, <2>4 DEF Execute
<1>4. CASE Kill
  BY <1>4, KillMoves DEF KeyIsGiven, At
<1>5. CASE client' = client
  BY <1>5 DEF KeyIsGiven, At
<1>6. QED
  BY <1>2, <1>3, <1>4, <1>5
     DEF Next, Agent, DeletePasswords, Expire, StartAgent, StopAgent, Exit, Convert, vars

\* The answer names the version in the file, and the client keeps that name
\* until it has put the password.
LEMMA NextAskedForKnown == TypeOK /\ AskedForKnown /\ [Next]_vars => AskedForKnown'
<1> SUFFICES ASSUME TypeOK, AskedForKnown, [Next]_vars PROVE AskedForKnown'
  OBVIOUS
<1> DEFINE Asked(c) == At(c, "prompted") \/ (At(c, "answered") /\ client[c].reply \in Refusals)
<1>1. ASSUME NEW c \in Client, OnlyMoves(c), lock' = lock, DOMAIN cache' \subseteq 1..Uuid,
             Asked(c)' => client'[c].uuid \in 1..Uuid
      PROVE  AskedForKnown'
  BY <1>1 DEF OnlyMoves, AskedForKnown, At, Uuid
<1>2. ASSUME NEW c \in Client, NEW op \in {"get", "set", "rm"}, NEW key \in Key,
             Check(c, op, key)
      PROVE  AskedForKnown'
  BY <1>1, <1>2, CheckMoves DEF Check, At, AskedForKnown
<1>3. ASSUME NEW c \in Client, Handle(c)
      PROVE  AskedForKnown'
  BY <1>1, <1>3, HandleAnswers DEF Handle, At, AskedForKnown, TypeOK
<1>4. ASSUME NEW c \in Client, Receive(c)
      PROVE  AskedForKnown'
  BY <1>1, <1>4, ReceiveMoves DEF Receive, At, AskedForKnown
<1>5. ASSUME NEW c \in Client, Unreachable(c)
      PROVE  AskedForKnown'
  BY <1>1, <1>5, UnreachableMoves DEF Unreachable, At, AskedForKnown
<1>6. ASSUME NEW c \in Client, NEW password \in Password, PutPassword(c, password)
      PROVE  AskedForKnown'
  <2>1. DOMAIN cache' = DOMAIN cache \cup {client[c].uuid} /\ client[c].uuid \in 1..Uuid
    BY <1>6 DEF PutPassword, Store, AskedForKnown
  <2>2. OnlyMoves(c) /\ client'[c].pc = "request"
    BY <1>6, PutMoves DEF PutPassword
  <2>3. QED
    BY <1>1, <1>6, <2>1, <2>2 DEF PutPassword, At, AskedForKnown
<1>7. CASE Kill
  BY <1>7, KillMoves DEF Kill, NoPasswords, AskedForKnown, At, Uuid
<1>8. CASE /\ client' = client /\ lock' = lock
           /\ DOMAIN cache' \subseteq DOMAIN cache
  BY <1>8 DEF AskedForKnown, At, Uuid
<1>9. CASE Agent
  BY <1>7, <1>8, <1>9
     DEF Agent, DeletePasswords, Expire, StartAgent, StopAgent, Exit, NoPasswords
<1>10. ASSUME NEW password \in Password \cup {NoPassword}, Convert(password)
       PROVE  AskedForKnown'
  <2>1. 1..Uuid \subseteq 1..Uuid'
    BY <1>10, ConvertAppends DEF TypeOK
  <2>2. QED
    BY <1>10, <2>1 DEF Convert, AskedForKnown, At
<1>11. CASE UNCHANGED vars
  BY <1>8, <1>11 DEF vars
<1>12. QED
  BY <1>2, <1>3, <1>4, <1>5, <1>6, <1>9, <1>10, <1>11 DEF Next, Execute

\* A handler saves an edit at most once, and only then says so; no other step
\* of any process touches what became of an edit.
LEMMA NextEditIsKnown ==
    TypeOK /\ EditIsKnown /\ ReportsAreTrue /\ [Next]_vars => (EditIsKnown /\ ReportsAreTrue)'
<1> SUFFICES ASSUME TypeOK, EditIsKnown, ReportsAreTrue, [Next]_vars
             PROVE  (EditIsKnown /\ ReportsAreTrue)'
  OBVIOUS
<1> DEFINE Known(c) ==
             /\ At(c, "start") \/ At(c, "request") \/ At(c, "prompted")
                   => applied[c] = 0 /\ client[c].reply = "none"
             /\ At(c, "answered") =>
                   /\ applied[c] <= 1
                   /\ client[c].reply = "ok" => (applied[c] = 1 <=> client[c].op # "get")
                   /\ client[c].reply \in {"not_found"} \cup Refusals => applied[c] = 0
             /\ ~At(c, "done") => client[c].outcome = "none"
           Reported(c) ==
             /\ applied[c] <= 1
             /\ client[c].outcome = "ok" => (applied[c] = 1 <=> client[c].op # "get")
             /\ client[c].outcome = "not_found" => applied[c] = 0
<1>1. \A c \in Client : Known(c) /\ Reported(c)
  BY DEF EditIsKnown, ReportsAreTrue
<1>2. SUFFICES ASSUME NEW d \in Client PROVE (Known(d) /\ Reported(d))'
  BY DEF EditIsKnown, ReportsAreTrue
<1>3. ASSUME client'[d] = client[d], applied'[d] = applied[d]
      PROVE  (Known(d) /\ Reported(d))'
  BY <1>1, <1>3 DEF At
<1>4. ASSUME NEW c \in Client, NEW op \in {"get", "set", "rm"}, NEW key \in Key,
             Check(c, op, key)
      PROVE  (Known(d) /\ Reported(d))'
  <2>1. CASE d = c
    BY <1>1, <1>4, <2>1, CheckMoves DEF Check, At
  <2>2. CASE d # c
    BY <1>3, <1>4, <2>2, CheckMoves DEF Check, OnlyMoves
  <2>3. QED
    BY <2>1, <2>2
<1>5. ASSUME NEW c \in Client, Handle(c)
      PROVE  (Known(d) /\ Reported(d))'
  <2>1. /\ client[c].pc = "request" /\ applied[c] = 0 /\ client[c].outcome = "none"
        /\ client[c].op \in {"get", "set", "rm"}
    BY <1>1, <1>5 DEF Handle, At, TypeOK, Talk
  <2>2. /\ client'[c].pc = "answered" /\ client'[c].reply \in Answers
        /\ client'[c].outcome = "none" /\ client'[c].op = client[c].op
    BY <1>5, <2>1, HandleAnswers
  <2>3. /\ applied' = applied \/ applied' = [applied EXCEPT ![c] = @ + 1]
        /\ client'[c].reply = "ok" => (applied'[c] = 1 <=> client[c].op # "get")
        /\ client'[c].reply \in {"not_found"} \cup Refusals => applied' = applied
    <3>1. CASE applied' = applied /\ client'[c].reply \in {"error"} \cup Refusals
      BY <3>1 DEF Refusals
    <3>2. CASE Work(c, client'[c].reply)
      BY <2>1, <3>2 DEF Work, TypeOK, Refusals
    <3>3. QED
      BY <1>5, <3>1, <3>2, HandleAnswers
  <2>4. CASE d = c
    BY <2>1, <2>2, <2>3, <2>4 DEF At, TypeOK
  <2>5. CASE d # c
    <3>1. applied'[d] = applied[d]
      BY <2>3, <2>5 DEF TypeOK
    <3>2. QED
      BY <1>3, <1>5, <2>5, <3>1, HandleAnswers DEF OnlyMoves
  <2>6. QED
    BY <2>4, <2>5
<1>6. ASSUME NEW c \in Client, Receive(c)
      PROVE  (Known(d) /\ Reported(d))'
  <2>1. CASE d = c
    BY <1>1, <1>6, <2>1, ReceiveMoves DEF Receive, At, Refusals
  <2>2. CASE d # c
    BY <1>3, <1>6, <2>2, ReceiveMoves DEF Receive, OnlyMoves
  <2>3. QED
    BY <2>1, <2>2
<1>7. ASSUME NEW c \in Client, Unreachable(c)
      PROVE  (Known(d) /\ Reported(d))'
  <2>1. CASE d = c
    BY <1>1, <1>7, <2>1, UnreachableMoves DEF Unreachable, At
  <2>2. CASE d # c
    BY <1>3, <1>7, <2>2, UnreachableMoves DEF Unreachable, OnlyMoves
  <2>3. QED
    BY <2>1, <2>2
<1>8. ASSUME NEW c \in Client, NEW password \in Password, PutPassword(c, password)
      PROVE  (Known(d) /\ Reported(d))'
  <2>1. CASE d = c
    BY <1>1, <1>8, <2>1, PutMoves DEF PutPassword, At
  <2>2. CASE d # c
    BY <1>3, <1>8, <2>2, PutMoves DEF PutPassword, OnlyMoves
  <2>3. QED
    BY <2>1, <2>2
<1>9. CASE Kill
  BY <1>1, <1>9, KillMoves DEF Kill, At
<1>10. CASE client' = client /\ applied' = applied
  BY <1>3, <1>10
<1>11. QED
  BY <1>4, <1>5, <1>6, <1>7, <1>8, <1>9, <1>10
     DEF Next, Execute, Agent, DeletePasswords, Expire, StartAgent, StopAgent, Exit, Convert, vars

\* The agent takes the password of a version for that version only, whatever
\* has become of the file meanwhile.
LEMMA NextCacheIsRight ==
    TypeOK /\ AskedForKnown /\ CacheIsRight /\ [Next]_vars => CacheIsRight'
<1> SUFFICES ASSUME TypeOK, AskedForKnown, CacheIsRight, [Next]_vars, typos' = 0
             PROVE  /\ \A u \in DOMAIN cache' : cache'[u] = lock'[u]
                    /\ \A c \in Client : client'[c].reply # "forbidden"
  BY DEF CacheIsRight
<1> DEFINE Right == /\ \A u \in DOMAIN cache' : cache'[u] = lock'[u]
                    /\ \A c \in Client : client'[c].reply # "forbidden"
<1>1. ASSUME typos = 0
      PROVE  /\ \A u \in DOMAIN cache : cache[u] = lock[u]
             /\ \A c \in Client : client[c].reply # "forbidden"
  BY <1>1 DEF CacheIsRight
<1>2. ASSUME NEW c \in Client, OnlyMoves(c), typos' = typos, lock' = lock, cache' = cache,
             client'[c].reply # "forbidden"
      PROVE  Right
  BY <1>1, <1>2 DEF OnlyMoves
<1>3. ASSUME NEW c \in Client, NEW op \in {"get", "set", "rm"}, NEW key \in Key,
             Check(c, op, key)
      PROVE  Right
  BY <1>1, <1>2, <1>3, CheckMoves DEF Check
<1>4. ASSUME NEW c \in Client, Handle(c)
      PROVE  Right
  BY <1>1, <1>2, <1>4, HandleAnswers DEF Handle
<1>5. ASSUME NEW c \in Client, Receive(c)
      PROVE  Right
  BY <1>2, <1>5, ReceiveMoves DEF Receive
<1>6. ASSUME NEW c \in Client, Unreachable(c)
      PROVE  Right
  BY <1>2, <1>6, UnreachableMoves DEF Unreachable
<1>7. ASSUME NEW c \in Client, NEW password \in Password, PutPassword(c, password)
      PROVE  Right
  <2>1. typos = 0 /\ password = lock[client[c].uuid]
    BY <1>7 DEF PutPassword, TypeOK
  <2>2. \A u \in DOMAIN cache' : cache'[u] = lock'[u]
    BY <1>1, <1>7, <2>1 DEF PutPassword, Store
  <2>3. OnlyMoves(c) /\ client'[c].reply = client[c].reply
    BY <1>7, PutMoves DEF PutPassword
  <2>4. QED
    BY <1>1, <2>1, <2>2, <2>3 DEF OnlyMoves
<1>8. CASE Kill
  BY <1>1, <1>8, KillMoves DEF Kill, NoPasswords
<1>9. CASE /\ client' = client /\ lock' = lock /\ typos' = typos
           /\ DOMAIN cache' \subseteq DOMAIN cache
           /\ \A u \in DOMAIN cache' : cache'[u] = cache[u]
  BY <1>1, <1>9
<1>10. CASE Agent
  BY <1>8, <1>9, <1>10
     DEF Agent, DeletePasswords, Expire, StartAgent, StopAgent, Exit, NoPasswords
<1>11. ASSUME NEW password \in Password \cup {NoPassword}, Convert(password)
       PROVE  Right
  <2>1. \A u \in DOMAIN cache : lock'[u] = lock[u]
    BY <1>11, ConvertAppends DEF AskedForKnown
  <2>2. QED
    BY <1>1, <1>11, <2>1 DEF Convert
<1>12. CASE UNCHANGED vars
  BY <1>9, <1>12 DEF vars
<1>13. QED
  BY <1>3, <1>4, <1>5, <1>6, <1>7, <1>10, <1>11, <1>12 DEF Next, Execute

\* The right password for the version in the file opens the shrine; another
\* one costs a typo; and one for an earlier version changes nothing about it.
LEMMA StoreOpens ==
    ASSUME TypeOK, NEW c \in Client, NEW password \in Password, PutPassword(c, password),
           client[c].uuid \in 1..Uuid
    PROVE  \/ typos' = typos + 1
           \/ typos' = typos /\ (Opens \/ client[c].uuid = Uuid => Opens')
<1>1. CASE password = lock[client[c].uuid]
  BY <1>1 DEF PutPassword, Store, Opens, IsPlain, Uuid
<1>2. CASE password # lock[client[c].uuid]
  BY <1>2 DEF PutPassword
<1>3. QED
  BY <1>1, <1>2

\* Whatever makes a request fail that would not have failed before, a typo, a
\* loss or a convert, gives every command another prompt.
LEMMA NextPromptsLeft ==
    /\ TypeOK /\ AskedForKnown /\ PromptsLeft /\ PromptsAreAccounted /\ [Next]_vars
    => (PromptsLeft /\ PromptsAreAccounted)'
<1> SUFFICES ASSUME TypeOK, AskedForKnown, PromptsLeft, PromptsAreAccounted, [Next]_vars,
                    NEW d \in Client
             PROVE  /\ At(d, "start")' => prompts'[d] = 0
                    /\ At(d, "request")' /\ MayBeRefused' =>
                          prompts'[d] + 1 <= Uuid' + typos' + losses'
                    /\ At(d, "answered")' /\ client'[d].reply \in Refusals =>
                          prompts'[d] + 1 <= client'[d].uuid + typos' + losses'
                    /\ At(d, "prompted")' =>
                          prompts'[d] <= client'[d].uuid + typos' + losses'
                    /\ prompts'[d] <= Uuid' + typos' + losses'
  BY DEF PromptsLeft, PromptsAreAccounted
<1> DEFINE Left == /\ At(d, "start")' => prompts'[d] = 0
                   /\ At(d, "request")' /\ MayBeRefused' =>
                         prompts'[d] + 1 <= Uuid' + typos' + losses'
                   /\ At(d, "answered")' /\ client'[d].reply \in Refusals =>
                         prompts'[d] + 1 <= client'[d].uuid + typos' + losses'
                   /\ At(d, "prompted")' =>
                         prompts'[d] <= client'[d].uuid + typos' + losses'
                   /\ prompts'[d] <= Uuid' + typos' + losses'
<1>1. /\ At(d, "start") => prompts[d] = 0
      /\ At(d, "request") /\ MayBeRefused => prompts[d] + 1 <= Uuid + typos + losses
      /\ At(d, "answered") /\ client[d].reply \in Refusals =>
            prompts[d] + 1 <= client[d].uuid + typos + losses
      /\ At(d, "prompted") => prompts[d] <= client[d].uuid + typos + losses
      /\ prompts[d] <= Uuid + typos + losses
  BY DEF PromptsLeft, PromptsAreAccounted
<1>2. /\ Uuid \in Nat /\ Uuid >= 1 /\ typos \in Nat /\ losses \in Nat /\ prompts[d] \in Nat
      /\ client[d].uuid \in Nat
  BY ProtocolAssumption DEF TypeOK, Talk
<1>3. ASSUME client'[d] = client[d], prompts'[d] = prompts[d],
             Uuid' \in Nat, typos' \in Nat, losses' \in Nat,
             Uuid' >= Uuid, typos' >= typos, losses' >= losses,
             \/ MayBeRefused' => MayBeRefused
             \/ Uuid' + typos' + losses' >= Uuid + typos + losses + 1
      PROVE  Left
  <2>1. /\ Uuid + typos + losses <= Uuid' + typos' + losses'
        /\ client[d].uuid + typos + losses <= client[d].uuid + typos' + losses'
    BY <1>2, <1>3
  <2>2. At(d, "request") /\ MayBeRefused' => prompts[d] + 1 <= Uuid' + typos' + losses'
    <3>1. CASE MayBeRefused' => MayBeRefused
      <4>1. At(d, "request") /\ MayBeRefused' => prompts[d] + 1 <= Uuid + typos + losses
        BY <1>1, <3>1
      <4>2. prompts[d] + 1 <= Uuid + typos + losses => prompts[d] + 1 <= Uuid' + typos' + losses'
        BY <1>2, <1>3, <2>1
      <4>3. QED
        BY <4>1, <4>2
    <3>2. CASE Uuid' + typos' + losses' >= Uuid + typos + losses + 1
      <4>1. prompts[d] <= Uuid + typos + losses
        BY <1>1
      <4>2. prompts[d] + 1 <= Uuid' + typos' + losses'
        BY <1>2, <1>3, <3>2, <4>1
      <4>3. QED
        BY <4>2
    <3>3. QED
      BY <1>3, <3>1, <3>2
  <2>3. /\ At(d, "start") => prompts[d] = 0
        /\ At(d, "answered") /\ client[d].reply \in Refusals =>
              prompts[d] + 1 <= client[d].uuid + typos' + losses'
        /\ At(d, "prompted") => prompts[d] <= client[d].uuid + typos' + losses'
        /\ prompts[d] <= Uuid' + typos' + losses'
    BY <1>1, <1>2, <1>3, <2>1
  <2>4. \A place : At(d, place)' <=> At(d, place)
    BY <1>3 DEF At
  <2>5. QED
    BY <1>3, <2>2, <2>3, <2>4
<1>4. ASSUME UNCHANGED <<lock, agent, cache, typos, losses, prompts>>, client'[d] = client[d]
      PROVE  Left
  BY <1>2, <1>3, <1>4 DEF Uuid, MayBeRefused, Opens, IsPlain
<1>5. ASSUME NEW c \in Client, NEW op \in {"get", "set", "rm"}, NEW key \in Key,
             Check(c, op, key)
      PROVE  Left
  <2>1. CASE d = c
    <3>1. client'[d].pc = "request" /\ prompts' = prompts /\ prompts[d] = 0
      BY <1>1, <1>5, <2>1, CheckMoves DEF Check
    <3>2. prompts'[d] + 1 <= Uuid' + typos' + losses' /\ prompts'[d] <= Uuid' + typos' + losses'
      BY <1>2, <1>5, <3>1 DEF Check, Uuid
    <3>3. QED
      BY <3>1, <3>2 DEF At
  <2>2. CASE d # c
    BY <1>4, <1>5, <2>2, CheckMoves DEF Check, OnlyMoves
  <2>3. QED
    BY <2>1, <2>2
<1>6. ASSUME NEW c \in Client, Handle(c)
      PROVE  Left
  <2>1. CASE d = c
    <3>1. client'[c].pc = "answered" /\ (client'[c].reply \in Refusals => client'[c].uuid = Uuid /\ ~Opens)
      BY <1>6, HandleAnswers
    <3>2. UNCHANGED <<lock, typos, losses, prompts>> /\ At(c, "request")
      BY <1>6 DEF Handle
    <3>3. QED
      BY <1>1, <1>2, <2>1, <3>1, <3>2 DEF At, Uuid, MayBeRefused
  <2>2. CASE d # c
    BY <1>4, <1>6, <2>2, HandleAnswers DEF Handle, OnlyMoves
  <2>3. QED
    BY <2>1, <2>2
<1>7. ASSUME NEW c \in Client, Receive(c)
      PROVE  Left
  <2>1. UNCHANGED <<lock, agent, cache, typos, losses>> /\ At(c, "answered") /\ Uuid' = Uuid
    BY <1>7 DEF Receive, Uuid
  <2>2. CASE d = c /\ client'[c].pc = "prompted"
    <3>1. /\ client[c].reply \in Refusals /\ client'[c].uuid = client[c].uuid
          /\ prompts' = [prompts EXCEPT ![c] = @ + 1]
      BY <1>7, <2>2, ReceiveMoves
    <3>2. client[c].uuid \in 1..Uuid /\ prompts'[d] = prompts[d] + 1
      BY <2>1, <2>2, <3>1 DEF AskedForKnown, TypeOK
    <3>3. QED
      BY <1>1, <1>2, <2>1, <2>2, <3>1, <3>2 DEF At
  <2>3. CASE d = c /\ client'[c].pc = "done"
    BY <1>1, <1>2, <1>7, <2>1, <2>3, ReceiveMoves DEF At
  <2>4. CASE d # c
    <3>1. client'[d] = client[d] /\ prompts'[d] = prompts[d]
      BY <1>7, <2>4, ReceiveMoves DEF OnlyMoves, Receive, TypeOK
    <3>2. MayBeRefused' => MayBeRefused
      BY <2>1 DEF MayBeRefused, Opens, IsPlain, Uuid
    <3>3. QED
      BY <1>2, <1>3, <2>1, <3>1, <3>2
  <2>5. QED
    BY <1>7, <2>2, <2>3, <2>4, ReceiveMoves
<1>8. ASSUME NEW c \in Client, Unreachable(c)
      PROVE  Left
  <2>1. CASE d = c
    BY <1>1, <1>2, <1>8, <2>1, UnreachableMoves DEF Unreachable, At, Uuid
  <2>2. CASE d # c
    BY <1>4, <1>8, <2>2, UnreachableMoves DEF Unreachable, OnlyMoves
  <2>3. QED
    BY <2>1, <2>2
<1>9. ASSUME NEW c \in Client, NEW password \in Password, PutPassword(c, password)
      PROVE  Left
  <2>1. client[c].uuid \in 1..Uuid /\ At(c, "prompted") /\ agent = "up"
    BY <1>9 DEF PutPassword, AskedForKnown
  <2>2. /\ Uuid' = Uuid /\ losses' = losses /\ agent' = agent /\ prompts' = prompts
    BY <1>9 DEF PutPassword, Uuid
  <2>3. \/ typos' = typos + 1
        \/ typos' = typos /\ (Opens \/ client[c].uuid = Uuid => Opens')
    BY <1>9, <2>1, StoreOpens
  <2>4. OnlyMoves(c) /\ client'[c].pc = "request"
    BY <1>9, PutMoves DEF PutPassword
  <2>5. CASE d = c
    BY <1>1, <1>2, <2>1, <2>2, <2>3, <2>4, <2>5 DEF At, MayBeRefused
  <2>6. CASE d # c
    <3>1. client'[d] = client[d]
      BY <2>4, <2>6 DEF OnlyMoves
    <3>2. \/ MayBeRefused' => MayBeRefused
          \/ typos' = typos + 1
      BY <2>1, <2>2, <2>3 DEF MayBeRefused
    <3>3. QED
      BY <1>2, <1>3, <2>2, <2>3, <3>1, <3>2
  <2>7. QED
    BY <2>5, <2>6
<1>10. CASE Kill
  <2>1. /\ Uuid' = Uuid /\ typos' = typos /\ losses' = losses + 1 /\ prompts' = prompts
    BY <1>10 DEF Kill, Uuid
  <2>2. client'[d] = client[d] \/ client'[d].pc = "done"
    BY <1>10, KillMoves
  <2>3. QED
    BY <1>1, <1>2, <1>3, <2>1, <2>2 DEF At
<1>11. ASSUME \/ DeletePasswords \/ StopAgent
              \/ \E uuid \in DOMAIN cache : Expire(uuid)
       PROVE  Left
  <2>1. /\ Uuid' = Uuid /\ typos' = typos /\ losses' = losses + 1 /\ prompts' = prompts
        /\ client' = client
    BY <1>11 DEF DeletePasswords, StopAgent, Expire, Uuid
  <2>2. QED
    BY <1>2, <1>3, <2>1
<1>12. CASE StartAgent \/ Exit
  <2>1. /\ Uuid' = Uuid /\ typos' = typos /\ losses' = losses /\ prompts' = prompts
        /\ client' = client
    BY <1>12 DEF StartAgent, Exit, Uuid
  <2>2. MayBeRefused' => MayBeRefused
    BY <1>12, <2>1 DEF StartAgent, Exit, MayBeRefused, Opens, IsPlain
  <2>3. QED
    BY <1>2, <1>3, <2>1, <2>2
<1>13. ASSUME NEW password \in Password \cup {NoPassword}, Convert(password)
       PROVE  Left
  <2>1. /\ Uuid' = Uuid + 1 /\ typos' = typos /\ losses' = losses /\ prompts' = prompts
        /\ client' = client
    BY <1>13, ConvertAppends DEF Convert
  <2>2. QED
    BY <1>2, <1>3, <2>1
<1>14. CASE UNCHANGED vars
  BY <1>4, <1>14 DEF vars
<1>15. QED
  BY <1>5, <1>6, <1>7, <1>8, <1>9, <1>10, <1>11, <1>12, <1>13, <1>14 DEF Next, Execute, Agent

\* What is true of every state, for any number of clients and of everything
\* that can go wrong.
LEMMA ProtocolInvHolds == Spec => []ProtocolInv
<1>1. ProtocolInv /\ [Next]_vars => ProtocolInv'
  BY NextTypeOK, NextKeyIsGiven, NextAskedForKnown, NextEditIsKnown, NextCacheIsRight,
     NextPromptsLeft DEF ProtocolInv
<1>2. QED
  BY <1>1, InitProtocolInv, PTL DEF Spec

-----------------------------------------------------------------------------
(* The properties.                                                         *)

\* Every value of the state is of the type the code gives it.
THEOREM TypeCorrect == Spec => []TypeOK
BY ProtocolInvHolds, PTL DEF ProtocolInv

\* However often a command sends its request again, and wherever the agent
\* dies, its edit is saved at most once, and what it reports of it is true.
THEOREM ReportsAreTrueHolds == Spec => []ReportsAreTrue
BY ProtocolInvHolds, PTL DEF ProtocolInv

\* While nobody mistypes, nobody is told that a password is wrong, however
\* converts, losses and the passwords of several clients interleave.
THEOREM RightPasswordsSufficeHolds == Spec => []RightPasswordsSuffice
<1>1. ProtocolInv => RightPasswordsSuffice
  BY DEF ProtocolInv, CacheIsRight, RightPasswordsSuffice
<1>2. QED
  BY <1>1, ProtocolInvHolds, PTL

\* No command asks for a password more often than there were versions of the
\* shrine, typos and losses, of anybody.
THEOREM PromptsAreAccountedHolds == Spec => []PromptsAreAccounted
BY ProtocolInvHolds, PTL DEF ProtocolInv
=============================================================================

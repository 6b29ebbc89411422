------------------------------ MODULE Session ------------------------------
(***************************************************************************)
(* One user's commands, one after another: exec of src/src/cli.rs, the     *)
(* controllers, the password a command works with (-P, the passwords file, *)
(* the terminal), the two ways a command takes, itself or through the      *)
(* agent, and the error each of them reports.                              *)
(*                                                                         *)
(* A command that works itself is one step, and so is a request to the     *)
(* agent; between the requests of one command the agent may lose passwords *)
(* or end.  A save may fail, the file being truncated by then, and so may  *)
(* the commit after it, and the command or the handler reports either.     *)
(* Saves that interleave are in Vault and System, answers that are lost in *)
(* AgentProtocol; which keys the store refuses, lists under another name   *)
(* or panics on is in Holder, and here any of its keys may be such a one.  *)
(***************************************************************************)
EXTENDS Naturals

CONSTANTS
    Key, Setting,   \* names of secrets, and of private settings
    Password,       \* passwords of encrypted shrines
    NoPassword,     \* the default password, of a plain shrine
    NotGiven,       \* an option that is not given
    NoCommand,      \* no command was given
    MaxUuid,        \* bound on the shrines ever built
    MaxSlips        \* bound on those, for a command

ASSUME SessionAssumption ==
    /\ Key \cap Setting = {}
    /\ NoPassword \notin Password /\ NotGiven \notin Password \cup {NoPassword}
    /\ MaxUuid \in Nat /\ MaxSlips \in Nat

VARIABLES
    shrine,         \* the shrine file
    uuids,          \* how many uuids were made
    rows,           \* the passwords file: uuid -> password
    private,        \* whether nobody else may read it (mode 0600)
    agent,          \* whether an agent runs
    cache,          \* AgentState.passwords: uuid -> password
    pc, cmd,        \* the command, and how far it is
    result,         \* what it said
    slips,          \* passwords mistyped or lost while the command waits
    before,         \* history: the shrine file when the command was given
    meant,          \* history: uuid -> the password the user meant for it
    spoilt          \* history: uuids that were given a wrong password

file == <<shrine, uuids, meant>>
passwords == <<rows, private>>
command == <<pc, cmd, result, slips, before>>
vars == <<file, passwords, agent, cache, command, spoilt>>

-----------------------------------------------------------------------------
(* Shrines, commands, passwords.                                           *)

\* A file that is not there, is no shrine or cut short, and that right after
\* the magic number or elsewhere, is of a later version, or is a shrine,
\* encrypted if it has a password.
Missing == [kind |-> "missing"]
Cut == {[kind |-> "damaged"], [kind |-> "cut"]}
Unreadable == Cut \cup {[kind |-> "unsupported"]}
Whole(uuid, lock, holds) ==
    [kind |-> "whole", uuid |-> uuid, lock |-> lock, holds |-> holds]

Algorithms == {"aes", "plain"}
Algorithm(lock) == IF lock = NoPassword THEN "plain" ELSE "aes"

Optional(S) == S \cup {NotGiven}

\* Those that ask is_running; those that do not; those that need no password.
Remote == {"get", "set", "rm", "ls"}
Commands ==
    [op : {"get", "set", "rm"}, key : Key, given : Optional(Password)]
      \cup [op : {"get private", "set private"}, key : Setting, given : Optional(Password)]
      \cup [op : {"ls", "dump"}, pattern : {"good", "bad"}, given : Optional(Password)]
      \cup [op : {"import"}, source : {"good", "bad"}, given : Optional(Password)]
      \cup [op : {"convert"}, change : BOOLEAN, new : Optional(Password),
            algorithm : Optional(Algorithms), given : Optional(Password)]
      \cup [op : {"init"}, force : BOOLEAN, algorithm : Algorithms, given : Optional(Password)]
      \cup [op : {"info", "start", "stop", "clear"}]

\* The row of the passwords file for a uuid, if the file may be used.
ReadRow(uuid) == IF private /\ uuid \in DOMAIN rows THEN {rows[uuid]} ELSE {}

\* read_password: the row, or else what the user types.
ReadPassword(uuid) == IF ReadRow(uuid) # {} THEN ReadRow(uuid) ELSE Password

\* read_new_password: what was typed twice, or NotGiven if that was not the same.
ReadNewPassword(given) == IF given # NotGiven THEN {given} ELSE Optional(Password)

\* The password that the provider has once load_open has read the file.
Provided(given) ==
    IF given # NotGiven THEN {given}
    ELSE IF shrine.lock = NoPassword THEN {NotGiven} ELSE ReadPassword(shrine.uuid)

Opens(password) == shrine.lock \in {NoPassword, password}

With(f, k, v) == [x \in DOMAIN f \cup {k} |-> IF x = k THEN v ELSE f[x]]

None == [u \in {} |-> NoPassword]

-----------------------------------------------------------------------------
(* What a command does that works itself.  Each operator says what it      *)
(* reports, and what becomes of the file.                                  *)

Say(r) == result' = r /\ UNCHANGED file

\* The shrine gets other content.
Keep(holds) == shrine' = [shrine EXCEPT !.holds = holds] /\ UNCHANGED <<uuids, meant>>

\* to_path fails: it could not open the file, or has truncated it.
SaveFails(r) == result' = r /\ shrine' \in {shrine} \cup Cut /\ UNCHANGED <<uuids, meant>>

\* What is said after a save: the commit may fail, and import makes none.
AfterSave(c) == IF c.op = "import" THEN {"ok"} ELSE {"ok", "git"}

\* save_open of the shrine with other content: there must be a password.
SaveOpen(c, password, holds) ==
    IF password = NotGiven THEN Say("panic")
    ELSE (result' \in AfterSave(c) /\ Keep(holds)) \/ SaveFails("write")

\* A shrine that was built is saved: a new uuid, and the password for it.
SaveBuilt(c, lock, holds, chosen) ==
    \/ /\ uuids < MaxUuid
       /\ uuids' = uuids + 1
       /\ shrine' = Whole(uuids + 1, lock, holds)
       /\ meant' = With(meant, uuids + 1, chosen)
       /\ result' \in AfterSave(c)
    \/ SaveFails("write")

\* load_open: the passwords it may end up with, having opened the shrine.
LoadOpen(c) ==
    IF shrine.kind = "whole" THEN {p \in Provided(c.given) : Opens(p)} ELSE {}

\* A file that is no shrine: from_bytes panics on one that ends after its
\* magic number.
Reading == IF shrine.kind = "cut" THEN "panic" ELSE shrine.kind

\* What may be reported instead.
LoadFails(c) ==
    IF shrine.kind # "whole" THEN Say(Reading)
    ELSE (\E p \in Provided(c.given) : ~Opens(p)) /\ Say("refused")

Lookup(c) == LoadOpen(c) # {} /\ Say(IF c.key \in shrine.holds THEN "ok" ELSE "no key")

Get(c) == Lookup(c) \/ LoadFails(c)
GetPrivate(c) == Lookup(c) \/ LoadFails(c)

\* The store has a secret, which it may list under another name, or which
\* another key may lead into.
HasKeys == shrine.holds \cap Key # {}

\* Both look at the pattern before the file; one panics and the other fails on
\* a name that is listed and not found.
Ls(c) ==
    IF c.pattern = "bad" THEN Say("pattern")
    ELSE LoadFails(c) \/ (LoadOpen(c) # {} /\ (Say("ok") \/ (HasKeys /\ Say("panic"))))
Dump(c) ==
    IF c.pattern = "bad" THEN Say("pattern")
    ELSE LoadFails(c) \/ (LoadOpen(c) # {} /\ (Say("ok") \/ (HasKeys /\ Say("no key"))))

\* load_closed: no password is needed.
Info(c) == Say(IF shrine.kind = "whole" THEN "ok" ELSE Reading)

SetDirect(c) ==
    \/ \E password \in LoadOpen(c) :
          Say("index") \/ SaveOpen(c, password, shrine.holds \cup {c.key})
    \/ LoadFails(c)

SetPrivate(c) ==
    \/ \E password \in LoadOpen(c) : SaveOpen(c, password, shrine.holds \cup {c.key})
    \/ LoadFails(c)

RmDirect(c) ==
    \/ \E password \in LoadOpen(c) :
          IF c.key \in shrine.holds THEN SaveOpen(c, password, shrine.holds \ {c.key})
          ELSE Say("no key") \/ (HasKeys /\ Say("panic"))
    \/ LoadFails(c)

\* Mutant of Import: what was set is saved although a later line is refused.
ImportWhatFits(c) ==
    \/ LoadOpen(c) # {} /\ c.source = "bad" /\ Say("source")
    \/ /\ c.source = "good" /\ LoadOpen(c) # {}
       /\ \E keys \in SUBSET Key :
             result' = "index" /\ Keep(shrine.holds \cup keys)
    \/ \E password \in LoadOpen(c) :
          c.source = "good" /\ SaveOpen(c, password, shrine.holds \cup Key)
    \/ LoadFails(c)

\* import reads its file after the shrine, and saves only when the store has
\* taken every line.
Import(c) ==
    \/ LoadOpen(c) # {} /\ c.source = "bad" /\ Say("source")
    \/ LoadOpen(c) # {} /\ c.source = "good" /\ Say("index")
    \/ \E password \in LoadOpen(c) :
          c.source = "good" /\ SaveOpen(c, password, shrine.holds \cup Key)
    \/ LoadFails(c)

\* Mutant of Init_: what is typed twice is not compared.
InitUnchecked(c) ==
    IF ~c.force /\ shrine # Missing THEN Say("exists")
    ELSE IF c.algorithm = "plain" THEN SaveBuilt(c, NoPassword, {}, NoPassword)
    ELSE \E password \in ReadNewPassword(c.given) : SaveBuilt(c, password, {}, password)

\* init
Init_(c) ==
    IF ~c.force /\ shrine # Missing THEN Say("exists")
    ELSE IF c.algorithm = "plain" THEN SaveBuilt(c, NoPassword, {}, NoPassword)
    ELSE \E password \in ReadNewPassword(c.given) :
            IF password = NotGiven THEN Say("mismatch")
            ELSE SaveBuilt(c, password, {}, password)

\* Mutant of ChangePassword: a new password does not imply the change.
ChangeIfAsked(c, algorithm) == c.change \/ algorithm # Algorithm(shrine.lock)

\* convert changes the password if it is told to, is given a new one, or
\* changes the algorithm.
ChangePassword(c, algorithm) ==
    c.change \/ c.new # NotGiven \/ algorithm # Algorithm(shrine.lock)

\* Neither the password nor the algorithm is to be changed: nothing is done.
IsVoid(c) == ~c.change /\ {c.new, c.algorithm} = {NotGiven}

\* The rest of convert, the shrine being open.
Rebuild(c, password) ==
    LET algorithm == IF c.algorithm = NotGiven THEN Algorithm(shrine.lock) ELSE c.algorithm
        chosen(new) == IF algorithm = "plain" THEN NoPassword
                       ELSE IF new # NotGiven THEN new ELSE shrine.lock
    IN  IF ~ChangePassword(c, algorithm)
          THEN IF password = NotGiven THEN Say("panic")
               ELSE SaveBuilt(c, IF algorithm = "plain" THEN NoPassword ELSE password,
                              shrine.holds, chosen(c.new))
        ELSE IF algorithm = "plain" THEN SaveBuilt(c, NoPassword, shrine.holds, NoPassword)
        ELSE \E new \in ReadNewPassword(c.new) :
                IF new = NotGiven THEN Say("mismatch")
                ELSE SaveBuilt(c, new, shrine.holds, chosen(new))

Convert(c) ==
    IF IsVoid(c) THEN Say("ok")
    ELSE (\E password \in LoadOpen(c) : Rebuild(c, password)) \/ LoadFails(c)

\* exec
RunDirect(c) ==
    \/ c.op = "get" /\ Get(c)
    \/ c.op = "get private" /\ GetPrivate(c)
    \/ c.op = "set" /\ SetDirect(c)
    \/ c.op = "set private" /\ SetPrivate(c)
    \/ c.op = "rm" /\ RmDirect(c)
    \/ c.op = "import" /\ Import(c)
    \/ c.op = "ls" /\ Ls(c)
    \/ c.op = "dump" /\ Dump(c)
    \/ c.op = "init" /\ Init_(c)
    \/ c.op = "convert" /\ Convert(c)
    \/ c.op = "info" /\ Info(c)

-----------------------------------------------------------------------------
(* The commands.                                                           *)

Give(c) ==
    /\ pc = "idle"
    /\ before' = shrine
    /\ UNCHANGED <<passwords, slips, spoilt>>

\* A command that works itself: it asks for no agent, or there is none.
Direct(c) ==
    /\ Give(c)
    /\ cmd' = c
    /\ c.op \notin {"start", "stop", "clear"}
    /\ c.op \in Remote => ~agent
    /\ RunDirect(c)
    /\ pc' = "done"
    /\ UNCHANGED <<agent, cache>>

\* A command that finds an agent leaves the work to it, and -P aside.
ThroughAgent(c) ==
    /\ Give(c)
    /\ c.op \in Remote /\ agent
    /\ cmd' = [c EXCEPT !.given = NotGiven]
    /\ pc' = "request"
    /\ UNCHANGED <<file, agent, cache, result>>

\* agent start, stop and clear-passwords
Manage(c) ==
    /\ Give(c)
    /\ cmd' = c
    /\ c.op \in {"start", "stop", "clear"}
    /\ agent' = (c.op = "start" \/ (c.op = "clear" /\ agent))
    /\ cache' = IF c.op = "start" THEN cache ELSE None
    /\ Say(IF c.op = "clear" /\ ~agent THEN "communication" ELSE "ok")
    /\ pc' = "done"

\* What the client makes of an answer that is an error, and no password helps.
Heard(response) ==
    CASE response = "FileNotFound" -> "missing"
      [] response = "KeyNotFound" -> "no key"
      [] response = "Regex" -> "pattern"
      [] OTHER -> "unknown"

\* open_shrine finds no password for the shrine, or one that does not open it.
Locked ==
    /\ shrine.kind = "whole" /\ shrine.lock # NoPassword
    /\ shrine.uuid \in DOMAIN cache => cache[shrine.uuid] # shrine.lock

\* A request that is answered and asks for no password.
Answered == pc' = "done"

\* A handler that panics drops the connection.
Panicked == Say("communication")

\* open_shrine, and then what the handler does: without a password the client
\* is to ask for one, and other errors are answered, but for a panic.
OpenShrine(Work) ==
    IF Locked THEN pc' = "password" /\ Say("none")
    ELSE /\ Answered
         /\ IF shrine = Missing THEN Say(Heard("FileNotFound"))
            ELSE IF shrine.kind = "cut" THEN Panicked
            ELSE IF shrine.kind # "whole" THEN Say(Heard("Io"))
            ELSE Work

GetKeys == IF cmd.pattern = "bad" THEN Answered /\ Say(Heard("Regex"))
           ELSE OpenShrine(Say("ok") \/ (HasKeys /\ Panicked))

GetKey == OpenShrine(Say(IF cmd.key \in shrine.holds THEN "ok" ELSE Heard("KeyNotFound")))

\* A set that the store refuses, a save that fails and a commit that fails are
\* one and the same answer.
PutKey ==
    OpenShrine(\/ Say(Heard("Write")) \/ SaveFails(Heard("Write"))
               \/ result' \in {"ok", Heard("Write")} /\ Keep(shrine.holds \cup {cmd.key}))

\* The answer to a removal that worked is one the client cannot read.
DeleteKey ==
    OpenShrine(IF cmd.key \in shrine.holds
                 THEN \/ SaveFails(Heard("Write"))
                      \/ result' \in {"invalid", Heard("Write")} /\ Keep(shrine.holds \ {cmd.key})
                 ELSE Say(Heard("KeyNotFound")) \/ (HasKeys /\ Panicked))

\* A request to the agent and its answer, as the client passes it on.
Request ==
    /\ pc = "request"
    /\ IF ~agent THEN Answered /\ Say("communication")
       ELSE \/ cmd.op = "get" /\ GetKey
            \/ cmd.op = "ls" /\ GetKeys
            \/ cmd.op = "set" /\ PutKey
            \/ cmd.op = "rm" /\ DeleteKey
    /\ UNCHANGED <<passwords, agent, cache, cmd, slips, before, spoilt>>

\* Mutant of Stored: the password is put, and kept nowhere.
NotStored(password) == cache

Stored(password) == With(cache, shrine.uuid, password)

\* The client reads the password for the uuid of the answer, and puts it.
PutPassword ==
    /\ pc = "password"
    /\ \E password \in ReadPassword(shrine.uuid) :
          LET typo == ReadRow(shrine.uuid) = {} /\ password # shrine.lock
          IN  /\ typo => slips < MaxSlips
              /\ slips' = IF typo THEN slips + 1 ELSE slips
              /\ IF agent
                   THEN /\ pc' = "request"
                        /\ cache' = Stored(password)
                        /\ spoilt' = IF password # shrine.lock
                                       THEN spoilt \cup {shrine.uuid} ELSE spoilt
                        /\ UNCHANGED result
                   ELSE /\ pc' = "done"
                        /\ result' = "communication"
                        /\ UNCHANGED <<cache, spoilt>>
    /\ UNCHANGED <<file, passwords, agent, cmd, before>>

Return ==
    /\ pc = "done"
    /\ pc' = "idle" /\ cmd' = NoCommand /\ result' = "none"
    /\ slips' = 0 /\ before' = Missing
    /\ UNCHANGED <<file, passwords, agent, cache, spoilt>>

-----------------------------------------------------------------------------
(* Around the commands.                                                    *)

\* The user writes a row for the shrine, right or wrong, or lets others read
\* the passwords file, or stops that.
EditPasswords ==
    /\ pc = "idle"
    /\ \/ /\ shrine.kind = "whole" /\ shrine.lock # NoPassword
          /\ \E password \in Password :
                /\ rows' = With(rows, shrine.uuid, password)
                /\ spoilt' = IF password # shrine.lock
                               THEN spoilt \cup {shrine.uuid} ELSE spoilt
          /\ UNCHANGED private
       \/ DOMAIN rows # {} /\ private' = ~private /\ UNCHANGED <<rows, spoilt>>
    /\ UNCHANGED <<file, agent, cache, command>>

\* The file is damaged, or replaced; or an earlier version of it is brought
\* back, from git say, with the uuid and the password it had.
Replace ==
    /\ pc = "idle"
    /\ \/ shrine' \in Unreadable
       \/ \E uuid \in DOMAIN meant, holds \in {{}, Key} :
             shrine' = Whole(uuid, meant[uuid], holds)
    /\ UNCHANGED <<uuids, meant, passwords, agent, cache, command, spoilt>>

\* The agent forgets a password that is idle, or ends.
Expire ==
    /\ agent /\ pc # "done"
    /\ DOMAIN cache # {}
    /\ pc # "idle" => slips < MaxSlips
    /\ slips' = IF pc = "idle" THEN slips ELSE slips + 1
    /\ \E uuid \in DOMAIN cache : cache' = [u \in DOMAIN cache \ {uuid} |-> cache[u]]
    /\ UNCHANGED <<file, passwords, agent, pc, cmd, result, before, spoilt>>

Die ==
    /\ agent /\ pc # "done"
    /\ agent' = FALSE
    /\ cache' = None
    /\ UNCHANGED <<file, passwords, command, spoilt>>

-----------------------------------------------------------------------------

Init ==
    /\ shrine = Missing /\ before = Missing
    /\ uuids = 0 /\ slips = 0
    /\ rows = None /\ cache = None /\ meant = None /\ spoilt = {}
    /\ private = TRUE /\ agent = FALSE
    /\ pc = "idle" /\ cmd = NoCommand /\ result = "none"

Next ==
    \/ pc = "idle" /\ \E c \in Commands : Direct(c) \/ ThroughAgent(c) \/ Manage(c)
    \/ Request \/ PutPassword \/ Return
    \/ EditPasswords \/ Replace \/ Expire \/ Die

Spec == Init /\ [][Next]_vars

\* The client and the agent go on; the user answers when asked.
FairSpec == Spec /\ WF_vars(Request) /\ WF_vars(PutPassword)

-----------------------------------------------------------------------------
(* Properties.                                                             *)

Lock == Password \cup {NoPassword}
File == {Missing} \cup Unreadable
          \cup [kind : {"whole"}, uuid : 1..uuids, lock : Lock, holds : SUBSET (Key \cup Setting)]

\* What a command may say: that it is done, one of the errors, or a panic.
Results == {"none", "ok", "missing", "damaged", "unsupported", "refused", "no key",
            "index", "pattern", "source", "exists", "mismatch", "write", "git", "communication",
            "invalid", "unknown", "panic"}

\* Types of the state.
TypeOK ==
    /\ shrine \in File /\ before \in File
    /\ uuids \in 0..MaxUuid /\ slips \in 0..MaxSlips
    /\ DOMAIN meant = 1..uuids /\ \A u \in 1..uuids : meant[u] \in Lock
    /\ DOMAIN rows \cup DOMAIN cache \cup spoilt \subseteq 1..uuids
    /\ \A u \in DOMAIN rows : rows[u] \in Password
    /\ \A u \in DOMAIN cache : cache[u] \in Password
    /\ private \in BOOLEAN /\ agent \in BOOLEAN
    /\ pc \in {"idle", "request", "password", "done"}
    /\ cmd \in Commands \cup {NoCommand} /\ result \in Results

\* What the user wants of a command, in terms of the file alone.
Wanted(c) ==
    CASE c.op \in {"set", "set private"} ->
            shrine = [before EXCEPT !.holds = @ \cup {c.key}]
      [] c.op = "rm" ->
            c.key \in before.holds /\ shrine = [before EXCEPT !.holds = @ \ {c.key}]
      [] c.op = "import" -> shrine = [before EXCEPT !.holds = @ \cup Key]
      [] c.op = "init" ->
            /\ c.force \/ before = Missing
            /\ shrine.uuid = uuids /\ shrine.holds = {}
            /\ Algorithm(shrine.lock) = c.algorithm
            /\ shrine.lock \in {NoPassword, c.given} \/ c.given = NotGiven
      [] c.op = "convert" /\ ~IsVoid(c) ->
            /\ shrine.uuid = uuids /\ shrine # before
            /\ shrine.holds = before.holds
            /\ Algorithm(shrine.lock)
                  = IF c.algorithm = NotGiven THEN Algorithm(before.lock) ELSE c.algorithm
            /\ shrine.lock \in {NoPassword, c.new} \/ c.new = NotGiven
            /\ \/ c.change \/ c.new # NotGiven
               \/ Algorithm(shrine.lock) # Algorithm(before.lock) \/ shrine.lock = before.lock
      [] c.op \in {"get", "get private"} -> shrine = before /\ c.key \in shrine.holds
      [] OTHER -> shrine = before

\* Whichever way a command took, what it says tells what became of the file:
\*  - it is done if it says "ok", if only the commit failed, and if the answer
\*    to rm could not be read;
\*  - the file is as it was or cut short if the save failed;
\*  - the agent's "unknown" is all of that for set and rm, and nothing for others;
\*  - every other error, and every panic, means that the file is what it was.
\* A convert without options wants nothing, and one to the algorithm of the
\* shrine no other password: so it is in convert.rs:16-34, against the help of
\* cli.rs, "This always changes the shrine's UUID", "implies password change".
AnswersAreTrue ==
    pc = "done" =>
        CASE result \in {"ok", "git", "invalid"} -> Wanted(cmd)
          [] result = "write" -> shrine \in {before} \cup Cut
          [] result = "unknown" /\ cmd.op \in {"set", "rm"} ->
                shrine \in {before} \cup Cut \/ Wanted(cmd)
          [] OTHER -> shrine = before

\* Nobody is locked out: a shrine has the password the user last meant for it,
\* what the passwords file and the agent hold for its uuid opens it, unless the
\* user put something wrong there, and a password is refused only if it was
\* typed, given with -P, or put there wrong; whatever converts, restored
\* versions, and reused passwords came between.
RightPasswordsOpen ==
    /\ shrine.kind = "whole" =>
          /\ shrine.lock = meant[shrine.uuid]
          /\ shrine.lock # NoPassword /\ shrine.uuid \notin spoilt =>
                /\ shrine.uuid \in DOMAIN rows => rows[shrine.uuid] = shrine.lock
                /\ shrine.uuid \in DOMAIN cache => cache[shrine.uuid] = shrine.lock
    /\ pc = "done" /\ result = "refused" =>
          cmd.given # NotGiven \/ ReadRow(shrine.uuid) = {} \/ shrine.uuid \in spoilt

\* A command ends, unless the passwords file has a wrong row for the shrine:
\* the client then puts it over and over, and never asks the user.
CommandsEnd ==
    LET astray == shrine.kind = "whole" /\ private /\ shrine.uuid \in DOMAIN rows
                    /\ rows[shrine.uuid] # shrine.lock
    IN  pc \in {"request", "password"} ~> pc \notin {"request", "password"} \/ astray
=============================================================================

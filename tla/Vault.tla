-------------------------------- MODULE Vault --------------------------------
(***************************************************************************)
(* The shrine file, the git repository next to it, and the commands that   *)
(* change them: init, set, rm, convert, config set and import of src/src/  *)
(* controller, and the put_key and delete_key handlers of the agent.       *)
(*                                                                         *)
(* Nothing locks the file.  Every command reads it whole, changes its copy *)
(* in memory, truncates the file, writes it, and then may commit: stage    *)
(* the file, read HEAD, move HEAD.  Those are the steps here; commands of  *)
(* different processes interleave between them, and a process may die      *)
(* between any two.  What a set or rm does inside the store is in Holder.  *)
(***************************************************************************)
EXTENDS Naturals, Sequences

CONSTANTS
    Process,        \* the processes that run commands
    Handlers,       \* those that are handlers of the agent
    Key, Value,     \* secrets
    Password,       \* passwords of encrypted shrines
    NoPassword,     \* the default password, of a plain shrine
    NoJob,          \* what an idle process works on
    Nothing,        \* no shrine was ever written, or reported
    Faults,         \* whether processes die and writes fail
    MaxUuid,        \* bound on the shrines ever built
    MaxRuns         \* bound on the commands ever started

ASSUME VaultAssumption ==
    /\ Handlers \subseteq Process
    /\ NoPassword \notin Password
    /\ Faults \in BOOLEAN
    /\ MaxUuid \in Nat /\ MaxRuns \in Nat

VARIABLES
    file,           \* the shrine file
    commits,        \* the contents of the file along the branch of HEAD
    pc,             \* the next step of each process
    job,            \* what each process works on
    blob,           \* the content each process has staged
    base,           \* the length of the branch each process has seen
    uuids,          \* how many uuids were made
    runs,           \* how many commands were started
    expected,       \* history: the uuid and secrets after the edits written
    reported,       \* history: the last edits reported done and committed
    intact          \* history: no save was cut short since the last init

repo == <<commits, blob, base>>
history == <<expected, reported, intact>>
vars == <<file, commits, pc, job, blob, base, uuids, runs, expected, reported, intact>>

-----------------------------------------------------------------------------
(* The data.                                                               *)

Secrets == UNION {[K -> Value] : K \in SUBSET Key}

\* A shrine is encrypted iff it has a password; git.enabled and
\* git.commit.auto are its private settings.
Shrine == [uuid : 1..MaxUuid, password : Password \cup {NoPassword},
           secrets : Secrets, enabled : BOOLEAN, auto : BOOLEAN]

\* The file is missing, truncated, unreadable, or holds a shrine.
Missing == [kind |-> "missing"]
Truncated == [kind |-> "truncated"]
Torn == [kind |-> "torn"]
Whole(shrine) == [kind |-> "whole", shrine |-> shrine]
Content == {Missing, Truncated, Torn} \cup [kind : {"whole"}, shrine : Shrine]

Merge(secrets, sets) ==
    [k \in DOMAIN secrets \cup DOMAIN sets |->
        IF k \in DOMAIN sets THEN sets[k] ELSE secrets[k]]

Drop(secrets, keys) == [k \in DOMAIN secrets \ keys |-> secrets[k]]

None == [k \in {} |-> 0]

\* The processes that are running a command.
Working == {p \in Process : pc[p] \notin {"idle", "panicked"}}

\* What a command means to do to the secrets: forget some, set some.
Edit(dels, sets) == [dels |-> dels, sets |-> sets]
Apply(edit, secrets) == Merge(Drop(secrets, edit.dels), edit.sets)

-----------------------------------------------------------------------------
(* Starting a command: what it reads, and the shrine it will save.         *)

\* A process takes up a job: the command, the shrine to save, the edit it
\* means, whether it will find no password to save with, whether it commits.
Begin(p, op, force, draft, edit, blind, commit) ==
    /\ p \notin Working
    /\ runs < MaxRuns
    /\ runs' = runs + 1
    /\ job' = [job EXCEPT ![p] = [op |-> op, force |-> force, draft |-> draft,
                                  edit |-> edit, blind |-> blind, commit |-> commit]]
    /\ pc' = [pc EXCEPT ![p] = "save"]
    /\ UNCHANGED <<file, repo, history>>

\* Mutant of Init_: the uuid is taken before it is made.
InitEarlyUuid(p, force, password, git) ==
    /\ p \notin Handlers
    /\ force \/ file.kind = "missing"
    /\ uuids < MaxUuid
    /\ uuids' = uuids + 1
    /\ Begin(p, "init", force,
             [uuid |-> uuids, password |-> password, secrets |-> None,
              enabled |-> git, auto |-> git],
             Edit(Key, None), FALSE, git)

\* init checks for the file; then the user may take long over the password.
\* It commits whenever git is asked for.
Init_(p, force, password, git) ==
    /\ p \notin Handlers
    /\ force \/ file.kind = "missing"
    /\ uuids < MaxUuid
    /\ uuids' = uuids + 1
    /\ Begin(p, "init", force,
             [uuid |-> uuids + 1, password |-> password, secrets |-> None,
              enabled |-> git, auto |-> git],
             Edit(Key, None), FALSE, git)

\* load_open, or open_shrine of the agent, succeeded: the file is readable,
\* and the password right if it needs one.  A command that is given no password
\* has none to save a plain shrine with: load_open asks for one only when it is
\* needed.  The agent always has one, the default one for a plain shrine.
Load(p, op, draft, edit, given) ==
    /\ file.kind = "whole"
    /\ Begin(p, op, FALSE, draft, edit,
             ~given /\ file.shrine.password = NoPassword,
             file.shrine.enabled /\ file.shrine.auto)

SetKey(p, key, value, given) ==
    LET sets == [k \in {key} |-> value]
    IN  /\ Load(p, "set",
                [file.shrine EXCEPT !.secrets = Merge(@, sets)], Edit({}, sets), given)
        /\ UNCHANGED uuids

\* A key that is not there is refused before anything is saved.
RmKey(p, key, given) ==
    /\ file.kind = "whole"
    /\ key \in DOMAIN file.shrine.secrets
    /\ Load(p, "rm",
            [file.shrine EXCEPT !.secrets = Drop(@, {key})], Edit({key}, None), given)
    /\ UNCHANGED uuids

\* set and rm without an agent, and the handlers of PUT and DELETE on a key.
Set(p, key, value, given) == p \notin Handlers /\ SetKey(p, key, value, given)
PutKey(p, key, value) == p \in Handlers /\ SetKey(p, key, value, TRUE)
Rm(p, key, given) == p \notin Handlers /\ RmKey(p, key, given)
DeleteKey(p, key) == p \in Handlers /\ RmKey(p, key, TRUE)

\* The command decides whether to commit on the settings it loaded, before
\* it changes them.
ConfigSet(p, setting, on, given) ==
    /\ p \notin Handlers
    /\ Load(p, "config",
            IF setting = "git.enabled" THEN [file.shrine EXCEPT !.enabled = on]
                                       ELSE [file.shrine EXCEPT !.auto = on],
            Edit({}, None), given)
    /\ UNCHANGED uuids

\* import sets many secrets and saves once; it never commits.
Import(p, sets, given) ==
    /\ p \notin Handlers
    /\ file.kind = "whole"
    /\ Begin(p, "import", FALSE,
             [file.shrine EXCEPT !.secrets = Merge(@, sets)], Edit({}, sets),
             ~given /\ file.shrine.password = NoPassword, FALSE)
    /\ UNCHANGED uuids

\* Mutant of Convert: the new shrine has the uuid of the old one.
ConvertSameUuid(p, password, keep, given) ==
    /\ p \notin Handlers
    /\ file.kind = "whole"
    /\ keep => password = file.shrine.password
    /\ Begin(p, "convert", FALSE, [file.shrine EXCEPT !.password = password],
             Edit({}, None),
             keep /\ ~given /\ file.shrine.password = NoPassword,
             file.shrine.enabled /\ file.shrine.auto)
    /\ UNCHANGED uuids

\* Mutant of Convert: the content is not moved to the new shrine.
ConvertLosingSecrets(p, password, keep, given) ==
    /\ p \notin Handlers
    /\ uuids < MaxUuid
    /\ uuids' = uuids + 1
    /\ file.kind = "whole"
    /\ keep => password = file.shrine.password
    /\ Begin(p, "convert", FALSE,
             [file.shrine EXCEPT !.uuid = uuids + 1, !.password = password,
                                 !.secrets = None],
             Edit({}, None),
             keep /\ ~given /\ file.shrine.password = NoPassword,
             file.shrine.enabled /\ file.shrine.auto)

\* convert moves the content to a new shrine: a new uuid, and a new password
\* or algorithm unless it is asked for the algorithm the shrine has.
Convert(p, password, keep, given) ==
    /\ p \notin Handlers
    /\ uuids < MaxUuid
    /\ uuids' = uuids + 1
    /\ file.kind = "whole"
    /\ keep => password = file.shrine.password
    /\ Begin(p, "convert", FALSE,
             [file.shrine EXCEPT !.uuid = uuids + 1, !.password = password],
             Edit({}, None),
             keep /\ ~given /\ file.shrine.password = NoPassword,
             file.shrine.enabled /\ file.shrine.auto)

-----------------------------------------------------------------------------
(* Saving.                                                                 *)

Stop(p) ==
    /\ pc' = [pc EXCEPT ![p] = "idle"]
    /\ job' = [job EXCEPT ![p] = NoJob]
    /\ blob' = [blob EXCEPT ![p] = Missing]
    /\ base' = [base EXCEPT ![p] = 0]

\* save_open has no password to close the shrine with, and panics.
SavePanics(p) ==
    /\ pc[p] = "save"
    /\ job[p].blind
    /\ pc' = [pc EXCEPT ![p] = "panicked"]
    /\ job' = [job EXCEPT ![p] = NoJob]
    /\ UNCHANGED <<file, repo, uuids, runs, history>>

\* The command gives up before it touches the file: the store refuses the
\* key, the value is not read, the file cannot be opened for writing.
GiveUp(p) ==
    /\ pc[p] = "save"
    /\ Stop(p)
    /\ UNCHANGED <<file, commits, uuids, runs, history>>

\* Mutant of Create: the file is opened without truncating it.
OpenForWriting(p) ==
    /\ pc[p] = "save"
    /\ ~job[p].blind
    /\ pc' = [pc EXCEPT ![p] = "write"]
    /\ UNCHANGED <<file, repo, job, uuids, runs, history>>

\* File::create truncates the file.
Create(p) ==
    /\ pc[p] = "save"
    /\ ~job[p].blind
    /\ file' = Truncated
    /\ pc' = [pc EXCEPT ![p] = "write"]
    /\ UNCHANGED <<repo, job, uuids, runs, history>>

\* What write_all leaves: each writer starts at offset 0, so one that meets
\* the longer bytes of another leaves their tail, and the file unreadable.
Overlay(shrine) ==
    IF file.kind = "truncated" THEN {Whole(shrine)} ELSE {Whole(shrine), Torn}

\* The uuid and the secrets the file should hold after this edit.
Meant(p) ==
    IF job[p].op = "init"
      THEN [uuid |-> job[p].draft.uuid, secrets |-> job[p].draft.secrets]
      ELSE [uuid |-> IF job[p].op = "convert" THEN job[p].draft.uuid ELSE expected.uuid,
            secrets |-> Apply(job[p].edit, expected.secrets)]

Write(p) ==
    /\ pc[p] = "write"
    /\ file' \in Overlay(job[p].draft)
    /\ expected' = Meant(p)
    /\ intact' = (intact \/ job[p].op = "init")
    /\ IF job[p].commit
         THEN /\ pc' = [pc EXCEPT ![p] = "stage"]
              /\ UNCHANGED <<job, blob, base>>
         ELSE Stop(p)
    /\ UNCHANGED <<commits, uuids, runs, reported>>

\* Mutant of WriteFails: the error is dropped, and the command goes on.
WriteFailsUnseen(p) ==
    /\ Faults
    /\ pc[p] = "write"
    /\ file' = Torn
    /\ intact' = FALSE
    /\ IF job[p].commit
         THEN /\ pc' = [pc EXCEPT ![p] = "stage"]
              /\ UNCHANGED <<job, blob, base>>
         ELSE Stop(p)
    /\ UNCHANGED <<commits, uuids, runs, expected, reported>>

\* write_all fails half way, the disk being full: the command reports the
\* error and what was in the file is gone.
WriteFails(p) ==
    /\ Faults
    /\ pc[p] = "write"
    /\ file' = Torn
    /\ intact' = FALSE
    /\ Stop(p)
    /\ UNCHANGED <<commits, uuids, runs, expected, reported>>

-----------------------------------------------------------------------------
(* Committing: create_commit of src/src/git.rs.                            *)

\* index.add_path takes the file as it is now.
Stage(p) ==
    /\ pc[p] = "stage"
    /\ blob' = [blob EXCEPT ![p] = file]
    /\ pc' = [pc EXCEPT ![p] = "head"]
    /\ UNCHANGED <<file, commits, base, job, uuids, runs, history>>

\* find_last_commit
ReadHead(p) ==
    /\ pc[p] = "head"
    /\ base' = [base EXCEPT ![p] = Len(commits)]
    /\ pc' = [pc EXCEPT ![p] = "commit"]
    /\ UNCHANGED <<file, commits, blob, job, uuids, runs, history>>

\* HEAD moves from the commit that was read to the new one.
Advance(seen, content) == Append(SubSeq(commits, 1, seen), content)

\* Mutant of Commit: the commit is made, and no reference is moved to it.
CommitDetached(p) ==
    /\ pc[p] = "commit"
    /\ base[p] = Len(commits)
    /\ reported' = expected
    /\ Stop(p)
    /\ UNCHANGED <<file, commits, uuids, runs, expected, intact>>

\* Mutant of Commit: HEAD is moved wherever it is now.
CommitForced(p) ==
    /\ pc[p] = "commit"
    /\ commits' = Advance(base[p], blob[p])
    /\ reported' = expected
    /\ Stop(p)
    /\ UNCHANGED <<file, uuids, runs, expected, intact>>

\* commit moves HEAD only if it is still the parent; the command succeeds.
Commit(p) ==
    /\ pc[p] = "commit"
    /\ base[p] = Len(commits)
    /\ commits' = Advance(base[p], blob[p])
    /\ reported' = expected
    /\ Stop(p)
    /\ UNCHANGED <<file, uuids, runs, expected, intact>>

\* HEAD has moved, the index is locked, or git fails otherwise: the command
\* reports an error, though the file is saved.
CommitFails(p) ==
    /\ pc[p] \in {"stage", "head", "commit"}
    /\ Stop(p)
    /\ UNCHANGED <<file, commits, uuids, runs, history>>

\* The process dies.
Crash(p) ==
    /\ Faults
    /\ p \in Working
    /\ intact' = (intact /\ pc[p] # "write")
    /\ Stop(p)
    /\ UNCHANGED <<file, commits, uuids, runs, expected, reported>>

-----------------------------------------------------------------------------

Init ==
    /\ file = Missing
    /\ commits = <<>>
    /\ pc = [p \in Process |-> "idle"]
    /\ job = [p \in Process |-> NoJob]
    /\ blob = [p \in Process |-> Missing]
    /\ base = [p \in Process |-> 0]
    /\ uuids = 0
    /\ runs = 0
    /\ expected = Nothing
    /\ reported = Nothing
    /\ intact = TRUE

Start(p) ==
    \/ \E force, git \in BOOLEAN, password \in Password \cup {NoPassword} :
          Init_(p, force, password, git)
    \/ \E key \in Key :
          \/ \E value \in Value : PutKey(p, key, value)
          \/ DeleteKey(p, key)
    \/ \E given \in BOOLEAN :
          \/ \E key \in Key, value \in Value : Set(p, key, value, given)
          \/ \E key \in Key : Rm(p, key, given)
          \/ \E setting \in {"git.enabled", "git.commit.auto"}, on \in BOOLEAN :
                ConfigSet(p, setting, on, given)
          \/ \E sets \in [Key -> Value] : Import(p, sets, given)
          \/ \E password \in Password \cup {NoPassword}, keep \in BOOLEAN :
                Convert(p, password, keep, given)

Save(p) == SavePanics(p) \/ GiveUp(p) \/ Create(p) \/ Write(p) \/ WriteFails(p)

GitCommit(p) == Stage(p) \/ ReadHead(p) \/ Commit(p) \/ CommitFails(p)

Next == \E p \in Process : Start(p) \/ Save(p) \/ GitCommit(p) \/ Crash(p)

Spec == Init /\ [][Next]_vars

-----------------------------------------------------------------------------
(* Properties.                                                             *)

Job == [op : {"init", "set", "rm", "config", "import", "convert"},
        force : BOOLEAN, draft : Shrine, edit : [dels : SUBSET Key, sets : Secrets],
        blind : BOOLEAN, commit : BOOLEAN]

Picture == [uuid : 1..MaxUuid, secrets : Secrets]

\* No picture of a shrine is taken for there being none.
ASSUME NothingAssumption == Nothing \notin Picture

\* Types of the state.
TypeOK ==
    /\ file \in Content
    /\ commits \in Seq(Content)
    /\ pc \in [Process -> {"idle", "save", "write", "stage", "head", "commit", "panicked"}]
    /\ job \in [Process -> Job \cup {NoJob}]
    /\ \A p \in Working : job[p] \in Job
    /\ blob \in [Process -> Content]
    /\ base \in [Process -> Nat]
    /\ uuids \in 0..MaxUuid
    /\ runs \in 0..MaxRuns
    /\ expected \in Picture \cup {Nothing}
    /\ reported \in Picture \cup {Nothing}
    /\ intact \in BOOLEAN

\* Every shrine there is: in the file, being saved, staged or committed.
Shrines ==
    LET contents == {file} \cup {commits[i] : i \in 1..Len(commits)}
                      \cup {blob[p] : p \in Process}
    IN  {c.shrine : c \in {c \in contents : c.kind = "whole"}}
          \cup {job[p].draft : p \in Working}

\* A uuid stands for one password: the agent, which keeps passwords by uuid,
\* can open every version of a shrine with the password it was given, and a
\* password changed by convert is asked for again.  Whatever the commands do
\* to each other's files, no version carries a uuid with another password.
UuidPinsPassword ==
    \A s, t \in Shrines : s.uuid = t.uuid => s.password = t.password

\* A commit that was made stays on the branch of HEAD, in its place: two
\* commands that read the same HEAD do not drop each other's commits.
CommitsStay ==
    [][/\ Len(commits') >= Len(commits)
       /\ \A i \in 1..Len(commits) : commits'[i] = commits[i]]_vars

Quiet == Working = {}

\* When no command runs and no save was cut short, the file is readable.
\* (shrine.rs:115, "Write the shrine to a path.")
FileIsWhole == Quiet /\ intact => file.kind \in {"missing", "whole"}

\* When no command runs and no save was cut short, the file holds the effect
\* of every edit that was written, in the order they were written, and the
\* uuid of the last init or convert: nothing brings an old shrine back.
\* (cli.rs:74, "Sets a secret key/value pair")
EditsLand ==
    (Quiet /\ intact /\ file.kind = "whole") =>
        /\ file.shrine.secrets = expected.secrets
        /\ file.shrine.uuid = expected.uuid

\* What a command that commits has reported done is in the history, even if
\* the process, or a later one, died in the middle of a save.
ReportedIsInHistory ==
    reported # Nothing =>
        \E i \in 1..Len(commits) :
            /\ commits[i].kind = "whole"
            /\ commits[i].shrine.uuid = reported.uuid
            /\ commits[i].shrine.secrets = reported.secrets

\* No commit holds a truncated or torn file.
HistoryIsWhole == \A i \in 1..Len(commits) : commits[i].kind = "whole"
=============================================================================

# A verification project for shrine

shrine keeps secrets in one encrypted file, commits that file to git, and can
run an agent that remembers passwords.  This directory holds TLA+ models of it,
TLC runs on small instances, and proofs checked by TLAPS.  Paths below are
relative to the root of the repository.

    tlc -config VaultSerial.cfg Vault        # a run: module and .cfg of PROJECT.json
    tlapm SystemProofs.tla                   # the proofs of a module

`PROJECT.json` lists the runs, the mutants (a plausible bug for each property,
which the run must find), the source lines each definition stands for, the
hazards, the findings and the theorems.

## 1. The system

| Component | State | Operations |
|---|---|---|
| Secret store (`src/shrine/holder.rs`, `Shrine` in `src/shrine.rs`) | a tree of indexes and secrets, private settings | set, get, remove, keys, len, is_empty, set_private, remove_private |
| Shrine file (`to_path`, `from_path`, `FilesystemShrineProvider`) | one file: magic, version, uuid, algorithm, payload | load (open), save (closed or open) |
| Git commits (`src/git.rs`) | repository next to the file, HEAD | open or make, create_commit |
| Commands (`src/controller/*`) | none, one process each | init, get, set, rm, ls, dump, import, convert, config, info, agent |
| Agent server (`src/agent/server.rs`) | passwords by uuid with access times, shutdown channel | the HTTP handlers, the sweep job, start and clean-up |
| Agent client (`src/agent/client.rs`) | none | a request, and its retry loop |
| Agent start (`src/controller/agent.rs`) | pid file and its lock, socket | start, stop, status, clear passwords |
| Passwords (`src/utils.rs`) | passwords file, terminal | read_password, read_new_password |
| Encryption, serialization, secret bytes, command line | none | encode, decode, parse |

How they interact.  A command asks whether an agent answers on the socket.  If
none does it loads the file, changes its copy, saves it whole and may commit
(`set`, `rm`); `init`, `convert`, `config set` and `import` do so always.  If one
does, `get`, `set`, `rm` and `ls` are one HTTP request each; handlers run on
several threads and do what the command would have done.  A request the agent
has no password for is answered with the uuid of the shrine; the client asks for
the password, puts it, and sends the request again.  Nothing locks the file or
the repository.  The only locks are the mutex of the password map and the lock
of the agent's pid file.

What is hard, and what has to be right:

* **store**: keys are walked segment by segment; a refused `set` leaves indexes
  behind, `remove` never removes them; get, set and remove test the same things in
  different orders.  Right: it stays a tree, what is stored is read back and
  listed under its key, no call touches two secrets.
* **file and git**: read-modify-write of a whole file, truncated and written in
  place, by any number of processes that may die; then three steps to a commit.
  Right: edits land, the file is readable, what was reported is in the history,
  a version of the file is never mixed up with another; a file cut or mixed by
  saves is noticed when it is read; to somebody who runs one command at a time
  all of it is a store that each command changes at once, agent or not.
* **password cache**: a sweep reads the clock before it has the lock, sweeps
  overlap, and the clock is the wall clock, which may be set.  Right: idle
  passwords go, those in use stay.
* **agent start and stop**: pid file, its lock and the socket are made and
  removed by processes that start, drain and die in any order.  Right: one agent
  serves, a stop leaves nothing behind, both end.
* **requests**: a retry loop, stale uuids, lost answers, several clients.
  Right: reports are true, an edit happens at most once, nobody is asked for
  or refused a password without a reason, the loop ends.
* **a command as the user sees it**: `-P`, a passwords file whose rows are keyed
  by uuid and used unseen, a terminal; options of `convert` that combine in ways
  that change the password, the uuid, both or nothing; an agent that may be there
  or not; a save that fails after it has truncated the file, a commit that fails after
  the save.  Right: each answer tells what became of the file (`AnswersAreTrue` says
  which tells what), and after any chain of commands the passwords that were stored
  still open the shrine.

## 2. The modules

| Module | Models | Used by |
|---|---|---|
| `Holder` | the store as two flat sets, `index` and `secret`, keyed by paths | `HolderTree`, `HolderProofs`, `MCHolder` |
| `HolderTree` | the store as nested nodes and the walks of `holder.rs` down to a key; implements `Holder` | `HolderListing`, `HolderTreeProofs` |
| `HolderListing` | `keys`, `len` and `is_empty`, which visit the whole tree | `MCHolderTree` |
| `PasswordCache` | `AgentState.passwords`, the handlers that touch it, the sweep, the wall clock | `PasswordCacheProofs` |
| `Vault` | the file, the repository, every command and handler that writes | `System` |
| `ShrineStore` | what one user is promised: a store that each command changes at once | `System` |
| `AgentLife` | what clients see of the agent: one at most, down, up or draining | `System`, `AgentLifecycle` |
| `System` | `Vault` and `AgentLife` composed with `is_running` and Ctrl-C; implements `ShrineStore` | `SystemProofs` |
| `ShrineFile` | the cells of the file: format, encryption, saves that overlap or are cut | `ShrineFileProofs` |
| `Session` | every command of one user: options, passwords, agent or not, and what it reports | `SessionProofs` |
| `AgentLifecycle` | `agent start`, `serve`, shutdown, clean-up; implements `AgentLife` | `AgentLifecycleProofs` |
| `AgentProtocol` | get, set and rm through an agent: client loop, answers, passwords | `AgentProtocolProofs` |

`MCHolder` and `MCHolderTree` give TLC its keys.  `*Proofs` modules hold invariants and theorems only;
`SystemProofs` holds those of `Vault` too, whose steps are steps of `System`.

**Holder and HolderTree.**  A key is a sequence of segments, `Empty` being the one
between two slashes.  `Holder` is the abstract specification: `index` holds the
paths of `Node::Index`, `secret` maps paths to secrets, and `GetResult`,
`InsertResult`, `RemoveResult`, `Listed` say what a walk answers.  `set` is
`Overwrite`, `Insert`, `Refuse`, or `RefuseAfterDescent`, the refusal that has
already made indexes.  `HolderTree` walks nested functions as the code does.  The
recursive functions of `holder.rs` are tail calls, so a walk is a chain of calls,
a function of the depth: `GetCalls`, `SetCalls` and `RemoveCalls` say what the call at
a depth makes of its node and the rest of the key, its tests in the order of the
code, and the first call that does not descend answers.  `Written` is what a
write through the `&mut` at the end of a walk leaves of the tree.  `Flat!Spec` is its
refinement, the mapping being what the ways to the keys lead to; `AnswersAgree` says
that the answers agree as well.  `HolderListing` has the operations that recur on
the whole tree.  `ListingAgrees` says what of the listing and the count is right: there
are as many names as secrets, the keys without an empty first segment are listed as
they are, and a store of such keys only is listed exactly; `is_empty` means no secret.
It claims nothing of the name a key with a leading `/` is listed under, nor that
`is_empty` is true of every store without secrets: there the code differs from its
docs (section 5).
Of a secret, the value, the mode and whether it was overwritten
are kept; user names and dates are not.

**PasswordCache.**  `Stamp` is an insert with the time of the clock; a sweep is
`StartSweep` (the clock is read) and `EndSweep` (the lock is held, old entries go).
Time is a natural number, `now`, with `Ttl` for the fifteen minutes.  What the code
reads is `Wall`, which differs from it by how far the clock was set `forth` and
`back` so far (`SetClock`); the properties are about `now` and say what each costs.

**Vault.**  A command begins with one step that loads the file and computes the
`draft` it will save; the load is one `read_to_end`, which is taken to be atomic.
Then come `Create` (truncate), `Write`, `Stage`, `ReadHead` and `Commit`, each of which
other processes may run between, and each may be replaced by a failure (`GiveUp`,
`WriteFails`, `CommitFails`), a panic (`SavePanics`) or a death (`Crash`).  A writer that
does not find the file freshly truncated leaves what it wrote or a torn file
(`Overlay`).  Keys are flat here.  Of the settings, `git.enabled` and
`git.commit.auto` are kept.  `expected`, `reported` and `intact` are history
variables: what the edits written should add up to, the last state reported done
and committed, and whether a save was cut short.

**System and ShrineStore.**  `set` and `rm` ask (`IsRunning`) and only then work: by
`RunDirect` in their own process, or by `RunInAgent` in a handler, if the agent is
still up.  `Work` is a step of `Vault` by whoever works; `Report` gives the user the
result.  The agent is that of `AgentLife`: it starts, drains with handlers at work
(`Exit` waits for them, as the graceful shutdown of `server.rs:73` does), and is
killed with its handlers.
Ctrl-C kills a command that works itself, but not the handler it waits for
(`InterruptAgent`); from then on `patient` is false and the user is promised
nothing.  `ShrineStore` has a store and a call that takes effect in one step;
the mapping `Seen` shows the old store while a save is under way and the
content of the file otherwise, `Call` the job of the user's worker.

**ShrineFile.**  A cell is what a cut need not divide: half of the magic number,
version, uuid, algorithm, length, and the cells of the payload, of which an
encrypted one has one more (salt and nonce).  `saves` lists every shrine that was
closed; `Image` is its bytes.  `Create` truncates, `WriteAll` is one `write(2)`, at the offset of
the process, over whatever is there; it may stop short (`Cut`) and go on, or the
process ends (`Stop`).  `FromBytes` tests in the order of the code, with the panic
on a file that ends after its magic number.  `Opens` knows that an encrypted
payload is authenticated as a whole and the metadata are not.  `StepsOfVault` is
why `Vault` may use four kinds of file.

**Session.**  A command that works itself is one step (`Direct`, one operator per
command); through the agent it is `ThroughAgent`, then `Request` and `PutPassword` until
`Return`.  `LoadOpen` and `Provided` are `load_open` of the provider: `-P`, or else the row
of the passwords file if its mode is 0600, or else what is typed.  The user also edits
the passwords file, rightly or wrongly, and the shrine is damaged, replaced by a
later version, or restored from an earlier one (`Replace`).  `meant` and `spoilt` are
history: which password the user meant for a uuid, and for which uuids a wrong
one was put somewhere.  Where the store may refuse a key (`Holder`) any `set` may be.  A save may fail with the
file as it was or cut (`SaveFails`: `File::create`, then `write_all`), and the commit after
a save may fail with the file changed (`AfterSave`); the command reports "write" or
"git", the agent the same `ErrorResponse::Write` for a refused set, a failed save and a failed
commit, which the client passes on as "unknown".  A file that ends after its magic
number (`Cut`) makes the reader panic; so does a removal that walks into another
secret, and a listing of names that cannot be read (`HasKeys`: any stored secret may be
such a one; `HolderListing` says which).  A panic of a handler is a dropped
connection to the client.  `set --mode`, the patterns and the output are left out, and so
are the settings that decide on commits: where one may be made, it may fail.

**AgentLifecycle.**  The path of the pid file leads to an inode; a process locks
the inode it opened, which need not be the one at the path.  The socket is the
process that bound it.  Daemonize is a library and is modelled from its use:
open or make, then lock without waiting; the lock goes with the process.
The mapping `Agent` shows what clients see of the processes: up while one answers
`IsRunning`, draining while one drains, down otherwise.  `ImplementsLife` is what
entitles `System` to a single agent that does not start again before it has
answered the requests it took.

**AgentProtocol.**  A command is at `start`, `request`, `answered`, `prompted` or `done`.
A handler is one step here (how handlers interleave is the subject of `Vault`).
`lock` is the list of passwords of the versions of the shrine: a convert appends
one.  An `error` answer may come with or without the edit having been saved.  An
agent that is killed loses its passwords and the answers on their way; one that is
stopped delivers them first.  `read_password` and `put_password` are one step:
whichever password is typed, it is the one of the version that was asked for, or
a mistyped one, and what happens in between is seen by the step anyway.

## 3. The runs

| Run | Instance | Shows |
|---|---|---|
| `holder` | 15 keys of up to 3 segments with empty ones, one value, two modes, one setting with two values; no bound on steps; 59 475 states | the four properties of the store |
| `holder_tree` | 11 keys, one value; 2 275 states | the walks implement `Holder` and answer like it, and list and count what is there |
| `password_cache` | 2 shrines, Ttl 2, gap 2, time to 5, clock set by up to 2; 3.9 M states | idle passwords go, passwords in use stay |
| `vault_serial` | 1 process, 2 keys, 2 values, 4 commands, 3 uuids, failures and deaths | the promises to somebody who uses one command at a time |
| `vault_shared` | a command and a handler, 2 passwords, 4 commands, 3 uuids, failures; 1.0 M states | what holds for any interleaving |
| `vault_lost_update` | 3 commands, no failures | **violated** `EditsLand`: two requests to one agent, the first edit is lost |
| `lifecycle` | 3 processes, 5 starts, kills; 14 261 states | safety, clients see the one agent of `AgentLife`, starts and stops end, a start is refused for good only beside an ending agent |
| `agent_protocol` | 2 clients, 2 passwords, 2 uuids, 1 mistyped, 1 loss, with fairness; 0.5 M states | reports are true, prompts and refusals have a reason, the retry loop ends |
| `system` | a command and a handler at a time, 2 keys, 3 commands, 2 uuids, failures, kills, Ctrl-C; 96 000 states | one at a time, implements `ShrineStore`, all work ends |
| `shrine_file` | 2 processes, 3 saves, payloads of 1 and 2 cells, cuts after 2 and 6 cells; 0.5 M states | damage is noticed, foreign files are kept, the steps are those of `Vault` |
| `session` | 1 secret, 1 setting, 2 passwords, 2 uuids, 1 slip a command, with fairness; 2.4 M states | answers are true, nobody is locked out, commands end |
| `agent_rm` | as `agent_protocol` | **violated** `SuccessIsReported`: rm through an agent reports a failure |

Why the bounds are enough.  The walks of the store look at one segment at a time
and branch on: last or not, empty or not, index, secret or missing; three
segments have a first, a middle and a last one, and the run has no bound on the
number of calls.  In the cache an entry interacts with one sweep or with two
that are out of order, `Ttl + MaxGap` fits in the time, and the clock may be set
before and after each of them.  In the vault each defect needs two overlapping commands, and three uuids
allow an init and two converts; the serial run fits four commands in a row, which
is init, an edit, a convert or a change of settings, and another edit.  In the
lifecycle three processes are one that ends, one that holds a removed pid file
and one that starts; five starts let two of them come back.  In the protocol two
clients, one convert, one mistyped password and one loss are each the cause of
another round, and can combine.  In the system two processes are enough for a
command to meet the handler of an agent that drains, and three commands are an
init, one that is interrupted or whose agent stops, and one that meets it.  In the
file three saves are one that was there and two that overlap; a cut after the
magic number and one after the header are those the format treats apart, and
sizes 1 and 2 make a plain and an encrypted payload of the same length.  In a
session two uuids are a shrine and its convert; every other loop is bounded only
by its state.  With one secret a removal finds no other one to walk into; the panic it
would end in leaves the file alone, which `SessionProofs` shows for any number.

Deadlock is not checked where the bounds, or the end of the commands, let the
system stop; it is checked for the stores and the cache, which never stop.

**Fairness.**  `AgentLifecycle`: each process that is starting, serving up to the
shutdown, or cleaning up takes its next step, because nothing in that code waits
but for the requests being served; nobody has to start, stop or kill an agent.
`AgentProtocol`: requests are served and answers delivered (the runtime polls its
tasks), and the user at a prompt types something; nobody has to run a command, a
convert or an agent.  `System`: whoever works takes the next step, and an agent
whose requests are answered ends; nothing is assumed of users, starts and stops.
`Session`: the client and the agent go on, and the user answers when asked.
The user mistypes at most `MaxTypos` times; with a wrong
row in the passwords file (`utils.rs:59`) nobody types, and the loop of the client
really does not end: `CommandsEnd` of `Session` has that exception, and needs it.

## 4. The proofs

All hold for every value of the constants under the named assumptions of the
modules (`TimeAssumption`, `VaultAssumption`, ...), so for any number of keys,
processes, uuids and steps.  The assumptions say that bounds are numbers, that
sets have the members the model names, and that the markers for "none" are not
among the values they are told from (`NothingAssumption`, `SystemAssumption`).  Each
module has an inductive invariant, which TLC has checked, and one lemma per
group of actions.

* `HolderProofs`: `HolderInv` is `TypeOK /\ TreeShape /\ NoTailStored`.  That no secret
  has an empty last segment is needed because `GetResult` refuses such keys: without
  it `StoredIsReadable` does not follow.  The action property needs its type only.
  Proved: `TypeOK`, `TreeShape`,
  `StoredIsReadable`, `OneSecretPerCall`.
* `HolderTreeProofs`, for any set of keys of any length: `TreeInv` says that the root is
  an index, that every way leads to an index, a secret or nothing, and that nothing is off the
  ways (`NothingOffTheWays`): the mapping, which looks along the ways to the keys
  only, misses no part of the tree.  A walk is a function of the depth, and what is
  said of it is proved by induction over depths; the induction theorems of the
  library cannot be instantiated, so `ByDepth` and `LeastDepth` are drawn from the
  well-foundedness of the naturals.  The key lemma `WrittenWalks` says what every
  other walk finds after a write: what was there where it leaves the way that
  was written, an index on that way, the new node and what is below at
  its end.  `GetAgrees`, `SetAgrees` and `RemoveAgrees` compare the answers, and one
  lemma per action of `Holder` (`SetOverwrites`, `SetInserts`, `SetRefuses`,
  `RemoveIsRemove`) the effects.
  Proved: `AnswersAgree`, `NothingOffTheWays`, `ImplementsHolder`.
* `PasswordCacheProofs`: `CacheInv` adds how far a stamp and the reading of a sweep may be
  off the time they were taken (`StampsBounded`, `ReadingsBounded`), and off each other,
  which depends on which of the two came first (`AllNear`); that no entry was idle at
  the last finished sweep (`YoungAtSweep`), and that the time is within `MaxGap` of it.
  Proved: `TypeOK`, `IdlePasswordsExpire`, `FreshPasswordsStay`.
* `SystemProofs`, about `Vault` and any interleaving: `VaultInv` is `TypeOK`, `UuidPinsPassword`, that a
  uuid in use was made (so that a new one is fresh), and that the history knows what
  a saved file should hold (so that `expected` keeps its type).  `UuidPinsPassword` is
  about every shrine there is, drafts and staged files included, which makes it
  inductive.  Proved: `TypeOK`, `UuidPinsPassword`, `CommitsStay`.
* `SystemProofs`, about `Vault` and one command at a time: `FileIsWhole`, `EditsLand`,
  `ReportedIsInHistory` and `HistoryIsWhole` are proved as `Spec /\ []Alone => []...`.
  There may be any number of processes, of which no two work on a command at once
  (`Alone`); the condition cannot be dropped, as `vault_lost_update` shows.  None of the
  four is inductive: `SerialInv` says in addition what the file is *during* a save,
  that a draft is the effect of its edit on the file there is, that who stages, reads
  HEAD or commits has a whole file under it, and that what is staged is that file.
* `SystemProofs`: `OneAtATime` needs that the worker is at work (`WorkerWorks`), and with
  it the condition `Alone` is a fact about `System` as long as the user interrupts
  nothing: `SystemInv` holds `SerialInv` while `patient`, and `SystemKeepsFile` carries
  the four promises over.  It cannot cite the theorems about `Vault`, because `patient`
  may end; it uses the same step lemmas.
* `SystemProofs`, the refinement: `ImplementsStoreHolds` is `SystemSpec => ImplementsStore`,
  for any number of processes.  The key lemma `SeenIsKnown`: while the user is patient,
  what the mapping shows of the store is a function of `intact` and `expected`.
  Steps that change neither (truncate, stage, commit, an agent that starts or ends)
  are stutters; the end of a write is where the call takes effect; a save that
  is cut short loses the store; an interrupt makes it unknown, and it stays so.
* `AgentLifecycleProofs`: `LifecycleInv` adds to the properties that a socket has an
  owner past bind as long as nobody was killed or panicked.  Proved: `TypeOK`,
  `SocketIsMine`, `SocketOutlivesOnlyCrash`, and that two locks are two files
  (`LocksExclude`, which no run lists).  `ImplementsLifeHolds` is the
  refinement, for any number of processes: by `SocketIsMine` there is one process at
  most that serves or drains (`OneDecides`), and it decides what clients see; the
  steps of all others are stutters (`UnseenStep`).
* `AgentProtocolProofs`: `ReportsAreTrue` speaks of ended commands only; `EditIsKnown` says
  what has become of the edit at each place of the conversation.  `RightPasswordsSuffice`
  rests on `CacheIsRight`, for every uuid that ever was: without a typo the cache is
  right.  `PromptsAreAccounted` is an argument by credit (`PromptsLeft`): a prompt for a
  version is charged to the versions up to it, so a command that may be refused once
  more has one left; a new version, a typo and a loss each add one.
  Proved: these three and `TypeOK`.
* `SessionProofs`: `SessionInv` says what a command that waits relies on: the file is
  what it was (`WaitsUntouched`), who is asked has an encrypted shrine before him, and,
  for *every* uuid and not just the one in the file, what is kept was meant unless it
  was spoilt (`KeptIsMeant`), which is what survives restored versions.  `AnswersAreTrue` is shown
  operator by operator (`Truthful`): a save that is reported done was one of a shrine
  that could be opened, changed as the command says (`SaveOpenIsTrue`, `SaveBuiltIsTrue`);
  one that failed says "write" (`SaveFailsSays`); and every other error is reported by a
  step that leaves the file.
  Proved: `TypeOK`, `AnswersAreTrue`, `RightPasswordsOpen`.
* `ShrineFileProofs`, for any sizes and writes that stop anywhere (`Cut` is arbitrary):
  wherever writes were cut and offsets overlapped, each cell of the file is the cell of
  some save at that place, or the filling of a gap (`CellsAreKnown`); as long as nothing
  was mixed, the file runs along the cells of one save as far as both go
  (`UnmixedFollows`), and then its length tells.  `SealedIsNamed` is for the filling of
  a gap, whose uuid is zero.  Proved: `TypeOK`, `DamageIsNoticed`, `SealedMeansSaved`,
  `ForeignIsKept`, `StepsOfVault`.

Every safety invariant, action property and refinement of the passing runs is
proved, but for `ListingAgrees`.

Only model-checked, and why:

* `ListingAgrees` of `HolderListing`: it compares a bag and a sum gathered over the whole
  tree, which takes induction over the shape of the tree and RECURSIVE operators,
  both out of reach of the prover.  (`NothingOffTheWays` proves the part of it that
  no secret is where no key leads.)
* Liveness under fairness, out of its reach too: `StartsAndStopsEnd`, `StartLeadsToAgent`, `WorkEnds`, and
  `CommandsEnd` of `AgentProtocol` and of `Session`.
* The two violations, which are counterexamples.

## 5. What was found

Checked by a run (see `findings`): lost updates, and rm through an agent that
reports "invalid response data" although it worked.  Seen while modelling, and
part of the models:

* Two saves that overlap leave a file no password opens: both truncate, the
  shorter one leaves the tail of the longer (`shrine.rs:125`; `Overlay`).  The reader
  notices it (`DamageIsNoticed`), unless short writes put cells of one save into the
  payload of another plain one.
* Without any crash, an agent that cleans up may find that another one has removed
  the pid file: it panics and leaves its socket (`server.rs:77`; `RemovePidFilePanics`).
* With a wrong row in the passwords file the client puts the wrong password for
  ever (`client.rs:161`, `utils.rs:59`; `CommandsEnd`), while a direct command is refused.
* A password given with `-P` is not used when an agent runs (`get.rs:21`; `ThroughAgent`).
* `convert` without options does nothing (`convert.rs:17`), although it "always changes the
  shrine's UUID" (`cli.rs:55`); with `-e` and the algorithm the shrine has, it changes the
  uuid and keeps the password, although `-e` "implies password change" (`cli.rs:64`;
  `IsVoid`, `ChangePassword`).
* `rm` takes a key, where its help says a pattern (`cli.rs:101`).
* With two commands at work a commit may hold a file that another save has truncated:
  `git.rs:145` stages the file as it is then (`Stage`).  `HistoryIsWhole` is checked, and
  proved, for one command at a time.
* A file cut after its magic number makes every command panic (`shrine.rs:168`; `FromBytes`).
* `rm a/b` with `a` a secret panics (`holder.rs:251`; `RemoveResult` "Panic").
* A key with a leading slash is listed without it, and `ls` panics on it
  (`holder.rs:221`, `server.rs:199`, `ls.rs:37`; `Listed`).
* `set`, `rm`, `import`, `config set`, and a `convert` that keeps a plain shrine, panic unless a password, which is
  not used, is given (`shrine.rs:716`; `SavePanics`, `SaveOpen`).
* A socket left by a killed agent blocks every later start (`server.rs:70`; `BindRefused`),
  and a start right after a stop is refused by the lock, yet returns success and leaves
  no agent (`controller/agent.rs:34`; `LockRefused`): the exception of `StartLeadsToAgent`.
* `set` on an existing key ignores the mode asked for (`shrine.rs:279`; `Overwrite`), which
  `cli.rs:81` calls "the secret's mode"; and `is_empty`, which "returns whether the holder
  has secrets or not" (`holder.rs:65`), is false for a store whose secrets were all
  removed, or that has refused a set (`IsEmpty`).
* Two overlapping `init` without `--force`: the later one destroys the shrine of the
  earlier (`init.rs:19`; `Init_` of `Vault`).

Read, and not modelled: `agent status` says "Is running: false" in both cases
(`controller/agent.rs:55,58`).

## 6. What is not modelled

Serialization (`serialize/*`) and the wrapper of secret bytes (`bytes.rs`) are codecs
without state; AES-GCM-SIV and PBKDF2 are a library's: the models take it that a
payload opens as a whole, with the password it was closed with and no other.
Formats other than BSON are never written by a command.  Output, the encodings of
`get`, what a pattern matches, signatures and messages of commits, and making a
repository change no state the properties are about.  `agent status` only prints.
`ls` through the agent is in `Session` and not in `AgentProtocol`, where it would be
`get`.  The request of a client and its answer are each whole: HTTP and the
socket are libraries'.

Assumed: a sweep ends at least every `MaxGap`; a read of the file is one step; a
`write(2)` is one step on its bytes; uuids, salts and nonces are never the same.

## 7. Plan

Done, in this order: `Holder`, `HolderTree`, `PasswordCache`, `Vault`, `AgentLifecycle`,
`AgentProtocol`, and their first proofs; then `System` with `ShrineStore`, `ShrineFile`,
`Session`, the wall clock of `PasswordCache`, and liveness in the run of `AgentProtocol`;
then the proofs about `AgentProtocol`, `Session`, `System`, `ShrineFile`, those about one
command at a time in `Vault`, and the refinement of `ShrineStore`; then the walks of
`HolderTree` as functions of the depth, with the proofs that they answer like
`Holder` and implement it, and `AgentLife`, which `AgentLifecycle` is proved to
implement and `System` is built from.  Next:

1. `ShrineFile` and `Vault`: `StepsOfVault` as a refinement, of the truncated, whole and
   torn file, in place of an action property.
2. `HolderListing`: the listing as a fold over the ways instead of over the tree, so
   that `ListingAgrees` splits into a part about paths, which can be proved, and
   one about the recursion, which TLC checks.

----------------------------- MODULE SystemProofs -----------------------------
(***************************************************************************)
(* Proofs about Vault and about System, which composes it with the agent   *)
(* and the user, for any number of processes and handlers, secrets,        *)
(* passwords and commands, with and without faults.                        *)
(*                                                                         *)
(* The first two parts are about Spec, the specification of Vault.         *)
(*                                                                         *)
(* UuidPinsPassword is a statement about every shrine there is, in the     *)
(* file, in the memory of a process, staged or committed.  It is inductive *)
(* once no shrine has a uuid that is still to be made: a step makes at     *)
(* most one new shrine, which has either the uuid AND the password of the  *)
(* one it was loaded from, or a new uuid.                                  *)
(*                                                                         *)
(* What the commands do to the file, and to the history, holds only while  *)
(* no two of them work at the same time (Alone): VaultLostUpdate shows     *)
(* that it fails otherwise.  The second part proves it from that           *)
(* hypothesis, by an invariant that relates the file to the edits written  *)
(* and to the job of the one process that works, at every step of it.      *)
(*                                                                         *)
(* The last two parts are about SystemSpec.  Unless the user interrupts a  *)
(* command that a handler of the agent works on, one process works at a    *)
(* time: the worker of the user's command (OneAtATime).  That is what the  *)
(* theorems about the file need; the invariant of System carries theirs    *)
(* along, guarded by patient.  From it every step of the commands and of   *)
(* the agent is a step of ShrineStore, or changes nothing the user sees.   *)
(***************************************************************************)
EXTENDS System, SequenceTheorems, TLAPS

\* No shrine has a uuid that was not made.
UuidsMade == \A s \in Shrines : s.uuid <= uuids

\* Once a shrine was saved, the history knows what it should be.
SavedIsExpected ==
    /\ file.kind = "whole" => expected \in Picture
    /\ \A p \in Working : job[p].op # "init" => expected \in Picture

VaultInv ==
    /\ TypeOK
    /\ SavedIsExpected
    /\ UuidsMade
    /\ UuidPinsPassword

-----------------------------------------------------------------------------
(* The data.                                                               *)

LEMMA SecretsType ==
    /\ \A secrets : secrets \in Secrets <=>
          /\ DOMAIN secrets \subseteq Key
          /\ secrets \in [DOMAIN secrets -> Value]
    /\ None \in Secrets
    /\ \A secrets, sets \in Secrets : Merge(secrets, sets) \in Secrets
    /\ \A secrets \in Secrets : \A keys : Drop(secrets, keys) \in Secrets
<1>1. ASSUME NEW secrets, DOMAIN secrets \subseteq Key, secrets \in [DOMAIN secrets -> Value]
      PROVE  secrets \in Secrets
  BY <1>1 DEF Secrets
<1>2. ASSUME NEW secrets \in Secrets
      PROVE  DOMAIN secrets \subseteq Key /\ secrets \in [DOMAIN secrets -> Value]
  BY DEF Secrets
<1>3. None \in Secrets
  BY <1>1 DEF None
<1>4. ASSUME NEW secrets \in Secrets, NEW sets \in Secrets
      PROVE  Merge(secrets, sets) \in Secrets
  <2>1. /\ DOMAIN Merge(secrets, sets) \subseteq Key
        /\ Merge(secrets, sets) \in [DOMAIN Merge(secrets, sets) -> Value]
    BY <1>2 DEF Merge
  <2>2. QED
    BY <1>1, <2>1
<1>5. ASSUME NEW secrets \in Secrets, NEW keys
      PROVE  Drop(secrets, keys) \in Secrets
  <2>1. /\ DOMAIN Drop(secrets, keys) \subseteq Key
        /\ Drop(secrets, keys) \in [DOMAIN Drop(secrets, keys) -> Value]
    BY <1>2 DEF Drop
  <2>2. QED
    BY <1>1, <2>1
<1>6. QED
  BY <1>1, <1>2, <1>3, <1>4, <1>5

LEMMA ContentType ==
    /\ Missing \in Content /\ Truncated \in Content /\ Torn \in Content
    /\ \A shrine \in Shrine : Whole(shrine) \in Content
    /\ \A c \in Content : c.kind = "whole" => c.shrine \in Shrine /\ c = Whole(c.shrine)
    /\ Missing.kind # "whole" /\ Truncated.kind # "whole" /\ Torn.kind # "whole"
    /\ \A shrine : Whole(shrine).kind = "whole" /\ Whole(shrine).shrine = shrine
BY DEF Content, Missing, Truncated, Torn, Whole

\* What is a shrine of the system.
LEMMA ShrinesAre ==
    \A s : s \in Shrines <=>
        \/ file.kind = "whole" /\ s = file.shrine
        \/ \E i \in 1..Len(commits) : commits[i].kind = "whole" /\ s = commits[i].shrine
        \/ \E p \in Process : blob[p].kind = "whole" /\ s = blob[p].shrine
        \/ \E p \in Working : s = job[p].draft
BY DEF Shrines

\* They are all well formed.
LEMMA ShrinesType == TypeOK => Shrines \subseteq Shrine
<1> SUFFICES ASSUME TypeOK, NEW s \in Shrines PROVE s \in Shrine
  OBVIOUS
<1>1. CASE file.kind = "whole" /\ s = file.shrine
  BY <1>1, ContentType DEF TypeOK
<1>2. CASE \E i \in 1..Len(commits) : commits[i].kind = "whole" /\ s = commits[i].shrine
  BY <1>2, ContentType, LenProperties DEF TypeOK
<1>3. CASE \E p \in Process : blob[p].kind = "whole" /\ s = blob[p].shrine
  BY <1>3, ContentType DEF TypeOK
<1>4. CASE \E p \in Working : s = job[p].draft
  BY <1>4 DEF TypeOK, Job
<1>5. QED
  BY <1>1, <1>2, <1>3, <1>4, ShrinesAre

-----------------------------------------------------------------------------
(* Where the shrines of the next state come from.                          *)

\* A step that makes no shrine.
LEMMA NoNewShrine ==
    ASSUME TypeOK, UuidsMade, UuidPinsPassword, uuids' = uuids,
           \A s \in Shrines' : s \in Shrines
    PROVE  UuidsMade' /\ UuidPinsPassword'
BY DEF UuidsMade, UuidPinsPassword

\* A step that makes a new version of a shrine there is.
LEMMA NewVersion ==
    ASSUME TypeOK, UuidsMade, UuidPinsPassword, uuids' = uuids,
           NEW origin \in Shrines, NEW draft,
           draft.uuid = origin.uuid, draft.password = origin.password,
           \A s \in Shrines' : s \in Shrines \/ s = draft
    PROVE  UuidsMade' /\ UuidPinsPassword'
BY DEF UuidsMade, UuidPinsPassword

\* A step that makes a shrine with a uuid of its own.
LEMMA NewShrine ==
    ASSUME TypeOK, UuidsMade, UuidPinsPassword, uuids' = uuids + 1,
           NEW draft, draft.uuid = uuids + 1,
           \A s \in Shrines' : s \in Shrines \/ s = draft
    PROVE  UuidsMade' /\ UuidPinsPassword'
<1>1. uuids \in Nat /\ \A s \in Shrines : s.uuid \in Nat /\ s.uuid <= uuids
  BY ShrinesType, VaultAssumption DEF TypeOK, UuidsMade, Shrine
<1>2. UuidsMade'
  BY <1>1 DEF UuidsMade
<1>3. \A s \in Shrines : s.uuid # draft.uuid
  BY <1>1
<1>4. UuidPinsPassword'
  BY <1>3 DEF UuidPinsPassword
<1>5. QED
  BY <1>2, <1>4

-----------------------------------------------------------------------------
(* The steps.                                                              *)

LEMMA InitVaultInv == Init => VaultInv
<1> SUFFICES ASSUME Init PROVE VaultInv
  OBVIOUS
<1>1. TypeOK
  <2>1. commits \in Seq(Content) /\ Len(commits) = 0
    BY EmptySeq DEF Init
  <2>2. QED
    BY <2>1, ContentType, VaultAssumption DEF Init, TypeOK, Working
<1>2. Shrines = {}
  BY ContentType, EmptySeq DEF Init, Shrines, Working
<1>3. QED
  BY <1>1, <1>2, ContentType
     DEF Init, VaultInv, Working, SavedIsExpected, UuidsMade, UuidPinsPassword

\* Taking up a job keeps the invariant if the shrine to be saved is a version
\* of the one in the file, or has a new uuid.
LEMMA BeginKeepsInv ==
    ASSUME VaultInv, NEW p \in Process,
           NEW op \in {"init", "set", "rm", "config", "import", "convert"},
           NEW force \in BOOLEAN, NEW draft \in Shrine,
           NEW edit \in [dels : SUBSET Key, sets : Secrets],
           NEW blind \in BOOLEAN, NEW commit \in BOOLEAN,
           Begin(p, op, force, draft, edit, blind, commit),
           op = "init" \/ file.kind = "whole",
           \/ /\ uuids' = uuids
              /\ file.kind = "whole"
              /\ draft.uuid = file.shrine.uuid /\ draft.password = file.shrine.password
           \/ /\ uuids' = uuids + 1 /\ uuids < MaxUuid
              /\ draft.uuid = uuids + 1
    PROVE  VaultInv'
<1> DEFINE new == [op |-> op, force |-> force, draft |-> draft,
                   edit |-> edit, blind |-> blind, commit |-> commit]
<1>1. /\ job' = [job EXCEPT ![p] = new] /\ new \in Job /\ new.op = op /\ new.draft = draft
      /\ pc' = [pc EXCEPT ![p] = "save"]
      /\ file' = file /\ commits' = commits /\ blob' = blob /\ base' = base
      /\ expected' = expected /\ reported' = reported /\ intact' = intact
  BY DEF Begin, Job, repo, history
<1>0. /\ Working' = Working \cup {p}
      /\ job'[p] = new
      /\ \A q \in Process : q # p => job'[q] = job[q]
  BY <1>1 DEF Working, VaultInv, TypeOK
<1>2. TypeOK'
  <2>1. runs' \in 0..MaxRuns
    BY VaultAssumption DEF Begin, VaultInv, TypeOK
  <2>2. uuids' \in 0..MaxUuid
    BY VaultAssumption DEF VaultInv, TypeOK
  <2>3. /\ job' \in [Process -> Job \cup {NoJob}]
        /\ pc' \in [Process -> {"idle", "save", "write", "stage", "head", "commit", "panicked"}]
        /\ \A q \in Working' : job'[q] \in Job
    BY <1>1, <1>0 DEF VaultInv, TypeOK
  <2>4. QED
    BY <1>1, <2>1, <2>2, <2>3 DEF VaultInv, TypeOK
<1>4. SavedIsExpected'
  BY <1>0, <1>1 DEF VaultInv, SavedIsExpected, Working
<1>5. \A s \in Shrines' : s \in Shrines \/ s = draft
  <2> SUFFICES ASSUME NEW s \in Shrines' PROVE s \in Shrines \/ s = draft
    OBVIOUS
  <2>1. \/ file.kind = "whole" /\ s = file.shrine
        \/ \E i \in 1..Len(commits) : commits[i].kind = "whole" /\ s = commits[i].shrine
        \/ \E q \in Process : blob[q].kind = "whole" /\ s = blob[q].shrine
        \/ \E q \in Working' : s = job'[q].draft
    BY <1>1 DEF Shrines
  <2>2. ASSUME NEW q \in Working', s = job'[q].draft
        PROVE  s \in Shrines \/ s = draft
    BY <1>0, <1>1, <2>2, ShrinesAre DEF Working
  <2>3. QED
    BY <2>1, <2>2, ShrinesAre
<1>6. UuidsMade' /\ UuidPinsPassword'
  <2>1. CASE uuids' = uuids /\ file.kind = "whole" /\ draft.uuid = file.shrine.uuid
               /\ draft.password = file.shrine.password
    <3>1. file.shrine \in Shrines
      BY <2>1, ShrinesAre
    <3>2. QED
      BY <2>1, <3>1, <1>5, NewVersion DEF VaultInv
  <2>2. CASE uuids' = uuids + 1 /\ draft.uuid = uuids + 1
    BY <2>2, <1>5, NewShrine DEF VaultInv
  <2>3. QED
    BY <2>1, <2>2
<1>7. QED
  BY <1>2, <1>4, <1>6 DEF VaultInv

\* Every command that starts.
LEMMA StartKeepsInv ==
    ASSUME VaultInv, NEW p \in Process, Start(p)
    PROVE  VaultInv'
<1>1. ASSUME NEW force \in BOOLEAN, NEW git \in BOOLEAN,
             NEW password \in Password \cup {NoPassword},
             Init_(p, force, password, git)
      PROVE  VaultInv'
  <2> DEFINE draft == [uuid |-> uuids + 1, password |-> password, secrets |-> None,
                       enabled |-> git, auto |-> git]
  <2>1. draft \in Shrine /\ draft.uuid = uuids + 1
    BY <1>1, SecretsType, VaultAssumption DEF Init_, Shrine, VaultInv, TypeOK
  <2>2. Edit(Key, None) \in [dels : SUBSET Key, sets : Secrets]
    BY SecretsType DEF Edit
  <2>3. /\ Begin(p, "init", force, draft, Edit(Key, None), FALSE, git)
        /\ uuids' = uuids + 1 /\ uuids < MaxUuid
    BY <1>1 DEF Init_
  <2>4. FALSE \in BOOLEAN
    OBVIOUS
  <2> HIDE DEF draft
  <2>5. QED
    BY <2>1, <2>2, <2>3, <2>4, BeginKeepsInv
<1>2. ASSUME file.kind = "whole"
      PROVE  /\ file.shrine \in Shrine
             /\ file.shrine.secrets \in Secrets
             /\ file.shrine.enabled \in BOOLEAN /\ file.shrine.auto \in BOOLEAN
  BY <1>2, ContentType DEF VaultInv, TypeOK, Shrine
<1>3. ASSUME NEW key \in Key, NEW value \in Value, NEW given \in BOOLEAN,
             SetKey(p, key, value, given)
      PROVE  VaultInv'
  <2> DEFINE sets == [k \in {key} |-> value]
             draft == [file.shrine EXCEPT !.secrets = Merge(@, sets)]
  <2>1. file.kind = "whole" /\ uuids' = uuids
    BY <1>3 DEF SetKey, Load
  <2>2. sets \in Secrets
    BY SecretsType
  <2>3. Edit({}, sets) \in [dels : SUBSET Key, sets : Secrets]
    BY <2>2 DEF Edit
  <2>4. /\ draft \in Shrine
        /\ draft.uuid = file.shrine.uuid /\ draft.password = file.shrine.password
    BY <2>1, <2>2, <1>2, SecretsType DEF Shrine
  <2>5. QED
    BY <1>3, <1>2, <2>1, <2>3, <2>4, BeginKeepsInv DEF SetKey, Load
<1>4. ASSUME NEW key \in Key, NEW given \in BOOLEAN, RmKey(p, key, given)
      PROVE  VaultInv'
  <2> DEFINE draft == [file.shrine EXCEPT !.secrets = Drop(@, {key})]
  <2>1. file.kind = "whole" /\ uuids' = uuids
    BY <1>4 DEF RmKey, Load
  <2>2. Edit({key}, None) \in [dels : SUBSET Key, sets : Secrets]
    BY SecretsType DEF Edit
  <2>3. /\ draft \in Shrine
        /\ draft.uuid = file.shrine.uuid /\ draft.password = file.shrine.password
    BY <2>1, <1>2, SecretsType DEF Shrine
  <2>4. QED
    BY <1>4, <1>2, <2>1, <2>2, <2>3, BeginKeepsInv DEF RmKey, Load
<1>5. ASSUME NEW setting \in {"git.enabled", "git.commit.auto"}, NEW on \in BOOLEAN,
             NEW given \in BOOLEAN, ConfigSet(p, setting, on, given)
      PROVE  VaultInv'
  <2> DEFINE draft == IF setting = "git.enabled" THEN [file.shrine EXCEPT !.enabled = on]
                                                 ELSE [file.shrine EXCEPT !.auto = on]
  <2>1. file.kind = "whole" /\ uuids' = uuids
    BY <1>5 DEF ConfigSet, Load
  <2>2. Edit({}, None) \in [dels : SUBSET Key, sets : Secrets]
    BY SecretsType DEF Edit
  <2>3. /\ draft \in Shrine
        /\ draft.uuid = file.shrine.uuid /\ draft.password = file.shrine.password
    BY <2>1, <1>2 DEF Shrine
  <2>4. QED
    BY <1>5, <1>2, <2>1, <2>2, <2>3, BeginKeepsInv DEF ConfigSet, Load
<1>6. ASSUME NEW sets \in [Key -> Value], NEW given \in BOOLEAN, Import(p, sets, given)
      PROVE  VaultInv'
  <2> DEFINE draft == [file.shrine EXCEPT !.secrets = Merge(@, sets)]
  <2>1. file.kind = "whole" /\ uuids' = uuids
    BY <1>6 DEF Import
  <2>2. sets \in Secrets
    BY SecretsType
  <2>3. Edit({}, sets) \in [dels : SUBSET Key, sets : Secrets]
    BY <2>2 DEF Edit
  <2>4. /\ draft \in Shrine
        /\ draft.uuid = file.shrine.uuid /\ draft.password = file.shrine.password
    BY <2>1, <2>2, <1>2, SecretsType DEF Shrine
  <2>5. QED
    BY <1>6, <2>1, <2>3, <2>4, BeginKeepsInv DEF Import
<1>7. ASSUME NEW password \in Password \cup {NoPassword}, NEW keep \in BOOLEAN,
             NEW given \in BOOLEAN, Convert(p, password, keep, given)
      PROVE  VaultInv'
  <2> DEFINE draft == [file.shrine EXCEPT !.uuid = uuids + 1, !.password = password]
  <2>1. file.kind = "whole" /\ uuids' = uuids + 1 /\ uuids < MaxUuid
    BY <1>7 DEF Convert
  <2>2. Edit({}, None) \in [dels : SUBSET Key, sets : Secrets]
    BY SecretsType DEF Edit
  <2>3. uuids + 1 \in 1..MaxUuid
    BY <2>1, VaultAssumption DEF VaultInv, TypeOK
  <2>4. draft \in Shrine /\ draft.uuid = uuids + 1
    BY <2>1, <2>3, <1>2 DEF Shrine
  <2>5. QED
    BY <1>7, <1>2, <2>1, <2>2, <2>4, BeginKeepsInv DEF Convert
<1>8. QED
  BY <1>1, <1>3, <1>4, <1>5, <1>6, <1>7 DEF Start, Set, PutKey, Rm, DeleteKey

\* What Stop leaves: p has no work, the others are as they were.
LEMMA StopLeaves ==
    ASSUME VaultInv, NEW p \in Process, Stop(p)
    PROVE  /\ pc' \in [Process -> {"idle", "save", "write", "stage", "head", "commit", "panicked"}]
           /\ job' \in [Process -> Job \cup {NoJob}]
           /\ blob' \in [Process -> Content]
           /\ base' \in [Process -> Nat]
           /\ blob'[p] = Missing
           /\ \A q \in Process : q # p => job'[q] = job[q] /\ blob'[q] = blob[q]
           /\ Working' = Working \ {p}
BY ContentType DEF Stop, VaultInv, TypeOK, Working

\* A step that ends the work of p, and may change the file to a content
\* without a shrine or to one p was saving, and may append to the branch
\* what p has staged.
LEMMA StopKeepsInv ==
    ASSUME VaultInv, NEW p \in Process, Stop(p),
           uuids' = uuids, runs' = runs,
           file' \in Content, commits' \in Seq(Content),
           expected' \in Picture \cup {Nothing}, reported' \in Picture \cup {Nothing},
           intact' \in BOOLEAN,
           expected \in Picture \/ file'.kind = "whole" => expected' \in Picture,
           file'.kind = "whole" => file'.shrine \in Shrines,
           \A i \in 1..Len(commits') : commits'[i].kind = "whole" =>
               commits'[i].shrine \in Shrines
    PROVE  VaultInv'
<1>1. TypeOK'
  BY StopLeaves DEF VaultInv, TypeOK, Working
<1>3. SavedIsExpected'
  BY StopLeaves DEF VaultInv, SavedIsExpected, Working
<1>4. \A s \in Shrines' : s \in Shrines
  <2> SUFFICES ASSUME NEW s \in Shrines' PROVE s \in Shrines
    OBVIOUS
  <2>1. \/ file'.kind = "whole" /\ s = file'.shrine
        \/ \E i \in 1..Len(commits') : commits'[i].kind = "whole" /\ s = commits'[i].shrine
        \/ \E q \in Process : blob'[q].kind = "whole" /\ s = blob'[q].shrine
        \/ \E q \in Working' : s = job'[q].draft
    BY DEF Shrines
  <2>2. CASE \E q \in Process : blob'[q].kind = "whole" /\ s = blob'[q].shrine
    BY <2>2, StopLeaves, ContentType, ShrinesAre
  <2>3. CASE \E q \in Working' : s = job'[q].draft
    BY <2>3, StopLeaves, ShrinesAre DEF Working
  <2>4. QED
    BY <2>1, <2>2, <2>3
<1>5. QED
  BY <1>1, <1>3, <1>4, NoNewShrine DEF VaultInv

\* The shrine a process works on, and what it has staged, are shrines of the
\* system, and the file is, when it can be read.
LEMMA WorkIsKnown ==
    ASSUME VaultInv, NEW p \in Process
    PROVE  /\ p \in Working =>
                 job[p] \in Job /\ job[p].draft \in Shrines /\ job[p].draft \in Shrine
           /\ blob[p].kind = "whole" => blob[p].shrine \in Shrines
           /\ file.kind = "whole" => file.shrine \in Shrines
           /\ \A i \in 1..Len(commits) : commits[i].kind = "whole" =>
                 commits[i].shrine \in Shrines
BY ShrinesAre DEF VaultInv, TypeOK, Job

\* The shrine and edit of a job give a well formed expectation.
LEMMA MeantType ==
    ASSUME VaultInv, NEW p \in Working
    PROVE  Meant(p) \in Picture
<1>1. job[p] \in Job
  BY DEF VaultInv, TypeOK
<1>2. /\ job[p].draft.uuid \in 1..MaxUuid /\ job[p].draft.secrets \in Secrets
      /\ job[p].edit.sets \in Secrets
  BY <1>1 DEF Job, Shrine
<1>3. CASE job[p].op = "init"
  BY <1>2, <1>3 DEF Meant, Picture
<1>4. CASE job[p].op # "init"
  <2>1. expected \in Picture
    BY <1>4 DEF VaultInv, SavedIsExpected
  <2>2. Drop(expected.secrets, job[p].edit.dels) \in Secrets
    BY <2>1, SecretsType DEF Picture
  <2>3. Apply(job[p].edit, expected.secrets) \in Secrets
    BY <1>2, <2>2, SecretsType DEF Apply
  <2>4. QED
    BY <1>2, <1>4, <2>1, <2>3 DEF Meant, Picture
<1>5. QED
  BY <1>3, <1>4

\* A step of a command that goes on with the same job, and writes to the file
\* or stages nothing but shrines there are.
LEMMA WorkingKeepsInv ==
    ASSUME VaultInv, Working' \subseteq Working, \A q \in Working' : job'[q] = job[q],
           job' \in [Process -> Job \cup {NoJob}],
           pc' \in [Process -> {"idle", "save", "write", "stage", "head", "commit", "panicked"}],
           uuids' = uuids, runs' = runs, commits' = commits,
           file' \in Content, blob' \in [Process -> Content], base' \in [Process -> Nat],
           expected' \in Picture \cup {Nothing}, reported' \in Picture \cup {Nothing},
           intact' \in BOOLEAN,
           expected \in Picture \/ file'.kind = "whole" => expected' \in Picture,
           file'.kind = "whole" => file'.shrine \in Shrines,
           \A q \in Process : blob'[q].kind = "whole" => blob'[q].shrine \in Shrines
    PROVE  VaultInv'
<1>1. TypeOK'
  BY DEF VaultInv, TypeOK
<1>2. SavedIsExpected'
  BY DEF VaultInv, SavedIsExpected
<1>3. \A s \in Shrines' : s \in Shrines
  <2> SUFFICES ASSUME NEW s \in Shrines' PROVE s \in Shrines
    OBVIOUS
  <2>1. \/ file'.kind = "whole" /\ s = file'.shrine
        \/ \E i \in 1..Len(commits) : commits[i].kind = "whole" /\ s = commits[i].shrine
        \/ \E q \in Process : blob'[q].kind = "whole" /\ s = blob'[q].shrine
        \/ \E q \in Working' : s = job'[q].draft
    BY DEF Shrines
  <2>2. QED
    BY <2>1, ShrinesAre
<1>4. QED
  BY <1>1, <1>2, <1>3, NoNewShrine DEF VaultInv

\* What a writer leaves in the file.
LEMMA OverlayType ==
    ASSUME VaultInv, NEW p \in Working, NEW content \in Overlay(job[p].draft)
    PROVE  content \in Content /\ (content.kind = "whole" => content.shrine \in Shrines)
<1>1. job[p].draft \in Shrines /\ job[p].draft \in Shrine
  BY WorkIsKnown DEF Working
<1>2. content = Whole(job[p].draft) \/ content = Torn
  BY DEF Overlay
<1>3. QED
  BY <1>1, <1>2, ContentType

LEMMA SaveKeepsInv ==
    ASSUME VaultInv, NEW p \in Process, Save(p)
    PROVE  VaultInv'
<1> USE DEF repo, history
<1>1. CASE SavePanics(p)
  <2>1. /\ pc' = [pc EXCEPT ![p] = "panicked"] /\ job' = [job EXCEPT ![p] = NoJob]
        /\ UNCHANGED <<file, repo, uuids, runs, history>>
    BY <1>1 DEF SavePanics
  <2>2. Working' \subseteq Working /\ \A q \in Working' : job'[q] = job[q]
    BY <2>1 DEF Working, VaultInv, TypeOK
  <2>3. /\ job' \in [Process -> Job \cup {NoJob}]
        /\ pc' \in [Process -> {"idle", "save", "write", "stage", "head", "commit", "panicked"}]
    BY <2>1 DEF VaultInv, TypeOK
  <2>4. QED
    BY <2>1, <2>2, <2>3, WorkIsKnown, WorkingKeepsInv DEF VaultInv, TypeOK, SavedIsExpected
<1>2. CASE GiveUp(p)
  BY <1>2, WorkIsKnown, StopKeepsInv DEF GiveUp, VaultInv, TypeOK, SavedIsExpected
<1>3. CASE Create(p)
  <2>1. /\ pc[p] = "save" /\ pc' = [pc EXCEPT ![p] = "write"]
        /\ file' = Truncated
        /\ UNCHANGED <<repo, job, uuids, runs, history>>
    BY <1>3 DEF Create
  <2>2. /\ Working' = Working
        /\ pc' \in [Process -> {"idle", "save", "write", "stage", "head", "commit", "panicked"}]
    BY <2>1 DEF Working, VaultInv, TypeOK
  <2>3. file' \in Content /\ file'.kind # "whole"
    BY <2>1, ContentType
  <2>4. QED
    BY <2>1, <2>2, <2>3, WorkIsKnown, WorkingKeepsInv DEF VaultInv, TypeOK
<1>4. CASE Write(p)
  <2>1. p \in Working
    BY <1>4 DEF Write, Working
  <2>2. /\ file' \in Content
        /\ file'.kind = "whole" => file'.shrine \in Shrines
        /\ expected' \in Picture
    BY <1>4, <2>1, OverlayType, MeantType DEF Write
  <2>3. intact' \in BOOLEAN
    BY <1>4 DEF Write, VaultInv, TypeOK
  <2>4. CASE job[p].commit
    <3>1. /\ pc[p] = "write" /\ pc' = [pc EXCEPT ![p] = "stage"]
          /\ UNCHANGED <<job, blob, base, commits, uuids, runs, reported>>
      BY <1>4, <2>4 DEF Write
    <3>2. /\ Working' = Working
          /\ pc' \in [Process -> {"idle", "save", "write", "stage", "head", "commit", "panicked"}]
      BY <3>1 DEF Working, VaultInv, TypeOK
    <3>3. QED
      BY <2>2, <2>3, <3>1, <3>2, WorkIsKnown, WorkingKeepsInv DEF VaultInv, TypeOK
  <2>5. CASE ~job[p].commit
    <3>1. Stop(p) /\ UNCHANGED <<commits, uuids, runs, reported>>
      BY <1>4, <2>5 DEF Write
    <3>2. QED
      BY <2>2, <2>3, <3>1, WorkIsKnown, StopKeepsInv DEF VaultInv, TypeOK
  <2>6. QED
    BY <2>4, <2>5
<1>5. CASE WriteFails(p)
  <2>1. /\ Stop(p) /\ file' = Torn /\ intact' = FALSE
        /\ UNCHANGED <<commits, uuids, runs, expected, reported>>
    BY <1>5 DEF WriteFails
  <2>2. file' \in Content /\ file'.kind # "whole"
    BY <2>1, ContentType
  <2>3. QED
    BY <2>1, <2>2, WorkIsKnown, StopKeepsInv DEF VaultInv, TypeOK
<1>6. QED
  BY <1>1, <1>2, <1>3, <1>4, <1>5 DEF Save

\* HEAD moves by one commit.
LEMMA CommitAppends ==
    ASSUME VaultInv, NEW p \in Process, Commit(p)
    PROVE  /\ commits' \in Seq(Content)
           /\ Len(commits') = Len(commits) + 1
           /\ \A i \in 1..Len(commits) : commits'[i] = commits[i]
           /\ commits'[Len(commits) + 1] = blob[p]
<1>1. commits \in Seq(Content) /\ blob[p] \in Content /\ Len(commits) \in Nat
  BY LenProperties DEF VaultInv, TypeOK
<1>2. SubSeq(commits, 1, Len(commits)) = commits
  BY <1>1, SubSeqFull
<1>3. commits' = Append(commits, blob[p])
  BY <1>2 DEF Commit, Advance
<1>4. QED
  BY <1>1, <1>3

LEMMA GitKeepsInv ==
    ASSUME VaultInv, NEW p \in Process, GitCommit(p)
    PROVE  VaultInv'
<1> USE DEF history
<1>1. CASE Stage(p)
  <2>1. /\ pc[p] = "stage" /\ pc' = [pc EXCEPT ![p] = "head"]
        /\ blob' = [blob EXCEPT ![p] = file]
        /\ UNCHANGED <<file, commits, base, job, uuids, runs, history>>
    BY <1>1 DEF Stage
  <2>2. /\ Working' = Working
        /\ pc' \in [Process -> {"idle", "save", "write", "stage", "head", "commit", "panicked"}]
    BY <2>1 DEF Working, VaultInv, TypeOK
  <2>3. /\ blob' \in [Process -> Content]
        /\ \A q \in Process : blob'[q].kind = "whole" => blob'[q].shrine \in Shrines
    BY <2>1, WorkIsKnown DEF VaultInv, TypeOK
  <2>4. QED
    BY <2>1, <2>2, <2>3, WorkIsKnown, WorkingKeepsInv DEF VaultInv, TypeOK, SavedIsExpected
<1>2. CASE ReadHead(p)
  <2>1. /\ pc[p] = "head" /\ pc' = [pc EXCEPT ![p] = "commit"]
        /\ base' = [base EXCEPT ![p] = Len(commits)]
        /\ UNCHANGED <<file, commits, blob, job, uuids, runs, history>>
    BY <1>2 DEF ReadHead
  <2>2. /\ Working' = Working
        /\ pc' \in [Process -> {"idle", "save", "write", "stage", "head", "commit", "panicked"}]
    BY <2>1 DEF Working, VaultInv, TypeOK
  <2>3. base' \in [Process -> Nat]
    BY <2>1, LenProperties DEF VaultInv, TypeOK
  <2>4. QED
    BY <2>1, <2>2, <2>3, WorkIsKnown, WorkingKeepsInv DEF VaultInv, TypeOK, SavedIsExpected
<1>3. CASE Commit(p)
  <2>1. /\ Stop(p) /\ reported' = expected
        /\ UNCHANGED <<file, uuids, runs, expected, intact>>
    BY <1>3 DEF Commit
  <2>2. \A i \in 1..Len(commits') : commits'[i].kind = "whole" =>
            commits'[i].shrine \in Shrines
    <3>1. ASSUME NEW i \in 1..Len(commits'), commits'[i].kind = "whole"
          PROVE  commits'[i].shrine \in Shrines
      <4>1. i \in 1..Len(commits) \/ i = Len(commits) + 1
        BY <1>3, CommitAppends, LenProperties DEF VaultInv, TypeOK
      <4>2. CASE i \in 1..Len(commits)
        BY <1>3, <3>1, <4>2, CommitAppends, WorkIsKnown
      <4>3. CASE i = Len(commits) + 1
        BY <1>3, <3>1, <4>3, CommitAppends, WorkIsKnown
      <4>4. QED
        BY <4>1, <4>2, <4>3
    <3>2. QED
      BY <3>1
  <2>3. QED
    BY <1>3, <2>1, <2>2, CommitAppends, WorkIsKnown, StopKeepsInv
       DEF VaultInv, TypeOK, SavedIsExpected
<1>4. CASE CommitFails(p)
  BY <1>4, WorkIsKnown, StopKeepsInv DEF CommitFails, VaultInv, TypeOK, SavedIsExpected
<1>5. QED
  BY <1>1, <1>2, <1>3, <1>4 DEF GitCommit

LEMMA CrashKeepsInv ==
    ASSUME VaultInv, NEW p \in Process, Crash(p)
    PROVE  VaultInv'
BY WorkIsKnown, StopKeepsInv DEF Crash, VaultInv, TypeOK, SavedIsExpected

LEMMA NextVaultInv == VaultInv /\ [Next]_vars => VaultInv'
<1>1. ASSUME VaultInv, Next
      PROVE  VaultInv'
  BY <1>1, StartKeepsInv, SaveKeepsInv, GitKeepsInv, CrashKeepsInv DEF Next
<1>2. ASSUME VaultInv, UNCHANGED vars
      PROVE  VaultInv'
  BY <1>2 DEF vars, VaultInv, TypeOK, Working, SavedIsExpected, UuidsMade, UuidPinsPassword,
              Shrines
<1>3. QED
  BY <1>1, <1>2

LEMMA VaultInvHolds == Spec => []VaultInv
<1>1. QED
  BY InitVaultInv, NextVaultInv, PTL DEF Spec

-----------------------------------------------------------------------------
(* The results.                                                            *)

\* The state keeps its types.
THEOREM TypeCorrect == Spec => []TypeOK
<1>1. VaultInv => TypeOK
  BY DEF VaultInv
<1>2. QED
  BY <1>1, VaultInvHolds, PTL

\* No two versions of a shrine, wherever they are and however the commands
\* that made them raced or died, have the same uuid and different passwords.
THEOREM UuidPinsPasswordHolds == Spec => []UuidPinsPassword
<1>1. VaultInv => UuidPinsPassword
  BY DEF VaultInv
<1>2. QED
  BY <1>1, VaultInvHolds, PTL

\* No command takes another one's commit off the branch.
THEOREM CommitsStayHolds == Spec => CommitsStay
<1>1. ASSUME VaultInv, Next
      PROVE  /\ Len(commits') >= Len(commits)
             /\ \A i \in 1..Len(commits) : commits'[i] = commits[i]
  <2>1. Len(commits) \in Nat
    BY <1>1, LenProperties DEF VaultInv, TypeOK
  <2>2. ASSUME commits' = commits
        PROVE  /\ Len(commits') >= Len(commits)
               /\ \A i \in 1..Len(commits) : commits'[i] = commits[i]
    BY <2>1, <2>2
  <2>3. PICK p \in Process : Start(p) \/ Save(p) \/ GitCommit(p) \/ Crash(p)
    BY <1>1 DEF Next
  <2>4. CASE Start(p)
    <3>1. commits' = commits
      BY <2>4 DEF Start, Init_, Set, PutKey, SetKey, Rm, DeleteKey, RmKey,
                   ConfigSet, Import, Convert, Load, Begin, repo
    <3>2. QED
      BY <2>2, <3>1
  <2>5. CASE Save(p) \/ Crash(p)
    <3>1. commits' = commits
      BY <2>5 DEF Save, SavePanics, GiveUp, Create, Write, WriteFails, Crash, repo
    <3>2. QED
      BY <2>2, <3>1
  <2>6. CASE Commit(p)
    BY <1>1, <2>1, <2>6, CommitAppends
  <2>7. CASE Stage(p) \/ ReadHead(p) \/ CommitFails(p)
    BY <2>2, <2>7 DEF Stage, ReadHead, CommitFails
  <2>8. QED
    BY <2>3, <2>4, <2>5, <2>6, <2>7 DEF GitCommit
<1>2. VaultInv /\ [Next]_vars =>
        [/\ Len(commits') >= Len(commits)
         /\ \A i \in 1..Len(commits) : commits'[i] = commits[i]]_vars
  BY <1>1
<1>3. QED
  BY <1>2, VaultInvHolds, PTL DEF Spec, CommitsStay
-----------------------------------------------------------------------------
(* What one command does, when no other interferes.                        *)

\* No two processes work on commands at the same time.
Alone == \A p, q \in Working : p = q

\* No process is between the truncation of the file and the end of its write.
NoWriter == \A p \in Process : pc[p] # "write"

\* Between saves the file is what the edits written so far make it, and it
\* cannot be read just when a save was cut short; during one it is truncated.
FileAgrees ==
    /\ NoWriter =>
          /\ file.kind = "whole" =>
                /\ intact
                /\ file.shrine.uuid = expected.uuid
                /\ file.shrine.secrets = expected.secrets
          /\ file.kind = "missing" => intact /\ expected = Nothing
          /\ file.kind \in {"truncated", "torn"} => ~intact
    /\ ~NoWriter => file = Truncated

\* What a command is about to save is the effect of its edit, and what it has
\* saved, and staged, is in the file.
JobAgrees ==
    \A p \in Working :
        /\ job[p].op = "init" => job[p].draft.secrets = job[p].edit.sets
        /\ pc[p] \in {"save", "write"} /\ job[p].op # "init" =>
              /\ intact
              /\ job[p].draft.secrets = Apply(job[p].edit, expected.secrets)
              /\ job[p].op # "convert" => job[p].draft.uuid = expected.uuid
        /\ pc[p] \in {"stage", "head", "commit"} => file.kind = "whole"
        /\ pc[p] \in {"head", "commit"} => blob[p] = file

SerialInv ==
    /\ FileAgrees /\ JobAgrees
    /\ HistoryIsWhole /\ ReportedIsInHistory

\* The edits of the commands.
LEMMA ApplyIs ==
    ASSUME NEW secrets \in Secrets
    PROVE  /\ \A sets \in Secrets : Apply(Edit({}, sets), secrets) = Merge(secrets, sets)
           /\ \A key \in Key : Apply(Edit({key}, None), secrets) = Drop(secrets, {key})
           /\ Apply(Edit({}, None), secrets) = secrets
<1>1. secrets = [k \in DOMAIN secrets |-> secrets[k]] /\ DOMAIN None = {}
  BY SecretsType DEF None
<1>2. Drop(secrets, {}) = secrets
  BY <1>1 DEF Drop
<1>3. ASSUME NEW f, f = [k \in DOMAIN f |-> f[k]]
      PROVE  Merge(f, None) = f
  BY <1>3, <1>1 DEF Merge
<1>4. \A key \in Key : Merge(Drop(secrets, {key}), None) = Drop(secrets, {key})
  BY <1>3 DEF Drop
<1>5. QED
  BY <1>1, <1>2, <1>3, <1>4 DEF Apply, Edit

\* How a command starts: it will save the effect of its edit on the shrine it
\* has read, under the uuid of that shrine or under a new one.
StartsWith(p, op, force, draft, edit, blind, commit) ==
    /\ Begin(p, op, force, draft, edit, blind, commit)
    /\ op = "init" => draft.secrets = edit.sets
    /\ op # "init" =>
          /\ file.kind = "whole"
          /\ draft.secrets = Apply(edit, file.shrine.secrets)
    /\ IF op \in {"init", "convert"}
         THEN uuids < MaxUuid /\ uuids' = uuids + 1 /\ draft.uuid = uuids + 1
         ELSE uuids' = uuids /\ draft.uuid = file.shrine.uuid

Edits == [dels : SUBSET Key, sets : Secrets]
Ops == {"init", "set", "rm", "config", "import", "convert"}

LEMMA StartIs ==
    ASSUME VaultInv, NEW p \in Process, Start(p)
    PROVE  \E op \in Ops, force \in BOOLEAN, draft \in Shrine, edit \in Edits,
              blind \in BOOLEAN, commit \in BOOLEAN :
                 StartsWith(p, op, force, draft, edit, blind, commit)
<1> DEFINE Goal == \E op \in Ops, force \in BOOLEAN, draft \in Shrine, edit \in Edits,
                      blind \in BOOLEAN, commit \in BOOLEAN :
                         StartsWith(p, op, force, draft, edit, blind, commit)
<1>0. ASSUME NEW op \in Ops, NEW force \in BOOLEAN, NEW draft \in Shrine,
             NEW edit \in Edits, NEW blind \in BOOLEAN, NEW commit \in BOOLEAN,
             StartsWith(p, op, force, draft, edit, blind, commit)
      PROVE  Goal
  BY <1>0
<1> HIDE DEF Goal
<1>1. ASSUME NEW force \in BOOLEAN, NEW git \in BOOLEAN,
             NEW password \in Password \cup {NoPassword},
             Init_(p, force, password, git)
      PROVE  Goal
  <2> DEFINE draft == [uuid |-> uuids + 1, password |-> password, secrets |-> None,
                       enabled |-> git, auto |-> git]
  <2>1. draft \in Shrine /\ draft.uuid = uuids + 1 /\ draft.secrets = None
    BY <1>1, SecretsType, VaultAssumption DEF Init_, Shrine, VaultInv, TypeOK
  <2>2. Edit(Key, None) \in Edits /\ Edit(Key, None).sets = None
    BY SecretsType DEF Edit, Edits
  <2>3. /\ Begin(p, "init", force, draft, Edit(Key, None), FALSE, git)
        /\ uuids' = uuids + 1 /\ uuids < MaxUuid
    BY <1>1 DEF Init_
  <2> HIDE DEF draft
  <2>4. StartsWith(p, "init", force, draft, Edit(Key, None), FALSE, git)
    BY <2>1, <2>2, <2>3 DEF StartsWith
  <2>5. FALSE \in BOOLEAN /\ "init" \in Ops
    BY DEF Ops
  <2>6. QED
    BY <1>0, <2>1, <2>2, <2>4, <2>5
<1>2. ASSUME file.kind = "whole"
      PROVE  /\ file.shrine \in Shrine
             /\ file.shrine.secrets \in Secrets
             /\ file.shrine.enabled \in BOOLEAN /\ file.shrine.auto \in BOOLEAN
  BY <1>2, ContentType DEF VaultInv, TypeOK, Shrine
\* A command that loads the shrine, and keeps its uuid.
<1>3. ASSUME NEW op \in Ops \ {"init", "convert"}, NEW draft \in Shrine,
             NEW edit \in Edits, NEW blind \in BOOLEAN, NEW commit \in BOOLEAN,
             Begin(p, op, FALSE, draft, edit, blind, commit),
             file.kind = "whole", uuids' = uuids, draft.uuid = file.shrine.uuid,
             draft.secrets = Apply(edit, file.shrine.secrets)
      PROVE  Goal
  <2>1. StartsWith(p, op, FALSE, draft, edit, blind, commit)
    BY <1>3 DEF StartsWith
  <2>2. FALSE \in BOOLEAN
    OBVIOUS
  <2>3. QED
    BY <1>0, <2>1, <2>2
<1>4. ASSUME NEW key \in Key, NEW value \in Value, NEW given \in BOOLEAN,
             SetKey(p, key, value, given)
      PROVE  Goal
  <2> DEFINE sets == [k \in {key} |-> value]
             draft == [file.shrine EXCEPT !.secrets = Merge(@, sets)]
  <2>1. file.kind = "whole" /\ uuids' = uuids
    BY <1>4 DEF SetKey, Load
  <2>2. sets \in Secrets
    BY SecretsType
  <2>3. Edit({}, sets) \in Edits
    BY <2>2 DEF Edit, Edits
  <2>4. /\ draft \in Shrine /\ draft.uuid = file.shrine.uuid
        /\ draft.secrets = Merge(file.shrine.secrets, sets)
    BY <2>1, <2>2, <1>2, SecretsType DEF Shrine
  <2>5. draft.secrets = Apply(Edit({}, sets), file.shrine.secrets)
    BY <2>1, <2>2, <2>4, <1>2, ApplyIs
  <2>6. Begin(p, "set", FALSE, draft, Edit({}, sets),
              ~given /\ file.shrine.password = NoPassword,
              file.shrine.enabled /\ file.shrine.auto)
    BY <1>4 DEF SetKey, Load
  <2> HIDE DEF draft, sets
  <2>7. QED
    BY <1>2, <1>3, <2>1, <2>3, <2>4, <2>5, <2>6 DEF Ops
<1>5. ASSUME NEW key \in Key, NEW given \in BOOLEAN, RmKey(p, key, given)
      PROVE  Goal
  <2> DEFINE draft == [file.shrine EXCEPT !.secrets = Drop(@, {key})]
  <2>1. file.kind = "whole" /\ uuids' = uuids
    BY <1>5 DEF RmKey, Load
  <2>2. Edit({key}, None) \in Edits
    BY SecretsType DEF Edit, Edits
  <2>3. /\ draft \in Shrine /\ draft.uuid = file.shrine.uuid
        /\ draft.secrets = Drop(file.shrine.secrets, {key})
    BY <2>1, <1>2, SecretsType DEF Shrine
  <2>4. draft.secrets = Apply(Edit({key}, None), file.shrine.secrets)
    BY <2>1, <2>3, <1>2, ApplyIs
  <2>5. Begin(p, "rm", FALSE, draft, Edit({key}, None),
              ~given /\ file.shrine.password = NoPassword,
              file.shrine.enabled /\ file.shrine.auto)
    BY <1>5 DEF RmKey, Load
  <2> HIDE DEF draft
  <2>6. QED
    BY <1>2, <1>3, <2>1, <2>2, <2>3, <2>4, <2>5 DEF Ops
<1>6. ASSUME NEW setting \in {"git.enabled", "git.commit.auto"}, NEW on \in BOOLEAN,
             NEW given \in BOOLEAN, ConfigSet(p, setting, on, given)
      PROVE  Goal
  <2> DEFINE draft == IF setting = "git.enabled" THEN [file.shrine EXCEPT !.enabled = on]
                                                 ELSE [file.shrine EXCEPT !.auto = on]
  <2>1. file.kind = "whole" /\ uuids' = uuids
    BY <1>6 DEF ConfigSet, Load
  <2>2. Edit({}, None) \in Edits
    BY SecretsType DEF Edit, Edits
  <2>3. /\ draft \in Shrine /\ draft.uuid = file.shrine.uuid
        /\ draft.secrets = file.shrine.secrets
    BY <2>1, <1>2 DEF Shrine
  <2>4. draft.secrets = Apply(Edit({}, None), file.shrine.secrets)
    BY <2>1, <2>3, <1>2, ApplyIs
  <2>5. Begin(p, "config", FALSE, draft, Edit({}, None),
              ~given /\ file.shrine.password = NoPassword,
              file.shrine.enabled /\ file.shrine.auto)
    BY <1>6 DEF ConfigSet, Load
  <2> HIDE DEF draft
  <2>6. QED
    BY <1>2, <1>3, <2>1, <2>2, <2>3, <2>4, <2>5 DEF Ops
<1>7. ASSUME NEW sets \in [Key -> Value], NEW given \in BOOLEAN, Import(p, sets, given)
      PROVE  Goal
  <2> DEFINE draft == [file.shrine EXCEPT !.secrets = Merge(@, sets)]
  <2>1. file.kind = "whole" /\ uuids' = uuids
    BY <1>7 DEF Import
  <2>2. sets \in Secrets
    BY SecretsType
  <2>3. Edit({}, sets) \in Edits
    BY <2>2 DEF Edit, Edits
  <2>4. /\ draft \in Shrine /\ draft.uuid = file.shrine.uuid
        /\ draft.secrets = Merge(file.shrine.secrets, sets)
    BY <2>1, <2>2, <1>2, SecretsType DEF Shrine
  <2>5. draft.secrets = Apply(Edit({}, sets), file.shrine.secrets)
    BY <2>1, <2>2, <2>4, <1>2, ApplyIs
  <2>6. Begin(p, "import", FALSE, draft, Edit({}, sets),
              ~given /\ file.shrine.password = NoPassword, FALSE)
    BY <1>7 DEF Import
  <2> HIDE DEF draft
  <2>7. QED
    BY <1>2, <1>3, <2>1, <2>3, <2>4, <2>5, <2>6 DEF Ops
<1>8. ASSUME NEW password \in Password \cup {NoPassword}, NEW keep \in BOOLEAN,
             NEW given \in BOOLEAN, Convert(p, password, keep, given)
      PROVE  Goal
  <2> DEFINE draft == [file.shrine EXCEPT !.uuid = uuids + 1, !.password = password]
             blind == keep /\ ~given /\ file.shrine.password = NoPassword
             commit == file.shrine.enabled /\ file.shrine.auto
  <2>1. file.kind = "whole" /\ uuids' = uuids + 1 /\ uuids < MaxUuid
    BY <1>8 DEF Convert
  <2>2. Edit({}, None) \in Edits
    BY SecretsType DEF Edit, Edits
  <2>3. uuids + 1 \in 1..MaxUuid
    BY <2>1, VaultAssumption DEF VaultInv, TypeOK
  <2>4. /\ draft \in Shrine /\ draft.uuid = uuids + 1
        /\ draft.secrets = file.shrine.secrets
    BY <2>1, <2>3, <1>2 DEF Shrine
  <2>5. draft.secrets = Apply(Edit({}, None), file.shrine.secrets)
    BY <2>1, <2>4, <1>2, ApplyIs
  <2>6. Begin(p, "convert", FALSE, draft, Edit({}, None), blind, commit)
    BY <1>8 DEF Convert
  <2>7. blind \in BOOLEAN /\ commit \in BOOLEAN /\ FALSE \in BOOLEAN
    BY <2>1, <1>2
  <2> HIDE DEF draft, blind, commit
  <2>8. StartsWith(p, "convert", FALSE, draft, Edit({}, None), blind, commit)
    BY <2>1, <2>4, <2>5, <2>6 DEF StartsWith
  <2>9. "convert" \in Ops
    BY DEF Ops
  <2>10. QED
    BY <1>0, <2>2, <2>4, <2>7, <2>8, <2>9
<1>9. QED
  BY <1>1, <1>4, <1>5, <1>6, <1>7, <1>8 DEF Start, Set, PutKey, Rm, DeleteKey, Goal

\* What p leaves when its work ends and no other process works.
LEMMA StopIsQuiet ==
    ASSUME VaultInv, NEW p \in Process, Working \subseteq {p}, Stop(p)
    PROVE  Working' = {} /\ NoWriter'
<1>1. Working' = {}
  BY StopLeaves
<1>2. QED
  BY <1>1 DEF Working, NoWriter

\* No process but p works: p alone may be writing.
LEMMA AloneWrites ==
    ASSUME NEW p \in Process, Working \subseteq {p}
    PROVE  NoWriter <=> pc[p] # "write"
BY DEF Working, NoWriter

\* p takes a step, and works on.
LEMMA WorksOn ==
    ASSUME VaultInv, NEW p \in Process, Working \subseteq {p},
           NEW step \in {"save", "write", "stage", "head", "commit"},
           pc' = [pc EXCEPT ![p] = step]
    PROVE  Working' = {p} /\ pc'[p] = step /\ (NoWriter' <=> step # "write")
<1>1. Working' = {p} /\ pc'[p] = step
  BY DEF Working, VaultInv, TypeOK
<1>2. NoWriter' <=> step # "write"
  BY <1>1 DEF Working, NoWriter
<1>3. QED
  BY <1>1, <1>2

\* The kinds of contents.
LEMMA Kinds ==
    ASSUME NEW content \in Content
    PROVE  /\ content.kind \in {"missing", "truncated", "torn", "whole"}
           /\ content.kind = "truncated" <=> content = Truncated
BY DEF Content, Missing, Truncated, Torn

\* The work of p ends, and what it has done to the file is accounted for.
LEMMA StopKeepsSerial ==
    ASSUME VaultInv, SerialInv, NEW p \in Process, Working \subseteq {p}, Stop(p),
           commits' = commits, reported' = reported,
           \/ /\ pc[p] # "write"
              /\ file' = file /\ expected' = expected /\ intact' = intact
           \/ file'.kind \in {"truncated", "torn"} /\ ~intact'
           \/ /\ file'.kind = "whole" /\ intact'
              /\ file'.shrine.uuid = expected'.uuid
              /\ file'.shrine.secrets = expected'.secrets
    PROVE  SerialInv'
<1>1. Working' = {} /\ NoWriter'
  BY StopIsQuiet
<1>2. FileAgrees'
  BY <1>1, AloneWrites DEF FileAgrees, SerialInv
<1>3. JobAgrees'
  BY <1>1 DEF JobAgrees
<1>4. HistoryIsWhole' /\ ReportedIsInHistory'
  BY DEF SerialInv, HistoryIsWhole, ReportedIsInHistory
<1>5. QED
  BY <1>2, <1>3, <1>4 DEF SerialInv

LEMMA StartKeepsSerial ==
    ASSUME VaultInv, SerialInv, NEW p \in Process, Working \subseteq {p}, Start(p)
    PROVE  SerialInv'
<1>1. PICK op \in Ops, force \in BOOLEAN, draft \in Shrine, edit \in Edits,
           blind \in BOOLEAN, commit \in BOOLEAN :
              StartsWith(p, op, force, draft, edit, blind, commit)
  BY StartIs
<1> DEFINE new == [op |-> op, force |-> force, draft |-> draft,
                   edit |-> edit, blind |-> blind, commit |-> commit]
<1>2. /\ p \notin Working
      /\ job' = [job EXCEPT ![p] = new] /\ pc' = [pc EXCEPT ![p] = "save"]
      /\ UNCHANGED <<file, commits, blob, base, expected, reported, intact>>
  BY <1>1 DEF StartsWith, Begin, repo, history
<1>3. new.op = op /\ new.draft = draft /\ new.edit = edit
  OBVIOUS
<1> HIDE DEF new
<1>4. /\ Working = {} /\ Working' = {p} /\ NoWriter /\ NoWriter'
      /\ pc'[p] = "save" /\ job'[p] = new
  <2>1. Working = {} /\ NoWriter
    BY <1>2 DEF Working, NoWriter
  <2>2. job'[p] = new
    BY <1>2 DEF VaultInv, TypeOK
  <2>3. QED
    BY <1>2, <2>1, <2>2, WorksOn
<1>5. FileAgrees'
  BY <1>2, <1>4 DEF FileAgrees, SerialInv
<1>6. op = "init" => draft.secrets = edit.sets
  BY <1>1 DEF StartsWith
<1>7. op # "init" =>
         /\ intact
         /\ draft.secrets = Apply(edit, expected.secrets)
         /\ op # "convert" => draft.uuid = expected.uuid
  BY <1>1, <1>4 DEF StartsWith, SerialInv, FileAgrees
<1>8. JobAgrees'
  BY <1>2, <1>3, <1>4, <1>6, <1>7 DEF JobAgrees
<1>9. HistoryIsWhole' /\ ReportedIsInHistory'
  BY <1>2 DEF SerialInv, HistoryIsWhole, ReportedIsInHistory
<1>10. QED
  BY <1>5, <1>8, <1>9 DEF SerialInv

\* A write that meets a truncated file leaves the draft in it, and that is
\* what was meant.
LEMMA WriteLeaves ==
    ASSUME VaultInv, SerialInv, NEW p \in Process, Working \subseteq {p}, Write(p)
    PROVE  /\ file' = Whole(job[p].draft) /\ intact'
           /\ expected'.uuid = job[p].draft.uuid
           /\ expected'.secrets = job[p].draft.secrets
<1>1. p \in Working /\ pc[p] = "write"
  BY DEF Write, Working
<1>2. file = Truncated
  BY <1>1, AloneWrites DEF SerialInv, FileAgrees
<1>3. file' = Whole(job[p].draft)
  BY <1>2 DEF Write, Overlay, Truncated
<1>4. CASE job[p].op = "init"
  <2>1. intact' /\ expected' = [uuid |-> job[p].draft.uuid, secrets |-> job[p].draft.secrets]
    BY <1>4 DEF Write, Meant
  <2>2. QED
    BY <1>3, <2>1
<1>5. CASE job[p].op # "init"
  <2>1. /\ intact
        /\ job[p].draft.secrets = Apply(job[p].edit, expected.secrets)
        /\ job[p].op # "convert" => job[p].draft.uuid = expected.uuid
    BY <1>1, <1>5 DEF SerialInv, JobAgrees
  <2>2. /\ intact'
        /\ expected' = [uuid |-> IF job[p].op = "convert" THEN job[p].draft.uuid
                                                          ELSE expected.uuid,
                        secrets |-> Apply(job[p].edit, expected.secrets)]
    BY <1>5, <2>1 DEF Write, Meant
  <2>3. QED
    BY <1>3, <2>1, <2>2
<1>6. QED
  BY <1>4, <1>5

LEMMA SaveKeepsSerial ==
    ASSUME VaultInv, SerialInv, NEW p \in Process, Working \subseteq {p}, Save(p)
    PROVE  SerialInv'
<1>1. CASE SavePanics(p)
  <2>1. /\ pc' = [pc EXCEPT ![p] = "panicked"] /\ pc[p] = "save"
        /\ UNCHANGED <<file, commits, expected, reported, intact>>
    BY <1>1 DEF SavePanics, repo, history
  <2>2. Working' = {} /\ NoWriter /\ NoWriter'
    BY <2>1 DEF Working, NoWriter, VaultInv, TypeOK
  <2>3. QED
    BY <2>1, <2>2 DEF SerialInv, FileAgrees, JobAgrees, HistoryIsWhole, ReportedIsInHistory
<1>2. CASE GiveUp(p)
  BY <1>2, StopKeepsSerial DEF GiveUp, history
<1>3. CASE Create(p)
  <2>1. /\ pc' = [pc EXCEPT ![p] = "write"] /\ pc[p] = "save" /\ file' = Truncated
        /\ UNCHANGED <<commits, blob, job, expected, reported, intact>>
    BY <1>3 DEF Create, repo, history
  <2>2. Working = {p} /\ Working' = {p} /\ pc'[p] = "write" /\ ~NoWriter'
    BY <2>1, WorksOn DEF Working
  <2>3. FileAgrees'
    BY <2>1, <2>2 DEF FileAgrees
  <2>4. JobAgrees'
    BY <2>1, <2>2 DEF SerialInv, JobAgrees
  <2>5. HistoryIsWhole' /\ ReportedIsInHistory'
    BY <2>1 DEF SerialInv, HistoryIsWhole, ReportedIsInHistory
  <2>6. QED
    BY <2>3, <2>4, <2>5 DEF SerialInv
<1>4. CASE Write(p)
  <2>1. /\ file'.kind = "whole" /\ intact'
        /\ file'.shrine.uuid = expected'.uuid
        /\ file'.shrine.secrets = expected'.secrets
    BY <1>4, WriteLeaves, ContentType
  <2>2. commits' = commits /\ reported' = reported
    BY <1>4 DEF Write
  <2>3. CASE job[p].commit
    <3>1. /\ pc' = [pc EXCEPT ![p] = "stage"] /\ pc[p] = "write" /\ job' = job
      BY <1>4, <2>3 DEF Write
    <3>2. Working = {p} /\ Working' = {p} /\ pc'[p] = "stage" /\ NoWriter'
      BY <3>1, WorksOn DEF Working
    <3>3. FileAgrees'
      BY <2>1, <3>2 DEF FileAgrees
    <3>4. JobAgrees'
      BY <2>1, <3>1, <3>2 DEF SerialInv, JobAgrees
    <3>5. HistoryIsWhole' /\ ReportedIsInHistory'
      BY <2>2 DEF SerialInv, HistoryIsWhole, ReportedIsInHistory
    <3>6. QED
      BY <3>3, <3>4, <3>5 DEF SerialInv
  <2>4. CASE ~job[p].commit
    BY <1>4, <2>1, <2>2, <2>4, StopKeepsSerial DEF Write
  <2>5. QED
    BY <2>3, <2>4
<1>5. CASE WriteFails(p)
  <2>1. /\ Stop(p) /\ file' = Torn /\ ~intact'
        /\ commits' = commits /\ reported' = reported
    BY <1>5 DEF WriteFails
  <2>2. file'.kind = "torn"
    BY <2>1 DEF Torn
  <2>3. QED
    BY <2>1, <2>2, StopKeepsSerial
<1>6. QED
  BY <1>1, <1>2, <1>3, <1>4, <1>5 DEF Save

LEMMA GitKeepsSerial ==
    ASSUME VaultInv, SerialInv, NEW p \in Process, Working \subseteq {p}, GitCommit(p)
    PROVE  SerialInv'
<1>1. CASE Stage(p)
  <2>1. /\ pc' = [pc EXCEPT ![p] = "head"] /\ pc[p] = "stage"
        /\ blob' = [blob EXCEPT ![p] = file]
        /\ UNCHANGED <<file, commits, job, expected, reported, intact>>
    BY <1>1 DEF Stage, history
  <2>2. Working = {p} /\ NoWriter /\ blob'[p] = file
    BY <2>1, AloneWrites DEF Working, VaultInv, TypeOK
  <2>3. Working' = {p} /\ pc'[p] = "head" /\ NoWriter'
    BY <2>1, WorksOn
  <2>4. QED
    BY <2>1, <2>2, <2>3 DEF SerialInv, FileAgrees, JobAgrees, HistoryIsWhole, ReportedIsInHistory
<1>2. CASE ReadHead(p)
  <2>1. /\ pc' = [pc EXCEPT ![p] = "commit"] /\ pc[p] = "head"
        /\ UNCHANGED <<file, commits, blob, job, expected, reported, intact>>
    BY <1>2 DEF ReadHead, history
  <2>2. Working = {p} /\ NoWriter
    BY <2>1, AloneWrites DEF Working
  <2>3. Working' = {p} /\ pc'[p] = "commit" /\ NoWriter'
    BY <2>1, WorksOn
  <2>4. QED
    BY <2>1, <2>2, <2>3 DEF SerialInv, FileAgrees, JobAgrees, HistoryIsWhole, ReportedIsInHistory
<1>3. CASE Commit(p)
  <2>1. /\ Stop(p) /\ reported' = expected /\ pc[p] = "commit"
        /\ UNCHANGED <<file, expected, intact>>
    BY <1>3 DEF Commit
  <2>2. /\ Working' = {} /\ NoWriter /\ NoWriter'
    BY <2>1, StopIsQuiet, AloneWrites
  <2>3. /\ file.kind = "whole" /\ blob[p] = file
        /\ file.shrine.uuid = expected.uuid /\ file.shrine.secrets = expected.secrets
    BY <2>1, <2>2 DEF SerialInv, FileAgrees, JobAgrees, Working
  <2>4. /\ Len(commits) \in Nat /\ Len(commits') = Len(commits) + 1
        /\ \A i \in 1..Len(commits) : commits'[i] = commits[i]
        /\ commits'[Len(commits) + 1] = file
    BY <1>3, <2>3, CommitAppends, LenProperties DEF VaultInv, TypeOK
  <2>5. HistoryIsWhole'
    <3>1. ASSUME NEW i \in 1..Len(commits')
          PROVE  i \in 1..Len(commits) \/ i = Len(commits) + 1
      BY <2>4
    <3>2. QED
      BY <2>3, <2>4, <3>1 DEF SerialInv, HistoryIsWhole
  <2>6. ReportedIsInHistory'
    <3>1. Len(commits) + 1 \in 1..Len(commits')
      BY <2>4
    <3>2. QED
      BY <2>1, <2>3, <2>4, <3>1 DEF ReportedIsInHistory
  <2>7. FileAgrees' /\ JobAgrees'
    BY <2>1, <2>2 DEF SerialInv, FileAgrees, JobAgrees
  <2>8. QED
    BY <2>5, <2>6, <2>7 DEF SerialInv
<1>4. CASE CommitFails(p)
  BY <1>4, StopKeepsSerial DEF CommitFails, history
<1>5. QED
  BY <1>1, <1>2, <1>3, <1>4 DEF GitCommit

\* A process that dies while it writes cuts the save short.
LEMMA CrashKeepsSerial ==
    ASSUME VaultInv, SerialInv, NEW p \in Process, Working \subseteq {p}, Crash(p)
    PROVE  SerialInv'
<1>1. /\ Stop(p) /\ UNCHANGED <<file, commits, expected, reported>>
      /\ intact' = (intact /\ pc[p] # "write")
  BY DEF Crash
<1>2. CASE pc[p] = "write"
  <2>1. file.kind = "truncated"
    BY <1>2, AloneWrites DEF SerialInv, FileAgrees, Truncated
  <2>2. QED
    BY <1>1, <1>2, <2>1, StopKeepsSerial
<1>3. CASE pc[p] # "write"
  <2>1. intact' = intact
    BY <1>1, <1>3 DEF VaultInv, TypeOK
  <2>2. QED
    BY <1>1, <1>3, <2>1, StopKeepsSerial
<1>4. QED
  BY <1>2, <1>3

\* What the invariant says of the file between commands.
LEMMA SerialIs ==
    ASSUME VaultInv, SerialInv
    PROVE  FileIsWhole /\ EditsLand /\ HistoryIsWhole /\ ReportedIsInHistory
<1>1. Quiet => NoWriter
  BY DEF Quiet, NoWriter, Working
<1>2. file.kind \in {"missing", "truncated", "torn", "whole"}
  BY Kinds DEF VaultInv, TypeOK
<1>3. QED
  BY <1>1, <1>2 DEF SerialInv, FileAgrees, FileIsWhole, EditsLand

LEMMA InitSerialInv == Init => SerialInv
<1> SUFFICES ASSUME Init PROVE SerialInv
  OBVIOUS
<1>1. Working = {} /\ NoWriter /\ file.kind = "missing" /\ Len(commits) = 0
  BY EmptySeq DEF Init, Working, NoWriter, Missing
<1>2. QED
  BY <1>1 DEF Init, SerialInv, FileAgrees, JobAgrees, HistoryIsWhole, ReportedIsInHistory

LEMMA NextSerialInv ==
    VaultInv /\ SerialInv /\ Alone /\ Alone' /\ [Next]_vars => SerialInv'
<1>1. ASSUME VaultInv, SerialInv, Alone, Alone', Next
      PROVE  SerialInv'
  <2>1. PICK p \in Process : Start(p) \/ Save(p) \/ GitCommit(p) \/ Crash(p)
    BY <1>1 DEF Next
  <2>2. CASE Start(p)
    <3>1. pc' = [pc EXCEPT ![p] = "save"]
      BY <1>1, <2>2, StartIs DEF StartsWith, Begin
    <3>2. p \in Working' /\ \A q \in Working : q # p => q \in Working'
      BY <1>1, <3>1 DEF Working, VaultInv, TypeOK
    <3>3. Working \subseteq {p}
      BY <1>1, <3>2 DEF Alone
    <3>4. QED
      BY <1>1, <2>2, <3>3, StartKeepsSerial
  <2>3. CASE Save(p) \/ GitCommit(p) \/ Crash(p)
    <3>1. p \in Working
      BY <2>3 DEF Save, SavePanics, GiveUp, Create, Write, WriteFails,
                  GitCommit, Stage, ReadHead, Commit, CommitFails, Crash, Working
    <3>2. Working \subseteq {p}
      BY <1>1, <3>1 DEF Alone
    <3>3. QED
      BY <1>1, <2>3, <3>2, SaveKeepsSerial, GitKeepsSerial, CrashKeepsSerial
  <2>4. QED
    BY <2>1, <2>2, <2>3
<1>2. ASSUME SerialInv, UNCHANGED vars
      PROVE  SerialInv'
  BY <1>2 DEF vars, Working, NoWriter, SerialInv, FileAgrees, JobAgrees, HistoryIsWhole,
              ReportedIsInHistory
<1>3. QED
  BY <1>1, <1>2

LEMMA SerialInvHolds == Spec /\ []Alone => []SerialInv
BY VaultInvHolds, InitSerialInv, NextSerialInv, PTL DEF Spec

\* As long as one command works at a time, the file can be read whenever no
\* command runs, unless a save was cut short, whatever commands ran before and
\* wherever they failed, gave up or died.
THEOREM FileIsWholeHolds == Spec /\ []Alone => []FileIsWhole
BY SerialIs, VaultInvHolds, SerialInvHolds, PTL

\* As long as one command works at a time, the file holds the effect of every
\* edit that was written, in order, under the uuid of the last init or convert.
THEOREM EditsLandHolds == Spec /\ []Alone => []EditsLand
BY SerialIs, VaultInvHolds, SerialInvHolds, PTL

\* As long as one command works at a time, an edit reported done by a command
\* that commits is in the history for ever.
THEOREM ReportedIsInHistoryHolds == Spec /\ []Alone => []ReportedIsInHistory
BY SerialIs, VaultInvHolds, SerialInvHolds, PTL

\* As long as one command works at a time, every commit holds a readable file.
THEOREM HistoryIsWholeHolds == Spec /\ []Alone => []HistoryIsWhole
BY SerialIs, VaultInvHolds, SerialInvHolds, PTL

-----------------------------------------------------------------------------
(* The system: what is known of the agent and of the user's command.       *)

\* What is known of the agent and of the user's command.
UserTypeOK ==
    /\ agent \in {"down", "up", "draining"}
    /\ route \in {"none", "direct", "agent"}
    /\ worker \in Process \cup {NoWorker}
    /\ answer \in {"none", "ok", "error"}
    /\ patient \in BOOLEAN

\* The worker has work to do.
WorkerWorks == worker # NoWorker => worker \in Working

\* One process works at a time, and the file is as that implies.
PatientInv == patient => SerialInv

SystemInv == VaultInv /\ UserTypeOK /\ WorkerWorks /\ OneAtATime /\ PatientInv

-----------------------------------------------------------------------------
(* The steps, seen from Vault.                                             *)

\* A command begins: it is one of Vault, and not of a handler if it runs
\* without the agent.
LEMMA RunStarts ==
    ASSUME NEW p \in Process, RunDirect(p) \/ RunInAgent(p)
    PROVE  /\ Start(p)
           /\ p \in Handlers => agent = "up"
           /\ worker = NoWorker /\ worker' = p /\ route' = "none"
           /\ UNCHANGED <<agent, answer, patient>>
<1>1. CASE RunDirect(p)
  <2>1. Start(p)
    BY <1>1 DEF RunDirect, Start
  <2>2. p \notin Handlers
    BY <1>1 DEF RunDirect, Set, Rm, Init_, ConfigSet, Import, Convert
  <2>3. QED
    BY <1>1, <2>1, <2>2 DEF RunDirect, Employ
<1>2. CASE RunInAgent(p)
  <2>1. Start(p)
    BY <1>2 DEF RunInAgent, Start
  <2>2. QED
    BY <1>2, <2>1 DEF RunInAgent, Employ
<1>3. QED
  BY <1>1, <1>2

\* A process that starts was idle, and then works.
LEMMA StartWorks ==
    ASSUME VaultInv, NEW p \in Process, Start(p)
    PROVE  Working' = Working \cup {p} /\ p \notin Working
<1>1. p \notin Working /\ pc' = [pc EXCEPT ![p] = "save"]
  BY StartIs DEF StartsWith, Begin
<1>2. QED
  BY <1>1 DEF Working, VaultInv, TypeOK

\* A step of a command that is under way ends its work, or goes on with it.
LEMMA WorkIs ==
    ASSUME VaultInv, NEW p \in Process, Work(p)
    PROVE  /\ Save(p) \/ GitCommit(p)
           /\ p \in Working
           /\ \/ Working' = Working /\ UNCHANGED <<worker, answer>>
              \/ Working' = Working \ {p} /\ (Report(p, "ok") \/ Report(p, "error"))
           /\ UNCHANGED <<agent, route, patient>>
<1>1. ASSUME pc' = [pc EXCEPT ![p] = "panicked"]
      PROVE  Working' = Working \ {p}
  BY <1>1 DEF Working, VaultInv, TypeOK
<1>2. ASSUME NEW step \in {"save", "write", "stage", "head", "commit"},
             pc' = [pc EXCEPT ![p] = step], p \in Working
      PROVE  Working' = Working
  BY <1>2 DEF Working, VaultInv, TypeOK
<1>3. CASE Succeed(p)
  <2>1. /\ Save(p) \/ GitCommit(p)
        /\ p \in Working
        /\ Stop(p)
    BY <1>3 DEF Succeed, Save, GitCommit, Write, Commit, Working
  <2>2. Report(p, "ok") \/ Report(p, "error")
    BY <1>3 DEF Succeed
  <2>3. QED
    BY <2>1, <2>2, StopLeaves DEF Work
<1>4. CASE Fail(p)
  <2>1. /\ Save(p) \/ GitCommit(p)
        /\ p \in Working
        /\ Stop(p) \/ pc' = [pc EXCEPT ![p] = "panicked"]
    BY <1>4 DEF Fail, Save, GitCommit, SavePanics, GiveUp, WriteFails, CommitFails, Working
  <2>2. Report(p, "error")
    BY <1>4 DEF Fail
  <2>3. QED
    BY <1>1, <2>1, <2>2, StopLeaves DEF Work
<1>5. CASE GoOn(p)
  <2>1. /\ Save(p) \/ GitCommit(p)
        /\ p \in Working
    BY <1>5 DEF GoOn, Save, GitCommit, Create, Write, Stage, ReadHead, Working
  <2>2. \E step \in {"save", "write", "stage", "head", "commit"} :
           pc' = [pc EXCEPT ![p] = step]
    BY <1>5 DEF GoOn, Create, Write, Stage, ReadHead
  <2>3. UNCHANGED <<worker, answer>>
    BY <1>5 DEF GoOn
  <2>4. QED
    BY <1>2, <2>1, <2>2, <2>3 DEF Work
<1>6. QED
  BY <1>3, <1>4, <1>5 DEF Work

\* The agent is killed: its handlers are gone, and the file may be cut short.
LEMMA KillLeaves ==
    ASSUME VaultInv, Kill
    PROVE  /\ Working' = Working \ Handlers
           /\ pc' \in [Process -> {"idle", "save", "write", "stage", "head", "commit", "panicked"}]
           /\ job' \in [Process -> Job \cup {NoJob}]
           /\ blob' \in [Process -> Content]
           /\ base' \in [Process -> Nat]
           /\ intact' \in BOOLEAN
           /\ \A q \in Process \ Handlers :
                 pc'[q] = pc[q] /\ job'[q] = job[q] /\ blob'[q] = blob[q] /\ base'[q] = base[q]
           /\ \A q \in Process : blob'[q] = blob[q] \/ blob'[q] = Missing
<1> DEFINE gone == Working \cap Handlers
<1>1. /\ pc' = [p \in Process |-> IF p \in gone THEN "idle" ELSE pc[p]]
      /\ job' = [p \in Process |-> IF p \in gone THEN NoJob ELSE job[p]]
      /\ blob' = [p \in Process |-> IF p \in gone THEN Missing ELSE blob[p]]
      /\ base' = [p \in Process |-> IF p \in gone THEN 0 ELSE base[p]]
      /\ intact' = (intact /\ \A p \in gone : pc[p] # "write")
  BY DEF Kill, Life!Kill
<1>2. pc' \in [Process -> {"idle", "save", "write", "stage", "head", "commit", "panicked"}]
  BY <1>1 DEF VaultInv, TypeOK
<1>3. job' \in [Process -> Job \cup {NoJob}]
  BY <1>1 DEF VaultInv, TypeOK
<1>4. blob' \in [Process -> Content]
  BY <1>1, ContentType DEF VaultInv, TypeOK
<1>5. base' \in [Process -> Nat]
  BY <1>1 DEF VaultInv, TypeOK
<1>6. Working' = Working \ Handlers
  BY <1>1 DEF Working, VaultInv, TypeOK
<1>7. QED
  BY <1>1, <1>2, <1>3, <1>4, <1>5, <1>6

LEMMA KillKeepsVaultInv ==
    ASSUME VaultInv, Kill
    PROVE  VaultInv'
<1>1. UNCHANGED <<file, commits, uuids, runs, expected, reported>>
  BY DEF Kill, Life!Kill
<1>2. Working' \subseteq Working /\ \A q \in Working' : job'[q] = job[q]
  BY KillLeaves DEF Working
<1>3. \A q \in Process : blob'[q].kind = "whole" => blob'[q].shrine \in Shrines
  BY KillLeaves, WorkIsKnown, ContentType
<1>4. /\ file' \in Content /\ (file'.kind = "whole" => file'.shrine \in Shrines)
      /\ expected' \in Picture \cup {Nothing} /\ reported' \in Picture \cup {Nothing}
      /\ expected \in Picture \/ file'.kind = "whole" => expected' \in Picture
  BY <1>1, ShrinesAre DEF VaultInv, TypeOK, SavedIsExpected
<1>5. QED
  BY <1>1, <1>2, <1>3, <1>4, KillLeaves, WorkingKeepsInv

\* To a file that one process works on, the death of the agent is the death of
\* that process, or of none.
LEMMA KillIsCrash ==
    ASSUME VaultInv, NEW p, Working \subseteq {p}, Kill
    PROVE  IF p \in Working \cap Handlers THEN Crash(p) ELSE UNCHANGED vars
<1> DEFINE gone == Working \cap Handlers
<1>1. /\ pc' = [q \in Process |-> IF q \in gone THEN "idle" ELSE pc[q]]
      /\ job' = [q \in Process |-> IF q \in gone THEN NoJob ELSE job[q]]
      /\ blob' = [q \in Process |-> IF q \in gone THEN Missing ELSE blob[q]]
      /\ base' = [q \in Process |-> IF q \in gone THEN 0 ELSE base[q]]
      /\ intact' = (intact /\ \A q \in gone : pc[q] # "write")
      /\ UNCHANGED <<file, commits, uuids, runs, expected, reported>>
      /\ Faults
  BY DEF Kill, Life!Kill
<1>2. CASE p \in gone
  <2>1. gone = {p} /\ p \in Process
    BY <1>2 DEF Working
  <2>2. /\ pc' = [pc EXCEPT ![p] = "idle"] /\ job' = [job EXCEPT ![p] = NoJob]
        /\ blob' = [blob EXCEPT ![p] = Missing] /\ base' = [base EXCEPT ![p] = 0]
    BY <1>1, <2>1 DEF VaultInv, TypeOK
  <2>3. intact' = (intact /\ pc[p] # "write")
    BY <1>1, <2>1
  <2>4. QED
    BY <1>1, <1>2, <2>1, <2>2, <2>3 DEF Crash, Stop
<1>3. CASE p \notin gone
  <2>1. gone = {}
    BY <1>3
  <2>2. pc' = pc /\ job' = job /\ blob' = blob /\ base' = base
    BY <1>1, <2>1 DEF VaultInv, TypeOK
  <2>3. intact' = intact
    BY <1>1, <2>1 DEF VaultInv, TypeOK
  <2>4. QED
    BY <1>1, <1>3, <2>2, <2>3 DEF vars
<1>4. QED
  BY <1>2, <1>3

-----------------------------------------------------------------------------
(* The invariant.                                                          *)

LEMMA InitSystemInv == SystemInit => SystemInv
<1> SUFFICES ASSUME SystemInit PROVE SystemInv
  OBVIOUS
<1>1. Init /\ agent = "down" /\ route = "none" /\ worker = NoWorker /\ answer = "none"
      /\ patient = TRUE
  BY DEF SystemInit, Life!Init
<1>2. Working = {}
  BY <1>1 DEF Init, Working
<1>3. QED
  BY <1>1, <1>2, InitVaultInv, InitSerialInv
     DEF SystemInv, UserTypeOK, WorkerWorks, OneAtATime, PatientInv

\* Steps that do not touch the file, or what works on it.
LEMMA UserKeepsInv ==
    ASSUME SystemInv, UNCHANGED vars, UserTypeOK',
           \/ worker' = worker /\ patient' = patient
           \/ worker' = NoWorker /\ patient' = FALSE,
           agent' = "down" => Working \cap Handlers = {}
    PROVE  SystemInv'
<1>1. VaultInv' /\ (SerialInv => SerialInv') /\ Working' = Working
  <2>1. VaultInv'
    BY NextVaultInv DEF SystemInv
  <2>2. SerialInv => SerialInv'
    BY DEF vars, Working, NoWriter, SerialInv, FileAgrees, JobAgrees, HistoryIsWhole,
           ReportedIsInHistory
  <2>3. Working' = Working
    BY DEF vars, Working
  <2>4. QED
    BY <2>1, <2>2, <2>3
<1>2. WorkerWorks' /\ OneAtATime' /\ PatientInv'
  BY <1>1 DEF SystemInv, UserTypeOK, WorkerWorks, OneAtATime, PatientInv
<1>3. QED
  BY <1>1, <1>2 DEF SystemInv

\* While the user is patient, nobody but the worker works.
LEMMA WorkerAlone ==
    ASSUME SystemInv, patient, NEW p \in Process,
           p \in Working \/ worker = NoWorker
    PROVE  Working \subseteq {p} /\ (p \in Working => worker = p)
BY SystemAssumption DEF SystemInv, WorkerWorks, OneAtATime, Working

LEMMA RunKeepsInv ==
    ASSUME SystemInv, NEW p \in Process, RunDirect(p) \/ RunInAgent(p)
    PROVE  SystemInv'
<1>1. Start(p) /\ VaultInv /\ VaultInv'
  BY RunStarts, StartKeepsInv DEF SystemInv
<1>2. Working' = Working \cup {p}
  BY <1>1, StartWorks
<1>3. UserTypeOK'
  BY RunStarts DEF SystemInv, UserTypeOK
<1>4. WorkerWorks'
  BY <1>2, RunStarts DEF WorkerWorks
<1>5. patient => Working \subseteq {p}
  BY RunStarts, WorkerAlone
<1>6. OneAtATime'
  BY <1>2, <1>5, RunStarts DEF SystemInv, OneAtATime
<1>7. PatientInv'
  BY <1>1, <1>5, RunStarts, StartKeepsSerial DEF SystemInv, PatientInv
<1>8. QED
  BY <1>1, <1>3, <1>4, <1>6, <1>7 DEF SystemInv

\* The steps of a process that works.
LEMMA ProcessKeepsInv ==
    ASSUME SystemInv, NEW p \in Process, p \in Working,
           Save(p) \/ GitCommit(p) \/ Crash(p),
           \/ Working' = Working /\ UNCHANGED <<worker, answer>>
           \/ Working' = Working \ {p} /\ (Report(p, "ok") \/ Report(p, "error")),
           UNCHANGED <<agent, route, patient>>
    PROVE  SystemInv'
<1>1. VaultInv /\ VaultInv'
  BY SaveKeepsInv, GitKeepsInv, CrashKeepsInv DEF SystemInv
<1>2. UserTypeOK'
  BY DEF SystemInv, UserTypeOK, Report
<1>3. WorkerWorks'
  BY DEF SystemInv, WorkerWorks, Report
<1>4. OneAtATime'
  BY WorkerAlone DEF SystemInv, OneAtATime, Report
<1>5. PatientInv'
  BY <1>1, WorkerAlone, SaveKeepsSerial, GitKeepsSerial, CrashKeepsSerial
     DEF SystemInv, PatientInv
<1>6. QED
  BY <1>1, <1>2, <1>3, <1>4, <1>5 DEF SystemInv

LEMMA CrashEnds ==
    ASSUME VaultInv, NEW p \in Process, InterruptDirect(p)
    PROVE  /\ Crash(p) /\ p \in Working /\ Working' = Working \ {p}
           /\ Report(p, "error") /\ UNCHANGED <<agent, route, patient>>
BY StopLeaves DEF InterruptDirect, Crash

LEMMA KillKeepsInv ==
    ASSUME SystemInv, Kill
    PROVE  SystemInv'
<1> DEFINE gone == Working \cap Handlers
<1>1. VaultInv /\ VaultInv' /\ Working' = Working \ Handlers
  BY KillLeaves, KillKeepsVaultInv DEF SystemInv
<1>2. /\ agent' = "down" /\ route' = route /\ patient' = patient
      /\ IF worker \in gone THEN worker' = NoWorker /\ answer' = "error"
                            ELSE UNCHANGED <<worker, answer>>
  BY DEF Kill, Life!Kill
<1>3. UserTypeOK'
  BY <1>2 DEF SystemInv, UserTypeOK
<1>4. WorkerWorks'
  BY <1>1, <1>2 DEF SystemInv, WorkerWorks
<1>5. OneAtATime'
  BY <1>1, <1>2 DEF SystemInv, OneAtATime
<1>6. PatientInv'
  <2> SUFFICES ASSUME patient PROVE SerialInv'
    BY <1>2 DEF PatientInv
  <2>1. SerialInv /\ Working \subseteq {worker}
    BY DEF SystemInv, PatientInv, OneAtATime
  <2>2. CASE worker \in gone
    <3>1. Crash(worker) /\ worker \in Process
      BY <1>1, <2>1, <2>2, KillIsCrash DEF Working
    <3>2. QED
      BY <1>1, <2>1, <3>1, CrashKeepsSerial
  <2>3. CASE worker \notin gone
    <3>1. UNCHANGED vars
      BY <1>1, <2>1, <2>3, KillIsCrash
    <3>2. QED
      BY <2>1, <3>1 DEF vars, Working, NoWriter, SerialInv, FileAgrees, JobAgrees,
                        HistoryIsWhole, ReportedIsInHistory
  <2>4. QED
    BY <2>2, <2>3
<1>7. QED
  BY <1>1, <1>3, <1>4, <1>5, <1>6 DEF SystemInv

LEMMA NextSystemInv == SystemInv /\ [SystemNext]_sysvars => SystemInv'
<1> SUFFICES ASSUME SystemInv, [SystemNext]_sysvars PROVE SystemInv'
  OBVIOUS
<1>0. VaultInv
  BY DEF SystemInv
<1>1. CASE IsRunning
  <2>1. /\ UNCHANGED vars /\ UNCHANGED <<agent, worker, answer, patient>>
        /\ route' \in {"none", "direct", "agent"}
    BY <1>1 DEF IsRunning
  <2>2. QED
    BY <2>1, UserKeepsInv DEF SystemInv, UserTypeOK, OneAtATime
<1>2. CASE Refused
  <2>1. /\ UNCHANGED vars /\ UNCHANGED <<agent, worker, patient>>
        /\ route' = "none" /\ answer' = "error"
    BY <1>2 DEF Refused
  <2>2. QED
    BY <2>1, UserKeepsInv DEF SystemInv, UserTypeOK, OneAtATime
<1>3. CASE InterruptAgent
  <2>1. /\ UNCHANGED vars /\ UNCHANGED <<agent, route, answer>>
        /\ worker' = NoWorker /\ patient' = FALSE
    BY <1>3 DEF InterruptAgent
  <2>2. QED
    BY <2>1, UserKeepsInv DEF SystemInv, UserTypeOK, OneAtATime
<1>4. ASSUME NEW p \in Process, RunDirect(p) \/ RunInAgent(p) \/ Work(p) \/ InterruptDirect(p)
      PROVE  SystemInv'
  <2>1. CASE RunDirect(p) \/ RunInAgent(p)
    BY <2>1, RunKeepsInv
  <2>2. CASE Work(p)
    BY <1>0, <2>2, WorkIs, ProcessKeepsInv
  <2>3. CASE InterruptDirect(p)
    BY <1>0, <2>3, CrashEnds, ProcessKeepsInv
  <2>4. QED
    BY <1>4, <2>1, <2>2, <2>3
<1>5. CASE StartAgent \/ StopAgent \/ Exit
  <2>1. /\ UNCHANGED vars /\ UNCHANGED <<worker, route, answer, patient>>
        /\ agent' \in {"down", "up", "draining"}
        /\ agent' = "down" => Working \cap Handlers = {}
    BY <1>5 DEF StartAgent, StopAgent, Exit, user,
             Life!Start, Life!Stop, Life!Exit
  <2>2. QED
    BY <2>1, UserKeepsInv DEF SystemInv, UserTypeOK
<1>6. CASE Kill
  BY <1>6, KillKeepsInv
<1>7. CASE UNCHANGED sysvars
  <2>1. UNCHANGED vars /\ UNCHANGED <<agent, worker, route, answer, patient>>
    BY <1>7 DEF sysvars, user
  <2>2. QED
    BY <2>1, UserKeepsInv DEF SystemInv, UserTypeOK, OneAtATime
<1>8. QED
  BY <1>1, <1>2, <1>3, <1>4, <1>5, <1>6, <1>7 DEF SystemNext, Agent

LEMMA SystemInvHolds == SystemSpec => []SystemInv
BY InitSystemInv, NextSystemInv, PTL DEF SystemSpec

-----------------------------------------------------------------------------
(* The results about the state.                                            *)

\* A handler works only while its agent is there, and nobody but the worker of
\* the user's command has its hands on the file, unless a command was
\* interrupted while a handler worked on it.
THEOREM OneAtATimeHolds == SystemSpec => []OneAtATime
<1>1. SystemInv => OneAtATime
  BY DEF SystemInv
<1>2. QED
  BY <1>1, SystemInvHolds, PTL

\* With agents that start, drain, and are killed with their handlers, and with
\* interrupted commands too, a uuid stands for one password.
THEOREM SystemPinsPassword == SystemSpec => []UuidPinsPassword
<1>1. SystemInv => UuidPinsPassword
  BY DEF SystemInv, VaultInv
<1>2. QED
  BY <1>1, SystemInvHolds, PTL

\* Until the user interrupts a command that the agent works on, the file can be
\* read and holds every edit, and the history what was reported, though set and
\* rm choose between the agent and their own hands by a question whose answer
\* may be out of date.
THEOREM SystemKeepsFile ==
    SystemSpec => [](patient => /\ FileIsWhole /\ EditsLand
                                /\ HistoryIsWhole /\ ReportedIsInHistory)
<1>1. SystemInv => (patient => /\ FileIsWhole /\ EditsLand
                               /\ HistoryIsWhole /\ ReportedIsInHistory)
  BY SerialIs DEF SystemInv, PatientInv
<1>2. QED
  BY <1>1, SystemInvHolds, PTL

-----------------------------------------------------------------------------
(* System implements ShrineStore.                                          *)

\* While the user is patient, the history says what the user sees, whether or
\* not a save is under way.
Known ==
    IF ~intact THEN S!Lost
    ELSE IF expected = Nothing THEN S!Absent
    ELSE S!Whole(expected.uuid, expected.secrets)

\* The command p works on, as the user sees it.
Doing(p, done) ==
    [op |-> IF job[p].op \in {"init", "convert"} THEN job[p].op ELSE "edit",
     uuid |-> job[p].draft.uuid,
     dels |-> job[p].edit.dels, sets |-> job[p].edit.sets, done |-> done]

Saved(p) == pc[p] \in {"stage", "head", "commit"}

LEMMA SeenIsKnown == SystemInv /\ patient => Seen = Known
<1> SUFFICES ASSUME SystemInv, patient PROVE Seen = Known
  OBVIOUS
<1>1. FileAgrees /\ file.kind \in {"missing", "truncated", "torn", "whole"}
      /\ (file.kind = "whole" => expected \in Picture)
  BY Kinds DEF SystemInv, PatientInv, SerialInv, VaultInv, TypeOK, SavedIsExpected
<1>2. NoWriter <=> ~\E p \in Process : pc[p] = "write"
  BY DEF NoWriter
<1>3. expected \in Picture => expected # Nothing
  BY NothingAssumption
<1>4. CASE NoWriter
  <2>1. Seen = IF file.kind = "whole" THEN S!Whole(file.shrine.uuid, file.shrine.secrets)
               ELSE IF file.kind = "missing" THEN S!Absent ELSE S!Lost
    BY <1>2, <1>4 DEF Seen, S!Whole, S!Absent, S!Lost
  <2>2. QED
    BY <1>1, <1>3, <1>4, <2>1 DEF FileAgrees, Known
<1>5. CASE ~NoWriter
  BY <1>2, <1>5 DEF Seen, Known, S!Whole, S!Absent, S!Lost
<1>6. QED
  BY <1>4, <1>5

LEMMA SeenNext == SystemInv' /\ patient' => Seen' = Known'
<1>1. (SystemInv /\ patient => Seen = Known)'
  BY SeenIsKnown, PTL
<1>2. QED
  BY <1>1

LEMMA UnknownIsApart ==
    /\ Known # S!Unknown
    /\ Known.kind = "whole" <=> intact /\ expected # Nothing
    /\ ~patient => Seen = S!Unknown
BY DEF Known, Seen, S!Unknown, S!Lost, S!Absent, S!Whole

LEMMA MarkDone ==
    ASSUME NEW p, NEW done, NEW before
    PROVE  Doing(p, done) = [Doing(p, before) EXCEPT !.done = done]
BY DEF Doing

LEMMA CallIs ==
    /\ worker = NoWorker => Call = S!Idle
    /\ worker # NoWorker => Call = Doing(worker, Saved(worker)) /\ Call # S!Idle
<1>1. worker # NoWorker => Call = Doing(worker, Saved(worker))
  BY DEF Call, Doing, Saved
<1>2. \A p, done : Doing(p, done) # S!Idle
  BY DEF Doing, S!Idle
<1>3. QED
  BY <1>1, <1>2 DEF Call, S!Idle

LEMMA CallNext ==
    /\ worker' = NoWorker => Call' = S!Idle
    /\ worker' # NoWorker => Call' = Doing(worker, Saved(worker))'
<1>1. (/\ worker = NoWorker => Call = S!Idle
       /\ worker # NoWorker => Call = Doing(worker, Saved(worker)) /\ Call # S!Idle)'
  BY CallIs, PTL
<1>2. QED
  BY <1>1

\* An edit of Vault is one of ShrineStore.
LEMMA EditedIs ==
    ASSUME NEW edit, NEW secrets
    PROVE  Apply(edit, secrets) = S!Edited(edit.dels, edit.sets, secrets)
BY DEF Apply, Merge, Drop, S!Edited

LEMMA SameSecrets == S!Secrets = Secrets
BY DEF S!Secrets, Secrets

-----------------------------------------------------------------------------
(* The steps of ShrineStore.                                               *)

\* The user sees nothing of a step that changes neither what is expected of the
\* file nor the command.
LEMMA Stutters ==
    ASSUME SystemInv, SystemInv', patient, patient',
           UNCHANGED <<expected, intact, uuids, worker, answer>>,
           worker # NoWorker => job'[worker] = job[worker] /\ (Saved(worker)' <=> Saved(worker))
    PROVE  UNCHANGED S!vars
<1>1. Seen' = Seen
  <2>1. Known' = Known
    BY DEF Known, S!Lost, S!Absent, S!Whole
  <2>2. QED
    BY <2>1, SeenIsKnown, SeenNext
<1>2. Call' = Call
  <2>1. CASE worker = NoWorker
    BY <2>1, CallIs, CallNext
  <2>2. CASE worker # NoWorker
    BY <2>2 DEF Call, Saved
  <2>3. QED
    BY <2>1, <2>2
<1>3. QED
  BY <1>1, <1>2 DEF S!vars

LEMMA RunInvokes ==
    ASSUME SystemInv, SystemInv', patient, NEW p \in Process,
           RunDirect(p) \/ RunInAgent(p)
    PROVE  S!Invoke
<1>1. /\ Start(p) /\ worker = NoWorker /\ worker' = p /\ patient'
      /\ UNCHANGED answer
  BY RunStarts
<1>2. PICK op \in Ops, force \in BOOLEAN, draft \in Shrine, edit \in Edits,
           blind \in BOOLEAN, commit \in BOOLEAN :
              StartsWith(p, op, force, draft, edit, blind, commit)
  BY <1>1, StartIs DEF SystemInv
<1> DEFINE new == [op |-> op, force |-> force, draft |-> draft,
                   edit |-> edit, blind |-> blind, commit |-> commit]
<1>3. /\ job'[p] = new /\ pc'[p] = "save"
      /\ UNCHANGED <<expected, intact, file>>
  BY <1>2 DEF StartsWith, Begin, history, SystemInv, VaultInv, TypeOK
<1>4. new.op = op /\ new.draft = draft /\ new.edit = edit
  OBVIOUS
<1> HIDE DEF new
<1> DEFINE c == [op |-> IF op \in {"init", "convert"} THEN op ELSE "edit",
                 uuid |-> draft.uuid, dels |-> edit.dels, sets |-> edit.sets,
                 done |-> FALSE]
<1>5. Call = S!Idle /\ Call' = c
  <2>1. p # NoWorker
    BY SystemAssumption
  <2>2. Call' = Doing(worker, Saved(worker))'
    BY <1>1, <2>1, CallNext
  <2>3. Saved(worker)' = FALSE
    BY <1>1, <1>3 DEF Saved
  <2>4. Call' = Doing(worker, FALSE)'
    BY <2>2, <2>3 DEF Doing
  <2>5. QED
    BY <1>1, <1>3, <1>4, <2>4, CallIs DEF Doing
<1>6. c \in S!Command /\ ~c.done
  BY SameSecrets DEF S!Command, Shrine, Edits, Ops
<1>7. Seen' = Seen
  <2>1. Known' = Known
    BY <1>3 DEF Known, S!Lost, S!Absent, S!Whole
  <2>2. QED
    BY <1>1, <2>1, SeenIsKnown, SeenNext
<1>8. Seen.kind = "whole" \/ c.op = "init"
  <2> SUFFICES ASSUME op # "init" PROVE Seen.kind = "whole"
    OBVIOUS
  <2>1. file.kind = "whole"
    BY <1>2 DEF StartsWith
  <2>2. intact /\ expected # Nothing
    <3>1. expected \in Picture
      BY <2>1 DEF SystemInv, VaultInv, SavedIsExpected
    <3>2. SerialInv /\ Working \subseteq {p}
      BY <1>1, WorkerAlone DEF SystemInv, PatientInv
    <3>3. NoWriter
      BY <2>1, <3>2, ContentType DEF SerialInv, FileAgrees
    <3>4. QED
      BY <2>1, <3>1, <3>2, <3>3, NothingAssumption DEF SerialInv, FileAgrees
  <2>3. QED
    BY <2>2, SeenIsKnown, UnknownIsApart
<1>9. IF c.op = "edit"
        THEN (1..uuids)' = 1..uuids
        ELSE c.uuid \notin 1..uuids /\ (1..uuids)' = (1..uuids) \cup {c.uuid}
  <2>1. uuids \in Nat
    BY VaultAssumption DEF SystemInv, VaultInv, TypeOK
  <2>2. CASE op \in {"init", "convert"}
    <3>1. uuids' = uuids + 1 /\ draft.uuid = uuids + 1
      BY <1>2, <2>2 DEF StartsWith
    <3>2. uuids + 1 \notin 1..uuids /\ 1..(uuids + 1) = (1..uuids) \cup {uuids + 1}
      BY <2>1
    <3>3. QED
      BY <2>2, <3>1, <3>2
  <2>3. CASE op \notin {"init", "convert"}
    BY <1>2, <2>3 DEF StartsWith
  <2>4. QED
    BY <2>2, <2>3
<1> HIDE DEF c
<1>10. QED
  BY <1>1, <1>5, <1>6, <1>7, <1>8, <1>9 DEF S!Invoke

\* The command ends, and the store is as it was.
LEMMA EndsWith ==
    ASSUME SystemInv, SystemInv', patient, patient',
           UNCHANGED <<expected, intact, uuids>>,
           NEW result \in {"ok", "error"}, result = "ok" => Saved(worker),
           worker # NoWorker, worker' = NoWorker, answer' = result
    PROVE  S!Next
<1>1. Seen' = Seen /\ Seen # S!Unknown
  <2>1. Known' = Known
    BY DEF Known, S!Lost, S!Absent, S!Whole
  <2>2. QED
    BY <2>1, SeenIsKnown, SeenNext, UnknownIsApart
<1>2. Call # S!Idle /\ Call' = S!Idle /\ (result = "ok" => Call.done)
  BY CallIs, CallNext DEF Doing
<1>3. S!Answer(result)
  BY <1>1, <1>2 DEF S!Answer
<1>4. QED
  BY <1>1, <1>3 DEF S!Next

\* The save of the command is cut short.
LEMMA CutShort ==
    ASSUME SystemInv, SystemInv', patient, patient', ~intact', uuids' = uuids,
           worker # NoWorker, worker' = NoWorker, answer' = "error", ~Saved(worker)
    PROVE  S!Next
<1>1. Seen' = S!Lost /\ Seen # S!Unknown
  BY SeenIsKnown, SeenNext, UnknownIsApart DEF Known
<1>2. Call # S!Idle /\ Call' = S!Idle /\ ~Call.done
  BY CallIs, CallNext DEF Doing
<1>3. S!Lose
  BY <1>1, <1>2 DEF S!Lose
<1>4. QED
  BY <1>1, <1>3 DEF S!Next

\* The write of a command is its effect on the store.
LEMMA WriteTakesEffect ==
    ASSUME SystemInv, SystemInv', patient, patient', worker \in Process, Write(worker),
           \/ UNCHANGED <<worker, answer>> /\ job[worker].commit
           \/ worker' = NoWorker /\ answer' \in {"ok", "error"}
    PROVE  S!Next
<1> DEFINE j == job[worker]
<1>1. /\ VaultInv /\ SerialInv /\ Working \subseteq {worker} /\ worker # NoWorker
      /\ worker \in Working /\ pc[worker] = "write"
  BY SystemAssumption DEF SystemInv, PatientInv, OneAtATime, Write, Working
<1>2. /\ intact' /\ expected' \in Picture
      /\ expected'.uuid = j.draft.uuid /\ expected'.secrets = j.draft.secrets
  BY <1>1, WriteLeaves, MeantType DEF Write
<1>3. Seen' = S!Whole(j.draft.uuid, j.draft.secrets)
  BY <1>2, SeenNext, NothingAssumption DEF Known, S!Whole
<1>4. Call = Doing(worker, FALSE) /\ Call # S!Idle /\ ~Call.done
  <2>1. Saved(worker) = FALSE
    BY <1>1 DEF Saved
  <2>2. Call = Doing(worker, FALSE) /\ Call # S!Idle
    BY <1>1, <2>1, CallIs
  <2>3. QED
    BY <2>2 DEF Doing
<1>5. S!Effect(Call) = S!Whole(j.draft.uuid, j.draft.secrets)
  <2>1. CASE j.op = "init"
    <3>1. j.draft.secrets = j.edit.sets
      BY <1>1, <2>1 DEF SerialInv, JobAgrees
    <3>2. QED
      BY <1>4, <2>1, <3>1 DEF Doing, S!Effect
  <2>2. CASE j.op # "init"
    <3>1. /\ intact /\ expected \in Picture
          /\ j.draft.secrets = Apply(j.edit, expected.secrets)
          /\ j.op # "convert" => j.draft.uuid = expected.uuid
      BY <1>1, <2>2 DEF SerialInv, JobAgrees, VaultInv, SavedIsExpected
    <3>2. Seen = S!Whole(expected.uuid, expected.secrets)
      BY <3>1, SeenIsKnown, NothingAssumption DEF Known
    <3>3. j.draft.secrets = S!Edited(j.edit.dels, j.edit.sets, expected.secrets)
      BY <3>1, EditedIs
    <3>4. /\ Call.op = IF j.op = "convert" THEN "convert" ELSE "edit"
          /\ Call.uuid = j.draft.uuid /\ Call.dels = j.edit.dels /\ Call.sets = j.edit.sets
      BY <1>4, <2>2 DEF Doing
    <3>5. Seen.uuid = expected.uuid /\ Seen.secrets = expected.secrets
      BY <3>2 DEF S!Whole
    <3>6. QED
      BY <3>1, <3>3, <3>4, <3>5 DEF S!Effect
  <2>3. QED
    BY <2>1, <2>2
<1>6. \/ Call' = [Call EXCEPT !.done = TRUE] /\ UNCHANGED answer
      \/ Call' = S!Idle /\ answer' \in {"ok", "error"}
  <2>1. CASE UNCHANGED <<worker, answer>> /\ j.commit
    <3>1. job' = job /\ pc' = [pc EXCEPT ![worker] = "stage"]
      BY <2>1 DEF Write
    <3>2. pc'[worker] = "stage"
      BY <1>1, <3>1 DEF VaultInv, TypeOK
    <3>3. Call' = Doing(worker, TRUE)
      BY <1>1, <2>1, <3>1, <3>2, CallNext DEF Doing, Saved
    <3>4. Doing(worker, TRUE) = [Doing(worker, FALSE) EXCEPT !.done = TRUE]
      BY MarkDone
    <3>5. QED
      BY <1>4, <2>1, <3>3, <3>4
  <2>2. CASE worker' = NoWorker /\ answer' \in {"ok", "error"}
    BY <2>2, CallNext
  <2>3. QED
    BY <2>1, <2>2
<1>7. uuids' = uuids
  BY DEF Write
<1>8. S!TakeEffect
  BY <1>3, <1>4, <1>5, <1>6, <1>7 DEF S!TakeEffect
<1>9. Seen # S!Unknown
  BY SeenIsKnown, UnknownIsApart
<1>10. QED
  BY <1>8, <1>9 DEF S!Next

-----------------------------------------------------------------------------
(* Every step of System is one of ShrineStore, or is not seen.             *)

LEMMA InitMaps == SystemInit => S!Init
<1> SUFFICES ASSUME SystemInit PROVE S!Init
  OBVIOUS
<1>1. /\ file = Missing /\ pc = [p \in Process |-> "idle"] /\ uuids = 0
      /\ patient = TRUE /\ worker = NoWorker /\ answer = "none"
  BY DEF SystemInit, Life!Init, Init
<1>2. Seen = S!Absent
  BY <1>1 DEF Seen, S!Absent, Missing
<1>3. Call = S!Idle
  BY <1>1, CallIs
<1>4. 1..uuids = {}
  BY <1>1
<1>5. QED
  BY <1>1, <1>2, <1>3, <1>4 DEF S!Init

\* Nothing the user does makes the store known again.
LEMMA PatienceIsLost ==
    ASSUME SystemInv, [SystemNext]_sysvars, ~patient
    PROVE  ~patient'
<1>1. CASE IsRunning \/ Refused \/ InterruptAgent \/ Agent
  BY <1>1 DEF IsRunning, Refused, InterruptAgent, Agent, StartAgent, StopAgent, Exit, Kill
<1>2. CASE \E p \in Process :
              RunDirect(p) \/ RunInAgent(p) \/ Work(p) \/ InterruptDirect(p)
  BY <1>2 DEF RunDirect, RunInAgent, Employ, Work, InterruptDirect
<1>3. CASE UNCHANGED sysvars
  BY <1>3 DEF sysvars
<1>4. QED
  BY <1>1, <1>2, <1>3 DEF SystemNext

\* The worker of a patient user is the process that works.
LEMMA WorkerIs ==
    ASSUME SystemInv, patient, NEW p \in Process, p \in Working
    PROVE  worker = p /\ worker # NoWorker /\ Working \subseteq {p}
BY WorkerAlone, SystemAssumption

LEMMA WorkMaps ==
    ASSUME SystemInv, SystemInv', patient, NEW p \in Process, Work(p)
    PROVE  [S!Next]_S!vars
<1>1. p \in Working /\ patient' /\ VaultInv
  BY WorkIs DEF SystemInv
<1>2. worker = p /\ worker # NoWorker
  BY <1>1, WorkerIs
<1>3. CASE Succeed(p)
  <2>1. worker' = NoWorker /\ answer' \in {"ok", "error"}
    BY <1>2, <1>3 DEF Succeed, Report
  <2>2. CASE Write(p)
    BY <1>1, <1>2, <2>1, <2>2, WriteTakesEffect
  <2>3. CASE Commit(p)
    <3>1. Saved(worker) /\ UNCHANGED <<expected, intact, uuids>>
      BY <1>2, <2>3 DEF Commit, Saved
    <3>2. QED
      BY <1>1, <1>2, <2>1, <3>1, EndsWith
  <2>4. QED
    BY <1>3, <2>2, <2>3 DEF Succeed
<1>4. CASE Fail(p)
  <2>1. worker' = NoWorker /\ answer' = "error"
    BY <1>2, <1>4 DEF Fail, Report
  <2>2. CASE SavePanics(p) \/ GiveUp(p) \/ CommitFails(p)
    <3>1. UNCHANGED <<expected, intact, uuids>>
      BY <2>2 DEF SavePanics, GiveUp, CommitFails, history
    <3>2. QED
      BY <1>1, <1>2, <2>1, <3>1, EndsWith
  <2>3. CASE WriteFails(p)
    <3>1. ~intact' /\ uuids' = uuids /\ ~Saved(worker)
      BY <1>2, <2>3 DEF WriteFails, Saved
    <3>2. QED
      BY <1>1, <1>2, <2>1, <3>1, CutShort
  <2>4. QED
    BY <1>4, <2>2, <2>3 DEF Fail
<1>5. CASE GoOn(p)
  <2>1. UNCHANGED <<worker, answer>>
    BY <1>5 DEF GoOn
  <2>2. CASE Write(p) /\ job[p].commit
    BY <1>1, <1>2, <2>1, <2>2, WriteTakesEffect
  <2>3. CASE Create(p) \/ Stage(p) \/ ReadHead(p)
    <3>1. job' = job /\ UNCHANGED <<expected, intact, uuids>>
      BY <2>3 DEF Create, Stage, ReadHead, history, repo
    <3>2. Saved(p)' <=> Saved(p)
      BY <1>1, <2>3 DEF Create, Stage, ReadHead, Saved, VaultInv, TypeOK
    <3>3. UNCHANGED S!vars
      BY <1>1, <1>2, <2>1, <3>1, <3>2, Stutters
    <3>4. QED
      BY <3>3
  <2>4. QED
    BY <1>5, <2>2, <2>3 DEF GoOn
<1>6. QED
  BY <1>3, <1>4, <1>5 DEF Work

\* A worker that dies cuts the save short, or has only its answer lost.
LEMMA DeathMaps ==
    ASSUME SystemInv, SystemInv', patient, patient', worker \in Process, Crash(worker),
           worker' = NoWorker, answer' = "error"
    PROVE  S!Next
<1>1. /\ intact' = (intact /\ pc[worker] # "write") /\ UNCHANGED <<expected, uuids>>
      /\ worker # NoWorker
  BY SystemAssumption DEF Crash
<1>2. CASE pc[worker] = "write"
  <2>1. ~intact' /\ ~Saved(worker)
    BY <1>1, <1>2 DEF Saved
  <2>2. QED
    BY <1>1, <2>1, CutShort
<1>3. CASE pc[worker] # "write"
  <2>1. intact' = intact
    BY <1>1, <1>3 DEF SystemInv, VaultInv, TypeOK
  <2>2. QED
    BY <1>1, <2>1, EndsWith
<1>4. QED
  BY <1>2, <1>3

LEMMA KillMaps ==
    ASSUME SystemInv, SystemInv', patient, Kill
    PROVE  [S!Next]_S!vars
<1> DEFINE gone == Working \cap Handlers
<1>1. VaultInv /\ Working \subseteq {worker}
  BY DEF SystemInv, OneAtATime
<1>2. /\ patient'
      /\ IF worker \in gone THEN worker' = NoWorker /\ answer' = "error"
                            ELSE UNCHANGED <<worker, answer>>
  BY DEF Kill, Life!Kill
<1>3. CASE worker \in gone
  <2>1. Crash(worker) /\ worker \in Process
    BY <1>1, <1>3, KillIsCrash DEF Working
  <2>2. QED
    BY <1>2, <1>3, <2>1, DeathMaps
<1>4. CASE worker \notin gone
  <2>1. UNCHANGED vars
    BY <1>1, <1>4, KillIsCrash
  <2>2. UNCHANGED S!vars
    BY <1>2, <1>4, <2>1, Stutters DEF vars, Saved
  <2>3. QED
    BY <2>2
<1>5. QED
  BY <1>3, <1>4

LEMMA NextMaps ==
    ASSUME SystemInv, SystemInv', [SystemNext]_sysvars
    PROVE  [S!Next]_S!vars
<1>1. CASE ~patient
  <2>1. Seen = S!Unknown /\ Seen' = S!Unknown
    <3>1. ~patient'
      BY <1>1, PatienceIsLost
    <3>2. QED
      BY <1>1, <3>1 DEF Seen, S!Unknown
  <2>2. QED
    BY <2>1 DEF S!Next
<1>2. ASSUME patient, IsRunning \/ StartAgent \/ StopAgent \/ Exit \/ UNCHANGED sysvars
      PROVE  UNCHANGED S!vars
  <2>1. UNCHANGED vars /\ UNCHANGED <<worker, answer, patient>>
    BY <1>2 DEF IsRunning, StartAgent, StopAgent, Exit, sysvars, user
  <2>2. QED
    BY <1>2, <2>1, Stutters DEF vars, Saved
<1>3. ASSUME patient, Refused
      PROVE  S!Next
  <2>1. UNCHANGED vars /\ UNCHANGED <<worker, patient>> /\ worker = NoWorker /\ answer' = "error"
    BY <1>3 DEF Refused
  <2>2. Known' = Known
    BY <2>1 DEF vars, Known, S!Lost, S!Absent, S!Whole
  <2>3. Seen' = Seen /\ Seen # S!Unknown
    BY <1>3, <2>1, <2>2, SeenIsKnown, SeenNext, UnknownIsApart
  <2>4. Call = S!Idle /\ Call' = S!Idle
    BY <2>1, CallIs, CallNext
  <2>5. S!Refuse
    BY <2>1, <2>3, <2>4 DEF S!Refuse, vars
  <2>6. QED
    BY <2>3, <2>5 DEF S!Next
<1>4. ASSUME patient, InterruptAgent
      PROVE  S!Next
  <2>1. worker # NoWorker /\ ~patient'
    BY <1>4, SystemAssumption, VaultAssumption DEF InterruptAgent
  <2>2. Seen' = S!Unknown
    BY <2>1 DEF Seen, S!Unknown
  <2>3. Call # S!Idle /\ Seen # S!Unknown
    BY <1>4, <2>1, CallIs, SeenIsKnown, UnknownIsApart
  <2>4. S!Interrupt
    BY <2>2, <2>3 DEF S!Interrupt
  <2>5. QED
    BY <2>3, <2>4 DEF S!Next
<1>5. ASSUME patient, NEW p \in Process,
             RunDirect(p) \/ RunInAgent(p) \/ Work(p) \/ InterruptDirect(p)
      PROVE  [S!Next]_S!vars
  <2>1. CASE RunDirect(p) \/ RunInAgent(p)
    <3>1. S!Invoke
      BY <1>5, <2>1, RunInvokes
    <3>2. Seen # S!Unknown
      BY <1>5, SeenIsKnown, UnknownIsApart
    <3>3. QED
      BY <3>1, <3>2 DEF S!Next
  <2>2. CASE Work(p)
    BY <1>5, <2>2, WorkMaps
  <2>3. CASE InterruptDirect(p)
    <3>1. /\ Crash(p) /\ worker = p /\ worker' = NoWorker /\ answer' = "error"
          /\ patient' = patient
      BY <2>3 DEF InterruptDirect, Report
    <3>2. QED
      BY <1>5, <3>1, DeathMaps
  <2>4. QED
    BY <1>5, <2>1, <2>2, <2>3
<1>6. ASSUME patient, Kill
      PROVE  [S!Next]_S!vars
  BY <1>6, KillMaps
<1>7. QED
  BY <1>1, <1>2, <1>3, <1>4, <1>5, <1>6 DEF SystemNext, Agent

\* To a user who runs one command at a time and lets those that the agent works
\* on finish, the commands, the agent and the file are a store that each command
\* changes at once, or loses, or leaves as it was: whichever way each command
\* takes, and whenever agents start, stop, drain and die.
THEOREM ImplementsStoreHolds == SystemSpec => ImplementsStore
<1>1. SystemInv /\ SystemInv' /\ [SystemNext]_sysvars => [S!Next]_S!vars
  BY NextMaps
<1>2. QED
  BY <1>1, InitMaps, SystemInvHolds, PTL DEF SystemSpec, ImplementsStore, S!Spec
=============================================================================

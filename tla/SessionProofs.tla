---------------------------- MODULE SessionProofs ----------------------------
(***************************************************************************)
(* Proofs about Session, for any sets of keys, settings and passwords and  *)
(* any number of shrines.                                                  *)
(*                                                                         *)
(* Each property is about a file at the end of a command; the invariant    *)
(* says what a command that waits for the agent or the user relies on: the *)
(* file is what it was, a password is asked for a shrine that needs one,   *)
(* and every password that is kept anywhere, for any version that ever was *)
(* and not only for the one in the file, is the one meant for it, unless   *)
(* the user put a wrong one there.                                         *)
(***************************************************************************)
EXTENDS Session, TLAPS

\* A command that waits has not touched the file, and goes through the agent
\* without a password of its own.
WaitsUntouched ==
    pc \in {"request", "password"} =>
        /\ shrine = before
        /\ cmd \in Commands /\ cmd.op \in Remote /\ cmd.given = NotGiven

\* A password is asked for a shrine that has one.
AsksForEncrypted ==
    pc = "password" => shrine.kind = "whole" /\ shrine.lock # NoPassword

\* The shrine in the file has the password that was meant for its uuid.
LockIsMeant == shrine.kind = "whole" => shrine.lock = meant[shrine.uuid]

\* So has what is kept for any uuid, be its shrine in the file or not.
KeptIsMeant ==
    /\ \A u \in DOMAIN rows \ spoilt : rows[u] = meant[u]
    /\ \A u \in DOMAIN cache \ spoilt : cache[u] = meant[u]

\* A password is refused only if it was typed, given, or kept wrong.
RefusedForCause ==
    pc = "done" /\ result = "refused" =>
        cmd.given # NotGiven \/ ReadRow(shrine.uuid) = {} \/ shrine.uuid \in spoilt

SessionInv ==
    /\ TypeOK
    /\ WaitsUntouched /\ AnswersAreTrue
    /\ AsksForEncrypted /\ LockIsMeant /\ KeptIsMeant /\ RefusedForCause

-----------------------------------------------------------------------------
(* Files.                                                                  *)

Holdings == SUBSET (Key \cup Setting)

\* A file that is a shrine, and one that is not.
LEMMA FileKinds ==
    ASSUME NEW f \in File
    PROVE  /\ f.kind \in {"missing", "damaged", "cut", "unsupported", "whole"}
           /\ f.kind = "missing" <=> f = Missing
           /\ f.kind = "whole" =>
                 f.uuid \in 1..uuids /\ f.lock \in Lock /\ f.holds \in Holdings
BY DEF File, Missing, Unreadable, Cut, Holdings

\* A shrine that is built.
LEMMA WholeIsFile ==
    ASSUME NEW n \in Nat, NEW uuid \in 1..n, NEW lock \in Lock, NEW holds \in Holdings
    PROVE  LET f == Whole(uuid, lock, holds)
           IN  /\ f \in [kind : {"whole"}, uuid : 1..n, lock : Lock, holds : Holdings]
               /\ f.kind = "whole" /\ f.uuid = uuid /\ f.lock = lock /\ f.holds = holds
BY DEF Whole

\* A shrine that is given other content.
LEMMA OtherContent ==
    ASSUME uuids \in Nat, NEW f \in File, f.kind = "whole", NEW holds \in Holdings
    PROVE  [f EXCEPT !.holds = holds] = Whole(f.uuid, f.lock, holds)
<1>1. f \in [kind : {"whole"}, uuid : 1..uuids, lock : Lock, holds : Holdings]
  BY DEF File, Missing, Unreadable, Cut, Holdings
<1>2. QED
  BY <1>1 DEF Whole

\* The file is left alone or cut short, its content is replaced, or a shrine of
\* its own uuid takes its place, with the password that was meant for it.
CutShort == shrine' \in Cut /\ UNCHANGED <<uuids, meant>>

Replaced ==
    \E holds \in Holdings :
        /\ shrine.kind = "whole"
        /\ shrine' = [shrine EXCEPT !.holds = holds]
        /\ UNCHANGED <<uuids, meant>>

Built ==
    \E lock \in Lock, holds \in Holdings :
        /\ uuids < MaxUuid
        /\ uuids' = uuids + 1
        /\ shrine' = Whole(uuids + 1, lock, holds)
        /\ meant' = With(meant, uuids + 1, lock)

FileStep == UNCHANGED file \/ CutShort \/ Replaced \/ Built

\* The types of the file and its history.
FileTypes ==
    /\ shrine \in File /\ uuids \in 0..MaxUuid
    /\ DOMAIN meant = 1..uuids /\ \A u \in 1..uuids : meant[u] \in Lock

\* What a step of the file keeps: earlier versions are of the same type and
\* mean the same password.
LEMMA FileStepKeeps ==
    ASSUME FileTypes, LockIsMeant, FileStep
    PROVE  /\ FileTypes' /\ LockIsMeant'
           /\ uuids' \in Nat /\ uuids <= uuids' /\ File \subseteq File'
           /\ \A u \in 1..uuids : meant'[u] = meant[u]
<1>1. uuids \in Nat /\ MaxUuid \in Nat
  BY SessionAssumption DEF FileTypes
<1>2. CASE UNCHANGED file
  BY <1>1, <1>2 DEF file, FileTypes, LockIsMeant, File
<1>3. CASE Replaced
  <2>1. PICK holds \in Holdings :
          /\ shrine.kind = "whole" /\ shrine' = [shrine EXCEPT !.holds = holds]
          /\ uuids' = uuids /\ meant' = meant
    BY <1>3 DEF Replaced
  <2>2. shrine.uuid \in 1..uuids /\ shrine.lock \in Lock
    BY <2>1, FileKinds DEF FileTypes
  <2>3. shrine' = Whole(shrine.uuid, shrine.lock, holds)
    BY <1>1, <2>1, OtherContent DEF FileTypes
  <2>4. /\ shrine' \in [kind : {"whole"}, uuid : 1..uuids, lock : Lock, holds : Holdings]
        /\ shrine'.uuid = shrine.uuid /\ shrine'.lock = shrine.lock
    BY <1>1, <2>2, <2>3, WholeIsFile
  <2>5. File' = File
    BY <2>1 DEF File
  <2>6. shrine' \in File
    BY <2>4 DEF File, Holdings
  <2>7. QED
    BY <1>1, <2>1, <2>4, <2>5, <2>6 DEF FileTypes, LockIsMeant
<1>4. CASE Built
  <2>1. PICK lock \in Lock, holds \in Holdings :
          /\ uuids < MaxUuid /\ uuids' = uuids + 1
          /\ shrine' = Whole(uuids + 1, lock, holds)
          /\ meant' = With(meant, uuids + 1, lock)
    BY <1>4 DEF Built
  <2>2. uuids' \in 0..MaxUuid /\ uuids' \in 1..uuids' /\ 1..uuids' = (1..uuids) \cup {uuids'}
    BY <1>1, <2>1
  <2>3. DOMAIN meant' = 1..uuids'
    BY <2>1, <2>2 DEF With, FileTypes
  <2>4. meant'[uuids'] = lock /\ \A u \in 1..uuids : meant'[u] = meant[u]
    BY <1>1, <2>1, <2>2 DEF With, FileTypes
  <2>5. /\ shrine' \in [kind : {"whole"}, uuid : 1..uuids', lock : Lock, holds : Holdings]
        /\ shrine'.uuid = uuids' /\ shrine'.lock = lock
    BY <1>1, <2>1, <2>2, WholeIsFile
  <2>6. File \subseteq File' /\ shrine' \in File'
    BY <2>2, <2>5 DEF File, Holdings
  <2>7. FileTypes'
    BY <2>2, <2>3, <2>4, <2>6 DEF FileTypes, Lock
  <2>8. LockIsMeant'
    BY <2>4, <2>5 DEF LockIsMeant
  <2>9. QED
    BY <1>1, <2>1, <2>4, <2>6, <2>7, <2>8
<1>5. CASE CutShort
  BY <1>1, <1>5 DEF CutShort, Cut, Unreadable, FileTypes, LockIsMeant, File
<1>6. QED
  BY <1>2, <1>3, <1>4, <1>5 DEF FileStep

-----------------------------------------------------------------------------
(* Passwords.                                                              *)

\* The options of a command, by its name.
LEMMA CommandFields ==
    ASSUME NEW c \in Commands
    PROVE  /\ c.op \in {"get", "set", "rm", "get private", "set private", "ls", "dump",
                        "import", "convert", "init", "info", "start", "stop", "clear"}
           /\ c.op \in {"get", "set", "rm"} => c.key \in Key
           /\ c.op \in {"get private", "set private"} => c.key \in Setting
           /\ c.op \notin {"info", "start", "stop", "clear"} => c.given \in Optional(Password)
           /\ c.op = "convert" =>
                 /\ c.new \in Optional(Password) /\ c.algorithm \in Optional(Algorithms)
           /\ c.op = "init" => c.algorithm \in Algorithms
BY DEF Commands, Optional

\* A command that goes through the agent is a command still, without -P.
LEMMA CommandWithoutPassword ==
    ASSUME NEW c \in Commands, c.op \in Remote
    PROVE  LET d == [c EXCEPT !.given = NotGiven]
           IN  d \in Commands /\ d.op = c.op /\ d.given = NotGiven
<1>1. CASE c.op \in {"get", "set", "rm"}
  <2>1. c \in [op : {"get", "set", "rm"}, key : Key, given : Optional(Password)]
    BY <1>1 DEF Commands
  <2>2. LET d == [c EXCEPT !.given = NotGiven]
        IN  /\ d \in [op : {"get", "set", "rm"}, key : Key, given : Optional(Password)]
            /\ d.op = c.op /\ d.given = NotGiven
    BY <2>1 DEF Optional
  <2>3. QED
    BY <2>2 DEF Commands
<1>2. CASE c.op = "ls"
  <2>1. c \in [op : {"ls", "dump"}, pattern : {"good", "bad"}, given : Optional(Password)]
    BY <1>2 DEF Commands
  <2>2. LET d == [c EXCEPT !.given = NotGiven]
        IN  /\ d \in [op : {"ls", "dump"}, pattern : {"good", "bad"}, given : Optional(Password)]
            /\ d.op = c.op /\ d.given = NotGiven
    BY <2>1 DEF Optional
  <2>3. QED
    BY <2>2 DEF Commands
<1>3. QED
  BY <1>1, <1>2 DEF Remote

\* A password comes from the option, the passwords file or the user.
LEMMA PasswordsRead ==
    ASSUME TypeOK, NEW uuid, NEW password \in ReadPassword(uuid)
    PROVE  /\ password \in Password
           /\ ReadRow(uuid) # {} => uuid \in DOMAIN rows /\ password = rows[uuid]
BY DEF TypeOK, ReadPassword, ReadRow

\* load_open ends up with a password that opens the shrine, or with none for
\* a plain one.
LEMMA LoadOpenGives ==
    ASSUME TypeOK, NEW c \in Commands, c.given \in Optional(Password),
           NEW password \in LoadOpen(c)
    PROVE  /\ shrine.kind = "whole" /\ password \in Optional(Password)
           /\ shrine.lock # NoPassword => password = shrine.lock
BY PasswordsRead DEF LoadOpen, Provided, Opens, Optional

\* An error that is no fault of the file has a cause.
Refusable(c) ==
    c.given # NotGiven \/ ReadRow(shrine.uuid) = {} \/ shrine.uuid \in spoilt

LEMMA LoadFailsSays ==
    ASSUME TypeOK, LockIsMeant, KeptIsMeant, NEW c \in Commands,
           LoadFails(c)
    PROVE  /\ UNCHANGED file
           /\ result' \in {"missing", "damaged", "unsupported", "panic", "refused"}
           /\ result' = "refused" => Refusable(c)
<1>1. CASE shrine.kind # "whole"
  <2>1. Reading \in {"missing", "damaged", "unsupported", "panic"}
    BY <1>1, FileKinds DEF TypeOK, Reading
  <2>2. UNCHANGED file /\ result' = Reading
    BY <1>1 DEF LoadFails, Say
  <2>3. QED
    BY <2>1, <2>2
<1>2. CASE shrine.kind = "whole"
  <2>1. PICK password \in Provided(c.given) : ~Opens(password) /\ Say("refused")
    BY <1>2 DEF LoadFails
  <2>2. ASSUME c.given = NotGiven, ReadRow(shrine.uuid) # {}
        PROVE  shrine.uuid \in spoilt
    <3>1. password \in ReadPassword(shrine.uuid) /\ password # shrine.lock
      BY <2>1, <2>2 DEF Provided, Opens
    <3>2. shrine.uuid \in DOMAIN rows /\ rows[shrine.uuid] # shrine.lock
      BY <2>2, <3>1, PasswordsRead
    <3>3. QED
      BY <1>2, <3>2 DEF KeptIsMeant, LockIsMeant
  <2>3. QED
    BY <2>1, <2>2 DEF Say, Refusable
<1>3. QED
  BY <1>1, <1>2

-----------------------------------------------------------------------------
(* The commands that work themselves.                                      *)

\* What a command makes of the file and says, be it by itself or through the
\* agent: the file takes a step, the answer is one of those that there are,
\* and a refusal has its cause.
Fair(c) ==
    /\ FileStep
    /\ result' \in Results \ {"none", "invalid", "unknown"}
    /\ result' = "refused" => Refusable(c)

\* What the answer of a command that works itself tells of the file.
Truthful(c) ==
    /\ result' \in {"ok", "git"} => Wanted(c)'
    /\ result' = "write" => shrine' \in {shrine} \cup Cut
    /\ result' \notin {"ok", "git", "write"} => UNCHANGED file

\* The answers of those that do nothing.
IdleAnswers == Results \ {"none", "ok", "git", "write", "invalid", "unknown", "refused"}

\* What is said, and nothing done.
LEMMA SayIsFair ==
    ASSUME NEW c \in Commands, NEW r \in Results \ {"none", "invalid", "unknown", "refused"}, Say(r)
    PROVE  Fair(c) /\ result' = r /\ UNCHANGED file
BY DEF Say, Fair, FileStep

LEMMA IdleIsTrue ==
    ASSUME NEW c \in Commands, NEW r \in IdleAnswers, Say(r)
    PROVE  Fair(c) /\ Truthful(c)
BY SayIsFair DEF IdleAnswers, Truthful

LEMMA LoadFailsIsTrue ==
    ASSUME TypeOK, LockIsMeant, KeptIsMeant, NEW c \in Commands, LoadFails(c)
    PROVE  Fair(c) /\ Truthful(c)
BY LoadFailsSays DEF Fair, Truthful, FileStep, Results

\* A save that fails.
LEMMA SaveFailsSays ==
    ASSUME NEW r, SaveFails(r)
    PROVE  result' = r /\ shrine' \in {shrine} \cup Cut /\ FileStep
BY DEF SaveFails, FileStep, CutShort, file

LEMMA SaveFailsIsTrue ==
    ASSUME NEW c \in Commands, SaveFails("write")
    PROVE  Fair(c) /\ Truthful(c)
<1>1. result' = "write" /\ shrine' \in {shrine} \cup Cut /\ FileStep
  BY SaveFailsSays
<1>2. QED
  BY <1>1 DEF Fair, Truthful, Results

LEMMA SaveOpenIsTrue ==
    ASSUME TypeOK, NEW c \in Commands, NEW password, NEW holds \in Holdings,
           shrine.kind = "whole", SaveOpen(c, password, holds),
           shrine' = [shrine EXCEPT !.holds = holds] => Wanted(c)'
    PROVE  Fair(c) /\ Truthful(c)
<1>1. CASE password = NotGiven
  <2>1. Say("panic") /\ "panic" \in IdleAnswers
    BY <1>1 DEF SaveOpen, IdleAnswers, Results
  <2>2. QED
    BY <2>1, IdleIsTrue
<1>2. CASE result' \in AfterSave(c) /\ Keep(holds)
  <2>1. FileStep /\ Wanted(c)'
    BY <1>2 DEF Keep, FileStep, Replaced
  <2>2. result' \in {"ok", "git"}
    BY <1>2 DEF AfterSave
  <2>3. QED
    BY <2>1, <2>2 DEF Fair, Truthful, Results
<1>3. CASE SaveFails("write")
  BY <1>3, SaveFailsIsTrue
<1>4. QED
  BY <1>1, <1>2, <1>3 DEF SaveOpen

\* A shrine that is built is another one than was there.
LEMMA SaveBuiltIsTrue ==
    ASSUME TypeOK, NEW c \in Commands, NEW lock \in Lock, NEW holds \in Holdings,
           SaveBuilt(c, lock, holds, lock),
           (/\ shrine' # shrine /\ shrine'.uuid = uuids'
            /\ shrine'.lock = lock /\ shrine'.holds = holds) => Wanted(c)'
    PROVE  Fair(c) /\ Truthful(c)
<1>1. CASE /\ uuids < MaxUuid /\ uuids' = uuids + 1
           /\ shrine' = Whole(uuids + 1, lock, holds)
           /\ meant' = With(meant, uuids + 1, lock) /\ result' \in AfterSave(c)
  <2>1. uuids \in Nat /\ uuids + 1 \in 1..(uuids + 1)
    BY SessionAssumption DEF TypeOK
  <2>2. /\ shrine'.kind = "whole" /\ shrine'.uuid = uuids + 1 /\ shrine'.lock = lock
        /\ shrine'.holds = holds
    BY <1>1, <2>1, WholeIsFile
  <2>3. shrine.kind = "whole" => shrine.uuid \in 1..uuids
    BY FileKinds DEF TypeOK
  <2>4. shrine' # shrine
    BY <2>1, <2>2, <2>3
  <2>5. FileStep /\ Wanted(c)'
    BY <1>1, <2>2, <2>4 DEF FileStep, Built
  <2>6. result' \in {"ok", "git"}
    BY <1>1 DEF AfterSave
  <2>7. QED
    BY <2>5, <2>6 DEF Fair, Truthful, Results
<1>2. CASE SaveFails("write")
  BY <1>2, SaveFailsIsTrue
<1>3. QED
  BY <1>1, <1>2 DEF SaveBuilt

\* The commands that only read say "ok" when there is what they look for.
LEMMA ReadsAreTrue ==
    ASSUME TypeOK, LockIsMeant, KeptIsMeant, NEW c \in Commands, before' = shrine,
           \/ c.op = "get" /\ Get(c)
           \/ c.op = "get private" /\ GetPrivate(c)
           \/ c.op = "ls" /\ Ls(c)
           \/ c.op = "dump" /\ Dump(c)
           \/ c.op = "info" /\ Info(c)
    PROVE  Fair(c) /\ Truthful(c)
<1>1. ASSUME Say("ok"), c.op \in {"get", "get private", "ls", "dump", "info"},
             c.op \in {"get", "get private"} => c.key \in shrine.holds
      PROVE  Fair(c) /\ Truthful(c)
  <2>1. Fair(c) /\ result' = "ok" /\ UNCHANGED file
    BY <1>1, SayIsFair DEF Results
  <2>2. Wanted(c)'
    BY <1>1, <2>1 DEF Wanted, file
  <2>3. QED
    BY <2>1, <2>2 DEF Truthful
<1>2. ASSUME NEW r \in {"no key", "pattern", "panic", "missing", "damaged", "unsupported"}, Say(r)
      PROVE  Fair(c) /\ Truthful(c)
  <2>1. r \in IdleAnswers
    BY <1>2 DEF IdleAnswers, Results
  <2>2. QED
    BY <1>2, <2>1, IdleIsTrue
<1>3. CASE LoadFails(c)
  BY <1>3, LoadFailsIsTrue
<1>4. CASE c.op \in {"get", "get private"} /\ Lookup(c)
  BY <1>1, <1>2, <1>4 DEF Lookup
<1>5. CASE c.op = "ls" /\ Ls(c)
  BY <1>1, <1>2, <1>3, <1>5 DEF Ls
<1>6. CASE c.op = "dump" /\ Dump(c)
  BY <1>1, <1>2, <1>3, <1>6 DEF Dump
<1>7. CASE c.op = "info" /\ Info(c)
  <2>1. shrine.kind # "whole" => Reading \in {"missing", "damaged", "unsupported", "panic"}
    BY FileKinds DEF Reading, TypeOK
  <2>2. QED
    BY <1>1, <1>2, <1>7, <2>1 DEF Info
<1>8. QED
  BY <1>3, <1>4, <1>5, <1>6, <1>7 DEF Get, GetPrivate

\* The commands that save the shrine they have open.
LEMMA EditsAreTrue ==
    ASSUME TypeOK, LockIsMeant, KeptIsMeant, NEW c \in Commands, before' = shrine,
           \/ c.op = "set" /\ SetDirect(c)
           \/ c.op = "set private" /\ SetPrivate(c)
           \/ c.op = "rm" /\ RmDirect(c)
           \/ c.op = "import" /\ Import(c)
    PROVE  Fair(c) /\ Truthful(c)
<1>1. CASE LoadFails(c)
  BY <1>1, LoadFailsIsTrue
<1>2. ASSUME NEW r \in {"index", "no key", "panic", "source"}, Say(r)
      PROVE  Fair(c) /\ Truthful(c)
  <2>1. r \in IdleAnswers
    BY <1>2 DEF IdleAnswers, Results
  <2>2. QED
    BY <1>2, <2>1, IdleIsTrue
<1>3. c.given \in Optional(Password)
  BY CommandFields
<1>4. ASSUME NEW password \in LoadOpen(c)
      PROVE  shrine.kind = "whole" /\ shrine.holds \in Holdings
  BY <1>3, <1>4, LoadOpenGives, FileKinds DEF TypeOK
<1>5. ASSUME NEW password \in LoadOpen(c), SaveOpen(c, password, shrine.holds \cup {c.key}),
             c.op \in {"set", "set private"}
      PROVE  Fair(c) /\ Truthful(c)
  <2>1. shrine.holds \cup {c.key} \in Holdings
    BY <1>4, <1>5, CommandFields DEF Holdings
  <2>2. shrine' = [shrine EXCEPT !.holds = shrine.holds \cup {c.key}] => Wanted(c)'
    BY <1>5 DEF Wanted
  <2>3. QED
    BY <1>4, <1>5, <2>1, <2>2, SaveOpenIsTrue
<1>6. ASSUME NEW password \in LoadOpen(c), SaveOpen(c, password, shrine.holds \ {c.key}),
             c.op = "rm", c.key \in shrine.holds
      PROVE  Fair(c) /\ Truthful(c)
  <2>1. shrine.holds \ {c.key} \in Holdings
    BY <1>4, <1>6 DEF Holdings
  <2>2. shrine' = [shrine EXCEPT !.holds = shrine.holds \ {c.key}] => Wanted(c)'
    BY <1>6 DEF Wanted
  <2>3. QED
    BY <1>4, <1>6, <2>1, <2>2, SaveOpenIsTrue
<1>7. ASSUME NEW password \in LoadOpen(c), SaveOpen(c, password, shrine.holds \cup Key),
             c.op = "import"
      PROVE  Fair(c) /\ Truthful(c)
  <2>1. shrine.holds \cup Key \in Holdings
    BY <1>4, <1>7 DEF Holdings
  <2>2. shrine' = [shrine EXCEPT !.holds = shrine.holds \cup Key] => Wanted(c)'
    BY <1>7 DEF Wanted
  <2>3. QED
    BY <1>4, <1>7, <2>1, <2>2, SaveOpenIsTrue
<1>8. CASE c.op = "set" /\ SetDirect(c)
  BY <1>1, <1>2, <1>5, <1>8 DEF SetDirect
<1>9. CASE c.op = "set private" /\ SetPrivate(c)
  BY <1>1, <1>5, <1>9 DEF SetPrivate
<1>10. CASE c.op = "rm" /\ RmDirect(c)
  BY <1>1, <1>2, <1>6, <1>10 DEF RmDirect
<1>11. CASE c.op = "import" /\ Import(c)
  BY <1>1, <1>2, <1>7, <1>11 DEF Import
<1>12. QED
  BY <1>8, <1>9, <1>10, <1>11

LEMMA InitIsTrue ==
    ASSUME TypeOK, NEW c \in Commands, before' = shrine, c.op = "init", Init_(c)
    PROVE  Fair(c) /\ Truthful(c)
<1>1. ASSUME NEW r \in {"exists", "mismatch"}, Say(r)
      PROVE  Fair(c) /\ Truthful(c)
  <2>1. r \in IdleAnswers
    BY <1>1 DEF IdleAnswers, Results
  <2>2. QED
    BY <1>1, <2>1, IdleIsTrue
<1>2. ASSUME NEW lock \in Lock, SaveBuilt(c, lock, {}, lock), Algorithm(lock) = c.algorithm,
             c.force \/ shrine = Missing, lock \in {NoPassword, c.given} \/ c.given = NotGiven
      PROVE  Fair(c) /\ Truthful(c)
  <2>1. {} \in Holdings
    BY DEF Holdings
  <2>2. (/\ shrine' # shrine /\ shrine'.uuid = uuids'
         /\ shrine'.lock = lock /\ shrine'.holds = {}) => Wanted(c)'
    BY <1>2 DEF Wanted
  <2>3. QED
    BY <1>2, <2>1, <2>2, SaveBuiltIsTrue
<1>3. CASE ~c.force /\ shrine # Missing
  BY <1>1, <1>3 DEF Init_
<1>4. CASE (c.force \/ shrine = Missing) /\ c.algorithm = "plain"
  <2>1. NoPassword \in Lock /\ Algorithm(NoPassword) = "plain"
    BY DEF Lock, Algorithm
  <2>2. QED
    BY <1>2, <1>4, <2>1 DEF Init_
<1>5. CASE (c.force \/ shrine = Missing) /\ c.algorithm # "plain"
  <2>1. c.algorithm = "aes" /\ c.given \in Optional(Password)
    BY <1>5, CommandFields DEF Algorithms
  <2>2. PICK password \in ReadNewPassword(c.given) :
          IF password = NotGiven THEN Say("mismatch") ELSE SaveBuilt(c, password, {}, password)
    BY <1>5 DEF Init_
  <2>3. CASE password = NotGiven
    BY <1>1, <2>2, <2>3
  <2>4. CASE password # NotGiven
    <3>1. password \in Password /\ (password = c.given \/ c.given = NotGiven)
      BY <2>1, <2>2, <2>4 DEF ReadNewPassword, Optional
    <3>2. password \in Lock /\ Algorithm(password) = "aes"
      BY <3>1, SessionAssumption DEF Lock, Algorithm
    <3>3. QED
      BY <1>2, <1>5, <2>1, <2>2, <2>4, <3>1, <3>2
  <2>5. QED
    BY <2>3, <2>4
<1>6. QED
  BY <1>3, <1>4, <1>5

\* The new shrine of a convert has the password that was meant for it, and
\* the algorithm that was asked for.
LEMMA RebuildIsTrue ==
    ASSUME TypeOK, NEW c \in Commands, before' = shrine, c.op = "convert", ~IsVoid(c),
           NEW password \in LoadOpen(c), Rebuild(c, password)
    PROVE  Fair(c) /\ Truthful(c)
<1> DEFINE algorithm == IF c.algorithm = NotGiven THEN Algorithm(shrine.lock) ELSE c.algorithm
<1>1. /\ c.given \in Optional(Password) /\ c.new \in Optional(Password)
      /\ c.algorithm \in Optional(Algorithms)
  BY CommandFields
<1>2. /\ shrine.kind = "whole" /\ password \in Optional(Password)
      /\ shrine.lock # NoPassword => password = shrine.lock
  BY <1>1, LoadOpenGives
<1>3. shrine.lock \in Lock /\ shrine.holds \in Holdings
  BY <1>2, FileKinds DEF TypeOK
<1>4. algorithm \in {"aes", "plain"} /\ c.algorithm \in {NotGiven, algorithm}
  BY <1>1 DEF Algorithm, Algorithms, Optional
<1>5. ASSUME NEW r \in {"panic", "mismatch"}, Say(r)
      PROVE  Fair(c) /\ Truthful(c)
  <2>1. r \in IdleAnswers
    BY <1>5 DEF IdleAnswers, Results
  <2>2. QED
    BY <1>5, <2>1, IdleIsTrue
<1>6. ASSUME NEW lock \in Lock, SaveBuilt(c, lock, shrine.holds, lock), Algorithm(lock) = algorithm,
             lock \in {NoPassword, c.new} \/ c.new = NotGiven,
             ChangePassword(c, algorithm) \/ lock = shrine.lock
      PROVE  Fair(c) /\ Truthful(c)
  <2>1. ~IsVoid(c)' /\ (ChangePassword(c, algorithm) <=>
            c.change \/ c.new # NotGiven \/ algorithm # Algorithm(shrine.lock))
    BY DEF IsVoid, ChangePassword
  <2>2. (/\ shrine' # shrine /\ shrine'.uuid = uuids'
         /\ shrine'.lock = lock /\ shrine'.holds = shrine.holds) => Wanted(c)'
    BY <1>6, <2>1 DEF Wanted
  <2>3. QED
    BY <1>3, <1>6, <2>2, SaveBuiltIsTrue
<1>7. NoPassword \in Lock /\ Algorithm(NoPassword) = "plain"
  BY DEF Lock, Algorithm
<1>8. CASE ~ChangePassword(c, algorithm)
  <2>1. c.new = NotGiven /\ algorithm = Algorithm(shrine.lock)
    BY <1>8 DEF ChangePassword
  <2>2. CASE password = NotGiven
    BY <1>5, <1>8, <2>2 DEF Rebuild
  <2>3. CASE password # NotGiven /\ algorithm = "plain"
    <3>1. SaveBuilt(c, NoPassword, shrine.holds, NoPassword)
      BY <1>8, <2>3 DEF Rebuild
    <3>2. shrine.lock = NoPassword
      BY <2>1, <2>3 DEF Algorithm
    <3>3. QED
      BY <1>6, <1>7, <2>3, <3>1, <3>2
  <2>4. CASE password # NotGiven /\ algorithm = "aes"
    <3>1. shrine.lock # NoPassword /\ password = shrine.lock
      BY <1>2, <2>1, <2>4 DEF Algorithm
    <3>2. SaveBuilt(c, shrine.lock, shrine.holds, shrine.lock)
      BY <1>8, <2>1, <2>4, <3>1 DEF Rebuild
    <3>3. QED
      BY <1>3, <1>6, <2>1, <3>2
  <2>5. QED
    BY <1>4, <2>2, <2>3, <2>4
<1>9. CASE ChangePassword(c, algorithm) /\ algorithm = "plain"
  <2>1. SaveBuilt(c, NoPassword, shrine.holds, NoPassword)
    BY <1>9 DEF Rebuild
  <2>2. QED
    BY <1>6, <1>7, <1>9, <2>1
<1>10. CASE ChangePassword(c, algorithm) /\ algorithm = "aes"
  <2>1. PICK new \in ReadNewPassword(c.new) :
          IF new = NotGiven THEN Say("mismatch")
          ELSE SaveBuilt(c, new, shrine.holds, new)
    BY <1>10 DEF Rebuild
  <2>2. CASE new = NotGiven
    BY <1>5, <2>1, <2>2
  <2>3. CASE new # NotGiven
    <3>1. new \in Password /\ (new = c.new \/ c.new = NotGiven)
      BY <1>1, <2>1, <2>3 DEF ReadNewPassword, Optional
    <3>2. new \in Lock /\ Algorithm(new) = "aes"
      BY <3>1, SessionAssumption DEF Lock, Algorithm
    <3>3. QED
      BY <1>6, <1>10, <2>1, <2>3, <3>1, <3>2
  <2>4. QED
    BY <2>2, <2>3
<1>11. QED
  BY <1>4, <1>8, <1>9, <1>10

\* Whatever a command is that works itself, it is fair, and true.
LEMMA DirectIsTrue ==
    ASSUME TypeOK, LockIsMeant, KeptIsMeant, NEW c \in Commands, before' = shrine, RunDirect(c)
    PROVE  Fair(c) /\ Truthful(c)
<1>1. CASE c.op = "convert" /\ Convert(c)
  <2>1. CASE IsVoid(c)
    <3>1. "ok" \in Results \ {"none", "invalid", "unknown", "refused"} /\ Say("ok")
      BY <1>1, <2>1 DEF Results, Convert
    <3>2. Fair(c) /\ result' = "ok" /\ UNCHANGED file
      BY <3>1, SayIsFair
    <3>3. IsVoid(c)'
      BY <2>1 DEF IsVoid
    <3>4. Wanted(c)'
      BY <1>1, <3>2, <3>3 DEF Wanted, file
    <3>5. QED
      BY <3>2, <3>4 DEF Truthful
  <2>2. CASE LoadFails(c)
    BY <2>2, LoadFailsIsTrue
  <2>3. ASSUME ~IsVoid(c), NEW password \in LoadOpen(c), Rebuild(c, password)
        PROVE  Fair(c) /\ Truthful(c)
    BY <1>1, <2>3, RebuildIsTrue
  <2>4. QED
    BY <1>1, <2>1, <2>2, <2>3 DEF Convert
<1>2. QED
  BY <1>1, ReadsAreTrue, EditsAreTrue, InitIsTrue DEF RunDirect

-----------------------------------------------------------------------------
(* The commands that go through the agent.                                 *)

\* What the answer of the agent tells of the file, as the client says it.
Relayed ==
    /\ result' \in {"ok", "invalid"} => Wanted(cmd)'
    /\ result' = "unknown" =>
          \/ UNCHANGED file
          \/ cmd.op \in {"set", "rm"} /\ (shrine' \in {shrine} \cup Cut \/ Wanted(cmd)')
    /\ result' \notin {"ok", "invalid", "unknown"} => UNCHANGED file

\* What a request comes to: the client asks for a password, the file being
\* untouched, or the command is over, and its answer is true.
Heeded ==
    \/ pc' = "password" /\ UNCHANGED file /\ result' = "none" /\ Locked
    \/ /\ pc' = "done" /\ FileStep
       /\ result' \in Results \ {"refused", "git", "write"}
       /\ Relayed

LEMMA RequestIsHeeded ==
    ASSUME TypeOK, WaitsUntouched, Request
    PROVE  Heeded
<1>1. /\ cmd \in Commands /\ cmd.op \in Remote /\ shrine = before
      /\ before' = before /\ cmd' = cmd
  BY DEF Request, WaitsUntouched
<1>2. ASSUME pc' = "done",
             NEW r \in {"communication", "missing", "unknown", "no key", "pattern"}, Say(r)
      PROVE  Heeded
  BY <1>2 DEF Heeded, Relayed, Say, FileStep, Results
<1>3. ASSUME pc' = "password", Say("none"), Locked
      PROVE  Heeded
  BY <1>3 DEF Heeded, Say
<1>4. ASSUME pc' = "done", shrine.kind = "whole", NEW holds \in Holdings, Keep(holds),
             result' \in {"ok", "invalid", "unknown"}, cmd.op \in {"set", "rm"},
             Wanted(cmd)'
      PROVE  Heeded
  <2>1. FileStep
    BY <1>4 DEF FileStep, Replaced, Keep
  <2>2. Relayed
    BY <1>4 DEF Relayed
  <2>3. QED
    BY <1>4, <2>1, <2>2 DEF Heeded, Results
<1>5. ASSUME pc' = "done", SaveFails("unknown"), cmd.op \in {"set", "rm"}
      PROVE  Heeded
  <2>1. result' = "unknown" /\ shrine' \in {shrine} \cup Cut /\ FileStep
    BY <1>5, SaveFailsSays
  <2>2. QED
    BY <1>5, <2>1 DEF Heeded, Relayed, Results
<1>6. ASSUME pc' = "done", Say("ok"), cmd.op = "get" => cmd.key \in shrine.holds,
             cmd.op \in {"get", "ls"}
      PROVE  Heeded
  <2>1. Wanted(cmd)'
    BY <1>1, <1>6 DEF Wanted, Say, file
  <2>2. QED
    BY <1>6, <2>1 DEF Heeded, Relayed, Say, FileStep, Results
<1>7. CASE ~agent
  BY <1>2, <1>7 DEF Request, Answered
<1>8. CASE cmd.op = "ls" /\ GetKeys
  <2>1. CASE cmd.pattern = "bad"
    BY <1>2, <1>8, <2>1 DEF GetKeys, Answered, Heard
  <2>2. CASE OpenShrine(Say("ok") \/ (HasKeys /\ Panicked))
    BY <1>2, <1>3, <1>6, <1>8, <2>2 DEF OpenShrine, Panicked, Answered, Heard
  <2>3. QED
    BY <1>8, <2>1, <2>2 DEF GetKeys
<1>9. CASE cmd.op = "get" /\ GetKey
  BY <1>2, <1>3, <1>6, <1>9 DEF GetKey, OpenShrine, Panicked, Answered, Heard
<1>10. ASSUME shrine.kind = "whole", cmd.op \in {"set", "rm"}
       PROVE  shrine.holds \in Holdings /\ cmd.key \in Key
  BY <1>1, <1>10, FileKinds, CommandFields DEF TypeOK
<1>11. CASE cmd.op = "set" /\ PutKey
  <2>1. ASSUME shrine.kind = "whole", pc' = "done", result' \in {"ok", "unknown"},
               Keep(shrine.holds \cup {cmd.key})
        PROVE  Heeded
    <3>1. shrine.holds \cup {cmd.key} \in Holdings
      BY <1>10, <1>11, <2>1 DEF Holdings
    <3>2. Wanted(cmd)'
      BY <1>1, <1>11, <2>1 DEF Wanted, Keep
    <3>3. QED
      BY <1>4, <1>11, <2>1, <3>1, <3>2
  <2>2. QED
    BY <1>2, <1>3, <1>5, <1>11, <2>1 DEF PutKey, OpenShrine, Panicked, Answered, Heard
<1>12. CASE cmd.op = "rm" /\ DeleteKey
  <2>1. ASSUME shrine.kind = "whole", pc' = "done", result' \in {"invalid", "unknown"},
               Keep(shrine.holds \ {cmd.key}), cmd.key \in shrine.holds
        PROVE  Heeded
    <3>1. shrine.holds \ {cmd.key} \in Holdings
      BY <1>10, <1>12, <2>1 DEF Holdings
    <3>2. Wanted(cmd)'
      BY <1>1, <1>12, <2>1 DEF Wanted, Keep
    <3>3. QED
      BY <1>4, <1>12, <2>1, <3>1, <3>2
  <2>2. QED
    BY <1>2, <1>3, <1>5, <1>12, <2>1 DEF DeleteKey, OpenShrine, Panicked, Answered, Heard
<1>13. QED
  BY <1>7, <1>8, <1>9, <1>11, <1>12 DEF Request

-----------------------------------------------------------------------------
(* The invariant.                                                          *)

\* The types of what is around the file.
RestTypes ==
    /\ before \in File /\ slips \in 0..MaxSlips
    /\ DOMAIN rows \cup DOMAIN cache \cup spoilt \subseteq 1..uuids
    /\ \A u \in DOMAIN rows : rows[u] \in Password
    /\ \A u \in DOMAIN cache : cache[u] \in Password
    /\ private \in BOOLEAN /\ agent \in BOOLEAN
    /\ pc \in {"idle", "request", "password", "done"}
    /\ cmd \in Commands \cup {NoCommand} /\ result \in Results

LEMMA TypesAreTwo == TypeOK <=> FileTypes /\ RestTypes
BY DEF TypeOK, FileTypes, RestTypes

LEMMA InitSessionInv == Init => SessionInv
<1> SUFFICES ASSUME Init PROVE SessionInv
  OBVIOUS
<1>1. TypeOK
  <2>1. Missing \in File /\ uuids \in 0..MaxUuid /\ slips \in 0..MaxSlips /\ 1..uuids = {}
    BY SessionAssumption DEF Init, File
  <2>2. shrine \in File /\ before \in File
    BY <2>1 DEF Init
  <2>3. DOMAIN meant = {} /\ DOMAIN rows = {} /\ DOMAIN cache = {} /\ spoilt = {}
    BY DEF Init, None
  <2>4. QED
    BY <2>1, <2>2, <2>3 DEF Init, TypeOK, Results
<1>2. WaitsUntouched /\ AnswersAreTrue /\ AsksForEncrypted /\ RefusedForCause
  BY DEF Init, WaitsUntouched, AnswersAreTrue, AsksForEncrypted, RefusedForCause
<1>3. LockIsMeant /\ KeptIsMeant
  BY DEF Init, LockIsMeant, KeptIsMeant, Missing, None
<1>4. QED
  BY <1>1, <1>2, <1>3 DEF SessionInv

\* A step of the file alone leaves what is kept right.
LEMMA FileStepKeepsMeant ==
    ASSUME TypeOK, LockIsMeant, KeptIsMeant, FileStep, UNCHANGED <<rows, cache, spoilt>>
    PROVE  KeptIsMeant'
<1>1. \A u \in 1..uuids : meant'[u] = meant[u]
  BY FileStepKeeps, TypesAreTwo
<1>2. QED
  BY <1>1 DEF KeptIsMeant, TypeOK

LEMMA FileStepTypes ==
    ASSUME TypeOK, LockIsMeant, FileStep, before' \in {before, shrine},
           UNCHANGED <<rows, private, spoilt>>, DOMAIN cache' \subseteq DOMAIN cache,
           \A u \in DOMAIN cache' : cache'[u] = cache[u],
           agent' \in BOOLEAN, slips' = slips, pc' \in {"idle", "request", "password", "done"},
           cmd' \in Commands \cup {NoCommand}, result' \in Results
    PROVE  TypeOK' /\ LockIsMeant'
<1>1. /\ FileTypes' /\ LockIsMeant'
      /\ uuids' \in Nat /\ uuids <= uuids' /\ File \subseteq File'
  BY FileStepKeeps, TypesAreTwo
<1>2. 1..uuids \subseteq 1..uuids'
  BY <1>1, SessionAssumption DEF TypeOK
<1>3. RestTypes'
  BY <1>1, <1>2 DEF TypeOK, RestTypes
<1>4. TypeOK'
  BY <1>1, <1>3 DEF TypeOK, FileTypes, RestTypes
<1>5. QED
  BY <1>1, <1>4

\* A step that leaves the file, the kept passwords and the command alone.
LEMMA OthersStep ==
    ASSUME SessionInv, UNCHANGED <<file, passwords, pc, cmd, result, before, spoilt>>,
           DOMAIN cache' \subseteq DOMAIN cache, \A u \in DOMAIN cache' : cache'[u] = cache[u],
           agent' \in BOOLEAN, slips' \in 0..MaxSlips
    PROVE  SessionInv'
<1>1. TypeOK'
  BY DEF SessionInv, TypeOK, file, passwords, File
<1>2. WaitsUntouched' /\ AsksForEncrypted' /\ LockIsMeant' /\ KeptIsMeant'
  BY DEF SessionInv, WaitsUntouched, AsksForEncrypted, LockIsMeant, KeptIsMeant, file, passwords
<1>3. AnswersAreTrue'
  BY DEF SessionInv, AnswersAreTrue, Wanted, file
<1>4. RefusedForCause'
  BY DEF SessionInv, RefusedForCause, ReadRow, file, passwords
<1>5. QED
  BY <1>1, <1>2, <1>3, <1>4 DEF SessionInv

\* Commands that work themselves.
LEMMA DirectKeepsInv ==
    ASSUME SessionInv, NEW c \in Commands, Direct(c)
    PROVE  SessionInv'
<1>1. /\ TypeOK /\ LockIsMeant /\ KeptIsMeant
      /\ before' = shrine /\ cmd' = c /\ pc' = "done" /\ RunDirect(c)
      /\ UNCHANGED <<passwords, slips, spoilt, agent, cache>>
  BY DEF SessionInv, Direct, Give
<1>2. Fair(c) /\ Truthful(c)
  BY <1>1, DirectIsTrue
<1>3. TypeOK' /\ LockIsMeant'
  BY <1>1, <1>2, FileStepTypes DEF Fair, TypeOK, passwords
<1>4. KeptIsMeant'
  BY <1>1, <1>2, FileStepKeepsMeant DEF Fair, passwords
<1>5. AnswersAreTrue'
  BY <1>1, <1>2 DEF AnswersAreTrue, Fair, Truthful, file
<1>6. RefusedForCause'
  BY <1>1, <1>2 DEF RefusedForCause, Fair, Truthful, Refusable, ReadRow, file, passwords
<1>7. WaitsUntouched' /\ AsksForEncrypted'
  BY <1>1 DEF WaitsUntouched, AsksForEncrypted
<1>8. QED
  BY <1>3, <1>4, <1>5, <1>6, <1>7 DEF SessionInv

\* Commands that leave the work to the agent, and those that manage it.
LEMMA AgentCommandKeepsInv ==
    ASSUME SessionInv, NEW c \in Commands, ThroughAgent(c) \/ Manage(c)
    PROVE  SessionInv'
<1>1. TypeOK /\ LockIsMeant /\ KeptIsMeant
  BY DEF SessionInv
<1>2. /\ before' = shrine /\ UNCHANGED <<file, passwords, slips, spoilt>>
      /\ DOMAIN cache' \subseteq DOMAIN cache /\ \A u \in DOMAIN cache' : cache'[u] = cache[u]
      /\ agent' \in BOOLEAN
  BY <1>1 DEF ThroughAgent, Manage, Give, Say, None, TypeOK
<1>3. KeptIsMeant' /\ FileStep
  BY <1>1, <1>2 DEF KeptIsMeant, FileStep, file, passwords
<1>4. CASE ThroughAgent(c)
  <2>1. /\ cmd' = [c EXCEPT !.given = NotGiven] /\ pc' = "request" /\ result' = result
        /\ c.op \in Remote
    BY <1>4 DEF ThroughAgent
  <2>2. cmd' \in Commands /\ cmd'.op \in Remote /\ cmd'.given = NotGiven
    BY <2>1, CommandWithoutPassword
  <2>3. TypeOK' /\ LockIsMeant'
    BY <1>1, <1>2, <1>3, <2>1, <2>2, FileStepTypes DEF TypeOK, passwords
  <2>4. WaitsUntouched' /\ AsksForEncrypted' /\ AnswersAreTrue' /\ RefusedForCause'
    BY <1>2, <2>1, <2>2
       DEF WaitsUntouched, AsksForEncrypted, AnswersAreTrue, RefusedForCause, file
  <2>5. QED
    BY <1>3, <2>3, <2>4 DEF SessionInv
<1>5. CASE Manage(c)
  <2>1. cmd' = c /\ pc' = "done" /\ c.op \in {"start", "stop", "clear"}
    BY <1>5 DEF Manage
  <2>2. result' \in {"ok", "communication"}
    BY <1>5 DEF Manage, Say
  <2>3. TypeOK' /\ LockIsMeant'
    BY <1>1, <1>2, <1>3, <2>1, <2>2, FileStepTypes DEF passwords, Results
  <2>4. AnswersAreTrue'
    BY <1>2, <2>1, <2>2 DEF AnswersAreTrue, Wanted, file
  <2>5. WaitsUntouched' /\ AsksForEncrypted' /\ RefusedForCause'
    BY <2>1, <2>2 DEF WaitsUntouched, AsksForEncrypted, RefusedForCause
  <2>6. QED
    BY <1>3, <2>3, <2>4, <2>5 DEF SessionInv
<1>6. QED
  BY <1>4, <1>5

LEMMA RequestKeepsInv ==
    ASSUME SessionInv, Request
    PROVE  SessionInv'
<1>1. /\ TypeOK /\ LockIsMeant /\ KeptIsMeant /\ WaitsUntouched
      /\ shrine = before /\ cmd \in Commands /\ cmd.op \in Remote /\ cmd.given = NotGiven
      /\ UNCHANGED <<passwords, agent, cache, cmd, slips, before, spoilt>>
  BY DEF SessionInv, Request, WaitsUntouched
<1>2. Heeded
  BY <1>1, RequestIsHeeded
<1>3. FileStep /\ result' \in Results /\ pc' \in {"password", "done"}
  BY <1>2 DEF Heeded, FileStep, Results
<1>4. TypeOK' /\ LockIsMeant'
  BY <1>1, <1>3, FileStepTypes DEF passwords, TypeOK
<1>5. KeptIsMeant'
  BY <1>1, <1>3, FileStepKeepsMeant DEF passwords
<1>6. AnswersAreTrue'
  BY <1>1, <1>2 DEF AnswersAreTrue, Heeded, Relayed, file
<1>7. RefusedForCause'
  BY <1>2 DEF RefusedForCause, Heeded
<1>8. WaitsUntouched' /\ AsksForEncrypted'
  BY <1>1, <1>2 DEF WaitsUntouched, AsksForEncrypted, Heeded, Locked, file
<1>9. QED
  BY <1>4, <1>5, <1>6, <1>7, <1>8 DEF SessionInv

\* A password that is put is the one meant for the shrine, or spoils its uuid.
LEMMA PutPasswordKeepsInv ==
    ASSUME SessionInv, PutPassword
    PROVE  SessionInv'
<1>1. /\ TypeOK /\ LockIsMeant /\ KeptIsMeant /\ pc = "password"
      /\ shrine = before /\ cmd \in Commands /\ cmd.op \in Remote /\ cmd.given = NotGiven
      /\ UNCHANGED <<file, passwords, agent, cmd, before>>
  BY DEF SessionInv, PutPassword, WaitsUntouched
<1>2. /\ shrine.kind = "whole" /\ shrine.uuid \in 1..uuids /\ shrine.lock = meant[shrine.uuid]
  BY <1>1, FileKinds DEF SessionInv, AsksForEncrypted, LockIsMeant, TypeOK
<1>3. PICK password \in ReadPassword(shrine.uuid) :
        /\ slips' = slips \/ (slips < MaxSlips /\ slips' = slips + 1)
        /\ \/ /\ agent /\ pc' = "request" /\ cache' = Stored(password) /\ result' = result
              /\ spoilt' = IF password # shrine.lock THEN spoilt \cup {shrine.uuid} ELSE spoilt
           \/ ~agent /\ pc' = "done" /\ result' = "communication" /\ UNCHANGED <<cache, spoilt>>
  BY DEF PutPassword
<1>4. password \in Password
  BY <1>1, <1>3, PasswordsRead
<1>5. slips' \in 0..MaxSlips
  BY <1>1, <1>3, SessionAssumption DEF TypeOK
<1>6. CASE /\ agent /\ pc' = "request" /\ cache' = Stored(password) /\ result' = result
           /\ spoilt' = IF password # shrine.lock THEN spoilt \cup {shrine.uuid} ELSE spoilt
  <2>1. /\ DOMAIN cache' = DOMAIN cache \cup {shrine.uuid} /\ cache'[shrine.uuid] = password
        /\ \A u \in DOMAIN cache' : u # shrine.uuid => cache'[u] = cache[u]
    BY <1>6 DEF Stored, With
  <2>2. TypeOK'
    BY <1>1, <1>2, <1>4, <1>5, <1>6, <2>1 DEF TypeOK, File, file, passwords
  <2>3. \A u \in DOMAIN rows \ spoilt' : rows[u] = meant[u]
    BY <1>1, <1>6 DEF KeptIsMeant
  <2>4. \A u \in DOMAIN cache' \ spoilt' : cache'[u] = meant[u]
    BY <1>1, <1>2, <1>6, <2>1 DEF KeptIsMeant
  <2>5. KeptIsMeant' /\ LockIsMeant'
    BY <1>1, <2>3, <2>4 DEF KeptIsMeant, LockIsMeant, file, passwords
  <2>6. WaitsUntouched' /\ AsksForEncrypted' /\ AnswersAreTrue' /\ RefusedForCause'
    BY <1>1, <1>6
       DEF WaitsUntouched, AsksForEncrypted, AnswersAreTrue, RefusedForCause, file
  <2>7. QED
    BY <2>2, <2>5, <2>6 DEF SessionInv
<1>7. CASE ~agent /\ pc' = "done" /\ result' = "communication" /\ UNCHANGED <<cache, spoilt>>
  <2>1. TypeOK'
    BY <1>1, <1>5, <1>7 DEF TypeOK, File, file, passwords, Results
  <2>2. KeptIsMeant' /\ LockIsMeant'
    BY <1>1, <1>7 DEF KeptIsMeant, LockIsMeant, file, passwords
  <2>3. WaitsUntouched' /\ AsksForEncrypted' /\ AnswersAreTrue' /\ RefusedForCause'
    BY <1>1, <1>7
       DEF WaitsUntouched, AsksForEncrypted, AnswersAreTrue, RefusedForCause, file
  <2>4. QED
    BY <2>1, <2>2, <2>3 DEF SessionInv
<1>8. QED
  BY <1>3, <1>6, <1>7

\* Between commands.
LEMMA ReturnKeepsInv ==
    ASSUME SessionInv, Return
    PROVE  SessionInv'
<1>1. TypeOK'
  <2>1. /\ TypeOK /\ UNCHANGED <<file, passwords, agent, cache, spoilt>>
        /\ pc' = "idle" /\ cmd' = NoCommand /\ result' = "none" /\ slips' = 0 /\ before' = Missing
    BY DEF SessionInv, Return
  <2>2. 0 \in 0..MaxSlips /\ Missing \in File /\ "none" \in Results
    BY SessionAssumption DEF File, Results
  <2>3. File' = File
    BY <2>1 DEF File, file
  <2>4. QED
    BY <2>1, <2>2, <2>3 DEF TypeOK, file, passwords
<1>2. LockIsMeant' /\ KeptIsMeant'
  BY DEF SessionInv, Return, LockIsMeant, KeptIsMeant, file, passwords
<1>3. WaitsUntouched' /\ AsksForEncrypted' /\ AnswersAreTrue' /\ RefusedForCause'
  BY DEF Return, WaitsUntouched, AsksForEncrypted, AnswersAreTrue, RefusedForCause
<1>4. QED
  BY <1>1, <1>2, <1>3 DEF SessionInv

LEMMA EditPasswordsKeepsInv ==
    ASSUME SessionInv, EditPasswords
    PROVE  SessionInv'
<1>1. /\ TypeOK /\ LockIsMeant /\ KeptIsMeant /\ pc = "idle"
      /\ UNCHANGED <<file, agent, cache, command>>
  BY DEF SessionInv, EditPasswords
<1>2. WaitsUntouched' /\ AsksForEncrypted' /\ AnswersAreTrue' /\ RefusedForCause' /\ LockIsMeant'
  BY <1>1 DEF WaitsUntouched, AsksForEncrypted, AnswersAreTrue, RefusedForCause, LockIsMeant,
              file, command
<1>3. CASE rows' = rows /\ spoilt' = spoilt /\ private' = ~private
  <2>1. TypeOK' /\ KeptIsMeant'
    BY <1>1, <1>3 DEF TypeOK, KeptIsMeant, File, file, command
  <2>2. QED
    BY <1>2, <2>1 DEF SessionInv
<1>4. ASSUME shrine.kind = "whole", NEW password \in Password, private' = private,
             rows' = With(rows, shrine.uuid, password),
             spoilt' = IF password # shrine.lock THEN spoilt \cup {shrine.uuid} ELSE spoilt
      PROVE  SessionInv'
  <2>1. shrine.uuid \in 1..uuids /\ shrine.lock = meant[shrine.uuid]
    BY <1>1, <1>4, FileKinds DEF LockIsMeant, TypeOK
  <2>2. /\ DOMAIN rows' = DOMAIN rows \cup {shrine.uuid} /\ rows'[shrine.uuid] = password
        /\ \A u \in DOMAIN rows' : u # shrine.uuid => rows'[u] = rows[u]
    BY <1>4 DEF With
  <2>3. TypeOK'
    BY <1>1, <1>4, <2>1, <2>2 DEF TypeOK, File, file, command
  <2>4. KeptIsMeant'
    BY <1>1, <1>4, <2>1, <2>2 DEF KeptIsMeant, file
  <2>5. QED
    BY <1>2, <2>3, <2>4 DEF SessionInv
<1>5. QED
  BY <1>3, <1>4 DEF EditPasswords

\* A version of the file that is brought back has the password it had.
LEMMA ReplaceKeepsInv ==
    ASSUME SessionInv, Replace
    PROVE  SessionInv'
<1>1. /\ TypeOK /\ KeptIsMeant /\ pc = "idle"
      /\ UNCHANGED <<uuids, meant, passwords, agent, cache, command, spoilt>>
  BY DEF SessionInv, Replace
<1>2. WaitsUntouched' /\ AsksForEncrypted' /\ AnswersAreTrue' /\ RefusedForCause' /\ KeptIsMeant'
  BY <1>1 DEF WaitsUntouched, AsksForEncrypted, AnswersAreTrue, RefusedForCause, KeptIsMeant,
              passwords, command
<1>3. shrine' \in File /\ LockIsMeant'
  <2>1. CASE shrine' \in Unreadable
    BY <2>1 DEF Unreadable, Cut, File, LockIsMeant
  <2>2. ASSUME NEW uuid \in DOMAIN meant, NEW holds \in {{}, Key},
               shrine' = Whole(uuid, meant[uuid], holds)
        PROVE  shrine' \in File /\ LockIsMeant'
    <3>1. uuids \in Nat /\ uuid \in 1..uuids /\ meant[uuid] \in Lock /\ holds \in Holdings
      BY <1>1, <2>2, SessionAssumption DEF TypeOK, Holdings
    <3>2. /\ shrine' \in [kind : {"whole"}, uuid : 1..uuids, lock : Lock, holds : Holdings]
          /\ shrine'.uuid = uuid /\ shrine'.lock = meant[uuid]
      BY <2>2, <3>1, WholeIsFile
    <3>3. QED
      BY <1>1, <3>2 DEF File, Holdings, LockIsMeant
  <2>3. QED
    BY <2>1, <2>2 DEF Replace
<1>4. TypeOK'
  BY <1>1, <1>3 DEF TypeOK, File, passwords, command
<1>5. QED
  BY <1>2, <1>3, <1>4 DEF SessionInv

\* What is true of every state, whatever commands were given before.
LEMMA SessionInvHolds == Spec => []SessionInv
<1>1. ASSUME SessionInv, Expire \/ Die \/ UNCHANGED vars
      PROVE  SessionInv'
  <2>1. TypeOK
    BY <1>1 DEF SessionInv
  <2>2. /\ UNCHANGED <<file, passwords, pc, cmd, result, before, spoilt>>
        /\ DOMAIN cache' \subseteq DOMAIN cache
        /\ \A u \in DOMAIN cache' : cache'[u] = cache[u]
        /\ agent' \in BOOLEAN
    BY <1>1, <2>1 DEF Expire, Die, vars, command, None, TypeOK
  <2>3. slips' \in 0..MaxSlips
    BY <1>1, <2>1, SessionAssumption DEF Expire, Die, vars, command, TypeOK
  <2>4. QED
    BY <1>1, <2>2, <2>3, OthersStep
<1>2. SessionInv /\ [Next]_vars => SessionInv'
  BY <1>1, DirectKeepsInv, AgentCommandKeepsInv, RequestKeepsInv, PutPasswordKeepsInv,
     ReturnKeepsInv, EditPasswordsKeepsInv, ReplaceKeepsInv DEF Next
<1>3. QED
  BY <1>2, InitSessionInv, PTL DEF Spec

-----------------------------------------------------------------------------
(* The properties.                                                         *)

\* Every value of the state is of the type the code gives it.
THEOREM TypeCorrect == Spec => []TypeOK
BY SessionInvHolds, PTL DEF SessionInv

\* Whatever command is given, whichever way it takes, and whatever happens
\* while it waits: its answer is true of the file.
THEOREM AnswersAreTrueHolds == Spec => []AnswersAreTrue
BY SessionInvHolds, PTL DEF SessionInv

\* Nobody is locked out by any sequence of commands, restored versions and
\* kept passwords.
THEOREM RightPasswordsOpenHolds == Spec => []RightPasswordsOpen
<1>1. SessionInv => RightPasswordsOpen
  <2>1. SUFFICES ASSUME SessionInv PROVE RightPasswordsOpen
    OBVIOUS
  <2>2. LockIsMeant /\ KeptIsMeant /\ RefusedForCause
    BY <2>1 DEF SessionInv
  <2>3. QED
    BY <2>2 DEF LockIsMeant, KeptIsMeant, RefusedForCause, RightPasswordsOpen
<1>2. QED
  BY <1>1, SessionInvHolds, PTL
=============================================================================

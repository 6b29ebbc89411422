----------------------------- MODULE ShrineFile -----------------------------
(***************************************************************************)
(* The bytes of the shrine file: to_path, from_path, open and close of     *)
(* src/src/shrine.rs and the ciphers of src/src/encrypt.                   *)
(*                                                                         *)
(* A file is a sequence of cells, a cell being what a cut need not divide: *)
(* half of the magic number, the version, the uuid, the algorithm, the     *)
(* length of the payload, and the cells of the payload.  An encrypted      *)
(* payload begins with the cell of its salt and nonce, and opens only as a *)
(* whole.  The serialization format, always BSON in what the commands      *)
(* write, has no cell.                                                     *)
(*                                                                         *)
(* A save truncates the file and writes its cells from the first on, all   *)
(* at once (the usual write(2)), in pieces (a short write, which write_all *)
(* continues), or not to the end (a full disk, a death).  Processes that   *)
(* save at once have an offset each.  Vault tells missing, truncated, torn *)
(* and whole files apart; this module says why that is enough.             *)
(***************************************************************************)
EXTENDS Naturals, Sequences

CONSTANTS
    Process,        \* the processes that save
    NoFile,         \* the path leads to no file
    Size,           \* the sizes of serialized secrets, in cells
    Cut,            \* where a write may stop short
    MaxSaves        \* bound on the saves

Cell == ({"magic", "version", "uuid", "algorithm", "length", "hole", "other"} \X Nat)
          \cup ({"payload"} \X (Nat \X Nat))

ASSUME FileAssumption ==
    /\ NoFile \notin Seq(Cell)
    /\ Size \subseteq Nat \ {0} /\ Cut \subseteq Nat
    /\ MaxSaves \in Nat

VARIABLES
    disk,           \* the cells of the file
    saves,          \* every shrine that was closed to be saved, in order
    pc,             \* the next step of each process
    saving,         \* the save each process is at
    offset,         \* how many of its cells each process has written
    mixed           \* history: a save was cut or pieced over bytes of another

vars == <<disk, saves, pc, saving, offset, mixed>>

-----------------------------------------------------------------------------
(* The format.                                                             *)

Aes == 0
Plain == 1
VERSION == 0

Magic == << <<"magic", 1>>, <<"magic", 2>> >>
HeaderLength == 6

\* The salt and nonce take a cell.
PayloadLength(save) == IF save.algorithm = Aes THEN save.size + 1 ELSE save.size

\* No two payloads share a cell: salt and nonce are random, secrets differ.
Payload(i) == [n \in 1..PayloadLength(saves[i]) |-> <<"payload", <<i, n>>>>]

\* Mutant of Header: the length is that of the secrets.
HeaderOfSecrets(save, version) ==
    Magic \o << <<"version", version>>, <<"uuid", save.uuid>>,
                <<"algorithm", save.algorithm>>, <<"length", save.size>> >>

Header(save, version) ==
    Magic \o << <<"version", version>>, <<"uuid", save.uuid>>,
                <<"algorithm", save.algorithm>>, <<"length", PayloadLength(save)>> >>

\* as_bytes of the i-th save.
Image(i) == Header(saves[i], VERSION) \o Payload(i)

\* What may be at the path that the program never wrote: no shrine, or a shrine
\* of a later version.
Foreign ==
    LET later == [uuid |-> 0, algorithm |-> Plain, size |-> 1]
    IN  {<< <<"other", 1>> >>, Header(later, VERSION + 1) \o << <<"other", 1>> >>}

Uuid(d) == d[4][2]
Algorithm(d) == d[5][2]
PayloadOf(d) == SubSeq(d, HeaderLength + 1, Len(d))

\* Mutant of Decodes: what follows the payload is not looked at.
DecodesPrefix(d) == Len(d) >= HeaderLength /\ Len(d) >= HeaderLength + d[6][2]

\* try_from_slice: the payload has the length that is announced, and nothing
\* follows it.
Decodes(d) == Len(d) >= HeaderLength /\ Len(d) = HeaderLength + d[6][2]

\* Mutant of FromBytes: the version is not looked at.
FromBytesOfAnyVersion(d) ==
    IF Len(d) < Len(Magic) \/ SubSeq(d, 1, Len(Magic)) # Magic THEN "no shrine"
    ELSE IF Decodes(d) THEN "closed" ELSE "unreadable"

\* from_bytes, which reads the version of a file that ends before it.
FromBytes(d) ==
    IF Len(d) < Len(Magic) \/ SubSeq(d, 1, Len(Magic)) # Magic THEN "no shrine"
    ELSE IF Len(d) = Len(Magic) THEN "panic"
    ELSE IF d[3][2] > VERSION THEN "unsupported"
    ELSE IF Decodes(d) THEN "closed" ELSE "unreadable"

FromPath(d) == IF d = NoFile THEN "missing" ELSE FromBytes(d)

IsClosed(d) == FromPath(d) = "closed"

\* The saves whose cells are in a payload.
Origins(payload) ==
    {i \in 1..Len(saves) :
        \E n \in 1..Len(payload) : payload[n] \in {"payload"} \X ({i} \X Nat)}

\* Mutant of Decrypt: each cell is deciphered on its own.
DecryptCells(payload, password) ==
    \A i \in Origins(payload) : saves[i].algorithm = Aes /\ saves[i].password = password

\* decrypt authenticates the payload, all of it, and none of the metadata.
Decrypt(payload, password) ==
    \E i \in 1..Len(saves) :
        saves[i].algorithm = Aes /\ saves[i].password = password /\ payload = Payload(i)

\* open: what is made of plain cells may be deserialized, however they got there.
Opens(d, password) ==
    /\ IsClosed(d)
    /\ IF Algorithm(d) = Aes
         THEN Decrypt(PayloadOf(d), password)
         ELSE \A i \in Origins(PayloadOf(d)) : saves[i].algorithm = Plain

-----------------------------------------------------------------------------
(* Saving.                                                                 *)

\* Mutant of Close: what is saved is the shrine before.
CloseLate(p, uuid, algorithm, password, size, force) ==
    /\ pc[p] = "idle"
    /\ Len(saves) < MaxSaves
    /\ saves' = Append(saves, [uuid |-> uuid, algorithm |-> algorithm,
                               password |-> password, size |-> size, force |-> force])
    /\ saving' = [saving EXCEPT ![p] = Len(saves)]
    /\ pc' = [pc EXCEPT ![p] = "create"]
    /\ UNCHANGED <<disk, offset, mixed>>

\* close: the shrine is serialized and encrypted, to be saved.
Close(p, uuid, algorithm, password, size, force) ==
    /\ pc[p] = "idle"
    /\ Len(saves) < MaxSaves
    /\ saves' = Append(saves, [uuid |-> uuid, algorithm |-> algorithm,
                               password |-> password, size |-> size, force |-> force])
    /\ saving' = [saving EXCEPT ![p] = Len(saves) + 1]
    /\ pc' = [pc EXCEPT ![p] = "create"]
    /\ UNCHANGED <<disk, offset, mixed>>

\* ShrineBuilder::build makes a uuid that no other shrine has.
NewUuid == Len(saves) + 1

\* A password that no shrine had; the default one, of a plain shrine.
NewPassword(algorithm) == IF algorithm = Aes THEN Len(saves) + 1 ELSE 0

Passwords == {saves[i].password : i \in 1..Len(saves)}

\* init
Init_(p, algorithm, size, force) ==
    /\ force \/ disk = NoFile
    /\ Close(p, NewUuid, algorithm, NewPassword(algorithm), size, force)

\* set, rm, config set and import: the metadata and the password are those of
\* the shrine that was opened.
Edit(p, size) ==
    \E password \in Passwords :
        /\ Opens(disk, password)
        /\ Close(p, Uuid(disk), Algorithm(disk), password, size, FALSE)

\* convert moves the secrets to a shrine that was built, with another password,
\* or the old one if the algorithm stays.
Convert(p, algorithm, size, keep) ==
    \E password \in Passwords :
        /\ Opens(disk, password)
        /\ keep => algorithm = Algorithm(disk)
        /\ Close(p, NewUuid, algorithm,
                 IF keep THEN password ELSE NewPassword(algorithm), size, FALSE)

\* File::create
Create(p) ==
    /\ pc[p] = "create"
    /\ disk' = <<>>
    /\ pc' = [pc EXCEPT ![p] = "write"]
    /\ offset' = [offset EXCEPT ![p] = 0]
    /\ UNCHANGED <<saves, saving, mixed>>

\* A gap is filled with zeros, which are the bytes of VERSION and of Aes.
Hole(n) ==
    IF n = 3 THEN <<"version", VERSION>>
    ELSE IF n = 5 THEN <<"algorithm", Aes>> ELSE <<"hole", 0>>

\* Bytes are laid over those that are there.
Overlay(d, at, cells) ==
    [n \in 1..(IF at + Len(cells) > Len(d) THEN at + Len(cells) ELSE Len(d)) |->
        IF n \in (at + 1)..(at + Len(cells)) THEN cells[n - at]
        ELSE IF n <= Len(d) THEN d[n] ELSE Hole(n)]

\* The save is neither all there at once, nor continues its own bytes only.
Mixes(p, upto) ==
    /\ ~(offset[p] = 0 /\ upto = Len(Image(saving[p])))
    /\ disk # SubSeq(Image(saving[p]), 1, offset[p])

\* The process is done with its save, or fails, or dies.
Leave(p) ==
    /\ pc' = [pc EXCEPT ![p] = "idle"]
    /\ saving' = [saving EXCEPT ![p] = 0]
    /\ offset' = [offset EXCEPT ![p] = 0]

\* A write(2) of write_all: all that is left, or less.
WriteAll(p, upto) ==
    /\ pc[p] = "write"
    /\ upto > offset[p] /\ upto <= Len(Image(saving[p]))
    /\ disk' = Overlay(disk, offset[p], SubSeq(Image(saving[p]), offset[p] + 1, upto))
    /\ mixed' = (mixed \/ Mixes(p, upto))
    /\ IF upto = Len(Image(saving[p]))
         THEN Leave(p)
         ELSE /\ offset' = [offset EXCEPT ![p] = upto]
              /\ UNCHANGED <<pc, saving>>
    /\ UNCHANGED saves

Stop(p) ==
    /\ pc[p] # "idle"
    /\ Leave(p)
    /\ UNCHANGED <<disk, saves, mixed>>

-----------------------------------------------------------------------------

Init ==
    /\ disk \in {NoFile} \cup Foreign
    /\ saves = <<>>
    /\ pc = [p \in Process |-> "idle"]
    /\ saving = [p \in Process |-> 0]
    /\ offset = [p \in Process |-> 0]
    /\ mixed = FALSE

Next ==
    \E p \in Process :
        \/ \E algorithm \in {Aes, Plain}, size \in Size :
              \E flag \in BOOLEAN :
                 Init_(p, algorithm, size, flag) \/ Convert(p, algorithm, size, flag)
        \/ \E size \in Size : Edit(p, size)
        \/ Create(p)
        \/ pc[p] = "write" /\ \E upto \in Cut \cup {Len(Image(saving[p]))} : WriteAll(p, upto)
        \/ Stop(p)

Spec == Init /\ [][Next]_vars

-----------------------------------------------------------------------------
(* Properties.                                                             *)

Save == [uuid : Nat, algorithm : {Aes, Plain}, password : Nat, size : Size, force : BOOLEAN]

\* Types of the state.
TypeOK ==
    /\ disk \in Seq(Cell) \cup {NoFile}
    /\ saves \in Seq(Save) /\ Len(saves) <= MaxSaves
    /\ pc \in [Process -> {"idle", "create", "write"}]
    /\ saving \in [Process -> 0..Len(saves)]
    /\ \A p \in Process : pc[p] # "idle" => saving[p] # 0
    /\ offset \in [Process -> Nat]
    /\ \A p \in Process : pc[p] = "write" => offset[p] \in 0..Len(Image(saving[p]))
    /\ mixed \in BOOLEAN

\* As long as no save is cut or pieced over the bytes of another, however many
\* saves overlap or are cut short otherwise, a file that is taken for a shrine
\* is one that was saved, to its last byte, plain or encrypted: the length in
\* the file tells a cut one and the tail of a longer one.
DamageIsNoticed ==
    ~mixed /\ IsClosed(disk) => \E i \in 1..Len(saves) : disk = Image(i)

\* And without that: an encrypted shrine that opens with the password that its
\* uuid has in the agent or the passwords file is one that was saved, with its
\* metadata, although the metadata is not authenticated, as long as no convert
\* kept a password.  A plain shrine may be made of pieces of two.
SealedMeansSaved ==
    LET sealed == {i \in 1..Len(saves) : saves[i].algorithm = Aes}
        apart == \A i, j \in sealed :
                    saves[i].password = saves[j].password => saves[i].uuid = saves[j].uuid
    IN  apart /\ IsClosed(disk) /\ Algorithm(disk) = Aes
        => \A i \in sealed :
              (saves[i].uuid = Uuid(disk) /\ Opens(disk, saves[i].password))
                => \E j \in sealed : disk = Image(j) /\ saves[j].password = saves[i].password

\* What the program did not write, or cannot read because it is older, is
\* replaced by an init --force only (cli.rs:45).
ForeignIsKept ==
    [][(disk \in Foreign /\ disk' # disk)
         => (\E p \in Process : Create(p) /\ saves[saving[p]].force)]_vars

\* What Vault makes of a file.
Content(d) ==
    IF d = NoFile THEN "missing" ELSE IF d = <<>> THEN "truncated"
    ELSE IF IsClosed(d) THEN "whole" ELSE "torn"

\* The steps of Vault are those of the bytes: a save truncates the file, and
\* then puts its shrine there, whole; it is torn only if the save is cut, or if
\* the file was not empty when it was written.
StepsOfVault ==
    [][~mixed' /\ disk' # disk =>
         \/ disk' = <<>>
         \/ \E p \in Process :
               /\ pc[p] = "write"
               /\ \/ disk' = Image(saving[p]) /\ Content(disk') = "whole"
                  \/ /\ Content(disk') = "torn"
                     /\ pc'[p] = "write" \/ disk # SubSeq(Image(saving[p]), 1, offset[p])]_vars
=============================================================================

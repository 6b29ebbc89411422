--------------------------- MODULE ShrineFileProofs ---------------------------
(***************************************************************************)
(* Proofs about ShrineFile, for any number of processes and saves, any     *)
(* sizes, and writes that stop anywhere.                                   *)
(*                                                                         *)
(* Wherever writes were cut and offsets overlapped, each cell of the file  *)
(* is the cell of some save at that place, or the filling of a gap.  What  *)
(* no file can be therefore follows cell by cell.  A file whose saves were *)
(* not mixed is more: it runs along the cells of one save, and may be too  *)
(* short or too long, which the length in it tells.                        *)
(***************************************************************************)
EXTENDS ShrineFile, SequenceTheorems, TLAPS

\* Each cell is that of a save, or fills a gap.
Made ==
    \A n \in 1..Len(disk) :
        \/ disk[n] = Hole(n)
        \/ \E i \in 1..Len(saves) : n <= Len(Image(i)) /\ disk[n] = Image(i)[n]

\* The program has written the file, or nothing has changed it yet.
CellsAreKnown == disk = NoFile \/ disk \in Foreign \/ Made

\* Who writes has truncated what the program did not write.
WritersTruncate ==
    \A p \in Process : pc[p] = "write" => disk # NoFile /\ disk \notin Foreign

\* Only init --force is about to truncate it.
ForcedOverForeign ==
    disk \in Foreign => \A p \in Process : pc[p] = "create" => saves[saving[p]].force

\* A password of an encrypted shrine was made with a uuid of its own: the one
\* that a gap of the file is taken for is not its first.
SealedIsNamed ==
    \A i \in 1..Len(saves) : saves[i].algorithm = Aes =>
        \E j \in 1..Len(saves) :
            /\ saves[j].algorithm = Aes /\ saves[j].password = saves[i].password
            /\ saves[j].uuid # 0

\* As far as both go, a file has the cells of an image.
Follows(d, image) == \A n \in 1..Len(d) : n <= Len(image) => d[n] = image[n]

UnmixedFollows ==
    ~mixed => \/ disk = NoFile \/ disk \in Foreign
              \/ \E i \in 1..Len(saves) : Follows(disk, Image(i))

FileInv ==
    /\ TypeOK
    /\ CellsAreKnown /\ WritersTruncate /\ ForcedOverForeign
    /\ SealedIsNamed
    /\ UnmixedFollows

-----------------------------------------------------------------------------
(* The format.                                                             *)

LEMMA CellsAre ==
    /\ \A n \in Nat : /\ <<"magic", n>> \in Cell /\ <<"version", n>> \in Cell
                      /\ <<"uuid", n>> \in Cell /\ <<"algorithm", n>> \in Cell
                      /\ <<"length", n>> \in Cell /\ <<"hole", n>> \in Cell
                      /\ <<"other", n>> \in Cell
    /\ \A i, n \in Nat : <<"payload", <<i, n>>>> \in Cell
    /\ \A n \in Nat : Hole(n) \in Cell
BY DEF Cell, Hole, VERSION, Aes

LEMMA ConcatIs ==
    ASSUME NEW a \in Seq(Cell), NEW b \in Seq(Cell)
    PROVE  /\ a \o b \in Seq(Cell) /\ Len(a \o b) = Len(a) + Len(b)
           /\ \A n \in 1..Len(a) : (a \o b)[n] = a[n]
           /\ \A n \in 1..Len(b) : (a \o b)[Len(a) + n] = b[n]
<1>1. Len(a) \in Nat /\ Len(b) \in Nat
  BY LenProperties
<1>2. QED
  BY <1>1, ConcatProperties

LEMMA HeaderIs ==
    ASSUME NEW save, NEW version
    PROVE  /\ Len(Header(save, version)) = HeaderLength
           /\ Header(save, version)[1] = <<"magic", 1>>
           /\ Header(save, version)[2] = <<"magic", 2>>
           /\ Header(save, version)[3] = <<"version", version>>
           /\ Header(save, version)[4] = <<"uuid", save.uuid>>
           /\ Header(save, version)[5] = <<"algorithm", save.algorithm>>
           /\ Header(save, version)[6] = <<"length", PayloadLength(save)>>
BY DEF Header, Magic, HeaderLength

LEMMA HeaderType ==
    ASSUME NEW save, save.uuid \in Nat, save.algorithm \in Nat, PayloadLength(save) \in Nat,
           NEW version \in Nat
    PROVE  Header(save, version) \in Seq(Cell)
<1>1. /\ <<"magic", 1>> \in Cell /\ <<"magic", 2>> \in Cell
      /\ <<"version", version>> \in Cell /\ <<"uuid", save.uuid>> \in Cell
      /\ <<"algorithm", save.algorithm>> \in Cell
      /\ <<"length", PayloadLength(save)>> \in Cell
  BY CellsAre
<1> HIDE DEF Cell
<1>2. /\ Magic \in Seq(Cell)
      /\ << <<"version", version>>, <<"uuid", save.uuid>>,
            <<"algorithm", save.algorithm>>, <<"length", PayloadLength(save)>> >> \in Seq(Cell)
  BY <1>1 DEF Magic
<1>3. QED
  BY <1>2, ConcatProperties DEF Header

\* The image of a save.
LEMMA ImageIs ==
    ASSUME TypeOK, NEW i \in 1..Len(saves)
    PROVE  /\ saves[i] \in Save
           /\ PayloadLength(saves[i]) \in Nat \ {0}
           /\ saves[i].algorithm = Aes => PayloadLength(saves[i]) > 1
           /\ Image(i) \in Seq(Cell)
           /\ Len(Image(i)) = HeaderLength + PayloadLength(saves[i])
           /\ Image(i)[1] = <<"magic", 1>> /\ Image(i)[2] = <<"magic", 2>>
           /\ Image(i)[3] = <<"version", VERSION>>
           /\ Image(i)[4] = <<"uuid", saves[i].uuid>>
           /\ Image(i)[5] = <<"algorithm", saves[i].algorithm>>
           /\ Image(i)[6] = <<"length", PayloadLength(saves[i])>>
           /\ \A n \in 1..PayloadLength(saves[i]) :
                 Image(i)[HeaderLength + n] = Payload(i)[n]
           /\ Payload(i) \in Seq(Cell) /\ Len(Payload(i)) = PayloadLength(saves[i])
<1>1. saves[i] \in Save /\ i \in Nat
  BY LenProperties DEF TypeOK
<1>2. /\ PayloadLength(saves[i]) \in Nat \ {0}
      /\ saves[i].algorithm = Aes => PayloadLength(saves[i]) > 1
  <2>1. saves[i].size \in Nat \ {0}
    BY <1>1, FileAssumption DEF Save
  <2>2. QED
    BY <2>1 DEF PayloadLength
<1>3. Payload(i) \in Seq(Cell) /\ Len(Payload(i)) = PayloadLength(saves[i])
  <2>1. \A n \in 1..PayloadLength(saves[i]) : <<"payload", <<i, n>>>> \in Cell
    BY <1>1, <1>2, CellsAre
  <2>2. QED
    BY <1>2, <2>1 DEF Payload
<1> DEFINE h == Header(saves[i], VERSION)
<1>4. h \in Seq(Cell)
  BY <1>1, <1>2, HeaderType DEF Save, Aes, Plain, VERSION
<1>5. /\ Len(h) = HeaderLength
      /\ h[1] = <<"magic", 1>> /\ h[2] = <<"magic", 2>>
      /\ h[3] = <<"version", VERSION>> /\ h[4] = <<"uuid", saves[i].uuid>>
      /\ h[5] = <<"algorithm", saves[i].algorithm>>
      /\ h[6] = <<"length", PayloadLength(saves[i])>>
  BY HeaderIs
<1> HIDE DEF h
<1>6. /\ Image(i) \in Seq(Cell) /\ Len(Image(i)) = Len(h) + Len(Payload(i))
      /\ \A n \in 1..Len(h) : Image(i)[n] = h[n]
      /\ \A n \in 1..Len(Payload(i)) : Image(i)[Len(h) + n] = Payload(i)[n]
  <2>1. Image(i) = h \o Payload(i)
    BY DEF Image, h
  <2>2. /\ h \o Payload(i) \in Seq(Cell) /\ Len(h \o Payload(i)) = Len(h) + Len(Payload(i))
        /\ \A n \in 1..Len(h) : (h \o Payload(i))[n] = h[n]
        /\ \A n \in 1..Len(Payload(i)) : (h \o Payload(i))[Len(h) + n] = Payload(i)[n]
    BY <1>3, <1>4, ConcatIs, Zenon
  <2>3. QED
    BY <2>1, <2>2, Zenon
<1>7. QED
  BY <1>1, <1>2, <1>3, <1>5, <1>6 DEF HeaderLength

\* A save never changes.
LEMMA ImageStays ==
    ASSUME NEW i, saves'[i] = saves[i]
    PROVE  Image(i)' = Image(i)
BY DEF Image, Payload

\* What a file that is taken for a shrine begins with, and how long it is.
LEMMA ClosedIs ==
    ASSUME NEW d \in Seq(Cell), IsClosed(d)
    PROVE  /\ d # NoFile /\ Len(d) \in Nat /\ Len(d) >= HeaderLength
           /\ d[1] = <<"magic", 1>> /\ d[2] = <<"magic", 2>>
           /\ ~(d[3][2] > VERSION)
           /\ Len(d) = HeaderLength + d[6][2]
<1>1. d # NoFile /\ Len(d) \in Nat
  BY FileAssumption, LenProperties
<1>2. /\ Len(d) >= Len(Magic) /\ SubSeq(d, 1, Len(Magic)) = Magic
      /\ ~(d[3][2] > VERSION) /\ Decodes(d)
  BY <1>1 DEF IsClosed, FromPath, FromBytes
<1>3. Len(Magic) = 2 /\ Magic[1] = <<"magic", 1>> /\ Magic[2] = <<"magic", 2>>
  BY DEF Magic
<1>4. SubSeq(d, 1, 2)[1] = d[1] /\ SubSeq(d, 1, 2)[2] = d[2]
  BY <1>1, <1>2, <1>3
<1>5. QED
  BY <1>1, <1>2, <1>3, <1>4 DEF Decodes, HeaderLength

LEMMA ClosedIf ==
    ASSUME NEW d \in Seq(Cell), Len(d) >= HeaderLength,
           d[1] = <<"magic", 1>>, d[2] = <<"magic", 2>>, d[3] = <<"version", VERSION>>,
           Len(d) = HeaderLength + d[6][2]
    PROVE  IsClosed(d)
<1>1. d # NoFile /\ Len(d) \in Nat /\ Len(d) >= 6
  BY FileAssumption, LenProperties DEF HeaderLength
<1>2. Len(Magic) = 2 /\ Magic[1] = <<"magic", 1>> /\ Magic[2] = <<"magic", 2>>
  BY DEF Magic
<1>3. SubSeq(d, 1, 2) = Magic
  <2>1. /\ SubSeq(d, 1, 2) \in Seq(Cell) /\ Len(SubSeq(d, 1, 2)) = 2
        /\ SubSeq(d, 1, 2)[1] = d[1] /\ SubSeq(d, 1, 2)[2] = d[2]
    <3>1. \A n \in 1..2 : d[n] \in Cell
      BY <1>1, ElementOfSeq
    <3>2. QED
      BY <1>1, <3>1, SubSeqProperties
  <2>2. Magic \in Seq(Cell)
    <3>1. <<"magic", 1>> \in Cell /\ <<"magic", 2>> \in Cell
      BY CellsAre
    <3>2. QED
      BY <3>1 DEF Magic
  <2>3. /\ Len(SubSeq(d, 1, 2)) = Len(Magic)
        /\ \A n \in 1..Len(SubSeq(d, 1, 2)) : SubSeq(d, 1, 2)[n] = Magic[n]
    <3>1. \A n \in 1..2 : n = 1 \/ n = 2
      OBVIOUS
    <3>2. QED
      BY <1>1, <1>2, <2>1, <3>1, Zenon
  <2>4. QED
    BY <2>1, <2>2, <2>3, SeqEqual, Zenon
<1>4. Decodes(d)
  BY <1>1 DEF Decodes, HeaderLength
<1>5. d[3][2] = VERSION /\ ~(VERSION > VERSION)
  BY DEF VERSION
<1>6. FromBytes(d) = "closed"
  BY <1>1, <1>2, <1>3, <1>4, <1>5 DEF FromBytes
<1>7. QED
  BY <1>1, <1>6 DEF IsClosed, FromPath

LEMMA ImageIsClosed ==
    ASSUME TypeOK, NEW i \in 1..Len(saves)
    PROVE  IsClosed(Image(i))
<1>1. Image(i)[6][2] = PayloadLength(saves[i]) /\ Len(Image(i)) >= HeaderLength
  BY ImageIs DEF HeaderLength
<1>2. QED
  BY <1>1, ImageIs, ClosedIf

\* What the program did not write is not taken for a shrine, and is not made of
\* its cells.
LEMMA ForeignIs ==
    ASSUME NEW d \in Foreign
    PROVE  /\ d \in Seq(Cell) /\ d # NoFile /\ ~IsClosed(d) /\ d # <<>> /\ Len(d) >= 1
           /\ d[1] = <<"other", 1>> \/ (Len(d) >= 3 /\ d[3] = <<"version", 1>>)
<1> DEFINE later == [uuid |-> 0, algorithm |-> Plain, size |-> 1]
           h == Header(later, VERSION + 1)
           o == << <<"other", 1>> >>
<1>1. o \in Seq(Cell) /\ Len(o) = 1 /\ o[1] = <<"other", 1>>
  <2>1. <<"other", 1>> \in Cell
    BY CellsAre
  <2>2. QED
    BY <2>1
<1>2. CASE d = o
  <2>1. d \in Seq(Cell) /\ Len(d) = 1
    BY <1>1, <1>2
  <2>2. ~IsClosed(d)
    BY <2>1, ClosedIs DEF HeaderLength
  <2>3. QED
    BY <1>1, <1>2, <2>1, <2>2, FileAssumption
<1>3. CASE d = h \o o
  <2>1. h \in Seq(Cell)
    <3>1. PayloadLength(later) \in Nat /\ later.uuid \in Nat /\ later.algorithm \in Nat
      BY DEF PayloadLength, Aes, Plain
    <3>2. VERSION + 1 \in Nat
      BY DEF VERSION
    <3>3. QED
      BY <3>1, <3>2, HeaderType
  <2>2. Len(h) = 6 /\ h[3] = <<"version", 1>>
    BY HeaderIs DEF HeaderLength, VERSION
  <2> HIDE DEF h, o
  <2>3. d \in Seq(Cell) /\ Len(d) = 7 /\ d[3] = <<"version", 1>>
    <3>1. /\ h \o o \in Seq(Cell) /\ Len(h \o o) = Len(h) + Len(o)
          /\ \A n \in 1..Len(h) : (h \o o)[n] = h[n]
      BY <1>1, <2>1, ConcatIs, Zenon
    <3>2. QED
      BY <1>1, <1>3, <2>2, <3>1
  <2>4. ~IsClosed(d)
    <3>1. 1 > VERSION /\ d[3][2] = 1
      BY <2>3 DEF VERSION
    <3>2. QED
      BY <2>3, <3>1, ClosedIs
  <2>5. QED
    BY <2>3, <2>4, FileAssumption
<1>4. QED
  BY <1>2, <1>3 DEF Foreign

LEMMA MadeIsNotForeign ==
    ASSUME TypeOK, Made
    PROVE  disk \notin Foreign
<1> SUFFICES ASSUME disk \in Foreign PROVE FALSE
  OBVIOUS
<1>1. /\ Hole(1) # <<"other", 1>> /\ Hole(3) # <<"version", 1>>
  BY DEF Hole, VERSION
<1>2. \A i \in 1..Len(saves) : Image(i)[1] # <<"other", 1>> /\ Image(i)[3] # <<"version", 1>>
  BY ImageIs DEF VERSION
<1>3. CASE disk[1] = <<"other", 1>>
  <2>1. 1 \in 1..Len(disk)
    BY ForeignIs, LenProperties
  <2>2. QED
    BY <1>1, <1>2, <1>3, <2>1 DEF Made
<1>4. CASE Len(disk) >= 3 /\ disk[3] = <<"version", 1>>
  <2>1. 3 \in 1..Len(disk)
    BY <1>4, ForeignIs, LenProperties
  <2>2. QED
    BY <1>1, <1>2, <1>4, <2>1 DEF Made
<1>5. QED
  BY <1>3, <1>4, ForeignIs

\* The metadata of a file that is taken for a shrine was saved, or is that of a
\* gap.
LEMMA MetadataIs ==
    ASSUME TypeOK, CellsAreKnown, IsClosed(disk)
    PROVE  /\ disk \in Seq(Cell) /\ Made
           /\ disk[3] = <<"version", VERSION>>
           /\ Uuid(disk) \in Nat
           /\ Uuid(disk) # 0 => disk[4] = <<"uuid", Uuid(disk)>>
           /\ Algorithm(disk) \in {Aes, Plain} /\ disk[5] = <<"algorithm", Algorithm(disk)>>
           /\ disk[6][2] \in Nat
           /\ disk[6][2] # 0 => disk[6] = <<"length", disk[6][2]>>
<1>1. disk # NoFile
  BY DEF IsClosed, FromPath
<1>2. disk \in Seq(Cell) /\ Made
  BY <1>1, ForeignIs DEF CellsAreKnown, TypeOK
<1>3. Len(disk) \in Nat /\ Len(disk) >= 6
  BY <1>2, ClosedIs DEF HeaderLength
<1>4. ASSUME NEW n \in 3..6
      PROVE  disk[n] = Hole(n) \/ \E i \in 1..Len(saves) : disk[n] = Image(i)[n]
  BY <1>2, <1>3, <1>4 DEF Made
<1>5. /\ Hole(3) = <<"version", VERSION>> /\ Hole(4) = <<"hole", 0>>
      /\ Hole(5) = <<"algorithm", Aes>> /\ Hole(6) = <<"hole", 0>>
  BY DEF Hole
<1>6. disk[3] = <<"version", VERSION>>
  BY <1>4, <1>5, ImageIs
<1>7. Uuid(disk) \in Nat /\ (Uuid(disk) # 0 => disk[4] = <<"uuid", Uuid(disk)>>)
  BY <1>4, <1>5, ImageIs DEF Uuid, Save
<1>8. Algorithm(disk) \in {Aes, Plain} /\ disk[5] = <<"algorithm", Algorithm(disk)>>
  <2>1. \A i \in 1..Len(saves) : saves[i].algorithm \in {Aes, Plain}
    BY ImageIs DEF Save
  <2>2. disk[5] = <<"algorithm", Aes>>
           \/ \E i \in 1..Len(saves) : disk[5] = <<"algorithm", saves[i].algorithm>>
    <3>1. 5 \in 3..6
      OBVIOUS
    <3>2. disk[5] = Hole(5) \/ \E i \in 1..Len(saves) : disk[5] = Image(i)[5]
      BY <1>4, <3>1, Zenon
    <3>3. \A i \in 1..Len(saves) : Image(i)[5] = <<"algorithm", saves[i].algorithm>>
      BY ImageIs
    <3>4. QED
      BY <1>5, <3>2, <3>3, Zenon
  <2>3. \E a \in {Aes, Plain} : disk[5] = <<"algorithm", a>>
    BY <2>1, <2>2
  <2>4. QED
    BY <2>3 DEF Algorithm
<1>9. disk[6][2] \in Nat /\ (disk[6][2] # 0 => disk[6] = <<"length", disk[6][2]>>)
  BY <1>4, <1>5, ImageIs
<1>10. QED
  BY <1>2, <1>6, <1>7, <1>8, <1>9

LEMMA MadeNext == TypeOK' /\ Made' => disk' \notin Foreign
<1>1. TypeOK /\ Made => disk \notin Foreign
  BY MadeIsNotForeign
<1>2. (TypeOK /\ Made => disk \notin Foreign)'
  BY <1>1, PTL
<1>3. QED
  BY <1>2

-----------------------------------------------------------------------------
(* The steps.                                                              *)

LEMMA InitFileInv == Init => FileInv
<1> SUFFICES ASSUME Init PROVE FileInv
  OBVIOUS
<1>1. /\ disk \in {NoFile} \cup Foreign /\ saves = <<>> /\ mixed = FALSE
      /\ pc = [p \in Process |-> "idle"] /\ saving = [p \in Process |-> 0]
      /\ offset = [p \in Process |-> 0]
  BY DEF Init
<1>2. saves \in Seq(Save) /\ Len(saves) = 0
  BY <1>1, EmptySeq
<1>3. disk \in Seq(Cell) \cup {NoFile}
  BY <1>1, ForeignIs
<1>4. TypeOK
  <2>1. /\ pc \in [Process -> {"idle", "create", "write"}]
        /\ saving \in [Process -> 0..Len(saves)] /\ offset \in [Process -> Nat]
        /\ \A p \in Process : pc[p] = "idle"
    BY <1>1, <1>2
  <2>2. Len(saves) <= MaxSaves
    BY <1>2, FileAssumption
  <2>3. mixed \in BOOLEAN
    BY <1>1
  <2>4. QED
    BY <1>2, <1>3, <2>1, <2>2, <2>3 DEF TypeOK
<1>5. QED
  BY <1>1, <1>2, <1>4 DEF FileInv, CellsAreKnown, WritersTruncate, ForcedOverForeign,
                          SealedIsNamed, UnmixedFollows

\* What a process works on is a save.
LEMMA SavingIs ==
    ASSUME TypeOK, NEW p \in Process, pc[p] # "idle"
    PROVE  saving[p] \in 1..Len(saves)
BY LenProperties DEF TypeOK

LEMMA CloseKeepsInv ==
    ASSUME FileInv, NEW p \in Process, NEW uuid \in Nat, NEW algorithm \in {Aes, Plain},
           NEW password \in Nat, NEW size \in Size, NEW force \in BOOLEAN,
           Close(p, uuid, algorithm, password, size, force),
           disk \in Foreign => force,
           algorithm = Aes =>
               \/ uuid # 0
               \/ \E j \in 1..Len(saves) : /\ saves[j].algorithm = Aes
                                           /\ saves[j].password = password
                                           /\ saves[j].uuid # 0
    PROVE  FileInv'
<1> DEFINE new == [uuid |-> uuid, algorithm |-> algorithm, password |-> password,
                   size |-> size, force |-> force]
<1>1. /\ Len(saves) \in Nat /\ Len(saves) < MaxSaves
      /\ saves' = Append(saves, new) /\ saving' = [saving EXCEPT ![p] = Len(saves) + 1]
      /\ pc' = [pc EXCEPT ![p] = "create"] /\ pc[p] = "idle"
      /\ UNCHANGED <<disk, offset, mixed>>
  BY LenProperties DEF Close, FileInv, TypeOK
<1>2. /\ new \in Save /\ new.force = force /\ new.algorithm = algorithm
      /\ new.password = password /\ new.uuid = uuid
  BY DEF Save
<1> HIDE DEF new
<1>3. /\ saves' \in Seq(Save) /\ Len(saves') = Len(saves) + 1
      /\ \A i \in 1..Len(saves) : saves'[i] = saves[i]
      /\ saves'[Len(saves) + 1] = new
  BY <1>1, <1>2, AppendProperties DEF FileInv, TypeOK
<1>4. \A i \in 1..Len(saves) : i \in 1..Len(saves') /\ Image(i)' = Image(i)
  <2>1. \A i \in 1..Len(saves) : Image(i)' = Image(i)
    BY <1>3 DEF Image, Payload
  <2>2. QED
    BY <1>1, <1>3, <2>1
<1>5. \A q \in Process : q # p => pc'[q] = pc[q] /\ saving'[q] = saving[q]
  BY <1>1 DEF FileInv, TypeOK
<1>6. pc'[p] = "create" /\ saving'[p] = Len(saves) + 1
  BY <1>1 DEF FileInv, TypeOK
<1>7. TypeOK'
  <2>1. Len(saves') <= MaxSaves
    BY <1>1, <1>3, FileAssumption
  <2>2. /\ pc' \in [Process -> {"idle", "create", "write"}]
        /\ saving' \in [Process -> 0..Len(saves')]
    BY <1>1, <1>3 DEF FileInv, TypeOK
  <2>3. \A q \in Process : pc'[q] # "idle" => saving'[q] # 0
    BY <1>1, <1>5, <1>6 DEF FileInv, TypeOK
  <2>4. ASSUME NEW q \in Process, pc'[q] = "write"
        PROVE  offset'[q] \in 0..Len(Image(saving[q])')
    <3>1. q # p /\ pc[q] = "write" /\ saving'[q] = saving[q]
      BY <1>5, <1>6, <2>4
    <3>2. Image(saving[q])' = Image(saving[q])
      BY <1>4, <3>1, SavingIs DEF FileInv, Image, Payload
    <3>3. QED
      BY <1>1, <3>1, <3>2 DEF FileInv, TypeOK
  <2>5. QED
    BY <1>1, <1>3, <2>1, <2>2, <2>3, <2>4 DEF FileInv, TypeOK
<1>8. CellsAreKnown' /\ UnmixedFollows'
  BY <1>1, <1>4 DEF FileInv, CellsAreKnown, Made, UnmixedFollows
<1>9. WritersTruncate'
  BY <1>1, <1>5, <1>6 DEF FileInv, WritersTruncate
<1>10. ForcedOverForeign'
  <2> SUFFICES ASSUME disk \in Foreign, NEW q \in Process, pc'[q] = "create"
               PROVE  saves'[saving'[q]].force
    BY <1>1 DEF ForcedOverForeign
  <2>1. CASE q = p
    BY <1>2, <1>3, <1>6, <2>1
  <2>2. CASE q # p
    BY <1>3, <1>5, <2>2, SavingIs DEF FileInv, ForcedOverForeign
  <2>3. QED
    BY <2>1, <2>2
<1>11. SealedIsNamed'
  <2> SUFFICES ASSUME NEW i \in 1..Len(saves'), saves'[i].algorithm = Aes
               PROVE  \E j \in 1..Len(saves') : /\ saves'[j].algorithm = Aes
                                                /\ saves'[j].password = saves'[i].password
                                                /\ saves'[j].uuid # 0
    BY DEF SealedIsNamed
  <2>1. CASE i \in 1..Len(saves)
    BY <1>3, <1>4, <2>1 DEF FileInv, SealedIsNamed
  <2>2. CASE i = Len(saves) + 1
    BY <1>2, <1>3, <1>4, <2>2
  <2>3. QED
    BY <1>1, <1>3, <2>1, <2>2
<1>12. QED
  BY <1>7, <1>8, <1>9, <1>10, <1>11 DEF FileInv

\* A shrine that opens has a password that was saved, and its metadata.
LEMMA OpensIs ==
    ASSUME FileInv, NEW password \in Passwords, Opens(disk, password)
    PROVE  /\ password \in Nat /\ Uuid(disk) \in Nat /\ Algorithm(disk) \in {Aes, Plain}
           /\ disk \notin Foreign
           /\ Algorithm(disk) = Aes =>
                 \E j \in 1..Len(saves) : /\ saves[j].algorithm = Aes
                                          /\ saves[j].password = password
                                          /\ saves[j].uuid # 0
<1>1. IsClosed(disk)
  BY DEF Opens
<1>2. password \in Nat
  BY ImageIs DEF FileInv, Passwords, Save
<1>3. Algorithm(disk) = Aes => Decrypt(PayloadOf(disk), password)
  BY DEF Opens
<1>4. QED
  BY <1>1, <1>2, <1>3, MetadataIs, ForeignIs DEF FileInv, Decrypt, SealedIsNamed

LEMMA StartKeepsInv ==
    ASSUME FileInv, NEW p \in Process, NEW size \in Size, NEW algorithm \in {Aes, Plain},
           NEW flag \in BOOLEAN,
           Init_(p, algorithm, size, flag) \/ Convert(p, algorithm, size, flag) \/ Edit(p, size)
    PROVE  FileInv'
<1>1. NewUuid \in Nat /\ NewUuid # 0 /\ NewPassword(algorithm) \in Nat
  BY LenProperties DEF NewUuid, NewPassword, FileInv, TypeOK
<1>2. CASE Init_(p, algorithm, size, flag)
  BY <1>1, <1>2, ForeignIs, CloseKeepsInv DEF Init_
<1>3. CASE Convert(p, algorithm, size, flag)
  <2>1. PICK password \in Passwords :
          /\ Opens(disk, password)
          /\ Close(p, NewUuid, algorithm,
                   IF flag THEN password ELSE NewPassword(algorithm), size, FALSE)
    BY <1>3 DEF Convert
  <2>2. /\ (IF flag THEN password ELSE NewPassword(algorithm)) \in Nat
        /\ disk \notin Foreign
    BY <1>1, <2>1, OpensIs
  <2>3. QED
    BY <1>1, <2>1, <2>2, CloseKeepsInv
<1>4. CASE Edit(p, size)
  <2>1. PICK password \in Passwords :
          /\ Opens(disk, password)
          /\ Close(p, Uuid(disk), Algorithm(disk), password, size, FALSE)
    BY <1>4 DEF Edit
  <2>2. QED
    BY <2>1, OpensIs, CloseKeepsInv
<1>5. QED
  BY <1>2, <1>3, <1>4

LEMMA CreateKeepsInv ==
    ASSUME FileInv, NEW p \in Process, Create(p)
    PROVE  FileInv'
<1>1. /\ disk' = <<>> /\ pc[p] = "create" /\ pc' = [pc EXCEPT ![p] = "write"]
      /\ offset' = [offset EXCEPT ![p] = 0] /\ UNCHANGED <<saves, saving, mixed>>
  BY DEF Create
<1>2. saving[p] \in 1..Len(saves)
  BY <1>1, SavingIs DEF FileInv
<1>3. \A i : Image(i)' = Image(i)
  BY <1>1, ImageStays
<1>4. disk' \in Seq(Cell) /\ Len(disk') = 0 /\ disk' # NoFile /\ disk' \notin Foreign
  BY <1>1, EmptySeq, ForeignIs, FileAssumption
<1>5. TypeOK'
  <2>1. Len(Image(saving[p])) \in Nat
    BY <1>2, ImageIs, LenProperties DEF FileInv
  <2>2. \A q \in Process : pc'[q] = "write" => offset'[q] \in 0..Len(Image(saving[q]))
    BY <1>1, <2>1 DEF FileInv, TypeOK
  <2>3. /\ pc' \in [Process -> {"idle", "create", "write"}]
        /\ offset' \in [Process -> Nat]
        /\ \A q \in Process : pc'[q] # "idle" => saving[q] # 0
    BY <1>1 DEF FileInv, TypeOK
  <2>4. \A q \in Process : Image(saving[q])' = Image(saving[q])
    BY <1>1 DEF Image, Payload
  <2>5. QED
    BY <1>1, <1>4, <2>2, <2>3, <2>4 DEF FileInv, TypeOK
<1>6. CellsAreKnown' /\ WritersTruncate' /\ ForcedOverForeign'
  BY <1>4 DEF CellsAreKnown, Made, WritersTruncate, ForcedOverForeign
<1>7. SealedIsNamed'
  BY <1>1 DEF FileInv, SealedIsNamed
<1>8. UnmixedFollows'
  BY <1>1, <1>2, <1>4 DEF UnmixedFollows, Follows
<1>9. QED
  BY <1>5, <1>6, <1>7, <1>8 DEF FileInv

\* What a write of the cells of an image leaves of a file.
Laid(o, d, image, at, upto) ==
    /\ o \in Seq(Cell)
    /\ Len(o) = IF upto > Len(d) THEN upto ELSE Len(d)
    /\ \A n \in 1..Len(o) :
          o[n] = IF n \in (at + 1)..upto THEN image[n]
                 ELSE IF n <= Len(d) THEN d[n] ELSE Hole(n)

LEMMA OverlayIs ==
    ASSUME NEW d \in Seq(Cell), NEW image \in Seq(Cell), NEW at \in Nat,
           NEW upto \in (at + 1)..Len(image)
    PROVE  Laid(Overlay(d, at, SubSeq(image, at + 1, upto)), d, image, at, upto)
<1> DEFINE cells == SubSeq(image, at + 1, upto)
           len == IF upto > Len(d) THEN upto ELSE Len(d)
           o == Overlay(d, at, SubSeq(image, at + 1, upto))
<1>1. Len(d) \in Nat /\ Len(image) \in Nat /\ upto \in Nat /\ len \in Nat
  BY LenProperties
<1>2. /\ Len(cells) = upto - at
      /\ \A n \in (at + 1)..upto : cells[n - at] = image[n]
  <2>1. \A n \in (at + 1)..upto : image[n] \in Cell
    BY <1>1, ElementOfSeq
  <2>2. /\ Len(cells) = upto - at
        /\ \A i \in 1..(upto - at) : cells[i] = image[at + i]
    BY <1>1, <2>1, SubSeqProperties
  <2>3. QED
    BY <1>1, <2>2
<1>3. o = [n \in 1..(IF at + Len(cells) > Len(d) THEN at + Len(cells) ELSE Len(d)) |->
              IF n \in (at + 1)..(at + Len(cells)) THEN cells[n - at]
              ELSE IF n <= Len(d) THEN d[n] ELSE Hole(n)]
  BY DEF Overlay
<1>4. at + Len(cells) = upto
  BY <1>1, <1>2
<1> HIDE DEF cells, o
<1>5. o = [n \in 1..len |-> IF n \in (at + 1)..upto THEN cells[n - at]
                            ELSE IF n <= Len(d) THEN d[n] ELSE Hole(n)]
  BY <1>3, <1>4
<1> HIDE DEF len
<1>6. \A n \in 1..len : o[n] = IF n \in (at + 1)..upto THEN image[n]
                               ELSE IF n <= Len(d) THEN d[n] ELSE Hole(n)
  BY <1>2, <1>5
<1>7. \A n \in 1..len : o[n] \in Cell
  <2> SUFFICES ASSUME NEW n \in 1..len PROVE o[n] \in Cell
    OBVIOUS
  <2>1. CASE n \in (at + 1)..upto
    <3>1. n \in 1..Len(image)
      BY <1>1, <2>1
    <3>2. QED
      BY <1>6, <2>1, <3>1, ElementOfSeq
  <2>2. CASE n \notin (at + 1)..upto /\ n <= Len(d)
    <3>1. n \in 1..Len(d)
      BY <1>1, <2>2
    <3>2. QED
      BY <1>6, <2>2, <3>1, ElementOfSeq
  <2>3. CASE n \notin (at + 1)..upto /\ ~(n <= Len(d))
    <3>1. Hole(n) \in Cell
      BY <1>1, CellsAre
    <3>2. QED
      BY <1>6, <2>3, <3>1
  <2>4. QED
    BY <2>1, <2>2, <2>3
<1>8. o \in [1..len -> Cell]
  BY <1>5, <1>7
<1>9. o \in Seq(Cell) /\ Len(o) = len
  BY <1>1, <1>8, LenProperties
<1>10. QED
  BY <1>6, <1>9 DEF len, o, Laid

\* What WriteAll does to the file.
LEMMA WriteIs ==
    ASSUME FileInv, NEW p \in Process, NEW upto \in Nat, WriteAll(p, upto)
    PROVE  LET i == saving[p]
               at == offset[p]
           IN  /\ i \in 1..Len(saves) /\ saves' = saves
               /\ at \in Nat /\ upto \in (at + 1)..Len(Image(i))
               /\ disk \in Seq(Cell) /\ Len(disk) \in Nat /\ Len(Image(i)) \in Nat
               /\ Laid(disk', disk, Image(i), at, upto)
<1> DEFINE i == saving[p]
           at == offset[p]
<1>1. /\ pc[p] = "write" /\ upto > at /\ upto <= Len(Image(i)) /\ saves' = saves
      /\ disk' = Overlay(disk, at, SubSeq(Image(i), at + 1, upto))
  BY DEF WriteAll
<1>2. i \in 1..Len(saves)
  BY <1>1, SavingIs DEF FileInv
<1>3. Image(i) \in Seq(Cell)
  BY <1>2, ImageIs DEF FileInv
<1>4. disk \in Seq(Cell) /\ at \in Nat
  BY <1>1 DEF FileInv, TypeOK, WritersTruncate
<1>5. Len(disk) \in Nat /\ Len(Image(i)) \in Nat
  BY <1>3, <1>4, LenProperties
<1> HIDE DEF i, at
<1>6. upto \in (at + 1)..Len(Image(i))
  BY <1>1, <1>4, <1>5
<1>7. Laid(disk', disk, Image(i), at, upto)
  BY <1>1, <1>3, <1>4, <1>6, OverlayIs
<1>8. QED
  BY <1>1, <1>2, <1>4, <1>5, <1>6, <1>7 DEF i, at

\* A write that mixes nothing lays a whole image over the file, or continues
\* the part of an image that is all there is.
LEMMA UnmixedWrite ==
    ASSUME FileInv, NEW p \in Process, NEW upto \in Nat, WriteAll(p, upto), ~mixed'
    PROVE  /\ ~mixed
           /\ Follows(disk', Image(saving[p]))
           /\ \/ offset[p] = 0 /\ upto = Len(Image(saving[p]))
              \/ Len(disk) = offset[p] /\ disk = SubSeq(Image(saving[p]), 1, offset[p])
<1> DEFINE i == saving[p]
           at == offset[p]
<1>1. /\ at \in Nat /\ upto \in (at + 1)..Len(Image(i)) /\ Len(Image(i)) \in Nat
      /\ Len(disk) \in Nat /\ Laid(disk', disk, Image(i), at, upto)
      /\ i \in 1..Len(saves) /\ Image(i) \in Seq(Cell)
  BY WriteIs, ImageIs DEF FileInv
<1>2. ~mixed /\ ~Mixes(p, upto)
  BY DEF WriteAll, FileInv, TypeOK
<1>3. \/ at = 0 /\ upto = Len(Image(i))
      \/ disk = SubSeq(Image(i), 1, at)
  BY <1>2 DEF Mixes
<1> HIDE DEF i, at
<1>4. CASE at = 0 /\ upto = Len(Image(i))
  <2>1. Follows(disk', Image(i))
    <3>1. ASSUME NEW n \in 1..Len(disk'), n <= Len(Image(i))
          PROVE  disk'[n] = Image(i)[n]
      <4>1. n \in (at + 1)..upto
        BY <1>1, <1>4, <3>1 DEF Laid
      <4>2. QED
        BY <1>1, <4>1 DEF Laid
    <3>2. QED
      BY <3>1 DEF Follows
  <2>2. QED
    BY <1>2, <1>4, <2>1 DEF i, at
<1>5. CASE disk = SubSeq(Image(i), 1, at)
  <2>1. \A n \in 1..at : Image(i)[n] \in Cell
    <3>1. \A n \in 1..at : n \in 1..Len(Image(i))
      BY <1>1
    <3>2. QED
      BY <1>1, <3>1, ElementOfSeq
  <2>2. Len(disk) = at /\ \A n \in 1..at : disk[n] = Image(i)[n]
    BY <1>1, <1>5, <2>1, SubSeqProperties
  <2>3. Len(disk') = upto
    BY <1>1, <2>2 DEF Laid
  <2>4. Follows(disk', Image(i))
    <3>1. ASSUME NEW n \in 1..Len(disk')
          PROVE  disk'[n] = Image(i)[n]
      <4>1. n \in (at + 1)..upto \/ (n \notin (at + 1)..upto /\ n \in 1..at)
        BY <1>1, <2>3
      <4>2. CASE n \in (at + 1)..upto
        BY <1>1, <4>2 DEF Laid
      <4>3. CASE n \notin (at + 1)..upto /\ n \in 1..at
        <5>1. n <= Len(disk)
          BY <1>1, <2>2, <4>3
        <5>2. disk'[n] = disk[n]
          BY <1>1, <4>3, <5>1 DEF Laid
        <5>3. QED
          BY <2>2, <4>3, <5>2
      <4>4. QED
        BY <4>1, <4>2, <4>3
    <3>2. QED
      BY <3>1 DEF Follows
  <2>5. QED
    BY <1>2, <1>5, <2>2, <2>4 DEF i, at
<1>6. QED
  BY <1>3, <1>4, <1>5

\* What leaving does to the types.
LEMMA LeaveType ==
    ASSUME FileInv, NEW p \in Process, Leave(p), saves' = saves
    PROVE  /\ pc' \in [Process -> {"idle", "create", "write"}]
           /\ saving' \in [Process -> 0..Len(saves')]
           /\ offset' \in [Process -> Nat]
           /\ pc'[p] = "idle"
           /\ \A q \in Process \ {p} :
                 pc'[q] = pc[q] /\ saving'[q] = saving[q] /\ offset'[q] = offset[q]
<1>1. Len(saves) \in Nat
  BY LenProperties DEF FileInv, TypeOK
<1>2. QED
  BY <1>1 DEF Leave, FileInv, TypeOK

LEMMA WriteKeepsInv ==
    ASSUME FileInv, NEW p \in Process, NEW upto \in Nat, WriteAll(p, upto)
    PROVE  FileInv'
<1> DEFINE i == saving[p]
           at == offset[p]
<1>1. /\ i \in 1..Len(saves) /\ saves' = saves
      /\ at \in Nat /\ upto \in (at + 1)..Len(Image(i)) /\ Len(Image(i)) \in Nat
      /\ disk \in Seq(Cell) /\ Len(disk) \in Nat
      /\ Laid(disk', disk, Image(i), at, upto)
  BY WriteIs
<1>2. /\ pc[p] = "write"
      /\ \/ upto = Len(Image(i)) /\ Leave(p)
         \/ offset' = [offset EXCEPT ![p] = upto] /\ UNCHANGED <<pc, saving>>
  BY DEF WriteAll
<1>3. \A j : Image(j)' = Image(j)
  BY <1>1 DEF Image, Payload
<1>4. disk' \in Seq(Cell) /\ disk' # NoFile
  BY <1>1, FileAssumption DEF Laid
<1>5. /\ pc' \in [Process -> {"idle", "create", "write"}]
      /\ saving' \in [Process -> 0..Len(saves')]
      /\ offset' \in [Process -> Nat]
      /\ \A q \in Process : pc'[q] # "idle" => pc'[q] = pc[q] /\ saving'[q] = saving[q]
      /\ \A q \in Process : pc'[q] = "write" =>
            offset'[q] = offset[q] \/ (q = p /\ offset'[q] = upto)
  <2>1. CASE Leave(p)
    BY <1>1, <2>1, LeaveType
  <2>2. CASE offset' = [offset EXCEPT ![p] = upto] /\ UNCHANGED <<pc, saving>>
    BY <1>1, <2>2 DEF FileInv, TypeOK
  <2>3. QED
    BY <1>2, <2>1, <2>2
<1>6. mixed' \in BOOLEAN
  BY DEF WriteAll, FileInv, TypeOK
<1>7. TypeOK'
  <2>1. ASSUME NEW q \in Process, pc'[q] = "write"
        PROVE  offset'[q] \in 0..Len(Image(saving[q])')
    <3>1. pc[q] = "write" /\ saving'[q] = saving[q]
      BY <1>5, <2>1
    <3>2. Image(saving[q])' = Image(saving[q])
      BY <1>1, <3>1 DEF Image, Payload
    <3>3. offset[q] \in 0..Len(Image(saving[q]))
      BY <3>1 DEF FileInv, TypeOK
    <3>4. q = p => upto \in 0..Len(Image(saving[q]))
      BY <1>1
    <3>5. QED
      BY <1>5, <2>1, <3>2, <3>3, <3>4
  <2>2. \A q \in Process : pc'[q] # "idle" => saving'[q] # 0
    BY <1>5 DEF FileInv, TypeOK
  <2>3. QED
    BY <1>1, <1>4, <1>5, <1>6, <2>1, <2>2 DEF FileInv, TypeOK
<1>8. Made'
  <2>1. Made
    BY <1>2 DEF FileInv, CellsAreKnown, WritersTruncate
  <2> SUFFICES ASSUME NEW n \in 1..Len(disk')
               PROVE  \/ disk'[n] = Hole(n)
                      \/ \E j \in 1..Len(saves) :
                            n <= Len(Image(j)) /\ disk'[n] = Image(j)[n]
    BY <1>1, <1>3 DEF Made
  <2>2. CASE n \in (at + 1)..upto
    <3>1. n <= Len(Image(i)) /\ disk'[n] = Image(i)[n]
      BY <1>1, <2>2 DEF Laid
    <3>2. QED
      BY <1>1, <3>1
  <2>3. CASE n \notin (at + 1)..upto /\ n <= Len(disk)
    <3>1. disk'[n] = disk[n]
      BY <1>1, <2>3 DEF Laid
    <3>2. n \in 1..Len(disk)
      BY <1>1, <2>3
    <3>3. QED
      BY <2>1, <3>1, <3>2 DEF Made
  <2>4. CASE n \notin (at + 1)..upto /\ ~(n <= Len(disk))
    BY <1>1, <2>4 DEF Laid
  <2>5. QED
    BY <2>2, <2>3, <2>4
<1>9. disk' \notin Foreign
  BY <1>7, <1>8, MadeNext
<1>10. CellsAreKnown' /\ WritersTruncate' /\ ForcedOverForeign'
  BY <1>4, <1>8, <1>9 DEF CellsAreKnown, WritersTruncate, ForcedOverForeign
<1>11. SealedIsNamed'
  BY <1>1 DEF FileInv, SealedIsNamed
<1>12. UnmixedFollows'
  <2> SUFFICES ASSUME ~mixed' PROVE \E j \in 1..Len(saves) : Follows(disk', Image(j))
    BY <1>1, <1>3 DEF UnmixedFollows
  <2>1. QED
    BY <1>1, UnmixedWrite
<1>13. QED
  BY <1>7, <1>10, <1>11, <1>12 DEF FileInv

LEMMA StopKeepsInv ==
    ASSUME FileInv, NEW p \in Process, Stop(p)
    PROVE  FileInv'
<1>1. Leave(p) /\ UNCHANGED <<disk, saves, mixed>>
  BY DEF Stop
<1>2. \A q \in Process : Image(saving[q])' = Image(saving'[q])
  BY <1>1 DEF Image, Payload
<1>3. \A j : Image(j)' = Image(j)
  BY <1>1 DEF Image, Payload
<1>4. TypeOK'
  <2>1. \A q \in Process : pc'[q] = "write" => offset'[q] \in 0..Len(Image(saving'[q]))
    BY <1>1, LeaveType DEF FileInv, TypeOK
  <2>2. \A q \in Process : pc'[q] # "idle" => saving'[q] # 0
    BY <1>1, LeaveType DEF FileInv, TypeOK
  <2>3. QED
    BY <1>1, <1>2, <2>1, <2>2, LeaveType DEF FileInv, TypeOK
<1>5. CellsAreKnown' /\ UnmixedFollows'
  BY <1>1, <1>3 DEF FileInv, CellsAreKnown, Made, UnmixedFollows
<1>6. WritersTruncate' /\ ForcedOverForeign'
  BY <1>1, LeaveType DEF FileInv, WritersTruncate, ForcedOverForeign
<1>7. SealedIsNamed'
  BY <1>1 DEF FileInv, SealedIsNamed
<1>8. QED
  BY <1>4, <1>5, <1>6, <1>7 DEF FileInv

LEMMA NextFileInv == FileInv /\ [Next]_vars => FileInv'
<1>1. ASSUME FileInv, Next
      PROVE  FileInv'
  <2>1. PICK p \in Process :
          \/ \E algorithm \in {Aes, Plain}, size \in Size :
                \E flag \in BOOLEAN :
                   Init_(p, algorithm, size, flag) \/ Convert(p, algorithm, size, flag)
          \/ \E size \in Size : Edit(p, size)
          \/ Create(p)
          \/ pc[p] = "write" /\ \E upto \in Cut \cup {Len(Image(saving[p]))} : WriteAll(p, upto)
          \/ Stop(p)
    BY <1>1 DEF Next
  <2>2. CASE \E algorithm \in {Aes, Plain}, size \in Size :
                \E flag \in BOOLEAN :
                   Init_(p, algorithm, size, flag) \/ Convert(p, algorithm, size, flag)
    BY <1>1, <2>2, StartKeepsInv
  <2>3. CASE \E size \in Size : Edit(p, size)
    BY <1>1, <2>3, StartKeepsInv
  <2>4. CASE pc[p] = "write" /\ \E upto \in Cut \cup {Len(Image(saving[p]))} : WriteAll(p, upto)
    <3>1. saving[p] \in 1..Len(saves)
      BY <1>1, <2>4, SavingIs DEF FileInv
    <3>2. Len(Image(saving[p])) \in Nat
      BY <1>1, <3>1, ImageIs, LenProperties DEF FileInv
    <3>3. Cut \cup {Len(Image(saving[p]))} \subseteq Nat
      BY <3>2, FileAssumption
    <3>4. QED
      BY <1>1, <2>4, <3>3, WriteKeepsInv
  <2>5. QED
    BY <1>1, <2>1, <2>2, <2>3, <2>4, CreateKeepsInv, StopKeepsInv
<1>2. ASSUME FileInv, UNCHANGED vars
      PROVE  FileInv'
  <2>1. UNCHANGED <<disk, saves, pc, saving, offset, mixed>>
    BY <1>2 DEF vars
  <2>2. \A j : Image(j)' = Image(j)
    BY <2>1 DEF Image, Payload
  <2>3. TypeOK'
    <3>1. \A q \in Process : Image(saving[q])' = Image(saving[q])
      BY <2>1 DEF Image, Payload
    <3>2. QED
      BY <1>2, <2>1, <3>1 DEF FileInv, TypeOK
  <2>4. QED
    BY <1>2, <2>1, <2>2, <2>3
       DEF FileInv, CellsAreKnown, Made, WritersTruncate, ForcedOverForeign, SealedIsNamed,
           UnmixedFollows
<1>3. QED
  BY <1>1, <1>2

LEMMA FileInvHolds == Spec => []FileInv
BY InitFileInv, NextFileInv, PTL DEF Spec

-----------------------------------------------------------------------------
(* The results.                                                            *)

\* The state keeps its types: also the metadata that a set or convert takes
\* from a file that was pieced together.
THEOREM TypeCorrect == Spec => []TypeOK
<1>1. FileInv => TypeOK
  BY DEF FileInv
<1>2. QED
  BY <1>1, FileInvHolds, PTL

\* The length in the file tells a part of an image, and one with a tail, from
\* the image.
LEMMA ClosedIsWhole ==
    ASSUME TypeOK, NEW i \in 1..Len(saves), NEW d \in Seq(Cell),
           Follows(d, Image(i)), IsClosed(d)
    PROVE  d = Image(i)
<1>1. /\ Len(d) \in Nat /\ Len(d) >= 6 /\ Len(d) = 6 + d[6][2]
  BY ClosedIs DEF HeaderLength
<1>2. /\ Image(i) \in Seq(Cell) /\ PayloadLength(saves[i]) \in Nat \ {0}
      /\ Len(Image(i)) = 6 + PayloadLength(saves[i])
      /\ Image(i)[6] = <<"length", PayloadLength(saves[i])>>
  BY ImageIs DEF HeaderLength
<1>3. d[6] = Image(i)[6]
  BY <1>1, <1>2 DEF Follows
<1>4. Len(d) = Len(Image(i))
  BY <1>1, <1>2, <1>3
<1>5. \A n \in 1..Len(d) : d[n] = Image(i)[n]
  BY <1>1, <1>4 DEF Follows
<1>6. QED
  BY <1>2, <1>4, <1>5, SeqEqual

\* Unless a save was cut or pieced over the bytes of another, a file taken for
\* a shrine is one that was saved, wherever writes stop and processes die.
THEOREM DamageIsNoticedHolds == Spec => []DamageIsNoticed
<1>1. FileInv => DamageIsNoticed
  <2> SUFFICES ASSUME FileInv, ~mixed, IsClosed(disk)
               PROVE  \E i \in 1..Len(saves) : disk = Image(i)
    BY DEF DamageIsNoticed
  <2>1. disk \in Seq(Cell) /\ disk # NoFile /\ disk \notin Foreign
    BY MetadataIs, ClosedIs, ForeignIs DEF FileInv
  <2>2. PICK i \in 1..Len(saves) : Follows(disk, Image(i))
    BY <2>1 DEF FileInv, UnmixedFollows
  <2>3. QED
    BY <2>1, <2>2, ClosedIsWhole DEF FileInv
<1>2. QED
  BY <1>1, FileInvHolds, PTL

\* However the bytes of saves were mixed: an encrypted file that opens with the
\* password of the uuid it carries was saved as it is, metadata and all.
THEOREM SealedMeansSavedHolds == Spec => []SealedMeansSaved
<1>1. FileInv => SealedMeansSaved
  <2> DEFINE sealed == {i \in 1..Len(saves) : saves[i].algorithm = Aes}
             apart == \A i, j \in sealed :
                         saves[i].password = saves[j].password => saves[i].uuid = saves[j].uuid
  <2> SUFFICES ASSUME FileInv, apart, IsClosed(disk), Algorithm(disk) = Aes,
                      NEW i \in sealed, saves[i].uuid = Uuid(disk),
                      Opens(disk, saves[i].password)
               PROVE  \E j \in sealed : disk = Image(j) /\ saves[j].password = saves[i].password
    BY DEF SealedMeansSaved
  <2>1. PICK j \in 1..Len(saves) : /\ saves[j].algorithm = Aes
                                   /\ saves[j].password = saves[i].password
                                   /\ PayloadOf(disk) = Payload(j)
    BY DEF Opens, Decrypt
  <2>2. j \in sealed /\ saves[j].uuid = Uuid(disk)
    BY <2>1
  <2>3. Uuid(disk) # 0
    <3>1. PICK k \in 1..Len(saves) : /\ saves[k].algorithm = Aes
                                     /\ saves[k].password = saves[i].password
                                     /\ saves[k].uuid # 0
      BY DEF FileInv, SealedIsNamed
    <3>2. QED
      BY <3>1
  <2> DEFINE length == PayloadLength(saves[j])
  <2>4. /\ disk \in Seq(Cell) /\ Len(disk) \in Nat
        /\ disk[6][2] \in Nat /\ Len(disk) = 6 + disk[6][2]
        /\ disk[6][2] # 0 => disk[6] = <<"length", disk[6][2]>>
    BY MetadataIs, ClosedIs DEF FileInv, HeaderLength
  <2>5. /\ disk[1] = <<"magic", 1>> /\ disk[2] = <<"magic", 2>>
        /\ disk[3] = <<"version", VERSION>> /\ disk[4] = <<"uuid", saves[j].uuid>>
        /\ disk[5] = <<"algorithm", Aes>>
    BY <2>2, <2>3, <2>4, MetadataIs, ClosedIs DEF FileInv
  <2>6. /\ length \in Nat \ {0} /\ Len(Payload(j)) = length
        /\ Image(j) \in Seq(Cell) /\ Len(Image(j)) = 6 + length
    BY ImageIs DEF FileInv, HeaderLength
  <2>7. /\ Len(PayloadOf(disk)) = disk[6][2]
        /\ \A n \in 1..disk[6][2] : PayloadOf(disk)[n] = disk[6 + n]
    <3>1. \A n \in 7..Len(disk) : disk[n] \in Cell
      BY <2>4, ElementOfSeq
    <3>2. PayloadOf(disk) = SubSeq(disk, 7, Len(disk))
      BY DEF PayloadOf, HeaderLength
    <3>3. /\ Len(SubSeq(disk, 7, Len(disk)))
               = IF 7 <= Len(disk) THEN Len(disk) - 7 + 1 ELSE 0
          /\ \A n \in 1..(Len(disk) - 7 + 1) :
                SubSeq(disk, 7, Len(disk))[n] = disk[7 + n - 1]
      <4>1. 7 \in Int /\ Len(disk) \in Int
        BY <2>4
      <4>2. QED
        BY <3>1, <4>1, SubSeqProperties
    <3>4. Len(disk) - 7 + 1 = disk[6][2]
      BY <2>4
    <3>5. \A n \in 1..disk[6][2] : 7 + n - 1 = 6 + n
      BY <2>4
    <3>6. Len(PayloadOf(disk)) = disk[6][2]
      <4>1. disk[6][2] = IF 7 <= Len(disk) THEN Len(disk) - 7 + 1 ELSE 0
        BY <2>4
      <4>2. Len(PayloadOf(disk)) = Len(SubSeq(disk, 7, Len(disk)))
        BY <3>2
      <4>3. QED
        BY <3>3, <4>1, <4>2, Zenon
    <3>7. \A n \in 1..disk[6][2] : PayloadOf(disk)[n] = disk[7 + n - 1]
      BY <3>2, <3>3, <3>4
    <3>8. QED
      BY <3>5, <3>6, <3>7
  <2>8. disk[6][2] = length
    BY <2>1, <2>6, <2>7
  <2>9. disk[6] = <<"length", length>>
    BY <2>4, <2>6, <2>8
  <2>10. \A n \in 1..length : disk[6 + n] = Payload(j)[n] /\ Image(j)[6 + n] = Payload(j)[n]
    BY <2>1, <2>7, <2>8, ImageIs DEF FileInv, HeaderLength
  <2>11. /\ Image(j)[1] = disk[1] /\ Image(j)[2] = disk[2] /\ Image(j)[3] = disk[3]
         /\ Image(j)[4] = disk[4] /\ Image(j)[5] = disk[5] /\ Image(j)[6] = disk[6]
    BY <2>1, <2>5, <2>9, ImageIs DEF FileInv
  <2> HIDE DEF length
  <2>12. Len(disk) = Len(Image(j)) /\ \A n \in 1..Len(disk) : disk[n] = Image(j)[n]
    <3>1. Len(disk) = 6 + length
      BY <2>4, <2>8
    <3>2. ASSUME NEW n \in 1..Len(disk)
          PROVE  disk[n] = Image(j)[n]
      <4>1. n \in 1..6 \/ \E m \in 1..length : n = 6 + m
        <5>1. n > 6 => n - 6 \in 1..length /\ n = 6 + (n - 6)
          BY <2>6, <3>1
        <5>2. n \in 1..6 \/ n > 6
          BY <2>4
        <5>3. QED
          BY <5>1, <5>2
      <4>2. CASE n \in 1..6
        <5>1. n = 1 \/ n = 2 \/ n = 3 \/ n = 4 \/ n = 5 \/ n = 6
          BY <4>2
        <5>2. QED
          BY <2>11, <5>1
      <4>3. CASE \E m \in 1..length : n = 6 + m
        BY <2>10, <4>3
      <4>4. QED
        BY <4>1, <4>2, <4>3
    <3>3. QED
      BY <2>6, <3>1, <3>2
  <2>13. disk = Image(j)
    BY <2>4, <2>6, <2>12, SeqEqual
  <2>14. QED
    BY <2>1, <2>2, <2>13
<1>2. QED
  BY <1>1, FileInvHolds, PTL

\* Only an init --force replaces what the program did not write.
THEOREM ForeignIsKeptHolds == Spec => ForeignIsKept
<1>1. ASSUME FileInv, Next, disk \in Foreign, disk' # disk
      PROVE  \E p \in Process : Create(p) /\ saves[saving[p]].force
  <2>1. PICK p \in Process : Create(p) \/ \E upto : WriteAll(p, upto)
    BY <1>1 DEF Next, Init_, Convert, Edit, Close, Stop
  <2>2. CASE Create(p)
    BY <1>1, <2>2 DEF Create, FileInv, ForcedOverForeign
  <2>3. CASE \E upto : WriteAll(p, upto)
    BY <1>1, <2>3 DEF WriteAll, FileInv, WritersTruncate
  <2>4. QED
    BY <2>1, <2>2, <2>3
<1>2. FileInv /\ [Next]_vars =>
        [(disk \in Foreign /\ disk' # disk)
           => (\E p \in Process : Create(p) /\ saves[saving[p]].force)]_vars
  BY <1>1
<1>3. QED
  BY <1>2, FileInvHolds, PTL DEF Spec, ForeignIsKept

\* A step that mixes no saves truncates the file, puts a whole shrine there, or
\* tears it, and it tears it only if it is cut, or meets a file that is not
\* empty: the steps that Vault is made of.
THEOREM StepsOfVaultHolds == Spec => StepsOfVault
<1> DEFINE Step(p) ==
              /\ pc[p] = "write"
              /\ \/ disk' = Image(saving[p]) /\ Content(disk') = "whole"
                 \/ /\ Content(disk') = "torn"
                    /\ pc'[p] = "write" \/ disk # SubSeq(Image(saving[p]), 1, offset[p])
<1>1. ASSUME FileInv, NEW p \in Process, NEW upto \in Nat, WriteAll(p, upto), ~mixed'
      PROVE  Step(p)
  <2> DEFINE i == saving[p]
             at == offset[p]
  <2>1. /\ i \in 1..Len(saves) /\ at \in Nat /\ upto \in (at + 1)..Len(Image(i))
        /\ Len(disk) \in Nat /\ Len(Image(i)) \in Nat
        /\ disk' \in Seq(Cell)
        /\ Len(disk') = IF upto > Len(disk) THEN upto ELSE Len(disk)
        /\ Follows(disk', Image(i))
        /\ \/ at = 0 /\ upto = Len(Image(i))
           \/ Len(disk) = at /\ disk = SubSeq(Image(i), 1, at)
    BY <1>1, WriteIs, UnmixedWrite DEF Laid
  <2>2. Image(i) \in Seq(Cell) /\ IsClosed(Image(i))
    BY <1>1, <2>1, ImageIs, ImageIsClosed DEF FileInv
  <2>3. pc[p] = "write" /\ (upto # Len(Image(i)) => pc' = pc)
    BY <1>1 DEF WriteAll
  <2> HIDE DEF i, at
  <2>4. disk' # NoFile /\ disk' # <<>>
    BY <2>1, FileAssumption, EmptySeq
  <2>5. ASSUME Len(disk') = Len(Image(i))
        PROVE  disk' = Image(i) /\ Content(disk') = "whole"
    <3>1. \A n \in 1..Len(disk') : disk'[n] = Image(i)[n]
      BY <2>1, <2>5 DEF Follows
    <3>2. disk' = Image(i)
      BY <2>1, <2>2, <2>5, <3>1, SeqEqual
    <3>3. QED
      BY <2>2, <2>4, <3>2 DEF Content
  <2>6. ASSUME Len(disk') # Len(Image(i))
        PROVE  Content(disk') = "torn"
    <3>1. ~IsClosed(disk')
      BY <1>1, <2>1, <2>6, ClosedIsWhole DEF FileInv
    <3>2. QED
      BY <2>4, <3>1 DEF Content
  <2>7. CASE Len(disk') = Len(Image(i))
    BY <2>3, <2>5, <2>7 DEF i
  <2>8. CASE Len(disk') # Len(Image(i)) /\ at = 0 /\ upto = Len(Image(i))
    <3>1. Len(disk) > 0
      BY <2>1, <2>8
    <3>2. SubSeq(Image(i), 1, at) = <<>>
      BY <2>8, SubSeqEmpty
    <3>3. disk # <<>>
      <4>1. Len(<<>>) = 0
        BY EmptySeq
      <4>2. QED
        BY <3>1, <4>1
    <3>4. disk # SubSeq(Image(i), 1, at)
      BY <3>2, <3>3
    <3>5. QED
      BY <2>3, <2>6, <2>8, <3>4 DEF i, at
  <2>9. CASE Len(disk') # Len(Image(i)) /\ Len(disk) = at
    <3>1. upto # Len(Image(i))
      BY <2>1, <2>9
    <3>2. QED
      BY <2>3, <2>6, <2>9, <3>1
  <2>10. QED
    BY <2>1, <2>7, <2>8, <2>9
<1>2. ASSUME FileInv, Next, ~mixed', disk' # disk
      PROVE  disk' = <<>> \/ \E p \in Process : Step(p)
  <2>1. PICK p \in Process :
           \/ Create(p)
           \/ pc[p] = "write" /\ \E upto \in Cut \cup {Len(Image(saving[p]))} : WriteAll(p, upto)
    BY <1>2 DEF Next, Init_, Convert, Edit, Close, Stop
  <2>2. CASE Create(p)
    BY <2>2 DEF Create
  <2>3. CASE pc[p] = "write" /\ \E upto \in Cut \cup {Len(Image(saving[p]))} : WriteAll(p, upto)
    <3>1. saving[p] \in 1..Len(saves)
      BY <1>2, <2>3, SavingIs DEF FileInv
    <3>2. Len(Image(saving[p])) \in Nat
      BY <1>2, <3>1, ImageIs, LenProperties DEF FileInv
    <3>3. PICK upto \in Nat : WriteAll(p, upto)
      BY <2>3, <3>2, FileAssumption
    <3>4. Step(p)
      BY <1>1, <1>2, <3>3
    <3>5. QED
      BY <3>4
  <2>4. QED
    BY <2>1, <2>2, <2>3
<1>3. FileInv /\ [Next]_vars =>
        [~mixed' /\ disk' # disk => disk' = <<>> \/ \E p \in Process : Step(p)]_vars
  BY <1>2
<1>4. QED
  BY <1>3, FileInvHolds, PTL DEF Spec, StepsOfVault
=============================================================================

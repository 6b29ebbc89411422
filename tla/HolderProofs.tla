---------------------------- MODULE HolderProofs ----------------------------
(***************************************************************************)
(* Proofs about Holder, for every set of segments, keys, values and modes. *)
(*                                                                         *)
(* TypeOK and TreeShape are inductive together; StoredIsReadable needs the *)
(* further fact that no stored key ends with a '/', which InsertResult     *)
(* sees to.  The action properties follow from the type invariant alone.   *)
(***************************************************************************)
EXTENDS Holder, SequenceTheorems, TLAPS

\* No secret is stored under a key that ends with a '/'.
NoTailStored == \A p \in DOMAIN secret : ~EmptyTail(p)

HolderInv == TypeOK /\ TreeShape /\ NoTailStored

-----------------------------------------------------------------------------
(* Paths.                                                                  *)

\* The path of depth d on the way to p has length d, and is over Segment.
LEMMA PrefixType ==
    ASSUME NEW p \in Seq(Segment), NEW d \in 0..Len(p)
    PROVE  /\ Prefix(p, d) \in Seq(Segment)
           /\ Len(Prefix(p, d)) = d
           /\ \A i \in 1..d : Prefix(p, d)[i] = p[i]
<1>1. Len(p) \in Nat /\ \A i \in 1..d : p[i] \in Segment
  BY LenProperties
<1>2. QED
  BY <1>1, SubSeqProperties DEF Prefix

\* A path on the way to a path on the way to p is on the way to p.
LEMMA PrefixOfPrefix ==
    ASSUME NEW p \in Seq(Segment), NEW d \in 0..Len(p), NEW c \in 0..d
    PROVE  Prefix(Prefix(p, d), c) = Prefix(p, c)
<1>1. Len(p) \in Nat
  BY LenProperties
<1>2. c \in 0..Len(p) /\ c \in 0..Len(Prefix(p, d))
  BY <1>1, PrefixType
<1>3. /\ Prefix(Prefix(p, d), c) \in Seq(Segment)
      /\ Prefix(p, c) \in Seq(Segment)
      /\ Len(Prefix(Prefix(p, d), c)) = c
      /\ Len(Prefix(p, c)) = c
  BY <1>2, PrefixType
<1>4. ASSUME NEW i \in 1..c
      PROVE  Prefix(Prefix(p, d), c)[i] = Prefix(p, c)[i]
  <2>1. Prefix(Prefix(p, d), c)[i] = Prefix(p, d)[i]
    BY <1>2, PrefixType
  <2>2. Prefix(p, d)[i] = p[i] /\ Prefix(p, c)[i] = p[i]
    BY <1>1, <1>2, PrefixType
  <2>3. QED
    BY <2>1, <2>2
<1>5. QED
  BY <1>3, <1>4, SeqEqual

\* A key is a non-empty path.
LEMMA KeyType ==
    ASSUME NEW key \in Key
    PROVE  key \in Seq(Segment) /\ Len(key) \in Nat \ {0}
BY KeyAssumption, LenProperties, EmptySeq

-----------------------------------------------------------------------------
(* The answers of set.                                                     *)

\* When Holder::set accepts a key that is not there, no secret is on the way
\* to it, it does not end with a '/', and no node has its path.
LEMMA InsertAccepted ==
    ASSUME NEW key \in Key, GetResult(key) = "KeyNotFound", InsertResult(key) = "Ok"
    PROVE  /\ \A d \in 1..(Len(key) - 1) : Prefix(key, d) \notin DOMAIN secret
           /\ ~EmptyTail(key)
           /\ key \notin Nodes
<1>1. ~Blocked(key) /\ ~EmptyTail(key) /\ key \notin index
  BY DEF InsertResult
<1>2. key \notin DOMAIN secret
  BY <1>1 DEF GetResult
<1>3. QED
  BY <1>1, <1>2 DEF Blocked, Reach, Nodes

\* When set_inner refuses an empty tail, no secret is on the way down to it.
LEMMA InsertEmptyKey ==
    ASSUME NEW key \in Key, InsertResult(key) = "EmptyKey"
    PROVE  /\ EmptyTail(key)
           /\ Reach(key) \in 0..Len(key)
           /\ \A d \in 1..Reach(key) : Prefix(key, d) \notin DOMAIN secret
<1>1. ~Blocked(key) /\ EmptyTail(key)
  BY DEF InsertResult
<1>2. QED
  BY <1>1, KeyType DEF Blocked, Reach, EmptyTail
-----------------------------------------------------------------------------
(* The store.                                                              *)

\* The empty store is well formed.
LEMMA InitHolderInv == Init => HolderInv
<1> SUFFICES ASSUME Init PROVE HolderInv
  OBVIOUS
<1>1. index = {<<>>} /\ private = {} /\ DOMAIN secret = {} /\ secret \in [{} -> Entry]
  BY DEF Init
<1>2. <<>> \in Seq(Segment) /\ Len(<<>>) = 0
  BY EmptySeq
<1>3. TypeOK
  BY <1>1, <1>2 DEF TypeOK
<1>4. TreeShape
  BY <1>1, <1>2 DEF TreeShape, Nodes
<1>5. QED
  BY <1>1, <1>3, <1>4 DEF HolderInv, NoTailStored

\* A descent along a key that meets no secret adds inner nodes only, and all
\* the inner nodes above them.
LEMMA DescentKeepsTree ==
    ASSUME HolderInv, NEW key \in Key, NEW r \in 0..Len(key),
           \A d \in 1..r : Prefix(key, d) \notin DOMAIN secret
    PROVE  /\ index \cup Prefixes(key, r) \subseteq Seq(Segment)
           /\ (index \cup Prefixes(key, r)) \cap DOMAIN secret = {}
           /\ \A p \in Prefixes(key, r) : \A d \in 0..(Len(p) - 1) :
                  Prefix(p, d) \in Prefixes(key, r)
<1>1. key \in Seq(Segment) /\ Len(key) \in Nat \ {0}
  BY KeyType
<1>2. \A d \in 0..r : d \in 0..Len(key)
  BY <1>1
<1>3. Prefixes(key, r) \subseteq Seq(Segment)
  BY <1>1, <1>2, PrefixType DEF Prefixes
<1>4. Prefix(key, 0) = <<>>
  BY SubSeqEmpty DEF Prefix
<1>5. ASSUME NEW d \in 0..r PROVE Prefix(key, d) \notin DOMAIN secret
  <2>1. CASE d = 0
    BY <2>1, <1>4 DEF HolderInv, TreeShape
  <2>2. CASE d # 0
    BY <2>2, <1>1
  <2>3. QED
    BY <2>1, <2>2
<1>6. ASSUME NEW p \in Prefixes(key, r), NEW d \in 0..(Len(p) - 1)
      PROVE  Prefix(p, d) \in Prefixes(key, r)
  <2>1. PICK i \in 0..r : p = Prefix(key, i)
    BY DEF Prefixes
  <2>2. i \in 0..Len(key) /\ Len(p) = i
    BY <2>1, <1>1, <1>2, PrefixType
  <2>3. d \in 0..i /\ d \in 0..r
    BY <2>2, <1>1
  <2>4. Prefix(p, d) = Prefix(key, d)
    BY <2>1, <2>2, <2>3, <1>1, PrefixOfPrefix
  <2>5. QED
    BY <2>3, <2>4 DEF Prefixes
<1>7. QED
  BY <1>3, <1>5, <1>6 DEF HolderInv, TypeOK, TreeShape, Prefixes

\* An accepted set on a key that is not there.
LEMMA InsertKeepsInv ==
    ASSUME HolderInv, NEW key \in Key, NEW value \in Value, NEW mode \in Mode,
           Insert(key, value, mode)
    PROVE  HolderInv'
<1>1. /\ \A d \in 1..(Len(key) - 1) : Prefix(key, d) \notin DOMAIN secret
      /\ ~EmptyTail(key)
      /\ key \notin Nodes
  BY InsertAccepted DEF Insert
<1>2. key \in Seq(Segment) /\ Len(key) \in Nat \ {0}
  BY KeyType
<1>3. Len(key) - 1 \in 0..Len(key)
  BY <1>2
<1> DEFINE way == Prefixes(key, Len(key) - 1)
           new == [value |-> value, mode |-> mode, updated |-> FALSE]
<1>4. /\ index \cup way \subseteq Seq(Segment)
      /\ (index \cup way) \cap DOMAIN secret = {}
      /\ \A p \in way : \A d \in 0..(Len(p) - 1) : Prefix(p, d) \in way
  BY <1>1, <1>3, DescentKeepsTree
<1>5. key \notin way
  <2>1. ASSUME NEW d \in 0..(Len(key) - 1) PROVE Prefix(key, d) # key
    <3>1. d \in 0..Len(key)
      BY <1>2
    <3>2. Len(Prefix(key, d)) = d
      BY <3>1, <1>2, PrefixType
    <3>3. QED
      BY <3>2, <1>2
  <2>2. QED
    BY <2>1 DEF Prefixes
<1>6. /\ index' = index \cup way
      /\ DOMAIN secret' = DOMAIN secret \cup {key}
      /\ \A p \in DOMAIN secret : p # key => secret'[p] = secret[p]
      /\ secret'[key] = new
      /\ private' = private
  BY DEF Insert
<1>7. TypeOK'
  <2>1. new \in Entry
    BY DEF Entry
  <2>2. secret' \in [DOMAIN secret' -> Entry]
    BY <2>1 DEF HolderInv, TypeOK, Insert
  <2>3. QED
    BY <1>4, <1>6, <2>2 DEF HolderInv, TypeOK
<1>8. TreeShape'
  <2>1. <<>> \in index'
    BY <1>6 DEF HolderInv, TreeShape
  <2>2. index' \cap DOMAIN secret' = {}
    BY <1>1, <1>4, <1>5, <1>6 DEF Nodes
  <2>3. ASSUME NEW p \in Nodes', NEW d \in 0..(Len(p) - 1)
        PROVE  Prefix(p, d) \in index'
    <3>1. CASE p \in Nodes
      BY <3>1, <1>6 DEF HolderInv, TreeShape
    <3>2. CASE p \in way
      BY <3>2, <1>4, <1>6
    <3>3. CASE p = key
      BY <3>3, <1>6 DEF Prefixes
    <3>4. QED
      BY <3>1, <3>2, <3>3, <1>6 DEF Nodes
  <2>4. QED
    BY <2>1, <2>2, <2>3 DEF TreeShape
<1>9. NoTailStored'
  BY <1>1, <1>6 DEF HolderInv, NoTailStored, EmptyTail
<1>10. QED
  BY <1>7, <1>8, <1>9 DEF HolderInv

\* A set refused after the descent.
LEMMA RefuseAfterDescentKeepsInv ==
    ASSUME HolderInv, NEW key \in Key, RefuseAfterDescent(key)
    PROVE  HolderInv'
<1>1. /\ Reach(key) \in 0..Len(key)
      /\ \A d \in 1..Reach(key) : Prefix(key, d) \notin DOMAIN secret
  BY InsertEmptyKey DEF RefuseAfterDescent
<1> DEFINE way == Prefixes(key, Reach(key))
<1>2. /\ index \cup way \subseteq Seq(Segment)
      /\ (index \cup way) \cap DOMAIN secret = {}
      /\ \A p \in way : \A d \in 0..(Len(p) - 1) : Prefix(p, d) \in way
  BY <1>1, DescentKeepsTree
<1>3. index' = index \cup way /\ secret' = secret /\ private' = private
  BY DEF RefuseAfterDescent
<1>4. TypeOK'
  BY <1>2, <1>3 DEF HolderInv, TypeOK
<1>5. TreeShape'
  BY <1>2, <1>3 DEF HolderInv, TreeShape, Nodes
<1>6. NoTailStored'
  BY <1>3 DEF HolderInv, NoTailStored, EmptyTail
<1>7. QED
  BY <1>4, <1>5, <1>6 DEF HolderInv

\* The steps that leave the tree as it is and keep or shrink the set of keys.
LEMMA OtherStepsKeepInv ==
    ASSUME HolderInv,
           \/ \E key \in Key, value \in Value, mode \in Mode : Overwrite(key, value, mode)
           \/ \E key \in Key : Remove(key)
           \/ \E setting \in Private : SetPrivate(setting) \/ RemovePrivate(setting)
           \/ UNCHANGED vars
    PROVE  HolderInv'
<1>1. ASSUME DOMAIN secret' \subseteq DOMAIN secret, index' = index,
             secret' \in [DOMAIN secret' -> Entry],
             private' \subseteq Private,
             \A s, t \in private' : s[1] = t[1] => s = t
      PROVE  HolderInv'
  <2>1. TypeOK'
    BY <1>1 DEF HolderInv, TypeOK
  <2>2. TreeShape'
    BY <1>1 DEF HolderInv, TreeShape, Nodes
  <2>3. NoTailStored'
    BY <1>1 DEF HolderInv, NoTailStored, EmptyTail
  <2>4. QED
    BY <2>1, <2>2, <2>3 DEF HolderInv
<1>2. CASE \E key \in Key, value \in Value, mode \in Mode : Overwrite(key, value, mode)
  <2>1. PICK key \in Key, value \in Value, mode \in Mode : Overwrite(key, value, mode)
    BY <1>2
  <2>2. key \in DOMAIN secret
    BY <2>1 DEF Overwrite, GetResult
  <2>3. secret \in [DOMAIN secret -> Entry]
    BY DEF HolderInv, TypeOK
  <2>4. DOMAIN secret' = DOMAIN secret /\ secret' \in [DOMAIN secret -> Entry]
    BY <2>1, <2>2, <2>3 DEF Overwrite, Entry
  <2>5. QED
    BY <1>1, <2>1, <2>4 DEF Overwrite, HolderInv, TypeOK
<1>3. CASE \E key \in Key : Remove(key)
  BY <1>1, <1>3 DEF Remove, HolderInv, TypeOK
<1>4. CASE \E setting \in Private : SetPrivate(setting) \/ RemovePrivate(setting)
  BY <1>1, <1>4 DEF SetPrivate, RemovePrivate, HolderInv, TypeOK
<1>5. CASE UNCHANGED vars
  BY <1>1, <1>5 DEF vars, HolderInv, TypeOK
<1>6. QED
  BY <1>2, <1>3, <1>4, <1>5

LEMMA NextHolderInv == HolderInv /\ [Next]_vars => HolderInv'
<1> SUFFICES ASSUME HolderInv, [Next]_vars PROVE HolderInv'
  OBVIOUS
<1>1. ASSUME NEW key \in Key, NEW value \in Value, NEW mode \in Mode, Set(key, value, mode)
      PROVE  HolderInv'
  <2>1. CASE Insert(key, value, mode)
    BY <2>1, InsertKeepsInv
  <2>2. CASE RefuseAfterDescent(key)
    BY <2>2, RefuseAfterDescentKeepsInv
  <2>3. CASE Overwrite(key, value, mode) \/ Refuse(key)
    BY <2>3, OtherStepsKeepInv DEF Refuse
  <2>4. QED
    BY <1>1, <2>1, <2>2, <2>3 DEF Set
<1>2. ASSUME NEW key \in Key, Remove(key) \/ RemoveNothing(key)
      PROVE  HolderInv'
  BY <1>2, OtherStepsKeepInv DEF RemoveNothing
<1>3. CASE \E setting \in Private : SetPrivate(setting) \/ RemovePrivate(setting)
  BY <1>3, OtherStepsKeepInv
<1>4. CASE UNCHANGED vars
  BY <1>4, OtherStepsKeepInv
<1>5. QED
  BY <1>1, <1>2, <1>3, <1>4 DEF Next

LEMMA HolderInvHolds == Spec => []HolderInv
<1>1. QED
  BY InitHolderInv, NextHolderInv, PTL DEF Spec

-----------------------------------------------------------------------------
(* The results.                                                            *)

\* The state keeps its types whatever calls are made.
THEOREM TypeCorrect == Spec => []TypeOK
<1>1. HolderInv => TypeOK
  BY DEF HolderInv
<1>2. QED
  BY <1>1, HolderInvHolds, PTL

\* The store stays a tree: no name is a secret and an inner node at once, and
\* no secret lies below another.
THEOREM TreeShapeHolds == Spec => []TreeShape
<1>1. HolderInv => TreeShape
  BY DEF HolderInv
<1>2. QED
  BY <1>1, HolderInvHolds, PTL

\* Every stored secret is read under its path, and listed under it when its
\* key does not start with a '/'.
THEOREM StoredIsReadableHolds == Spec => []StoredIsReadable
<1>1. HolderInv => StoredIsReadable
  <2> SUFFICES ASSUME HolderInv, NEW p \in DOMAIN secret
               PROVE  /\ GetResult(p) = "Ok"
                      /\ p[1] # Empty => Listed(p) = p
    BY DEF StoredIsReadable
  <2>1. GetResult(p) = "Ok"
    BY DEF HolderInv, NoTailStored, GetResult
  <2>2. p \in Seq(Segment) /\ Len(p) \in Nat \ {0}
    BY KeyType DEF HolderInv, TypeOK
  <2>3. ASSUME p[1] # Empty PROVE Listed(p) = p
    <3> DEFINE named == {i \in 1..Len(p) : p[i] # Empty}
    <3>1. 1 \in named /\ named # {}
      BY <2>2, <2>3
    <3>2. \A j \in named : 1 <= j
      BY <2>2
    <3>3. \A i \in named : (\A j \in named : i <= j) => i = 1
      BY <2>2, <3>1, <3>2
    <3>4. (CHOOSE i \in named : \A j \in named : i <= j) = 1
      BY <3>1, <3>2, <3>3
    <3>5. Listed(p) = SubSeq(p, 1, Len(p))
      BY <3>1, <3>4 DEF Listed
    <3>6. SubSeq(p, 1, Len(p)) = p
      BY <2>2, SubSeqFull
    <3>7. QED
      BY <3>5, <3>6
  <2>4. QED
    BY <2>1, <2>3
<1>2. QED
  BY <1>1, HolderInvHolds, PTL

\* A step changes the entry of at most one key.
LEMMA StepChangesOneEntry ==
    ASSUME TypeOK, [Next]_vars
    PROVE  /\ \A p, q \in DOMAIN secret \cup DOMAIN secret' :
                  Differs(p) /\ Differs(q) => p = q
           /\ private' # private => secret' = secret
<1>1. ASSUME secret' = secret
      PROVE  \A p : ~Differs(p)
  BY <1>1 DEF Differs
<1>2. ASSUME NEW key \in Key, private' = private,
             \A p : p # key => ~Differs(p)
      PROVE  /\ \A p, q \in DOMAIN secret \cup DOMAIN secret' :
                    Differs(p) /\ Differs(q) => p = q
             /\ private' # private => secret' = secret
  BY <1>2
<1>3. ASSUME NEW key \in Key, NEW value \in Value, NEW mode \in Mode, Set(key, value, mode)
      PROVE  private' = private /\ \A p : p # key => ~Differs(p)
  <2>1. CASE Overwrite(key, value, mode)
    <3>1. DOMAIN secret' = DOMAIN secret /\ private' = private
      BY <2>1 DEF Overwrite
    <3>2. \A p \in DOMAIN secret : p # key => secret'[p] = secret[p]
      BY <2>1 DEF Overwrite
    <3>3. QED
      BY <3>1, <3>2 DEF Differs
  <2>2. CASE Insert(key, value, mode)
    BY <2>2 DEF Insert, Differs
  <2>3. CASE RefuseAfterDescent(key) \/ Refuse(key)
    BY <2>3, <1>1 DEF RefuseAfterDescent, Refuse, vars
  <2>4. QED
    BY <1>3, <2>1, <2>2, <2>3 DEF Set
<1>4. ASSUME NEW key \in Key, Remove(key) \/ RemoveNothing(key)
      PROVE  private' = private /\ \A p : p # key => ~Differs(p)
  <2>1. CASE Remove(key)
    BY <2>1 DEF Remove, Differs
  <2>2. CASE RemoveNothing(key)
    BY <2>2, <1>1 DEF RemoveNothing, vars
  <2>3. QED
    BY <1>4, <2>1, <2>2
<1>5. CASE \E setting \in Private : SetPrivate(setting) \/ RemovePrivate(setting)
  BY <1>5, <1>1 DEF SetPrivate, RemovePrivate
<1>6. CASE UNCHANGED vars
  BY <1>6, <1>1 DEF vars
<1>7. QED
  BY <1>2, <1>3, <1>4, <1>5, <1>6 DEF Next

\* No call touches two secrets, and no setting touches a secret.
THEOREM OneSecretPerCallHolds == Spec => OneSecretPerCall
<1>1. TypeOK /\ [Next]_vars =>
        [/\ \A p, q \in DOMAIN secret \cup DOMAIN secret' :
               Differs(p) /\ Differs(q) => p = q
         /\ private' # private => secret' = secret]_vars
  BY StepChangesOneEntry
<1>2. QED
  BY <1>1, TypeCorrect, PTL DEF Spec, OneSecretPerCall
=============================================================================

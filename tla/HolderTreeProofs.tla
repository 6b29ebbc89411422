-------------------------- MODULE HolderTreeProofs --------------------------
(***************************************************************************)
(* Proofs about HolderTree, for any segments, keys and values: the walks   *)
(* over the nested nodes answer as Holder does, and do to the tree what    *)
(* Holder does to its paths.                                               *)
(*                                                                         *)
(* A walk is a function on depths that is defined by recursion, so facts   *)
(* about it are shown depth by depth; each induction is over a set of      *)
(* depths, and rests on the order of the natural numbers being             *)
(* well-founded.                                                           *)
(***************************************************************************)
EXTENDS HolderTree, SequenceTheorems, WellFoundedInduction, TLAPS

Kinds == {"index", "secret", "missing"}

\* There is no node off the ways to the keys.
NothingOffTheWays == \A q \in Seq(Segment) : q \notin Ways => NodeAt(q) = Missing

\* The root is an index, and every way leads to a node, or to nothing.
TreeInv ==
    /\ root.kind = "index"
    /\ \A q \in Ways : NodeAt(q).kind \in Kinds
    /\ NothingOffTheWays

-----------------------------------------------------------------------------
(* Induction.                                                              *)

\* What holds at depth 0, and at the next depth wherever it holds.
LEMMA ByDepth ==
    ASSUME NEW n \in Nat, NEW S, 0 \in S,
           \A d \in 0..(n - 1) : d \in S => d + 1 \in S
    PROVE  0..n \subseteq S
<1> DEFINE T == {d \in Nat : d <= n /\ d \notin S}
<1> SUFFICES ASSUME T # {} PROVE FALSE
  OBVIOUS
<1>1. PICK m \in T : \A k \in T : <<k, m>> \notin OpToRel(<, Nat)
  BY WFMin, NatLessThanWellFounded, Zenon
<1>2. \A k \in T : ~(k < m)
  BY <1>1, Zenon DEF OpToRel
<1>3. m # 0 /\ m \in Nat /\ m <= n /\ m \notin S
  OBVIOUS
<1>4. m - 1 \in 0..(n - 1) /\ (m - 1) + 1 = m /\ m - 1 < m
  BY <1>3
<1>5. m - 1 \in S
  BY <1>2, <1>3, <1>4
<1>6. QED
  BY <1>3, <1>4, <1>5

\* A set of depths has a least one.
LEMMA LeastDepth ==
    ASSUME NEW T, T \subseteq Nat, T # {}
    PROVE  \E m \in T : \A k \in T : m <= k
<1>1. PICK m \in T : \A k \in T : <<k, m>> \notin OpToRel(<, Nat)
  BY WFMin, NatLessThanWellFounded, Zenon
<1>2. \A k \in T : ~(k < m)
  BY <1>1, Zenon DEF OpToRel
<1>3. QED
  BY <1>2

-----------------------------------------------------------------------------
(* Walks.                                                                  *)

\* The nodes down to depth m.
DownTo(at, node, key, m) ==
    at = [d \in 0..m |-> IF d = 0 THEN node ELSE Child(at[d - 1], key[d])]

\* The recursion of Walk is what it looks like.
LEMMA WalkIs ==
    ASSUME NEW node, NEW key \in Seq(Segment)
    PROVE  /\ Len(key) \in Nat
           /\ DOMAIN Walk(node, key) = 0..Len(key)
           /\ Walk(node, key)[0] = node
           /\ \A d \in 1..Len(key) :
                 Walk(node, key)[d] = Child(Walk(node, key)[d - 1], key[d])
<1> DEFINE n == Len(key)
           H == {m \in Nat : \E at : DownTo(at, node, key, m)}
<1>0. n \in Nat
  OBVIOUS
<1>1. 0 \in H
  <2>1. DownTo([d \in 0..0 |-> node], node, key, 0)
    BY DEF DownTo
  <2>2. QED
    BY <2>1
<1>2. ASSUME NEW m \in 0..(n - 1), m \in H PROVE m + 1 \in H
  <2>1. PICK at : DownTo(at, node, key, m)
    BY <1>2
  <2> DEFINE next == [d \in 0..(m + 1) |-> IF d = m + 1 THEN Child(at[m], key[d]) ELSE at[d]]
  <2>2. DownTo(next, node, key, m + 1)
    BY <2>1 DEF DownTo
  <2>3. QED
    BY <2>2
<1>3. n \in H
  <2> HIDE DEF H, n
  <2>1. 0..n \subseteq H
    BY <1>0, <1>1, <1>2, ByDepth
  <2>2. QED
    BY <2>1, <1>0
<1>4. PICK at : DownTo(at, node, key, n)
  BY <1>3
<1>5. Walk(node, key) = CHOOSE f : DownTo(f, node, key, n)
  BY DEF Walk, DownTo
<1>6. DownTo(Walk(node, key), node, key, n)
  BY <1>4, <1>5, Zenon
<1>7. QED
  BY <1>0, <1>6 DEF DownTo

\* Below what is no index there is nothing.
LEMMA NothingBelow ==
    ASSUME NEW node, NEW key \in Seq(Segment), NEW m \in 0..Len(key),
           Walk(node, key)[m].kind # "index"
    PROVE  \A d \in 0..Len(key) : d > m => Walk(node, key)[d] = Missing
<1> DEFINE at == Walk(node, key)
           S == {d \in Nat : d > m => at[d] = Missing}
<1>0. Len(key) \in Nat
  OBVIOUS
<1>1. 0 \in S
  OBVIOUS
<1>2. ASSUME NEW d \in 0..(Len(key) - 1), d \in S PROVE d + 1 \in S
  <2>1. d + 1 \in 1..Len(key) /\ (d + 1) - 1 = d /\ d + 1 \in Nat
    BY <1>0
  <2>2. at[d + 1] = Child(at[d], key[d + 1])
    BY <2>1, WalkIs
  <2>3. d + 1 > m => d = m \/ d > m
    BY <1>0
  <2>4. d + 1 > m => at[d].kind # "index"
    BY <1>2, <2>3 DEF Missing
  <2>5. QED
    BY <2>1, <2>2, <2>4 DEF Child
<1>3. 0..Len(key) \subseteq S
  <2> HIDE DEF S
  <2>1. QED
    BY <1>0, <1>1, <1>2, ByDepth
<1>4. QED
  BY <1>3

\* Two keys go together down to depth d.
Agree(q, key, d) == \A i \in 1..d : q[i] = key[i]

\* Two walks find the same from below depth m to depth n.
SameBelow(at, bt, m, n) == \A d \in 1..n : d > m => at[d] = bt[d]

\* Keys that go together below m find the same, if they do at depth m + 1.
LEMMA WalksTogether ==
    ASSUME NEW a, NEW b, NEW q \in Seq(Segment), NEW key \in Seq(Segment),
           NEW m \in Nat, NEW n \in Nat, n <= Len(q), n <= Len(key),
           \A i \in 1..n : i > m => q[i] = key[i],
           \A name : Child(Walk(a, q)[m], name) = Child(Walk(b, key)[m], name)
    PROVE  SameBelow(Walk(a, q), Walk(b, key), m, n)
<1> DEFINE S == {d \in Nat : d > m => Walk(a, q)[d] = Walk(b, key)[d]}
<1>0. Len(q) \in Nat /\ Len(key) \in Nat
  OBVIOUS
<1>1. 0 \in S
  OBVIOUS
<1>2. ASSUME NEW d \in 0..(n - 1), d \in S PROVE d + 1 \in S
  <2>1. /\ d + 1 \in 1..Len(q) /\ d + 1 \in 1..Len(key) /\ (d + 1) - 1 = d /\ d + 1 \in Nat
    BY <1>0
  <2>2. /\ Walk(a, q)[d + 1] = Child(Walk(a, q)[d], q[d + 1])
        /\ Walk(b, key)[d + 1] = Child(Walk(b, key)[d], key[d + 1])
    BY <2>1, WalkIs
  <2>3. d + 1 > m => q[d + 1] = key[d + 1] /\ (d = m \/ d > m)
    OBVIOUS
  <2>4. QED
    BY <1>2, <2>1, <2>2, <2>3
<1>3. 0..n \subseteq S
  <2> HIDE DEF S
  <2>1. QED
    BY <1>1, <1>2, ByDepth
<1>4. QED
  BY <1>3 DEF SameBelow

\* Keys that go together down to depth m lead to the same node there.
LEMMA SameWay ==
    ASSUME NEW node, NEW q \in Seq(Segment), NEW key \in Seq(Segment),
           NEW m \in Nat, m <= Len(q), m <= Len(key), Agree(q, key, m)
    PROVE  Walk(node, q)[m] = Walk(node, key)[m]
<1>1. Walk(node, q)[0] = Walk(node, key)[0]
  BY WalkIs
<1>2. \A name : Child(Walk(node, q)[0], name) = Child(Walk(node, key)[0], name)
  BY <1>1
<1>3. SameBelow(Walk(node, q), Walk(node, key), 0, m)
  BY <1>2, WalksTogether DEF Agree
<1>4. QED
  BY <1>1, <1>3 DEF SameBelow

\* The part of a key down to depth d leads where the key does.
LEMMA PartWalks ==
    ASSUME NEW node, NEW key \in Seq(Segment), NEW m \in 0..Len(key)
    PROVE  /\ SubSeq(key, 1, m) \in Seq(Segment) /\ Len(SubSeq(key, 1, m)) = m
           /\ \A i \in 1..m : SubSeq(key, 1, m)[i] = key[i]
           /\ \A d \in 0..m : Walk(node, SubSeq(key, 1, m))[d] = Walk(node, key)[d]
<1> DEFINE part == SubSeq(key, 1, m)
<1>0. Len(key) \in Nat /\ m \in Nat /\ \A i \in 1..m : key[i] \in Segment
  BY ElementOfSeq
<1>1. part \in Seq(Segment) /\ Len(part) = m /\ \A i \in 1..m : part[i] = key[i]
  <2>1. /\ part \in Seq(Segment)
        /\ Len(part) = IF 1 <= m THEN m - 1 + 1 ELSE 0
        /\ \A i \in 1..(m - 1 + 1) : part[i] = key[1 + i - 1]
    <3>1. 1 \in Int /\ m \in Int
      BY <1>0
    <3>2. QED
      BY <1>0, <3>1, SubSeqProperties
  <2>2. Len(part) = m
    BY <1>0, <2>1
  <2>3. ASSUME NEW i \in 1..m PROVE part[i] = key[i]
    <3>1. 1 + i - 1 = i /\ i \in 1..(m - 1 + 1)
      BY <1>0
    <3>2. QED
      BY <2>1, <3>1
  <2>4. QED
    BY <2>1, <2>2, <2>3
<1> HIDE DEF part
<1>2. ASSUME NEW d \in 0..m PROVE Walk(node, part)[d] = Walk(node, key)[d]
  BY <1>0, <1>1, SameWay DEF Agree
<1>3. QED
  BY <1>1, <1>2 DEF part

-----------------------------------------------------------------------------
(* Writing.                                                                *)

\* The index n steps above the end of path, when the one below it is written.
OneUp(node, path, n, below) ==
    LET d == Len(path) - n
    IN  Index(Put(OrDefault(Walk(node, path)[d]).kids, path[d + 1], below))

\* The tree seen from up to m steps above the end of path.
UpTo(above, node, path, new, m) ==
    above = [n \in 0..m |-> IF n = 0 THEN new ELSE OneUp(node, path, n, above[n - 1])]

\* The recursion of Written is what it looks like, too.
LEMMA WrittenIs ==
    ASSUME NEW node, NEW path \in Seq(Segment), NEW new
    PROVE  \E above : /\ UpTo(above, node, path, new, Len(path))
                      /\ Written(node, path, new) = above[Len(path)]
<1> DEFINE N == Len(path)
           H == {m \in Nat : \E above : UpTo(above, node, path, new, m)}
<1>0. N \in Nat
  OBVIOUS
<1>1. 0 \in H
  <2>1. UpTo([n \in 0..0 |-> new], node, path, new, 0)
    BY DEF UpTo
  <2>2. QED
    BY <2>1
<1>2. ASSUME NEW m \in 0..(N - 1), m \in H PROVE m + 1 \in H
  <2>1. PICK above : UpTo(above, node, path, new, m)
    BY <1>2
  <2> DEFINE next ==
        [n \in 0..(m + 1) |->
            IF n = m + 1 THEN OneUp(node, path, n, above[m]) ELSE above[n]]
  <2>2. UpTo(next, node, path, new, m + 1)
    BY <2>1 DEF UpTo
  <2>3. QED
    BY <2>2
<1>3. N \in H
  <2> HIDE DEF H, N
  <2>1. 0..N \subseteq H
    BY <1>0, <1>1, <1>2, ByDepth
  <2>2. QED
    BY <2>1, <1>0
<1>4. PICK above : UpTo(above, node, path, new, N)
  BY <1>3
<1> DEFINE choice == CHOOSE f : UpTo(f, node, path, new, N)
<1>5. Written(node, path, new) = choice[N]
  BY DEF Written, UpTo, OneUp
<1>6. UpTo(choice, node, path, new, N)
  BY <1>4, Zenon
<1>7. QED
  BY <1>5, <1>6

\* What an insert changes of an index.
Inserted(put, node, name, new) ==
    /\ put.kind = "index"
    /\ \A k : Child(put, k) = IF k = name THEN new ELSE Child(node, k)

LEMMA PutInserts ==
    ASSUME NEW node, node.kind \in {"index", "missing"}, NEW name, NEW new
    PROVE  Inserted(Index(Put(OrDefault(node).kids, name, new)), node, name, new)
BY DEF Inserted, Child, Index, Put, OrDefault, NoKids, Missing

\* What tree finds where new was written at path into the tree of node: an
\* index on the way, new at the end, and what was there off the way.
Effect(tree, node, path, new, q) ==
    /\ \A d \in 0..Len(q) :
          d < Len(path) /\ Agree(q, path, d) => Walk(tree, q)[d].kind = "index"
    /\ Len(path) <= Len(q) /\ Agree(q, path, Len(path)) => Walk(tree, q)[Len(path)] = new
    /\ \A d \in 0..Len(q) :
          ~Agree(q, path, d) /\ d <= Len(path) => Walk(tree, q)[d] = Walk(node, q)[d]
    /\ \A d \in 0..Len(q) :
          d > Len(path) /\ ~Agree(q, path, Len(path)) => Walk(tree, q)[d] = Walk(node, q)[d]

LEMMA WrittenWalks ==
    ASSUME NEW node, NEW path \in Seq(Segment), NEW new, NEW q \in Seq(Segment),
           \A d \in 0..Len(path) :
               d < Len(path) => Walk(node, path)[d].kind \in {"index", "missing"}
    PROVE  Effect(Written(node, path, new), node, path, new, q)
<1> DEFINE tree == Written(node, path, new)
           m == Len(path)
<1>0. m \in Nat /\ Len(q) \in Nat
  OBVIOUS
<1>1. PICK above : UpTo(above, node, path, new, m) /\ tree = above[m]
  BY WrittenIs
<1>2. /\ above[0] = new
      /\ \A n \in 1..m : above[n] = OneUp(node, path, n, above[n - 1])
  BY <1>0, <1>1 DEF UpTo
<1>3. ASSUME NEW d \in 0..m, d < m
      PROVE  /\ above[m - d].kind = "index"
             /\ \A k : Child(above[m - d], k)
                         = IF k = path[d + 1] THEN above[m - (d + 1)]
                           ELSE Child(Walk(node, path)[d], k)
  <2>1. m - d \in 1..m /\ m - (m - d) = d /\ (m - d) - 1 = m - (d + 1)
    BY <1>0, <1>3
  <2>2. above[m - d] = Index(Put(OrDefault(Walk(node, path)[d]).kids, path[d + 1], above[m - (d + 1)]))
    BY <1>2, <2>1 DEF OneUp
  <2>3. Walk(node, path)[d].kind \in {"index", "missing"}
    BY <1>0, <1>3
  <2>4. Inserted(above[m - d], Walk(node, path)[d], path[d + 1], above[m - (d + 1)])
    <3> DEFINE below == above[m - (d + 1)]
               here == Walk(node, path)[d]
    <3> HIDE DEF below, here
    <3>1. Inserted(Index(Put(OrDefault(here).kids, path[d + 1], below)), here, path[d + 1], below)
      BY <2>3, PutInserts DEF here
    <3>2. QED
      BY <2>2, <3>1 DEF below, here
  <2>5. QED
    BY <2>4 DEF Inserted
<1> DEFINE S == {d \in Nat : d <= m /\ d <= Len(q) /\ Agree(q, path, d)
                               => Walk(tree, q)[d] = above[m - d]}
<1>4. 0 \in S
  BY <1>0, <1>1, WalkIs
<1>5. ASSUME NEW d \in 0..(Len(q) - 1), d \in S PROVE d + 1 \in S
  <2>1. SUFFICES ASSUME d + 1 <= m, Agree(q, path, d + 1)
                 PROVE  Walk(tree, q)[d + 1] = above[m - (d + 1)]
    BY <1>0
  <2>2. d \in 0..m /\ d < m /\ d <= Len(q) /\ Agree(q, path, d) /\ q[d + 1] = path[d + 1]
    BY <1>0, <2>1 DEF Agree
  <2>3. Walk(tree, q)[d] = above[m - d]
    BY <1>5, <2>2
  <2>4. d + 1 \in 1..Len(q) /\ (d + 1) - 1 = d
    BY <1>0
  <2>5. Walk(tree, q)[d + 1] = Child(Walk(tree, q)[d], q[d + 1])
    BY <2>4, WalkIs
  <2>6. QED
    BY <1>3, <2>2, <2>3, <2>5
<1>6. \A d \in 0..Len(q) : d \in S
  <2> HIDE DEF S
  <2>1. 0..Len(q) \subseteq S
    BY <1>0, <1>4, <1>5, ByDepth
  <2>2. QED
    BY <2>1
<1>7. ASSUME NEW d \in 0..Len(q), d <= m, Agree(q, path, d)
      PROVE  Walk(tree, q)[d] = above[m - d]
  BY <1>6, <1>7
<1> HIDE DEF S, tree, m
<1>8. ASSUME NEW d \in 0..Len(q), NEW n \in 0..m, n <= d, ~Agree(q, path, n)
      PROVE  Walk(tree, q)[d] = Walk(node, q)[d]
  <2> DEFINE T == {i \in 1..n : q[i] # path[i]}
  <2>1. PICK i \in T : \A j \in T : i <= j
    <3>1. T \subseteq Nat /\ T # {}
      BY <1>8, <1>0 DEF Agree
    <3>2. QED
      BY <3>1, LeastDepth
  <2>2. /\ i \in 1..Len(q) /\ i <= m /\ i <= d /\ i - 1 \in 0..Len(q) /\ i - 1 < m
        /\ i - 1 \in 0..m /\ (i - 1) + 1 = i /\ q[i] # path[i] /\ i - 1 \in Nat
    BY <1>0, <1>8, <2>1
  <2>3. Agree(q, path, i - 1)
    BY <1>0, <1>8, <2>1, <2>2 DEF Agree
  <2>4. Walk(tree, q)[i] = Child(Walk(tree, q)[i - 1], q[i])
        /\ Walk(node, q)[i] = Child(Walk(node, q)[i - 1], q[i])
    BY <2>2, WalkIs
  <2>5. Walk(node, q)[i - 1] = Walk(node, path)[i - 1]
    BY <1>0, <2>2, <2>3, SameWay DEF m
  <2>6. Walk(tree, q)[i - 1] = above[m - (i - 1)]
    BY <1>7, <2>2, <2>3, <1>0
  <2>7. Child(above[m - (i - 1)], q[i]) = Child(Walk(node, path)[i - 1], q[i])
    BY <1>3, <2>2
  <2>8. Walk(tree, q)[i] = Walk(node, q)[i]
    BY <2>4, <2>5, <2>6, <2>7
  <2>9. SameBelow(Walk(tree, q), Walk(node, q), i, Len(q))
    <3>1. \A name : Child(Walk(tree, q)[i], name) = Child(Walk(node, q)[i], name)
      BY <2>8
    <3>2. i \in Nat
      BY <2>2
    <3>3. QED
      BY <1>0, <3>1, <3>2, WalksTogether
  <2>10. d = i \/ (d \in 1..Len(q) /\ d > i)
    BY <1>0, <2>2
  <2>11. QED
    BY <2>8, <2>9, <2>10 DEF SameBelow
<1>9. \A d \in 0..Len(q) : d < m /\ Agree(q, path, d) => Walk(tree, q)[d].kind = "index"
  <2> SUFFICES ASSUME NEW d \in 0..Len(q), d < m, Agree(q, path, d)
               PROVE  Walk(tree, q)[d].kind = "index"
    OBVIOUS
  <2>1. Walk(tree, q)[d] = above[m - d] /\ d \in 0..m
    BY <1>0, <1>7
  <2>2. QED
    BY <1>3, <2>1
<1>10. m <= Len(q) /\ Agree(q, path, m) => Walk(tree, q)[m] = new
  <2>1. m - m = 0 /\ m <= m
    BY <1>0
  <2>2. m <= Len(q) => m \in 0..Len(q)
    BY <1>0
  <2>3. QED
    BY <1>2, <1>7, <2>1, <2>2
<1>11. \A d \in 0..Len(q) : ~Agree(q, path, d) /\ d <= m => Walk(tree, q)[d] = Walk(node, q)[d]
  BY <1>0, <1>8
<1>12. \A d \in 0..Len(q) :
          d > m /\ ~Agree(q, path, m) => Walk(tree, q)[d] = Walk(node, q)[d]
  BY <1>0, <1>8
<1>13. QED
  BY <1>9, <1>10, <1>11, <1>12 DEF Effect, tree, m

-----------------------------------------------------------------------------
(* Answers.                                                                *)

\* Of n calls the one at depth d answers.
Answers(calls, n, d) ==
    /\ d \in 0..(n - 1) /\ calls[d] # "descend"
    /\ \A i \in 0..(n - 1) : i < d => calls[i] = "descend"

LEMMA LastAnswers ==
    ASSUME NEW calls, NEW n \in Nat, n > 0, DOMAIN calls = 0..(n - 1),
           calls[n - 1] # "descend"
    PROVE  Answers(calls, n, Last(calls))
<1> DEFINE T == {d \in 0..(n - 1) : calls[d] # "descend"}
<1>1. PICK m \in T : \A d \in T : m <= d
  <2>1. T \subseteq Nat /\ n - 1 \in T
    OBVIOUS
  <2>2. QED
    BY <2>1, LeastDepth
<1>2. m \in 0..(n - 1) /\ calls[m] # "descend"
      /\ \A d \in 0..(n - 1) : d < m => calls[d] = "descend"
  BY <1>1
<1>3. \E d \in DOMAIN calls :
         calls[d] # "descend" /\ \A e \in DOMAIN calls : e < d => calls[e] = "descend"
  BY <1>2
<1>4. QED
  BY <1>3 DEF Last, Answers

\* A key and the nodes it leads to.
Way(key, at) ==
    /\ key \in Seq(Segment) /\ Len(key) \in Nat \ {0}
    /\ \A d \in 0..Len(key) : at[d].kind \in Kinds
    /\ at[0].kind = "index"
    /\ \A d, e \in 0..Len(key) : d < e /\ at[d].kind # "index" => at[e].kind = "missing"

\* What is found at the paths on the way to a key.
OnPaths(key, at) ==
    /\ \A d \in 0..Len(key) : \A kind :
          SubSeq(key, 1, d) \in Paths(kind) <=> at[d].kind = kind
    /\ \A kind : key \in Paths(kind) <=> at[Len(key)].kind = kind

LEMMA KeyIs ==
    ASSUME NEW key \in Key
    PROVE  key \in Seq(Segment) /\ Len(key) \in Nat \ {0} /\ key \in Ways
<1>1. key \in Seq(Segment) /\ key # <<>>
  BY TreeAssumption
<1>2. Len(key) \in Nat \ {0}
  BY <1>1, EmptySeq
<1>3. SubSeq(key, 1, Len(key)) = key
  BY <1>1, SubSeqFull
<1>4. Len(key) \in 0..Len(key)
  BY <1>2
<1>5. key \in {SubSeq(key, 1, d) : d \in 0..Len(key)}
  BY <1>3, <1>4
<1>6. key \in Ways
  BY <1>5 DEF Ways
<1>7. QED
  BY <1>1, <1>2, <1>6

LEMMA WayIs ==
    ASSUME TreeInv, NEW key \in Key
    PROVE  Way(key, Walk(root, key)) /\ OnPaths(key, Walk(root, key))
<1> DEFINE at == Walk(root, key)
<1>0. key \in Seq(Segment) /\ Len(key) \in Nat \ {0} /\ key \in Ways
  BY KeyIs
<1>1. ASSUME NEW d \in 0..Len(key)
      PROVE  SubSeq(key, 1, d) \in Ways /\ NodeAt(SubSeq(key, 1, d)) = at[d]
  <2>1. SubSeq(key, 1, d) \in Ways
    BY DEF Ways
  <2>2. Len(SubSeq(key, 1, d)) = d /\ Walk(root, SubSeq(key, 1, d))[d] = at[d]
    BY <1>0, PartWalks
  <2>3. QED
    BY <2>1, <2>2 DEF NodeAt
<1>2. \A d \in 0..Len(key) : at[d].kind \in Kinds
  BY <1>1 DEF TreeInv
<1>3. at[0].kind = "index"
  BY <1>0, WalkIs DEF TreeInv
<1>4. ASSUME NEW d \in 0..Len(key), NEW e \in 0..Len(key), d < e, at[d].kind # "index"
      PROVE  at[e].kind = "missing"
  <2>1. at[e] = Missing
    BY <1>0, <1>4, NothingBelow
  <2>2. QED
    BY <2>1 DEF Missing
<1>5. OnPaths(key, at)
  BY <1>0, <1>1 DEF OnPaths, Paths, NodeAt
<1>6. QED
  BY <1>0, <1>2, <1>3, <1>4, <1>5 DEF Way

\* The answers of Holder, from the nodes on the way.
LEMMA FlatAnswers ==
    ASSUME NEW key, NEW at, Way(key, at), OnPaths(key, at)
    PROVE  LET n == Len(key)
               tail == n > 1 /\ key[n] = Empty
               reach == IF tail THEN n - 2 ELSE n - 1
               blocked == \E d \in 1..reach : at[d].kind = "secret"
           IN  /\ Flat!EmptyTail(key) <=> tail
               /\ Flat!Reach(key) = reach
               /\ Flat!GetResult(key) =
                     IF tail
                       THEN IF at[reach].kind # "missing" THEN "EmptyKey" ELSE "KeyNotFound"
                       ELSE IF at[n].kind = "secret" THEN "Ok" ELSE "KeyNotFound"
               /\ Flat!Blocked(key) <=> blocked
               /\ key \in Paths("index") <=> at[n].kind = "index"
<1> DEFINE n == Len(key)
           tail == n > 1 /\ key[n] = Empty
           reach == IF tail THEN n - 2 ELSE n - 1
<1>1. n \in Nat \ {0} /\ reach \in 0..n /\ \A d \in 0..n : at[d].kind \in Kinds
  BY DEF Way
<1>2. (Flat!EmptyTail(key) <=> tail) /\ Flat!Reach(key) = reach
  BY DEF Flat!EmptyTail, Flat!Reach
<1>3. \A d \in 0..n : \A kind : Flat!Prefix(key, d) \in Paths(kind) <=> at[d].kind = kind
  BY DEF Flat!Prefix, OnPaths
<1>4. \A kind : key \in Paths(kind) <=> at[n].kind = kind
  BY DEF OnPaths
<1>5. Flat!Blocked(key) <=> \E d \in 1..reach : at[d].kind = "secret"
  BY <1>1, <1>2, <1>3 DEF Flat!Blocked
<1>6. Flat!Prefix(key, Flat!Reach(key)) \in Flat!Nodes <=> at[reach].kind # "missing"
  BY <1>1, <1>2, <1>3 DEF Flat!Nodes, Kinds
<1>7. Flat!GetResult(key) =
         IF tail
           THEN IF at[reach].kind # "missing" THEN "EmptyKey" ELSE "KeyNotFound"
           ELSE IF at[n].kind = "secret" THEN "Ok" ELSE "KeyNotFound"
  BY <1>2, <1>4, <1>6 DEF Flat!GetResult
<1>8. QED
  BY <1>2, <1>4, <1>5, <1>7

\* get.
LEMMA GetAgrees ==
    ASSUME TreeInv, NEW key \in Key
    PROVE  GetInner(root, key) = Flat!GetResult(key)
<1> DEFINE at == Walk(root, key)
           n == Len(key)
           tail == n > 1 /\ key[n] = Empty
           calls == GetCalls(root, key)
           d == Last(calls)
<1>1. Way(key, at) /\ OnPaths(key, at)
  BY WayIs
<1>2. n \in Nat \ {0} /\ at[0].kind = "index"
      /\ \A i, j \in 0..n : i < j /\ at[i].kind = "missing" => at[j].kind = "missing"
  BY <1>1 DEF Way
<1>3. Flat!GetResult(key) =
         IF tail
           THEN IF at[n - 2].kind # "missing" THEN "EmptyKey" ELSE "KeyNotFound"
           ELSE IF at[n].kind = "secret" THEN "Ok" ELSE "KeyNotFound"
  BY <1>1, FlatAnswers
<1> HIDE DEF at, n
<1>4. DOMAIN calls = 0..(n - 1)
      /\ \A i \in 0..(n - 1) : calls[i] =
            IF i = n - 2 /\ key[n] = Empty THEN "EmptyKey"
            ELSE IF i # n - 1
              THEN IF at[i + 1].kind = "missing" THEN "KeyNotFound" ELSE "descend"
            ELSE IF at[i + 1].kind = "secret" THEN "Ok" ELSE "KeyNotFound"
  BY DEF GetCalls, TailIsEmpty, NoSlash, at, n
<1> HIDE DEF calls
<1>5. calls[n - 1] # "descend"
  BY <1>2, <1>4
<1>6. /\ d \in 0..(n - 1) /\ calls[d] # "descend"
      /\ \A i \in 0..(n - 1) : i < d => calls[i] = "descend"
  <2>1. Answers(calls, n, d)
    BY <1>2, <1>4, <1>5, LastAnswers
  <2>2. QED
    BY <2>1 DEF Answers
<1> HIDE DEF d
<1>7. GetInner(root, key) = calls[d]
  BY DEF GetInner, calls, d
<1>8. CASE tail
  <2>1. n - 2 \in 0..(n - 1) /\ calls[n - 2] = "EmptyKey"
    BY <1>2, <1>4, <1>8
  <2>2. d <= n - 2
    BY <1>2, <1>6, <2>1
  <2>3. CASE d = n - 2
    <3>1. at[d].kind # "missing"
      <4>1. CASE d = 0
        BY <1>2, <4>1
      <4>2. CASE d # 0
        <5>1. d - 1 \in 0..(n - 1) /\ d - 1 < d /\ (d - 1) + 1 = d /\ d - 1 # n - 1 /\ d - 1 # n - 2
          BY <1>2, <1>6, <2>3, <4>2
        <5>2. QED
          BY <1>4, <1>6, <5>1
      <4>3. QED
        BY <4>1, <4>2
    <3>2. QED
      BY <1>3, <1>7, <1>8, <2>1, <2>3, <3>1
  <2>4. CASE d < n - 2
    <3>1. calls[d] = "KeyNotFound" /\ at[d + 1].kind = "missing"
      BY <1>2, <1>4, <1>6, <2>4
    <3>2. d + 1 \in 0..n /\ n - 2 \in 0..n /\ (d + 1 = n - 2 \/ d + 1 < n - 2)
      BY <1>2, <1>6, <2>4
    <3>3. at[n - 2].kind = "missing"
      BY <1>2, <3>1, <3>2
    <3>4. QED
      BY <1>3, <1>7, <1>8, <3>1, <3>3
  <2>5. QED
    BY <1>2, <1>6, <2>2, <2>3, <2>4
<1>9. CASE ~tail
  <2>1. d = n - 2 => key[n] # Empty
    BY <1>2, <1>6, <1>9
  <2>2. CASE d = n - 1
    <3>1. d + 1 = n /\ d # n - 2
      BY <1>2, <2>2
    <3>2. QED
      BY <1>3, <1>4, <1>6, <1>7, <1>9, <2>2, <3>1
  <2>3. CASE d # n - 1
    <3>1. calls[d] = "KeyNotFound" /\ at[d + 1].kind = "missing"
      BY <1>4, <1>6, <2>1, <2>3
    <3>2. d + 1 \in 0..n /\ n \in 0..n /\ (d + 1 = n \/ d + 1 < n)
      BY <1>2, <1>6
    <3>3. at[n].kind = "missing"
      BY <1>2, <3>1, <3>2
    <3>4. QED
      BY <1>3, <1>7, <1>9, <3>1, <3>3
  <2>4. QED
    BY <2>2, <2>3
<1>10. QED
  BY <1>8, <1>9

\* The calls of set_inner that went on have an index, or make one; where the
\* call that answers stands decides what it answers.
LEMMA SetAgrees ==
    ASSUME TreeInv, NEW key \in Key
    PROVE  LET at == Walk(root, key)
               n == Len(key)
               d == Last(SetCalls(root, key))
               res == SetCalls(root, key)[d]
           IN  /\ res = Flat!InsertResult(key)
               /\ d \in 0..(n - 1)
               /\ \A i \in 0..(n - 1) : i < d => at[i].kind \in {"index", "missing"}
               /\ res # "KeyIsASecret" => at[d].kind \in {"index", "missing"}
               /\ res = "EmptyKey" => d = Flat!Reach(key)
               /\ res \in {"Ok", "KeyIsAnIndex"} => d = n - 1
<1> DEFINE at == Walk(root, key)
           n == Len(key)
           tail == n > 1 /\ key[n] = Empty
           reach == IF tail THEN n - 2 ELSE n - 1
           calls == SetCalls(root, key)
           d == Last(calls)
<1>1. Way(key, at) /\ OnPaths(key, at)
  BY WayIs
<1>2. n \in Nat \ {0} /\ at[0].kind = "index" /\ \A i \in 0..n : at[i].kind \in Kinds
  BY <1>1 DEF Way
<1>3. Flat!InsertResult(key) =
         IF \E i \in 1..reach : at[i].kind = "secret" THEN "KeyIsASecret"
         ELSE IF tail THEN "EmptyKey"
         ELSE IF at[n].kind = "index" THEN "KeyIsAnIndex" ELSE "Ok"
  BY <1>1, FlatAnswers DEF Flat!InsertResult
<1>4. Flat!Reach(key) = reach
  BY <1>1, FlatAnswers
<1> HIDE DEF at, n
<1>5. DOMAIN calls = 0..(n - 1)
      /\ \A i \in 0..(n - 1) : calls[i] =
            IF at[i].kind = "secret" THEN "KeyIsASecret"
            ELSE IF i = n - 2 /\ key[n] = Empty THEN "EmptyKey"
            ELSE IF i # n - 1 THEN "descend"
            ELSE IF at[i + 1].kind = "index" THEN "KeyIsAnIndex" ELSE "Ok"
  BY DEF SetCalls, TailIsEmpty, NoSlash, at, n
<1> HIDE DEF calls
<1>6. calls[n - 1] # "descend"
  BY <1>2, <1>5
<1>7. /\ d \in 0..(n - 1) /\ calls[d] # "descend"
      /\ \A i \in 0..(n - 1) : i < d => calls[i] = "descend"
  <2>1. Answers(calls, n, d)
    BY <1>2, <1>5, <1>6, LastAnswers
  <2>2. QED
    BY <2>1 DEF Answers
<1> HIDE DEF d
<1>8. \A i \in 0..(n - 1) : i < d => at[i].kind # "secret" /\ ~(i = n - 2 /\ key[n] = Empty)
  BY <1>5, <1>7
<1>9. d <= reach
  BY <1>2, <1>5, <1>7, <1>8
<1>10. CASE at[d].kind = "secret"
  <2>1. calls[d] = "KeyIsASecret" /\ d \in 1..reach
    BY <1>2, <1>5, <1>7, <1>9, <1>10
  <2>2. QED
    BY <1>2, <1>3, <1>7, <1>8, <1>10, <2>1 DEF Kinds, calls, d, at, n
<1>11. CASE at[d].kind # "secret"
  <2>1. d = reach
    BY <1>2, <1>5, <1>7, <1>9, <1>11
  <2>2. ~\E i \in 1..reach : at[i].kind = "secret"
    BY <1>2, <1>8, <1>11, <2>1
  <2>3. calls[d] = IF tail THEN "EmptyKey"
                   ELSE IF at[n].kind = "index" THEN "KeyIsAnIndex" ELSE "Ok"
    BY <1>2, <1>5, <1>11, <2>1
  <2>4. calls[d] = Flat!InsertResult(key)
    BY <1>3, <2>2, <2>3
  <2>5. calls[d] \in {"Ok", "KeyIsAnIndex"} => d = n - 1
    BY <2>1, <2>3
  <2>6. \A i \in 0..n : i <= d => at[i].kind \in {"index", "missing"}
    BY <1>2, <1>7, <1>8, <1>11 DEF Kinds
  <2>7. QED
    BY <1>2, <1>4, <1>7, <2>1, <2>4, <2>5, <2>6 DEF calls, d, at, n
<1>12. QED
  BY <1>10, <1>11

\* remove: wherever the call that answers stands, those before it had an index.
LEMMA RemoveAgrees ==
    ASSUME TreeInv, NEW key \in Key
    PROVE  LET at == Walk(root, key)
               n == Len(key)
               res == RemoveInner(root, key).res
           IN  /\ res = Flat!RemoveResult(key)
               /\ res = "Removed" =>
                     /\ at[n].kind = "secret"
                     /\ \A i \in 0..(n - 1) : at[i].kind = "index"
<1> DEFINE at == Walk(root, key)
           n == Len(key)
           tail == n > 1 /\ key[n] = Empty
           reach == IF tail THEN n - 2 ELSE n - 1
           calls == RemoveCalls(root, key)
           d == Last(calls)
<1>1. Way(key, at) /\ OnPaths(key, at)
  BY WayIs
<1>2. /\ n \in Nat \ {0} /\ at[0].kind = "index" /\ \A i \in 0..n : at[i].kind \in Kinds
      /\ \A i, j \in 0..n : i < j /\ at[i].kind # "index" => at[j].kind = "missing"
  BY <1>1 DEF Way
<1>3. Flat!RemoveResult(key) =
         IF \E i \in 1..reach : at[i].kind = "secret" THEN "Panic"
         ELSE IF ~tail /\ at[n].kind = "secret" THEN "Removed" ELSE "NotFound"
  <2>1. Flat!GetResult(key) = "Ok" <=> ~tail /\ at[n].kind = "secret"
    BY <1>1, FlatAnswers
  <2>2. Flat!Blocked(key) <=> \E i \in 1..reach : at[i].kind = "secret"
    BY <1>1, FlatAnswers
  <2>3. QED
    BY <2>1, <2>2 DEF Flat!RemoveResult
<1> HIDE DEF at, n
<1>4. DOMAIN calls = 0..(n - 1)
      /\ \A i \in 0..(n - 1) : calls[i] =
            IF at[i].kind # "index" THEN "Panic"
            ELSE IF (i = n - 2 /\ key[n] = Empty) \/ at[i + 1].kind = "missing" THEN "NotFound"
            ELSE IF i # n - 1 THEN "descend"
            ELSE IF at[i + 1].kind = "index" THEN "NotFound" ELSE "Removed"
  BY DEF RemoveCalls, TailIsEmpty, NoSlash, at, n
<1>5. RemoveInner(root, key).res = calls[d]
  BY DEF RemoveInner
<1> HIDE DEF calls
<1>6. calls[n - 1] # "descend"
  BY <1>2, <1>4
<1>7. /\ d \in 0..(n - 1) /\ calls[d] # "descend"
      /\ \A i \in 0..(n - 1) : i < d => calls[i] = "descend"
  <2>1. Answers(calls, n, d)
    BY <1>2, <1>4, <1>6, LastAnswers
  <2>2. QED
    BY <2>1 DEF Answers
<1> HIDE DEF d
<1>8. \A i \in 0..(n - 1) : i < d =>
         at[i].kind = "index" /\ ~(i = n - 2 /\ key[n] = Empty) /\ at[i + 1].kind # "missing"
  BY <1>4, <1>7
<1>9. d <= reach
  BY <1>2, <1>7, <1>8
<1>10. at[d].kind # "missing"
  <2>1. d = 0 \/ (d - 1 \in 0..(n - 1) /\ d - 1 < d /\ (d - 1) + 1 = d)
    BY <1>2, <1>7
  <2>2. QED
    BY <1>2, <1>8, <2>1
<1>11. CASE at[d].kind # "index"
  <2>1. calls[d] = "Panic" /\ at[d].kind = "secret" /\ d \in 1..reach
    BY <1>2, <1>4, <1>7, <1>9, <1>10, <1>11 DEF Kinds
  <2>2. QED
    BY <1>3, <1>5, <2>1
<1>12. CASE at[d].kind = "index"
  <2>1. \A i \in 0..d : at[i].kind = "index"
    BY <1>2, <1>7, <1>8, <1>12
  <2>2. CASE d = reach
    <3>1. ~\E i \in 1..reach : at[i].kind = "secret"
      BY <1>2, <2>1, <2>2
    <3>2. CASE tail
      BY <1>2, <1>3, <1>4, <1>5, <1>7, <1>12, <2>2, <3>1, <3>2
    <3>3. CASE ~tail
      <4>1. d = n - 1 /\ d + 1 = n /\ n \in 0..n
        BY <1>2, <2>2, <3>3
      <4>2. calls[d] = IF at[n].kind = "secret" THEN "Removed" ELSE "NotFound"
        BY <1>2, <1>4, <1>7, <1>12, <3>3, <4>1 DEF Kinds
      <4>3. QED
        BY <1>3, <1>5, <2>1, <3>1, <3>3, <4>1, <4>2 DEF at, n
    <3>4. QED
      BY <3>2, <3>3
  <2>3. CASE d < reach
    <3>1. calls[d] = "NotFound" /\ at[d + 1].kind = "missing"
      BY <1>2, <1>4, <1>7, <1>12, <2>3
    <3>2. \A i \in 0..n : i > d => at[i].kind = "missing"
      BY <1>2, <1>7, <3>1
    <3>3. ~\E i \in 1..reach : at[i].kind = "secret"
      <4>1. \A i \in 1..reach : i \in 0..n /\ (i \in 0..d \/ i > d)
        BY <1>2, <1>7
      <4>2. QED
        BY <2>1, <3>2, <4>1
    <3>4. at[n].kind # "secret"
      BY <1>2, <1>7, <3>2
    <3>5. QED
      BY <1>3, <1>5, <3>1, <3>3, <3>4
  <2>4. QED
    BY <1>2, <1>7, <1>9, <2>2, <2>3
<1>13. QED
  BY <1>11, <1>12

-----------------------------------------------------------------------------
(* Steps.                                                                  *)

\* What tree has at q.
Seen(tree, q) == Walk(tree, q)[Len(q)]

LEMMA WaysAre ==
    /\ <<>> \in Ways
    /\ \A q \in Ways : q \in Seq(Segment) /\ Len(q) \in Nat
    /\ \A key \in Key : \A d \in 0..Len(key) : SubSeq(key, 1, d) \in Ways
<1>1. <<>> \in Ways
  BY DEF Ways
<1>2. ASSUME NEW q \in Ways PROVE q \in Seq(Segment) /\ Len(q) \in Nat
  <2>1. CASE q = <<>>
    BY <2>1
  <2>2. CASE q # <<>>
    <3>1. PICK key \in Key : q \in {SubSeq(key, 1, d) : d \in 0..Len(key)}
      BY <2>2 DEF Ways
    <3>2. PICK d \in 0..Len(key) : q = SubSeq(key, 1, d)
      BY <3>1
    <3>3. Len(key) \in Nat /\ key \in Seq(Segment)
      BY KeyIs
    <3>4. q \in Seq(Segment) /\ Len(q) = d
      BY <3>2, <3>3, PartWalks
    <3>5. QED
      BY <3>3, <3>4
  <2>3. QED
    BY <2>1, <2>2
<1>3. QED
  BY <1>1, <1>2 DEF Ways

\* A sequence is part of a key if it goes together with it and ends.
LEMMA PartIs ==
    ASSUME NEW q \in Seq(Segment), NEW key \in Seq(Segment), NEW d \in 0..Len(key)
    PROVE  q = SubSeq(key, 1, d) <=> Len(q) = d /\ Agree(q, key, d)
<1> DEFINE part == SubSeq(key, 1, d)
<1>1. part \in Seq(Segment) /\ Len(part) = d /\ \A i \in 1..d : part[i] = key[i]
  BY PartWalks
<1> HIDE DEF part
<1>2. Len(q) = d /\ Agree(q, key, d) => q = part
  BY <1>1, SeqEqual DEF Agree
<1>3. q = part => Len(q) = d /\ Agree(q, key, d)
  BY <1>1 DEF Agree
<1>4. QED
  BY <1>2, <1>3 DEF part

\* What is seen at q after new was written where the first d segments of key
\* lead to.
SeenAfter(tree, key, d, new, q) ==
    /\ q = SubSeq(key, 1, d) => Seen(tree, q) = new
    /\ \A i \in 0..d : i < d /\ q = SubSeq(key, 1, i) => Seen(tree, q).kind = "index"
    /\ Len(q) > d /\ Agree(q, key, d) =>
          Walk(tree, q)[d + 1] = Child(new, q[d + 1])
    /\ (/\ \A i \in 0..d : q # SubSeq(key, 1, i)
        /\ Len(q) > d /\ Agree(q, key, d) =>
              Child(new, q[d + 1]) = Child(Walk(root, key)[d], q[d + 1]))
          => Seen(tree, q) = NodeAt(q)

LEMMA WrittenIsSeen ==
    ASSUME NEW key \in Key, NEW d \in 0..Len(key), NEW new, NEW q \in Seq(Segment),
           \A i \in 0..Len(key) : i < d => Walk(root, key)[i].kind \in {"index", "missing"}
    PROVE  SeenAfter(Written(root, SubSeq(key, 1, d), new), key, d, new, q)
<1> DEFINE path == SubSeq(key, 1, d)
           tree == Written(root, path, new)
<1>0. key \in Seq(Segment) /\ Len(key) \in Nat /\ q \in Seq(Segment) /\ Len(q) \in Nat
      /\ d \in Nat
  BY KeyIs
<1>1. /\ path \in Seq(Segment) /\ Len(path) = d /\ \A i \in 1..d : path[i] = key[i]
      /\ \A i \in 0..d : Walk(root, path)[i] = Walk(root, key)[i]
  BY <1>0, PartWalks
<1> HIDE DEF path
<1>2. \A i \in 0..Len(path) : i < Len(path) => Walk(root, path)[i].kind \in {"index", "missing"}
  BY <1>0, <1>1
<1>3. Effect(tree, root, path, new, q)
  BY <1>0, <1>1, <1>2, WrittenWalks
<1> HIDE DEF tree
<1>4. \A i \in 0..d : Agree(q, path, i) <=> Agree(q, key, i)
  BY <1>0, <1>1 DEF Agree
<1>5. \A i \in 0..d : q = SubSeq(key, 1, i) <=> Len(q) = i /\ Agree(q, key, i)
  BY <1>0, PartIs
<1>6. q = SubSeq(key, 1, d) => Seen(tree, q) = new
  <2>1. d \in 0..d /\ d <= d
    BY <1>0
  <2>2. QED
    BY <1>1, <1>3, <1>4, <1>5, <2>1 DEF Effect, Seen
<1>7. \A i \in 0..d : i < d /\ q = SubSeq(key, 1, i) => Seen(tree, q).kind = "index"
  BY <1>0, <1>1, <1>3, <1>4, <1>5 DEF Effect, Seen
<1>8. Len(q) > d /\ Agree(q, key, d) => Walk(tree, q)[d + 1] = Child(new, q[d + 1])
  <2> SUFFICES ASSUME Len(q) > d, Agree(q, key, d)
               PROVE  Walk(tree, q)[d + 1] = Child(new, q[d + 1])
    OBVIOUS
  <2>1. Walk(tree, q)[d] = new
    BY <1>0, <1>1, <1>3, <1>4 DEF Effect
  <2>2. d + 1 \in 1..Len(q) /\ (d + 1) - 1 = d
    BY <1>0
  <2>3. QED
    BY <1>0, <2>1, <2>2, WalkIs
<1>9. ASSUME \A i \in 0..d : q # SubSeq(key, 1, i),
             Len(q) > d /\ Agree(q, key, d) =>
                 Child(new, q[d + 1]) = Child(Walk(root, key)[d], q[d + 1])
      PROVE  Seen(tree, q) = NodeAt(q)
  <2>1. CASE Len(q) <= d
    <3>1. ~Agree(q, path, Len(q)) /\ Len(q) \in 0..Len(q)
      BY <1>0, <1>4, <1>5, <1>9, <2>1
    <3>2. QED
      BY <1>1, <1>3, <2>1, <3>1 DEF Effect, Seen, NodeAt
  <2>2. CASE Len(q) > d /\ ~Agree(q, key, d)
    <3>1. ~Agree(q, path, d) /\ Len(q) \in 0..Len(q)
      BY <1>0, <1>4, <2>2
    <3>2. QED
      BY <1>1, <1>3, <2>2, <3>1 DEF Effect, Seen, NodeAt
  <2>3. CASE Len(q) > d /\ Agree(q, key, d)
    <3>1. Walk(root, q)[d] = Walk(root, key)[d]
      BY <1>0, <2>3, SameWay
    <3>2. d + 1 \in 1..Len(q) /\ (d + 1) - 1 = d /\ d + 1 \in Nat
      BY <1>0, <2>3
    <3>3. Walk(root, q)[d + 1] = Child(Walk(root, q)[d], q[d + 1])
      BY <1>0, <3>2, WalkIs
    <3>4. Walk(tree, q)[d + 1] = Walk(root, q)[d + 1]
      BY <1>8, <1>9, <2>3, <3>1, <3>3
    <3>5. \A name : Child(Walk(tree, q)[d + 1], name) = Child(Walk(root, q)[d + 1], name)
      BY <3>4
    <3>6. SameBelow(Walk(tree, q), Walk(root, q), d + 1, Len(q))
      BY <1>0, <3>2, <3>5, WalksTogether
    <3>7. Len(q) = d + 1 \/ (Len(q) \in 1..Len(q) /\ Len(q) > d + 1)
      BY <1>0, <2>3
    <3>8. QED
      BY <3>4, <3>6, <3>7 DEF SameBelow, Seen, NodeAt
  <2>4. QED
    BY <1>0, <2>1, <2>2, <2>3
<1>10. QED
  BY <1>6, <1>7, <1>8, <1>9 DEF SeenAfter, tree, path

\* The nodes on the way to the first d segments of key are indexes now and
\* were no secrets, new is at the end, and nothing else changed.
OnlyTheWay(tree, key, d, new) ==
    /\ \A q \in Ways :
          /\ q = SubSeq(key, 1, d) => Seen(tree, q) = new
          /\ \A i \in 0..d : i < d /\ q = SubSeq(key, 1, i) =>
                Seen(tree, q).kind = "index" /\ NodeAt(q) = Walk(root, key)[i]
          /\ (\A i \in 0..d : q # SubSeq(key, 1, i)) => Seen(tree, q) = NodeAt(q)
    /\ \A q \in Seq(Segment) : q \notin Ways => Seen(tree, q) = NodeAt(q)

LEMMA WrittenOnlyTheWay ==
    ASSUME NEW key \in Key, NEW d \in 0..Len(key), NEW new,
           \A i \in 0..Len(key) : i < d => Walk(root, key)[i].kind \in {"index", "missing"},
           \A name : Child(new, name) = Child(Walk(root, key)[d], name)
    PROVE  OnlyTheWay(Written(root, SubSeq(key, 1, d), new), key, d, new)
<1> DEFINE tree == Written(root, SubSeq(key, 1, d), new)
<1>0. key \in Seq(Segment) /\ Len(key) \in Nat
  BY KeyIs
<1>1. \A q \in Seq(Segment) : SeenAfter(tree, key, d, new, q)
  BY WrittenIsSeen
<1> HIDE DEF tree
<1>2. ASSUME NEW q, NEW i \in 0..d, q = SubSeq(key, 1, i)
      PROVE  NodeAt(q) = Walk(root, key)[i]
  <2>1. i \in 0..Len(key) /\ i \in 0..i
    BY <1>0
  <2>2. Len(q) = i /\ Walk(root, SubSeq(key, 1, i))[i] = Walk(root, key)[i]
    BY <1>0, <1>2, <2>1, PartWalks
  <2>3. QED
    BY <1>2, <2>2 DEF NodeAt
<1>3. \A i \in 0..d : SubSeq(key, 1, i) \in Ways
  <2>1. \A i \in 0..d : i \in 0..Len(key)
    BY <1>0
  <2>2. QED
    BY <2>1, WaysAre
<1>4. ASSUME NEW q \in Seq(Segment)
      PROVE  /\ q = SubSeq(key, 1, d) => Seen(tree, q) = new
             /\ \A i \in 0..d : i < d /\ q = SubSeq(key, 1, i) => Seen(tree, q).kind = "index"
             /\ (\A i \in 0..d : q # SubSeq(key, 1, i)) => Seen(tree, q) = NodeAt(q)
  <2>1. Len(q) > d /\ Agree(q, key, d) =>
            Child(new, q[d + 1]) = Child(Walk(root, key)[d], q[d + 1])
    OBVIOUS
  <2>2. QED
    BY <1>1, <2>1 DEF SeenAfter
<1>5. \A q \in Seq(Segment) : q \notin Ways => Seen(tree, q) = NodeAt(q)
  BY <1>3, <1>4
<1>6. ASSUME NEW q \in Ways
      PROVE  /\ q = SubSeq(key, 1, d) => Seen(tree, q) = new
             /\ \A i \in 0..d : i < d /\ q = SubSeq(key, 1, i) =>
                   Seen(tree, q).kind = "index" /\ NodeAt(q) = Walk(root, key)[i]
             /\ (\A i \in 0..d : q # SubSeq(key, 1, i)) => Seen(tree, q) = NodeAt(q)
  <2>1. q \in Seq(Segment)
    BY WaysAre
  <2>2. QED
    BY <1>2, <1>4, <2>1
<1>7. QED
  BY <1>5, <1>6 DEF OnlyTheWay, tree

\* What the mapped state is after a step.
LEMMA Mapped ==
    /\ \A kind : Paths(kind)' = {p \in Ways : Seen(root', p).kind = kind}
    /\ [p \in Paths("secret") |-> NodeAt(p).entry]'
          = [p \in {q \in Ways : Seen(root', q).kind = "secret"} |-> Seen(root', p).entry]
<1>1. \A kind : Paths(kind)' = {p \in Ways : Seen(root', p).kind = kind}
  BY DEF Paths, NodeAt, Seen
<1>2. QED
  BY <1>1 DEF NodeAt, Seen

\* What TreeInv says of the tree after a step.
LEMMA TreeKept ==
    ASSUME \A q \in Ways : Seen(root', q).kind \in Kinds,
           Seen(root', <<>>).kind = "index",
           \A q \in Seq(Segment) : q \notin Ways => Seen(root', q) = Missing
    PROVE  TreeInv'
<1>1. Seen(root', <<>>) = root'
  <2>1. <<>> \in Seq(Segment) /\ Len(<<>>) = 0
    OBVIOUS
  <2>2. QED
    BY <2>1, WalkIs DEF Seen
<1>2. QED
  BY <1>1 DEF TreeInv, NothingOffTheWays, NodeAt, Seen

\* The root and the nodes on the way to a key, as Holder names them.
LEMMA WayNodes ==
    ASSUME TreeInv, NEW key \in Key
    PROVE  /\ \A d : Flat!Prefixes(key, d) = {SubSeq(key, 1, i) : i \in 0..d}
           /\ key = SubSeq(key, 1, Len(key)) /\ <<>> = SubSeq(key, 1, 0)
           /\ \A d \in 0..Len(key) : /\ SubSeq(key, 1, d) \in Ways
                                     /\ NodeAt(SubSeq(key, 1, d)) = Walk(root, key)[d]
           /\ \A d, e \in 0..Len(key) : SubSeq(key, 1, d) = SubSeq(key, 1, e) => d = e
<1>0. key \in Seq(Segment) /\ Len(key) \in Nat
  BY KeyIs
<1>1. \A d : Flat!Prefixes(key, d) = {SubSeq(key, 1, i) : i \in 0..d}
  BY DEF Flat!Prefixes, Flat!Prefix
<1>2. \A d \in 0..Len(key) :
         Len(SubSeq(key, 1, d)) = d /\ Walk(root, SubSeq(key, 1, d))[d] = Walk(root, key)[d]
  BY <1>0, PartWalks
<1>3. key = SubSeq(key, 1, Len(key)) /\ <<>> = SubSeq(key, 1, 0)
  <2>1. 0 \in 0..Len(key) /\ Len(<<>>) = 0 /\ <<>> \in Seq(Segment) /\ Agree(<<>>, key, 0)
    BY <1>0 DEF Agree
  <2>2. QED
    BY <1>0, <2>1, PartIs, SubSeqFull
<1>4. QED
  BY <1>1, <1>2, <1>3, WaysAre DEF NodeAt

\* set on a key that is there.
LEMMA SetOverwrites ==
    ASSUME TreeInv, NEW key \in Key, NEW value, NEW mode,
           GetInner(root, key) = "Ok", root' = WithData(root, key, value)
    PROVE  Flat!Overwrite(key, value, mode) /\ TreeInv'
<1> DEFINE n == Len(key)
           at == Walk(root, key)
           entry == [at[n].entry EXCEPT !.value = value, !.updated = TRUE]
<1>1. Way(key, at) /\ OnPaths(key, at)
  BY WayIs
<1>2. Flat!GetResult(key) = "Ok" /\ at[n].kind = "secret"
  <2>1. Flat!GetResult(key) = "Ok"
    BY GetAgrees
  <2>2. QED
    BY <1>1, <2>1, FlatAnswers
<1>3. n \in Nat \ {0} /\ n \in 0..n /\ \A i \in 0..n : i < n => at[i].kind = "index"
  BY <1>1, <1>2 DEF Way
<1>4. /\ key = SubSeq(key, 1, n) /\ <<>> = SubSeq(key, 1, 0) /\ key \in Ways
      /\ \A d \in 0..n : NodeAt(SubSeq(key, 1, d)) = at[d]
      /\ \A d, e \in 0..n : SubSeq(key, 1, d) = SubSeq(key, 1, e) => d = e
  BY WayNodes, KeyIs
<1>5. OnlyTheWay(root', key, n, Leaf(entry))
  <2>1. \A name : Child(Leaf(entry), name) = Child(at[n], name)
    BY <1>2 DEF Child, Leaf
  <2>2. root' = Written(root, SubSeq(key, 1, n), Leaf(entry))
    BY <1>4 DEF WithData
  <2> HIDE DEF entry
  <2>3. QED
    BY <1>3, <2>1, <2>2, WrittenOnlyTheWay
<1>6. /\ Seen(root', key).kind = "secret" /\ Seen(root', key).entry = entry
      /\ NodeAt(key).kind = "secret" /\ NodeAt(key).entry = at[n].entry
  <2>1. Seen(root', key) = Leaf(entry)
    BY <1>4, <1>5 DEF OnlyTheWay
  <2>2. NodeAt(key) = at[n]
    BY <1>3, <1>4
  <2>3. QED
    BY <1>2, <2>1, <2>2 DEF Leaf
<1> HIDE DEF entry, at, n
<1>7. \A q \in Ways : q # key =>
         \/ Seen(root', q).kind = "index" /\ NodeAt(q).kind = "index"
         \/ Seen(root', q) = NodeAt(q)
  BY <1>3, <1>4, <1>5 DEF OnlyTheWay, at
<1>8. TreeInv'
  <2>1. \A q \in Ways : Seen(root', q).kind \in Kinds
    BY <1>6, <1>7 DEF TreeInv, Kinds
  <2>2. Seen(root', <<>>).kind = "index"
    BY <1>3, <1>4, <1>5, WaysAre DEF OnlyTheWay
  <2>3. \A q \in Seq(Segment) : q \notin Ways => Seen(root', q) = Missing
    BY <1>5 DEF OnlyTheWay, TreeInv, NothingOffTheWays
  <2>4. QED
    BY <2>1, <2>2, <2>3, TreeKept
<1>9. Paths("index")' = Paths("index")
  BY <1>6, <1>7, Mapped DEF Paths
<1>10. Paths("secret")' = Paths("secret") /\ key \in Paths("secret")
  BY <1>4, <1>6, <1>7, Mapped DEF Paths
<1> DEFINE secret == [p \in Paths("secret") |-> NodeAt(p).entry]
<1>11. secret' = [secret EXCEPT ![key].value = value, ![key].updated = TRUE]
  <2>1. secret' = [p \in Paths("secret") |-> Seen(root', p).entry]
    BY <1>10, Mapped
  <2>2. \A p \in Paths("secret") : p # key => Seen(root', p).entry = NodeAt(p).entry
    BY <1>7 DEF Paths
  <2>3. entry = [NodeAt(key).entry EXCEPT !.value = value, !.updated = TRUE]
    BY <1>6 DEF entry
  <2>4. QED
    BY <1>6, <1>10, <2>1, <2>2, <2>3
<1>12. QED
  BY <1>2, <1>8, <1>9, <1>11 DEF Flat!Overwrite

\* set on a key that is not there, where set_inner stores it.
LEMMA SetInserts ==
    ASSUME TreeInv, NEW key \in Key, NEW value, NEW mode,
           GetInner(root, key) = "KeyNotFound",
           SetCalls(root, key)[Last(SetCalls(root, key))] = "Ok",
           root' = SetInner(root, key, [value |-> value, mode |-> mode, updated |-> FALSE]).node
    PROVE  Flat!Insert(key, value, mode) /\ TreeInv'
<1> DEFINE n == Len(key)
           at == Walk(root, key)
           entry == [value |-> value, mode |-> mode, updated |-> FALSE]
           tail == n > 1 /\ key[n] = Empty
<1>1. Way(key, at) /\ OnPaths(key, at)
  BY WayIs
<1>2. Flat!GetResult(key) = "KeyNotFound" /\ Flat!InsertResult(key) = "Ok"
  BY GetAgrees, SetAgrees
<1>3. at[n].kind = "missing"
  <2>1. ~tail /\ at[n].kind # "index"
    BY <1>1, <1>2, FlatAnswers DEF Flat!InsertResult
  <2>2. at[n].kind # "secret"
    BY <1>1, <1>2, <2>1, FlatAnswers
  <2>3. n \in 0..n
    BY KeyIs
  <2>4. at[n].kind \in Kinds
    BY <1>1, <2>3 DEF Way
  <2>5. QED
    BY <2>1, <2>2, <2>4 DEF Kinds
<1>4. /\ n \in Nat \ {0} /\ n \in 0..n
      /\ \A i \in 0..n : i < n <=> i \in 0..(n - 1)
      /\ \A i \in 0..n : i < n => at[i].kind \in {"index", "missing"}
  <2>1. n \in Nat \ {0} /\ n \in 0..n /\ \A i \in 0..n : i < n <=> i \in 0..(n - 1)
    BY KeyIs
  <2>2. /\ Last(SetCalls(root, key)) = n - 1
        /\ \A i \in 0..(n - 1) : i < n - 1 => at[i].kind \in {"index", "missing"}
        /\ at[n - 1].kind \in {"index", "missing"}
    BY SetAgrees
  <2> HIDE DEF n, at
  <2>3. ASSUME NEW i \in 0..n, i < n PROVE at[i].kind \in {"index", "missing"}
    <3>1. i = n - 1 \/ (i \in 0..(n - 1) /\ i < n - 1)
      BY <2>1, <2>3
    <3>2. QED
      BY <2>2, <3>1
  <2>4. QED
    BY <2>1, <2>3
<1>5. /\ key = SubSeq(key, 1, n) /\ <<>> = SubSeq(key, 1, 0) /\ key \in Ways
      /\ \A d \in 0..n : SubSeq(key, 1, d) \in Ways /\ NodeAt(SubSeq(key, 1, d)) = at[d]
      /\ \A d, e \in 0..n : SubSeq(key, 1, d) = SubSeq(key, 1, e) => d = e
      /\ Flat!Prefixes(key, n - 1) = {SubSeq(key, 1, i) : i \in 0..(n - 1)}
  BY WayNodes, KeyIs
<1> HIDE DEF entry
<1>6. OnlyTheWay(root', key, n, Leaf(entry))
  <2>1. \A name : Child(Leaf(entry), name) = Child(at[n], name)
    BY <1>3 DEF Child, Leaf
  <2>2. root' = Written(root, SubSeq(key, 1, n), Leaf(entry))
    BY <1>5 DEF SetInner, entry
  <2>3. QED
    BY <1>4, <2>1, <2>2, WrittenOnlyTheWay
<1>7. Seen(root', key).kind = "secret" /\ Seen(root', key).entry = entry
      /\ NodeAt(key).kind = "missing"
  <2>1. Seen(root', key) = Leaf(entry)
    BY <1>5, <1>6 DEF OnlyTheWay
  <2>2. NodeAt(key) = at[n]
    BY <1>4, <1>5
  <2>3. QED
    BY <1>3, <2>1, <2>2 DEF Leaf
<1> HIDE DEF at, n
<1> DEFINE above == {SubSeq(key, 1, i) : i \in 0..(n - 1)}
<1>8. \A q \in above : q \in Ways /\ q # key /\ Seen(root', q).kind = "index"
                        /\ NodeAt(q).kind \in {"index", "missing"}
  <2> SUFFICES ASSUME NEW i \in 0..(n - 1)
               PROVE  LET q == SubSeq(key, 1, i)
                      IN  /\ q \in Ways /\ q # key /\ Seen(root', q).kind = "index"
                          /\ NodeAt(q).kind \in {"index", "missing"}
    OBVIOUS
  <2>1. i \in 0..n /\ i < n /\ i # n
    BY <1>4
  <2>2. QED
    BY <1>4, <1>5, <1>6, <2>1 DEF OnlyTheWay
<1>9. \A q \in Ways : q # key /\ q \notin above => Seen(root', q) = NodeAt(q)
  <2> SUFFICES ASSUME NEW q \in Ways, q # key, q \notin above PROVE Seen(root', q) = NodeAt(q)
    OBVIOUS
  <2>1. \A i \in 0..n : q # SubSeq(key, 1, i)
    BY <1>4, <1>5
  <2>2. QED
    BY <1>6, <2>1 DEF OnlyTheWay
<1>10. <<>> \in above
  <2>1. 0 \in 0..(n - 1)
    BY <1>4
  <2>2. QED
    BY <1>5, <2>1
<1> HIDE DEF above
<1>11. TreeInv'
  <2>1. \A q \in Ways : Seen(root', q).kind \in Kinds
    BY <1>7, <1>8, <1>9 DEF TreeInv, Kinds
  <2>2. \A q \in Seq(Segment) : q \notin Ways => Seen(root', q) = Missing
    BY <1>6 DEF OnlyTheWay, TreeInv, NothingOffTheWays
  <2>3. QED
    BY <1>8, <1>10, <2>1, <2>2, TreeKept
<1>12. Paths("index")' = Paths("index") \cup above
  <2>1. Paths("index")' = {q \in Ways : Seen(root', q).kind = "index"}
    BY Mapped
  <2>2. \A q \in Ways : Seen(root', q).kind = "index" <=> NodeAt(q).kind = "index" \/ q \in above
    BY <1>7, <1>8, <1>9
  <2>3. QED
    BY <1>8, <2>1, <2>2 DEF Paths
<1>13. Paths("secret")' = Paths("secret") \cup {key}
  <2>1. Paths("secret")' = {q \in Ways : Seen(root', q).kind = "secret"}
    BY Mapped
  <2>2. \A q \in Ways : Seen(root', q).kind = "secret" <=> NodeAt(q).kind = "secret" \/ q = key
    BY <1>7, <1>8, <1>9
  <2>3. QED
    BY <1>5, <2>1, <2>2 DEF Paths
<1> DEFINE secret == [p \in Paths("secret") |-> NodeAt(p).entry]
<1>14. secret' = [p \in DOMAIN secret \cup {key} |-> IF p = key THEN entry ELSE secret[p]]
  <2>1. secret' = [p \in Paths("secret") \cup {key} |-> Seen(root', p).entry]
    BY <1>13, Mapped
  <2>2. \A p \in Paths("secret") : p # key => Seen(root', p).entry = NodeAt(p).entry
    BY <1>8, <1>9 DEF Paths
  <2>3. QED
    BY <1>7, <2>1, <2>2
<1>15. QED
  BY <1>2, <1>5, <1>11, <1>12, <1>14 DEF Flat!Insert, entry, above, n

\* set on a key that is not there, where set_inner refuses: the indexes that
\* were made on the way stay if the empty tail is what it stumbled over, and
\* none was made otherwise.
LEMMA SetRefuses ==
    ASSUME TreeInv, NEW key \in Key, NEW new,
           GetInner(root, key) = "KeyNotFound",
           SetCalls(root, key)[Last(SetCalls(root, key))] # "Ok",
           root' = SetInner(root, key, new).node
    PROVE  /\ Flat!RefuseAfterDescent(key) \/ Flat!Refuse(key)
           /\ TreeInv'
<1> DEFINE n == Len(key)
           at == Walk(root, key)
           d == Last(SetCalls(root, key))
           res == SetCalls(root, key)[d]
           end == OrDefault(at[d])
<1>1. Way(key, at) /\ OnPaths(key, at)
  BY WayIs
<1>2. Flat!GetResult(key) = "KeyNotFound" /\ Flat!InsertResult(key) = res
  BY GetAgrees, SetAgrees
<1>3. /\ n \in Nat \ {0} /\ d \in 0..n /\ \A i \in 0..n : at[i].kind \in Kinds
      /\ \A i \in 0..n : i < d => at[i].kind \in {"index", "missing"}
      /\ \A i \in 0..n : i < d <=> i \in 0..(d - 1)
  <2>1. /\ d \in 0..(n - 1) /\ n \in Nat \ {0}
        /\ \A i \in 0..(n - 1) : i < d => at[i].kind \in {"index", "missing"}
    BY SetAgrees, KeyIs
  <2>2. \A i \in 0..n : at[i].kind \in Kinds
    BY <1>1 DEF Way
  <2> HIDE DEF n, d, at
  <2>3. QED
    BY <2>1, <2>2
<1>4. /\ key = SubSeq(key, 1, n) /\ <<>> = SubSeq(key, 1, 0)
      /\ \A i \in 0..n : SubSeq(key, 1, i) \in Ways /\ NodeAt(SubSeq(key, 1, i)) = at[i]
      /\ \A i, j \in 0..n : SubSeq(key, 1, i) = SubSeq(key, 1, j) => i = j
      /\ Flat!Prefixes(key, d) = {SubSeq(key, 1, i) : i \in 0..d}
  BY WayNodes, KeyIs
<1>5. OnlyTheWay(root', key, d, end)
  <2>1. \A name : Child(end, name) = Child(at[d], name)
    BY DEF Child, OrDefault, Index, NoKids, Missing
  <2>2. root' = Written(root, SubSeq(key, 1, d), end)
    BY DEF SetInner
  <2> HIDE DEF d, end
  <2>3. QED
    BY <1>3, <2>1, <2>2, WrittenOnlyTheWay
<1>6. end.kind = (IF at[d].kind = "missing" THEN "index" ELSE at[d].kind)
      /\ (at[d].kind # "missing" => end = at[d])
  BY DEF OrDefault, Index
<1>7. res \in {"KeyIsASecret", "EmptyKey", "KeyIsAnIndex"}
  BY <1>2 DEF Flat!InsertResult
<1>8. res # "KeyIsASecret" => at[d].kind \in {"index", "missing"}
  BY SetAgrees
<1>9. res = "KeyIsASecret" \/ res = "KeyIsAnIndex" =>
         at[d].kind # "missing" /\ \A i \in 0..n : i < d => at[i].kind = "index"
  <2>1. \A i, j \in 0..n : i < j /\ at[i].kind # "index" => at[j].kind = "missing"
    BY <1>1 DEF Way
  <2>2. CASE res = "KeyIsASecret"
    <3>1. at[d].kind = "secret"
      <4>1. d \in 0..(n - 1)
        BY SetAgrees
      <4>2. res = IF at[d].kind = "secret" THEN "KeyIsASecret"
                  ELSE IF TailIsEmpty(key, d) THEN "EmptyKey"
                  ELSE IF ~NoSlash(key, d) THEN "descend"
                  ELSE IF at[d + 1].kind = "index" THEN "KeyIsAnIndex" ELSE "Ok"
        <5> HIDE DEF d
        <5>1. QED
          BY <4>1 DEF SetCalls
      <4>3. QED
        BY <2>2, <4>2
    <3>2. QED
      BY <1>3, <2>1, <3>1
  <2>3. CASE res = "KeyIsAnIndex"
    <3>1. d = n - 1
      BY <2>3, SetAgrees
    <3>2. at[n].kind = "index"
      BY <1>1, <1>2, <2>3, FlatAnswers DEF Flat!InsertResult
    <3>3. QED
      BY <1>3, <2>1, <3>1, <3>2
  <2>4. QED
    BY <2>2, <2>3
<1>10. res = "EmptyKey" => d = Flat!Reach(key)
  BY SetAgrees
<1> HIDE DEF at, n, d, res, end
<1> DEFINE way == {SubSeq(key, 1, i) : i \in 0..d}
           top == SubSeq(key, 1, d)
<1>11. top \in way /\ way \subseteq Ways /\ Seen(root', top) = end /\ NodeAt(top) = at[d]
  <2>1. d \in 0..d /\ \A i \in 0..d : i \in 0..n
    BY <1>3
  <2>2. way \subseteq Ways
    BY <1>4, <2>1
  <2>3. top \in way /\ top \in Ways /\ NodeAt(top) = at[d]
    BY <1>3, <1>4, <2>1
  <2>4. Seen(root', top) = end
    BY <1>5, <2>3 DEF OnlyTheWay
  <2>5. QED
    BY <2>2, <2>3, <2>4
<1>12. \A q \in way : q # top => Seen(root', q).kind = "index"
                               /\ \E i \in 0..n : i < d /\ NodeAt(q) = at[i]
  <2> SUFFICES ASSUME NEW i \in 0..d, SubSeq(key, 1, i) # top
               PROVE  LET q == SubSeq(key, 1, i)
                      IN  Seen(root', q).kind = "index" /\ i \in 0..n /\ i < d /\ NodeAt(q) = at[i]
    OBVIOUS
  <2>1. i \in 0..n /\ i < d
    BY <1>3
  <2>2. QED
    BY <1>4, <1>5, <2>1 DEF OnlyTheWay
<1>13. \A q \in Ways : q \notin way => Seen(root', q) = NodeAt(q)
  BY <1>5 DEF OnlyTheWay
<1>14. <<>> \in way /\ (<<>> = top => at[d].kind = "index")
  <2>1. 0 \in 0..d /\ 0 \in 0..n /\ at[0].kind = "index"
    BY <1>1, <1>3 DEF Way, n
  <2>2. QED
    BY <1>3, <1>4, <2>1
<1> HIDE DEF way, top
<1>15. TreeInv'
  <2>1. end.kind \in Kinds
    BY <1>3, <1>6 DEF Kinds
  <2>2. \A q \in Ways : Seen(root', q).kind \in Kinds
    BY <1>11, <1>12, <1>13, <2>1 DEF TreeInv, Kinds
  <2>3. Seen(root', <<>>).kind = "index"
    BY <1>6, <1>11, <1>12, <1>14
  <2>4. \A q \in Seq(Segment) : q \notin Ways => Seen(root', q) = Missing
    BY <1>5 DEF OnlyTheWay, TreeInv, NothingOffTheWays
  <2>5. QED
    BY <2>2, <2>3, <2>4, TreeKept
<1> DEFINE secret == [p \in Paths("secret") |-> NodeAt(p).entry]
<1>16. UNCHANGED secret
  <2>1. \A q \in way : q # top => NodeAt(q).kind # "secret"
    BY <1>3, <1>12
  <2>2. at[d].kind = "secret" => end = at[d]
    BY <1>6
  <2>3. at[d].kind # "secret" => end.kind # "secret"
    BY <1>6
  <2>4. \A q \in Ways : Seen(root', q).kind = "secret" <=> NodeAt(q).kind = "secret"
    BY <1>11, <1>12, <1>13, <2>1, <2>2, <2>3
  <2>5. \A q \in Ways : NodeAt(q).kind = "secret" => Seen(root', q) = NodeAt(q)
    BY <1>11, <1>13, <2>1, <2>2
  <2>6. {q \in Ways : Seen(root', q).kind = "secret"} = Paths("secret")
    BY <2>4 DEF Paths
  <2>7. secret' = [p \in Paths("secret") |-> Seen(root', p).entry]
    BY <2>6, Mapped
  <2>8. \A p \in Paths("secret") : Seen(root', p).entry = NodeAt(p).entry
    BY <2>5 DEF Paths
  <2>9. QED
    BY <2>7, <2>8
<1>17. CASE res = "EmptyKey"
  <2>1. at[d].kind \in {"index", "missing"} /\ end.kind = "index"
    BY <1>6, <1>8, <1>17
  <2>2. \A q \in way : Seen(root', q).kind = "index"
    BY <1>11, <1>12, <2>1
  <2>3. Paths("index")' = Paths("index") \cup way
    <3>1. Paths("index")' = {q \in Ways : Seen(root', q).kind = "index"}
      BY Mapped
    <3>2. \A q \in Ways : Seen(root', q).kind = "index" <=> NodeAt(q).kind = "index" \/ q \in way
      BY <1>13, <2>2
    <3>3. QED
      BY <1>11, <3>1, <3>2 DEF Paths
  <2>4. Flat!RefuseAfterDescent(key)
    BY <1>2, <1>4, <1>10, <1>16, <1>17, <2>3 DEF Flat!RefuseAfterDescent, way
  <2>5. QED
    BY <1>15, <2>4
<1>18. CASE res # "EmptyKey"
  <2>1. /\ res \in {"KeyIsASecret", "KeyIsAnIndex"} /\ end = at[d]
        /\ \A i \in 0..n : i < d => at[i].kind = "index"
    BY <1>6, <1>7, <1>9, <1>18
  <2>2. \A q \in Ways : Seen(root', q).kind = NodeAt(q).kind
    BY <1>11, <1>12, <1>13, <2>1
  <2>3. Paths("index")' = Paths("index")
    BY <2>2, Mapped DEF Paths
  <2>4. Flat!Refuse(key)
    BY <1>2, <1>16, <2>1, <2>3 DEF Flat!Refuse, Flat!vars
  <2>5. QED
    BY <1>15, <2>4
<1>19. QED
  BY <1>17, <1>18

\* set.
LEMMA SetIsSet ==
    ASSUME TreeInv, NEW key \in Key, NEW value, NEW mode, Set(key, value, mode)
    PROVE  Flat!Set(key, value, mode) /\ TreeInv'
<1> DEFINE new == [value |-> value, mode |-> mode, updated |-> FALSE]
           res == SetCalls(root, key)[Last(SetCalls(root, key))]
<1>1. CASE GetInner(root, key) = "Ok"
  <2>1. root' = WithData(root, key, value)
    BY <1>1 DEF Set
  <2>2. QED
    BY <1>1, <2>1, SetOverwrites DEF Flat!Set
<1>2. CASE GetInner(root, key) = "KeyNotFound"
  <2>1. root' = SetInner(root, key, new).node
    BY <1>2 DEF Set
  <2>2. CASE res = "Ok"
    BY <1>2, <2>1, <2>2, SetInserts DEF Flat!Set
  <2>3. CASE res # "Ok"
    <3> HIDE DEF new
    <3>1. QED
      BY <1>2, <2>1, <2>3, SetRefuses DEF Flat!Set
  <2>4. QED
    BY <2>2, <2>3
<1>3. CASE GetInner(root, key) \notin {"Ok", "KeyNotFound"}
  <2>1. root' = root
    BY <1>3 DEF Set
  <2>2. Flat!GetResult(key) = "EmptyKey"
    BY <1>3, GetAgrees DEF Flat!GetResult
  <2>3. UNCHANGED Flat!vars /\ TreeInv'
    BY <2>1 DEF Flat!vars, Paths, NodeAt, TreeInv, NothingOffTheWays
  <2>4. QED
    BY <2>2, <2>3 DEF Flat!Set, Flat!Refuse
<1>4. QED
  BY <1>1, <1>2, <1>3

\* remove.
LEMMA RemoveIsRemove ==
    ASSUME TreeInv, NEW key \in Key, Remove(key)
    PROVE  (Flat!Remove(key) \/ Flat!RemoveNothing(key)) /\ TreeInv'
<1> DEFINE n == Len(key)
           at == Walk(root, key)
           res == RemoveInner(root, key).res
           kids == at[n - 1].kids
           rest == Index([k \in DOMAIN kids \ {key[n]} |-> kids[k]])
           top == SubSeq(key, 1, n - 1)
<1>1. res = Flat!RemoveResult(key)
  BY RemoveAgrees
<1>2. CASE res # "Removed"
  <2>1. root' = root
    BY <1>2 DEF Remove, RemoveInner
  <2>2. UNCHANGED Flat!vars /\ TreeInv'
    BY <2>1 DEF Flat!vars, Paths, NodeAt, TreeInv, NothingOffTheWays
  <2>3. QED
    BY <1>1, <1>2, <2>2 DEF Flat!RemoveNothing
<1>3. CASE res = "Removed"
  <2>1. root' = Written(root, top, rest)
    BY <1>3 DEF Remove, RemoveInner
  <2>2. at[n].kind = "secret" /\ \A i \in 0..(n - 1) : at[i].kind = "index"
    BY <1>3, RemoveAgrees
  <2>3. /\ key \in Seq(Segment) /\ n \in Nat \ {0} /\ n \in 0..n /\ key \in Ways
        /\ n - 1 \in 0..n /\ n - 1 \in 0..(n - 1) /\ (n - 1) + 1 = n /\ n \in 1..n
    BY KeyIs
  <2>4. \A i \in 0..n : i < n - 1 => at[i].kind \in {"index", "missing"}
    BY <2>2, <2>3
  <2>5. rest.kind = "index"
        /\ \A name : Child(rest, name) = IF name = key[n] THEN Missing ELSE Child(at[n - 1], name)
    BY <2>2, <2>3 DEF Child, Index, Missing
  <2>6. /\ key = SubSeq(key, 1, n) /\ <<>> = SubSeq(key, 1, 0)
        /\ \A i \in 0..n : SubSeq(key, 1, i) \in Ways /\ NodeAt(SubSeq(key, 1, i)) = at[i]
        /\ \A i, j \in 0..n : SubSeq(key, 1, i) = SubSeq(key, 1, j) => i = j
    BY WayNodes
  <2> HIDE DEF rest
  <2>7. \A q \in Seq(Segment) : SeenAfter(root', key, n - 1, rest, q)
    BY <2>1, <2>3, <2>4, WrittenIsSeen
  <2> HIDE DEF n, at, top, kids
  <2>8. Seen(root', key).kind = "missing" /\ NodeAt(key).kind = "secret"
    <3>1. Agree(key, key, n - 1) /\ Len(key) > n - 1 /\ Len(key) = n
      BY <2>3 DEF Agree, n
    <3>2. Walk(root', key)[(n - 1) + 1] = Child(rest, key[(n - 1) + 1])
      BY <2>3, <2>7, <3>1 DEF SeenAfter
    <3>3. Seen(root', key) = Missing
      BY <2>3, <2>5, <3>1, <3>2 DEF Seen
    <3>4. NodeAt(key) = at[n]
      BY <2>3, <2>6
    <3>5. QED
      BY <2>2, <3>3, <3>4 DEF Missing
  <2>9. ASSUME NEW q \in Seq(Segment), q # key
        PROVE  \/ q \in Ways /\ Seen(root', q).kind = "index" /\ NodeAt(q).kind = "index"
               \/ Seen(root', q) = NodeAt(q)
    <3>0. q \in Seq(Segment) /\ Len(q) \in Nat
      OBVIOUS
    <3>1. CASE \E i \in 0..(n - 1) : q = SubSeq(key, 1, i)
      <4>1. PICK i \in 0..(n - 1) : q = SubSeq(key, 1, i)
        BY <3>1
      <4>2. i \in 0..n /\ (i = n - 1 \/ i < n - 1)
        BY <2>3, <4>1
      <4>3. q \in Ways /\ NodeAt(q) = at[i] /\ at[i].kind = "index"
        BY <2>2, <2>6, <4>1, <4>2
      <4>4. Seen(root', q).kind = "index"
        BY <2>5, <2>7, <4>1, <4>2 DEF SeenAfter
      <4>5. QED
        BY <4>3, <4>4
    <3>2. CASE /\ \A i \in 0..(n - 1) : q # SubSeq(key, 1, i)
               /\ Len(q) >= n /\ Agree(q, key, n)
      <4>1. Len(q) > n
        <5>1. Len(q) # n
          BY <2>3, <2>6, <2>9, <3>0, <3>2, PartIs DEF n
        <5>2. QED
          BY <2>3, <3>0, <3>2, <5>1
      <4>2. Len(q) > n - 1 /\ Agree(q, key, n - 1) /\ q[n] = key[n]
        BY <2>3, <3>0, <3>2 DEF Agree
      <4>3. Walk(root', q)[n] = Missing
        <5>1. Walk(root', q)[(n - 1) + 1] = Child(rest, q[(n - 1) + 1])
          BY <2>7, <4>2 DEF SeenAfter
        <5>2. QED
          BY <2>3, <2>5, <4>2, <5>1
      <4>4. Walk(root, q)[n] = at[n]
        BY <2>3, <3>0, <3>2, SameWay DEF at, n
      <4>5. Walk(root', q)[n].kind # "index" /\ Walk(root, q)[n].kind # "index"
        BY <2>2, <4>3, <4>4 DEF Missing
      <4>6. n \in 0..Len(q) /\ Len(q) \in 0..Len(q) /\ Len(q) > n
        BY <2>3, <3>0, <4>1
      <4>7. Walk(root', q)[Len(q)] = Missing /\ Walk(root, q)[Len(q)] = Missing
        BY <3>0, <4>5, <4>6, NothingBelow
      <4>8. QED
        BY <4>7 DEF Seen, NodeAt
    <3>3. CASE /\ \A i \in 0..(n - 1) : q # SubSeq(key, 1, i)
               /\ ~(Len(q) >= n /\ Agree(q, key, n))
      <4>1. ASSUME Len(q) > n - 1, Agree(q, key, n - 1)
            PROVE  Child(rest, q[(n - 1) + 1]) = Child(at[n - 1], q[(n - 1) + 1])
        <5>1. Len(q) >= n
          BY <2>3, <3>0, <4>1
        <5>2. q[n] # key[n]
          BY <2>3, <3>3, <4>1, <5>1 DEF Agree
        <5>3. QED
          BY <2>3, <2>5, <5>2
      <4>2. QED
        BY <2>7, <3>3, <4>1 DEF SeenAfter, at
    <3>4. QED
      BY <3>1, <3>2, <3>3
  <2>10. TreeInv'
    <3>1. \A q \in Ways : Seen(root', q).kind \in Kinds
      BY <2>8, <2>9, WaysAre DEF TreeInv, Kinds
    <3>2. Seen(root', <<>>).kind = "index"
      <4>1. 0 \in 0..n /\ 0 \in 0..(n - 1) /\ n # 0
        BY <2>3
      <4>2. <<>> # key /\ <<>> \in Ways /\ NodeAt(<<>>).kind = "index"
        BY <2>2, <2>3, <2>6, <4>1
      <4>3. QED
        BY <2>9, <4>2, WaysAre
    <3>3. \A q \in Seq(Segment) : q \notin Ways => Seen(root', q) = Missing
      BY <2>3, <2>9 DEF TreeInv, NothingOffTheWays
    <3>4. QED
      BY <3>1, <3>2, <3>3, TreeKept
  <2>11. Paths("index")' = Paths("index")
    <3>1. \A q \in Ways : Seen(root', q).kind = "index" <=> NodeAt(q).kind = "index"
      BY <2>8, <2>9, WaysAre
    <3>2. QED
      BY <3>1, Mapped DEF Paths
  <2> DEFINE secret == [p \in Paths("secret") |-> NodeAt(p).entry]
  <2>12. secret' = [p \in DOMAIN secret \ {key} |-> secret[p]]
    <3>1. \A q \in Ways : Seen(root', q).kind = "secret" <=> NodeAt(q).kind = "secret" /\ q # key
      BY <2>8, <2>9, WaysAre
    <3>2. {q \in Ways : Seen(root', q).kind = "secret"} = Paths("secret") \ {key}
      BY <3>1 DEF Paths
    <3>3. secret' = [p \in Paths("secret") \ {key} |-> Seen(root', p).entry]
      BY <3>2, Mapped
    <3>4. \A p \in Paths("secret") \ {key} : Seen(root', p).entry = NodeAt(p).entry
      BY <2>9, WaysAre DEF Paths
    <3>5. QED
      BY <3>3, <3>4
  <2>13. Flat!Remove(key)
    BY <1>1, <1>3, <2>11, <2>12 DEF Flat!Remove
  <2>14. QED
    BY <2>10, <2>13
<1>4. QED
  BY <1>2, <1>3

-----------------------------------------------------------------------------
(* The theorems.                                                           *)

\* The empty tree is the empty store.
LEMMA InitIsInit ==
    ASSUME Init
    PROVE  Flat!Init /\ TreeInv
<1>1. ASSUME NEW q \in Seq(Segment)
      PROVE  NodeAt(q) = IF q = <<>> THEN Index(NoKids) ELSE Missing
  <2>1. q \in Seq(Segment) /\ Len(q) \in Nat
    OBVIOUS
  <2>2. Walk(root, q)[0] = Index(NoKids)
    BY <2>1, WalkIs DEF Init
  <2>3. CASE Len(q) = 0
    BY <2>1, <2>2, <2>3 DEF NodeAt
  <2>4. CASE Len(q) # 0
    <3>1. 1 \in 1..Len(q) /\ 1 - 1 = 0 /\ 1 \in 0..Len(q) /\ Len(q) \in 0..Len(q)
      BY <2>1, <2>4
    <3>2. Walk(root, q)[1] = Missing
      BY <2>1, <2>2, <3>1, WalkIs DEF Child, Index, NoKids
    <3>3. Len(q) > 1 => Walk(root, q)[Len(q)] = Missing
      <4>1. Walk(root, q)[1].kind # "index"
        BY <3>2 DEF Missing
      <4>2. QED
        BY <2>1, <3>1, <4>1, NothingBelow
    <3>4. Len(q) = 1 \/ Len(q) > 1
      <4>1. \A l \in Nat : l # 0 => l = 1 \/ l > 1
        OBVIOUS
      <4>2. QED
        BY <2>1, <2>4, <4>1, Zenon
    <3>5. QED
      BY <2>4, <3>2, <3>3, <3>4 DEF NodeAt
  <2>5. QED
    BY <2>3, <2>4
<1>2. ASSUME NEW q \in Ways
      PROVE  NodeAt(q).kind = IF q = <<>> THEN "index" ELSE "missing"
  <2>1. NodeAt(q) = IF q = <<>> THEN Index(NoKids) ELSE Missing
    BY <1>1, WaysAre, Zenon
  <2>2. QED
    BY <2>1 DEF Index, Missing
<1>3. Paths("index") = {<<>>} /\ Paths("secret") = {}
  BY <1>2, WaysAre DEF Paths
<1>4. TreeInv
  BY <1>1, <1>2, WaysAre DEF TreeInv, NothingOffTheWays, Kinds, Init, Index
<1>5. QED
  BY <1>3, <1>4 DEF Flat!Init

\* A step of the tree is a step of the store.
LEMMA StepIsStep ==
    ASSUME TreeInv, [Next]_root
    PROVE  [Flat!Next]_(Flat!vars) /\ TreeInv'
<1>1. CASE UNCHANGED root
  BY <1>1 DEF Flat!vars, Paths, NodeAt, TreeInv, NothingOffTheWays
<1>2. ASSUME NEW key \in Key, NEW value \in Value, NEW mode \in Mode, Set(key, value, mode)
      PROVE  Flat!Next /\ TreeInv'
  BY <1>2, SetIsSet DEF Flat!Next
<1>3. ASSUME NEW key \in Key, Remove(key)
      PROVE  Flat!Next /\ TreeInv'
  BY <1>3, RemoveIsRemove DEF Flat!Next
<1>4. QED
  BY <1>1, <1>2, <1>3 DEF Next

LEMMA TreeInvHolds == Spec => []TreeInv
<1>1. Init => TreeInv
  BY InitIsInit
<1>2. TreeInv /\ [Next]_root => TreeInv'
  BY StepIsStep
<1>3. QED
  BY <1>1, <1>2, PTL DEF Spec

\* Whatever was set and removed before, the walks of get, set and remove give
\* the answers Holder gives, for every key: the order in which the code tests
\* for an empty tail, a missing node and a node of the other kind never shows.
THEOREM AnswersAgreeHolds == Spec => []AnswersAgree
<1>1. ASSUME TreeInv PROVE AnswersAgree
  <2> SUFFICES ASSUME NEW key \in Key
      PROVE  /\ GetInner(root, key) = Flat!GetResult(key)
             /\ RemoveInner(root, key).res = Flat!RemoveResult(key)
             /\ \A entry : SetInner(root, key, entry).res = Flat!InsertResult(key)
    BY DEF AnswersAgree
  <2>1. \A entry : SetInner(root, key, entry).res = Flat!InsertResult(key)
    BY <1>1, SetAgrees DEF SetInner
  <2>2. QED
    BY <1>1, <2>1, GetAgrees, RemoveAgrees
<1>2. QED
  BY <1>1, TreeInvHolds, PTL

\* No sequence of calls leaves a node where no key leads: the mapping of the
\* theorem below looks at the whole of the tree.
THEOREM NothingOffTheWaysHolds == Spec => []NothingOffTheWays
<1>1. TreeInv => NothingOffTheWays
  BY DEF TreeInv
<1>2. QED
  BY <1>1, TreeInvHolds, PTL

\* The nested nodes implement the store of paths: every set and every remove
\* of the tree, the refused ones included, is the step of Holder of that name.
THEOREM ImplementsHolderHolds == Spec => ImplementsHolder
<1>1. Init => Flat!Init
  BY InitIsInit
<1>2. TreeInv /\ [Next]_root => [Flat!Next]_(Flat!vars)
  BY StepIsStep
<1>3. QED
  BY <1>1, <1>2, TreeInvHolds, PTL DEF Spec, ImplementsHolder, Flat!Spec
=============================================================================

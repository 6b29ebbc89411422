----------------------------- MODULE HolderTree -----------------------------
(***************************************************************************)
(* The tree of src/src/shrine/holder.rs as the code has it: an index node  *)
(* maps names to nodes, a secret node holds an entry, and every operation  *)
(* walks down from the root, one segment of the key at a time.  It is      *)
(* shown to implement Holder, which describes the same store by its paths, *)
(* and to answer as Holder says.                                           *)
(*                                                                         *)
(* Each walk is a chain of tail calls: the call at depth d has the node    *)
(* that the first d segments lead to and the rest of the key, and answers  *)
(* or leaves the answer to the call at depth d + 1.                        *)
(***************************************************************************)
EXTENDS Naturals, Sequences

CONSTANTS Segment, Empty, Key, Value, Mode

ASSUME TreeAssumption ==
    /\ Empty \in Segment
    /\ Key \subseteq Seq(Segment) \ {<<>>}

VARIABLE root       \* Holder.secrets, the root node

Index(kids) == [kind |-> "index", kids |-> kids]
Leaf(entry) == [kind |-> "secret", entry |-> entry]
Missing == [kind |-> "missing"]     \* None

NoKids == [k \in {} |-> k]

\* index.get(name)
Child(node, name) ==
    IF node.kind = "index" /\ name \in DOMAIN node.kids THEN node.kids[name] ELSE Missing

\* Mutant of OrDefault: always a new index.
NewIndex(node) == Index(NoKids)

\* get_or_default_mut: a new empty index where there is nothing.
OrDefault(node) == IF node.kind = "missing" THEN Index(NoKids) ELSE node

\* index.insert(name, node)
Put(kids, name, node) ==
    [k \in DOMAIN kids \cup {name} |-> IF k = name THEN node ELSE kids[k]]

\* split_once('/') on what follows the first d segments of a key: there is no
\* '/', or the tail is empty, or there are two parts.
NoSlash(key, d) == d = Len(key) - 1
\* Mutant of TailIsEmpty: any rest that ends with a '/'.
EndsWithSlash(key, d) == d < Len(key) - 1 /\ key[Len(key)] = Empty

TailIsEmpty(key, d) == d = Len(key) - 2 /\ key[Len(key)] = Empty

-----------------------------------------------------------------------------
(* The walks.                                                              *)

\* The nodes that the segments of key lead to, from node at depth 0.
Walk(node, key) ==
    LET at[d \in 0..Len(key)] == IF d = 0 THEN node ELSE Child(at[d - 1], key[d])
    IN  at

\* Writing through the &mut a walk along path ends with: the tree under node,
\* with new at the end of path, and the indexes on the way that were missing.
Written(node, path, new) ==
    LET at == Walk(node, path)
        above[n \in 0..Len(path)] ==       \* n steps above the end
            IF n = 0 THEN new
            ELSE LET d == Len(path) - n
                 IN  Index(Put(OrDefault(at[d]).kids, path[d + 1], above[n - 1]))
    IN  above[Len(path)]

\* The depth of the call that answers.
Last(calls) ==
    CHOOSE d \in DOMAIN calls :
        calls[d] # "descend" /\ \A e \in DOMAIN calls : e < d => calls[e] = "descend"

\* get_inner and get_mut_inner, which have the same tests.
GetCalls(node, key) ==
    LET at == Walk(node, key)
    IN  [d \in 0..(Len(key) - 1) |->
            IF TailIsEmpty(key, d) THEN "EmptyKey"
            ELSE IF ~NoSlash(key, d)
              THEN IF at[d + 1].kind = "missing" THEN "KeyNotFound" ELSE "descend"
            ELSE IF at[d + 1].kind = "secret" THEN "Ok" ELSE "KeyNotFound"]

GetInner(node, key) == GetCalls(node, key)[Last(GetCalls(node, key))]

\* with_data on the secret get_mut_inner found.
WithData(node, key, value) ==
    LET entry == Walk(node, key)[Len(key)].entry
    IN  Written(node, key, Leaf([entry EXCEPT !.value = value, !.updated = TRUE]))

\* set_inner: what each call answers, ...
SetCalls(node, key) ==
    LET at == Walk(node, key)
    IN  [d \in 0..(Len(key) - 1) |->
            IF at[d].kind = "secret" THEN "KeyIsASecret"
            ELSE IF TailIsEmpty(key, d) THEN "EmptyKey"
            ELSE IF ~NoSlash(key, d) THEN "descend"
            ELSE IF at[d + 1].kind = "index" THEN "KeyIsAnIndex" ELSE "Ok"]

\* ... the answer, and the node it leaves: the calls on the way have made the
\* indexes that were missing, whether the last one takes the entry or not.
SetInner(node, key, entry) ==
    LET calls == SetCalls(node, key)
        d == Last(calls)
    IN  [res  |-> calls[d],
         node |-> IF calls[d] = "Ok" THEN Written(node, key, Leaf(entry))
                  ELSE Written(node, SubSeq(key, 1, d), OrDefault(Walk(node, key)[d]))]

\* remove: what each call answers, ...
RemoveCalls(node, key) ==
    LET at == Walk(node, key)
    IN  [d \in 0..(Len(key) - 1) |->
            IF at[d].kind # "index" THEN "Panic"
            ELSE IF TailIsEmpty(key, d) \/ at[d + 1].kind = "missing" THEN "NotFound"
            ELSE IF ~NoSlash(key, d) THEN "descend"
            ELSE IF at[d + 1].kind = "index" THEN "NotFound" ELSE "Removed"]

\* ... the answer, and the node it leaves.
RemoveInner(node, key) ==
    LET calls == RemoveCalls(node, key)
        res == calls[Last(calls)]
        kids == Walk(node, key)[Len(key) - 1].kids
    IN  [res  |-> res,
         node |-> IF res = "Removed"
                    THEN Written(node, SubSeq(key, 1, Len(key) - 1),
                           Index([k \in DOMAIN kids \ {key[Len(key)]} |-> kids[k]]))
                    ELSE node]

-----------------------------------------------------------------------------
(* Actions.                                                                *)

Init == root = Index(NoKids)

\* Shrine::set
Set(key, value, mode) ==
    LET found == GetInner(root, key)
        new == [value |-> value, mode |-> mode, updated |-> FALSE]
    IN  root' = CASE found = "Ok"          -> WithData(root, key, value)
                  [] found = "KeyNotFound" -> SetInner(root, key, new).node
                  [] OTHER                 -> root

\* Shrine::remove
Remove(key) == root' = RemoveInner(root, key).node

Next ==
    \E key \in Key :
        \/ \E value \in Value, mode \in Mode : Set(key, value, mode)
        \/ Remove(key)

Spec == Init /\ [][Next]_root

-----------------------------------------------------------------------------
(* The refinement mapping: what the ways to the keys lead to.              *)

Ways == {<<>>} \cup UNION {{SubSeq(key, 1, d) : d \in 0..Len(key)} : key \in Key}

NodeAt(path) == Walk(root, path)[Len(path)]

\* The paths of the nodes of a kind.
Paths(kind) == {p \in Ways : NodeAt(p).kind = kind}

Flat == INSTANCE Holder WITH
            index   <- Paths("index"),
            secret  <- [p \in Paths("secret") |-> NodeAt(p).entry],
            private <- {},
            Private <- {}

-----------------------------------------------------------------------------
(* Properties.                                                             *)

\* The walks over the nested nodes do to the paths exactly what Holder says,
\* the inner nodes made by a refused set included.
ImplementsHolder == Flat!Spec

\* The walks give the answers Holder gives, for every key in every reachable
\* tree, the order of the empty-tail test and of the node-kind test included.
AnswersAgree ==
    \A key \in Key :
        /\ GetInner(root, key) = Flat!GetResult(key)
        /\ RemoveInner(root, key).res = Flat!RemoveResult(key)
        /\ \A value \in Value, mode \in Mode :
              LET new == [value |-> value, mode |-> mode, updated |-> FALSE]
              IN  GetInner(root, key) = "KeyNotFound" =>
                      SetInner(root, key, new).res = Flat!InsertResult(key)
=============================================================================

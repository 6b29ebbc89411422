--------------------------- MODULE HolderListing ---------------------------
(***************************************************************************)
(* keys, len and is_empty of src/src/shrine/holder.rs, which visit every   *)
(* node of the tree of HolderTree.                                         *)
(***************************************************************************)
EXTENDS HolderTree, FiniteSetsExt, Bags

\* Mutant of Join: the prefix of the root is extended too.
Extend(prefix, name) == Append(prefix, name)

\* keys_inner: a prefix that is the empty string is replaced, not extended.
Join(prefix, name) == IF prefix = <<Empty>> THEN <<name>> ELSE Append(prefix, name)

\* The bag of the listed keys.
RECURSIVE KeysInner(_, _)
KeysInner(node, prefix) ==
    IF node.kind = "secret" THEN SetToBag({prefix})
    ELSE MapThenFoldSet((+), EmptyBag,
                        LAMBDA k : KeysInner(node.kids[k], Join(prefix, k)),
                        LAMBDA s : CHOOSE k \in s : TRUE,
                        DOMAIN node.kids)

RECURSIVE LenInner(_)
LenInner(node) ==
    IF node.kind = "secret" THEN 1
    ELSE MapThenSumSet(LAMBDA k : LenInner(node.kids[k]), DOMAIN node.kids)

\* is_empty looks at the root index only: it holds no node at all.
IsEmpty == root.kids = NoKids

\* len counts every secret and keys() lists as many names; a key that does not
\* start with a '/' is among them as it is, and when no key starts with one
\* the names are the stored keys, each once.  Indexes that refused sets and
\* removals left, and empty segments further on, change nothing of it; but for
\* them is_empty is only one-way: a store that says it is empty has no secret.
ListingAgrees ==
    LET stored == Paths("secret")
        keys == KeysInner(root, <<Empty>>)
        plain == {p \in stored : p[1] # Empty}
    IN  /\ LenInner(root) = Flat!SecretCount
        /\ BagCardinality(keys) = Flat!SecretCount
        /\ plain \subseteq BagToSet(keys)
        /\ plain = stored => keys = SetToBag(stored)
        /\ IsEmpty => LenInner(root) = 0
=============================================================================

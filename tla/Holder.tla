------------------------------- MODULE Holder -------------------------------
(***************************************************************************)
(* The in-memory store of a shrine: what the tree of src/src/shrine/       *)
(* holder.rs promises, seen through Shrine::set, get, remove and keys of   *)
(* src/src/shrine.rs.                                                      *)
(*                                                                         *)
(* A key is a non-empty sequence of segments, the parts of the key string  *)
(* between its '/' signs; a segment may be the empty string.  The tree is  *)
(* flattened: `index' is the set of paths that lead to an inner node, and  *)
(* `secret' maps the path of every leaf to what is stored there.           *)
(* HolderTree has the nested nodes of the code and implements this module. *)
(***************************************************************************)
EXTENDS Naturals, Sequences, FiniteSets

CONSTANTS
    Segment,        \* the segments a key can be made of
    Empty,          \* the empty segment
    Key,            \* the keys the callers use
    Value,          \* the secret values
    Mode,           \* text or binary
    Private         \* the private (configuration) settings: name, value pairs

ASSUME KeyAssumption ==
    /\ Empty \in Segment
    /\ Key \subseteq Seq(Segment) \ {<<>>}

VARIABLES
    index,          \* the paths of the inner nodes, the root <<>> included
    secret,         \* path of a leaf -> its value, its mode, whether updated
    private         \* the private settings that are present

vars == <<index, secret, private>>

Entry == [value : Value, mode : Mode, updated : BOOLEAN]

-----------------------------------------------------------------------------
(* Paths.                                                                  *)

\* The path of depth d on the way to key.
Prefix(key, d) == SubSeq(key, 1, d)

\* All the paths on the way to key, from the root to depth d.
Prefixes(key, d) == {Prefix(key, i) : i \in 0..d}

\* split_once gave an empty tail: the key ends with a '/'.
EmptyTail(key) == Len(key) > 1 /\ key[Len(key)] = Empty

\* The depth of the last node a walk along key looks into.
Reach(key) == IF EmptyTail(key) THEN Len(key) - 2 ELSE Len(key) - 1

Nodes == index \cup DOMAIN secret

\* The walk meets a secret where it needs an index.
Blocked(key) == \E d \in 1..Reach(key) : Prefix(key, d) \in DOMAIN secret

-----------------------------------------------------------------------------
(* The answers of the operations in the current state.                     *)

\* get_inner looks at the empty tail before it looks at the kind of the
\* node, so the error depends on whether the walk gets that far.
GetResult(key) ==
    IF EmptyTail(key)
      THEN IF Prefix(key, Reach(key)) \in Nodes THEN "EmptyKey" ELSE "KeyNotFound"
      ELSE IF key \in DOMAIN secret THEN "Ok" ELSE "KeyNotFound"

\* Mutant of InsertResult: a leaf may take the place of an index.
InsertOverIndex(key) ==
    IF Blocked(key) THEN "KeyIsASecret"
    ELSE IF EmptyTail(key) THEN "EmptyKey"
    ELSE "Ok"

\* Mutant of InsertResult: a key that ends with a '/' is accepted.
InsertEmptyTail(key) ==
    IF Blocked(key) THEN "KeyIsASecret"
    ELSE IF key \in index THEN "KeyIsAnIndex"
    ELSE "Ok"

\* What Holder::set answers when get_mut found nothing; set_inner looks at
\* the kind of the node first.
InsertResult(key) ==
    IF Blocked(key) THEN "KeyIsASecret"
    ELSE IF EmptyTail(key) THEN "EmptyKey"
    ELSE IF key \in index THEN "KeyIsAnIndex"
    ELSE "Ok"

\* The walk of remove panics when it meets a secret on its way.
RemoveResult(key) ==
    IF Blocked(key) THEN "Panic"
    ELSE IF GetResult(key) = "Ok" THEN "Removed"
    ELSE "NotFound"

SecretCount == Cardinality(DOMAIN secret)

\* The name under which keys() lists a path: a prefix that is still the
\* empty string is replaced by the segment, not joined to it.
Listed(path) ==
    LET named == {i \in 1..Len(path) : path[i] # Empty}
    IN  IF named = {} THEN Prefix(path, 1)
        ELSE LET first == CHOOSE i \in named : \A j \in named : i <= j
             IN  SubSeq(path, first, Len(path))

-----------------------------------------------------------------------------
(* Actions, one for each way an operation changes the store.               *)

Init ==
    /\ index = {<<>>}
    /\ secret = [p \in {} |-> p]
    /\ private = {}

\* Shrine::set on a key that is there: the mode of the call is not used.
Overwrite(key, value, mode) ==
    /\ GetResult(key) = "Ok"
    /\ secret' = [secret EXCEPT ![key].value = value, ![key].updated = TRUE]
    /\ UNCHANGED <<index, private>>

\* Shrine::set on a key that is not there: set_inner makes the missing
\* inner nodes on its way down, then the leaf.
Insert(key, value, mode) ==
    /\ GetResult(key) = "KeyNotFound"
    /\ InsertResult(key) = "Ok"
    /\ index' = index \cup Prefixes(key, Len(key) - 1)
    /\ secret' = [p \in DOMAIN secret \cup {key} |->
                    IF p = key
                      THEN [value |-> value, mode |-> mode, updated |-> FALSE]
                      ELSE secret[p]]
    /\ UNCHANGED private

\* Shrine::set refused with EmptyKey by set_inner: the inner nodes made on
\* the way down stay.
RefuseAfterDescent(key) ==
    /\ GetResult(key) = "KeyNotFound"
    /\ InsertResult(key) = "EmptyKey"
    /\ index' = index \cup Prefixes(key, Reach(key))
    /\ UNCHANGED <<secret, private>>

\* Shrine::set refused with nothing changed: EmptyKey from get_mut,
\* KeyIsASecret or KeyIsAnIndex from set_inner.
Refuse(key) ==
    /\ \/ GetResult(key) = "EmptyKey"
       \/ /\ GetResult(key) = "KeyNotFound"
          /\ InsertResult(key) \in {"KeyIsASecret", "KeyIsAnIndex"}
    /\ UNCHANGED vars

Set(key, value, mode) ==
    \/ Overwrite(key, value, mode)
    \/ Insert(key, value, mode)
    \/ RefuseAfterDescent(key)
    \/ Refuse(key)

\* Mutant of Remove: the index that held the leaf goes with it.
RemoveWithParent(key) ==
    /\ RemoveResult(key) = "Removed"
    /\ LET parent == Prefix(key, Len(key) - 1)
           below == {p \in Nodes : Len(p) >= Len(parent) /\ Prefix(p, Len(parent)) = parent}
       IN  /\ secret' = [p \in DOMAIN secret \ below |-> secret[p]]
           /\ index' = (index \ below) \cup {<<>>}
    /\ UNCHANGED private

\* Holder::remove takes the leaf and leaves the inner nodes above it.
Remove(key) ==
    /\ RemoveResult(key) = "Removed"
    /\ secret' = [p \in DOMAIN secret \ {key} |-> secret[p]]
    /\ UNCHANGED <<index, private>>

\* Holder::remove found nothing, or panicked.
RemoveNothing(key) ==
    /\ RemoveResult(key) # "Removed"
    /\ UNCHANGED vars

\* Mutant of SetPrivate: the old value of the name stays.
AddPrivate(setting) ==
    /\ private' = private \cup {setting}
    /\ UNCHANGED <<index, secret>>

\* Holder::set_private: one value per name.
SetPrivate(setting) ==
    /\ private' = {s \in private : s[1] # setting[1]} \cup {setting}
    /\ UNCHANGED <<index, secret>>

RemovePrivate(setting) ==
    /\ private' = {s \in private : s[1] # setting[1]}
    /\ UNCHANGED <<index, secret>>

Next ==
    \/ \E key \in Key :
          \/ \E value \in Value, mode \in Mode : Set(key, value, mode)
          \/ Remove(key)
          \/ RemoveNothing(key)
    \/ \E setting \in Private : SetPrivate(setting) \/ RemovePrivate(setting)

Spec == Init /\ [][Next]_vars

-----------------------------------------------------------------------------
(* Properties.                                                             *)

\* Types of the state: inner nodes are paths over Segment, secrets are stored
\* under keys the callers used.
TypeOK ==
    /\ index \subseteq Seq(Segment)
    /\ DOMAIN secret \subseteq Key
    /\ secret \in [DOMAIN secret -> Entry]
    /\ private \subseteq Private
    /\ \A s, t \in private : s[1] = t[1] => s = t

\* The flat picture is a tree: nothing is both an inner node and a secret,
\* and every path on the way to a node is an inner node, so that no secret
\* lies below another one (set_inner, get_or_default_mut, remove).
TreeShape ==
    /\ <<>> \in index
    /\ index \cap DOMAIN secret = {}
    /\ \A p \in Nodes : \A d \in 0..(Len(p) - 1) : Prefix(p, d) \in index

\* Whatever sequence of accepted and refused calls led here, a stored secret
\* is read under the path it was stored at, and, unless its key starts with
\* a '/', keys() lists it under that very path.
StoredIsReadable ==
    \A p \in DOMAIN secret :
        /\ GetResult(p) = "Ok"
        /\ p[1] # Empty => Listed(p) = p

\* A path whose stored entry is not the same after a step.
Differs(p) ==
    \/ p \in DOMAIN secret /\ p \notin DOMAIN secret'
    \/ p \notin DOMAIN secret /\ p \in DOMAIN secret'
    \/ p \in DOMAIN secret /\ p \in DOMAIN secret' /\ secret[p] # secret'[p]

\* One call never touches two secrets: setting "a" cannot take "a/b" away,
\* removing "a/b" cannot take "a/c", and settings never touch secrets.
OneSecretPerCall ==
    [][/\ \A p, q \in DOMAIN secret \cup DOMAIN secret' :
              Differs(p) /\ Differs(q) => p = q
       /\ private' # private => secret' = secret]_vars
=============================================================================

------------------------------ MODULE MCHolder ------------------------------
(***************************************************************************)
(* A small instance of Holder for TLC: every key of up to three segments   *)
(* made of the empty segment and one name, and a sibling two levels down.  *)
(***************************************************************************)
EXTENDS Holder

CONSTANTS a, b, e, v, text, binary

MCSegment == {a, b, e}

MCKey == UNION {[1..n -> {a, e}] : n \in 1..3} \cup {<<a, b>>}

MCPrivate == {<<"git.enabled", "true">>, <<"git.enabled", "false">>}
=============================================================================

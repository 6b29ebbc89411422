---------------------------- MODULE MCHolderTree ----------------------------
(***************************************************************************)
(* A small instance of HolderTree for TLC: every key of up to two segments *)
(* made of the empty segment and one name, those of three that start with  *)
(* the name, and one that starts with two empty segments.                  *)
(***************************************************************************)
EXTENDS HolderListing

CONSTANTS a, e, v, text, binary

MCSegment == {a, e}

MCKey ==
    UNION {[1..n -> {a, e}] : n \in 1..2}
      \cup {<<a, x, y>> : x, y \in {a, e}} \cup {<<e, e, a>>}
=============================================================================

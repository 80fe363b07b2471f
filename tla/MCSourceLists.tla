--------------------------- MODULE MCSourceLists ----------------------------
(***************************************************************************)
(* Two sources, one of them connected by two calls, a third module, and a  *)
(* request of any kind.                                                    *)
(***************************************************************************)
EXTENDS SourceLists

CONSTANTS s1, s2, again, other, q

MCName == [c \in Connects |-> IF c = again THEN s1 ELSE c]
=============================================================================

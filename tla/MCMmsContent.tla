----------------------------- MODULE MCMmsContent -----------------------------
(* Small instances of MmsContent for TLC.                                  *)
EXTENDS MmsContent, TLC

CONSTANTS photo, broken, big, text, text2, d1, d2, d3

(* text and text2 have no attachment, and big one, which is over the       *)
(* limit.  The first attachment of broken cannot be read.                  *)
ImagesOf == [c \in Contents |-> CASE c \in {text, text2} -> {}
                                  [] c = big -> {0}
                                  [] OTHER -> Indexes]
UnreadableOf == [c \in Contents |-> IF c \in {broken, big} THEN {0} ELSE {}]

Symmetry == Permutations(Deliveries)
=============================================================================

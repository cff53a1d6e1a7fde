---------------------------- MODULE MCSessions ----------------------------
(* Sessions for model checking. *)
EXTENDS Sessions, TLC

CONSTANTS x, xs

\* xs is x with white space around it; other names have none.
TrimXs == [n \in Names |-> IF n = xs THEN x ELSE n]

\* Uuids are interchangeable.
Symmetry == Permutations(Ids)
============================================================================

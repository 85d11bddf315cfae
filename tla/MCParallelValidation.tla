----------------------- MODULE MCParallelValidation -----------------------
(***************************************************************************)
(* Instances of ParallelValidation for TLC.  The active chain is g-p-a; b  *)
(* came after a and has the child d; x, y and z compete on top of a.       *)
(***************************************************************************)
EXTENDS ParallelValidation

CONSTANTS g, p, a, b, d, x, y, z

Tree == {g, p, a, b, d, x, y, z}

ParentOf ==
    [c \in Tree \ {g} |-> CASE c = p -> g [] c \in {a, b} -> p
                            [] c = d -> b [] c \in {x, y, z} -> a]

\* x is the largest block: y may take its place.
SizeOf == [c \in Tree |-> IF c = x THEN 2 ELSE 1]

UnitWork == [c \in Tree |-> 1]

AddrOf == [c \in Tree |-> CASE c = g -> 0 [] c = p -> 1 [] c = a -> 2 [] c = b -> 3
                           [] c = d -> 4 [] c = x -> 5 [] c = y -> 6
                           [] c = z -> 7]
=============================================================================

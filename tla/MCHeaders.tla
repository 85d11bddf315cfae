----------------------------- MODULE MCHeaders ------------------------------
(***************************************************************************)
(* Time in minutes; targets of 24 bits, of which a compact one keeps eleven*)
(* at most.                                                                *)
(***************************************************************************)
EXTENDS Headers

GenesisVal == [nTime |-> 0, nBits |-> 32768, signal |-> FALSE]
SomeHeaders == {<<-6, FALSE>>, <<0, TRUE>>, <<4, FALSE>>, <<4, TRUE>>, <<60, FALSE>>}
FasterHeaders == {8, 10} \X BOOLEAN
=============================================================================

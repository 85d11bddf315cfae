------------------------------- MODULE Ledger -------------------------------
(***************************************************************************)
(* What the chain state promises its users: at every moment a best block   *)
(* and exactly the coins that its chain leaves unspent.  The best block    *)
(* moves one block at a time, up to a child or back to the parent.  The    *)
(* disk holds such a pair as well, which changes only by becoming a copy   *)
(* of the pair in memory; losing the memory takes the node back to it.     *)
(*                                                                         *)
(* The promise ends when a block could not be applied as a whole.          *)
(***************************************************************************)
CONSTANTS
    Blocks, Genesis, Parent,
    UTXO            \* the coins left unspent by the chain that ends in a block

VARIABLES
    best, coins,            \* in memory
    diskBest, diskCoins,    \* on disk
    torn                    \* a block was applied in part

vars == <<best, coins, diskBest, diskCoins, torn>>

Init ==
    /\ best = Genesis /\ coins = UTXO[Genesis]
    /\ diskBest = Genesis /\ diskCoins = UTXO[Genesis]
    /\ torn = FALSE

MoveTo(b) ==
    /\ best' = b /\ coins' = UTXO[b]
    /\ UNCHANGED <<diskBest, diskCoins, torn>>

Extend == \E b \in Blocks \ {Genesis} : Parent[b] = best /\ MoveTo(b)

Retract == best # Genesis /\ MoveTo(Parent[best])

Persist ==
    /\ diskBest' = best /\ diskCoins' = coins
    /\ UNCHANGED <<best, coins, torn>>

Recover ==
    /\ best' = diskBest /\ coins' = diskCoins
    /\ UNCHANGED <<diskBest, diskCoins, torn>>

Lapse == torn'

Next == Lapse \/ (~torn /\ (Extend \/ Retract \/ Persist \/ Recover))

Spec == Init /\ [][Next]_vars
=============================================================================

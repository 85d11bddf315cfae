----------------------------- MODULE MCMVFFork -----------------------------
(***************************************************************************)
(* Instances of MVFFork for TLC: the command lines and the SegWit heights. *)
(***************************************************************************)
EXTENDS MVFFork

CONSTANTS main, alt     \* two branches

Plain == [forkheight |-> 3, forkid |-> 1, dropok |-> TRUE, backupblock |-> NoVal,
          segwitfork |-> TRUE, wallet |-> "enabled", reindex |-> FALSE]

OnlyPlain == {Plain}

\* No SegWit trigger.  The operator may reindex, move the backup block, change
\* -forkheight, or run a build without a wallet.
HeightTrigger ==
    {[Plain EXCEPT !.segwitfork = FALSE, !.forkheight = 2, !.wallet = "disabled"],
     [Plain EXCEPT !.segwitfork = FALSE, !.reindex = TRUE, !.backupblock = 1],
     [Plain EXCEPT !.segwitfork = FALSE, !.forkheight = 0],
     [Plain EXCEPT !.segwitfork = FALSE, !.forkid = 2, !.wallet = "notbuilt"]}

\* Both triggers.  The operator reindexes, moves the backup block behind the fork,
\* or edits the fork's height and id.
EditedSettings ==
    {Plain, [Plain EXCEPT !.reindex = TRUE], [Plain EXCEPT !.backupblock = 4],
     [Plain EXCEPT !.forkheight = 4, !.forkid = 2]}

\* SegWit activates on one branch right after the split, on the other never.
SegwitOnMain == [b \in Branches |-> IF b = main THEN SplitHeight + 1 ELSE MaxHeight + 1]

NoSegwit == [b \in Branches |-> MaxHeight + 1]
=============================================================================

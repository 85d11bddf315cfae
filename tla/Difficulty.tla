----------------------------- MODULE Difficulty -----------------------------
(***************************************************************************)
(* The work that a block must have (pow.cpp, consensus/params.h), as a     *)
(* function of the headers before it: the original rule below the fork     *)
(* height, the reset of the fork block, and the rule of the fork after it. *)
(*                                                                         *)
(* A chain is the sequence of its headers, the genesis block first.  A     *)
(* target is a number below Base^Digits; with Base = 256 and Digits = 32   *)
(* it is an arith_uint256.  nBits stands for the target it encodes.        *)
(***************************************************************************)
EXTENDS Integers, Sequences, FiniteSets, FiniteSetsExt

CONSTANTS
    nPowTargetSpacing, nPowTargetTimespan, powLimit,
    fPowAllowMinDifficultyBlocks, fPowNoRetargeting, forceRetarget,
    FinalActivateForkHeight, FinalDifficultyDropFactor,
    Base, Digits

ASSUME DifficultyAssumption ==
    /\ nPowTargetSpacing \in Nat /\ nPowTargetSpacing >= 10
    /\ nPowTargetTimespan \in Nat /\ nPowTargetTimespan >= nPowTargetSpacing
    /\ FinalActivateForkHeight \in Nat \ {0} /\ FinalDifficultyDropFactor \in Nat \ {0}
    /\ Base \in Nat \ {0, 1} /\ Digits \in Nat
    /\ powLimit \in 1 .. Base^Digits - 1

Height(c) == Len(c) - 1
At(c, h) == c[h + 1]

----------------------------------------------------------------------------
(* arith_uint256.                                                          *)

Size(x) == Min({n \in 0 .. Digits : x < Base^n})

\* SetCompact of GetCompact: three digits are kept, two if the first has the sign bit.
Compact(x) ==
    LET size     == Size(x)
        mantissa == IF size <= 3 THEN x * Base^(3 - size) ELSE x \div Base^(size - 3)
        drop     == size - IF 2 * mantissa >= Base^3 THEN 2 ELSE 3
        unit     == IF drop > 0 THEN Base^drop ELSE 1
    IN  (x \div unit) * unit

Times(x, y) == (x * y) % Base^Digits

LimitCompact == Compact(powLimit)

----------------------------------------------------------------------------
(* consensus/params.h: the schedule after the fork.                        *)

HARDFORK_RETARGET_BLOCKS == 180 * 144

MVFisWithinRetargetPeriod(h) == h >= FinalActivateForkHeight

MVFPowTargetTimespan(h) ==
    LET m == h - FinalActivateForkHeight
        spacings == IF m <= 7 THEN 1 ELSE IF m <= 46 THEN 6 ELSE IF m <= 153 THEN 36
                    ELSE IF m <= 299 THEN 72 ELSE IF m <= 1299 THEN 144
                    ELSE IF m <= 4999 THEN 288 ELSE IF m <= 9999 THEN 432
                    ELSE IF m <= 14999 THEN 576 ELSE 1152
    IN  IF MVFisWithinRetargetPeriod(h) /\ m <= HARDFORK_RETARGET_BLOCKS
        THEN nPowTargetSpacing * spacings ELSE nPowTargetTimespan

OriginalInterval == nPowTargetTimespan \div nPowTargetSpacing

DifficultyAdjustmentInterval(h) ==
    LET m == h - FinalActivateForkHeight
    IN  IF ~MVFisWithinRetargetPeriod(h) THEN OriginalInterval
        ELSE IF m <= 2016 THEN 1 ELSE IF m <= 3999 THEN 10 ELSE IF m <= 9999 THEN 40
        ELSE IF m <= 14999 THEN 100 ELSE IF m <= 19999 THEN 400
        ELSE IF m <= HARDFORK_RETARGET_BLOCKS THEN 1000 ELSE 2016

----------------------------------------------------------------------------
Clamp(span, low, high) == IF span < low THEN low ELSE IF span > high THEN high ELSE span

\* Mutant: the target may exceed the limit.
Unlimited(x) == x

Limited(x) == IF x > powLimit THEN powLimit ELSE x

\* The product before the quotient.
CalculateNextWorkRequired(old, span) ==
    IF fPowNoRetargeting /\ ~forceRetarget THEN old
    ELSE LET actual == Clamp(span, nPowTargetTimespan \div 4, nPowTargetTimespan * 4)
         IN  Compact(Limited(Times(old, actual) \div nPowTargetTimespan))

\* Mutant: the product first, as before the fork.
ScaleProductFirst(old, actual, target) == Limited(Times(old, actual) \div target)

\* The quotient before the product, which is powLimit if it overflows.
Scale(old, actual, target) ==
    LET quotient == old \div target
        product  == Times(quotient, actual)
    IN  IF product \div actual # quotient THEN powLimit ELSE Limited(product)

RetargetLimit(target) == IF target >= nPowTargetSpacing * 3 THEN 4 ELSE 10

CalculateMVFNextWorkRequired(old, span, target) ==
    IF fPowNoRetargeting /\ ~forceRetarget THEN old
    ELSE IF span = 0 THEN LimitCompact
    ELSE LET limit  == RetargetLimit(target)
             actual == Clamp(span, target \div limit, target * limit)
         IN  Compact(Scale(old, actual, target))

\* The division of an arith_uint256 by zero throws.  (A negative divisor would become
\* a large one; the times of the headers that are modelled do not go back that far.)
Undefined == -1

CalculateMVFResetWorkRequired(old, span) ==
    LET target == span \div FinalDifficultyDropFactor
    IN  IF span < FinalDifficultyDropFactor THEN Undefined ELSE Compact(Scale(old, span, target))

----------------------------------------------------------------------------
\* Mutant: the last block, special or not.
LastBlock(c) == c[Len(c)].nBits

\* The last block that did not use the special rule for test networks.  (Below the fork
\* the interval is the original one.)
LastNormal(c) ==
    At(c, Max({h \in 0 .. Height(c) :
                 h = 0 \/ h % DifficultyAdjustmentInterval(h) = 0 \/ At(c, h).nBits # LimitCompact})).nBits

\* Between two adjustments; the special rule allows a block of minimal difficulty
\* when none came for twice the spacing.
BetweenAdjustments(c, time) ==
    IF ~(fPowAllowMinDifficultyBlocks /\ ~forceRetarget) THEN c[Len(c)].nBits
    ELSE IF time > c[Len(c)].nTime + nPowTargetSpacing * 2 THEN LimitCompact
    ELSE LastNormal(c)

Span(c, first) == c[Len(c)].nTime - At(c, first).nTime

GetMVFNextWorkRequired(c, time) ==
    LET last   == Height(c)
        target == MVFPowTargetTimespan(last)
        first  == Max({0, last - target \div nPowTargetSpacing})
        old    == c[Len(c)].nBits
    IN  IF last = FinalActivateForkHeight - 1
        THEN CalculateMVFResetWorkRequired(old, Span(c, first))
        ELSE IF (last + 1) % DifficultyAdjustmentInterval(last) # 0
        THEN BetweenAdjustments(c, time)
        ELSE CalculateMVFNextWorkRequired(old, Span(c, first), target)

GetNextWorkRequired(c, time) ==
    LET last == Height(c)
    IN  IF MVFisWithinRetargetPeriod(last + 1) THEN GetMVFNextWorkRequired(c, time)
        ELSE IF (last + 1) % OriginalInterval # 0 THEN BetweenAdjustments(c, time)
        ELSE CalculateNextWorkRequired(c[Len(c)].nBits, Span(c, last - (OriginalInterval - 1)))

\* CheckProofOfWork, but for the hash itself: the target can be met.
TargetInRange(x) == x \in 1 .. powLimit
=============================================================================

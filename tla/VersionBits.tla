---------------------------- MODULE VersionBits -----------------------------
(***************************************************************************)
(* The state of a deployment (versionbits.cpp), with its cache.  The state *)
(* of a period is that of the block before it; a block is its chain.       *)
(***************************************************************************)
EXTENDS Integers, Sequences, FiniteSets, FiniteSetsExt, Functions

CONSTANTS
    nMedianTimeSpan,
    nPeriod, nThreshold, nTimeStart, nTimeTimeout

ASSUME VersionBitsAssumption ==
    /\ nMedianTimeSpan \in Nat \ {0}
    /\ nPeriod \in Nat \ {0} /\ nThreshold \in 1 .. nPeriod
    /\ nTimeStart \in Int /\ nTimeTimeout \in Int

States == {"DEFINED", "STARTED", "LOCKED_IN", "ACTIVE", "FAILED"}

\* The median of the last times; the upper one of the middle two.
GetMedianTimePast(c) ==
    LET last == {i \in DOMAIN c : i > Len(c) - nMedianTimeSpan}
        half == Cardinality(last) \div 2
        t == CHOOSE i \in last :
               /\ Cardinality({j \in last : c[j].nTime < c[i].nTime}) <= half
               /\ Cardinality({j \in last : c[j].nTime <= c[i].nTime}) > half
    IN  c[t].nTime

\* Blocks of the last period that signal (Condition).
Signals(c) == Cardinality({i \in DOMAIN c : i > Len(c) - nPeriod /\ c[i].signal})

NextState(state, c) ==
    LET past == GetMedianTimePast(c)
    IN  IF state \in {"DEFINED", "STARTED"} /\ past >= nTimeTimeout THEN "FAILED"
        ELSE IF state = "DEFINED" /\ past >= nTimeStart THEN "STARTED"
        ELSE IF state = "STARTED" /\ Signals(c) >= nThreshold THEN "LOCKED_IN"
        ELSE IF state = "LOCKED_IN" THEN "ACTIVE"
        ELSE state

----------------------------------------------------------------------------
\* The chain up to the end of its k-th period; the empty one is NULL.
Periods(c) == Len(c) \div nPeriod
UpTo(c, k) == SubSeq(c, 1, k * nPeriod)

\* Mutant: a period that ended just at the start time counts as before it.
ComputedTooEarly(c, cache) ==
    LET known == Max({k \in 0 .. Periods(c) :
                        \/ k = 0 \/ UpTo(c, k) \in DOMAIN cache
                        \/ GetMedianTimePast(UpTo(c, k)) <= nTimeStart})
        first == IF UpTo(c, known) \in DOMAIN cache THEN cache[UpTo(c, known)] ELSE "DEFINED"
        state[k \in known .. Periods(c)] ==
            IF k = known THEN first ELSE NextState(state[k - 1], UpTo(c, k))
    IN  [d \in {UpTo(c, k) : k \in known .. Periods(c)} |-> state[Len(d) \div nPeriod]]

\* What GetStateFor adds to the cache for c: it walks back to a period that is
\* known, or that ended before the start time, and forward again.
Computed(c, cache) ==
    LET known == Max({k \in 0 .. Periods(c) :
                        \/ k = 0 \/ UpTo(c, k) \in DOMAIN cache
                        \/ GetMedianTimePast(UpTo(c, k)) < nTimeStart})
        first == IF UpTo(c, known) \in DOMAIN cache THEN cache[UpTo(c, known)] ELSE "DEFINED"
        state[k \in known .. Periods(c)] ==
            IF k = known THEN first ELSE NextState(state[k - 1], UpTo(c, k))
    IN  [d \in {UpTo(c, k) : k \in known .. Periods(c)} |-> state[Len(d) \div nPeriod]]

\* The cache after GetStateFor, in which the state of c then is.
GetStateFor(c, cache) ==
    LET new == Computed(c, cache)
    IN  [d \in DOMAIN cache \cup DOMAIN new |-> IF d \in DOMAIN new THEN new[d] ELSE cache[d]]

----------------------------------------------------------------------------
\* The reference: the state by its definition, from the genesis block on.
StateOf(c) ==
    LET state[k \in 0 .. Periods(c)] ==
            IF k = 0 THEN "DEFINED" ELSE NextState(state[k - 1], UpTo(c, k))
    IN  state[Periods(c)]
=============================================================================

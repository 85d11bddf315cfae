------------------------------ MODULE Headers -------------------------------
(***************************************************************************)
(* Headers that are accepted one on another: each has the work that        *)
(* Difficulty requires and a time that the headers before it allow, and    *)
(* the state of a deployment is asked for at any moment.  The branch that  *)
(* is extended may be left for one from an earlier header, the cache stays.*)
(***************************************************************************)
EXTENDS Difficulty, VersionBits, SequencesExt

CONSTANTS
    Genesis,            \* the first header
    Incoming,           \* headers that may come: the time less that of the header
                        \* before it, and whether it signals
    Starts,             \* bounds: heights of regular chains to start from,
    MaxHeaders,         \* headers on top of one of these,
    MaxReorgs,          \* changes of the branch,
    MaxQueries          \* questions for the state of the deployment

VARIABLES chain, cache, start, reorgs, queries

vars == <<chain, cache, start, reorgs, queries>>

Steps == {i[1] : i \in Incoming}

Header(c, step, signal) ==
    LET time == c[Len(c)].nTime + step
    IN  [nTime |-> time, nBits |-> GetNextWorkRequired(c, time), signal |-> signal]

\* Blocks at exactly the spacing, none of which signals.
Regular ==
    LET grown[h \in 0 .. Max(Starts)] ==
            IF h = 0 THEN <<Genesis>>
            ELSE Append(grown[h - 1], Header(grown[h - 1], nPowTargetSpacing, FALSE))
    IN  grown

Init ==
    /\ start \in Starts
    /\ chain = Regular[start]
    /\ cache = <<>> /\ reorgs = 0 /\ queries = 0

\* ContextualCheckBlockHeader and CheckProofOfWork.
Acceptable(c, header) ==
    /\ TargetInRange(header.nBits)
    /\ header.nTime > GetMedianTimePast(c)

AcceptBlockHeader(step, signal) ==
    /\ Height(chain) < start + MaxHeaders
    /\ LET header == Header(chain, step, signal)
       IN  Acceptable(chain, header) /\ chain' = Append(chain, header)
    /\ UNCHANGED <<cache, start, reorgs, queries>>

\* Another branch from the header at height h.
Branch(h) ==
    /\ reorgs < MaxReorgs /\ reorgs' = reorgs + 1
    /\ chain' = SubSeq(chain, 1, h + 1)
    /\ UNCHANGED <<cache, start, queries>>

\* ContextualCheckBlock, ConnectBlock, ComputeBlockVersion and getblocktemplate.
VersionBitsState ==
    /\ queries < MaxQueries /\ queries' = queries + 1
    /\ cache' = GetStateFor(chain, cache)
    /\ UNCHANGED <<chain, start, reorgs>>

Next ==
    \/ \E i \in Incoming : AcceptBlockHeader(i[1], i[2])
    \/ \E h \in start .. Height(chain) - 1 : Branch(h)
    \/ VersionBitsState

Spec == Init /\ [][Next]_vars

----------------------------------------------------------------------------
Tip == chain[Len(chain)]

\* Whatever times the headers have, there can be a next one: the work required of it
\* is defined and its target can be met.
WorkCanBeMet ==
    \A step \in Steps : TargetInRange(Header(chain, step, FALSE).nBits)

\* How long the blocks took that decide the target of the last one, after the fork.
Taken ==
    LET blocks == MVFPowTargetTimespan(Height(chain) - 1) \div nPowTargetSpacing
    IN  At(chain, Height(chain) - 1).nTime - At(chain, Max({0, Height(chain) - 1 - blocks})).nTime

\* After the fork block the target follows the time that blocks take: at most ten
\* times (four times) easier or harder, and not easier when they came too fast nor, but
\* for rounding, harder when they came too slowly.  Blocks with equal times make the
\* difficulty minimal.
TargetFollowsTime ==
    LET old == At(chain, Height(chain) - 1).nBits
        due == MVFPowTargetTimespan(Height(chain) - 1)
    IN  Height(chain) > FinalActivateForkHeight /\ ~fPowNoRetargeting =>
          IF Taken = 0 THEN Tip.nBits = LimitCompact
          ELSE /\ Tip.nBits <= RetargetLimit(due) * old
               /\ 2 * RetargetLimit(due) * Tip.nBits >= old
               /\ Taken < due => Tip.nBits <= old
               /\ Taken > due => 2 * Tip.nBits >= old

\* Below the fork, a block of minimal difficulty on a test network does not change
\* the work of the blocks after it, up to the next adjustment.
SpecialBlocksForgotten ==
    LET h     == Height(chain)
        first == At(chain, h - (h % OriginalInterval)).nBits
        late  == Tip.nTime > At(chain, h - 1).nTime + 2 * nPowTargetSpacing
    IN  h \in 1 .. FinalActivateForkHeight - 1 =>
          Tip.nBits \in {first} \cup IF late THEN {LimitCompact} ELSE {}

\* The work of the fork block is defined, whatever drop factor of the documented range
\* is set and however fast the blocks before it came.
DropFactorUsable ==
    Height(chain) = FinalActivateForkHeight - 1 =>
       \A step \in Steps : Header(chain, step, FALSE).nBits # Undefined

\* What the cache holds is the state by its definition, whichever blocks were asked
\* for and whichever branches they are on.
CacheRight == \A c \in DOMAIN cache : cache[c] = StateOf(c)
=============================================================================

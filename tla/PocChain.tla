------------------------------ MODULE PocChain ------------------------------
(***************************************************************************)
(* Proof-of-capacity header validation of deps/CoinQ/src/poc.cpp, driven  *)
(* by a node that appends every header VerifyGenerationSignature accepts  *)
(* to its chain.                                                           *)
(*                                                                         *)
(* A header is abstracted to its height, base target (bits) and uint32    *)
(* timestamp.  The Shabal-256 plot derivation of CalculateDeadline is     *)
(* abstracted to the 64-bit "hit" it produces: a miner picks the nonce,   *)
(* so the hit of a candidate is an input chosen from Hits.  The           *)
(* getPrevBlock lookup may return nullptr after a number of steps (a      *)
(* header missing from the index), chosen per call when LookupMayFail.    *)
(***************************************************************************)
EXTENDS Integers, Sequences, SequencesExt

CONSTANTS
    BCO_FORK_BLOCK_HEIGHT,  \* height at which PoC activates
    BCOInitBlockCount,      \* length of the god-mode bootstrap
    BCO_BLOCK_UNIXTIME_MIN, \* minimum block timestamp
    INITIAL_BASE_TARGET,    \* 18325193796 in the code
    MAX_BASE_TARGET,        \* 18325193796 in the code
    SHORT_REGIME_LEN,       \* 2700 in the code: heights g+4 .. g+2699 use the short window
    LONG_WINDOW,            \* 25 in the code: the long walk reaches height h - 25
    TIME_MOD,               \* 2^32: timestamps are uint32_t
    WORD_MOD,               \* 2^64: base targets and hits are uint64_t
    GenesisBits,            \* bits of the last pre-fork header (a compact PoW target)
    GenesisTime,            \* timestamp of the last pre-fork header
    TimeDeltas,             \* candidate timestamps, as offsets from the parent's
    Hits,                   \* 64-bit hits a candidate's plot can yield
    LookupMayFail           \* whether getPrevBlock may return nullptr

ASSUME /\ BCOInitBlockCount \in Nat /\ BCO_FORK_BLOCK_HEIGHT \in Nat \ {0}
       /\ SHORT_REGIME_LEN >= LONG_WINDOW /\ SHORT_REGIME_LEN > 4 /\ LONG_WINDOW > 1
       /\ INITIAL_BASE_TARGET \in 1..MAX_BASE_TARGET
       /\ Hits \subseteq 0..(WORD_MOD - 1)

VARIABLES
    chain,   \* the headers accepted so far, oldest first; chain[Len(chain)] is the tip
    verdict  \* outcome of the last VerifyGenerationSignature call

vars == <<chain, verdict>>

Verdicts == {"None", "Accepted", "TimestampTooLow", "BitsMismatch",
             "DeadlineNotMet", "Crash"}

\* nPocGenesisBlockHeight
PocGenesisHeight == BCO_FORK_BLOCK_HEIGHT + BCOInitBlockCount

Tip == chain[Len(chain)]

\* The header k parents behind the tip (k = 0 is prev itself).
Ancestor(k) == chain[Len(chain) - k]

\* How many of `want` successive getPrevBlock calls return a header: the
\* lookup fails after `gap` calls, or when the index ends.
Walked(want, gap) ==
    LET avail == Len(chain) - 1
    IN IF gap < want /\ gap < avail THEN gap
       ELSE IF avail < want THEN avail ELSE want

AtMost(x, hi)  == IF x > hi THEN hi ELSE x
AtLeast(x, lo) == IF x < lo THEN lo ELSE x

\* uint32_t subtraction of two timestamps, widened to int64_t.
DiffTime(ts, last) == (ts - last) % TIME_MOD

\* The result of CalculateBaseTarget: a target, or a crash when the walk
\* left pLastindex == nullptr (the assert, or the dereference without it).
Target(t) == [crash |-> FALSE, target |-> t]
Crash == [crash |-> TRUE, target |-> 0]

\* Mutant: the short branch without the MAX_BASE_TARGET clamp.
ShortRetargetNoMaxClamp(ts, gap) ==
    LET n   == Walked(3, gap)
        cur == FoldLeft(+, Tip.bits, [k \in 1..n |-> Ancestor(k).bits]) \div 4
        raw == ((cur * DiffTime(ts, Ancestor(3).ts)) % WORD_MOD) \div (300 * 4)
        t2  == AtLeast(raw, (cur * 9) \div 10)
        t3  == IF t2 = 0 THEN 1 ELSE t2
    IN IF n < 3 THEN Crash ELSE Target(AtMost(t3, (cur * 11) \div 10))

\* The branch for nHeight < nPocGenesisBlockHeight + 2700: average the bits
\* of prev and three parents (always dividing by 4), then clamp.
ShortRetarget(ts, gap) ==
    LET n   == Walked(3, gap)
        cur == FoldLeft(+, Tip.bits, [k \in 1..n |-> Ancestor(k).bits]) \div 4
        raw == ((cur * DiffTime(ts, Ancestor(3).ts)) % WORD_MOD) \div (300 * 4)
        t1  == AtMost(raw, MAX_BASE_TARGET)
        t2  == AtLeast(t1, (cur * 9) \div 10)
        t3  == IF t2 = 0 THEN 1 ELSE t2
        t4  == AtMost(t3, (cur * 11) \div 10)
    IN IF n < 3 THEN Crash ELSE Target(t4)

\* The last branch: a running average over prev and LONG_WINDOW - 1 parents,
\* scaled by the clamped time since the last of them.
LongRetarget(ts, gap) ==
    LET n    == Walked(LONG_WINDOW - 1, gap)
        step(avg, k) == (avg * k + Ancestor(k).bits) \div (k + 1)
        avg  == FoldLeftDomain(step, Tip.bits, [k \in 1..n |-> k])
        span == 300 * (LONG_WINDOW - 1)   \* 5 * 60 * 24
        diff == AtMost(AtLeast(DiffTime(ts, Ancestor(n).ts), span \div 2), span * 2)
        cur  == Tip.bits
        t1   == AtMost(((avg * diff) % WORD_MOD) \div span, MAX_BASE_TARGET)
        t2   == IF t1 = 0 THEN 1 ELSE t1
        t3   == AtLeast(t2, (cur * 8) \div 10)
        t4   == AtMost(t3, (cur * 12) \div 10)
    IN IF n < LONG_WINDOW - 1 THEN Crash ELSE Target(t4)

\* CalculateBaseTarget(prev, block, getPrevBlock), prev being the tip.
CalculateBaseTarget(ts, gap) ==
    LET h == Tip.height + 1
    IN CASE h < PocGenesisHeight + 4                -> Target(INITIAL_BASE_TARGET)
         [] h < PocGenesisHeight + SHORT_REGIME_LEN -> ShortRetarget(ts, gap)
         [] OTHER                                   -> LongRetarget(ts, gap)

\* CalculateDeadline(prev, block): zero in god mode, else the plot's hit
\* divided by the parent's base target.
CalculateDeadline(hit) ==
    IF Tip.height + 1 <= PocGenesisHeight THEN 0 ELSE hit \div Tip.bits

\* The god-mode test of VerifyGenerationSignature.
GodMode(h) == h < PocGenesisHeight

\* Mutant: verification without the BCO_BLOCK_UNIXTIME_MIN test.
VerifyNoMinTime(ts, bits, hit, gap) ==
    LET t == CalculateBaseTarget(ts, gap)
    IN IF t.crash THEN "Crash"
       ELSE IF bits # t.target THEN "BitsMismatch"
       ELSE IF GodMode(Tip.height + 1) THEN "Accepted"
       ELSE IF ts > (Tip.ts + CalculateDeadline(hit)) % WORD_MOD THEN "Accepted"
       ELSE "DeadlineNotMet"

\* VerifyGenerationSignature(prev, block, getPrevBlock), with its reason for
\* rejecting.  The timestamp test short-circuits the retarget.
VerifyGenerationSignature(ts, bits, hit, gap) ==
    LET h == Tip.height + 1
        t == CalculateBaseTarget(ts, gap)
    IN IF ts < BCO_BLOCK_UNIXTIME_MIN THEN "TimestampTooLow"
       ELSE IF t.crash THEN "Crash"
       ELSE IF bits # t.target THEN "BitsMismatch"
       ELSE IF GodMode(h) THEN "Accepted"
       ELSE IF ts > (Tip.ts + CalculateDeadline(hit)) % WORD_MOD THEN "Accepted"
       ELSE "DeadlineNotMet"

\* Lookup outcomes of one call: never failing, or failing after k steps.
Gaps == IF LookupMayFail THEN 0..LONG_WINDOW ELSE {LONG_WINDOW}

\* A candidate claims the target the node will compute, or a wrong one.
CandidateBits(ts, gap) ==
    LET t == CalculateBaseTarget(ts, gap)
    IN IF t.crash THEN {INITIAL_BASE_TARGET} ELSE {t.target, t.target + 1}

Init ==
    /\ chain = << [height |-> BCO_FORK_BLOCK_HEIGHT - 1, bits |-> GenesisBits,
                   ts |-> GenesisTime] >>
    /\ verdict = "None"

\* A header extending the tip arrives; it is appended iff it verifies.
ReceiveHeader(ts, bits, hit, gap) ==
    LET v == VerifyGenerationSignature(ts, bits, hit, gap)
    IN /\ verdict' = v
       /\ chain' = IF v = "Accepted"
                   THEN Append(chain, [height |-> Tip.height + 1, bits |-> bits, ts |-> ts])
                   ELSE chain

Next ==
    /\ verdict # "Crash"
    /\ \E d \in TimeDeltas, hit \in Hits, gap \in Gaps :
         LET ts == Tip.ts + d
         IN /\ ts \in 0..(TIME_MOD - 1)
            /\ \E bits \in CandidateBits(ts, gap) : ReceiveHeader(ts, bits, hit, gap)

Spec == Init /\ [][Next]_vars

-----------------------------------------------------------------------------
(* Properties *)

\* Type: headers are (height, uint64 bits, uint32 timestamp) records, and a
\* header accepted after the last pre-fork one is never earlier than
\* BCO_BLOCK_UNIXTIME_MIN.
TypeOK ==
    /\ chain[1] = [height |-> BCO_FORK_BLOCK_HEIGHT - 1, bits |-> GenesisBits, ts |-> GenesisTime]
    /\ \A i \in 2..Len(chain) :
          chain[i] \in [height : {chain[1].height + i - 1}, bits : 0..(WORD_MOD - 1),
                        ts : BCO_BLOCK_UNIXTIME_MIN..(TIME_MOD - 1)]
    /\ verdict \in Verdicts

\* Every header accepted at or after the fork carries a base target in
\* 1..MAX_BASE_TARGET, whatever mix of fast and slow blocks led to it: the
\* clamps of CalculateBaseTarget, applied in the code's order after the
\* averaging, keep it there, and CalculateDeadline never divides by zero.
BaseTargetInRange ==
    \A i \in 1..Len(chain) :
        chain[i].height >= BCO_FORK_BLOCK_HEIGHT => chain[i].bits \in 1..MAX_BASE_TARGET

\* From the PoC genesis height on, every accepted header is strictly later
\* than its parent, as the deadline test ts > prev.ts + deadline means to
\* ensure; only god-mode headers (the h < g branch of
\* VerifyGenerationSignature) may go back in time.  The uint64_t sum in that
\* test wraps once hit / bits nears 2^64, and pocchain_wrap shows it fails.
TimestampsIncreaseFromGenesis ==
    \A i \in 2..Len(chain) :
        chain[i].height >= PocGenesisHeight => chain[i].ts > chain[i - 1].ts

\* A header whose retarget window (the parent, the ancestors the retarget
\* reads, and the header itself) was mined exactly on schedule, 300 s per
\* block, gets a base target no larger than the window's mean: on-schedule
\* blocks do not make mining easier.  The long-window branch divides the
\* time of 25 block intervals by the 24-block span 5 * 60 * 24.
OnScheduleDoesNotEase ==
    [][ (Len(chain') = Len(chain) + 1 /\ Tip.height + 1 >= PocGenesisHeight + 4) =>
          LET w    == IF Tip.height + 1 < PocGenesisHeight + SHORT_REGIME_LEN
                      THEN 4 ELSE LONG_WINDOW
              win  == SubSeq(chain', Len(chain') - w, Len(chain'))
              mean == FoldLeft(+, 0, [k \in 1..w |-> win[k].bits]) \div w
          IN (\A k \in 1..w : win[k + 1].ts - win[k].ts = 300)
               => chain'[Len(chain')].bits <= mean ]_vars

\* Spec 8: the short-window retarget keeps 0.9 * cur <= new <= 1.1 * cur and
\* the long-window one 0.8 * cur <= new <= 1.2 * cur, cur being prev.bits,
\* except where the new = 1 floor applies (read with the code's integer
\* division).  In the short branch the code clamps around the four-block
\* average curBaseTarget = avgBaseTarget instead of prev.bits.
RetargetStepBounded ==
    [][ (Len(chain') = Len(chain) + 1 /\ Tip.height + 1 >= PocGenesisHeight + 4) =>
          LET short   == Tip.height + 1 < PocGenesisHeight + SHORT_REGIME_LEN
              cur     == Tip.bits
              new     == chain'[Len(chain')].bits
              lo      == IF short THEN 9 ELSE 8
              hi      == IF short THEN 11 ELSE 12
          IN new = 1 \/ ((cur * lo) \div 10 <= new /\ new <= (cur * hi) \div 10) ]_vars

\* getPrevBlock returning nullptr part-way through the walk stops the walk
\* and the accumulator is used (spec 4.4, 7); verification never aborts.
NoCrashOnLookupGap == verdict # "Crash"

=============================================================================

---------------------------- MODULE MC_PocChain ----------------------------
(***************************************************************************)
(* Model-checking instance of PocChain.  Heights, base targets and widths *)
(* are scaled down; the retarget regimes keep their order and the long    *)
(* window stays inside the PoC heights, as SHORT_REGIME_LEN >= LONG_WINDOW *)
(* guarantees for the code's 2700 and 25.                                  *)
(***************************************************************************)
EXTENDS PocChain

\* PoC genesis g = 3: height 2 is god mode, 3..6 use the initial target,
\* 7..8 the short window, 9.. the long window.
MC_Fork          == 2
MC_InitCount     == 1
MC_UnixtimeMin   == 1000
MC_MaxTarget     == 20
MC_ShortLen      == 6
MC_LongWindow    == 4
MC_TimeMod       == 16384     \* stands for 2^32
MC_WordMod       == 262144    \* stands for 2^64: above every product of an accepted header
MC_GenesisBits   == 7
MC_GenesisTime   == 1699
MC_TimeDeltas    == {-700, 1, 300, 600}
MC_Hits          == {0, 5000}

\* Deadline wrap: a base target small enough to reach 1 within the
\* explored heights, and a plot hit at the top of the 64-bit range.
MC_SmallTarget   == 2
MC_WrapHits      == {0, MC_WordMod - 1}
MC_WrapDeltas    == {0, 1, 300}

\* Headers are explored up to this height.
MaxHeight == 11
HeightBound == Tip.height < MaxHeight
=============================================================================

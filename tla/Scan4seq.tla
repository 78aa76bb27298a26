------------------------------ MODULE Scan4seq ------------------------------
(***************************************************************************)
(* scan4seq: the search of a descending list of free pages for seq + 1     *)
(* consecutive ones, in its plain form and in the forms that compare 4, 8  *)
(* or 16 pairs at once.                                                    *)
(*                                                                         *)
(* pnl[0] holds the length of a list and pnl[1 .. len] its pages.  A scan  *)
(* starts at range = len and goes down to detent = seq; it returns the     *)
(* index of the first page (the lowest) of a run, or 0 for nullptr.  The   *)
(* vector forms may read below the list: those cells hold a value that     *)
(* would match.                                                            *)
(***************************************************************************)
EXTENDS Integers, Sequences, FiniteSets, FiniteSetsExt

\* What memory holds at an index of a list, below which lies anything.
Cell(pnl, i, junk) ==
    IF i >= 1 THEN pnl[i] ELSE IF i = 0 THEN Len(pnl) ELSE junk + i

\* *range - range[offset] == target.
IsRun(pnl, range, seq, junk) ==
    Cell(pnl, range, junk) - Cell(pnl, range - seq, junk) = -seq

\* scan4range_checker: the reference the code keeps for its debug builds.
RECURSIVE scan4range_checker(_, _, _)
scan4range_checker(pnl, seq, begin) ==
    IF begin <= seq THEN 0
    ELSE IF pnl[begin - seq] - pnl[begin] = seq THEN begin
    ELSE scan4range_checker(pnl, seq, begin - 1)

\* The loop over single pages; while (--range > detent) or != detent.
RECURSIVE ScanSingle(_, _, _)
ScanSingle(pnl, seq, range) ==
    IF IsRun(pnl, range, seq, 0) THEN range
    ELSE IF range - 1 <= seq THEN 0
    ELSE ScanSingle(pnl, seq, range - 1)

\* The mask of diffcmp2mask_*(range - (lanes - 1), ...): bit b stands for
\* range - (lanes - 1) + b.  The answer is its highest bit, found with clz.
Mask(pnl, seq, range, lanes, junk) ==
    {b \in 0 .. lanes - 1 : IsRun(pnl, range - (lanes - 1) + b, seq, junk)}
Highest(mask, range, lanes) == range - (lanes - 1) + Max(mask)

\* The loop over whole vectors, and what follows it.
RECURSIVE ScanVectors(_, _, _, _, _)
ScanVectors(pnl, seq, range, lanes, junk) ==
    LET mask == Mask(pnl, seq, range, lanes, junk)
    IN  IF mask # {} THEN [at |-> Highest(mask, range, lanes), more |-> FALSE]
        ELSE IF range - lanes > seq + lanes - 1
        THEN ScanVectors(pnl, seq, range - lanes, lanes, junk)
        ELSE [at |-> range - lanes, more |-> range - lanes # seq]

\* Everything up to the rest that is shorter than a vector; at = 0 and more =
\* FALSE when nothing is left.
WholeVectors(pnl, seq, lanes, junk) ==
    LET n == Len(pnl)
        r == ScanVectors(pnl, seq, n, lanes, junk)
    IN  IF n > seq + lanes - 1
        THEN IF ~r.more /\ r.at = seq THEN [r EXCEPT !.at = 0] ELSE r
        ELSE [at |-> n, more |-> TRUE]

\* The rest read as one more vector, the lanes below detent masked out.
RestAsVector(pnl, seq, range, lanes, junk) ==
    LET extra == seq + lanes - range
        mask == Mask(pnl, seq, range, lanes, junk) \cap extra .. lanes - 1
    IN  IF mask # {} THEN Highest(mask, range, lanes) ELSE 0

\* The rest in ever narrower vectors, then page by page.
RECURSIVE RestNarrower(_, _, _, _)
RestNarrower(pnl, seq, range, lanes) ==
    LET mask == Mask(pnl, seq, range, lanes, 0)
    IN  IF lanes < 4
        THEN IF range > seq THEN ScanSingle(pnl, seq, range) ELSE 0
        ELSE IF range - (lanes - 1) > seq
        THEN IF mask # {} THEN Highest(mask, range, lanes)
             ELSE RestNarrower(pnl, seq, range - lanes, lanes \div 2)
        ELSE RestNarrower(pnl, seq, range, lanes \div 2)

scan4seq_fallback(pnl, seq) ==
    LET whole == WholeVectors(pnl, seq, 4, 0)
    IN  IF whole.more THEN ScanSingle(pnl, seq, whole.at) ELSE whole.at

\* safe: the vector of the rest does not cross into another page of memory.
scan4seq_sse2(pnl, seq, safe, junk) ==
    LET whole == WholeVectors(pnl, seq, 4, junk)
    IN  IF ~whole.more THEN whole.at
        ELSE IF safe THEN RestAsVector(pnl, seq, whole.at, 4, junk)
        ELSE ScanSingle(pnl, seq, whole.at)

scan4seq_avx2(pnl, seq, safe, junk) ==
    LET whole == WholeVectors(pnl, seq, 8, junk)
    IN  IF ~whole.more THEN whole.at
        ELSE IF safe THEN RestAsVector(pnl, seq, whole.at, 8, junk)
        ELSE RestNarrower(pnl, seq, whole.at, 4)

scan4seq_avx512bw(pnl, seq, safe, junk) ==
    LET whole == WholeVectors(pnl, seq, 16, junk)
    IN  IF ~whole.more THEN whole.at
        ELSE IF safe THEN RestAsVector(pnl, seq, whole.at, 16, junk)
        ELSE RestNarrower(pnl, seq, whole.at, 8)

\* scan4seq_neon: a lane is 16 bits of a 64-bit mask, or 8 of 32, so that clz
\* is shifted down to the bytes between range and the page found.
NeonFound(mask, range, word) ==
    range - ((((3 - Max(mask)) * 2 * word) \div 2 ^ (word \div 4)) \div 4)

RECURSIVE NeonVectors(_, _, _, _, _)
NeonVectors(pnl, seq, range, junk, word) ==
    LET mask == Mask(pnl, seq, range, 4, junk)
    IN  IF mask # {} THEN [at |-> NeonFound(mask, range, word), more |-> FALSE]
        ELSE IF range - 4 > seq + 3 THEN NeonVectors(pnl, seq, range - 4, junk, word)
        ELSE [at |-> range - 4, more |-> TRUE]

scan4seq_neon(pnl, seq, safe, junk, word) ==
    LET n == Len(pnl)
        whole == IF n > seq + 3 THEN NeonVectors(pnl, seq, n, junk, word)
                                ELSE [at |-> n, more |-> TRUE]
        mask == Mask(pnl, seq, whole.at, 4, junk) \cap (seq + 4 - whole.at) .. 3
    IN  IF ~whole.more THEN whole.at
        ELSE IF whole.at = seq THEN 0
        ELSE IF safe THEN (IF mask # {} THEN NeonFound(mask, whole.at, word) ELSE 0)
        ELSE ScanSingle(pnl, seq, whole.at)
=============================================================================

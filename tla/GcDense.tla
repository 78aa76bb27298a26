------------------------------ MODULE GcDense ------------------------------
(***************************************************************************)
(* The solver of the dense mode of gc_update (mdbx.c).  When the ids of    *)
(* reclaimed records do not suffice to return the left-over page numbers   *)
(* in chunks of one large page each, the chunks are stored in runs of      *)
(* adjacent pages found among the page numbers that are returned.  Given a *)
(* histogram of such runs, the number of ids (slots) and the volume to     *)
(* store, the solver looks for a multiset of run lengths that is available *)
(* in the histogram, uses at most that many slots and holds the volume.    *)
(*                                                                         *)
(* A histogram is a sequence: element k is the number of runs of length k. *)
(* The array of the code has a fixed length and a field `end', the length  *)
(* of the longest run, which is kept here beside the sequence.             *)
(***************************************************************************)
EXTENDS Integers, Sequences, FiniteSets, FiniteSetsExt, SequencesExt

CONSTANTS W,        \* page numbers that fill a page (env->ps / sizeof(pgno_t))
          L,        \* page numbers of a one-page large record (maxgc_large1page)
          MaxRun    \* ARRAY_LENGTH(dense_histogram.array)

(* largechunk_npages of a chunk of n page numbers and its length word.     *)
ChunkPages(n) == IF n <= L THEN 1 ELSE 1 + (n - L + W - 1) \div W

(***************************************************************************)
(* The histogram of runs of adjacent numbers in a set of page numbers.     *)
(* The scan cuts a run that is as long as the array.                       *)
(***************************************************************************)
gc_dense_hist(S) ==
  LET heads == {p \in S : p - 1 \notin S}
      len == [h \in heads |-> Min({n \in 1..Cardinality(S) : h + n \notin S})]
      whole == UNION {{h} \X (1 .. len[h] \div MaxRun) : h \in heads}
      array == [k \in 1..MaxRun |-> IF k = MaxRun THEN Cardinality(whole)
                                    ELSE Cardinality({h \in heads : len[h] % MaxRun = k})]
  IN [array |-> array, end |-> Max({k \in 1..MaxRun : array[k] > 0})]

(* Takes a piece of len from the longest run that is left.                 *)
Bite(hist, len) ==
  LET a == [hist.array EXCEPT ![hist.end] = @ - 1] IN
  [hist EXCEPT !.array = IF hist.end > len THEN [a EXCEPT ![hist.end - len] = @ + 1] ELSE a]

(***************************************************************************)
(* Takes n pieces of length len; "ok" says whether there were so many.     *)
(***************************************************************************)
RECURSIVE consume_stack(_, _, _)
consume_stack(st, len, n) ==
  IF st.hist.end < len THEN [ok |-> FALSE, st |-> st]
  ELSE IF st.hist.array[st.hist.end] < 1
    THEN consume_stack([st EXCEPT !.hist.end = @ - 1], len, n)
  ELSE LET s1 == [st EXCEPT !.hist = Bite(@, len)] IN
       IF n = 1 THEN [ok |-> TRUE, st |-> s1] ELSE consume_stack(s1, len, n - 1)

(* What a chunk of len pages takes off the list: its capacity and itself.  *)
PerChunk(len) == L + 1 + (W + 1) * (len - 1)

(***************************************************************************)
(* Covers what is left with pieces of at most `len' pages, longest runs    *)
(* first.  Entries of the solution above len were reset on the way down.   *)
(***************************************************************************)
RECURSIVE ConsumeLoop(_, _, _)
ConsumeLoop(st, sol, len) ==
  IF st.hist.end = 0 \/ st.slots = 0 THEN [ok |-> FALSE, st |-> st, sol |-> sol]
  ELSE IF st.hist.array[st.hist.end] > 0
    THEN LET s1 == [st EXCEPT !.hist = Bite(@, len), !.slots = @ - 1, !.volume = @ - PerChunk(len)]
             so == [sol EXCEPT ![len] = @ + 1]
         IN IF s1.volume <= 0
              THEN [ok |-> TRUE, st |-> s1,
                    sol |-> [k \in 1..MaxRun |-> IF k < len THEN 0 ELSE so[k]]]
              ELSE ConsumeLoop(s1, so, len)
    ELSE LET end == st.hist.end - 1
             shorter == len > end /\ end > 0
         IN ConsumeLoop([st EXCEPT !.hist.end = end],
                        IF shorter THEN [sol EXCEPT ![end] = 0] ELSE sol,
                        IF shorter THEN end ELSE len)

consume_remaining(factor, st, sol, len) ==
  LET top == IF len > factor THEN factor ELSE len
      so  == [k \in 1..MaxRun |-> IF k \in top..len THEN 0 ELSE sol[k]]
  IN IF st.volume <= 0
       THEN [ok |-> TRUE, st |-> st, sol |-> [k \in 1..MaxRun |-> IF k < top THEN 0 ELSE so[k]]]
       ELSE ConsumeLoop(st, so, top)

(***************************************************************************)
(* Greedy descent: for every length above the mean, a binary search of the *)
(* least number of pieces of it with which the shorter ones do the rest.   *)
(***************************************************************************)
RECURSIVE solve_recursive(_, _, _, _), Bisect(_, _, _, _, _, _, _)
Bisect(factor, st, sol, len, lo, hi, n) ==
  IF hi < lo THEN [ok |-> FALSE, st |-> st, sol |-> sol]
  ELSE
  LET c == IF n = 0 THEN [ok |-> TRUE, st |-> st] ELSE consume_stack(st, len, n) IN
  IF ~c.ok THEN Bisect(factor, st, sol, len, lo, n - 1, (n - 1 + lo) \div 2)
  ELSE
  LET local == [c.st EXCEPT !.slots = @ - n,
                            !.volume = IF @ > n * PerChunk(len) THEN @ - n * PerChunk(len) ELSE 0]
      r == solve_recursive(factor, local, sol, len - 1)
  IN IF ~r.ok
       THEN Bisect(factor, st, r.sol, len, n + 1, hi, (hi + n + 2) \div 2)
     ELSE IF n > lo /\ n < hi
       THEN Bisect(factor, st, r.sol, len, lo, n, (n + lo + 1) \div 2)
     ELSE [ok |-> TRUE, st |-> r.st, sol |-> [r.sol EXCEPT ![len] = n]]

solve_recursive(factor, st, sol, len) ==
  IF len > factor /\ st.slots > 1 /\ st.volume > PerChunk(len)
    THEN Bisect(factor, st, sol, len, 0, st.slots - 1, 0)
    ELSE consume_remaining(factor, st, sol, len)

(***************************************************************************)
(* The whole solver.  A solution that does not hold the volume or takes    *)
(* too many slots is a defect the code answers with MDBX_PROBLEM.          *)
(***************************************************************************)
gc_dense_solve(hist, slots, volume) ==
  LET factor == ChunkPages((volume + slots - 1) \div slots)
      r == solve_recursive(factor, [slots |-> slots, volume |-> volume, hist |-> hist],
                           [k \in 1..MaxRun |-> 0], hist.end)
      items == FoldLeft(+, 0, r.sol)
      total == FoldLeft(+, 0, [k \in 1..MaxRun |-> r.sol[k] * PerChunk(k)])
  IN IF ~r.ok THEN [rc |-> "none", sol |-> r.sol]
     ELSE IF total < volume \/ items > slots THEN [rc |-> "problem", sol |-> r.sol]
     ELSE [rc |-> "found", sol |-> r.sol]

=============================================================================

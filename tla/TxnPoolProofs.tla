--------------------------- MODULE TxnPoolProofs ---------------------------
(***************************************************************************)
(* Proofs about TxnPool, for any number of goroutines, sweepers, reader    *)
(* slots and transactions, and for every UpdateHandling.                   *)
(*                                                                         *)
(* The argument.  The places a handle can be in (the sync.Pool, what the   *)
(* garbage collector dropped, the locals of a goroutine or of a sweep)     *)
(* exclude each other, so whoever renews, resets or aborts a handle is the *)
(* only one who can reach it.  What is in the pool was reset before it was *)
(* put there, and mdbx_txn_id of a reset reader is above every id: a sweep *)
(* never finds a stale handle, so it renews and aborts nothing.            *)
(***************************************************************************)
EXTENDS TxnPool, FiniteSetTheorems, TLAPS

\* The next step of a goroutine tells whether it holds a handle, that of a
\* sweep whether it has taken one.
Locals ==
    /\ \A g \in Goroutines :
          IF pc[g] \in {"renew", "view", "stale", "reset", "put"} THEN held[g] \in Txns ELSE held[g] = NoTxn
    /\ \A s \in Sweepers :
          /\ IF spc[s] = "check" THEN stxn[s] \in Txns ELSE stxn[s] = NoTxn
          /\ back[s] = NoTxn

\* No handle is in two places.
Apart ==
    /\ pool \cap lost = {}
    /\ \A g \in Goroutines : held[g] \notin pool \cup lost
    /\ \A s \in Sweepers : stxn[s] \notin pool \cup lost
    /\ \A g, h \in Goroutines : g # h /\ held[g] # NoTxn => held[g] # held[h]
    /\ \A s, q \in Sweepers : s # q /\ stxn[s] # NoTxn => stxn[s] # stxn[q]
    /\ \A g \in Goroutines, s \in Sweepers : held[g] # NoTxn => held[g] # stxn[s]

\* A handle that libmdbx does not know is nowhere.
Known ==
    \A t \in Txns : st[t] = "none" =>
        /\ t \notin pool \cup lost
        /\ \A g \in Goroutines : held[g] # t
        /\ \A s \in Sweepers : stxn[s] # t

\* A handle that was reset.
IsReset(t) == st[t] = "reset" /\ id[t] = Invalid

\* Handles that are in the pool, on their way to it or just taken from it by
\* a sweep have been reset.
Idle ==
    /\ \A t \in pool \cup lost : IsReset(t)
    /\ \A g \in Goroutines : pc[g] = "put" => IsReset(held[g])
    /\ \A s \in Sweepers : spc[s] = "check" => IsReset(stxn[s])

\* The ids go up: a View's snapshot is not older than the head it began at,
\* what CommitID loaded is not newer than lastid.
Ids ==
    /\ \A g \in Goroutines :
          /\ floor[g] <= head
          /\ pc[g] = "view" => st[held[g]] = "live" /\ id[held[g]] >= floor[g]
          /\ pc[g] = "write" => writer = g /\ head < MaxId
          /\ pc[g] = "cas" => seen[g] <= lastid
          /\ pc[g] = "stale" => handlesUpdates
    /\ handlesUpdates => done <= lastid

\* The inductive invariant.
PoolInv == TypeOK /\ Locals /\ Apart /\ Known /\ Idle /\ Ids

\* Under a setting that handles idle readers, outstanding ones are handled
\* too, every handle libmdbx knows is in some place.
NoneForgotten ==
    \A t \in Txns : st[t] # "none" =>
        \/ t \in pool \cup lost
        \/ \E g \in Goroutines : held[g] = t
        \/ \E s \in Sweepers : stxn[s] = t

USE PoolAssumption
USE DEF Invalid, goto, hold, poolVars, handleVars, procVars, sweepVars

\* A handle leaves the pool for one goroutine.
LEMMA BeginGetInv == ASSUME PoolInv, NEW g \in Goroutines, BeginGet(g) PROVE PoolInv'
  <1> USE DEF BeginGet
  <1>1. TypeOK'
    BY DEF PoolInv, TypeOK, Locals, Ids
  <1>2. Locals'
    BY DEF PoolInv, TypeOK, Locals, Idle, IsReset
  <1>3. Apart'
    BY DEF PoolInv, TypeOK, Locals, Apart, Known
  <1>4. Known'
    BY DEF PoolInv, TypeOK, Locals, Apart, Known
  <1>5. Idle'
    BY DEF PoolInv, TypeOK, Locals, Apart, Known, Idle, IsReset
  <1>6. Ids'
    BY DEF PoolInv, TypeOK, Locals, Apart, Known, Ids, handlesUpdates
  <1> QED
    BY <1>1, <1>2, <1>3, <1>4, <1>5, <1>6 DEF PoolInv

\* A pooled handle is renewed, or aborted.
LEMMA BeginRenewInv == ASSUME PoolInv, NEW g \in Goroutines, BeginRenew(g) PROVE PoolInv'
  <1> USE DEF BeginRenew, Live, Abort
  <1>1. TypeOK'
    BY DEF PoolInv, TypeOK, Locals, Ids
  <1>2. Locals'
    BY DEF PoolInv, TypeOK, Locals, Idle, IsReset
  <1>3. Apart'
    BY DEF PoolInv, TypeOK, Locals, Apart, Known
  <1>4. Known'
    BY DEF PoolInv, TypeOK, Locals, Apart, Known
  <1>5. Idle'
    BY DEF PoolInv, TypeOK, Locals, Apart, Known, Idle, IsReset
  <1>6. Ids'
    BY DEF PoolInv, TypeOK, Locals, Apart, Known, Ids, handlesUpdates
  <1> QED
    BY <1>1, <1>2, <1>3, <1>4, <1>5, <1>6 DEF PoolInv

\* A new handle gets a free reader slot.
LEMMA BeginNewInv == ASSUME PoolInv, NEW g \in Goroutines, BeginNew(g) PROVE PoolInv'
  <1> USE DEF BeginNew, Live
  <1>1. TypeOK'
    BY DEF PoolInv, TypeOK, Locals, Ids
  <1>2. Locals'
    BY DEF PoolInv, TypeOK, Locals, Idle, IsReset
  <1>3. Apart'
    BY DEF PoolInv, TypeOK, Locals, Apart, Known
  <1>4. Known'
    BY DEF PoolInv, TypeOK, Locals, Apart, Known
  <1>5. Idle'
    BY DEF PoolInv, TypeOK, Locals, Apart, Known, Idle, IsReset
  <1>6. Ids'
    BY DEF PoolInv, TypeOK, Locals, Apart, Known, Ids, handlesUpdates
  <1> QED
    BY <1>1, <1>2, <1>3, <1>4, <1>5, <1>6 DEF PoolInv

\* The end of a View changes no handle.
LEMMA EndViewInv == ASSUME PoolInv, NEW g \in Goroutines, EndView(g) PROVE PoolInv'
  <1> USE DEF EndView
  <1>1. TypeOK'
    BY DEF PoolInv, TypeOK, Locals, Ids
  <1>2. Locals'
    BY DEF PoolInv, TypeOK, Locals, Idle, IsReset
  <1>3. Apart'
    BY DEF PoolInv, TypeOK, Locals, Apart, Known
  <1>4. Known'
    BY DEF PoolInv, TypeOK, Locals, Apart, Known
  <1>5. Idle'
    BY DEF PoolInv, TypeOK, Locals, Apart, Known, Idle, IsReset
  <1>6. Ids'
    BY DEF PoolInv, TypeOK, Locals, Apart, Known, Ids, handlesUpdates
  <1> QED
    BY <1>1, <1>2, <1>3, <1>4, <1>5, <1>6 DEF PoolInv

\* A stale handle is renewed, aborted or, without the flag, dropped.
LEMMA EndStaleInv == ASSUME PoolInv, NEW g \in Goroutines, EndStale(g) PROVE PoolInv'
  <1> USE DEF EndStale, Live, Abort, handlesUpdates
  <1>1. TypeOK'
    BY DEF PoolInv, TypeOK, Locals, Ids
  <1>2. Locals'
    BY DEF PoolInv, TypeOK, Locals, Idle, IsReset
  <1>3. Apart'
    BY DEF PoolInv, TypeOK, Locals, Apart, Known
  <1>4. Known'
    BY DEF PoolInv, TypeOK, Locals, Apart, Known
  <1>5. Idle'
    BY DEF PoolInv, TypeOK, Locals, Apart, Known, Idle, IsReset
  <1>6. Ids'
    BY DEF PoolInv, TypeOK, Locals, Apart, Known, Ids, handlesUpdates
  <1> QED
    BY <1>1, <1>2, <1>3, <1>4, <1>5, <1>6 DEF PoolInv

\* A handle is reset before it goes back, or aborted.
LEMMA EndResetInv == ASSUME PoolInv, NEW g \in Goroutines, EndReset(g) PROVE PoolInv'
  <1> USE DEF EndReset, Reset, Abort
  <1>1. TypeOK'
    BY DEF PoolInv, TypeOK, Locals, Ids
  <1>2. Locals'
    BY DEF PoolInv, TypeOK, Locals, Idle, IsReset
  <1>3. Apart'
    BY DEF PoolInv, TypeOK, Locals, Apart, Known
  <1>4. Known'
    BY DEF PoolInv, TypeOK, Locals, Apart, Known
  <1>5. Idle'
    BY DEF PoolInv, TypeOK, Locals, Apart, Known, Idle, IsReset
  <1>6. Ids'
    BY DEF PoolInv, TypeOK, Locals, Apart, Known, Ids, handlesUpdates
  <1> QED
    BY <1>1, <1>2, <1>3, <1>4, <1>5, <1>6 DEF PoolInv

\* A reset handle goes to the pool.
LEMMA EndPutInv == ASSUME PoolInv, NEW g \in Goroutines, EndPut(g) PROVE PoolInv'
  <1> USE DEF EndPut
  <1>1. TypeOK'
    BY DEF PoolInv, TypeOK, Locals, Ids
  <1>2. Locals'
    BY DEF PoolInv, TypeOK, Locals, Idle, IsReset
  <1>3. Apart'
    BY DEF PoolInv, TypeOK, Locals, Apart, Known
  <1>4. Known'
    BY DEF PoolInv, TypeOK, Locals, Apart, Known
  <1>5. Idle'
    BY DEF PoolInv, TypeOK, Locals, Apart, Known, Idle, IsReset
  <1>6. Ids'
    BY DEF PoolInv, TypeOK, Locals, Apart, Known, Ids, handlesUpdates
  <1> QED
    BY <1>1, <1>2, <1>3, <1>4, <1>5, <1>6 DEF PoolInv

\* An Update takes the write lock.
LEMMA UpdateBeginInv == ASSUME PoolInv, NEW g \in Goroutines, UpdateBegin(g) PROVE PoolInv'
  <1> USE DEF UpdateBegin
  <1>1. TypeOK'
    BY DEF PoolInv, TypeOK, Locals, Ids
  <1>2. Locals'
    BY DEF PoolInv, TypeOK, Locals, Idle, IsReset
  <1>3. Apart'
    BY DEF PoolInv, TypeOK, Locals, Apart, Known
  <1>4. Known'
    BY DEF PoolInv, TypeOK, Locals, Apart, Known
  <1>5. Idle'
    BY DEF PoolInv, TypeOK, Locals, Apart, Known, Idle, IsReset
  <1>6. Ids'
    BY DEF PoolInv, TypeOK, Locals, Apart, Known, Ids, handlesUpdates
  <1> QED
    BY <1>1, <1>2, <1>3, <1>4, <1>5, <1>6 DEF PoolInv

\* A commit moves the head up.
LEMMA UpdateCommitInv == ASSUME PoolInv, NEW g \in Goroutines, UpdateCommit(g) PROVE PoolInv'
  <1> USE DEF UpdateCommit
  <1>1. TypeOK'
    BY DEF PoolInv, TypeOK, Locals, Ids
  <1>2. Locals'
    BY DEF PoolInv, TypeOK, Locals, Idle, IsReset
  <1>3. Apart'
    BY DEF PoolInv, TypeOK, Locals, Apart, Known
  <1>4. Known'
    BY DEF PoolInv, TypeOK, Locals, Apart, Known
  <1>5. Idle'
    BY DEF PoolInv, TypeOK, Locals, Apart, Known, Idle, IsReset
  <1>6. Ids'
    BY DEF PoolInv, TypeOK, Locals, Apart, Known, Ids, handlesUpdates
  <1> QED
    BY <1>1, <1>2, <1>3, <1>4, <1>5, <1>6 DEF PoolInv

\* CommitID loads lastid.
LEMMA CommitIDLoadInv == ASSUME PoolInv, NEW g \in Goroutines, CommitIDLoad(g) PROVE PoolInv'
  <1> USE DEF CommitIDLoad, Return
  <1>1. TypeOK'
    BY DEF PoolInv, TypeOK, Locals, Ids
  <1>2. Locals'
    BY DEF PoolInv, TypeOK, Locals, Idle, IsReset
  <1>3. Apart'
    BY DEF PoolInv, TypeOK, Locals, Apart, Known
  <1>4. Known'
    BY DEF PoolInv, TypeOK, Locals, Apart, Known
  <1>5. Idle'
    BY DEF PoolInv, TypeOK, Locals, Apart, Known, Idle, IsReset
  <1>6. Ids'
    BY DEF PoolInv, TypeOK, Locals, Apart, Known, Ids, handlesUpdates
  <1> QED
    BY <1>1, <1>2, <1>3, <1>4, <1>5, <1>6 DEF PoolInv

\* CommitID's CAS moves lastid up or finds it new enough.
LEMMA CommitIDCasInv == ASSUME PoolInv, NEW g \in Goroutines, CommitIDCas(g) PROVE PoolInv'
  <1> USE DEF CommitIDCas, Return
  <1>1. TypeOK'
    BY DEF PoolInv, TypeOK, Locals, Ids
  <1>2. Locals'
    BY DEF PoolInv, TypeOK, Locals, Idle, IsReset
  <1>3. Apart'
    BY DEF PoolInv, TypeOK, Locals, Apart, Known
  <1>4. Known'
    BY DEF PoolInv, TypeOK, Locals, Apart, Known
  <1>5. Idle'
    BY DEF PoolInv, TypeOK, Locals, Apart, Known, Idle, IsReset
  <1>6. Ids'
    BY DEF PoolInv, TypeOK, Locals, Apart, Known, Ids, handlesUpdates
  <1> QED
    BY <1>1, <1>2, <1>3, <1>4, <1>5, <1>6 DEF PoolInv

\* Close aborts a pooled handle.
LEMMA CloseStepInv == ASSUME PoolInv, NEW g \in Goroutines, CloseStep(g) PROVE PoolInv'
  <1> USE DEF CloseStep, Abort
  <1>1. TypeOK'
    BY DEF PoolInv, TypeOK, Locals, Ids
  <1>2. Locals'
    BY DEF PoolInv, TypeOK, Locals, Idle, IsReset
  <1>3. Apart'
    BY DEF PoolInv, TypeOK, Locals, Apart, Known
  <1>4. Known'
    BY DEF PoolInv, TypeOK, Locals, Apart, Known
  <1>5. Idle'
    BY DEF PoolInv, TypeOK, Locals, Apart, Known, Idle, IsReset
  <1>6. Ids'
    BY DEF PoolInv, TypeOK, Locals, Apart, Known, Ids, handlesUpdates
  <1> QED
    BY <1>1, <1>2, <1>3, <1>4, <1>5, <1>6 DEF PoolInv

\* A sweep starts, or finds another one at work.
LEMMA SweepStartInv == ASSUME PoolInv, NEW s \in Sweepers, SweepStart(s) PROVE PoolInv'
  <1> USE DEF SweepStart
  <1>1. TypeOK'
    BY DEF PoolInv, TypeOK, Locals, Ids
  <1>2. Locals'
    BY DEF PoolInv, TypeOK, Locals, Idle, IsReset
  <1>3. Apart'
    BY DEF PoolInv, TypeOK, Locals, Apart, Known
  <1>4. Known'
    BY DEF PoolInv, TypeOK, Locals, Apart, Known
  <1>5. Idle'
    BY DEF PoolInv, TypeOK, Locals, Apart, Known, Idle, IsReset
  <1>6. Ids'
    BY DEF PoolInv, TypeOK, Locals, Apart, Known, Ids, handlesUpdates
  <1> QED
    BY <1>1, <1>2, <1>3, <1>4, <1>5, <1>6 DEF PoolInv

\* A sweep takes a handle from the pool.
LEMMA SweepGetInv == ASSUME PoolInv, NEW s \in Sweepers, SweepGet(s) PROVE PoolInv'
  <1> USE DEF SweepGet
  <1>1. TypeOK'
    BY DEF PoolInv, TypeOK, Locals, Ids
  <1>2. Locals'
    BY DEF PoolInv, TypeOK, Locals, Idle, IsReset
  <1>3. Apart'
    BY DEF PoolInv, TypeOK, Locals, Apart, Known
  <1>4. Known'
    BY DEF PoolInv, TypeOK, Locals, Apart, Known
  <1>5. Idle'
    BY DEF PoolInv, TypeOK, Locals, Apart, Known, Idle, IsReset
  <1>6. Ids'
    BY DEF PoolInv, TypeOK, Locals, Apart, Known, Ids, handlesUpdates
  <1> QED
    BY <1>1, <1>2, <1>3, <1>4, <1>5, <1>6 DEF PoolInv

\* A sweep puts the handle it took back, for it is reset.
LEMMA SweepCheckInv == ASSUME PoolInv, NEW s \in Sweepers, SweepCheck(s) PROVE PoolInv'
  <1> USE DEF SweepCheck, Live, Abort
  <1>1. TypeOK'
    BY DEF PoolInv, TypeOK, Locals, Ids
  <1>2. Locals'
    BY DEF PoolInv, TypeOK, Locals, Idle, IsReset
  <1>3. Apart'
    BY DEF PoolInv, TypeOK, Locals, Apart, Known
  <1>4. Known'
    BY DEF PoolInv, TypeOK, Locals, Apart, Known
  <1>5. Idle'
    BY DEF PoolInv, TypeOK, Locals, Apart, Known, Idle, IsReset
  <1>6. Ids'
    BY DEF PoolInv, TypeOK, Locals, Apart, Known, Ids, handlesUpdates
  <1> QED
    BY <1>1, <1>2, <1>3, <1>4, <1>5, <1>6 DEF PoolInv

\* A sweep ends.
LEMMA SweepExitInv == ASSUME PoolInv, NEW s \in Sweepers, SweepExit(s) PROVE PoolInv'
  <1> USE DEF SweepExit
  <1>1. TypeOK'
    BY DEF PoolInv, TypeOK, Locals, Ids
  <1>2. Locals'
    BY DEF PoolInv, TypeOK, Locals, Idle, IsReset
  <1>3. Apart'
    BY DEF PoolInv, TypeOK, Locals, Apart, Known
  <1>4. Known'
    BY DEF PoolInv, TypeOK, Locals, Apart, Known
  <1>5. Idle'
    BY DEF PoolInv, TypeOK, Locals, Apart, Known, Idle, IsReset
  <1>6. Ids'
    BY DEF PoolInv, TypeOK, Locals, Apart, Known, Ids, handlesUpdates
  <1> QED
    BY <1>1, <1>2, <1>3, <1>4, <1>5, <1>6 DEF PoolInv

\* The garbage collector empties the pool.
LEMMA PoolDropInv == ASSUME PoolInv, NEW t \in Txns, PoolDrop(t) PROVE PoolInv'
  <1> USE DEF PoolDrop
  <1>1. TypeOK'
    BY DEF PoolInv, TypeOK, Locals, Ids
  <1>2. Locals'
    BY DEF PoolInv, TypeOK, Locals, Idle, IsReset
  <1>3. Apart'
    BY DEF PoolInv, TypeOK, Locals, Apart, Known
  <1>4. Known'
    BY DEF PoolInv, TypeOK, Locals, Apart, Known
  <1>5. Idle'
    BY DEF PoolInv, TypeOK, Locals, Apart, Known, Idle, IsReset
  <1>6. Ids'
    BY DEF PoolInv, TypeOK, Locals, Apart, Known, Ids, handlesUpdates
  <1> QED
    BY <1>1, <1>2, <1>3, <1>4, <1>5, <1>6 DEF PoolInv

\* Every step keeps the invariant.
LEMMA NextInv == ASSUME PoolInv, [Next]_vars PROVE PoolInv'
  <1>1. ASSUME NEW g \in Goroutines,
               \/ BeginGet(g) \/ BeginRenew(g) \/ BeginNew(g)
               \/ EndView(g) \/ EndStale(g) \/ EndReset(g) \/ EndPut(g)
        PROVE  PoolInv'
    BY <1>1, BeginGetInv, BeginRenewInv, BeginNewInv, EndViewInv, EndStaleInv, EndResetInv, EndPutInv
  <1>2. ASSUME NEW g \in Goroutines,
               \/ UpdateBegin(g) \/ UpdateCommit(g) \/ CommitIDLoad(g) \/ CommitIDCas(g)
               \/ CloseStep(g)
        PROVE  PoolInv'
    BY <1>2, UpdateBeginInv, UpdateCommitInv, CommitIDLoadInv, CommitIDCasInv, CloseStepInv
  <1>3. ASSUME NEW s \in Sweepers, SweepStart(s) \/ SweepGet(s) \/ SweepCheck(s) \/ SweepExit(s)
        PROVE  PoolInv'
    BY <1>3, SweepStartInv, SweepGetInv, SweepCheckInv, SweepExitInv
  <1>4. ASSUME NEW t \in Txns, PoolDrop(t) PROVE PoolInv'
    BY <1>4, PoolDropInv
  <1>5. CASE UNCHANGED vars
    BY <1>5 DEF vars, PoolInv, TypeOK, Locals, Apart, Known, Idle, IsReset, Ids, handlesUpdates
  <1> QED
    BY <1>1, <1>2, <1>3, <1>4, <1>5 DEF Next

\* The invariant holds in every reachable state.
THEOREM Invariance == Spec => []PoolInv
  <1>1. Init => PoolInv
    BY DEF Init, PoolInv, TypeOK, Locals, Apart, Known, Idle, IsReset, Ids, handlesUpdates
  <1>2. PoolInv /\ [Next]_vars => PoolInv'
    BY NextInv
  <1> QED
    BY <1>1, <1>2, PTL DEF Spec

-----------------------------------------------------------------------------
\* Every variable keeps its type: lastid never passes the ids that were
\* committed, and a sweep's locals are handles or nil.
THEOREM TypeCorrect == Spec => []TypeOK
  <1>1. PoolInv => TypeOK
    BY DEF PoolInv
  <1> QED
    BY <1>1, Invariance, PTL

\* A handle waiting in the pool, or dropped from it by the garbage collector,
\* pins no snapshot: no reader that abortReadonly put back was renewed by
\* handleIdle.
THEOREM IdleSafety == Spec => []IdlePinsNothing
  <1>1. PoolInv => IdlePinsNothing
    BY DEF PoolInv, Idle, IsReset, IdlePinsNothing
  <1> QED
    BY <1>1, Invariance, PTL

\* A View runs on a live snapshot with every commit made before it began,
\* although others sweep, renew, reset and abort handles meanwhile.
THEOREM ViewSafety == Spec => []ViewSeesEarlierCommits
  <1>1. PoolInv => ViewSeesEarlierCommits
    BY DEF PoolInv, Ids, ViewSeesEarlierCommits
  <1> QED
    BY <1>1, Invariance, PTL

\* When Update returned, lastid is not below its transaction id, whichever
\* CommitID won the CAS.
THEOREM PublishedSafety == Spec => []ReturnedIsPublished
  <1>1. PoolInv => ReturnedIsPublished
    BY DEF PoolInv, TypeOK, Ids, ReturnedIsPublished
  <1> QED
    BY <1>1, Invariance, PTL

-----------------------------------------------------------------------------
(* The setting HandleIdle without HandleOutstanding makes abortReadonly     *)
(* drop a handle it did not abort; with every other one nothing is lost.    *)

\* Handles change hands, they are not lost.
LEMMA NoneForgottenStep ==
  ASSUME PoolInv, NoneForgotten, [Next]_vars,
         "Idle" \in UpdateHandling => "Outstanding" \in UpdateHandling
  PROVE  NoneForgotten'
  <1> USE DEF PoolInv, TypeOK, Locals, NoneForgotten
  <1>1. ASSUME NEW g \in Goroutines, BeginGet(g) PROVE NoneForgotten'
    BY <1>1 DEF BeginGet
  <1>2. ASSUME NEW g \in Goroutines, BeginRenew(g) PROVE NoneForgotten'
    BY <1>2 DEF BeginRenew, Live, Abort
  <1>3. ASSUME NEW g \in Goroutines, BeginNew(g) PROVE NoneForgotten'
    <2>1. CASE \A t \in Txns : st[t] # "none"
      BY <1>3, <2>1 DEF BeginNew, Live
    <2>2. ASSUME NEW t \in Txns, st[t] = "none", Live(t), hold(g, t) PROVE NoneForgotten'
      BY <1>3, <2>2 DEF BeginNew, Live
    <2> QED
      BY <1>3, <2>1, <2>2 DEF BeginNew
  <1>4. ASSUME NEW g \in Goroutines, EndStale(g) PROVE NoneForgotten'
    BY <1>4 DEF EndStale, Live, Abort, Ids, handlesUpdates
  <1>5. ASSUME NEW g \in Goroutines, EndReset(g) PROVE NoneForgotten'
    BY <1>5 DEF EndReset, Reset, Abort
  <1>6. ASSUME NEW g \in Goroutines, EndPut(g) PROVE NoneForgotten'
    BY <1>6 DEF EndPut
  <1>7. ASSUME NEW g \in Goroutines, CloseStep(g) PROVE NoneForgotten'
    BY <1>7 DEF CloseStep, Abort
  <1>8. ASSUME NEW s \in Sweepers, SweepGet(s) PROVE NoneForgotten'
    <2>1. ASSUME NEW t \in pool, pool' = pool \ {t}, stxn' = [stxn EXCEPT ![s] = t]
          PROVE  NoneForgotten'
      <3>1. UNCHANGED <<st, held, lost>> /\ stxn[s] = NoTxn
        BY <1>8 DEF SweepGet
      <3>2. stxn'[s] = t /\ \A q \in Sweepers \ {s} : stxn'[q] = stxn[q]
        BY <2>1
      <3>3. \A x \in Txns : (\E q \in Sweepers : stxn[q] = x) => \E q \in Sweepers : stxn'[q] = x
        BY <3>1, <3>2
      <3> QED
        BY <2>1, <3>1, <3>2, <3>3
    <2>2. CASE pool' = pool /\ stxn' = stxn
      BY <1>8, <2>2 DEF SweepGet
    <2> QED
      BY <1>8, <2>1, <2>2 DEF SweepGet
  <1>9. ASSUME NEW s \in Sweepers, SweepCheck(s) PROVE NoneForgotten'
    <2>1. stxn[s] \in Txns /\ id[stxn[s]] >= lastid
      BY <1>9 DEF SweepCheck, Idle, IsReset
    <2>2. /\ pool' = pool \cup {stxn[s]} /\ stxn' = [stxn EXCEPT ![s] = NoTxn]
          /\ UNCHANGED <<st, held, lost>>
      BY <1>9, <2>1 DEF SweepCheck
    <2>3. \A q \in Sweepers \ {s} : stxn'[q] = stxn[q]
      BY <2>2
    <2> QED
      BY <2>2, <2>3
  <1>10. ASSUME NEW t \in Txns, PoolDrop(t) PROVE NoneForgotten'
    BY <1>10 DEF PoolDrop
  <1>11. ASSUME NEW g \in Goroutines,
                \/ EndView(g) \/ UpdateBegin(g) \/ UpdateCommit(g) \/ CommitIDLoad(g) \/ CommitIDCas(g)
         PROVE  NoneForgotten'
    BY <1>11 DEF EndView, UpdateBegin, UpdateCommit, CommitIDLoad, CommitIDCas
  <1>12. ASSUME NEW s \in Sweepers, SweepStart(s) \/ SweepExit(s) PROVE NoneForgotten'
    BY <1>12 DEF SweepStart, SweepExit
  <1>13. CASE UNCHANGED vars
    BY <1>13 DEF vars
  <1> QED
    BY <1>1, <1>2, <1>3, <1>4, <1>5, <1>6, <1>7, <1>8, <1>9, <1>10, <1>11, <1>12, <1>13 DEF Next

\* Places that exclude each other, and at least one of them: exactly one owner.
LEMMA OwnersCounted ==
  ASSUME PoolInv, NoneForgotten PROVE OneOwner
  <1> SUFFICES ASSUME NEW t \in Txns
               PROVE  Cardinality(Owners(t)) = IF st[t] = "none" THEN 0 ELSE 1
    BY DEF OneOwner
  <1> USE DEF PoolInv, TypeOK, Locals, Apart
  <1>1. CASE st[t] = "none"
    <2>1. Owners(t) = {}
      BY <1>1 DEF Owners, Known
    <2> QED
      BY <1>1, <2>1, FS_EmptySet
  <1>2. CASE st[t] # "none"
    <2>1. \E o : Owners(t) = {o}
      <3>1. CASE t \in pool
        <4>1. Owners(t) = {<<"pool", 0>>}
          BY <3>1 DEF Owners
        <4> QED
          BY <4>1
      <3>2. CASE t \in lost
        <4>1. Owners(t) = {<<"lost", 0>>}
          BY <3>2 DEF Owners
        <4> QED
          BY <4>1
      <3>3. ASSUME NEW g \in Goroutines, held[g] = t PROVE \E o : Owners(t) = {o}
        <4>1. Owners(t) = {<<"view", g>>}
          BY <3>3 DEF Owners
        <4> QED
          BY <4>1
      <3>4. ASSUME NEW s \in Sweepers, stxn[s] = t PROVE \E o : Owners(t) = {o}
        <4>1. Owners(t) = {<<"txn", s>>}
          BY <3>4 DEF Owners
        <4> QED
          BY <4>1
      <3> QED
        BY <1>2, <3>1, <3>2, <3>3, <3>4 DEF NoneForgotten
    <2> QED
      BY <1>2, <2>1, FS_Singleton
  <1> QED
    BY <1>1, <1>2

\* Every handle libmdbx knows has exactly one owner in Go, for every setting
\* but HandleIdle without HandleOutstanding.
THEOREM SingleOwner ==
  ASSUME \A S \in Settings : "Idle" \in S => "Outstanding" \in S
  PROVE  Spec => []OneOwner
  <1>1. Init => NoneForgotten
    BY DEF Init, NoneForgotten
  <1>2. PoolInv /\ NoneForgotten /\ [Next]_vars => NoneForgotten'
    BY NoneForgottenStep DEF PoolInv, TypeOK
  <1>3. PoolInv /\ NoneForgotten => OneOwner
    BY OwnersCounted
  <1> QED
    BY <1>1, <1>2, <1>3, Invariance, PTL DEF Spec
=============================================================================

----------------------------- MODULE MvccProofs -----------------------------
(***************************************************************************)
(* Proofs about Mvcc, for every number of readers, slots, processes and    *)
(* transactions: the type invariant, that no active reader loses a page of *)
(* its snapshot, that cached_oldest_txnid never moves back, and that       *)
(* rdt_refresh_flag tells the truth about it (in the second part).         *)
(*                                                                         *)
(* The argument.  A reader has "passed" when meta_should_retry found the   *)
(* head it had published still to be the head.  From then on its slot      *)
(* holds its snapshot, and every txnid the writer may still store in       *)
(* cached_oldest_txnid is no larger: at the moment of passing the head     *)
(* bounds whatever the scan in progress has computed, and a later pass     *)
(* meets the slot.  Nothing but an oust takes a passed slot away, since    *)
(* the txnid a stuck slot is compared with is below cached_oldest_txnid,   *)
(* and an ousted reader never becomes active again.                        *)
(***************************************************************************)
EXTENDS Mvcc, TLAPS

Ousting == wpc \in {"oust", "oustcas", "oustreset"}

\* The reader has gone through meta_should_retry and has not been ousted.
Passed(r) ==
    /\ pc[r] \in {"fetch", "verify", "active", "parkflag", "parked",
                  "unpark", "unparkcas", "unparkcheck"}
    /\ stid[slot[r]] # "ousted"

\* Loop counters stay below the limits that end their loops.
Bounds ==
    /\ \A r \in Readers :
          pc[r] \in {"reset", "write", "flag", "retry", "fetch", "verify"} => loop[r] < MaxLoop
    /\ wpc \in {"stuck", "stuckcas"} => wi <= wn
    /\ wpc \in {"oustcas", "oustreset"} => wi <= rdtlen
    /\ Ousting => wret = "kick"
    /\ wpc = "open" \/ Ousting \/ (Scanning /\ wret # "sync") => head < MaxTxn

\* A handle with a slot owns it in the table, and its process is alive.
Owned ==
    \A r \in Readers :
        /\ pc[r] # "dead" => Proc[r] \notin dead
        /\ pc[r] \in {"none", "dead"} => slot[r] = 0
        /\ pc[r] \notin {"none", "dead"} =>
              slot[r] \in 1 .. rdtlen /\ spid[slot[r]] = Proc[r]

\* The tid of a slot is only away from its owner while the owner is parked.
OwnTid(r) ==
    pc[r] \in {"finished", "reset", "write", "flag", "retry", "fetch", "verify",
               "active", "cleanflag", "unparkcheck"} => stid[slot[r]] = "owner"

OwnerTid == \A r \in Readers : OwnTid(r)

\* Nothing is reclaimed beyond the cached oldest, and that is a committed one.
MetaOrder ==
    /\ steady <= head
    /\ cached <= Prefer
    /\ detent <= cached
    /\ reused <= cached

\* The locals of a scan lie between the old cached oldest and the head.
ScanOrder ==
    /\ Scanning => prev = cached /\ prev <= oldest /\ oldest <= Prefer
    /\ wpc \in {"stuck", "stuckcas"} => seen < prev
    /\ Ousting => oldest = cached /\ oldest < Prefer

\* A txnid written to a slot is still there or is not the head any more.
Publishes(r) ==
    pc[r] \in {"flag", "retry"} => stxn[slot[r]] = snap[r] \/ snap[r] < head

Published == \A r \in Readers : Publishes(r)

\* A passed reader pins its snapshot: in its slot, against the cached
\* oldest, against the scan in progress and against an oust half done.
Pins(r) ==
    /\ stxn[slot[r]] = snap[r]
    /\ cached <= snap[r]
    /\ wpc \in {"scan", "store"} => oldest <= snap[r]
    /\ wpc = "slot" /\ (slot[r] < wi \/ slot[r] > wn) => oldest <= snap[r]
    /\ wpc \in {"stuck", "stuckcas"} /\ (slot[r] <= wi \/ slot[r] > wn) => oldest <= snap[r]
    /\ wpc = "oustreset" /\ slot[r] = wi => oldest < snap[r]

Pinned == \A r \in Readers : Passed(r) => Pins(r)

\* The inductive invariant.
IInv ==
    /\ TypeOK /\ Bounds
    /\ Owned /\ SlotExclusive /\ OwnerTid
    /\ MetaOrder /\ ScanOrder
    /\ Published /\ Pinned

USE MvccAssumption
USE DEF Slots, Txnids, Invalid, PcStates, metaVars, tblVars, rdVars, scanVars, wrVars, deadVars,
   Step, WStep

\* The initial state satisfies the inductive invariant.
LEMMA InitInv == ASSUME Init PROVE IInv
  <1> USE DEF Init
  <1>1. TypeOK
    <2>1. head \in Txnids /\ steady \in Txnids /\ cached \in Txnids /\ rdtlen \in 0 .. MaxReaders
      OBVIOUS
    <2>2. /\ spid \in [Slots -> Procs \cup {NoProc}]
          /\ stid \in [Slots -> {"owner", "parked", "ousted"}]
          /\ stxn \in [Slots -> Txnids \cup {Invalid}]
      OBVIOUS
    <2>3. pc \in [Readers -> PcStates] /\ slot \in [Readers -> 0 .. MaxReaders]
      OBVIOUS
    <2>4. snap \in [Readers -> Txnids] /\ loop \in [Readers -> 0 .. MaxLoop]
      OBVIOUS
    <2>5. dead \subseteq Procs
      OBVIOUS
    <2>6. /\ prev \in Txnids /\ oldest \in Txnids /\ seen \in Txnids \cup {Invalid}
          /\ wi \in 1 .. MaxReaders + 1 /\ wn \in 0 .. MaxReaders /\ stucked \in 0 .. MaxReaders
          /\ detent \in Txnids /\ reused \in Txnids
      OBVIOUS
    <2> QED
      BY <2>1, <2>2, <2>3, <2>4, <2>5, <2>6 DEF TypeOK
  <1>2. Bounds /\ Owned /\ SlotExclusive /\ OwnerTid
    BY DEF Bounds, Owned, SlotExclusive, OwnerTid, OwnTid, Scanning, Ousting
  <1>3. MetaOrder /\ ScanOrder /\ Published /\ Pinned
    BY DEF MetaOrder, ScanOrder, Published, Publishes, Pinned, Pins, Passed, Scanning,
       Ousting, Prefer
  <1> QED
    BY <1>1, <1>2, <1>3 DEF IInv

\* A handle past mvcc_bind_slot has a slot of the table that is not free.
LEMMA HasSlot ==
  ASSUME IInv, NEW q \in Readers, pc[q] \notin {"none", "dead"}
  PROVE  slot[q] \in Slots /\ spid[slot[q]] # NoProc /\ spid[slot[q]] \notin dead
  <1>1. Proc[q] \in Procs /\ Proc[q] # NoProc
    OBVIOUS
  <1>2. slot[q] \in Slots
    BY DEF IInv, TypeOK, Owned
  <1>3. spid[slot[q]] = Proc[q] /\ Proc[q] \notin dead
    BY DEF IInv, Owned
  <1> QED
    BY <1>1, <1>2, <1>3

\* Two handles with a slot each have different slots of the table.
LEMMA OtherSlot ==
  ASSUME IInv, NEW r \in Readers, NEW q \in Readers, q # r,
         pc[r] \notin {"none", "dead"}, pc[q] \notin {"none", "dead"}
  PROVE  slot[r] \in Slots /\ slot[q] \in Slots /\ slot[q] # slot[r]
  BY DEF IInv, TypeOK, Owned, SlotExclusive

\* mvcc_bind_slot takes a slot no live handle owns, and sweeps only dead ones.
LEMMA BindSlotInv == ASSUME IInv, NEW r \in Readers, BindSlot(r) PROVE IInv'
  <1> USE DEF BindSlot, Stale, Swept
  <1>1. TypeOK'
    <2>1. spid' \in [Slots -> Procs \cup {NoProc}]
      BY DEF IInv, TypeOK
    <2>2. /\ stid' \in [Slots -> {"owner", "parked", "ousted"}]
          /\ stxn' \in [Slots -> Txnids \cup {Invalid}]
      BY DEF IInv, TypeOK
    <2>3. pc' \in [Readers -> PcStates] /\ slot' \in [Readers -> 0 .. MaxReaders]
      BY DEF IInv, TypeOK
    <2>4. rdtlen' \in 0 .. MaxReaders /\ flag' \in {"changed", "nothing"}
      BY DEF IInv, TypeOK
    <2>5. UNCHANGED <<metaVars, cached, snap, loop, scanVars, wrVars, deadVars>>
      OBVIOUS
    <2> HIDE DEF BindSlot
    <2> QED
      BY <2>1, <2>2, <2>3, <2>4, <2>5 DEF IInv, TypeOK
  <1>2. Bounds'
    BY DEF IInv, TypeOK, Bounds, Scanning, Ousting
  <1>3. Owned'
    <2> SUFFICES ASSUME NEW q \in Readers
                 PROVE  /\ pc'[q] # "dead" => Proc[q] \notin dead'
                        /\ pc'[q] \in {"none", "dead"} => slot'[q] = 0
                        /\ pc'[q] \notin {"none", "dead"} =>
                              slot'[q] \in 1 .. rdtlen' /\ spid'[slot'[q]] = Proc[q]
      BY DEF Owned
    <2>1. CASE q = r
      BY <2>1 DEF IInv, TypeOK, Owned
    <2>2. CASE q # r
      <3>1. pc'[q] = pc[q] /\ slot'[q] = slot[q] /\ dead' = dead /\ rdtlen <= rdtlen'
        BY <2>2 DEF IInv, TypeOK
      <3>2. ASSUME pc[q] \notin {"none", "dead"} PROVE spid'[slot[q]] = spid[slot[q]]
        <4>1. slot[q] \in Slots /\ spid[slot[q]] # NoProc /\ spid[slot[q]] \notin dead
          BY <3>2, HasSlot
        <4>2. Swept[slot[q]] = spid[slot[q]]
          BY <4>1
        <4>3. PICK s \in Slots : \/ spid' = [spid EXCEPT ![s] = Proc[r]] /\ spid[s] = NoProc
                                 \/ spid' = [Swept EXCEPT ![s] = Proc[r]] /\ Swept[s] = NoProc
          OBVIOUS
        <4>4. DOMAIN spid = Slots /\ DOMAIN Swept = Slots
          BY DEF IInv, TypeOK
        <4> HIDE DEF BindSlot, Swept, Stale
        <4> QED
          BY <4>1, <4>2, <4>3, <4>4
      <3>3. rdtlen \in Int /\ rdtlen' \in Int
        BY DEF IInv, TypeOK
      <3> HIDE DEF BindSlot
      <3> QED
        BY <3>1, <3>2, <3>3 DEF IInv, Owned
    <2> QED
      BY <2>1, <2>2
  <1>4. SlotExclusive'
    <2>1. PICK s \in Slots : (spid[s] = NoProc \/ spid[s] \in dead) /\ slot' = [slot EXCEPT ![r] = s]
      BY DEF IInv, TypeOK
    <2>2. ASSUME NEW q \in Readers, q # r PROVE slot[q] # s
      <3>1. slot[q] = 0 \/ (spid[slot[q]] # NoProc /\ spid[slot[q]] \notin dead)
        BY HasSlot DEF IInv, Owned
      <3> HIDE DEF BindSlot
      <3> QED
        BY <2>1, <3>1
    <2> HIDE DEF BindSlot
    <2> QED
      BY <2>1, <2>2 DEF IInv, TypeOK, SlotExclusive
  <1>5. OwnerTid'
    BY DEF IInv, TypeOK, Owned, SlotExclusive, OwnerTid, OwnTid
  <1>6. MetaOrder' /\ ScanOrder'
    BY DEF IInv, MetaOrder, ScanOrder, Scanning, Ousting, Prefer
  <1>7. Published'
    <2> SUFFICES ASSUME NEW q \in Readers PROVE Publishes(q)'
      BY DEF Published
    <2>1. CASE q = r
      BY <2>1 DEF IInv, TypeOK, Publishes
    <2>2. ASSUME q # r, pc[q] \in {"flag", "retry"}
          PROVE  slot'[q] = slot[q] /\ stxn'[slot[q]] = stxn[slot[q]]
      <3>1. slot[q] \in Slots /\ spid[slot[q]] # NoProc /\ spid[slot[q]] \notin dead
        BY <2>2, HasSlot
      <3>2. PICK s \in Slots :
              /\ spid[s] = NoProc \/ spid[s] \in dead
              /\ stxn' = [stxn EXCEPT ![s] = Invalid]
              /\ slot' = [slot EXCEPT ![r] = s]
        BY DEF IInv, TypeOK
      <3> HIDE DEF BindSlot
      <3> QED
        BY <2>2, <3>1, <3>2 DEF IInv, TypeOK
    <2>3. CASE q # r
      BY <2>2, <2>3 DEF IInv, TypeOK, Published, Publishes
    <2> QED
      BY <2>1, <2>3
  <1>8. Pinned'
    <2> SUFFICES ASSUME NEW q \in Readers, Passed(q)' PROVE Pins(q)'
      BY DEF Pinned
    <2>1. q # r
      BY DEF IInv, TypeOK, Passed
    <2> QED
      BY <2>1 DEF IInv, TypeOK, Owned, Pinned, Passed, Pins
  <1> QED
    BY <1>1, <1>2, <1>3, <1>4, <1>5, <1>6, <1>7, <1>8 DEF IInv

\* The first meta_tap of ro_seize touches no shared state.
LEMMA SeizeTapInv == ASSUME IInv, NEW r \in Readers, SeizeTap(r) PROVE IInv'
  <1> USE DEF SeizeTap
  <1>1. TypeOK' /\ Bounds'
    BY DEF IInv, TypeOK, Bounds, Scanning, Ousting
  <1>2. Owned' /\ SlotExclusive' /\ OwnerTid'
    BY DEF IInv, Owned, SlotExclusive, OwnerTid, OwnTid
  <1>3. MetaOrder' /\ ScanOrder'
    BY DEF IInv, MetaOrder, ScanOrder, Scanning, Ousting, Prefer
  <1>4. Published'
    BY DEF IInv, Published, Publishes
  <1>5. Pinned'
    BY DEF IInv, Pinned, Pins, Passed
  <1> QED
    BY <1>1, <1>2, <1>3, <1>4, <1>5 DEF IInv

\* The reset that begins a further round takes back a txnid nobody relies on.
LEMMA SeizeResetInv == ASSUME IInv, NEW r \in Readers, SeizeReset(r) PROVE IInv'
  <1> USE DEF SeizeReset
  <1>1. TypeOK'
    <2>1. stxn' \in [Slots -> Txnids \cup {Invalid}]
      BY DEF IInv, TypeOK
    <2>2. pc' \in [Readers -> PcStates]
      BY DEF IInv, TypeOK
    <2> QED
      BY <2>1, <2>2 DEF IInv, TypeOK
  <1>2. Bounds'
    BY DEF IInv, TypeOK, Bounds, Scanning, Ousting
  <1>3. Owned' /\ SlotExclusive' /\ OwnerTid'
    BY DEF IInv, Owned, SlotExclusive, OwnerTid, OwnTid
  <1>4. MetaOrder' /\ ScanOrder'
    BY DEF IInv, MetaOrder, ScanOrder, Scanning, Ousting, Prefer
  <1>5. Published'
    BY DEF IInv, TypeOK, Owned, SlotExclusive, Published, Publishes
  <1>6. Pinned'
    <2> SUFFICES ASSUME NEW q \in Readers, Passed(q)' PROVE Pins(q)'
      BY DEF Pinned
    <2>1. q # r /\ pc'[q] = pc[q]
      BY DEF IInv, TypeOK, Passed
    <2>2. slot[q] # slot[r]
      BY <2>1, OtherSlot DEF Passed
    <2>3. Passed(q)
      BY <2>1, <2>2 DEF IInv, TypeOK, Passed
    <2>4. stxn'[slot[q]] = stxn[slot[q]]
      BY <2>2 DEF IInv, TypeOK
    <2> QED
      BY <2>3, <2>4 DEF IInv, Pinned, Pins
  <1> QED
    BY <1>1, <1>2, <1>3, <1>4, <1>5, <1>6 DEF IInv

\* Writing the tapped head to the handle's own slot publishes it.
LEMMA SeizeWriteInv == ASSUME IInv, NEW r \in Readers, SeizeWrite(r) PROVE IInv'
  <1> USE DEF SeizeWrite
  <1>1. TypeOK'
    <2>1. stxn' \in [Slots -> Txnids \cup {Invalid}]
      BY DEF IInv, TypeOK
    <2>2. pc' \in [Readers -> PcStates]
      BY DEF IInv, TypeOK
    <2> QED
      BY <2>1, <2>2 DEF IInv, TypeOK
  <1>2. Bounds'
    BY DEF IInv, TypeOK, Bounds, Scanning, Ousting
  <1>3. Owned' /\ SlotExclusive' /\ OwnerTid'
    BY DEF IInv, Owned, SlotExclusive, OwnerTid, OwnTid
  <1>4. MetaOrder' /\ ScanOrder'
    BY DEF IInv, MetaOrder, ScanOrder, Scanning, Ousting, Prefer
  <1>5. Published'
    <2> SUFFICES ASSUME NEW q \in Readers PROVE Publishes(q)'
      BY DEF Published
    <2>1. slot[r] \in Slots
      BY HasSlot
    <2>2. CASE q = r
      BY <2>1, <2>2 DEF IInv, TypeOK, Publishes
    <2>3. CASE q # r
      BY <2>3, OtherSlot DEF IInv, TypeOK, Published, Publishes
    <2> QED
      BY <2>2, <2>3
  <1>6. Pinned'
    <2> SUFFICES ASSUME NEW q \in Readers, Passed(q)' PROVE Pins(q)'
      BY DEF Pinned
    <2>1. q # r /\ pc'[q] = pc[q]
      BY DEF IInv, TypeOK, Passed
    <2>2. slot[q] # slot[r]
      BY <2>1, OtherSlot DEF Passed
    <2>3. Passed(q)
      BY <2>1, <2>2 DEF IInv, TypeOK, Passed
    <2>4. stxn'[slot[q]] = stxn[slot[q]]
      BY <2>2 DEF IInv, TypeOK
    <2> QED
      BY <2>3, <2>4 DEF IInv, Pinned, Pins
  <1> QED
    BY <1>1, <1>2, <1>3, <1>4, <1>5, <1>6 DEF IInv

\* Raising rdt_refresh_flag publishes nothing new.
LEMMA SeizeFlagInv == ASSUME IInv, NEW r \in Readers, SeizeFlag(r) PROVE IInv'
  <1> USE DEF SeizeFlag
  <1>1. TypeOK' /\ Bounds'
    BY DEF IInv, TypeOK, Bounds, Scanning, Ousting
  <1>2. Owned' /\ SlotExclusive' /\ OwnerTid'
    BY DEF IInv, Owned, SlotExclusive, OwnerTid, OwnTid
  <1>3. MetaOrder' /\ ScanOrder'
    BY DEF IInv, MetaOrder, ScanOrder, Scanning, Ousting, Prefer
  <1>4. Published'
    BY DEF IInv, Published, Publishes
  <1>5. Pinned'
    BY DEF IInv, Pinned, Pins, Passed
  <1> QED
    BY <1>1, <1>2, <1>3, <1>4, <1>5 DEF IInv

\* meta_should_retry: the published txnid is the head, so it bounds any scan.
LEMMA SeizeRetryInv == ASSUME IInv, NEW r \in Readers, SeizeRetry(r) PROVE IInv'
  <1> USE DEF SeizeRetry, Again
  <1>1. TypeOK'
    <2>1. /\ stxn' = stxn
          /\ snap' = snap \/ snap' = [snap EXCEPT ![r] = head]
          /\ loop' = loop \/ loop' = [loop EXCEPT ![r] = loop[r] + 1] \/ loop' = [loop EXCEPT ![r] = 0]
          /\ pc' = [pc EXCEPT ![r] = "fetch"] \/ pc' = [pc EXCEPT ![r] = "reset"] \/ pc' = [pc EXCEPT ![r] = "clean"]
          /\ UNCHANGED <<metaVars, flag, cached, rdtlen, spid, stid, slot, scanVars, wrVars, deadVars>>
      OBVIOUS
    <2>2. loop \in [Readers -> 0 .. MaxLoop] /\ 0 \in 0 .. MaxLoop /\ loop[r] + 1 \in 0 .. MaxLoop
      BY DEF IInv, TypeOK, Bounds
    <2>3. stxn \in [Slots -> Txnids \cup {Invalid}] /\ snap \in [Readers -> Txnids] /\ head \in Txnids
      BY DEF IInv, TypeOK
    <2> HIDE DEF SeizeRetry, Again
    <2>4. stxn' \in [Slots -> Txnids \cup {Invalid}] /\ snap' \in [Readers -> Txnids]
      BY <2>1, <2>3
    <2>5. loop' \in [Readers -> 0 .. MaxLoop]
      BY <2>1, <2>2
    <2>6. pc' \in [Readers -> PcStates]
      BY <2>1 DEF IInv, TypeOK
    <2> QED
      BY <2>1, <2>4, <2>5, <2>6 DEF IInv, TypeOK
  <1>2. Bounds'
    <2>1. \A q \in Readers \ {r} : pc'[q] = pc[q] /\ loop'[q] = loop[q]
      BY DEF IInv, TypeOK
    <2>2. pc'[r] \in {"reset", "fetch"} => loop'[r] < MaxLoop
      BY DEF IInv, TypeOK, Bounds
    <2>3. pc'[r] \in {"reset", "fetch", "clean"}
      BY DEF IInv, TypeOK
    <2>4. UNCHANGED <<rdtlen, head, scanVars, wrVars>>
      OBVIOUS
    <2> HIDE DEF SeizeRetry, Again
    <2> QED
      BY <2>1, <2>2, <2>3, <2>4 DEF IInv, Bounds, Scanning, Ousting
  <1>3. Owned' /\ SlotExclusive' /\ OwnerTid'
    <2>1. \A q \in Readers \ {r} : pc'[q] = pc[q]
      BY DEF IInv, TypeOK
    <2>2. pc[r] = "retry" /\ pc'[r] \in {"reset", "fetch", "clean"}
      BY DEF IInv, TypeOK
    <2>3. UNCHANGED <<dead, rdtlen, spid, stid, slot>>
      OBVIOUS
    <2> HIDE DEF SeizeRetry, Again
    <2> QED
      BY <2>1, <2>2, <2>3 DEF IInv, Owned, SlotExclusive, OwnerTid, OwnTid
  <1>4. MetaOrder' /\ ScanOrder'
    BY DEF IInv, MetaOrder, ScanOrder, Scanning, Ousting, Prefer
  <1>5. Published'
    <2> SUFFICES ASSUME NEW q \in Readers PROVE Publishes(q)'
      BY DEF Published
    <2>1. CASE q = r
      BY <2>1 DEF IInv, TypeOK, Publishes
    <2>2. CASE q # r
      <3>1. pc'[q] = pc[q] /\ snap'[q] = snap[q]
        BY <2>2 DEF IInv, TypeOK
      <3> QED
        BY <3>1 DEF IInv, Published, Publishes
    <2> QED
      BY <2>1, <2>2
  <1>6. Pinned'
    <2> SUFFICES ASSUME NEW q \in Readers, Passed(q)' PROVE Pins(q)'
      BY DEF Pinned
    <2>1. CASE q = r
      BY <2>1 DEF IInv, TypeOK, MetaOrder, ScanOrder, Published, Publishes, Passed, Pins,
         Scanning, Ousting, Prefer
    <2>2. CASE q # r
      <3>1. pc'[q] = pc[q] /\ snap'[q] = snap[q]
        BY <2>2 DEF IInv, TypeOK
      <3>2. Passed(q)
        BY <3>1 DEF Passed
      <3> QED
        BY <3>1, <3>2 DEF IInv, Pinned, Pins
    <2> QED
      BY <2>1, <2>2
  <1> QED
    BY <1>1, <1>2, <1>3, <1>4, <1>5, <1>6 DEF IInv

\* coherency_fetch_head either goes on or asks for another round.
LEMMA SeizeFetchInv == ASSUME IInv, NEW r \in Readers, SeizeFetch(r) PROVE IInv'
  <1> USE DEF SeizeFetch, Again
  <1>1. TypeOK'
    <2>1. /\ stxn' = stxn
          /\ snap' = snap
          /\ loop' = loop \/ loop' = [loop EXCEPT ![r] = loop[r] + 1] \/ loop' = [loop EXCEPT ![r] = 0]
          /\ pc' = [pc EXCEPT ![r] = "verify"] \/ pc' = [pc EXCEPT ![r] = "reset"] \/ pc' = [pc EXCEPT ![r] = "clean"]
          /\ UNCHANGED <<metaVars, flag, cached, rdtlen, spid, stid, slot, scanVars, wrVars, deadVars>>
      OBVIOUS
    <2>2. loop \in [Readers -> 0 .. MaxLoop] /\ 0 \in 0 .. MaxLoop /\ loop[r] + 1 \in 0 .. MaxLoop
      BY DEF IInv, TypeOK, Bounds
    <2>3. stxn \in [Slots -> Txnids \cup {Invalid}] /\ snap \in [Readers -> Txnids] /\ head \in Txnids
      BY DEF IInv, TypeOK
    <2> HIDE DEF SeizeFetch, Again
    <2>4. stxn' \in [Slots -> Txnids \cup {Invalid}] /\ snap' \in [Readers -> Txnids]
      BY <2>1, <2>3
    <2>5. loop' \in [Readers -> 0 .. MaxLoop]
      BY <2>1, <2>2
    <2>6. pc' \in [Readers -> PcStates]
      BY <2>1 DEF IInv, TypeOK
    <2> QED
      BY <2>1, <2>4, <2>5, <2>6 DEF IInv, TypeOK
  <1>2. Bounds'
    <2>1. \A q \in Readers \ {r} : pc'[q] = pc[q] /\ loop'[q] = loop[q]
      BY DEF IInv, TypeOK
    <2>2. pc'[r] \in {"reset", "verify"} => loop'[r] < MaxLoop
      BY DEF IInv, TypeOK, Bounds
    <2>3. pc'[r] \in {"reset", "verify", "clean"}
      BY DEF IInv, TypeOK
    <2>4. UNCHANGED <<rdtlen, head, scanVars, wrVars>>
      OBVIOUS
    <2> HIDE DEF SeizeFetch, Again
    <2> QED
      BY <2>1, <2>2, <2>3, <2>4 DEF IInv, Bounds, Scanning, Ousting
  <1>3. Owned' /\ SlotExclusive' /\ OwnerTid'
    BY DEF IInv, TypeOK, Owned, SlotExclusive, OwnerTid, OwnTid
  <1>4. MetaOrder' /\ ScanOrder'
    BY DEF IInv, MetaOrder, ScanOrder, Scanning, Ousting, Prefer
  <1>5. Published'
    <2> SUFFICES ASSUME NEW q \in Readers PROVE Publishes(q)'
      BY DEF Published
    <2>1. CASE q = r
      BY <2>1 DEF IInv, TypeOK, Publishes
    <2>2. CASE q # r
      <3>1. pc'[q] = pc[q] /\ snap'[q] = snap[q]
        BY <2>2 DEF IInv, TypeOK
      <3> QED
        BY <3>1 DEF IInv, Published, Publishes
    <2> QED
      BY <2>1, <2>2
  <1>6. Pinned'
    <2> SUFFICES ASSUME NEW q \in Readers, Passed(q)' PROVE Pins(q)'
      BY DEF Pinned
    <2>1. CASE q = r
      BY <2>1 DEF IInv, TypeOK, Pinned, Passed, Pins
    <2>2. CASE q # r
      <3>1. pc'[q] = pc[q] /\ snap'[q] = snap[q]
        BY <2>2 DEF IInv, TypeOK
      <3>2. Passed(q)
        BY <3>1 DEF Passed
      <3> QED
        BY <3>1, <3>2 DEF IInv, Pinned, Pins
    <2> QED
      BY <2>1, <2>2
  <1> QED
    BY <1>1, <1>2, <1>3, <1>4, <1>5, <1>6 DEF IInv

\* The read-back before the transaction becomes active.
LEMMA SeizeVerifyInv == ASSUME IInv, NEW r \in Readers, SeizeVerify(r) PROVE IInv'
  <1> USE DEF SeizeVerify, Again
  <1>1. TypeOK'
    <2>1. /\ stxn' = stxn
          /\ snap' = snap
          /\ loop' = loop \/ loop' = [loop EXCEPT ![r] = loop[r] + 1] \/ loop' = [loop EXCEPT ![r] = 0]
          /\ pc' = [pc EXCEPT ![r] = "active"] \/ pc' = [pc EXCEPT ![r] = "reset"] \/ pc' = [pc EXCEPT ![r] = "clean"]
          /\ UNCHANGED <<metaVars, flag, cached, rdtlen, spid, stid, slot, scanVars, wrVars, deadVars>>
      OBVIOUS
    <2>2. loop \in [Readers -> 0 .. MaxLoop] /\ 0 \in 0 .. MaxLoop /\ loop[r] + 1 \in 0 .. MaxLoop
      BY DEF IInv, TypeOK, Bounds
    <2>3. stxn \in [Slots -> Txnids \cup {Invalid}] /\ snap \in [Readers -> Txnids] /\ head \in Txnids
      BY DEF IInv, TypeOK
    <2> HIDE DEF SeizeVerify, Again
    <2>4. stxn' \in [Slots -> Txnids \cup {Invalid}] /\ snap' \in [Readers -> Txnids]
      BY <2>1, <2>3
    <2>5. loop' \in [Readers -> 0 .. MaxLoop]
      BY <2>1, <2>2
    <2>6. pc' \in [Readers -> PcStates]
      BY <2>1 DEF IInv, TypeOK
    <2> QED
      BY <2>1, <2>4, <2>5, <2>6 DEF IInv, TypeOK
  <1>2. Bounds'
    BY DEF IInv, TypeOK, Bounds, Scanning, Ousting
  <1>3. Owned' /\ SlotExclusive' /\ OwnerTid'
    BY DEF IInv, TypeOK, Owned, SlotExclusive, OwnerTid, OwnTid
  <1>4. MetaOrder' /\ ScanOrder'
    BY DEF IInv, MetaOrder, ScanOrder, Scanning, Ousting, Prefer
  <1>5. Published'
    <2> SUFFICES ASSUME NEW q \in Readers PROVE Publishes(q)'
      BY DEF Published
    <2>1. CASE q = r
      BY <2>1 DEF IInv, TypeOK, Publishes
    <2>2. CASE q # r
      <3>1. pc'[q] = pc[q] /\ snap'[q] = snap[q]
        BY <2>2 DEF IInv, TypeOK
      <3> QED
        BY <3>1 DEF IInv, Published, Publishes
    <2> QED
      BY <2>1, <2>2
  <1>6. Pinned'
    <2> SUFFICES ASSUME NEW q \in Readers, Passed(q)' PROVE Pins(q)'
      BY DEF Pinned
    <2>1. CASE q = r
      BY <2>1 DEF IInv, TypeOK, Pinned, Passed, Pins
    <2>2. CASE q # r
      <3>1. pc'[q] = pc[q] /\ snap'[q] = snap[q]
        BY <2>2 DEF IInv, TypeOK
      <3>2. Passed(q)
        BY <3>1 DEF Passed
      <3> QED
        BY <3>1, <3>2 DEF IInv, Pinned, Pins
    <2> QED
      BY <2>1, <2>2
  <1> QED
    BY <1>1, <1>2, <1>3, <1>4, <1>5, <1>6 DEF IInv

\* ro_slot_clean of an active reader gives its own slot up.
LEMMA ResetInv == ASSUME IInv, NEW r \in Readers, Reset(r) PROVE IInv'
  <1> USE DEF Reset
  <1>1. TypeOK'
    <2>1. stxn' \in [Slots -> Txnids \cup {Invalid}]
      BY DEF IInv, TypeOK
    <2>2. pc' \in [Readers -> PcStates]
      BY DEF IInv, TypeOK
    <2> QED
      BY <2>1, <2>2 DEF IInv, TypeOK
  <1>2. Bounds'
    BY DEF IInv, TypeOK, Bounds, Scanning, Ousting
  <1>3. Owned' /\ SlotExclusive' /\ OwnerTid'
    BY DEF IInv, Owned, SlotExclusive, OwnerTid, OwnTid
  <1>4. MetaOrder' /\ ScanOrder'
    BY DEF IInv, MetaOrder, ScanOrder, Scanning, Ousting, Prefer
  <1>5. Published'
    BY DEF IInv, TypeOK, Owned, SlotExclusive, Published, Publishes
  <1>6. Pinned'
    <2> SUFFICES ASSUME NEW q \in Readers, Passed(q)' PROVE Pins(q)'
      BY DEF Pinned
    <2>1. q # r /\ pc'[q] = pc[q]
      BY DEF IInv, TypeOK, Passed
    <2>2. slot[q] # slot[r]
      BY <2>1, OtherSlot DEF Passed
    <2>3. Passed(q)
      BY <2>1, <2>2 DEF IInv, TypeOK, Passed
    <2>4. stxn'[slot[q]] = stxn[slot[q]] /\ snap'[q] = snap[q]
      BY <2>1, <2>2 DEF IInv, TypeOK
    <2> QED
      BY <2>3, <2>4 DEF IInv, Pinned, Pins
  <1> QED
    BY <1>1, <1>2, <1>3, <1>4, <1>5, <1>6 DEF IInv

\* ... and raises rdt_refresh_flag.
LEMMA CleanFlagInv == ASSUME IInv, NEW r \in Readers, CleanFlag(r) PROVE IInv'
  <1> USE DEF CleanFlag
  <1>1. TypeOK' /\ Bounds'
    BY DEF IInv, TypeOK, Bounds, Scanning, Ousting
  <1>2. Owned' /\ SlotExclusive' /\ OwnerTid'
    BY DEF IInv, Owned, SlotExclusive, OwnerTid, OwnTid
  <1>3. MetaOrder' /\ ScanOrder'
    BY DEF IInv, MetaOrder, ScanOrder, Scanning, Ousting, Prefer
  <1>4. Published'
    BY DEF IInv, Published, Publishes
  <1>5. Pinned'
    BY DEF IInv, Pinned, Pins, Passed
  <1> QED
    BY <1>1, <1>2, <1>3, <1>4, <1>5 DEF IInv

\* ro_slot_clean of a parked reader: its txnid,
LEMMA CleanTxnidInv == ASSUME IInv, NEW r \in Readers, CleanTxnid(r) PROVE IInv'
  <1> USE DEF CleanTxnid
  <1>1. TypeOK'
    <2>1. stxn' \in [Slots -> Txnids \cup {Invalid}]
      BY DEF IInv, TypeOK
    <2>2. pc' \in [Readers -> PcStates]
      BY DEF IInv, TypeOK
    <2> QED
      BY <2>1, <2>2 DEF IInv, TypeOK
  <1>2. Bounds'
    BY DEF IInv, TypeOK, Bounds, Scanning, Ousting
  <1>3. Owned' /\ SlotExclusive' /\ OwnerTid'
    BY DEF IInv, Owned, SlotExclusive, OwnerTid, OwnTid
  <1>4. MetaOrder' /\ ScanOrder'
    BY DEF IInv, MetaOrder, ScanOrder, Scanning, Ousting, Prefer
  <1>5. Published'
    BY DEF IInv, TypeOK, Owned, SlotExclusive, Published, Publishes
  <1>6. Pinned'
    <2> SUFFICES ASSUME NEW q \in Readers, Passed(q)' PROVE Pins(q)'
      BY DEF Pinned
    <2>1. q # r /\ pc'[q] = pc[q]
      BY DEF IInv, TypeOK, Passed
    <2>2. slot[q] # slot[r]
      BY <2>1, OtherSlot DEF Passed
    <2>3. Passed(q)
      BY <2>1, <2>2 DEF IInv, TypeOK, Passed
    <2>4. stxn'[slot[q]] = stxn[slot[q]] /\ snap'[q] = snap[q]
      BY <2>1, <2>2 DEF IInv, TypeOK
    <2> QED
      BY <2>3, <2>4 DEF IInv, Pinned, Pins
  <1> QED
    BY <1>1, <1>2, <1>3, <1>4, <1>5, <1>6 DEF IInv

\* its tid,
LEMMA CleanTidInv == ASSUME IInv, NEW r \in Readers, CleanTid(r) PROVE IInv'
  <1> USE DEF CleanTid
  <1>1. TypeOK'
    <2>1. stid' \in [Slots -> {"owner", "parked", "ousted"}]
      BY DEF IInv, TypeOK
    <2>2. pc' \in [Readers -> PcStates]
      BY DEF IInv, TypeOK
    <2> QED
      BY <2>1, <2>2 DEF IInv, TypeOK
  <1>2. Bounds'
    BY DEF IInv, TypeOK, Bounds, Scanning, Ousting
  <1>3. Owned' /\ SlotExclusive' /\ OwnerTid'
    BY DEF IInv, Owned, SlotExclusive, OwnerTid, OwnTid
  <1>4. MetaOrder' /\ ScanOrder'
    BY DEF IInv, MetaOrder, ScanOrder, Scanning, Ousting, Prefer
  <1>5. Published'
    BY DEF IInv, Published, Publishes
  <1>6. Pinned'
    BY DEF IInv, TypeOK, Owned, SlotExclusive, Pinned, Pins, Passed
  <1> QED
    BY <1>1, <1>2, <1>3, <1>4, <1>5, <1>6 DEF IInv

\* and the test that both stuck.
LEMMA CleanCheckInv == ASSUME IInv, NEW r \in Readers, CleanCheck(r) PROVE IInv'
  <1> USE DEF CleanCheck
  <1>1. TypeOK' /\ Bounds'
    BY DEF IInv, TypeOK, Bounds, Scanning, Ousting
  <1>2. Owned' /\ SlotExclusive' /\ OwnerTid'
    BY DEF IInv, Owned, SlotExclusive, OwnerTid, OwnTid
  <1>3. MetaOrder' /\ ScanOrder'
    BY DEF IInv, MetaOrder, ScanOrder, Scanning, Ousting, Prefer
  <1>4. Published'
    BY DEF IInv, Published, Publishes
  <1>5. Pinned'
    BY DEF IInv, Pinned, Pins, Passed
  <1> QED
    BY <1>1, <1>2, <1>3, <1>4, <1>5 DEF IInv

\* ro_slot_release frees the handle's own slot.
LEMMA ReleaseInv == ASSUME IInv, NEW r \in Readers, Release(r) PROVE IInv'
  <1> USE DEF Release
  <1>1. TypeOK'
    <2>1. stxn' \in [Slots -> Txnids \cup {Invalid}] /\ spid' \in [Slots -> Procs \cup {NoProc}]
      BY DEF IInv, TypeOK
    <2>2. pc' \in [Readers -> PcStates] /\ slot' \in [Readers -> 0 .. MaxReaders]
      BY DEF IInv, TypeOK
    <2> QED
      BY <2>1, <2>2 DEF IInv, TypeOK
  <1>2. Bounds'
    BY DEF IInv, TypeOK, Bounds, Scanning, Ousting
  <1>3. Owned' /\ SlotExclusive' /\ OwnerTid'
    BY DEF IInv, TypeOK, Owned, SlotExclusive, OwnerTid, OwnTid
  <1>4. MetaOrder' /\ ScanOrder'
    BY DEF IInv, MetaOrder, ScanOrder, Scanning, Ousting, Prefer
  <1>5. Published'
    BY DEF IInv, TypeOK, Owned, SlotExclusive, Published, Publishes
  <1>6. Pinned'
    BY DEF IInv, TypeOK, Owned, SlotExclusive, Pinned, Pins, Passed
  <1> QED
    BY <1>1, <1>2, <1>3, <1>4, <1>5, <1>6 DEF IInv

\* txn_ro_park keeps the snapshot published.
LEMMA ParkInv == ASSUME IInv, NEW r \in Readers, Park(r) PROVE IInv'
  <1> USE DEF Park
  <1>1. TypeOK'
    <2>1. stid' \in [Slots -> {"owner", "parked", "ousted"}]
      BY DEF IInv, TypeOK
    <2>2. pc' \in [Readers -> PcStates]
      BY DEF IInv, TypeOK
    <2> QED
      BY <2>1, <2>2 DEF IInv, TypeOK
  <1>2. Bounds'
    BY DEF IInv, TypeOK, Bounds, Scanning, Ousting
  <1>3. Owned' /\ SlotExclusive' /\ OwnerTid'
    BY DEF IInv, TypeOK, Owned, SlotExclusive, OwnerTid, OwnTid
  <1>4. MetaOrder' /\ ScanOrder'
    BY DEF IInv, MetaOrder, ScanOrder, Scanning, Ousting, Prefer
  <1>5. Published'
    BY DEF IInv, Published, Publishes
  <1>6. Pinned'
    <2> SUFFICES ASSUME NEW q \in Readers, Passed(q)' PROVE Pins(q)'
      BY DEF Pinned
    <2>1. CASE q = r
      BY <2>1 DEF IInv, TypeOK, OwnerTid, OwnTid, Pinned, Passed, Pins
    <2>2. CASE q # r
      <3>1. pc'[q] = pc[q]
        BY <2>2 DEF IInv, TypeOK
      <3>2. slot[q] # slot[r]
        BY <2>2, <3>1, OtherSlot DEF Passed
      <3>3. Passed(q)
        BY <3>1, <3>2 DEF IInv, TypeOK, Passed
      <3> QED
        BY <3>3 DEF IInv, Pinned, Pins
    <2> QED
      BY <2>1, <2>2
  <1> QED
    BY <1>1, <1>2, <1>3, <1>4, <1>5, <1>6 DEF IInv

\* ... and raises rdt_refresh_flag.
LEMMA ParkFlagInv == ASSUME IInv, NEW r \in Readers, ParkFlag(r) PROVE IInv'
  <1> USE DEF ParkFlag
  <1>1. TypeOK' /\ Bounds'
    BY DEF IInv, TypeOK, Bounds, Scanning, Ousting
  <1>2. Owned' /\ SlotExclusive' /\ OwnerTid'
    BY DEF IInv, Owned, SlotExclusive, OwnerTid, OwnTid
  <1>3. MetaOrder' /\ ScanOrder'
    BY DEF IInv, MetaOrder, ScanOrder, Scanning, Ousting, Prefer
  <1>4. Published'
    BY DEF IInv, Published, Publishes
  <1>5. Pinned'
    BY DEF IInv, Pinned, Pins, Passed
  <1> QED
    BY <1>1, <1>2, <1>3, <1>4, <1>5 DEF IInv

\* Ending a parked reader starts with ro_slot_clean.
LEMMA ResetParkedInv == ASSUME IInv, NEW r \in Readers, ResetParked(r) PROVE IInv'
  <1> USE DEF ResetParked
  <1>1. TypeOK' /\ Bounds'
    BY DEF IInv, TypeOK, Bounds, Scanning, Ousting
  <1>2. Owned' /\ SlotExclusive' /\ OwnerTid'
    BY DEF IInv, Owned, SlotExclusive, OwnerTid, OwnTid
  <1>3. MetaOrder' /\ ScanOrder'
    BY DEF IInv, MetaOrder, ScanOrder, Scanning, Ousting, Prefer
  <1>4. Published'
    BY DEF IInv, Published, Publishes
  <1>5. Pinned'
    BY DEF IInv, Pinned, Pins, Passed
  <1> QED
    BY <1>1, <1>2, <1>3, <1>4, <1>5 DEF IInv

\* txn_ro_unpark reads the slot: an ousted reader is not passed any more.
LEMMA UnparkReadInv == ASSUME IInv, NEW r \in Readers, UnparkRead(r) PROVE IInv'
  <1> USE DEF UnparkRead
  <1>1. TypeOK' /\ Bounds'
    BY DEF IInv, TypeOK, Bounds, Scanning, Ousting
  <1>2. Owned' /\ SlotExclusive' /\ OwnerTid'
    BY DEF IInv, Owned, SlotExclusive, OwnerTid, OwnTid
  <1>3. MetaOrder' /\ ScanOrder'
    BY DEF IInv, MetaOrder, ScanOrder, Scanning, Ousting, Prefer
  <1>4. Published'
    BY DEF IInv, Published, Publishes
  <1>5. Pinned'
    BY DEF IInv, Pinned, Pins, Passed
  <1> QED
    BY <1>1, <1>2, <1>3, <1>4, <1>5 DEF IInv

\* The CAS of txn_ro_unpark succeeds only on a slot that was not ousted.
LEMMA UnparkCasInv == ASSUME IInv, NEW r \in Readers, UnparkCas(r) PROVE IInv'
  <1> USE DEF UnparkCas
  <1>1. TypeOK'
    <2>1. stid \in [Slots -> {"owner", "parked", "ousted"}] /\ pc \in [Readers -> PcStates]
      BY DEF IInv, TypeOK
    <2>2. /\ stid' = stid \/ stid' = [stid EXCEPT ![slot[r]] = "owner"]
          /\ pc' = [pc EXCEPT ![r] = "unpark"] \/ pc' = [pc EXCEPT ![r] = "unparkcheck"]
          /\ UNCHANGED <<metaVars, flag, cached, rdtlen, spid, stxn, slot, snap, loop, scanVars, wrVars, deadVars>>
      OBVIOUS
    <2> HIDE DEF UnparkCas
    <2>3. stid' \in [Slots -> {"owner", "parked", "ousted"}] /\ pc' \in [Readers -> PcStates]
      BY <2>1, <2>2
    <2> QED
      BY <2>2, <2>3 DEF IInv, TypeOK
  <1>2. Bounds'
    BY DEF IInv, TypeOK, Bounds, Scanning, Ousting
  <1>3. Owned'
    BY DEF IInv, TypeOK, Owned
  <1>4. SlotExclusive'
    BY DEF IInv, TypeOK, Owned, SlotExclusive
  <1>5. OwnerTid'
    <2> SUFFICES ASSUME NEW q \in Readers PROVE OwnTid(q)'
      BY DEF OwnerTid
    <2>1. slot[r] \in Slots
      BY HasSlot
    <2>2. CASE q = r
      BY <2>1, <2>2 DEF IInv, TypeOK, OwnTid
    <2>3. CASE q # r
      <3>1. pc'[q] = pc[q] /\ OwnTid(q)
        BY <2>3 DEF IInv, TypeOK, OwnerTid
      <3>2. ASSUME pc[q] \notin {"none", "dead"} PROVE stid'[slot[q]] = stid[slot[q]]
        <4>1. slot[q] # slot[r] /\ slot[q] \in Slots
          BY <2>3, <3>2, OtherSlot
        <4>2. DOMAIN stid = Slots /\ (stid' = stid \/ stid' = [stid EXCEPT ![slot[r]] = "owner"])
          BY DEF IInv, TypeOK
        <4> HIDE DEF UnparkCas
        <4> QED
          BY <4>1, <4>2
      <3> QED
        BY <3>1, <3>2 DEF OwnTid
    <2> QED
      BY <2>2, <2>3
  <1>6. MetaOrder' /\ ScanOrder'
    BY DEF IInv, MetaOrder, ScanOrder, Scanning, Ousting, Prefer
  <1>7. Published'
    BY DEF IInv, TypeOK, Published, Publishes
  <1>8. Pinned'
    <2> SUFFICES ASSUME NEW q \in Readers, Passed(q)' PROVE Pins(q)'
      BY DEF Pinned
    <2>1. CASE q = r
      BY <2>1 DEF IInv, TypeOK, Owned, Pinned, Passed, Pins
    <2>2. CASE q # r
      <3>1. pc'[q] = pc[q]
        BY <2>2 DEF IInv, TypeOK
      <3>2. slot[q] # slot[r] /\ slot[q] \in Slots
        BY <2>2, <3>1, OtherSlot DEF Passed
      <3>3. stid'[slot[q]] = stid[slot[q]]
        <4>1. DOMAIN stid = Slots /\ (stid' = stid \/ stid' = [stid EXCEPT ![slot[r]] = "owner"])
          BY DEF IInv, TypeOK
        <4> HIDE DEF UnparkCas
        <4> QED
          BY <3>2, <4>1
      <3>4. Passed(q)
        BY <3>1, <3>3 DEF Passed
      <3> QED
        BY <3>4 DEF IInv, Pinned, Pins
    <2> QED
      BY <2>1, <2>2
  <1> QED
    BY <1>1, <1>2, <1>3, <1>4, <1>5, <1>6, <1>7, <1>8 DEF IInv

\* The read-back of txn_ro_unpark.
LEMMA UnparkCheckInv == ASSUME IInv, NEW r \in Readers, UnparkCheck(r) PROVE IInv'
  <1> USE DEF UnparkCheck
  <1>1. TypeOK' /\ Bounds'
    BY DEF IInv, TypeOK, Bounds, Scanning, Ousting
  <1>2. Owned' /\ SlotExclusive' /\ OwnerTid'
    BY DEF IInv, Owned, SlotExclusive, OwnerTid, OwnTid
  <1>3. MetaOrder' /\ ScanOrder'
    BY DEF IInv, MetaOrder, ScanOrder, Scanning, Ousting, Prefer
  <1>4. Published'
    BY DEF IInv, Published, Publishes
  <1>5. Pinned'
    BY DEF IInv, Pinned, Pins, Passed
  <1> QED
    BY <1>1, <1>2, <1>3, <1>4, <1>5 DEF IInv

\* txn_basal_start forgets the detent and sweeps only dead slots.
LEMMA BeginInv == ASSUME IInv, NEW p \in Procs, Begin(p) PROVE IInv'
  <1> USE DEF Begin, Lock, Stale, Swept
  <1>1. TypeOK'
    <2>1. spid' \in [Slots -> Procs \cup {NoProc}]
      BY DEF IInv, TypeOK
    <2>2. flag' \in {"changed", "nothing"} /\ detent' \in Txnids
      BY DEF IInv, TypeOK
    <2> HIDE DEF Stale, Swept
    <2> QED
      BY <2>1, <2>2 DEF IInv, TypeOK
  <1>2. Bounds'
    BY DEF IInv, TypeOK, Bounds, Scanning, Ousting
  <1>3. Owned' /\ SlotExclusive' /\ OwnerTid'
    BY DEF IInv, TypeOK, Owned, SlotExclusive, OwnerTid, OwnTid
  <1>4. MetaOrder' /\ ScanOrder'
    BY DEF IInv, TypeOK, MetaOrder, ScanOrder, Scanning, Ousting, Prefer
  <1>5. Published'
    BY DEF IInv, Published, Publishes
  <1>6. Pinned'
    BY DEF IInv, Pinned, Pins, Passed
  <1> QED
    BY <1>1, <1>2, <1>3, <1>4, <1>5, <1>6 DEF IInv

\* mdbx_env_sync starts with a scan from the cached oldest.
LEMMA SyncBeginInv == ASSUME IInv, NEW p \in Procs, SyncBegin(p) PROVE IInv'
  <1> USE DEF SyncBegin, Lock, Stale, Swept
  <1>1. TypeOK'
    <2>1. spid' \in [Slots -> Procs \cup {NoProc}]
      BY DEF IInv, TypeOK
    <2>2. flag' \in {"changed", "nothing"} /\ prev' \in Txnids /\ oldest' \in Txnids
      BY DEF IInv, TypeOK
    <2> HIDE DEF Stale, Swept
    <2> QED
      BY <2>1, <2>2 DEF IInv, TypeOK
  <1>2. Bounds'
    BY DEF IInv, TypeOK, Bounds, Scanning, Ousting
  <1>3. Owned' /\ SlotExclusive' /\ OwnerTid'
    BY DEF IInv, TypeOK, Owned, SlotExclusive, OwnerTid, OwnTid
  <1>4. MetaOrder' /\ ScanOrder'
    BY DEF IInv, TypeOK, MetaOrder, ScanOrder, Scanning, Ousting, Prefer
  <1>5. Published'
    BY DEF IInv, Published, Publishes
  <1>6. Pinned'
    BY DEF IInv, Pinned, Pins, Passed
  <1> QED
    BY <1>1, <1>2, <1>3, <1>4, <1>5, <1>6 DEF IInv

\* A crash takes the process' handles with it and leaves the table.
LEMMA CrashInv == ASSUME IInv, NEW p \in Procs, Crash(p) PROVE IInv'
  <1> USE DEF Crash, Return
  <1>1. TypeOK' /\ Bounds'
    <2>1. UNCHANGED <<metaVars, flag, cached, tblVars, snap, loop, detent, reused>>
      OBVIOUS
    <2>2. pc' \in [Readers -> PcStates] /\ slot' \in [Readers -> 0 .. MaxReaders]
      BY DEF IInv, TypeOK
    <2>3. dead' \subseteq Procs /\ died' \in BOOLEAN /\ torn' \in BOOLEAN
      BY DEF IInv, TypeOK
    <2>4. \/ UNCHANGED <<wpc, wproc, scanVars>>
          \/ /\ wpc' = "idle" /\ wproc' = NoProc /\ wret' = "detent" /\ prev' = 0 /\ oldest' = 0
             /\ wi' = 1 /\ wn' = 0 /\ seen' = 0 /\ stucked' = 0
      OBVIOUS
    <2>5. \A r \in Readers : pc'[r] = pc[r] \/ pc'[r] = "dead"
      BY DEF IInv, TypeOK
    <2> HIDE DEF Crash, Return
    <2>6. TypeOK'
      <3>1. CASE UNCHANGED <<wpc, wproc, scanVars>>
        BY <2>1, <2>2, <2>3, <3>1 DEF IInv, TypeOK
      <3>2. CASE /\ wpc' = "idle" /\ wproc' = NoProc /\ wret' = "detent" /\ prev' = 0 /\ oldest' = 0
                 /\ wi' = 1 /\ wn' = 0 /\ seen' = 0 /\ stucked' = 0
        BY <2>1, <2>2, <2>3, <3>2 DEF IInv, TypeOK
      <3> QED
        BY <2>4, <3>1, <3>2
    <2>7. Bounds'
      BY <2>1, <2>4, <2>5 DEF IInv, Bounds, Scanning, Ousting
    <2> QED
      BY <2>6, <2>7
  <1>2. Owned' /\ SlotExclusive' /\ OwnerTid'
    BY DEF IInv, Owned, SlotExclusive, OwnerTid, OwnTid
  <1>3. MetaOrder' /\ ScanOrder'
    BY DEF IInv, MetaOrder, ScanOrder, Scanning, Ousting, Prefer
  <1>4. Published'
    BY DEF IInv, Published, Publishes
  <1>5. Pinned'
    BY DEF IInv, Pinned, Pins, Passed
  <1> QED
    BY <1>1, <1>2, <1>3, <1>4, <1>5 DEF IInv

\* mdbx_reader_check sweeps only dead slots.
LEMMA ReaderCheckInv == ASSUME IInv, NEW p \in Procs, ReaderCheck(p) PROVE IInv'
  <1> USE DEF ReaderCheck, Stale, Swept
  <1>1. TypeOK' /\ Bounds'
    BY DEF IInv, TypeOK, Bounds, Scanning, Ousting
  <1>2. Owned' /\ SlotExclusive' /\ OwnerTid'
    BY DEF IInv, TypeOK, Owned, SlotExclusive, OwnerTid, OwnTid
  <1>3. MetaOrder' /\ ScanOrder'
    BY DEF IInv, MetaOrder, ScanOrder, Scanning, Ousting, Prefer
  <1>4. Published'
    BY DEF IInv, Published, Publishes
  <1>5. Pinned'
    BY DEF IInv, Pinned, Pins, Passed
  <1> QED
    BY <1>1, <1>2, <1>3, <1>4, <1>5 DEF IInv

\* mvcc_snapshot_oldest_rw starts from the cached oldest.
LEMMA ScanInv == ASSUME IInv, NEW ret \in {"detent", "kick", "rescan"}, Scan(ret) PROVE IInv'
  <1> USE DEF Scan
  <1>1. TypeOK' /\ Bounds'
    BY DEF IInv, TypeOK, Bounds, Scanning, Ousting
  <1>2. Owned' /\ SlotExclusive' /\ OwnerTid'
    BY DEF IInv, Owned, SlotExclusive, OwnerTid, OwnTid
  <1>3. MetaOrder' /\ ScanOrder'
    BY DEF IInv, TypeOK, MetaOrder, ScanOrder, Scanning, Ousting, Prefer
  <1>4. Published'
    BY DEF IInv, Published, Publishes
  <1>5. Pinned'
    BY DEF IInv, Pinned, Pins, Passed
  <1> QED
    BY <1>1, <1>2, <1>3, <1>4, <1>5 DEF IInv

\* A pass starts from the steady point with every bound slot before it.
LEMMA ScanPassInv == ASSUME IInv, ScanPass PROVE IInv'
  <1> USE DEF ScanPass
  <1>1. TypeOK'
    <2>1. oldest' \in Txnids /\ wi' \in 1 .. MaxReaders + 1 /\ wn' \in 0 .. MaxReaders
      BY DEF IInv, TypeOK, Prefer
    <2> QED
      BY <2>1 DEF IInv, TypeOK
  <1>2. Bounds'
    BY DEF IInv, TypeOK, Bounds, Scanning, Ousting
  <1>3. Owned' /\ SlotExclusive' /\ OwnerTid'
    BY DEF IInv, Owned, SlotExclusive, OwnerTid, OwnTid
  <1>4. MetaOrder' /\ ScanOrder'
    BY DEF IInv, TypeOK, MetaOrder, ScanOrder, Scanning, Ousting, Prefer
  <1>5. Published'
    BY DEF IInv, Published, Publishes
  <1>6. Pinned'
    <2> SUFFICES ASSUME NEW q \in Readers, Passed(q)' PROVE Pins(q)'
      BY DEF Pinned
    <2>1. slot[q] \in 1 .. rdtlen /\ Passed(q) /\ Pins(q)
      BY DEF IInv, Owned, Pinned, Passed
    <2>2. CASE flag = "changed"
      BY <2>1, <2>2 DEF IInv, TypeOK, Pins
    <2>3. CASE flag = "nothing"
      BY <2>1, <2>3 DEF IInv, TypeOK, Pins
    <2> QED
      BY <2>2, <2>3 DEF IInv, TypeOK
  <1> QED
    BY <1>1, <1>2, <1>3, <1>4, <1>5, <1>6 DEF IInv

\* The pass meets a passed reader's slot and takes its txnid into account.
LEMMA ScanSlotInv == ASSUME IInv, ScanSlot PROVE IInv'
  <1> USE DEF ScanSlot
  <1>1. TypeOK'
    <2>1. wi' \in 1 .. MaxReaders + 1
      BY DEF IInv, TypeOK
    <2>2. oldest' \in Txnids /\ seen' \in Txnids \cup {Invalid}
      <3>1. wi <= wn => stxn[wi] \in Txnids \cup {Invalid}
        BY DEF IInv, TypeOK
      <3> QED
        BY <3>1 DEF IInv, TypeOK
    <2>3. wpc' \in {"scan", "slot", "stuck"}
      BY DEF IInv, TypeOK
    <2>4. UNCHANGED <<metaVars, flag, cached, tblVars, rdVars, wret, prev, wn, stucked, wproc, detent, reused, deadVars>>
      OBVIOUS
    <2> HIDE DEF ScanSlot
    <2> QED
      BY <2>1, <2>2, <2>3, <2>4 DEF IInv, TypeOK
  <1>2. Bounds'
    BY DEF IInv, TypeOK, Bounds, Scanning, Ousting
  <1>3. Owned' /\ SlotExclusive' /\ OwnerTid'
    BY DEF IInv, Owned, SlotExclusive, OwnerTid, OwnTid
  <1>4. MetaOrder'
    BY DEF IInv, TypeOK, MetaOrder, Prefer
  <1>5. ScanOrder'
    <2>1. prev = cached /\ prev <= oldest /\ oldest <= Prefer
      BY DEF IInv, ScanOrder, Scanning
    <2>2. wi <= wn => stxn[wi] \in Nat
      BY DEF IInv, TypeOK
    <2>3. oldest \in Nat /\ prev \in Nat /\ Prefer \in Nat
      BY DEF IInv, TypeOK, Prefer
    <2>4. Prefer' = Prefer
      BY DEF Prefer
    <2> QED
      BY <2>1, <2>2, <2>3, <2>4 DEF ScanOrder, Scanning, Ousting
  <1>6. Published'
    BY DEF IInv, Published, Publishes
  <1>7. Pinned'
    <2> SUFFICES ASSUME NEW q \in Readers, Passed(q)' PROVE Pins(q)'
      BY DEF Pinned
    <2>1. Passed(q)
      BY DEF IInv, TypeOK, Passed
    <2>2. Pins(q)
      BY <2>1 DEF IInv, Pinned
    <2>3. slot[q] \in Slots /\ spid[slot[q]] # NoProc
      BY <2>1, HasSlot DEF Passed
    <2>4. /\ snap[q] \in Nat /\ oldest \in Nat /\ wi \in Nat /\ wn \in Nat
          /\ prev = cached /\ prev <= oldest /\ prev \in Nat
      BY DEF IInv, TypeOK, ScanOrder, Scanning
    <2>5. slot' = slot /\ snap' = snap /\ stxn' = stxn /\ cached' = cached /\ wn' = wn
      OBVIOUS
    <2>6. CASE slot[q] = wi
      BY <2>2, <2>3, <2>4, <2>5, <2>6 DEF Pins
    <2>7. CASE slot[q] # wi
      <3>1. stxn[wi] \in Nat \/ wi > wn
        BY DEF IInv, TypeOK
      <3> QED
        BY <2>2, <2>3, <2>4, <2>5, <2>7, <3>1 DEF Pins
    <2> QED
      BY <2>6, <2>7
  <1> QED
    BY <1>1, <1>2, <1>3, <1>4, <1>5, <1>6, <1>7 DEF IInv

\* A stuck slot is looked at again.
LEMMA ScanStuckInv == ASSUME IInv, ScanStuck PROVE IInv'
  <1> USE DEF ScanStuck
  <1>1. TypeOK' /\ Bounds'
    BY DEF IInv, TypeOK, Bounds, Scanning, Ousting
  <1>2. Owned' /\ SlotExclusive' /\ OwnerTid'
    BY DEF IInv, Owned, SlotExclusive, OwnerTid, OwnTid
  <1>3. MetaOrder' /\ ScanOrder'
    BY DEF IInv, MetaOrder, ScanOrder, Scanning, Ousting, Prefer
  <1>4. Published'
    BY DEF IInv, Published, Publishes
  <1>5. Pinned'
    BY DEF IInv, TypeOK, Pinned, Pins, Passed
  <1> QED
    BY <1>1, <1>2, <1>3, <1>4, <1>5 DEF IInv

\* safe64_reset_compare never hits a passed reader: its txnid is not below prev.
LEMMA ScanStuckCasInv == ASSUME IInv, ScanStuckCas PROVE IInv'
  <1> USE DEF ScanStuckCas, ResetCompare
  <1>1. TypeOK' /\ Bounds'
    BY DEF IInv, TypeOK, Bounds, Scanning, Ousting
  <1>2. Owned' /\ SlotExclusive' /\ OwnerTid'
    BY DEF IInv, Owned, SlotExclusive, OwnerTid, OwnTid
  <1>3. MetaOrder' /\ ScanOrder'
    BY DEF IInv, MetaOrder, ScanOrder, Scanning, Ousting, Prefer
  <1>4. Published'
    BY DEF IInv, TypeOK, Bounds, Owned, MetaOrder, ScanOrder, Published, Publishes,
       Scanning, Ousting, Prefer
  <1>5. Pinned'
    <2> SUFFICES ASSUME NEW q \in Readers, Passed(q)' PROVE Pins(q)'
      BY DEF Pinned
    <2>1. Passed(q)
      BY DEF Passed
    <2>2. Pins(q)
      BY <2>1 DEF IInv, Pinned
    <2>3. stxn[slot[q]] # seen
      BY <2>2 DEF IInv, TypeOK, ScanOrder, Scanning, Pins
    <2>4. slot[q] \in Slots /\ DOMAIN stxn = Slots
      BY <2>1, HasSlot DEF IInv, TypeOK, Passed
    <2>5. stxn'[slot[q]] = stxn[slot[q]]
      BY <2>3, <2>4
    <2>6. wi' = wi + 1 /\ wi \in Nat /\ slot[q] \in Nat
      BY <2>4 DEF IInv, TypeOK
    <2> QED
      BY <2>2, <2>5, <2>6 DEF Pins
  <1> QED
    BY <1>1, <1>2, <1>3, <1>4, <1>5 DEF IInv

\* The stored oldest is bounded by every passed reader's snapshot.
LEMMA ScanStoreInv == ASSUME IInv, ScanStore PROVE IInv'
  <1> USE DEF ScanStore, Return, Stale, Swept
  <1>1. TypeOK'
    <2>1. spid' \in [Slots -> Procs \cup {NoProc}]
      BY DEF IInv, TypeOK
    <2>2. cached' \in Txnids /\ detent' \in Txnids /\ oldest' \in Txnids /\ prev' \in Txnids
      BY DEF IInv, TypeOK
    <2>3. /\ wi' \in 1 .. MaxReaders + 1 /\ wn' \in 0 .. MaxReaders
          /\ seen' \in Txnids \cup {Invalid} /\ stucked' \in 0 .. MaxReaders
      <3>1. /\ wi' \in {1, wi} /\ wn' \in {0, wn} /\ seen' \in {0, seen} /\ stucked' \in {0, stucked}
        OBVIOUS
      <3> HIDE DEF ScanStore, Return
      <3> QED
        BY <3>1 DEF IInv, TypeOK
    <2>4. flag' \in {"changed", "nothing"} /\ wpc' \in {"open", "oust", "sync"} /\ wret' \in {"detent", "kick", "rescan", "sync"}
      BY DEF IInv, TypeOK
    <2>5. UNCHANGED <<metaVars, rdtlen, stid, stxn, rdVars, wproc, reused, deadVars>>
      OBVIOUS
    <2> HIDE DEF ScanStore
    <2> QED
      BY <2>1, <2>2, <2>3, <2>4, <2>5 DEF IInv, TypeOK
  <1>2. Bounds'
    BY DEF IInv, TypeOK, Bounds, Scanning, Ousting
  <1>3. Owned'
    <2>1. \A q \in Readers : pc[q] \notin {"none", "dead"} => spid'[slot[q]] = spid[slot[q]]
      BY HasSlot DEF IInv, TypeOK
    <2> HIDE DEF Swept
    <2> QED
      BY <2>1 DEF IInv, Owned
  <1>4. SlotExclusive'
    BY DEF IInv, TypeOK, Owned, SlotExclusive
  <1>5. OwnerTid'
    BY DEF IInv, TypeOK, Owned, SlotExclusive, OwnerTid, OwnTid
  <1>6. MetaOrder' /\ ScanOrder'
    BY DEF IInv, TypeOK, MetaOrder, ScanOrder, Scanning, Ousting, Prefer
  <1>7. Published'
    BY DEF IInv, Published, Publishes
  <1>8. Pinned'
    BY DEF IInv, Pinned, Pins, Passed
  <1> QED
    BY <1>1, <1>2, <1>3, <1>4, <1>5, <1>6, <1>7, <1>8 DEF IInv

\* A slot of the loop of mvcc_kick_laggards, or its end.
LEMMA OustReadInv == ASSUME IInv, OustRead PROVE IInv'
  <1> USE DEF OustRead, Return, Moved, Rescan
  <1>1. TypeOK'
    <2>1. flag' \in {"changed", "nothing"} /\ oldest' \in Txnids /\ prev' \in Txnids
      BY DEF IInv, TypeOK
    <2>2. /\ wi' \in 1 .. MaxReaders + 1 /\ wn' \in 0 .. MaxReaders
          /\ seen' \in Txnids \cup {Invalid} /\ stucked' \in 0 .. MaxReaders
      BY DEF IInv, TypeOK
    <2>3. wpc' \in {"open", "scan", "oust", "oustcas"} /\ wret' \in {"detent", "kick", "rescan", "sync"}
      BY DEF IInv, TypeOK
    <2>4. UNCHANGED <<metaVars, cached, tblVars, rdVars, wproc, detent, reused, deadVars>>
      OBVIOUS
    <2> HIDE DEF OustRead
    <2> QED
      BY <2>1, <2>2, <2>3, <2>4 DEF IInv, TypeOK
  <1>2. Bounds'
    BY DEF IInv, TypeOK, Bounds, Scanning, Ousting
  <1>3. Owned' /\ SlotExclusive' /\ OwnerTid'
    BY DEF IInv, Owned, SlotExclusive, OwnerTid, OwnTid
  <1>4. MetaOrder' /\ ScanOrder'
    BY DEF IInv, TypeOK, MetaOrder, ScanOrder, Scanning, Ousting, Prefer
  <1>5. Published'
    BY DEF IInv, Published, Publishes
  <1>6. Pinned'
    BY DEF IInv, Pinned, Pins, Passed
  <1> QED
    BY <1>1, <1>2, <1>3, <1>4, <1>5, <1>6 DEF IInv

\* The CAS to OUSTED takes a parked reader out of the passed ones.
LEMMA OustCasInv == ASSUME IInv, OustCas PROVE IInv'
  <1> USE DEF OustCas
  <1>1. TypeOK'
    <2>1. stid' = stid \/ stid' = [stid EXCEPT ![wi] = "ousted"]
      OBVIOUS
    <2>2. stid' \in [Slots -> {"owner", "parked", "ousted"}]
      BY <2>1 DEF IInv, TypeOK
    <2>3. wi' \in 1 .. MaxReaders + 1 /\ stucked' \in 0 .. MaxReaders
      BY DEF IInv, TypeOK, Bounds
    <2>4. wpc' \in {"oust", "oustreset"}
      OBVIOUS
    <2>5. UNCHANGED <<metaVars, flag, cached, rdtlen, spid, stxn, rdVars, wret, prev, oldest, wn, seen, wproc, detent, reused, deadVars>>
      OBVIOUS
    <2> HIDE DEF OustCas
    <2> QED
      BY <2>2, <2>3, <2>4, <2>5 DEF IInv, TypeOK
  <1>2. Bounds'
    BY DEF IInv, TypeOK, Bounds, Scanning, Ousting
  <1>3. Owned'
    BY DEF IInv, TypeOK, Owned
  <1>4. SlotExclusive'
    BY DEF IInv, TypeOK, Owned, SlotExclusive
  <1>5. OwnerTid'
    <2> SUFFICES ASSUME NEW q \in Readers PROVE OwnTid(q)'
      BY DEF OwnerTid
    <2>1. OwnTid(q)
      BY DEF IInv, OwnerTid
    <2>2. ASSUME pc[q] \notin {"none", "dead"} PROVE slot[q] \in Slots
      BY <2>2 DEF IInv, TypeOK, Owned
    <2>3. CASE stid[wi] = "parked"
      BY <2>1, <2>2, <2>3 DEF IInv, TypeOK, OwnTid
    <2>4. CASE stid[wi] # "parked"
      BY <2>1, <2>4 DEF OwnTid
    <2> QED
      BY <2>3, <2>4
  <1>6. MetaOrder' /\ ScanOrder'
    BY DEF IInv, MetaOrder, ScanOrder, Scanning, Ousting, Prefer
  <1>7. Published'
    BY DEF IInv, Published, Publishes
  <1>8. Pinned'
    <2> SUFFICES ASSUME NEW q \in Readers, Passed(q)' PROVE Pins(q)'
      BY DEF Pinned
    <2>1. slot[q] \in Slots
      BY HasSlot DEF Passed
    <2>2. Passed(q)
      BY <2>1 DEF IInv, TypeOK, Passed
    <2>3. Pins(q)
      BY <2>2 DEF IInv, Pinned
    <2> QED
      BY <2>1, <2>3 DEF IInv, TypeOK, Bounds, Passed, Pins
  <1> QED
    BY <1>1, <1>2, <1>3, <1>4, <1>5, <1>6, <1>7, <1>8 DEF IInv

\* safe64_reset_compare of an oust never hits a reader that started since.
LEMMA OustResetInv == ASSUME IInv, OustReset PROVE IInv'
  <1> USE DEF OustReset, ResetCompare
  <1>1. TypeOK' /\ Bounds'
    BY DEF IInv, TypeOK, Bounds, Scanning, Ousting
  <1>2. Owned' /\ SlotExclusive' /\ OwnerTid'
    BY DEF IInv, Owned, SlotExclusive, OwnerTid, OwnTid
  <1>3. MetaOrder' /\ ScanOrder'
    BY DEF IInv, MetaOrder, ScanOrder, Scanning, Ousting, Prefer
  <1>4. Published'
    BY DEF IInv, TypeOK, Bounds, Owned, MetaOrder, ScanOrder, Published, Publishes,
       Scanning, Ousting, Prefer
  <1>5. Pinned'
    BY DEF IInv, TypeOK, Pinned, Pins, Passed
  <1> QED
    BY <1>1, <1>2, <1>3, <1>4, <1>5 DEF IInv

\* gc_alloc_ex reuses records up to the detent only.
LEMMA ReclaimInv == ASSUME IInv, Reclaim PROVE IInv'
  <1> USE DEF Reclaim
  <1>1. TypeOK' /\ Bounds'
    BY DEF IInv, TypeOK, Bounds, Scanning, Ousting
  <1>2. Owned' /\ SlotExclusive' /\ OwnerTid'
    BY DEF IInv, Owned, SlotExclusive, OwnerTid, OwnTid
  <1>3. MetaOrder' /\ ScanOrder'
    BY DEF IInv, TypeOK, MetaOrder, ScanOrder, Scanning, Ousting, Prefer
  <1>4. Published'
    BY DEF IInv, Published, Publishes
  <1>5. Pinned'
    BY DEF IInv, Pinned, Pins, Passed
  <1> QED
    BY <1>1, <1>2, <1>3, <1>4, <1>5 DEF IInv

\* Making the head steady, or wiping the steady mark, raises the bound of a scan.
LEMMA MoveSteadyInv == ASSUME IInv, MoveSteady PROVE IInv'
  <1> USE DEF MoveSteady
  <1>1. TypeOK' /\ Bounds'
    BY DEF IInv, TypeOK, Bounds, Scanning, Ousting
  <1>2. Owned' /\ SlotExclusive' /\ OwnerTid'
    BY DEF IInv, Owned, SlotExclusive, OwnerTid, OwnTid
  <1>3. MetaOrder' /\ ScanOrder'
    BY DEF IInv, TypeOK, MetaOrder, ScanOrder, Scanning, Ousting, Prefer
  <1>4. Published'
    BY DEF IInv, Published, Publishes
  <1>5. Pinned'
    BY DEF IInv, Pinned, Pins, Passed
  <1> QED
    BY <1>1, <1>2, <1>3, <1>4, <1>5 DEF IInv

\* mdbx_env_sync inside the write transaction moves the steady point up.
LEMMA SyncOwnedInv == ASSUME IInv, SyncOwned PROVE IInv'
  <1> USE DEF SyncOwned
  <1>1. TypeOK' /\ Bounds'
    BY DEF IInv, TypeOK, Bounds, Scanning, Ousting
  <1>2. Owned' /\ SlotExclusive' /\ OwnerTid'
    BY DEF IInv, Owned, SlotExclusive, OwnerTid, OwnTid
  <1>3. MetaOrder' /\ ScanOrder'
    BY DEF IInv, TypeOK, MetaOrder, ScanOrder, Scanning, Ousting, Prefer
  <1>4. Published'
    BY DEF IInv, Published, Publishes
  <1>5. Pinned'
    BY DEF IInv, Pinned, Pins, Passed
  <1> QED
    BY <1>1, <1>2, <1>3, <1>4, <1>5 DEF IInv

\* A commit raises the head.
LEMMA CommitInv == ASSUME IInv, Commit PROVE IInv'
  <1> USE DEF Commit
  <1>1. TypeOK' /\ Bounds'
    BY DEF IInv, TypeOK, Bounds, Scanning, Ousting
  <1>2. Owned' /\ SlotExclusive' /\ OwnerTid'
    BY DEF IInv, Owned, SlotExclusive, OwnerTid, OwnTid
  <1>3. MetaOrder' /\ ScanOrder'
    BY DEF IInv, TypeOK, MetaOrder, ScanOrder, Scanning, Ousting, Prefer
  <1>4. Published'
    BY DEF IInv, TypeOK, Published, Publishes
  <1>5. Pinned'
    BY DEF IInv, Pinned, Pins, Passed
  <1> QED
    BY <1>1, <1>2, <1>3, <1>4, <1>5 DEF IInv

\* mdbx_env_sync moves the steady point up.
LEMMA EnvSyncInv == ASSUME IInv, EnvSync PROVE IInv'
  <1> USE DEF EnvSync
  <1>1. TypeOK' /\ Bounds'
    BY DEF IInv, TypeOK, Bounds, Scanning, Ousting
  <1>2. Owned' /\ SlotExclusive' /\ OwnerTid'
    BY DEF IInv, Owned, SlotExclusive, OwnerTid, OwnTid
  <1>3. MetaOrder' /\ ScanOrder'
    BY DEF IInv, TypeOK, MetaOrder, ScanOrder, Scanning, Ousting, Prefer
  <1>4. Published'
    BY DEF IInv, Published, Publishes
  <1>5. Pinned'
    BY DEF IInv, Pinned, Pins, Passed
  <1> QED
    BY <1>1, <1>2, <1>3, <1>4, <1>5 DEF IInv

\* The toggle of rdt_refresh_flag ends a commit.
LEMMA ToggleInv == ASSUME IInv, Toggle PROVE IInv'
  <1> USE DEF Toggle
  <1>1. TypeOK' /\ Bounds'
    BY DEF IInv, TypeOK, Bounds, Scanning, Ousting
  <1>2. Owned' /\ SlotExclusive' /\ OwnerTid'
    BY DEF IInv, Owned, SlotExclusive, OwnerTid, OwnTid
  <1>3. MetaOrder' /\ ScanOrder'
    BY DEF IInv, MetaOrder, ScanOrder, Scanning, Ousting, Prefer
  <1>4. Published'
    BY DEF IInv, Published, Publishes
  <1>5. Pinned'
    BY DEF IInv, Pinned, Pins, Passed
  <1> QED
    BY <1>1, <1>2, <1>3, <1>4, <1>5 DEF IInv

\* An abort leaves the table alone.
LEMMA EndInv == ASSUME IInv, End PROVE IInv'
  <1> USE DEF End
  <1>1. TypeOK' /\ Bounds'
    BY DEF IInv, TypeOK, Bounds, Scanning, Ousting
  <1>2. Owned' /\ SlotExclusive' /\ OwnerTid'
    BY DEF IInv, Owned, SlotExclusive, OwnerTid, OwnTid
  <1>3. MetaOrder' /\ ScanOrder'
    BY DEF IInv, TypeOK, MetaOrder, ScanOrder, Scanning, Ousting, Prefer
  <1>4. Published'
    BY DEF IInv, Published, Publishes
  <1>5. Pinned'
    BY DEF IInv, Pinned, Pins, Passed
  <1> QED
    BY <1>1, <1>2, <1>3, <1>4, <1>5 DEF IInv

\* Every step of a reader keeps the invariant.
LEMMA ReaderInv == ASSUME IInv, NEW r \in Readers, Reader(r) PROVE IInv'
  <1>1. CASE BindSlot(r)
    BY <1>1, BindSlotInv
  <1>2. CASE SeizeTap(r)
    BY <1>2, SeizeTapInv
  <1>3. CASE SeizeReset(r)
    BY <1>3, SeizeResetInv
  <1>4. CASE SeizeWrite(r)
    BY <1>4, SeizeWriteInv
  <1>5. CASE SeizeFlag(r)
    BY <1>5, SeizeFlagInv
  <1>6. CASE SeizeRetry(r)
    BY <1>6, SeizeRetryInv
  <1>7. CASE SeizeFetch(r)
    BY <1>7, SeizeFetchInv
  <1>8. CASE SeizeVerify(r)
    BY <1>8, SeizeVerifyInv
  <1>9. CASE Reset(r)
    BY <1>9, ResetInv
  <1>10. CASE CleanFlag(r)
    BY <1>10, CleanFlagInv
  <1>11. CASE CleanTxnid(r)
    BY <1>11, CleanTxnidInv
  <1>12. CASE CleanTid(r)
    BY <1>12, CleanTidInv
  <1>13. CASE CleanCheck(r)
    BY <1>13, CleanCheckInv
  <1>14. CASE Release(r)
    BY <1>14, ReleaseInv
  <1>15. CASE Park(r)
    BY <1>15, ParkInv
  <1>16. CASE ParkFlag(r)
    BY <1>16, ParkFlagInv
  <1>17. CASE ResetParked(r)
    BY <1>17, ResetParkedInv
  <1>18. CASE UnparkRead(r)
    BY <1>18, UnparkReadInv
  <1>19. CASE UnparkCas(r)
    BY <1>19, UnparkCasInv
  <1>20. CASE UnparkCheck(r)
    BY <1>20, UnparkCheckInv
  <1> QED
    BY <1>1, <1>2, <1>3, <1>4, <1>5, <1>6, <1>7, <1>8, <1>9, <1>10, <1>11, <1>12, <1>13,
       <1>14, <1>15, <1>16, <1>17, <1>18, <1>19, <1>20 DEF Reader

\* Every step of the writer keeps the invariant.
LEMMA WriterInv == ASSUME IInv, Writer PROVE IInv'
  <1>1. CASE \E p \in Procs : Begin(p) \/ SyncBegin(p)
    BY <1>1, BeginInv, SyncBeginInv
  <1>2. CASE \E ret \in {"detent", "kick", "rescan"} : Scan(ret)
    BY <1>2, ScanInv
  <1>3. CASE ScanPass
    BY <1>3, ScanPassInv
  <1>4. CASE ScanSlot
    BY <1>4, ScanSlotInv
  <1>5. CASE ScanStuck
    BY <1>5, ScanStuckInv
  <1>6. CASE ScanStuckCas
    BY <1>6, ScanStuckCasInv
  <1>7. CASE ScanStore
    BY <1>7, ScanStoreInv
  <1>8. CASE OustRead
    BY <1>8, OustReadInv
  <1>9. CASE OustCas
    BY <1>9, OustCasInv
  <1>10. CASE OustReset
    BY <1>10, OustResetInv
  <1>11. CASE Reclaim
    BY <1>11, ReclaimInv
  <1>12. CASE MoveSteady
    BY <1>12, MoveSteadyInv
  <1>13. CASE SyncOwned
    BY <1>13, SyncOwnedInv
  <1>14. CASE Commit
    BY <1>14, CommitInv
  <1>15. CASE EnvSync
    BY <1>15, EnvSyncInv
  <1>16. CASE Toggle
    BY <1>16, ToggleInv
  <1>17. CASE End
    BY <1>17, EndInv
  <1> QED
    BY <1>1, <1>2, <1>3, <1>4, <1>5, <1>6, <1>7, <1>8, <1>9, <1>10, <1>11, <1>12, <1>13,
       <1>14, <1>15, <1>16, <1>17 DEF Writer

\* Leaving every variable alone keeps the invariant.
LEMMA StutterInv == ASSUME IInv, UNCHANGED vars PROVE IInv'
  <1> USE DEF vars
  <1>1. TypeOK' /\ Bounds' /\ Owned' /\ SlotExclusive'
    BY DEF IInv, TypeOK, Bounds, Owned, SlotExclusive, Scanning, Ousting
  <1>2. OwnerTid' /\ MetaOrder' /\ ScanOrder'
    BY DEF IInv, OwnerTid, OwnTid, MetaOrder, ScanOrder, Scanning, Ousting, Prefer
  <1>3. Published' /\ Pinned'
    BY DEF IInv, Published, Publishes, Pinned, Pins, Passed
  <1> QED
    BY <1>1, <1>2, <1>3 DEF IInv

\* Every step keeps the invariant.
LEMMA NextInv == ASSUME IInv, [Next]_vars PROVE IInv'
  <1>1. CASE \E r \in Readers : Reader(r)
    BY <1>1, ReaderInv
  <1>2. CASE Writer
    BY <1>2, WriterInv
  <1>3. CASE \E p \in Procs : Crash(p) \/ ReaderCheck(p)
    BY <1>3, CrashInv, ReaderCheckInv
  <1>4. CASE UNCHANGED vars
    BY <1>4, StutterInv
  <1> QED
    BY <1>1, <1>2, <1>3, <1>4 DEF Next

\* The invariant holds in every reachable state.
THEOREM Invariance == Spec => []IInv
  <1>1. Init => IInv
    BY InitInv
  <1>2. IInv /\ [Next]_vars => IInv'
    BY NextInv
  <1> QED
    BY <1>1, <1>2, PTL DEF Spec

-----------------------------------------------------------------------------
\* Every variable keeps its type: the round counter of ro_seize, the slot
\* indices of the writer's loops and the txnids never leave their ranges.
THEOREM TypeCorrect == Spec => []TypeOK
  <1>1. IInv => TypeOK
    BY DEF IInv
  <1> QED
    BY <1>1, Invariance, PTL

\* The writer never reuses a page an active reader may still read, whatever
\* the interleaving of ro_seize, mvcc_snapshot_oldest_rw, parking, ousting
\* and crashes.
THEOREM SnapshotSafety == Spec => []SnapshotIntact
  <1>1. IInv => SnapshotIntact
    <2> SUFFICES ASSUME IInv, NEW r \in Readers, pc[r] = "active"
                 PROVE  reused <= snap[r]
      BY DEF SnapshotIntact
    <2>1. Passed(r)
      BY DEF IInv, OwnerTid, OwnTid, Passed
    <2>2. cached <= snap[r] /\ reused <= cached
      BY <2>1 DEF IInv, Pinned, Pins, MetaOrder
    <2> QED
      BY <2>2 DEF IInv, TypeOK
  <1> QED
    BY <1>1, Invariance, PTL

\* An active reader is what its slot says, and is not older than
\* cached_oldest_txnid: the ENSURE of ro_slot_clean cannot fire.
THEOREM PublishedSafety == Spec => []ActiveIsPublished
  <1>1. IInv => ActiveIsPublished
    <2> SUFFICES ASSUME IInv, NEW r \in Readers, pc[r] = "active"
                 PROVE  /\ cached <= snap[r] /\ stxn[slot[r]] = snap[r]
                        /\ spid[slot[r]] = Proc[r] /\ stid[slot[r]] = "owner"
      BY DEF ActiveIsPublished
    <2>1. stid[slot[r]] = "owner" /\ Passed(r)
      BY DEF IInv, OwnerTid, OwnTid, Passed
    <2>2. cached <= snap[r] /\ stxn[slot[r]] = snap[r]
      BY <2>1 DEF IInv, Pinned, Pins
    <2>3. spid[slot[r]] = Proc[r]
      BY DEF IInv, Owned
    <2> QED
      BY <2>1, <2>2, <2>3
  <1> QED
    BY <1>1, Invariance, PTL

\* The pages of the newest steady snapshot are never reused, however many
\* weak commits follow it: a system crash can fall back to it.
THEOREM SteadySafety == Spec => []SteadyIntact
  <1>1. IInv => SteadyIntact
    BY DEF IInv, TypeOK, MetaOrder, Prefer, SteadyIntact
  <1> QED
    BY <1>1, Invariance, PTL

\* mvcc_bind_slot, ro_slot_release and mvcc_cleanup_dead never give one slot
\* to two live handles.
THEOREM ExclusiveSlots == Spec => []SlotExclusive
  <1>1. IInv => SlotExclusive
    BY DEF IInv
  <1> QED
    BY <1>1, Invariance, PTL

\* cached_oldest_txnid never moves back.
THEOREM OldestNeverFalls == Spec => OldestMonotone
  <1>1. IInv /\ [Next]_vars => [cached' >= cached]_vars
    <2> SUFFICES ASSUME IInv, [Next]_vars PROVE cached' >= cached
      OBVIOUS
    <2>1. cached \in Nat
      BY DEF IInv, TypeOK
    <2>2. CASE ScanStore
      BY <2>1, <2>2 DEF IInv, TypeOK, ScanOrder, Scanning, ScanStore
    <2>3. CASE ~ScanStore
      <3>1. cached' = cached
        <4>1. ASSUME NEW r \in Readers, Reader(r) PROVE cached' = cached
          BY <4>1 DEF Reader, BindSlot, SeizeTap, SeizeReset, SeizeWrite, SeizeFlag,
             SeizeRetry, SeizeFetch, SeizeVerify, Reset, CleanFlag, CleanTxnid,
             CleanTid, CleanCheck, Release, Park, ParkFlag, ResetParked, UnparkRead,
             UnparkCas, UnparkCheck
        <4>2. CASE Writer
          BY <2>3, <4>2 DEF Writer, Begin, SyncBegin, Lock, Scan, ScanPass, ScanSlot,
             ScanStuck, ScanStuckCas, OustRead, OustCas, OustReset, Reclaim,
             MoveSteady, SyncOwned, Commit, EnvSync, Toggle, End
        <4>3. CASE \E p \in Procs : Crash(p) \/ ReaderCheck(p)
          BY <4>3 DEF Crash, ReaderCheck
        <4>4. CASE UNCHANGED vars
          BY <4>4 DEF vars
        <4> QED
          BY <4>1, <4>2, <4>3, <4>4 DEF Next
      <3> QED
        BY <2>1, <3>1
    <2> QED
      BY <2>2, <2>3
  <1> QED
    BY <1>1, Invariance, PTL DEF Spec, OldestMonotone

-----------------------------------------------------------------------------
(* rdt_refresh_flag tells the truth: CacheIsFresh.                         *)
(*                                                                         *)
(* The argument.  A txnid the writer computed is "held" while some slot    *)
(* still shows it, or while it is the txnid of the preferred meta.  While  *)
(* nothing is pending a slot that shows a txnid keeps showing it: the step *)
(* that takes it away belongs to a reader that will raise the flag next,   *)
(* or to the oust of a reader that will find it out.  So what a scan has   *)
(* found, and what it stored, stays held until the flag is raised.  A      *)
(* reader that dies before it raises the flag leaves a slot that is stale  *)
(* until the sweep that frees it raises the flag for it.                   *)

\* Nobody raised the flag, nobody is about to, and nobody died who was.
Quiet == flag = "nothing" /\ ~FlagPending /\ Stale = {} /\ ~torn

\* A slot in use shows txnid t, or t is that of the preferred meta.
Shown(t) == t = Prefer \/ \E s \in Slots : spid[s] # NoProc /\ stxn[s] = t

\* A finished handle shows nothing in its slot.
Cleaned == \A r \in Readers : pc[r] \in {"finished", "cleanflag"} => stxn[slot[r]] = Invalid

\* What the scan has found so far, and what was stored, is still shown; the
\* slot an oust is about to reset shows nothing.
StillShown ==
    /\ Quiet /\ wpc = "oustreset" => spid[wi] = NoProc \/ stxn[wi] = Invalid
    /\ Quiet /\ ~Unsettled => Shown(cached)
    /\ Quiet /\ Scanning => Shown(oldest)

FreshInv == Cleaned /\ StillShown

-----------------------------------------------------------------------------
\* A reader's step that leaves the model quiet was taken in a quiet state,
\* took nothing away that a slot in use showed and added nothing to it.
KeepsShown ==
    Quiet' =>
        /\ Quiet
        /\ \A s \in Slots : spid[s] # NoProc /\ stxn[s] # Invalid =>
              spid'[s] # NoProc /\ stxn'[s] = stxn[s]
        /\ \A s \in Slots : spid[s] = NoProc \/ stxn[s] = Invalid =>
              spid'[s] = NoProc \/ stxn'[s] = Invalid

USE DEF Cleaned

\* mvcc_bind_slot takes a free slot, which nobody looks at, or frees those of
\* dead processes and raises the flag.
LEMMA BindSlotFresh ==
  ASSUME IInv, Cleaned, NEW r \in Readers, BindSlot(r)
  PROVE  Cleaned' /\ KeepsShown
  <1> DEFINE full == rdtlen = MaxReaders /\ \A s \in Slots : spid[s] # NoProc
             pids == IF full THEN Swept ELSE spid
  <1>1. PICK s \in Slots :
           /\ pids[s] = NoProc
           /\ spid' = [pids EXCEPT ![s] = Proc[r]]
           /\ stid' = [stid EXCEPT ![s] = "owner"]
           /\ stxn' = [stxn EXCEPT ![s] = Invalid]
           /\ slot' = [slot EXCEPT ![r] = s]
           /\ rdtlen' = IF s = rdtlen + 1 THEN s ELSE rdtlen
    BY DEF BindSlot
  <1>2. /\ pc[r] = "none" /\ pc' = [pc EXCEPT ![r] = "finished"]
        /\ flag' = (IF full THEN "changed" ELSE flag) /\ dead' = dead /\ torn' = torn
    BY DEF BindSlot
  <1>3. ASSUME NEW q \in Readers \ {r}, pc[q] \notin {"none", "dead"} PROVE slot[q] # s
    <2>1. slot[q] \in Slots /\ spid[slot[q]] # NoProc /\ spid[slot[q]] \notin dead
      BY <1>3, HasSlot
    <2>2. pids[slot[q]] # NoProc
      BY <2>1 DEF Swept, Stale
    <2> QED
      BY <1>1, <2>2
  <1>4. Cleaned'
    BY <1>1, <1>2, <1>3 DEF IInv, TypeOK
  <1>5. ASSUME Quiet'
        PROVE  /\ spid[s] = NoProc /\ spid' = [spid EXCEPT ![s] = Proc[r]]
               /\ flag = "nothing" /\ ~torn /\ Stale = {}
    <2>1. flag' = "nothing" /\ ~torn' /\ Stale' = {}
      BY <1>5 DEF Quiet
    <2>2. ~full
      BY <1>2, <2>1
    <2>3. spid[s] = NoProc /\ spid' = [spid EXCEPT ![s] = Proc[r]]
      BY <1>1, <2>2
    <2>4. Stale = {}
      <3>1. NoProc \notin dead /\ rdtlen \in 0 .. MaxReaders /\ rdtlen' \in Nat /\ rdtlen' >= rdtlen
        BY <1>1 DEF IInv, TypeOK
      <3>2. \A q \in Slots \ {s} : spid'[q] = spid[q]
        BY <2>3 DEF IInv, TypeOK
      <3>3. ASSUME NEW q \in 1 .. rdtlen, spid[q] \in dead PROVE FALSE
        <4>1. q \in Slots \ {s} /\ q \in 1 .. rdtlen'
          BY <2>3, <3>1, <3>3
        <4>2. q \in Stale'
          BY <1>2, <3>2, <3>3, <4>1 DEF Stale
        <4> QED
          BY <2>1, <4>2
      <3> QED
        BY <3>3 DEF Stale
    <2> QED
      BY <1>2, <2>1, <2>2, <2>3, <2>4
  <1>6. ASSUME Quiet' PROVE ~FlagPending
    <2>1. \A q \in Readers :
             pc[q] \in {"reset", "write", "flag", "cleanflag", "clean", "cleantid", "cleancheck"}
             => pc'[q] = pc[q]
      BY <1>2 DEF IInv, TypeOK
    <2>2. \A q \in Slots : spid[q] # NoProc /\ stid[q] = "ousted" =>
             spid'[q] # NoProc /\ stid'[q] = "ousted"
      BY <1>1, <1>5, <1>6 DEF IInv, TypeOK
    <2> QED
      BY <1>6, <2>1, <2>2 DEF Quiet, FlagPending
  <1>7. KeepsShown
    BY <1>1, <1>5, <1>6 DEF KeepsShown, Quiet, IInv, TypeOK
  <1> QED
    BY <1>4, <1>7

\* A step that leaves the table and the flag alone, and after which the
\* reader is not done with its slot, hides nothing.
LEMMA LocalFresh ==
  ASSUME IInv, Cleaned, NEW r \in Readers,
         UNCHANGED <<flag, dead, torn, rdtlen, spid, stid, stxn, slot>>,
         NEW to \in PcStates \ {"finished", "cleanflag"}, pc' = [pc EXCEPT ![r] = to],
         pc[r] \in {"reset", "write", "flag", "cleanflag", "clean", "cleantid", "cleancheck"}
         => to \in {"reset", "write", "flag", "clean", "cleantid", "cleancheck"}
  PROVE  Cleaned' /\ KeepsShown
  BY DEF KeepsShown, Quiet, FlagPending, Stale, IInv, TypeOK

\* A step that raises the flag, or after which the reader is about to, leaves
\* nothing quiet.
LEMMA LoudFresh ==
  ASSUME NEW r \in Readers,
         flag' = "changed" \/ pc'[r] \in {"reset", "write", "flag", "cleanflag", "clean", "cleantid", "cleancheck"}
  PROVE  KeepsShown
  BY DEF KeepsShown, Quiet, FlagPending, Stale

\* Every step of a reader keeps what slots in use show, or is followed by
\* one that raises the flag.
LEMMA ReaderFresh ==
  ASSUME IInv, Cleaned, NEW r \in Readers, Reader(r)
  PROVE  Cleaned' /\ KeepsShown
  <1> DEFINE Live == pc[r] \notin {"none", "dead"}
  <1>0. Live => /\ slot[r] \in Slots /\ spid[slot[r]] # NoProc
                /\ \A q \in Readers \ {r} : pc[q] \in {"finished", "cleanflag"} => slot[q] # slot[r]
    BY HasSlot, OtherSlot
  <1>1. CASE BindSlot(r)
    BY <1>1, BindSlotFresh
  <1>2. CASE SeizeTap(r)
    BY <1>2, LocalFresh DEF SeizeTap
  <1>3. CASE SeizeReset(r) \/ SeizeWrite(r) \/ Reset(r) \/ CleanTxnid(r)
    <2>1. pc'[r] \in {"write", "flag", "cleanflag", "cleantid"}
      BY <1>3 DEF SeizeReset, SeizeWrite, Reset, CleanTxnid, IInv, TypeOK
    <2>2. /\ \A q \in Readers \ {r} : pc'[q] = pc[q]
          /\ slot' = slot
          /\ \A s \in Slots \ {slot[r]} : stxn'[s] = stxn[s]
          /\ Live /\ (pc'[r] = "cleanflag" => stxn'[slot[r]] = Invalid)
      BY <1>0, <1>3 DEF SeizeReset, SeizeWrite, Reset, CleanTxnid, IInv, TypeOK
    <2>3. \A q \in Readers \ {r} : pc[q] \in {"finished", "cleanflag"} => slot[q] \in Slots
      BY HasSlot
    <2>4. Cleaned'
      BY <1>0, <2>1, <2>2, <2>3
    <2> QED
      BY <2>1, <2>4, LoudFresh
  <1>4. CASE SeizeFlag(r) \/ CleanFlag(r) \/ ParkFlag(r)
    <2>1. flag' = "changed"
      BY <1>4 DEF SeizeFlag, CleanFlag, ParkFlag
    <2>2. Cleaned'
      BY <1>4 DEF SeizeFlag, CleanFlag, ParkFlag, IInv, TypeOK
    <2> QED
      BY <2>1, <2>2, LoudFresh
  <1>5. CASE SeizeRetry(r) \/ SeizeFetch(r)
    <2>1. PICK to \in {"fetch", "verify", "reset", "clean"} : pc' = [pc EXCEPT ![r] = to]
      BY <1>5 DEF SeizeRetry, SeizeFetch, Again
    <2> QED
      BY <1>5, <2>1, LocalFresh DEF SeizeRetry, SeizeFetch
  <1>6. CASE SeizeVerify(r)
    <2>1. PICK to \in {"active", "reset", "clean"} : pc' = [pc EXCEPT ![r] = to]
      BY <1>6 DEF SeizeVerify, Again
    <2> QED
      BY <1>6, <2>1, LocalFresh DEF SeizeVerify
  <1>7. CASE CleanTid(r)
    <2>1. pc'[r] = "cleancheck"
      BY <1>7 DEF CleanTid, IInv, TypeOK
    <2>2. Cleaned'
      BY <1>0, <1>7 DEF CleanTid, IInv, TypeOK
    <2> QED
      BY <2>1, <2>2, LoudFresh
  <1>8. CASE CleanCheck(r)
    <2>1. pc'[r] \in {"cleanflag", "clean"}
      BY <1>8 DEF CleanCheck, IInv, TypeOK
    <2>2. Cleaned'
      BY <1>8 DEF CleanCheck, IInv, TypeOK
    <2> QED
      BY <2>1, <2>2, LoudFresh
  <1>9. CASE Release(r)
    <2>1. stxn[slot[r]] = Invalid /\ stid[slot[r]] = "owner"
      BY <1>9 DEF Release, IInv, OwnerTid, OwnTid
    <2>2. Cleaned'
      BY <1>0, <1>9, <2>1 DEF Release, IInv, TypeOK
    <2>3. Quiet' => Quiet
      <3>1. spid' = [spid EXCEPT ![slot[r]] = NoProc] /\ spid[slot[r]] \notin dead
        BY <1>9, HasSlot DEF Release
      <3>2. \A s \in Slots \ {slot[r]} : spid'[s] = spid[s]
        BY <3>1 DEF IInv, TypeOK
      <3>3. Stale' = {} => Stale = {}
        BY <1>9, <3>1, <3>2 DEF Release, Stale, IInv, TypeOK
      <3>4. FlagPending => FlagPending'
        BY <1>0, <1>9, <2>1, <3>2 DEF Release, FlagPending, IInv, TypeOK
      <3> QED
        BY <1>9, <3>3, <3>4 DEF Release, Quiet
    <2>4. KeepsShown
      BY <1>0, <1>9, <2>1, <2>3 DEF Release, KeepsShown, IInv, TypeOK
    <2> QED
      BY <2>2, <2>4
  <1>10. CASE Park(r)
    <2>1. stid[slot[r]] = "owner"
      BY <1>10 DEF Park, IInv, OwnerTid, OwnTid
    <2>2. Cleaned'
      BY <1>0, <1>10 DEF Park, IInv, TypeOK
    <2>3. KeepsShown
      BY <1>0, <1>10, <2>1 DEF Park, KeepsShown, Quiet, FlagPending, Stale, IInv, TypeOK
    <2> QED
      BY <2>2, <2>3
  <1>11. CASE ResetParked(r)
    BY <1>11, LocalFresh DEF ResetParked
  <1>12. CASE UnparkRead(r)
    <2>1. PICK to \in {"unparkcas", "clean"} : pc' = [pc EXCEPT ![r] = to]
      BY <1>12 DEF UnparkRead
    <2> QED
      BY <1>12, <2>1, LocalFresh DEF UnparkRead
  <1>13. CASE UnparkCas(r)
    <2>1. Cleaned'
      BY <1>0, <1>13 DEF UnparkCas, IInv, TypeOK
    <2>2. KeepsShown
      BY <1>0, <1>13 DEF UnparkCas, KeepsShown, Quiet, FlagPending, Stale, IInv, TypeOK
    <2> QED
      BY <2>1, <2>2
  <1>14. CASE UnparkCheck(r)
    <2>1. PICK to \in {"active", "clean"} : pc' = [pc EXCEPT ![r] = to]
      BY <1>14 DEF UnparkCheck
    <2> QED
      BY <1>14, <2>1, LocalFresh DEF UnparkCheck
  <1> QED
    BY <1>1, <1>2, <1>3, <1>4, <1>5, <1>6, <1>7, <1>8, <1>9, <1>10, <1>11, <1>12, <1>13, <1>14
    DEF Reader

\* What was shown before a step of a reader is shown after it, or it is not
\* quiet any more.
LEMMA ReaderStill ==
  ASSUME IInv, FreshInv, NEW r \in Readers, Reader(r)
  PROVE  FreshInv'
  <1>1. Cleaned' /\ KeepsShown
    BY ReaderFresh DEF FreshInv
  <1>2. UNCHANGED <<wpc, wi, head, steady, cached, oldest>>
    BY DEF Reader, BindSlot, SeizeTap, SeizeReset, SeizeWrite, SeizeFlag, SeizeRetry, SeizeFetch,
       SeizeVerify, Reset, CleanFlag, CleanTxnid, CleanTid, CleanCheck, Release, Park, ParkFlag,
       ResetParked, UnparkRead, UnparkCas, UnparkCheck
  <1>3. ASSUME Quiet', NEW t \in Txnids, Shown(t) PROVE Shown(t)'
    <2>1. Prefer' = Prefer
      BY <1>2 DEF Prefer
    <2>2. ASSUME NEW s \in Slots, spid[s] # NoProc, stxn[s] = t
          PROVE  spid'[s] # NoProc /\ stxn'[s] = t
      BY <1>1, <1>3, <2>2 DEF KeepsShown
    <2> QED
      BY <1>3, <2>1, <2>2 DEF Shown
  <1>4. cached \in Txnids /\ oldest \in Txnids
    BY DEF IInv, TypeOK
  <1>5. StillShown'
    <2> SUFFICES ASSUME Quiet'
                 PROVE  /\ wpc' = "oustreset" => spid'[wi'] = NoProc \/ stxn'[wi'] = Invalid
                        /\ ~Unsettled' => Shown(cached)'
                        /\ Scanning' => Shown(oldest)'
      BY DEF StillShown
    <2>1. Quiet /\ StillShown
      BY <1>1 DEF KeepsShown, FreshInv
    <2>2. ~Unsettled => Shown(cached)'
      BY <1>2, <1>3, <1>4, <2>1 DEF StillShown, Shown
    <2>3. Scanning => Shown(oldest)'
      BY <1>2, <1>3, <1>4, <2>1 DEF StillShown, Shown
    <2>4. wpc = "oustreset" => spid'[wi] = NoProc \/ stxn'[wi] = Invalid
      BY <1>1, <2>1 DEF KeepsShown, StillShown, IInv, Bounds, TypeOK
    <2> QED
      BY <1>2, <2>1, <2>2, <2>3, <2>4 DEF StillShown, Scanning, Unsettled
  <1> QED
    BY <1>1, <1>5 DEF FreshInv

USE DEF StillShown, Scanning, Unsettled, Shown, Prefer

\* The scan and the stores of the writer keep what they found.
LEMMA WriterStill == ASSUME IInv, FreshInv, Writer PROVE FreshInv'
  <1> USE DEF FreshInv
  <1>0. dead' = dead /\ UNCHANGED rdVars
    BY DEF Writer, Begin, SyncBegin, Lock, Scan, ScanPass, ScanSlot, ScanStuck, ScanStuckCas,
       ScanStore, OustRead, OustCas, OustReset, Reclaim, MoveSteady, SyncOwned, Commit, EnvSync,
       Toggle, End
  <1>1. Stale = {} => Swept = spid
    BY DEF IInv, TypeOK, Swept
  <1>2. CASE \E p \in Procs : Begin(p) \/ SyncBegin(p)
    BY <1>1, <1>2 DEF Begin, SyncBegin, Lock, Quiet, FlagPending, Stale
  <1>3. CASE \E ret \in {"detent", "kick", "rescan"} : Scan(ret)
    BY <1>3 DEF Scan, Quiet, FlagPending, Stale
  <1>4. CASE ScanPass
    BY <1>4 DEF ScanPass, Quiet, FlagPending, Stale
  <1>5. CASE ScanSlot
    BY <1>5 DEF ScanSlot, Quiet, FlagPending, Stale, IInv, TypeOK
  <1>6. CASE ScanStuck
    BY <1>6 DEF ScanStuck, Quiet, FlagPending, Stale
  <1>7. CASE ScanStuckCas
    BY <1>7 DEF ScanStuckCas, ResetCompare, Quiet, FlagPending, Stale, IInv, TypeOK, ScanOrder
  <1>8. CASE ScanStore
    BY <1>1, <1>8 DEF ScanStore, Return, Quiet, FlagPending, Stale
  <1>9. CASE OustRead
    BY <1>9 DEF OustRead, Return, Rescan, Quiet, FlagPending, Stale
  <1>10. CASE OustCas
    <2>1. wi \in Slots
      BY <1>10 DEF OustCas, IInv, TypeOK, Bounds
    <2>2. CASE stid[wi] = "parked"
      <3>1. /\ stid' = [stid EXCEPT ![wi] = "ousted"] /\ wpc' = "oustreset" /\ wi' = wi
            /\ UNCHANGED <<flag, torn, rdtlen, spid, stxn, head, steady, cached>>
        BY <1>10, <2>2 DEF OustCas
      <3>2. stid'[wi] = "ousted" /\ \A s \in Slots \ {wi} : stid'[s] = stid[s]
        BY <2>1, <3>1 DEF IInv, TypeOK
      <3>3. FlagPending => FlagPending'
        BY <1>0, <2>2, <3>1, <3>2 DEF FlagPending
      <3>4. Stale' = Stale
        BY <1>0, <3>1 DEF Stale
      <3>5. Quiet' => spid[wi] = NoProc /\ Quiet
        BY <2>1, <3>1, <3>2, <3>3, <3>4 DEF Quiet, FlagPending
      <3>6. Cleaned' /\ Prefer' = Prefer
        BY <1>0, <3>1
      <3>7. Quiet' => Shown(cached)'
        BY <1>10, <3>1, <3>5 DEF OustCas
      <3> QED
        BY <3>1, <3>5, <3>6, <3>7
    <2>3. CASE stid[wi] # "parked"
      BY <1>10, <2>3 DEF OustCas, Quiet, FlagPending, Stale
    <2> QED
      BY <2>2, <2>3
  <1>11. CASE OustReset
    BY <1>11 DEF OustReset, ResetCompare, Quiet, FlagPending, Stale, IInv, TypeOK
  <1>12. CASE Reclaim \/ Commit \/ EnvSync \/ End
    BY <1>12 DEF Reclaim, Commit, EnvSync, End, Quiet, FlagPending, Stale
  <1>13. CASE MoveSteady \/ SyncOwned \/ Toggle
    BY <1>13 DEF MoveSteady, SyncOwned, Toggle, Quiet, FlagPending, Stale
  <1> QED
    BY <1>2, <1>3, <1>4, <1>5, <1>6, <1>7, <1>8, <1>9, <1>10, <1>11, <1>12, <1>13 DEF Writer

\* A reader that dies before it raises the flag leaves a stale slot, and the
\* sweep that frees stale slots raises the flag.  A writer that dies when it
\* is not Unsettled leaves a cached_oldest_txnid that is shown.
LEMMA CrashStill ==
  ASSUME IInv, FreshInv, NEW p \in Procs, Crash(p) \/ ReaderCheck(p)
  PROVE  FreshInv'
  <1>1. Cleaned'
    BY DEF Crash, ReaderCheck, FreshInv
  <1>2. CASE ReaderCheck(p)
    BY <1>1, <1>2 DEF ReaderCheck, Quiet, FreshInv
  <1>3. CASE Crash(p)
    <2> USE <1>3
    <2>1. ASSUME Quiet' PROVE Quiet
      <3>1. /\ flag = "nothing" /\ Stale' = {} /\ ~torn /\ ~FlagPending'
            /\ dead' = dead \cup {p} /\ UNCHANGED <<rdtlen, spid, stid>>
        BY <2>1 DEF Quiet, Crash
      <3>2. Stale = {} /\ \A s \in 1 .. rdtlen : spid[s] # p
        BY <3>1 DEF Stale
      <3>3. ASSUME NEW r \in Readers,
                   pc[r] \in {"reset", "write", "flag", "cleanflag", "clean", "cleantid", "cleancheck"}
            PROVE  pc'[r] = pc[r]
        <4>1. Proc[r] # p
          BY <3>2, <3>3 DEF IInv, Owned
        <4> QED
          BY <4>1 DEF Crash
      <3> QED
        BY <3>1, <3>2, <3>3 DEF Quiet, FlagPending
    <2>2. /\ UNCHANGED <<head, steady, cached, spid, stxn>>
          /\ wproc = p => wpc' = "idle"
          /\ wproc # p => UNCHANGED <<wpc, wi, oldest>>
          /\ ~torn' => wproc # p \/ ~Unsettled
      BY DEF Crash, Return
    <2>3. ASSUME Quiet', wproc = p PROVE StillShown'
      BY <2>1, <2>2, <2>3 DEF Quiet, FreshInv
    <2>4. ASSUME Quiet', wproc # p PROVE StillShown'
      BY <2>1, <2>2, <2>4 DEF FreshInv
    <2> QED
      BY <1>1, <2>3, <2>4 DEF FreshInv
  <1> QED
    BY <1>2, <1>3

\* Outside a scan, with nothing about to raise rdt_refresh_flag and the slots
\* of dead processes freed, cached_oldest_txnid is what another pass of
\* mvcc_snapshot_oldest_rw over the table would compute, whichever readers
\* died before; after the death of a writer in the midst of a scan or of
\* raising the flag for a commit, from the next pass on.
THEOREM FreshCache == Spec => []CacheIsFresh
  <1>1. Init => FreshInv
    BY DEF Init, FreshInv, Quiet
  <1>2. IInv /\ FreshInv /\ [Next]_vars => FreshInv'
    <2> SUFFICES ASSUME IInv, FreshInv, [Next]_vars PROVE FreshInv'
      OBVIOUS
    <2>1. CASE \E r \in Readers : Reader(r)
      BY <2>1, ReaderStill
    <2>2. CASE Writer
      BY <2>2, WriterStill
    <2>3. CASE \E p \in Procs : Crash(p) \/ ReaderCheck(p)
      BY <2>3, CrashStill
    <2>4. CASE UNCHANGED vars
      BY <2>4 DEF vars, FreshInv, Quiet, FlagPending, Stale
    <2> QED
      BY <2>1, <2>2, <2>3, <2>4 DEF Next
  <1>3. IInv /\ FreshInv => CacheIsFresh
    <2> SUFFICES ASSUME IInv, FreshInv, Quiet, wpc \in {"idle", "open"}
                 PROVE  cached = OldestInUse
      BY DEF CacheIsFresh, Quiet
    <2> DEFINE used == {stxn[s] : s \in {s \in Slots : spid[s] # NoProc /\ stxn[s] >= cached}} \cup {Prefer}
    <2>1. cached \in Nat /\ \A u \in used : u \in Nat /\ cached <= u
      BY DEF IInv, TypeOK, MetaOrder
    <2>2. cached \in used
      BY <2>1 DEF FreshInv
    <2>3. \A t \in used : (\A u \in used : t <= u) => t = cached
      BY <2>1, <2>2
    <2>4. OldestInUse = CHOOSE t \in used : \A u \in used : t <= u
      BY DEF OldestInUse
    <2> HIDE DEF used
    <2> QED
      BY <2>1, <2>2, <2>3, <2>4
  <1> QED
    BY <1>1, <1>2, <1>3, Invariance, PTL DEF Spec
=============================================================================

-------------------------------- MODULE Mvcc --------------------------------
(***************************************************************************)
(* The reader table of libmdbx (lck_t.rdt) and the two protocols that run  *)
(* over it without a common lock: a reader publishes the snapshot it wants *)
(* to use (ro_seize), and the writer computes the oldest snapshot in use   *)
(* (mvcc_snapshot_oldest_rw) before it reuses pages that newer             *)
(* transactions retired.  Parking lets the writer take a snapshot away     *)
(* from a reader (mvcc_kick_laggards against txn_ro_unpark).  Processes    *)
(* crash and leave their slots to mvcc_cleanup_dead.                       *)
(*                                                                         *)
(* An action is one access to shared memory, plus the thread-local work    *)
(* around it; memory is sequentially consistent.  What runs under          *)
(* rdt_lock (mvcc_bind_slot, mvcc_cleanup_dead) is one action.             *)
(* The three meta pages appear as the txnid of the newest commit and of    *)
(* the newest steady commit; how they encode these is another matter.      *)
(***************************************************************************)
EXTENDS Integers, FiniteSets

CONSTANTS
    Readers,     \* read-only transaction handles
    Procs,       \* processes with the database open
    NoProc,      \* pid 0: the slot is free
    Proc,        \* the process each handle belongs to
    MaxReaders,  \* env->max_readers: slots in the table
    MaxTxn,      \* MAX_TXNID: the writer stops with MDBX_TXN_FULL above it
    MaxLoop,     \* ro_seize gives up after this many rounds (42 in the code)
    Crashable    \* processes that may crash

ASSUME MvccAssumption ==
    /\ Proc \in [Readers -> Procs]
    /\ NoProc \notin Procs
    /\ MaxReaders \in Nat /\ MaxReaders > 0
    /\ MaxTxn \in Nat /\ MaxTxn > 0
    /\ MaxLoop \in Nat /\ MaxLoop > 0
    /\ Crashable \subseteq Procs

Slots == 1 .. MaxReaders

Txnids == 0 .. MaxTxn

\* SAFE64_INVALID_THRESHOLD, and every value a reset slot may hold.
Invalid == MaxTxn + 1

VARIABLES
    head,    \* txnid of the newest committed meta (meta_recent)
    steady,  \* txnid of the newest steady meta, 0 when there is none
    flag,    \* lck->rdt_refresh_flag: is it NOTHING_CHANGED_SIGNATURE?
    cached,  \* lck->cached_oldest_txnid
    rdtlen,  \* lck->rdt_length
    spid, stid, stxn,       \* pid, tid and txnid of every slot
    pc, slot, snap, loop,   \* each handle: next step, slot, txnid, rounds
    wpc, wproc,             \* the write lock's holder: next step, process
    wret, prev, oldest, wi, wn, seen,  \* locals of mvcc_snapshot_oldest_rw
    stucked, \* mvcc_kick_laggards: the slot in its way, 0 for nullptr
    detent,  \* env->gc.detent: GC records up to this id may be reclaimed
    reused,  \* ghost: highest GC record whose pages have been reused
    dead,    \* processes that crashed
    died,    \* the write lock's last owner died holding it (EOWNERDEAD)
    torn     \* history: a writer died Unsettled, and no pass began since

metaVars == <<head, steady>>
tblVars == <<rdtlen, spid, stid, stxn>>
rdVars == <<pc, slot, snap, loop>>
scanVars == <<wret, prev, oldest, wi, wn, seen, stucked>>
wrVars == <<wpc, wproc, detent, reused>>
deadVars == <<dead, died, torn>>
vars == <<metaVars, flag, cached, tblVars, rdVars, scanVars, wrVars, deadVars>>

\* meta_prefer_steady: the newest steady meta, or the newest one without any.
Prefer == IF steady = 0 THEN head ELSE steady

Init ==
    /\ head = 1 /\ steady = 1
    /\ flag = "changed" /\ cached = 1
    /\ rdtlen = 0
    /\ spid = [s \in Slots |-> NoProc]
    /\ stid = [s \in Slots |-> "owner"]
    /\ stxn = [s \in Slots |-> Invalid]
    /\ pc = [r \in Readers |-> "none"]
    /\ slot = [r \in Readers |-> 0]
    /\ snap = [r \in Readers |-> 0]
    /\ loop = [r \in Readers |-> 0]
    /\ wpc = "idle" /\ wproc = NoProc
    /\ wret = "detent" /\ prev = 0 /\ oldest = 0 /\ wi = 1 /\ wn = 0 /\ seen = 0 /\ stucked = 0
    /\ detent = 0 /\ reused = 0
    /\ dead = {} /\ died = FALSE /\ torn = FALSE

-----------------------------------------------------------------------------
(* Readers: starting a read-only transaction                                *)

Step(r, from, to) == pc[r] = from /\ pc' = [pc EXCEPT ![r] = to]

\* Slots mvcc_cleanup_dead frees.
Stale == {s \in 1 .. rdtlen : spid[s] \in dead}

\* The table after mvcc_cleanup_dead freed every slot of a dead process.
Swept == [s \in Slots |-> IF s \in Stale THEN NoProc ELSE spid[s]]

\* Mutant: a slot counts as free when its txnid is reset.
BindSlotReset(r) ==
    /\ Step(r, "none", "finished")
    /\ \E s \in Slots :
          /\ stxn[s] = Invalid /\ s <= rdtlen + 1
          /\ rdtlen' = IF s = rdtlen + 1 THEN s ELSE rdtlen
          /\ spid' = [spid EXCEPT ![s] = Proc[r]]
          /\ stid' = [stid EXCEPT ![s] = "owner"]
          /\ slot' = [slot EXCEPT ![r] = s]
    /\ UNCHANGED <<metaVars, flag, cached, stxn, snap, loop, scanVars, wrVars, deadVars>>

\* mvcc_bind_slot: the first free slot or a new one; with a full table the
\* slots of dead processes are freed first.  MDBX_READERS_FULL leaves r as
\* it was, so it is no step.
BindSlot(r) ==
    LET full == rdtlen = MaxReaders /\ \A s \in Slots : spid[s] # NoProc
        pids == IF full THEN Swept ELSE spid
    IN
    /\ Step(r, "none", "finished")
    /\ full => Stale # {}
    /\ \E s \in Slots :
          /\ pids[s] = NoProc
          /\ \A q \in 1 .. s - 1 : pids[q] # NoProc
          /\ s <= rdtlen + 1
          /\ rdtlen' = IF s = rdtlen + 1 THEN s ELSE rdtlen
          /\ spid' = [pids EXCEPT ![s] = Proc[r]]
          /\ stid' = [stid EXCEPT ![s] = "owner"]
          /\ stxn' = [stxn EXCEPT ![s] = Invalid]
          /\ slot' = [slot EXCEPT ![r] = s]
    /\ flag' = IF full THEN "changed" ELSE flag
    /\ UNCHANGED <<metaVars, cached, snap, loop, scanVars, wrVars, deadVars>>

\* ro_seize: the first meta_tap.  The slot of a finished reader is reset, so
\* the reset that begins the first round is no step.
SeizeTap(r) ==
    /\ Step(r, "finished", "write")
    /\ snap' = [snap EXCEPT ![r] = head]
    /\ loop' = [loop EXCEPT ![r] = 0]
    /\ UNCHANGED <<metaVars, flag, cached, tblVars, slot, scanVars, wrVars, deadVars>>

\* A further round begins with safe64_reset(&slot->txnid).
SeizeReset(r) ==
    /\ Step(r, "reset", "write")
    /\ stxn' = [stxn EXCEPT ![slot[r]] = Invalid]
    /\ UNCHANGED <<metaVars, flag, cached, rdtlen, spid, stid, slot, snap, loop, scanVars, wrVars, deadVars>>

\* safe64_write(&slot->txnid, head.txnid)
SeizeWrite(r) ==
    /\ Step(r, "write", "flag")
    /\ stxn' = [stxn EXCEPT ![slot[r]] = snap[r]]
    /\ UNCHANGED <<metaVars, flag, cached, rdtlen, spid, stid, slot, snap, loop, scanVars, wrVars, deadVars>>

\* rdt_refresh_flag = true
SeizeFlag(r) ==
    /\ Step(r, "flag", "retry")
    /\ flag' = "changed"
    /\ UNCHANGED <<metaVars, cached, tblVars, slot, snap, loop, scanVars, wrVars, deadVars>>

\* Mutant: the rounds are not limited.
AgainForever(r) ==
    /\ loop' = [loop EXCEPT ![r] = @ + 1]
    /\ pc' = [pc EXCEPT ![r] = "reset"]

\* "continue" in ro_seize's do-while: the round is counted, and after the
\* last one ro_seize gives up with MDBX_PROBLEM, its counter goes with it
\* and the txn is reset.
Again(r) ==
    /\ loop' = [loop EXCEPT ![r] = IF @ + 1 < MaxLoop THEN @ + 1 ELSE 0]
    /\ pc' = [pc EXCEPT ![r] = IF loop[r] + 1 < MaxLoop THEN "reset" ELSE "clean"]

\* Mutant: meta_should_retry is not consulted.
SeizeNoRetry(r) ==
    /\ Step(r, "retry", "fetch")
    /\ UNCHANGED <<metaVars, flag, cached, tblVars, slot, snap, loop, scanVars, wrVars, deadVars>>

\* meta_should_retry taps again: a changed head, or a change of one of the
\* other two metas (which the model does not show), starts another round
\* with the new head.
SeizeRetry(r) ==
    /\ pc[r] = "retry"
    /\ \/ head = snap[r] /\ Step(r, "retry", "fetch") /\ UNCHANGED <<snap, loop>>
       \/ Again(r) /\ snap' = [snap EXCEPT ![r] = head]
    /\ UNCHANGED <<metaVars, flag, cached, tblVars, slot, scanVars, wrVars, deadVars>>

\* coherency_fetch_head, which may find the meta or the roots incoherent and
\* ask for another round, then the comparison with cached_oldest_txnid.
SeizeFetch(r) ==
    /\ pc[r] = "fetch"
    /\ \/ snap[r] >= cached /\ Step(r, "fetch", "verify") /\ UNCHANGED loop
       \/ Again(r)
    /\ UNCHANGED <<metaVars, flag, cached, tblVars, slot, snap, scanVars, wrVars, deadVars>>

\* The slot must still hold the txnid.
SeizeVerify(r) ==
    /\ pc[r] = "verify"
    /\ IF stxn[slot[r]] = snap[r]
       THEN Step(r, "verify", "active") /\ loop' = [loop EXCEPT ![r] = 0]
       ELSE Again(r)
    /\ UNCHANGED <<metaVars, flag, cached, tblVars, slot, snap, scanVars, wrVars, deadVars>>

-----------------------------------------------------------------------------
(* Readers: reset, abort, park, unpark                                      *)

\* txn_ro_reset of an active reader: ro_slot_clean resets the slot's txnid.
Reset(r) ==
    /\ Step(r, "active", "cleanflag")
    /\ stxn' = [stxn EXCEPT ![slot[r]] = Invalid]
    /\ snap' = [snap EXCEPT ![r] = 0]
    /\ UNCHANGED <<metaVars, flag, cached, rdtlen, spid, stid, slot, loop, scanVars, wrVars, deadVars>>

\* Mutant: a finished reader does not raise rdt_refresh_flag.
CleanFlagForgotten(r) ==
    /\ Step(r, "cleanflag", "finished")
    /\ UNCHANGED <<metaVars, flag, cached, tblVars, slot, snap, loop, scanVars, wrVars, deadVars>>

\* ... and then raises rdt_refresh_flag.
CleanFlag(r) ==
    /\ Step(r, "cleanflag", "finished")
    /\ flag' = "changed"
    /\ UNCHANGED <<metaVars, cached, tblVars, slot, snap, loop, scanVars, wrVars, deadVars>>

\* ro_slot_clean of a parked reader (and of a start that failed): txnid,
\* then tid, again until both stick.
CleanTxnid(r) ==
    /\ Step(r, "clean", "cleantid")
    /\ stxn' = [stxn EXCEPT ![slot[r]] = Invalid]
    /\ snap' = [snap EXCEPT ![r] = 0]
    /\ UNCHANGED <<metaVars, flag, cached, rdtlen, spid, stid, slot, loop, scanVars, wrVars, deadVars>>

CleanTid(r) ==
    /\ Step(r, "cleantid", "cleancheck")
    /\ stid' = [stid EXCEPT ![slot[r]] = "owner"]
    /\ UNCHANGED <<metaVars, flag, cached, rdtlen, spid, stxn, slot, snap, loop, scanVars, wrVars, deadVars>>

CleanCheck(r) ==
    /\ pc[r] = "cleancheck"
    /\ pc' = [pc EXCEPT ![r] =
                IF stxn[slot[r]] = Invalid /\ stid[slot[r]] = "owner" THEN "cleanflag" ELSE "clean"]
    /\ UNCHANGED <<metaVars, flag, cached, tblVars, slot, snap, loop, scanVars, wrVars, deadVars>>

\* txn_ro_free of a finished txn: ro_slot_release.
Release(r) ==
    /\ Step(r, "finished", "none")
    /\ stxn' = [stxn EXCEPT ![slot[r]] = Invalid]
    /\ spid' = [spid EXCEPT ![slot[r]] = NoProc]
    /\ slot' = [slot EXCEPT ![r] = 0]
    /\ UNCHANGED <<metaVars, flag, cached, rdtlen, stid, snap, loop, scanVars, wrVars, deadVars>>

\* txn_ro_park marks the slot, then raises rdt_refresh_flag.
Park(r) ==
    /\ Step(r, "active", "parkflag")
    /\ stid' = [stid EXCEPT ![slot[r]] = "parked"]
    /\ UNCHANGED <<metaVars, flag, cached, rdtlen, spid, stxn, slot, snap, loop, scanVars, wrVars, deadVars>>

ParkFlag(r) ==
    /\ Step(r, "parkflag", "parked")
    /\ flag' = "changed"
    /\ UNCHANGED <<metaVars, cached, tblVars, slot, snap, loop, scanVars, wrVars, deadVars>>

\* mdbx_txn_reset / mdbx_txn_abort of a parked reader.
ResetParked(r) ==
    /\ Step(r, "parked", "clean")
    /\ UNCHANGED <<metaVars, flag, cached, tblVars, slot, snap, loop, scanVars, wrVars, deadVars>>

\* txn_ro_unpark reads the slot: an ousted reader is reset.
UnparkRead(r) ==
    /\ pc[r] \in {"parked", "unpark"}
    /\ pc' = [pc EXCEPT ![r] =
                IF stid[slot[r]] = "parked" /\ stxn[slot[r]] = snap[r] THEN "unparkcas" ELSE "clean"]
    /\ UNCHANGED <<metaVars, flag, cached, tblVars, slot, snap, loop, scanVars, wrVars, deadVars>>

\* Mutant: the tid is stored, not compared and swapped, so a reader takes
\* back a slot the writer has just ousted.
UnparkStore(r) ==
    /\ Step(r, "unparkcas", "active")
    /\ stid' = [stid EXCEPT ![slot[r]] = "owner"]
    /\ UNCHANGED <<metaVars, flag, cached, rdtlen, spid, stxn, slot, snap, loop, scanVars, wrVars, deadVars>>

\* Mutant: a failed CAS is tried again without reading the slot.
UnparkCasSpin(r) ==
    /\ pc[r] = "unparkcas"
    /\ IF stid[slot[r]] = "parked"
       THEN Step(r, "unparkcas", "unparkcheck") /\ stid' = [stid EXCEPT ![slot[r]] = "owner"]
       ELSE UNCHANGED <<pc, stid>>
    /\ UNCHANGED <<metaVars, flag, cached, rdtlen, spid, stxn, slot, snap, loop, scanVars, wrVars, deadVars>>

\* CAS(slot->tid, PARKED, owner); when it fails the slot is read again.
UnparkCas(r) ==
    /\ pc[r] = "unparkcas"
    /\ IF stid[slot[r]] = "parked"
       THEN /\ Step(r, "unparkcas", "unparkcheck")
            /\ stid' = [stid EXCEPT ![slot[r]] = "owner"]
       ELSE Step(r, "unparkcas", "unpark") /\ UNCHANGED stid
    /\ UNCHANGED <<metaVars, flag, cached, rdtlen, spid, stxn, slot, snap, loop, scanVars, wrVars, deadVars>>

\* Both fields are read back.
UnparkCheck(r) ==
    /\ pc[r] = "unparkcheck"
    /\ pc' = [pc EXCEPT ![r] =
                IF stxn[slot[r]] = snap[r] /\ stid[slot[r]] = "owner" THEN "active" ELSE "clean"]
    /\ UNCHANGED <<metaVars, flag, cached, tblVars, slot, snap, loop, scanVars, wrVars, deadVars>>

-----------------------------------------------------------------------------
(* The writer: begin, the scan for the oldest reader, reclaiming            *)

WStep(from, to) == wpc = from /\ wpc' = to

\* The locals of mvcc_snapshot_oldest_rw and mvcc_kick_laggards go out of scope.
Return(to) ==
    /\ wpc' = to
    /\ wret' = "detent" /\ prev' = 0 /\ oldest' = 0 /\ wi' = 1 /\ wn' = 0 /\ seen' = 0
    /\ stucked' = 0

\* lck_txn_lock: after a dead owner osal_ipclock_failed runs mvcc_cleanup_dead.
Lock(p) ==
    /\ wpc = "idle" /\ p \notin dead
    /\ wproc' = p
    /\ spid' = IF died THEN Swept ELSE spid
    /\ flag' = IF died /\ Stale # {} THEN "changed" ELSE flag
    /\ died' = FALSE

\* txn_basal_start: the write lock, gc.detent = 0.
Begin(p) ==
    /\ Lock(p)
    /\ head < MaxTxn
    /\ wpc' = "open" /\ detent' = 0
    /\ UNCHANGED <<metaVars, cached, rdtlen, stid, stxn, rdVars, scanVars, reused, dead, torn>>

\* mdbx_env_sync takes the lock and first of all computes gc.detent.
SyncBegin(p) ==
    /\ Lock(p)
    /\ steady # head
    /\ wpc' = "scan"
    /\ wret' = "sync" /\ prev' = cached /\ oldest' = cached
    /\ UNCHANGED <<metaVars, cached, rdtlen, stid, stxn, rdVars, wi, wn, seen, stucked, detent, reused, dead, torn>>

\* mvcc_snapshot_oldest_rw is called for GC (txn_gc_detent), by
\* mvcc_kick_laggards and before the file grows (snapshot_oldest_force_rescan);
\* the last two force a refresh first.
Scan(ret) ==
    /\ WStep("open", "scan")
    /\ ret = "kick" => detent # 0 /\ detent < head
    /\ wret' = ret /\ prev' = cached /\ oldest' = cached
    /\ flag' = IF ret = "detent" THEN flag ELSE "changed"
    /\ UNCHANGED <<metaVars, cached, tblVars, rdVars, wi, wn, seen, stucked, wproc, detent, reused, deadVars>>

\* The while condition and, with a changed flag, the start of a pass.
ScanPass ==
    /\ wpc = "scan"
    /\ \/ /\ flag = "changed"
          /\ flag' = "nothing"
          /\ wn' = rdtlen /\ wi' = 1 /\ oldest' = Prefer
          /\ wpc' = "slot" /\ torn' = FALSE
       \/ /\ flag = "nothing"
          /\ wpc' = "store" /\ UNCHANGED <<flag, wn, wi, oldest, torn>>
    /\ UNCHANGED <<metaVars, cached, tblVars, rdVars, wret, prev, seen, stucked, wproc, detent, reused, dead, died>>

\* Mutant: a reader below prev_oldest pulls the oldest back.
ScanSlotStuck ==
    /\ wpc = "slot"
    /\ IF wi > wn
       THEN wpc' = "scan" /\ UNCHANGED <<wi, oldest>>
       ELSE /\ wi' = wi + 1 /\ UNCHANGED wpc
            /\ oldest' = IF spid[wi] # NoProc /\ stxn[wi] < oldest THEN stxn[wi] ELSE oldest
    /\ UNCHANGED <<metaVars, flag, cached, tblVars, rdVars, wret, prev, wn, seen, stucked, wproc, detent, reused, deadVars>>

\* One slot of the pass.  A txnid below prev_oldest belongs to a reader that
\* has not finished starting; the pass ends early at prev_oldest.
ScanSlot ==
    /\ wpc = "slot"
    /\ \/ /\ wi > wn
          /\ wpc' = "scan" /\ UNCHANGED <<wi, oldest, seen>>
       \/ /\ wi <= wn /\ spid[wi] = NoProc
          /\ wi' = wi + 1 /\ UNCHANGED <<wpc, oldest, seen>>
       \/ /\ wi <= wn /\ spid[wi] # NoProc /\ stxn[wi] < prev
          /\ seen' = stxn[wi] /\ wpc' = "stuck" /\ UNCHANGED <<wi, oldest>>
       \/ /\ wi <= wn /\ spid[wi] # NoProc /\ stxn[wi] >= prev
          /\ oldest' = IF stxn[wi] < oldest THEN stxn[wi] ELSE oldest
          /\ wi' = wi + 1
          /\ wpc' = IF stxn[wi] < oldest /\ stxn[wi] = prev THEN "scan" ELSE "slot"
          /\ UNCHANGED seen
    /\ UNCHANGED <<metaVars, flag, cached, tblVars, rdVars, wret, prev, wn, stucked, wproc, detent, reused, deadVars>>

\* "kick stuck reader" unless the flag says the table changed meanwhile.
ScanStuck ==
    /\ wpc = "stuck"
    /\ \/ flag = "nothing" /\ wpc' = "stuckcas" /\ UNCHANGED <<wi, seen>>
       \/ flag = "changed" /\ wpc' = "slot" /\ wi' = wi + 1 /\ seen' = 0
    /\ UNCHANGED <<metaVars, flag, cached, tblVars, rdVars, wret, prev, oldest, wn, stucked, wproc, detent, reused, deadVars>>

\* safe64_reset_compare(&slot->txnid, v)
ResetCompare(s, v) == stxn' = IF stxn[s] = v THEN [stxn EXCEPT ![s] = Invalid] ELSE stxn

\* Mutant: the stuck slot is reset without comparing.
ScanStuckStore ==
    /\ WStep("stuckcas", "slot")
    /\ stxn' = [stxn EXCEPT ![wi] = Invalid] /\ wi' = wi + 1 /\ seen' = 0
    /\ UNCHANGED <<metaVars, flag, cached, rdtlen, spid, stid, rdVars, wret, prev, oldest, wn, stucked, wproc, detent, reused, deadVars>>

ScanStuckCas ==
    /\ WStep("stuckcas", "slot")
    /\ ResetCompare(wi, seen) /\ wi' = wi + 1 /\ seen' = 0
    /\ UNCHANGED <<metaVars, flag, cached, rdtlen, spid, stid, rdVars, wret, prev, oldest, wn, stucked, wproc, detent, reused, deadVars>>

\* cached_oldest_txnid takes the result.  txn_gc_detent stores it as the
\* limit for reclaiming; mvcc_kick_laggards leaves unless a reader still
\* holds the limit, and otherwise frees dead slots and looks for parked ones.
ScanStore ==
    /\ wpc = "store"
    /\ cached' = oldest
    /\ \/ /\ wret = "detent"
          /\ detent' = oldest /\ Return("open") /\ UNCHANGED <<spid, flag>>
       \/ wret = "sync" /\ detent' = oldest /\ Return("sync") /\ UNCHANGED <<spid, flag>>
       \/ wret = "rescan" /\ Return("open") /\ UNCHANGED <<detent, spid, flag>>
       \/ /\ wret = "kick" /\ (oldest = Prefer \/ oldest > detent)
          /\ Return("open") /\ UNCHANGED <<detent, spid, flag>>
       \/ /\ wret = "kick" /\ oldest # Prefer /\ oldest <= detent
          /\ spid' = Swept
          /\ flag' = IF Stale # {} THEN "changed" ELSE flag
          /\ wi' = 1 /\ wpc' = "oust" /\ UNCHANGED <<detent, wret, prev, oldest, wn, seen, stucked>>
    /\ UNCHANGED <<metaVars, rdtlen, stid, stxn, rdVars, wproc, reused, deadVars>>

\* The slot in the way does not hold the detent any more.
Moved ==
    /\ stucked # 0
    /\ stxn[stucked] # detent \/ stid[stucked] = "parked" \/ spid[stucked] = NoProc

\* Another round of mvcc_kick_laggards.
Rescan ==
    /\ wpc' = "scan" /\ flag' = "changed"
    /\ prev' = cached /\ oldest' = cached /\ stucked' = 0
    /\ UNCHANGED <<wret, wi, wn, seen>>

\* A slot of mvcc_kick_laggards' loop: does it hold the oldest snapshot?
\* After the last slot it gives up (no Handle-Slow-Readers callback is ever
\* set through the Go API), unless the reader in its way has moved on.
OustRead ==
    /\ wpc = "oust"
    /\ \/ wi > rdtlen /\ ~Moved /\ Return("open") /\ UNCHANGED flag
       \/ wi > rdtlen /\ Moved /\ Rescan
       \/ /\ wi <= rdtlen /\ stxn[wi] = oldest /\ spid[wi] # NoProc
          /\ wpc' = "oustcas" /\ UNCHANGED <<flag, scanVars>>
       \/ /\ wi <= rdtlen /\ (stxn[wi] # oldest \/ spid[wi] = NoProc)
          /\ wi' = wi + 1 /\ UNCHANGED <<wpc, flag, wret, prev, oldest, wn, seen, stucked>>
    /\ UNCHANGED <<metaVars, cached, tblVars, rdVars, wproc, detent, reused, deadVars>>

\* CAS(slot->tid, PARKED, OUSTED)
OustCas ==
    /\ wpc = "oustcas"
    /\ \/ /\ stid[wi] = "parked"
          /\ stid' = [stid EXCEPT ![wi] = "ousted"]
          /\ wpc' = "oustreset" /\ UNCHANGED <<wi, stucked>>
       \/ /\ stid[wi] # "parked"
          /\ stucked' = wi
          /\ wi' = wi + 1 /\ wpc' = "oust" /\ UNCHANGED stid
    /\ UNCHANGED <<metaVars, flag, cached, rdtlen, spid, stxn, rdVars, wret, prev, oldest, wn, seen, wproc, detent, reused, deadVars>>

OustReset ==
    /\ WStep("oustreset", "oust")
    /\ ResetCompare(wi, oldest) /\ wi' = wi + 1
    /\ UNCHANGED <<metaVars, flag, cached, rdtlen, spid, stid, rdVars, wret, prev, oldest, wn, seen, stucked, wproc, detent, reused, deadVars>>

\* Mutant: records above the detent are reclaimed as well.
ReclaimBeyond ==
    /\ wpc = "open" /\ detent # 0
    /\ reused' = detent + 1
    /\ UNCHANGED <<metaVars, flag, cached, tblVars, rdVars, scanVars, wpc, wproc, detent, deadVars>>

\* gc_alloc_ex takes the pages of GC records up to gc.detent; what it takes
\* may be overwritten at once.
Reclaim ==
    /\ wpc = "open" /\ reused < detent
    /\ reused' \in reused + 1 .. detent
    /\ UNCHANGED <<metaVars, flag, cached, tblVars, rdVars, scanVars, wpc, wproc, detent, deadVars>>

-----------------------------------------------------------------------------
(* The writer: commit, sync, end; crashes; the reader check                 *)

\* gc_alloc_ex stopped by the steady point makes the newest commit steady, or
\* in MDBX_UTTERLY_NOSYNC mode wipes the steady mark; both force a refresh.
MoveSteady ==
    /\ wpc = "open" /\ steady \notin {0, head} /\ detent = steady
    /\ steady' \in {0, head}
    /\ flag' = "changed"
    /\ UNCHANGED <<head, cached, tblVars, rdVars, scanVars, wrVars, deadVars>>

\* mdbx_env_sync called inside the write transaction.
SyncOwned ==
    /\ wpc = "open" /\ steady # head
    /\ steady' = head
    /\ flag' = "changed"
    /\ UNCHANGED <<head, cached, tblVars, rdVars, scanVars, wrVars, deadVars>>

\* Mutant: the steady point is dropped although the mode keeps it.
CommitUnsteady ==
    /\ WStep("open", "toggle")
    /\ head' = head + 1
    /\ steady' \in {1, head + 1}
    /\ UNCHANGED <<flag, cached, tblVars, rdVars, scanVars, wproc, detent, reused, deadVars>>

\* txn_basal_commit + dxb_sync_locked: a new head, steady or weak.
Commit ==
    /\ WStep("open", "toggle")
    /\ head' = head + 1
    /\ steady' \in {steady, head + 1}
    /\ detent' = 0
    /\ UNCHANGED <<flag, cached, tblVars, rdVars, scanVars, wproc, reused, deadVars>>

\* mdbx_env_sync makes a weak head steady.
EnvSync ==
    /\ WStep("sync", "toggle")
    /\ steady' = head
    /\ UNCHANGED <<head, flag, cached, tblVars, rdVars, scanVars, wproc, detent, reused, deadVars>>

\* dxb_sync_locked: "toggle oldest refresh", and the unlock.
Toggle ==
    /\ WStep("toggle", "idle")
    /\ flag' = "changed" /\ wproc' = NoProc
    /\ UNCHANGED <<metaVars, cached, tblVars, rdVars, scanVars, detent, reused, deadVars>>

\* Abort, or a commit without changes.
End ==
    /\ WStep("open", "idle")
    /\ wproc' = NoProc /\ detent' = 0
    /\ UNCHANGED <<metaVars, flag, cached, tblVars, rdVars, scanVars, reused, deadVars>>

\* Between the look at the flag and the store of cached_oldest_txnid.
Scanning == wpc \in {"scan", "slot", "stuck", "stuckcas", "store"}

\* The writer has yet to store what a scan found, or to raise the flag for
\* the meta it wrote.
Unsettled == Scanning \/ wpc = "toggle"

\* A process dies; its handles and locals go with it, its slots stay.
Crash(p) ==
    /\ p \in Crashable \ dead
    /\ dead' = dead \cup {p}
    /\ pc' = [r \in Readers |-> IF Proc[r] = p THEN "dead" ELSE pc[r]]
    /\ slot' = [r \in Readers |-> IF Proc[r] = p THEN 0 ELSE slot[r]]
    /\ IF wproc = p THEN Return("idle") /\ wproc' = NoProc ELSE UNCHANGED <<wpc, wproc, scanVars>>
    /\ died' = (died \/ wproc = p)
    /\ torn' = (torn \/ (wproc = p /\ Unsettled))
    /\ UNCHANGED <<metaVars, flag, cached, tblVars, snap, loop, detent, reused>>

\* Mutant: the slots of every other process are taken for dead ones.
ReaderCheckAll(p) ==
    /\ p \notin dead
    /\ spid' = [s \in Slots |-> IF spid[s] = p THEN p ELSE NoProc]
    /\ flag' = "changed"
    /\ UNCHANGED <<metaVars, cached, rdtlen, stid, stxn, rdVars, scanVars, wrVars, deadVars>>

\* mdbx_reader_check: mvcc_cleanup_dead on its own.
ReaderCheck(p) ==
    /\ p \notin dead /\ Stale # {}
    /\ spid' = Swept /\ flag' = "changed"
    /\ UNCHANGED <<metaVars, cached, rdtlen, stid, stxn, rdVars, scanVars, wrVars, deadVars>>

Reader(r) ==
    \/ BindSlot(r)
    \/ SeizeTap(r) \/ SeizeReset(r) \/ SeizeWrite(r) \/ SeizeFlag(r) \/ SeizeRetry(r) \/ SeizeFetch(r) \/ SeizeVerify(r)
    \/ Reset(r) \/ CleanFlag(r) \/ CleanTxnid(r) \/ CleanTid(r) \/ CleanCheck(r) \/ Release(r)
    \/ Park(r) \/ ParkFlag(r) \/ ResetParked(r)
    \/ UnparkRead(r) \/ UnparkCas(r) \/ UnparkCheck(r)

Writer ==
    \/ \E p \in Procs : Begin(p) \/ SyncBegin(p)
    \/ \E ret \in {"detent", "kick", "rescan"} : Scan(ret)
    \/ ScanPass \/ ScanSlot \/ ScanStuck \/ ScanStuckCas \/ ScanStore
    \/ OustRead \/ OustCas \/ OustReset
    \/ Reclaim \/ MoveSteady \/ SyncOwned \/ Commit \/ EnvSync \/ Toggle \/ End

Next ==
    \/ \E r \in Readers : Reader(r)
    \/ Writer
    \/ \E p \in Procs : Crash(p) \/ ReaderCheck(p)

Spec == Init /\ [][Next]_vars

\* A thread inside txn_ro_unpark or ro_slot_clean keeps running.
Resolving(r) ==
    UnparkRead(r) \/ UnparkCas(r) \/ UnparkCheck(r)
    \/ CleanTxnid(r) \/ CleanTid(r) \/ CleanCheck(r) \/ CleanFlag(r)

FairSpec ==
    /\ Spec
    /\ \A r \in Readers : WF_vars(pc[r] # "parked" /\ Resolving(r))

-----------------------------------------------------------------------------
(* Properties                                                               *)

PcStates == {"none", "finished", "reset", "write", "flag", "retry", "fetch", "verify", "active",
             "cleanflag", "clean", "cleantid", "cleancheck", "parkflag", "parked",
             "unpark", "unparkcas", "unparkcheck", "dead"}

TypeOK ==
    /\ head \in Txnids /\ steady \in Txnids
    /\ flag \in {"changed", "nothing"} /\ cached \in Txnids
    /\ rdtlen \in 0 .. MaxReaders
    /\ spid \in [Slots -> Procs \cup {NoProc}]
    /\ stid \in [Slots -> {"owner", "parked", "ousted"}]
    /\ stxn \in [Slots -> Txnids \cup {Invalid}]
    /\ pc \in [Readers -> PcStates]
    /\ slot \in [Readers -> 0 .. MaxReaders]
    /\ snap \in [Readers -> Txnids]
    /\ loop \in [Readers -> 0 .. MaxLoop]
    /\ wpc \in {"idle", "open", "scan", "slot", "stuck", "stuckcas", "store",
                "oust", "oustcas", "oustreset", "sync", "toggle"}
    /\ wproc \in Procs \cup {NoProc}
    /\ wret \in {"detent", "kick", "rescan", "sync"} /\ prev \in Txnids /\ oldest \in Txnids
    /\ wi \in 1 .. MaxReaders + 1 /\ wn \in 0 .. MaxReaders
    /\ seen \in Txnids \cup {Invalid} /\ stucked \in 0 .. MaxReaders
    /\ detent \in Txnids /\ reused \in Txnids
    /\ dead \subseteq Procs /\ died \in BOOLEAN /\ torn \in BOOLEAN

\* A reader that may read pages never has one of them reused under it: the
\* pages of GC record x are needed by every snapshot before x, so no record
\* above an active reader's snapshot has been reclaimed.
SnapshotIntact == \A r \in Readers : pc[r] = "active" => reused <= snap[r]

\* The ENSURE of ro_slot_clean and txn_ro_start, which would abort the
\* process: an active reader is not older than cached_oldest_txnid, and its
\* slot still says what it reads.
ActiveIsPublished ==
    \A r \in Readers : pc[r] = "active" =>
        /\ cached <= snap[r]
        /\ stxn[slot[r]] = snap[r]
        /\ spid[slot[r]] = Proc[r]
        /\ stid[slot[r]] = "owner"

\* The newest steady snapshot, the one a system crash falls back to, keeps
\* its pages whatever weak commits follow it.
SteadyIntact == steady # 0 => reused <= steady

\* A slot belongs to one handle.
SlotExclusive ==
    \A r1, r2 \in Readers : r1 # r2 /\ slot[r1] # 0 => slot[r1] # slot[r2]

\* cached_oldest_txnid never moves back (the assertion before it is stored
\* in mvcc_snapshot_oldest_rw).
OldestMonotone == [][cached' >= cached]_vars

\* txn_ro_unpark and the loop of ro_slot_clean end, however the writer's
\* oust interleaves with them: the reader has its snapshot again or is reset.
UnparkResolves ==
    \A r \in Readers :
        pc[r] \in {"unpark", "unparkcas", "unparkcheck", "clean", "cleantid", "cleancheck", "cleanflag"}
        ~> pc[r] \in {"active", "finished", "dead"}

\* Somebody is about to raise rdt_refresh_flag: a reader between its write to
\* the slot and its write to the flag, or one that is still to find out that
\* it was ousted.
FlagPending ==
    \/ \E r \in Readers : pc[r] \in {"reset", "write", "flag", "cleanflag", "clean", "cleantid", "cleancheck"}
    \/ \E s \in Slots : spid[s] # NoProc /\ stid[s] = "ousted"

\* What a pass over the table would find now.
OldestInUse ==
    LET used == {stxn[s] : s \in {s \in Slots : spid[s] # NoProc /\ stxn[s] >= cached}} \cup {Prefer}
    IN  CHOOSE t \in used : \A u \in used : t <= u

\* "Nothing changed" is the truth: outside a scan, with nobody about to
\* raise the flag and the slots of dead processes freed, cached_oldest_txnid
\* is what a new pass would compute, so no page stays unreclaimed because a
\* finished reader was overlooked.  A process may die before it raises the
\* flag; mvcc_cleanup_dead makes up for it.  Nothing makes up for a writer
\* that died between clearing the flag and storing what it found, or between
\* a commit and its flag, until somebody raises the flag and a pass begins.
CacheIsFresh ==
    /\ flag = "nothing" /\ wpc \in {"idle", "open"}
    /\ ~FlagPending /\ Stale = {} /\ ~torn
    => cached = OldestInUse
=============================================================================

-------------------------------- MODULE Meta --------------------------------
(***************************************************************************)
(* Durability of commits: how the writer moves data and meta pages to the  *)
(* disk (txn_basal_commit, dxb_sync_locked, env_sync, gc_alloc_ex) and     *)
(* what opening the file after a crash finds (dxb_setup).                  *)
(*                                                                         *)
(* A meta page exists twice: in the page cache (mem), where every process  *)
(* sees it, and on the disk.  The kernel may write a page back at any      *)
(* time.  fsync and msync write back what they cover; a write through the  *)
(* O_DSYNC descriptor reaches both.  When a process dies the cache stays;  *)
(* when the system goes down the disk is what is left.                     *)
(*                                                                         *)
(* Data pages are represented by ghosts.  Each write transaction has a     *)
(* number of its own (gen), since a rolled back txnid is used again:       *)
(* `owner` tells which of them wrote the pages of a txnid, `cached` whose  *)
(* pages may be in the cache only, `lost` whose pages a system crash took. *)
(* GC record x holds the pages transaction x retired, which every snapshot *)
(* before x needs; `reused` is the newest record whose pages may have been *)
(* overwritten on disk.  Both err on the bad side: the kernel may have     *)
(* saved more, and a transaction may have reused less.                     *)
(*                                                                         *)
(* There are no readers here, so that reclaiming is held back by the last  *)
(* steady meta only.  One process has the database open at a time, or      *)
(* several in the same mode take turns as writer.                          *)
(***************************************************************************)
EXTENDS Troika, FiniteSets

CONSTANTS
    MaxTxn,    \* bound on txnids
    Plans      \* what may happen in a behaviour, records with names:
               \*   flags: the flags an environment may have, a set of sets
               \*   txns: for each of them those transactions may be started with
               \*   top: bound on txnids, gens: on write transactions started
               \*   boots: bound on system crashes
               \*   kills: flags of environments whose processes may be killed
               \*   io: may fsync and writing a meta page fail?

ASSUME MetaAssumption ==
    /\ MaxTxn \in Nat /\ MaxTxn >= 3
    /\ \A name \in DOMAIN Plans : LET p == Plans[name] IN
          /\ p.flags \subseteq
                SUBSET {"WRITEMAP", "NOMETASYNC", "SAFE_NOSYNC", "UTTERLY"}
          /\ p.txns \in [p.flags -> SUBSET SUBSET {"NOMETASYNC", "SAFE_NOSYNC"}]
          /\ p.kills \subseteq p.flags /\ p.io \in BOOLEAN
          /\ p.top \in 3 .. MaxTxn /\ p.gens \in Nat /\ p.boots \in Nat

VARIABLES
    plan,       \* the name of this behaviour's plan, chosen once
    mem, disk,  \* the three meta pages in the page cache and on the disk
    boot,       \* the boot id: how often the system was started
    env,        \* flags, and which descriptors are O_DSYNC
    lck,        \* unsynced_pages and meta_sync_txnid of the lck file
    pc,         \* what the holder of the write lock does next
    txn,        \* the write transaction: flags, need_flush_for_nometasync
    call,       \* arguments and locals of dxb_sync_locked
    gen, owner, cached, lost, reused,  \* ghosts for the data pages
    promised    \* ghost: newest txnid a caller was told is durable

Plan == Plans[plan]

ghosts == <<gen, owner, cached, lost, reused, promised>>
vars == <<plan, mem, disk, boot, env, lck, pc, txn, call, ghosts>>

MaxOf(x, y) == IF x > y THEN x ELSE y

\* MDBX_WRITEMAP: pages are changed in the shared mapping.
WriteMap == "WRITEMAP" \in env.flags

\* No flag weakens durability.
Full(flags) == flags \subseteq {"WRITEMAP"}

Tap == [i \in Metas |-> meta_snap(mem[i])]
Recent == recent(Tap)
Prefer == prefer_steady(Tap)
Head == Tap[Recent]

\* What gc_alloc_ex may reclaim without readers (env->gc.detent).
Detent == Tap[Prefer].txnid

\* lck->unsynced_pages counts to "more than one" only.
Unsynced == 0 .. 2
Plus(n) == IF lck.unsynced + n > 2 THEN 2 ELSE lck.unsynced + n

\* meta_sync_txnid holds a txnid, or a txnid less a distance that says it
\* was written lazily, through the descriptor or through the mapping.
Lazily == IF WriteMap THEN "map" ELSE "fd"
Synced(x) == [txnid |-> x, lazy |-> "no"]

NoCall == [flags |-> {}, txnid |-> 0, steady |-> FALSE, gen |-> 0,
           target |-> 0, back |-> "idle", then |-> "idle"]
NoTxn == [flags |-> {}, need |-> FALSE]

Init ==
    /\ plan \in DOMAIN Plans
    /\ mem = [i \in Metas |-> [a |-> i + 1, b |-> i + 1, steady |-> TRUE,
                               boot |-> 0, gen |-> 0]]
    /\ disk = mem
    /\ boot = 0
    /\ env = [flags |-> {}, dsync |-> FALSE, metadsync |-> FALSE]
    /\ lck = [unsynced |-> 0, msync |-> Synced(0)]
    /\ pc = "down"
    /\ txn = NoTxn
    /\ call = NoCall
    /\ gen = 0
    /\ owner = [x \in 1 .. MaxTxn |-> 0]
    /\ cached = {} /\ lost = {} /\ reused = 0 /\ promised = 0

-----------------------------------------------------------------------------
(* Moving pages to the disk. *)

\* fsync of the file, or msync of all of it.
FlushAll == disk' = mem /\ cached' = {}

\* dxb_msync(NUM_METAS) covers the meta pages only; without WRITEMAP there
\* is only fsync.
FlushMetas == disk' = mem /\ cached' = IF WriteMap THEN cached ELSE {}

\* The pages of the running transaction are written, over those it took from
\* the GC; through O_DSYNC they are on the disk at once.
WriteData(durably) ==
    /\ owner' = [owner EXCEPT ![Head.txnid + 1] = gen]
    /\ reused' = MaxOf(reused, Detent)
    /\ cached' = IF durably THEN cached ELSE cached \cup {gen}

\* The kernel writes a meta page back.
Writeback(i) ==
    /\ disk[i] # mem[i]
    /\ disk' = [disk EXCEPT ![i] = mem[i]]
    /\ UNCHANGED <<plan, mem, boot, env, lck, pc, txn, call, ghosts>>

-----------------------------------------------------------------------------
(* Opening: the first process to open the file holds the lck file          *)
(* exclusively.                                                            *)

Matches(m) == m.boot = boot

\* dxb_read_header: the page to take the geometry from, and whether any page
\* is fit to be opened at all.
Latch(d, m) ==
    LET s == meta_snap(m)
        better == IF Matches(m) THEN meta_choice_recent(s, d.snap)
                                ELSE meta_choice_steady(s, d.snap)
    IN  IF m.a = m.b /\ better THEN [snap |-> s, ok |-> s.steady \/ Matches(m)]
                               ELSE d

Header ==
    LET none == [snap |-> [txnid |-> 0, steady |-> FALSE], ok |-> FALSE]
    IN  Latch(Latch(Latch(none, mem[0]), mem[1]), mem[2])

\* lck_setup clears the lck file, env_open chooses the descriptors.
Open(flags) ==
    /\ pc = "down"
    /\ pc' = IF Header.ok THEN "open" ELSE "corrupt"
    /\ env' = [flags |-> flags,
               dsync |-> "SAFE_NOSYNC" \notin flags,
               metadsync |-> Full(flags)]
    /\ lck' = [unsynced |-> 0, msync |-> Synced(0)]
    /\ UNCHANGED <<plan, mem, disk, boot, txn, call, ghosts>>

\* Mistake: a weak head is rolled back whatever boot it was written in.
RollbackAlways == ~Head.steady

\* The head is weak and was written before the last boot.
Rollback == ~Head.steady /\ ~Matches(mem[Recent])

\* Mistake: the steady meta is copied over the weak head.
OpenPurgeCopies ==
    /\ pc = "open" /\ ~Clashed(Tap) /\ Rollback /\ Tap[Prefer].steady
    /\ mem' = [mem EXCEPT ![Recent] = mem[Prefer]]
    /\ disk' = mem'
    /\ UNCHANGED <<plan, boot, env, lck, pc, txn, call, ghosts>>

\* Such a head is rolled back to the last steady meta: meta_override writes
\* an empty page over it and the loop looks again.
OpenPurge ==
    /\ pc = "open" /\ ~Clashed(Tap) /\ Rollback /\ Tap[Prefer].steady
    /\ LET empty == [a |-> 0, b |-> 0, steady |-> TRUE, boot |-> boot,
                     gen |-> 0]
       IN  /\ mem' = [mem EXCEPT ![Recent] = empty]
           /\ IF env.metadsync /\ ~WriteMap
              THEN disk' = [disk EXCEPT ![Recent] = empty] /\ UNCHANGED cached
              ELSE disk' = mem' /\ cached' = {}
    /\ UNCHANGED <<plan, boot, env, lck, pc, txn, call, gen, owner, lost, reused,
                   promised>>

\* Any other head is taken: it is steady, or it is weak but nothing of it was
\* lost and all of it still has to be synced.  A clash of metas, or nothing to
\* roll back to, is an error.
OpenDone ==
    /\ pc = "open"
    /\ IF Clashed(Tap) \/ Rollback
       THEN /\ Clashed(Tap) \/ ~Tap[Prefer].steady
            /\ pc' = "corrupt"
            /\ UNCHANGED lck
       ELSE /\ pc' = "idle"
            /\ lck' = [unsynced |-> IF Head.steady THEN 0 ELSE 2,
                       msync    |-> Synced(recent_committed_txnid(Tap))]
    /\ UNCHANGED <<plan, mem, disk, boot, env, txn, call, ghosts>>

-----------------------------------------------------------------------------
(* The write transaction. *)

Begin(flags) ==
    /\ pc = "idle" /\ flags \in Plan.txns[env.flags]
    /\ gen < Plan.gens /\ Head.txnid < Plan.top
    /\ pc' = "txn"
    /\ gen' = gen + 1
    /\ txn' = [flags |-> flags, need |-> FALSE]
    /\ UNCHANGED <<plan, mem, disk, boot, env, lck, call, owner, cached, lost,
                   reused, promised>>

\* Dirty pages leave the transaction before its commit: in the mapping they
\* change in place, without it they are spilled through the lazy descriptor.
Spill ==
    /\ pc = "txn"
    /\ WriteData(FALSE)
    /\ \E n \in IF WriteMap THEN 0 .. 2 ELSE 1 .. 2 :
           lck' = [lck EXCEPT !.unsynced = Plus(n)]
    /\ UNCHANGED <<plan, mem, disk, boot, env, pc, txn, call, gen, lost, promised>>

\* The transaction is given up, by its owner or because writing its pages
\* fails.
Abort ==
    /\ pc = "txn" \/ (Plan.io /\ pc = "write")
    /\ pc' = "idle"
    /\ txn' = NoTxn
    /\ UNCHANGED <<plan, mem, disk, boot, env, lck, call, ghosts>>

\* gc_alloc_ex finds that the last steady meta stops it and makes the head
\* steady.
MakeSteady ==
    /\ pc = "txn"
    /\ Recent # Prefer /\ Tap[Prefer].steady
    /\ pc' = "sync"
    /\ call' = [flags |-> env.flags \cap {"WRITEMAP", "NOMETASYNC"},
                txnid |-> Head.txnid, steady |-> Head.steady,
                gen |-> mem[Recent].gen, target |-> 0, back |-> "txn",
                then |-> "txn"]
    /\ UNCHANGED <<plan, mem, disk, boot, env, lck, txn, ghosts>>

\* With MDBX_UTTERLY_NOSYNC it takes the sign from the steady metas instead
\* (meta_wipe_steady).
WipeSteady ==
    /\ pc = "txn"
    /\ "UTTERLY" \in env.flags
    /\ Recent # Prefer /\ Tap[Prefer].steady
    /\ LET wiped == {i \in Metas : Tap[i].steady /\ Tap[i].txnid <= Detent}
       IN  /\ mem' = [i \in Metas |-> IF i \in wiped
                        THEN [mem[i] EXCEPT !.steady = FALSE] ELSE mem[i]]
           /\ IF env.metadsync /\ ~WriteMap
              THEN /\ disk' = [i \in Metas |-> IF i \in wiped THEN mem'[i]
                                                              ELSE disk[i]]
                   /\ UNCHANGED cached
              ELSE /\ disk' = mem'
                   /\ cached' = IF WriteMap THEN cached ELSE {}
    /\ UNCHANGED <<plan, boot, env, lck, pc, txn, call, gen, owner, lost, reused,
                   promised>>

\* txn_basal_commit first sees to the meta of the previous transaction: if
\* that was written lazily the fsync of this one's data will cover it,
\* otherwise it is synced now.
Presync ==
    /\ pc = "txn"
    /\ IF ~Head.steady \/ lck.msync = Synced(Head.txnid)
       THEN pc' = "write" /\ UNCHANGED <<disk, cached, lck, txn>>
       ELSE IF lck.msync = [txnid |-> Head.txnid, lazy |-> Lazily]
       THEN /\ pc' = "write"
            /\ txn' = [txn EXCEPT !.need = TRUE]
            /\ UNCHANGED <<disk, cached, lck>>
       ELSE \/ /\ FlushMetas
               /\ lck' = [lck EXCEPT !.msync = Synced(Head.txnid)]
               /\ pc' = "write"
               /\ UNCHANGED txn
            \/ /\ Plan.io
               /\ pc' = "idle" /\ txn' = NoTxn
               /\ UNCHANGED <<disk, cached, lck>>
    /\ UNCHANGED <<plan, mem, boot, env, call, gen, owner, lost, reused, promised>>

\* A transaction that changed nothing writes nothing.
PureCommit ==
    /\ pc = "write"
    /\ ~txn.need /\ ~Head.steady /\ txn.flags = {}
    /\ pc' = "idle"
    /\ txn' = NoTxn
    /\ UNCHANGED <<plan, mem, disk, boot, env, lck, call, ghosts>>

\* The dirty pages are written: few of them through O_DSYNC when nothing is
\* left unsynced, else lazily; in the mapping they are there already.
CommitWrite ==
    /\ pc = "write"
    /\ \/ /\ ~WriteMap /\ env.dsync /\ ~txn.need /\ lck.unsynced = 0
          /\ WriteData(TRUE)
          /\ UNCHANGED lck
       \/ /\ WriteData(FALSE)
          /\ \E n \in 1 .. 2 : lck' = [lck EXCEPT !.unsynced = Plus(n)]
    /\ pc' = "sync"
    /\ call' = [flags |-> env.flags \cup txn.flags,
                txnid |-> Head.txnid + 1, steady |-> FALSE, gen |-> gen,
                target |-> 0, back |-> "idle", then |-> "idle"]
    /\ UNCHANGED <<plan, mem, disk, boot, env, txn, gen, lost, promised>>

-----------------------------------------------------------------------------
(* dxb_sync_locked. *)

\* The call is over: a commit unlocks, a sync made for gc_alloc_ex goes on
\* with the transaction, env_sync goes on with meta_sync.
Return(flags) ==
    /\ pc' = call.back
    /\ call' = IF call.back = "metasync" THEN call ELSE NoCall
    /\ txn' = IF call.back = "idle" THEN NoTxn ELSE txn
    /\ promised' = IF call.back = "idle" /\ Full(flags)
                   THEN call.txnid ELSE promised

\* Auto-sync thresholds turn an unsynced commit into a full one.
Effective(force) ==
    IF force THEN call.flags \cap {"WRITEMAP"} ELSE call.flags

\* Mistake: a weak meta overwrites the last steady one.
SyncDataOverSteady(force) ==
    /\ pc = "sync" /\ ~force
    /\ IF Head.txnid = call.txnid
       THEN Return(call.flags)
       ELSE /\ pc' = "meta"
            /\ call' = [call EXCEPT !.target = Prefer]
            /\ UNCHANGED <<txn, promised>>
    /\ UNCHANGED <<plan, mem, disk, boot, env, lck, gen, owner, cached, lost, reused>>

\* Step #1: sync the data written so far, which decides the sign, and choose
\* the page to write.
SyncData(force) ==
    /\ pc = "sync"
    /\ force => "SAFE_NOSYNC" \in call.flags /\ lck.unsynced > 0
    /\ LET flags == Effective(force)
           skip  == lck.unsynced = 1 /\ "NOMETASYNC" \in flags
           weak  == lck.unsynced > 0 /\ "SAFE_NOSYNC" \in flags
           flush == lck.unsynced > 0 /\ ~skip /\ ~weak
           steady == IF skip THEN call.steady ELSE ~weak
           again  == Head.txnid = call.txnid
       IN  /\ IF flush THEN FlushAll ELSE UNCHANGED <<disk, cached>>
           /\ lck' = IF skip \/ weak THEN lck
                     ELSE [lck EXCEPT !.unsynced = 0]
           /\ IF again /\ (Head.steady \/ ~steady)
              THEN Return(flags)
              ELSE /\ pc' = "meta"
                   /\ call' = [call EXCEPT !.flags = flags,
                                           !.steady = steady,
                                           !.target = IF again THEN Recent
                                                               ELSE tail(Tap)]
                   /\ UNCHANGED <<txn, promised>>
    /\ UNCHANGED <<plan, mem, boot, env, gen, owner, lost, reused>>

\* fsync fails: the environment is of no use any more (ENV_FATAL_ERROR).
SyncDataFails ==
    /\ Plan.io
    /\ pc = "sync" /\ lck.unsynced > 0 /\ "SAFE_NOSYNC" \notin call.flags
    /\ pc' = "fatal"
    /\ UNCHANGED <<plan, mem, disk, boot, env, lck, txn, call, ghosts>>

NewMeta == [a |-> call.txnid, b |-> call.txnid, steady |-> call.steady,
            boot |-> boot, gen |-> call.gen]

\* Step #2 without WRITEMAP: one pwrite.
PwriteMeta ==
    /\ pc = "meta" /\ ~WriteMap
    /\ mem' = [mem EXCEPT ![call.target] = NewMeta]
    /\ disk' = IF env.metadsync
               THEN [disk EXCEPT ![call.target] = NewMeta] ELSE disk
    /\ pc' = "msync"
    /\ UNCHANGED <<plan, boot, env, lck, txn, call, ghosts>>

\* Mistake: the head itself is made invalid.
InvalidateHead ==
    /\ pc = "meta" /\ WriteMap
    /\ pc' = "publish"
    /\ mem' = [mem EXCEPT ![Recent] = [@ EXCEPT !.a = call.txnid, !.b = 0,
                                               !.steady = FALSE]]
    /\ call' = [call EXCEPT !.target = Recent]
    /\ UNCHANGED <<plan, disk, boot, env, lck, txn, ghosts>>

\* With WRITEMAP the page is first made invalid, then filled, then made
\* valid as a weak one, and at last signed.  A weak head that becomes steady
\* is only signed.
InvalidateMeta ==
    /\ pc = "meta" /\ WriteMap
    /\ IF call.target = Recent
       THEN pc' = "sign" /\ UNCHANGED mem
       ELSE /\ pc' = "publish"
            /\ mem' = [mem EXCEPT ![call.target] =
                         [@ EXCEPT !.a = call.txnid, !.b = 0,
                                   !.steady = FALSE, !.gen = call.gen]]
    /\ UNCHANGED <<plan, disk, boot, env, lck, txn, call, ghosts>>

\* Mistake: the page is made valid with the sign of a steady meta.
PublishMetaSigned ==
    /\ pc = "publish"
    /\ mem' = [mem EXCEPT ![call.target] = [NewMeta EXCEPT !.steady = TRUE]]
    /\ pc' = "msync"
    /\ UNCHANGED <<plan, disk, boot, env, lck, txn, call, ghosts>>

PublishMeta ==
    /\ pc = "publish"
    /\ mem' = [mem EXCEPT ![call.target] = [NewMeta EXCEPT !.steady = FALSE]]
    /\ pc' = "sign"
    /\ UNCHANGED <<plan, disk, boot, env, lck, txn, call, ghosts>>

SignMeta ==
    /\ pc = "sign"
    /\ mem' = [mem EXCEPT ![call.target].steady = call.steady]
    /\ pc' = "msync"
    /\ UNCHANGED <<plan, disk, boot, env, lck, txn, call, ghosts>>

\* Mistake: the meta is never synced.
SyncMetaNever ==
    /\ pc = "msync"
    /\ lck' = [lck EXCEPT !.msync = Synced(call.txnid)]
    /\ Return(call.flags)
    /\ UNCHANGED <<plan, mem, disk, boot, env, gen, owner, cached, lost, reused>>

\* The meta is synced unless MDBX_NOMETASYNC leaves it to a later fsync; then
\* it counts as an unsynced page, and meta_sync_txnid says how it was
\* written.
SyncMeta ==
    /\ pc = "msync"
    /\ LET nometa == "NOMETASYNC" \in call.flags
       IN  /\ IF nometa \/ (env.metadsync /\ ~WriteMap)
              THEN UNCHANGED <<disk, cached>>
              ELSE FlushMetas
           /\ lck' = [unsynced |-> IF nometa /\ ~WriteMap /\ ~env.metadsync
                                   THEN Plus(1) ELSE lck.unsynced,
                      msync    |-> [txnid |-> call.txnid,
                                    lazy  |-> IF nometa THEN Lazily ELSE "no"]]
    /\ Return(call.flags)
    /\ UNCHANGED <<plan, mem, boot, env, gen, owner, lost, reused>>

\* Writing or syncing the meta fails.  After pwrite the old page is written
\* back, which may not reach the disk either; the mapping is left as it is.
WriteMetaFails ==
    /\ Plan.io
    /\ \/ /\ pc = "meta" /\ ~WriteMap
          /\ \E page \in {disk[call.target], NewMeta} :
                 disk' = [disk EXCEPT ![call.target] = page]
       \/ /\ pc = "msync" /\ WriteMap /\ "NOMETASYNC" \notin call.flags
          /\ UNCHANGED disk
    /\ pc' = "fatal"
    /\ UNCHANGED <<plan, mem, boot, env, lck, txn, call, ghosts>>

-----------------------------------------------------------------------------
(* env_sync, closing, flags. *)

\* The head is made steady if it is weak, and synced if anything is unsynced.
SyncHead(flags, then) ==
    IF lck.unsynced = 0 /\ lck.msync = Synced(Head.txnid) /\ Head.steady
    THEN /\ pc' = then
         /\ promised' = IF Full(flags) THEN Head.txnid ELSE promised
         /\ UNCHANGED call
    ELSE /\ pc' = IF ~Head.steady
                     \/ ("SAFE_NOSYNC" \notin flags /\ lck.unsynced > 0)
                  THEN "sync" ELSE "metasync"
         /\ call' = [flags |-> flags, txnid |-> Head.txnid,
                     steady |-> Head.steady, gen |-> mem[Recent].gen,
                     target |-> 0, back |-> "metasync", then |-> then]
         /\ UNCHANGED promised

\* env_sync, with the lock taken for it or in the owner's transaction.  The
\* pre-sync it may do before it has the lock is left to the kernel: it changes
\* nothing but what is on the disk.
EnvSync(force) ==
    /\ pc \in {"idle", "txn"}
    /\ SyncHead(IF force THEN env.flags \cap {"WRITEMAP"}
                         ELSE env.flags \ {"NOMETASYNC"}, pc)
    /\ UNCHANGED <<plan, mem, disk, boot, env, lck, txn, gen, owner, cached, lost,
                   reused>>

\* mdbx_env_close_ex syncs, unless the environment has failed.
Close ==
    /\ \/ pc = "idle" /\ SyncHead(env.flags \cap {"WRITEMAP"}, "down")
       \/ pc = "fatal" /\ pc' = "down" /\ UNCHANGED <<call, promised>>
    /\ UNCHANGED <<plan, mem, disk, boot, env, lck, txn, gen, owner, cached, lost,
                   reused>>

\* The end of env_sync: meta_sync, if the head's meta is not known to be
\* synced.
MetaSync ==
    /\ pc = "metasync"
    /\ pc' = call.then
    /\ call' = NoCall
    /\ \/ /\ IF lck.msync = Synced(Head.txnid)
             THEN UNCHANGED <<disk, cached, lck>>
             ELSE /\ FlushMetas
                  /\ lck' = [lck EXCEPT !.msync = Synced(Head.txnid)]
          /\ promised' = IF Full(call.flags) THEN Head.txnid ELSE promised
       \/ /\ Plan.io /\ lck.msync # Synced(Head.txnid)
          /\ UNCHANGED <<disk, cached, lck, promised>>
    /\ UNCHANGED <<plan, mem, boot, env, txn, gen, owner, lost, reused>>

\* combine_durability_flags
Combine(a, b) ==
    IF "SAFE_NOSYNC" \in a \cup b THEN a \cup b \cup {"NOMETASYNC"}
                                 ELSE a \cup b

\* mdbx_env_set_flags changes the flags and not the descriptors.
SetFlags(f, onoff) ==
    /\ pc \in {"idle", "txn"}
    /\ env' = [env EXCEPT !.flags = IF onoff THEN Combine(@, f) ELSE @ \ f]
    /\ env' # env /\ env'.flags \in Plan.flags
    /\ UNCHANGED <<plan, mem, disk, boot, lck, pc, txn, call, ghosts>>

-----------------------------------------------------------------------------
(* Crashes. *)

Active == pc \notin {"down", "corrupt"}

\* The only process with the database open is killed: the page cache stays.
Kill ==
    /\ env.flags \in Plan.kills /\ Active
    /\ pc' = "down"
    /\ txn' = NoTxn /\ call' = NoCall
    /\ UNCHANGED <<plan, mem, disk, boot, env, lck, ghosts>>

\* The writer is killed while another process has the database open: the
\* lck file stays, too, and the next writer finds it as it is.
OwnerDies ==
    /\ env.flags \in Plan.kills /\ pc \notin {"down", "corrupt", "open", "idle"}
    /\ pc' = "idle"
    /\ txn' = NoTxn /\ call' = NoCall
    /\ UNCHANGED <<plan, mem, disk, boot, env, lck, ghosts>>

SystemCrash ==
    /\ boot < Plan.boots /\ pc # "corrupt"
    /\ boot' = boot + 1
    /\ mem' = disk
    /\ lost' = lost \cup cached
    /\ cached' = {}
    /\ pc' = "down"
    /\ txn' = NoTxn /\ call' = NoCall
    /\ UNCHANGED <<plan, disk, env, lck, gen, owner, reused, promised>>

Next ==
    \/ \E i \in Metas : Writeback(i)
    \/ \E flags \in Plan.flags : Open(flags)
    \/ OpenDone \/ OpenPurge
    \/ \E flags \in SUBSET {"NOMETASYNC", "SAFE_NOSYNC"} : Begin(flags)
    \/ Spill \/ Abort \/ MakeSteady \/ WipeSteady
    \/ Presync \/ PureCommit \/ CommitWrite
    \/ \E force \in BOOLEAN : SyncData(force) \/ EnvSync(force)
    \/ SyncDataFails \/ PwriteMeta \/ InvalidateMeta \/ PublishMeta
    \/ SignMeta \/ SyncMeta \/ WriteMetaFails
    \/ Close \/ MetaSync
    \/ \E f \in {{"NOMETASYNC"}, {"SAFE_NOSYNC"}, {"SAFE_NOSYNC", "UTTERLY"}},
          onoff \in BOOLEAN : SetFlags(f, onoff)
    \/ Kill \/ OwnerDies \/ SystemCrash

Spec == Init /\ [][Next]_vars

-----------------------------------------------------------------------------
(* Properties. *)

Txnids == 0 .. MaxTxn
Gens == 0 .. Plan.gens
Boots == 0 .. Plan.boots
Pages == [a : Txnids, b : Txnids, steady : BOOLEAN, boot : Boots, gen : Gens]

\* Every variable has its type.
TypeOK ==
    /\ mem \in [Metas -> Pages] /\ disk \in [Metas -> Pages]
    /\ boot \in Boots
    /\ env.dsync \in BOOLEAN /\ env.metadsync \in BOOLEAN
    /\ lck.unsynced \in Unsynced /\ lck.msync.txnid \in Txnids
    /\ lck.msync.lazy \in {"no", "fd", "map"}
    /\ pc \in {"down", "open", "corrupt", "fatal", "idle", "txn", "write",
               "sync", "meta", "publish", "sign", "msync", "metasync"}
    /\ call.target \in Metas /\ call.txnid \in Txnids /\ call.gen \in Gens
    /\ gen \in Gens /\ owner \in [1 .. MaxTxn -> Gens]
    /\ cached \subseteq Gens /\ lost \subseteq Gens
    /\ reused \in Txnids /\ promised \in Txnids

\* The pages that the snapshot of meta m consists of are all there: none was
\* lost in a crash, none was overwritten by a transaction that m does not
\* descend from, and none was reused as free.
Intact(m) ==
    /\ reused <= m.a
    /\ owner[m.a] = m.gen
    /\ \A x \in 1 .. m.a : owner[x] \notin lost /\ owner[x] <= m.gen

\* Whatever crashed before, a database that is open has a head whose snapshot
\* is intact (dxb_setup never settles on a meta whose pages are damaged).
HeadIntact == Active /\ pc # "open" => Intact(mem[Recent])

\* A commit that was made or synced with full durability survives every
\* crash: after recovery the head is not older.
DurableSurvives == Active /\ pc # "open" => promised <= Head.txnid

\* As long as the system stays up, no step makes the head older: not killing a
\* writer halfway through a commit, not a failed write, not opening again
\* (dxb_setup recognises the boot id of a weak head).
HeadMonotone == [][boot' = 0 => Head.txnid <= Head'.txnid]_mem

\* The file can always be opened: dxb_setup finds no clash of meta pages and a
\* meta to go back to.
AlwaysOpens == pc # "corrupt"

\* Two meta pages never claim to be the same commit, in the cache or on the
\* disk (a clash makes dxb_setup give up).
NoClash ==
    ~Clashed(Tap) /\ ~Clashed([i \in Metas |-> meta_snap(disk[i])])

\* The newest steady meta on the disk, which a system crash falls back to, is
\* never replaced by an older one, unless writing it fails.
SteadyOnDisk ==
    LET d == [i \in Metas |-> meta_snap(disk[i])]
    IN  IF d[prefer_steady(d)].steady THEN d[prefer_steady(d)].txnid ELSE 0
FallbackMonotone == [][~Plan.io => SteadyOnDisk' >= SteadyOnDisk]_disk
=============================================================================

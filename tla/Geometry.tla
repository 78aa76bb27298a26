------------------------------ MODULE Geometry ------------------------------
(***************************************************************************)
(* The size of the data file and of its mappings.  Each snapshot names the *)
(* size the file had (geometry.now), its bounds and the first page never   *)
(* allocated.  The writer extends the file before it uses new pages and    *)
(* cuts it after the commit that no longer needs them; a process keeps its *)
(* own idea of the file and of its mapping and brings it up to date when a *)
(* transaction begins; mdbx_env_set_geometry resizes at once and records   *)
(* the new geometry afterwards; the first opener cuts or extends the file. *)
(*                                                                         *)
(* Sizes are in database pages, OsUnit of them in a page of the system.    *)
(* A process has one reading thread; its other thread may write.  What the *)
(* pages hold is left out: a snapshot needs every page below its first     *)
(* unallocated one, which is what meta_validate and mvcc_snapshot_largest  *)
(* ask for.  remap_lock makes one resize of a mapping atomic.              *)
(***************************************************************************)
EXTENDS Integers, FiniteSets

CONSTANTS
    Procs,          \* processes
    OsUnit,         \* database pages per page of the system
    MinFirst,       \* the least number of allocated pages
    Gap,            \* stockpile_gap for the height of the GC tree
    Madv,           \* env->madv_threshold
    Plans           \* what happens: see PlanType

AskedGeo == [lower : Nat, now : Nat, upper : Nat, grow : Nat, shrink : Nat]
PlanType == [init : Nat \X Nat,         \* first_unallocated and now at the start
             geo : [lower : Nat, upper : Nat, grow : Nat, shrink : Nat],
             asked : SUBSET AskedGeo,   \* geometries set while the environment is open
             given : SUBSET AskedGeo,   \* geometries set before it is opened
             steps : SUBSET Nat,        \* how many pages are allocated or refunded at once
             txns : Nat,                \* bound on transaction ids
             alone : BOOLEAN,           \* only one process opens the file at a time
             inside : BOOLEAN,          \* mdbx_env_set_geometry within a write transaction
             below : BOOLEAN,           \* a transaction may refund below the first page of the head
             weak : BOOLEAN,            \* commits that do not sync
             kill : BOOLEAN, power : BOOLEAN,
             busy : BOOLEAN]            \* addresses after a mapping may be taken

ASSUME GeometryAssumption ==
    /\ IsFiniteSet(Procs)
    /\ OsUnit \in Nat \ {0} /\ MinFirst \in Nat \ {0} /\ Gap \in Nat /\ Madv \in Nat
    /\ Plans \subseteq PlanType

VARIABLES
    plan,       \* the chosen plan
    file,       \* size of the data file
    durable,    \* its size when data was last synced
    head,       \* the most recent meta page
    steady,     \* the most recent steady meta page
    boot,       \* the system has not restarted since the head was written
    map,        \* env->dxb_mmap of each process: limit 0 while not open
    slot,       \* snapshot_pages_used of each reader with a valid txnid, else 0
    reader,     \* the reading thread of each process
    w,          \* what the owner of the write lock does
    discarded   \* lck->discarded_tail

vars == <<plan, file, durable, head, steady, boot, map, slot, reader, w, discarded>>

larger(a, b) == IF a > b THEN a ELSE b
smaller(a, b) == IF a < b THEN a ELSE b
pgno_ceil2os(n) == ((n + OsUnit - 1) \div OsUnit) * OsUnit
\* The next multiple of the step after n.
NextStep(n, step) == (n \div step + 1) * step

Closed == [current |-> 0, limit |-> 0, filesize |-> 0]
Mapped(p) == map[p].limit > 0
\* w.by says on whose behalf the lock is held: a transaction, mdbx_env_sync,
\* mdbx_env_set_geometry within (inside) or outside a transaction, or the
\* first opener, whose process has no transactions before it is done.
Opening(p) == w.pc # "idle" /\ w.proc = p /\ w.by = "open"
IsOpen(p) == Mapped(p) /\ ~Opening(p)
NoReader == [pc |-> "idle"]
Idle == [pc |-> "idle"]
\* The lock is held with the meta page m in the making; cut tells that the
\* file follows it, old is what a failing resize goes back to.
Held(pc, by, p, m) == [pc |-> pc, by |-> by, proc |-> p, cut |-> FALSE, meta |-> m, old |-> m]

-----------------------------------------------------------------------------
(* Resizing a mapping and the file                                         *)

\* dxb_resize followed by osal_mresize on the mapping m of a file of size f.
\* grow extends only, shrink and explicit also cut.  An explicit resize takes
\* the limit it is given, the others keep the old one while the size fits.
\* stuck: the addresses after the mapping are taken and it cannot be moved.
Limit(m, size, limit, mode) ==
    pgno_ceil2os(IF mode # "explicit" /\ size <= m.limit THEN m.limit ELSE limit)

Current(m, size, limit, mode) ==
    Limit(m, size, limit, mode) = m.limit /\ pgno_ceil2os(size) = m.current
    /\ pgno_ceil2os(size) = m.filesize

Sized(size, f, mode) == IF size > f \/ mode # "grow" THEN size ELSE f

Remapped(m, size, limit, stuck) ==
    [current |-> IF stuck THEN smaller(size, m.limit) ELSE size,
     limit |-> IF stuck THEN m.limit ELSE limit, filesize |-> size]

Stuck(p, size, limit, mode) ==
    /\ plan.busy /\ Limit(map[p], size, limit, mode) > map[p].limit
    /\ mode = "explicit" => slot[p] # 0     \* readers of the process forbid moving

\* Some process resizes its mapping; ok tells whether it succeeded.
dxb_resize(p, size, limit, mode, ok) ==
    IF Current(map[p], size, limit, mode)
    THEN ok /\ UNCHANGED <<map, file, discarded>>
    ELSE /\ ok \/ Stuck(p, size, limit, mode)
         /\ file' = Sized(pgno_ceil2os(size), file, mode)
         /\ map' = [map EXCEPT ![p] = Remapped(@, pgno_ceil2os(size),
                                               Limit(@, size, limit, mode), ~ok)]
         /\ discarded' = IF ok \/ (mode # "grow" /\ pgno_ceil2os(size) < map[p].current)
                         THEN size ELSE discarded

\* txn_setup_primal: a transaction on the snapshot s begins in process p.
txn_setup_primal(p, s, required, ok) ==
    IF required > map[p].current
    THEN dxb_resize(p, s.now, s.upper, "grow", ok)
    ELSE /\ ok
         /\ map' = IF s.now < map[p].current
                   THEN [map EXCEPT ![p].filesize = file,
                                    ![p].current = IF @ > file THEN smaller(map[p].limit, file)
                                                   ELSE @]
                   ELSE map
         /\ UNCHANGED <<file, discarded>>

\* mvcc_snapshot_largest
Largest(last) == LET used == {last} \cup {slot[p] : p \in Procs}
                 IN CHOOSE n \in used : \A m \in used : m <= n

-----------------------------------------------------------------------------
Init == \E pl \in Plans :
    LET meta == [txn |-> 1, first |-> pl.init[1], now |-> pl.init[2], lower |-> pl.geo.lower,
                 upper |-> pl.geo.upper, grow |-> pl.geo.grow, shrink |-> pl.geo.shrink,
                 steady |-> TRUE]
    IN  /\ plan = pl
        /\ file = meta.now /\ durable = meta.now
        /\ head = meta /\ steady = meta /\ boot = TRUE
        /\ \E open \in IF pl.alone THEN {{p} : p \in Procs} ELSE {Procs} :
              map = [p \in Procs |-> IF p \in open
                         THEN [current |-> meta.now, limit |-> meta.upper, filesize |-> meta.now]
                         ELSE Closed]
        /\ slot = [p \in Procs |-> 0] /\ reader = [p \in Procs |-> NoReader]
        /\ w = Idle /\ discarded = meta.now

-----------------------------------------------------------------------------
(* Readers                                                                 *)

\* ro_seize: the head is taken, its size published, and taken again if the
\* head has moved.
Seize(p) ==
    /\ IsOpen(p) /\ reader[p].pc = "idle"
    /\ reader' = [reader EXCEPT ![p] = [pc |-> "publish", snap |-> head]]
    /\ UNCHANGED <<plan, file, durable, head, steady, boot, map, slot, w, discarded>>

Publish(p) ==
    /\ reader[p].pc = "publish"
    /\ slot' = [slot EXCEPT ![p] = reader[p].snap.first]
    /\ reader' = [reader EXCEPT ![p].pc = "check"]
    /\ UNCHANGED <<plan, file, durable, head, steady, boot, map, w, discarded>>

Check(p) ==
    /\ reader[p].pc = "check"
    /\ reader' = [reader EXCEPT ![p] = IF head.txn = reader[p].snap.txn
                                       THEN [@ EXCEPT !.pc = "setup"]
                                       ELSE [pc |-> "publish", snap |-> head]]
    /\ UNCHANGED <<plan, file, durable, head, steady, boot, map, slot, w, discarded>>

Setup(p) == \E ok \in BOOLEAN :
    /\ reader[p].pc = "setup"
    /\ txn_setup_primal(p, reader[p].snap, reader[p].snap.first, ok)
    /\ reader' = [reader EXCEPT ![p] = IF ok THEN [@ EXCEPT !.pc = "active"] ELSE NoReader]
    /\ slot' = IF ok THEN slot ELSE [slot EXCEPT ![p] = 0]
    /\ UNCHANGED <<plan, durable, head, steady, boot, w>>

End(p) ==
    /\ reader[p].pc = "active"
    /\ reader' = [reader EXCEPT ![p] = NoReader]
    /\ slot' = [slot EXCEPT ![p] = 0]
    /\ UNCHANGED <<plan, file, durable, head, steady, boot, map, w, discarded>>

-----------------------------------------------------------------------------
(* The write transaction                                                   *)

Begin(p) == \E ok \in BOOLEAN :
    /\ w.pc = "idle" /\ IsOpen(p) /\ head.txn < plan.txns
    /\ txn_setup_primal(p, head, head.now, ok)
    /\ w' = IF ok THEN Held("txn", "txn", p, [head EXCEPT !.txn = @ + 1]) ELSE Idle
    /\ UNCHANGED <<plan, durable, head, steady, boot, slot, reader>>

\* gc_alloc_ex without suitable pages in the GC.  MDBX_MAP_FULL and a mapping
\* that cannot grow leave the transaction as it is.
Alloc(n) == LET m == w.meta IN
    /\ w.pc = "txn"
    /\ \/ /\ m.first + n <= m.now
          /\ w' = [w EXCEPT !.meta.first = @ + n]
          /\ UNCHANGED <<map, file, discarded>>
       \/ /\ m.first + n > m.now /\ m.first + n <= m.upper /\ m.grow > 0
          /\ LET next == m.first + n
                 aligned == smaller(pgno_ceil2os(NextStep(next, m.grow)), m.upper)
             IN  \E ok \in BOOLEAN :
                    /\ dxb_resize(w.proc, aligned, m.upper, "grow", ok)
                    /\ w' = IF ok THEN [w EXCEPT !.meta.now = aligned, !.meta.first = next] ELSE w
    /\ UNCHANGED <<plan, durable, head, steady, boot, slot, reader>>

\* Free pages at the end are given back: refund_reclaimed, refund_loose.
Refund(n) ==
    /\ w.pc = "txn" /\ w.meta.first - n >= IF plan.below THEN MinFirst ELSE head.first
    /\ w' = [w EXCEPT !.meta.first = @ - n]
    /\ UNCHANGED <<plan, file, durable, head, steady, boot, map, slot, reader, discarded>>

Abort ==
    /\ w.pc = "txn"
    /\ w' = Idle
    /\ UNCHANGED <<plan, file, durable, head, steady, boot, map, slot, reader, discarded>>

-----------------------------------------------------------------------------
(* dxb_sync_locked                                                         *)

\* Mutant: the pages of the head are forgotten, only registered readers count.
NeededByReaders(m) == Largest(m.first)

\* How far the file can be cut for the pending meta page.
Needed(m) == Largest(larger(head.first, m.first))
Discarded(m, largest) ==
    IF discarded < m.first THEN m.first
    ELSE IF /\ discarded >= m.first + Madv
            /\ discarded >= pgno_ceil2os(largest) + Madv
            /\ pgno_ceil2os(discarded) > pgno_ceil2os(largest)
         THEN pgno_ceil2os(largest) ELSE discarded
Bottom(m, largest) ==
    larger(pgno_ceil2os(NextStep(largest + Gap, IF m.grow > 0 THEN m.grow ELSE m.shrink)), m.lower)
Shrinks(m, largest) ==
    /\ discarded >= m.first + Madv
    /\ m.shrink > 0
    /\ m.now - m.first > m.shrink + Gap
    /\ m.now - largest > m.shrink + Gap
    /\ m.now > Bottom(m, largest)

\* Mutant: a smaller file is recorded as weakly as the commit asked for.
AsAsked(sync) == sync

\* A meta page of a smaller file is made steady if there is a steady one, and
\* there always is.
Forced(sync) == TRUE

\* What dxb_sync_locked will write for the pending meta page m; the one of a
\* smaller file gets an id of its own.
Pending(p, by, m, sync, largest) ==
    IF Shrinks(m, largest)
    THEN [Held("sync", by, p, [m EXCEPT !.steady = Forced(sync), !.now = Bottom(m, largest),
                                        !.txn = IF @ = head.txn THEN @ + 1 ELSE @])
          EXCEPT !.cut = TRUE]
    ELSE Held("sync", by, p, [m EXCEPT !.steady = sync])

SyncShrinking(p, by, m, sync) ==
    /\ w' = Pending(p, by, m, sync, Needed(m))
    /\ discarded' = Discarded(m, Needed(m))

\* txn_basal_commit
Commit(sync) ==
    /\ w.pc = "txn" /\ (sync \/ plan.weak)
    /\ SyncShrinking(w.proc, "txn", w.meta, sync)
    /\ UNCHANGED <<plan, file, durable, head, steady, boot, map, slot, reader>>

\* env_sync outside a transaction.
Sync(p) ==
    /\ w.pc = "idle" /\ IsOpen(p) /\ ~head.steady /\ head.txn < plan.txns
    /\ SyncShrinking(p, "sync", head, TRUE)
    /\ UNCHANGED <<plan, file, durable, head, steady, boot, map, slot, reader>>

\* The data is synced when the meta page is to be steady, then it is written.
WriteMeta ==
    /\ w.pc = "sync"
    /\ head' = w.meta /\ boot' = TRUE
    /\ IF w.meta.steady THEN steady' = w.meta /\ durable' = file ELSE UNCHANGED <<steady, durable>>
    /\ w' = IF w.cut THEN [w EXCEPT !.pc = "cut"] ELSE Idle
    /\ UNCHANGED <<plan, file, map, slot, reader, discarded>>

ShrinkFile ==
    /\ w.pc = "cut"
    /\ dxb_resize(w.proc, w.meta.now, w.meta.upper, "shrink", TRUE)
    /\ w' = Idle
    /\ UNCHANGED <<plan, durable, head, steady, boot, slot, reader>>

-----------------------------------------------------------------------------
(* mdbx_env_set_geometry                                                   *)

\* now = 0 keeps the size.  The size never falls below what snapshots use.
NewGeo(m, g, used) ==
    [m EXCEPT !.lower = g.lower, !.upper = g.upper, !.grow = g.grow, !.shrink = g.shrink,
              !.now = smaller(larger(larger(IF g.now = 0 THEN pgno_ceil2os(@) ELSE g.now, used),
                                     g.lower), g.upper)]

After(by) == IF by = "geo" THEN "sync" ELSE "txn"

\* The new geometry is worked out; a resize comes first if the file or the
\* mapping changes.
Asked(p, m, g, by) ==
    LET used == pgno_ceil2os(Largest(m.first))
        new == NewGeo(m, g, used)
    IN  /\ g.upper >= used      \* else MDBX_MAP_FULL
        /\ new # m
        /\ w' = [Held(IF new.now # m.now \/ new.upper # m.upper THEN "resize" ELSE After(by), by, p,
                      IF by = "geo" THEN [new EXCEPT !.txn = head.txn + 1] ELSE new)
                 EXCEPT !.old = m]

SetGeometry(p, g, sync) ==
    /\ w.pc = "idle" /\ IsOpen(p) /\ head.txn < plan.txns /\ (sync \/ plan.weak)
    /\ Asked(p, [head EXCEPT !.steady = sync], g, "geo")
    /\ UNCHANGED <<plan, file, durable, head, steady, boot, map, slot, reader, discarded>>

SetGeometryInside(g) ==
    /\ w.pc = "txn" /\ plan.inside
    /\ Asked(w.proc, w.meta, g, "inside")
    /\ UNCHANGED <<plan, file, durable, head, steady, boot, map, slot, reader, discarded>>

\* The resize; if it fails the geometry stays as it was.
ResizeNow == \E ok \in BOOLEAN :
    /\ w.pc = "resize"
    /\ dxb_resize(w.proc, w.meta.now, w.meta.upper, "explicit", ok)
    /\ w' = IF ok THEN [w EXCEPT !.pc = After(w.by), !.old = w.meta]
            ELSE IF w.by = "inside" THEN [w EXCEPT !.pc = "txn", !.meta = w.old] ELSE Idle
    /\ UNCHANGED <<plan, durable, head, steady, boot, slot, reader>>

-----------------------------------------------------------------------------
(* Opening, dying                                                          *)

\* dxb_read_header: after a restart of the system a weak head is not taken.
Header == IF boot THEN head ELSE steady

\* meta_validate: what a snapshot allocated lies within the file, its sizes
\* are in order.
meta_validate(m) ==
    /\ m.first <= file
    /\ m.first <= m.now /\ m.lower <= m.now /\ m.now <= m.upper

\* dxb_setup of a process that is not the first: the mapping takes the file
\* as it is.
Join(p) ==
    /\ ~plan.alone /\ ~Mapped(p) /\ \E q \in Procs : IsOpen(q)
    /\ map' = [map EXCEPT ![p] = [current |-> smaller(file, Header.upper),
                                  limit |-> Header.upper, filesize |-> file]]
    /\ UNCHANGED <<plan, file, durable, head, steady, boot, slot, reader, w, discarded>>

\* The geometry the first opener goes on with: the preconfigured one if it
\* differs in more than the size, pre-shrunk when shrinking is on.
OpenGeo(m, g) ==
    LET now == larger(g.now, pgno_ceil2os(m.first))
        cut == IF g.shrink > 0 /\ now > m.first
               THEN NextStep(m.first, g.shrink) ELSE now
        upper == larger(g.upper, pgno_ceil2os(m.first))
    IN  IF [lower |-> m.lower, upper |-> m.upper, grow |-> m.grow, shrink |-> m.shrink]
           = [lower |-> g.lower, upper |-> upper, grow |-> g.grow, shrink |-> g.shrink]
        THEN m
        ELSE [m EXCEPT !.lower = g.lower, !.upper = upper, !.grow = g.grow, !.shrink = g.shrink,
                       !.now = smaller(larger(pgno_ceil2os(cut), g.lower), upper)]

\* dxb_setup of the first process: the file gets its length, the mapping is
\* made; a weak head of before the restart is dropped.
Open(p) ==
    /\ w.pc = "idle" /\ \A q \in Procs : ~Mapped(q)
    /\ meta_validate(Header)
    /\ \E m \in {[Header EXCEPT !.now = pgno_ceil2os(@)]} \cup {OpenGeo(Header, g) : g \in plan.given} :
          /\ file' = m.now
          /\ map' = [map EXCEPT ![p] = [current |-> m.now, limit |-> m.upper, filesize |-> m.now]]
          /\ w' = Held("open", "open", p, m)
    /\ discarded' = 0
    /\ UNCHANGED <<plan, durable, head, steady, boot, slot, reader>>

\* The meta page is written anew if its geometry is not the one in use.  The
\* lock file is new, so nothing says that there is a tail to be cut.
OpenMeta ==
    /\ w.pc = "open"
    /\ head' = Header /\ boot' = TRUE
    /\ \/ /\ w.meta = Header
          /\ w' = Idle /\ discarded' = pgno_ceil2os(Header.first)
       \/ /\ w.meta # Header /\ Header.txn < plan.txns
          /\ w' = Held("sync", "open", w.proc,
                      [w.meta EXCEPT !.txn = @ + 1, !.steady = Header.steady \/ ~plan.weak])
          /\ discarded' = pgno_ceil2os(Header.first)
    /\ UNCHANGED <<plan, file, durable, steady, map, slot, reader>>

\* A process dies; its slot is cleaned up at once.
Kill(p) ==
    /\ plan.kill /\ Mapped(p)
    /\ map' = [map EXCEPT ![p] = Closed]
    /\ slot' = [slot EXCEPT ![p] = 0]
    /\ reader' = [reader EXCEPT ![p] = NoReader]
    /\ w' = IF w.pc # "idle" /\ w.proc = p THEN Idle ELSE w
    /\ UNCHANGED <<plan, file, durable, head, steady, boot, discarded>>

\* The system restarts: a size that was not synced may be lost.
PowerFail == \E size \in {file, durable} :
    /\ plan.power /\ \E p \in Procs : Mapped(p)
    /\ file' = size /\ boot' = head.steady
    /\ map' = [p \in Procs |-> Closed]
    /\ slot' = [p \in Procs |-> 0]
    /\ reader' = [p \in Procs |-> NoReader]
    /\ w' = Idle
    /\ UNCHANGED <<plan, durable, head, steady, discarded>>

-----------------------------------------------------------------------------
Next ==
    \/ \E p \in Procs : \/ Seize(p) \/ Publish(p) \/ Check(p) \/ Setup(p) \/ End(p)
                        \/ Begin(p) \/ Sync(p) \/ Join(p) \/ Open(p) \/ Kill(p)
                        \/ \E g \in plan.asked, sync \in BOOLEAN : SetGeometry(p, g, sync)
    \/ \E n \in plan.steps : Alloc(n) \/ Refund(n)
    \/ Abort \/ (\E sync \in BOOLEAN : Commit(sync)) \/ WriteMeta \/ ShrinkFile
    \/ (\E g \in plan.asked : SetGeometryInside(g))
    \/ ResizeNow \/ OpenMeta \/ PowerFail

Spec == Init /\ [][Next]_vars

-----------------------------------------------------------------------------
\* The pages a transaction may touch are in the file and in the mapping of
\* its process, whoever cuts the file or changes the mapping meanwhile: a
\* reader needs the pages its snapshot allocated, a writer all pages up to
\* the end it may allocate from.
Backed ==
    /\ \A p \in Procs : reader[p].pc = "active" =>
          reader[p].snap.first <= file /\ reader[p].snap.first <= map[p].limit
    /\ w.pc = "txn" => w.meta.now <= file /\ w.meta.now <= map[w.proc].limit

\* At any time, should the process or the system die here, meta_validate
\* accepts the meta page that dxb_setup of the next opener takes: the file is
\* not cut below a snapshot that may have to be gone back to, and the sizes
\* written are in order.
Openable == meta_validate(Header)
=============================================================================

--------------------------- MODULE GeometryProofs ---------------------------
(***************************************************************************)
(* Backed and Openable for any number of processes, any sizes and steps,   *)
(* crashes included: between any number of processes that leave the        *)
(* geometry alone while the file is open, and for one process that sets it *)
(* as it likes.                                                            *)
(*                                                                         *)
(* What carries the proof: a file is never cut below what the head, the    *)
(* pending meta page and the registered readers allocated, a reader that   *)
(* registers later takes the head, and the size of the file is behind the  *)
(* head only while the one process whose mapping says so uses it.          *)
(***************************************************************************)
EXTENDS Geometry, FiniteSetTheorems, WellFoundedInduction, TLAPS

\* Whole pages of the system: what sizes are rounded to.
Whole(n) == pgno_ceil2os(n) = n

Uppers(pl) == {pl.geo.upper} \cup {g.upper : g \in pl.asked \cup pl.given}
AtLeast(pl, n) == \E u \in Uppers(pl) : u <= n
AtMost(pl, n) == \E u \in Uppers(pl) : n <= u

\* Sizes as the code has them: bounds in order and whole, the file not
\* smaller than what is allocated.
Ordered(g) == Whole(g.lower) /\ Whole(g.upper) /\ g.lower <= g.upper
Sane(pl) ==
    /\ Ordered(pl.geo) /\ \A g \in pl.asked \cup pl.given : Ordered(g) /\ Whole(g.now)
    /\ MinFirst <= pl.init[1] /\ pl.init[1] <= pl.init[2] /\ Whole(pl.init[2])
    /\ pl.geo.lower <= pl.init[2] /\ pl.init[2] <= pl.geo.upper

\* Either the least upper bound of all, or the greatest and no size of its
\* own: if the mapping has to be extended the file is not cut.
Gentle(pl, g) ==
    \/ \A u \in Uppers(pl) : g.upper <= u
    \/ g.now = 0 /\ \A u \in Uppers(pl) : u <= g.upper

\* What is asked of the application.  A geometry is set while the file is
\* open only by a process that is alone with it and commits steadily; within
\* a transaction, if nothing below the head was given back and nothing the
\* mapping may get stuck at goes with a cut.
Careful(pl) ==
    /\ pl.weak => pl.asked = {} /\ pl.given = {}
    /\ pl.asked # {} => pl.alone
    /\ pl.asked # {} /\ pl.inside => ~pl.below /\ (pl.busy => \A g \in pl.asked : Gentle(pl, g))

-----------------------------------------------------------------------------
Metas == [txn : Nat, first : Nat, now : Nat, lower : Nat, upper : Nat, grow : Nat,
          shrink : Nat, steady : BOOLEAN]
Mappings == [current : Nat, limit : Nat, filesize : Nat]
Readings == [pc : {"publish", "check", "setup", "active"}, snap : Metas]
Holds == [pc : {"open", "txn", "resize", "sync", "cut"},
          by : {"open", "txn", "sync", "geo", "inside"},
          proc : Procs, cut : BOOLEAN, meta : Metas, old : Metas]

TypeOK ==
    /\ plan \in PlanType
    /\ file \in Nat /\ durable \in Nat /\ discarded \in Nat /\ boot \in BOOLEAN
    /\ head \in Metas /\ steady \in Metas
    /\ map \in [Procs -> Mappings] /\ slot \in [Procs -> Nat]
    /\ reader \in [Procs -> {NoReader} \cup Readings]
    /\ w \in {Idle} \cup Holds

\* A meta page in order.
Fits(pl, m) ==
    /\ MinFirst <= m.first /\ m.first <= m.now /\ m.lower <= m.now /\ m.now <= m.upper
    /\ Whole(m.now) /\ Whole(m.lower) /\ Whole(m.upper)
    /\ AtLeast(pl, m.upper) /\ AtMost(pl, m.upper)

\* The meta pages and the file.
Pages ==
    /\ Fits(plan, head) /\ Fits(plan, steady)
    /\ steady.steady = TRUE /\ steady.first <= durable /\ steady.first <= file
    /\ steady.now <= head.now
    /\ boot => head.first <= file
    /\ head.steady \/ ~plan.weak => head = steady

\* The mappings and the file.
Maps ==
    /\ \A p \in Procs : Mapped(p) =>
          map[p].current <= map[p].limit /\ Whole(map[p].limit) /\ AtLeast(plan, map[p].limit)
    /\ plan.alone => \A p, q \in Procs : Mapped(p) /\ Mapped(q) => p = q /\ map[p].current <= file
    /\ ~plan.alone => \A p \in Procs : IsOpen(p) => head.now <= file
    /\ ~boot => \A p \in Procs : ~IsOpen(p)

\* The readers.
Pinned(p) == reader[p].pc \in {"setup", "active"}
Readers == \A p \in Procs : reader[p].pc # "idle" =>
    /\ IsOpen(p) /\ Fits(plan, reader[p].snap)
    /\ reader[p].snap.txn <= head.txn
    /\ reader[p].snap.txn = head.txn => reader[p].snap.first = head.first
    /\ reader[p].pc # "publish" => slot[p] = reader[p].snap.first
    /\ Pinned(p) => reader[p].snap.first <= file
    /\ reader[p].pc = "active" => reader[p].snap.first <= map[p].limit

\* The first opener.
Opener == w.by = "open" =>
    /\ w.pc \in {"open", "sync"} /\ ~w.cut /\ w.meta.now <= file
    /\ \A q \in Procs : Mapped(q) => q = w.proc
    /\ w.pc = "open" => /\ w.meta.txn = Header.txn /\ w.meta.first = Header.first
                        /\ plan.weak => w.meta = Header

\* The meta page m of a transaction that is not committed.
Transacting(m) ==
    /\ m.txn = head.txn + 1
    /\ m.now <= file /\ m.now <= map[w.proc].limit
    /\ plan.weak => head.now <= m.now
    /\ plan.asked # {} /\ plan.inside => head.first <= m.first

\* An explicit resize is pending.
Resizing ==
    /\ plan.asked # {} /\ plan.alone /\ ~plan.weak
    /\ w.meta.txn = head.txn + 1
    /\ w.by \in {"geo", "inside"}
    /\ w.by = "geo" => w.meta.steady /\ w.meta.first = head.first
    /\ w.by = "inside" => /\ plan.inside /\ Transacting(w.old)
                          /\ head.first <= w.meta.first
                          /\ plan.busy => \/ w.old.now <= w.meta.now
                                          \/ w.meta.upper <= map[w.proc].limit

\* A meta page is about to be written.
Syncing ==
    /\ w.meta.first <= file /\ (~plan.alone => w.meta.now <= file)
    /\ head.txn <= w.meta.txn /\ (w.meta.txn = head.txn => w.meta.first = head.first)
    /\ w.meta.steady \/ (plan.weak /\ head.now <= w.meta.now)
    /\ w.cut => w.meta.steady

\* The file is about to be cut to the size of w.meta.
Cutting == w.pc = "resize" \/ w.cut
Spared == head.first <= w.meta.now /\ \A p \in Procs : Pinned(p) => reader[p].snap.first <= w.meta.now

Owner == w.pc # "idle" =>
    /\ Mapped(w.proc) /\ Fits(plan, w.meta) /\ Fits(plan, w.old)
    /\ Opener
    /\ w.pc = "open" => w.by = "open"
    /\ ~boot => w.pc = "open"
    /\ w.cut => w.pc \in {"sync", "cut"}
    /\ w.pc = "txn" => Transacting(w.meta) /\ map[w.proc].current <= file
    /\ w.pc = "resize" => Resizing
    /\ w.pc = "sync" => Syncing
    /\ w.pc = "cut" => head = w.meta /\ w.cut /\ w.meta.steady
    /\ Cutting => Spared

Inv == TypeOK /\ Pages /\ Maps /\ Readers /\ Owner
Covered == Sane(plan) /\ Careful(plan)

-----------------------------------------------------------------------------
(* Sizes                                                                   *)

\* Division with remainder, which the steps of the sizes rest on.
LEMMA Division ==
  ASSUME NEW a \in Nat, NEW b \in Nat \ {0}
  PROVE  /\ a \div b \in Nat /\ a % b \in Nat /\ a % b < b
         /\ a = (a \div b) * b + (a % b)
  BY Z3T(30)

\* pgno_ceil2os does not lower a size.
LEMMA CeilAbove ==
  ASSUME NEW n \in Nat
  PROVE  pgno_ceil2os(n) \in Nat /\ n <= pgno_ceil2os(n)
  <1> DEFINE a == n + OsUnit - 1
  <1>1. OsUnit \in Nat \ {0} /\ a \in Nat
    BY GeometryAssumption
  <1>2. a \div OsUnit \in Nat /\ a % OsUnit < OsUnit /\ a % OsUnit \in Nat
        /\ a = (a \div OsUnit) * OsUnit + (a % OsUnit)
    BY <1>1, Division
  <1>3. (a \div OsUnit) * OsUnit \in Nat
    BY <1>1, <1>2
  <1> QED
    BY <1>1, <1>2, <1>3 DEF pgno_ceil2os

\* A multiple of the system's page is left as it is.
LEMMA CeilOfMultiple ==
  ASSUME NEW k \in Nat
  PROVE  pgno_ceil2os(k * OsUnit) = k * OsUnit
  <1> DEFINE a == k * OsUnit + OsUnit - 1
  <1>1. OsUnit \in Nat \ {0} /\ k * OsUnit \in Nat /\ a \in Nat
    BY GeometryAssumption
  <1> DEFINE q == a \div OsUnit
  <1>2. q \in Nat /\ a % OsUnit < OsUnit /\ a % OsUnit \in Nat
        /\ a = q * OsUnit + (a % OsUnit)
    BY <1>1, Division
  <1>3. ASSUME q < k PROVE FALSE
    <2>1. (q + 1) * OsUnit <= k * OsUnit
      BY <1>1, <1>2, <1>3
    <2>2. q * OsUnit + OsUnit <= k * OsUnit /\ q * OsUnit \in Nat
      BY <1>1, <1>2, <2>1
    <2> QED
      BY <1>1, <1>2, <2>2
  <1>4. ASSUME q > k PROVE FALSE
    <2>1. (k + 1) * OsUnit <= q * OsUnit
      BY <1>1, <1>2, <1>4
    <2>2. k * OsUnit + OsUnit <= q * OsUnit /\ q * OsUnit \in Nat
      BY <1>1, <1>2, <2>1
    <2> QED
      BY <1>1, <1>2, <2>2
  <1>5. q = k
    BY <1>2, <1>3, <1>4
  <1> QED
    BY <1>5 DEF pgno_ceil2os

\* pgno_ceil2os returns whole pages of the system.
LEMMA CeilWhole ==
  ASSUME NEW n \in Nat
  PROVE  Whole(pgno_ceil2os(n))
  <1>1. OsUnit \in Nat \ {0} /\ n + OsUnit - 1 \in Nat
    BY GeometryAssumption
  <1>2. (n + OsUnit - 1) \div OsUnit \in Nat
    BY <1>1, Division
  <1> QED
    BY <1>2, CeilOfMultiple DEF Whole, pgno_ceil2os

\* A size that fits in whole pages still fits when rounded.
LEMMA CeilWithin ==
  ASSUME NEW n \in Nat, NEW m \in Nat, n <= m, Whole(m)
  PROVE  pgno_ceil2os(n) <= m
  <1> DEFINE a == n + OsUnit - 1
             b == m + OsUnit - 1
  <1>1. OsUnit \in Nat \ {0} /\ a \in Nat /\ b \in Nat /\ a <= b
    BY GeometryAssumption
  <1> DEFINE q == a \div OsUnit
             r == b \div OsUnit
  <1>2. q \in Nat /\ a % OsUnit < OsUnit /\ a % OsUnit \in Nat /\ a = q * OsUnit + (a % OsUnit)
    BY <1>1, Division
  <1>3. r \in Nat /\ b % OsUnit < OsUnit /\ b % OsUnit \in Nat /\ b = r * OsUnit + (b % OsUnit)
    BY <1>1, Division
  <1>4. ASSUME r < q PROVE FALSE
    <2>1. (r + 1) * OsUnit <= q * OsUnit
      BY <1>1, <1>2, <1>3, <1>4
    <2>2. r * OsUnit + OsUnit <= q * OsUnit /\ r * OsUnit \in Nat /\ q * OsUnit \in Nat
      BY <1>1, <1>2, <1>3, <2>1
    <2> QED
      BY <1>1, <1>2, <1>3, <2>2
  <1>5. q * OsUnit <= r * OsUnit
    BY <1>1, <1>2, <1>3, <1>4
  <1> QED
    BY <1>5 DEF Whole, pgno_ceil2os

\* The next multiple of a step lies above.
LEMMA NextStepAbove ==
  ASSUME NEW n \in Nat, NEW step \in Nat \ {0}
  PROVE  NextStep(n, step) \in Nat /\ n < NextStep(n, step)
  <1> DEFINE q == n \div step
  <1>1. q \in Nat /\ n % step < step /\ n % step \in Nat /\ n = q * step + (n % step)
    BY Division
  <1>2. (q + 1) * step = q * step + step /\ q * step \in Nat
    BY <1>1
  <1> QED
    BY <1>1, <1>2 DEF NextStep

\* A finite set of numbers that is not empty has a greatest one.
LEMMA Greatest ==
  ASSUME NEW S \in SUBSET Nat, IsFiniteSet(S), S # {}
  PROVE  \E n \in S : \A m \in S : m <= n
  <1> DEFINE covers == {T \in SUBSET S : T # {} /\ \A m \in S : \E n \in T : m <= n}
  <1>1. IsWellFoundedOn(StrictSubsetOrdering(S), FiniteSubsetsOf(S))
    BY FS_StrictSubsetOrderingWellFounded
  <1>2. covers \subseteq FiniteSubsetsOf(S)
    BY FS_Subset DEF FiniteSubsetsOf
  <1>3. S \in covers
    OBVIOUS
  <1>4. \E T \in covers : \A U \in covers : ~ <<U, T>> \in StrictSubsetOrdering(S)
    <2> HIDE DEF covers
    <2> QED
      BY <1>1, <1>2, <1>3, WFMin
  <1>5. PICK T \in covers : \A U \in covers : ~ <<U, T>> \in StrictSubsetOrdering(S)
    BY <1>4
  <1>6. PICK a \in T : TRUE
    OBVIOUS
  <1>7. ASSUME NEW b \in T, b # a PROVE FALSE
    <2>1. PICK c \in T : \E d \in T : d # c /\ c <= d
      BY <1>7
    <2> DEFINE U == T \ {c}
    <2>2. U \in covers
      <3>1. ASSUME NEW m \in S PROVE \E n \in U : m <= n
        <4>1. PICK n \in T : m <= n
          OBVIOUS
        <4> QED
          BY <2>1, <4>1
      <3> QED
        BY <2>1, <3>1
    <2>3. <<U, T>> \in StrictSubsetOrdering(S)
      BY DEF StrictSubsetOrdering
    <2> QED
      BY <1>5, <2>2, <2>3
  <1>8. a \in S /\ \A m \in S : m <= a
    BY <1>6, <1>7
  <1> QED
    BY <1>8

\* mvcc_snapshot_largest is not below any registered reader.
LEMMA LargestAbove ==
  ASSUME NEW last \in Nat, slot \in [Procs -> Nat]
  PROVE  /\ Largest(last) \in Nat /\ last <= Largest(last)
         /\ \A p \in Procs : slot[p] <= Largest(last)
  <1> DEFINE slots == {slot[p] : p \in Procs}
             used == {last} \cup slots
  <1>1. IsFiniteSet(slots)
    <2>1. slot \in Surjection(Procs, slots)
      BY DEF Surjection
    <2> QED
      BY <2>1, FS_Surjection, GeometryAssumption
  <1>2. IsFiniteSet(used)
    <2>1. used = slots \cup {last}
      OBVIOUS
    <2> QED
      BY <1>1, <2>1, FS_AddElement
  <1>3. used \in SUBSET Nat /\ used # {}
    OBVIOUS
  <1>4. \E n \in used : \A m \in used : m <= n
    <2> HIDE DEF used
    <2> QED
      BY <1>2, <1>3, Greatest
  <1>5. Largest(last) \in used /\ \A m \in used : m <= Largest(last)
    BY <1>4 DEF Largest
  <1> QED
    BY <1>3, <1>5

-----------------------------------------------------------------------------
(* Resizing                                                                *)

\* What is known of the mapping of p before it is resized.
Good(p) ==
    /\ map[p].current <= map[p].limit
    /\ Whole(map[p].limit) /\ AtLeast(plan, map[p].limit)

\* A resize leaves types and the other processes' mappings alone, and the
\* mapping of p in order.
Kept(p) ==
    /\ file' \in Nat /\ discarded' \in Nat /\ map' \in [Procs -> Mappings]
    /\ \A q \in Procs : q # p => map'[q] = map[q]
    /\ map'[p].current <= map'[p].limit
    /\ Whole(map'[p].limit) /\ AtLeast(plan, map'[p].limit)

\* Where the file is afterwards: as it was, for the mapping says so already,
\* or as large as asked.
Placed(p, size) ==
    \/ size = map[p].current /\ map' = map /\ file' = file
    \/ size <= file' /\ map'[p].current <= size

\* An implicit resize never lowers the limit of the mapping, and one that
\* grows never cuts the file.
LEMMA ImplicitResize ==
  ASSUME TypeOK, NEW p \in Procs, Good(p), NEW size \in Nat, NEW limit \in Nat,
         Whole(size), Whole(limit), size <= limit, AtLeast(plan, limit),
         NEW mode \in {"grow", "shrink"}, NEW ok \in BOOLEAN,
         dxb_resize(p, size, limit, mode, ok)
  PROVE  /\ Kept(p) /\ Placed(p, size)
         /\ map[p].limit <= map'[p].limit
         /\ ok => size <= map'[p].limit
         /\ mode = "grow" => file <= file'
         /\ mode = "shrink" => file' \in {file, size}
  <1> DEFINE top == IF size <= map[p].limit THEN map[p].limit ELSE limit
  <1>1. map[p] \in Mappings /\ file \in Nat /\ discarded \in Nat /\ map \in [Procs -> Mappings]
    BY DEF TypeOK
  <1>2. top \in Nat /\ Whole(top) /\ AtLeast(plan, top) /\ size <= top /\ map[p].limit <= top
    BY <1>1 DEF Good, Mappings
  <1>3. pgno_ceil2os(size) = size
    BY DEF Whole
  <1>4. Limit(map[p], size, limit, mode) = top
    BY <1>2 DEF Limit, Whole
  <1>5. CASE Current(map[p], size, limit, mode)
    <2>1. UNCHANGED <<map, file, discarded>> /\ ok
      BY <1>5 DEF dxb_resize
    <2>2. size = map[p].current
      BY <1>3, <1>5 DEF Current
    <2> QED
      BY <1>1, <2>1, <2>2 DEF Kept, Placed, Good, Mappings
  <1>6. CASE ~Current(map[p], size, limit, mode)
    <2> DEFINE new == Remapped(map[p], size, top, ~ok)
    <2>1. /\ file' = Sized(size, file, mode)
          /\ map' = [map EXCEPT ![p] = new]
          /\ discarded' \in {size, discarded}
      BY <1>3, <1>4, <1>6 DEF dxb_resize
    <2>2. new \in Mappings /\ new.current <= size /\ new.current <= new.limit
          /\ new.limit = IF ok THEN top ELSE map[p].limit
      BY <1>1, <1>2 DEF Remapped, Mappings, smaller
    <2>3. map'[p] = new /\ map' \in [Procs -> Mappings] /\ \A q \in Procs : q # p => map'[q] = map[q]
      BY <1>1, <2>1, <2>2
    <2>4. file' \in Nat /\ size <= file' /\ file' \in {file, size} /\ (mode = "grow" => file <= file')
          /\ discarded' \in Nat
      BY <1>1, <2>1 DEF Sized
    <2> QED
      BY <1>1, <1>2, <2>2, <2>3, <2>4 DEF Kept, Placed, Good, Mappings
  <1> QED
    BY <1>5, <1>6

\* An explicit resize gives the mapping and the file what is asked; it fails
\* where the mapping had to be extended and the addresses are taken.
LEMMA ExplicitResize ==
  ASSUME TypeOK, NEW p \in Procs, Good(p), NEW size \in Nat, NEW limit \in Nat,
         Whole(size), Whole(limit), size <= limit, AtLeast(plan, limit),
         NEW ok \in BOOLEAN, dxb_resize(p, size, limit, "explicit", ok)
  PROVE  /\ Kept(p) /\ Placed(p, size)
         /\ file' \in {file, size}
         /\ ok => map'[p].limit = limit
         /\ ~ok => plan.busy /\ map[p].limit < limit /\ map'[p].limit = map[p].limit
  <1>1. map[p] \in Mappings /\ file \in Nat /\ discarded \in Nat /\ map \in [Procs -> Mappings]
    BY DEF TypeOK
  <1>2. pgno_ceil2os(size) = size
    BY DEF Whole
  <1>3. Limit(map[p], size, limit, "explicit") = limit
    BY DEF Limit, Whole
  <1>4. CASE Current(map[p], size, limit, "explicit")
    <2>1. UNCHANGED <<map, file, discarded>> /\ ok
      BY <1>4 DEF dxb_resize
    <2>2. size = map[p].current /\ limit = map[p].limit
      BY <1>2, <1>3, <1>4 DEF Current
    <2> QED
      BY <1>1, <2>1, <2>2 DEF Kept, Placed, Good, Mappings
  <1>5. CASE ~Current(map[p], size, limit, "explicit")
    <2> DEFINE new == Remapped(map[p], size, limit, ~ok)
    <2>1. /\ ok \/ Stuck(p, size, limit, "explicit")
          /\ file' = Sized(size, file, "explicit")
          /\ map' = [map EXCEPT ![p] = new]
          /\ discarded' \in {size, discarded}
      BY <1>2, <1>3, <1>5 DEF dxb_resize
    <2>2. new \in Mappings /\ new.current <= size /\ new.current <= new.limit
          /\ new.limit = IF ok THEN limit ELSE map[p].limit
      BY <1>1 DEF Remapped, Mappings, smaller
    <2>3. map'[p] = new /\ map' \in [Procs -> Mappings] /\ \A q \in Procs : q # p => map'[q] = map[q]
      BY <1>1, <2>1, <2>2
    <2>4. file' = size /\ discarded' \in Nat
      BY <1>1, <2>1 DEF Sized
    <2>5. ~ok => plan.busy /\ map[p].limit < limit
      BY <1>1, <1>3, <2>1 DEF Stuck, Mappings
    <2> QED
      BY <1>1, <2>2, <2>3, <2>4, <2>5 DEF Kept, Placed, Good, Mappings
  <1> QED
    BY <1>4, <1>5

\* txn_setup_primal does not cut the file and leaves the mapping with what
\* the transaction requires.
LEMMA SetupPrimal ==
  ASSUME TypeOK, NEW p \in Procs, Good(p), NEW s \in Metas, Fits(plan, s),
         NEW required \in Nat, required <= s.now, NEW ok \in BOOLEAN,
         txn_setup_primal(p, s, required, ok)
  PROVE  /\ Kept(p)
         /\ map[p].limit <= map'[p].limit
         /\ file <= file'
         /\ ok => required <= map'[p].limit
         /\ \/ /\ required <= map[p].current /\ file' = file
               /\ \/ map'[p].current <= file
                  \/ map'[p].current = map[p].current /\ map[p].current <= s.now
            \/ s.now <= file' /\ map'[p].current <= file'
  <1>1. map[p] \in Mappings /\ file \in Nat /\ discarded \in Nat /\ map \in [Procs -> Mappings]
        /\ s.now \in Nat /\ s.upper \in Nat
    BY DEF TypeOK, Metas
  <1>2. CASE required > map[p].current
    <2>1. dxb_resize(p, s.now, s.upper, "grow", ok)
      BY <1>2 DEF txn_setup_primal
    <2>2. /\ Kept(p) /\ Placed(p, s.now)
          /\ map[p].limit <= map'[p].limit
          /\ ok => s.now <= map'[p].limit
          /\ file <= file'
      BY <1>1, <2>1, ImplicitResize DEF Fits
    <2>3. map[p].current < s.now
      BY <1>1, <1>2 DEF Mappings
    <2>4. s.now <= file' /\ map'[p].current <= s.now
      BY <1>1, <2>2, <2>3 DEF Placed, Mappings
    <2>5. map'[p] \in Mappings /\ file' \in Nat
      BY <2>2 DEF Kept
    <2> QED
      BY <1>1, <2>2, <2>4, <2>5 DEF Mappings
  <1>3. CASE ~(required > map[p].current)
    <2>1. /\ ok /\ UNCHANGED <<file, discarded>>
          /\ map' = IF s.now < map[p].current
                    THEN [map EXCEPT ![p].filesize = file,
                                     ![p].current = IF @ > file THEN smaller(map[p].limit, file)
                                                    ELSE @]
                    ELSE map
      BY <1>3 DEF txn_setup_primal
    <2>2. required <= map[p].current
      BY <1>1, <1>3 DEF Mappings
    <2>3. CASE s.now < map[p].current
      <3> DEFINE now == IF map[p].current > file THEN smaller(map[p].limit, file) ELSE map[p].current
      <3>1. now \in Nat /\ now <= map[p].limit /\ now <= file
        BY <1>1 DEF Good, Mappings, smaller
      <3>2. map'[p] = [current |-> now, limit |-> map[p].limit, filesize |-> file]
        BY <1>1, <2>1, <2>3 DEF Mappings
      <3>3. map'[p].current = now /\ map'[p].limit = map[p].limit
        BY <3>2
      <3>4. map' \in [Procs -> Mappings] /\ \A q \in Procs : q # p => map'[q] = map[q]
        BY <1>1, <2>1, <2>3, <3>1, <3>2 DEF Mappings
      <3> QED
        BY <1>1, <2>1, <2>2, <3>1, <3>3, <3>4 DEF Kept, Good, Mappings
    <2>4. CASE ~(s.now < map[p].current)
      <3>1. map' = map
        BY <2>1, <2>4
      <3> QED
        BY <1>1, <2>1, <2>2, <2>4, <3>1 DEF Kept, Good, Mappings
    <2> QED
      BY <2>3, <2>4
  <1> QED
    BY <1>2, <1>3

-----------------------------------------------------------------------------
(* Meta pages                                                              *)

\* mdbx_env_set_geometry works out a meta page in order, with room for what
\* is used; one that names no size does not cut below a fitting upper bound.
LEMMA NewGeoFits ==
  ASSUME NEW m \in Metas, Fits(plan, m), NEW g \in AskedGeo, Ordered(g), Whole(g.now),
         g.upper \in Uppers(plan), NEW used \in Nat, Whole(used), m.first <= used, used <= g.upper
  PROVE  LET new == NewGeo(m, g, used)
         IN  /\ new \in Metas /\ Fits(plan, new)
             /\ new.first = m.first /\ new.txn = m.txn /\ new.steady = m.steady
             /\ used <= new.now /\ new.upper = g.upper
             /\ g.now = 0 /\ m.now <= g.upper => m.now <= new.now
  <1> DEFINE base == IF g.now = 0 THEN pgno_ceil2os(m.now) ELSE g.now
             now == smaller(larger(larger(base, used), g.lower), g.upper)
  <1>1. /\ g.lower \in Nat /\ g.upper \in Nat /\ g.grow \in Nat /\ g.shrink \in Nat /\ g.now \in Nat
        /\ m.first \in Nat /\ m.now \in Nat /\ m.txn \in Nat /\ m.steady \in BOOLEAN
    BY DEF AskedGeo, Metas
  <1>2. base \in Nat /\ Whole(base) /\ (g.now = 0 => base = m.now)
    BY <1>1 DEF Fits, Whole
  <1>3. /\ now \in Nat /\ Whole(now) /\ g.lower <= now /\ now <= g.upper /\ used <= now
        /\ g.now = 0 /\ m.now <= g.upper => m.now <= now
    BY <1>1, <1>2 DEF larger, smaller, Ordered
  <1>4. NewGeo(m, g, used) = [txn |-> m.txn, first |-> m.first, now |-> now, lower |-> g.lower,
                              upper |-> g.upper, grow |-> g.grow, shrink |-> g.shrink,
                              steady |-> m.steady]
    <2>1. m = [txn |-> m.txn, first |-> m.first, now |-> m.now, lower |-> m.lower,
               upper |-> m.upper, grow |-> m.grow, shrink |-> m.shrink, steady |-> m.steady]
      BY DEF Metas
    <2>2. NewGeo(m, g, used) = [m EXCEPT !.lower = g.lower, !.upper = g.upper, !.grow = g.grow,
                                         !.shrink = g.shrink, !.now = now]
      BY DEF NewGeo, Metas
    <2> HIDE DEF now
    <2> QED
      BY <2>1, <2>2
  <1>5. AtLeast(plan, g.upper) /\ AtMost(plan, g.upper)
    BY <1>1 DEF AtLeast, AtMost
  <1> HIDE DEF now
  <1>6. NewGeo(m, g, used) \in Metas
    BY <1>1, <1>3, <1>4 DEF Metas
  <1> QED
    BY <1>1, <1>3, <1>4, <1>5, <1>6 DEF Fits, Ordered

\* So does the first opener.
LEMMA OpenGeoFits ==
  ASSUME TypeOK, NEW m \in Metas, Fits(plan, m), NEW g \in AskedGeo, Ordered(g), Whole(g.now),
         g.upper \in Uppers(plan)
  PROVE  LET new == OpenGeo(m, g)
         IN  /\ new \in Metas /\ Fits(plan, new)
             /\ new.first = m.first /\ new.txn = m.txn /\ new.steady = m.steady
  <1> DEFINE least == pgno_ceil2os(m.first)
             size == larger(g.now, least)
             cut == IF g.shrink > 0 /\ size > m.first THEN NextStep(m.first, g.shrink) ELSE size
             upper == larger(g.upper, least)
             now == smaller(larger(pgno_ceil2os(cut), g.lower), upper)
  <1>1. /\ g.lower \in Nat /\ g.upper \in Nat /\ g.grow \in Nat /\ g.shrink \in Nat /\ g.now \in Nat
        /\ m.first \in Nat /\ m.now \in Nat /\ m.txn \in Nat /\ m.steady \in BOOLEAN /\ m.upper \in Nat
    BY DEF AskedGeo, Metas
  <1>2. least \in Nat /\ Whole(least) /\ m.first <= least /\ least <= m.now
    BY <1>1, CeilAbove, CeilWhole, CeilWithin DEF Fits
  <1>3. upper \in Nat /\ Whole(upper) /\ g.upper <= upper /\ least <= upper /\ upper \in {g.upper, least}
    BY <1>1, <1>2 DEF larger, Ordered
  <1>4. cut \in Nat /\ m.first <= cut
    <2>1. size \in Nat /\ least <= size
      BY <1>1, <1>2 DEF larger
    <2>2. CASE g.shrink > 0
      <3>1. NextStep(m.first, g.shrink) \in Nat /\ m.first < NextStep(m.first, g.shrink)
        BY <1>1, <2>2, NextStepAbove
      <3> QED
        BY <1>1, <1>2, <2>1, <3>1
    <2>3. CASE ~(g.shrink > 0)
      BY <1>1, <1>2, <2>1, <2>3
    <2> QED
      BY <2>2, <2>3
  <1>5. pgno_ceil2os(cut) \in Nat /\ Whole(pgno_ceil2os(cut)) /\ m.first <= pgno_ceil2os(cut)
    <2> HIDE DEF cut
    <2>1. cut <= pgno_ceil2os(cut) /\ pgno_ceil2os(cut) \in Nat /\ Whole(pgno_ceil2os(cut))
      BY <1>4, CeilAbove, CeilWhole
    <2> QED
      BY <1>1, <1>4, <2>1
  <1>6. now \in Nat /\ Whole(now) /\ m.first <= now /\ g.lower <= now /\ now <= upper
    <2> HIDE DEF cut, upper, least
    <2> QED
      BY <1>1, <1>2, <1>3, <1>5 DEF larger, smaller, Ordered
  <1>7. AtLeast(plan, upper) /\ AtMost(plan, upper)
    <2> HIDE DEF upper, least
    <2>1. AtLeast(plan, upper)
      BY <1>1, <1>3 DEF AtLeast
    <2>2. CASE upper = g.upper
      BY <1>1, <2>1, <2>2 DEF AtMost
    <2>3. CASE upper = least
      <3>1. least <= m.upper /\ AtMost(plan, m.upper)
        BY <1>1, <1>2 DEF Fits
      <3>2. \A u \in Uppers(plan) : u \in Nat
        BY DEF Uppers, TypeOK, PlanType, AskedGeo
      <3>3. PICK u \in Uppers(plan) : m.upper <= u
        BY <3>1 DEF AtMost
      <3>4. upper <= u
        BY <1>1, <1>2, <2>3, <3>1, <3>2, <3>3
      <3> QED
        BY <2>1, <3>4 DEF AtMost
    <2> QED
      BY <1>3, <2>1, <2>2, <2>3
  <1> DEFINE new == [txn |-> m.txn, first |-> m.first, now |-> now, lower |-> g.lower,
                     upper |-> upper, grow |-> g.grow, shrink |-> g.shrink, steady |-> m.steady]
  <1>8. OpenGeo(m, g) \in {m, new}
    BY DEF OpenGeo, Metas
  <1> HIDE DEF now, upper
  <1>9. new \in Metas
    BY <1>1, <1>3, <1>6 DEF Metas
  <1>10. Fits(plan, new)
    BY <1>1, <1>2, <1>3, <1>6, <1>7 DEF Fits, Ordered
  <1> QED
    BY <1>8, <1>9, <1>10

\* dxb_sync_locked keeps a meta page in order; it cuts the file no further
\* than what is needed, and then makes the page steady.
LEMMA PendingFits ==
  ASSUME NEW m \in Metas, Fits(plan, m), NEW p \in Procs, NEW by \in {"txn", "sync"},
         NEW sync \in BOOLEAN, NEW largest \in Nat, m.first <= largest
  PROVE  LET h == Pending(p, by, m, sync, largest)
         IN  /\ h \in Holds /\ h.pc = "sync" /\ h.by = by /\ h.proc = p /\ h.old = h.meta
             /\ Fits(plan, h.meta) /\ h.meta.first = m.first
             /\ h.cut => /\ h.meta.steady /\ largest <= h.meta.now /\ h.meta.now <= m.now
                         /\ h.meta.txn \in {m.txn, m.txn + 1} /\ h.meta.txn # head.txn
             /\ ~h.cut => h.meta.steady = sync /\ h.meta.now = m.now /\ h.meta.txn = m.txn
  <1>1. /\ m.lower \in Nat /\ m.upper \in Nat /\ m.grow \in Nat /\ m.shrink \in Nat
        /\ m.first \in Nat /\ m.now \in Nat /\ m.txn \in Nat /\ Gap \in Nat
    BY GeometryAssumption DEF Metas
  <1>2. CASE Shrinks(m, largest)
    <2> DEFINE step == IF m.grow > 0 THEN m.grow ELSE m.shrink
               next == NextStep(largest + Gap, step)
               now == Bottom(m, largest)
               meta == [txn |-> IF m.txn = head.txn THEN m.txn + 1 ELSE m.txn,
                        first |-> m.first, now |-> now, lower |-> m.lower, upper |-> m.upper,
                        grow |-> m.grow, shrink |-> m.shrink, steady |-> TRUE]
    <2>1. step \in Nat \ {0}
      BY <1>1, <1>2 DEF Shrinks
    <2>2. next \in Nat /\ largest + Gap < next
      <3>1. largest + Gap \in Nat
        BY <1>1
      <3> HIDE DEF step
      <3> QED
        BY <2>1, <3>1, NextStepAbove
    <2>3. pgno_ceil2os(next) \in Nat /\ Whole(pgno_ceil2os(next)) /\ next <= pgno_ceil2os(next)
      <3> HIDE DEF next
      <3> QED
        BY <2>2, CeilAbove, CeilWhole
    <2>4. now = larger(pgno_ceil2os(next), m.lower)
      BY DEF Bottom
    <2>5. now \in Nat /\ Whole(now) /\ largest <= now /\ m.lower <= now /\ now <= m.now
      <3>1. m.now > now
        BY <1>2 DEF Shrinks
      <3> HIDE DEF now, next
      <3> QED
        BY <1>1, <2>2, <2>3, <2>4, <3>1 DEF larger, Fits
    <2>6. Pending(p, by, m, sync, largest)
          = [pc |-> "sync", by |-> by, proc |-> p, cut |-> TRUE, meta |-> meta, old |-> meta]
      BY <1>2 DEF Pending, Held, Forced, Metas
    <2> HIDE DEF now
    <2>7. meta \in Metas
      BY <1>1, <2>5 DEF Metas
    <2>8. Fits(plan, meta)
      BY <1>1, <2>5 DEF Fits
    <2> HIDE DEF meta
    <2>9. Pending(p, by, m, sync, largest) \in Holds
      BY <2>6, <2>7 DEF Holds
    <2>10. /\ meta.first = m.first /\ meta.steady = TRUE /\ meta.now = now
           /\ meta.txn \in {m.txn, m.txn + 1} /\ meta.txn # head.txn
      BY <1>1 DEF meta
    <2> QED
      BY <2>5, <2>6, <2>8, <2>9, <2>10
  <1>3. CASE ~Shrinks(m, largest)
    <2> DEFINE meta == [m EXCEPT !.steady = sync]
    <2>1. meta \in Metas /\ Fits(plan, meta) /\ meta.first = m.first
          /\ meta.steady = sync /\ meta.now = m.now /\ meta.txn = m.txn
      BY DEF Metas, Fits
    <2>2. Pending(p, by, m, sync, largest)
          = [pc |-> "sync", by |-> by, proc |-> p, cut |-> FALSE, meta |-> meta, old |-> meta]
      BY <1>3 DEF Pending, Held
    <2> HIDE DEF meta
    <2>3. Pending(p, by, m, sync, largest) \in Holds
      BY <2>1, <2>2 DEF Holds
    <2> DEFINE h == Pending(p, by, m, sync, largest)
    <2>5. /\ h.pc = "sync" /\ h.by = by /\ h.proc = p /\ h.cut = FALSE
          /\ h.meta = meta /\ h.old = meta
      BY <2>2
    <2> HIDE DEF h
    <2>6. h.meta.steady = sync /\ h.meta.now = m.now /\ h.meta.txn = m.txn
      BY <2>1, <2>5
    <2>7. h \in Holds
      BY <2>3 DEF h
    <2>8. Fits(plan, h.meta) /\ h.meta.first = m.first /\ h.old = h.meta
      BY <2>1, <2>5
    <2>9. ~h.cut
      BY <2>5
    <2> QED
      BY <2>5, <2>6, <2>7, <2>8, <2>9 DEF h
  <1> QED
    BY <1>2, <1>3

\* dxb_sync_locked may discard the tail meanwhile.
LEMMA DiscardedType ==
  ASSUME TypeOK, NEW m \in Metas, NEW largest \in Nat
  PROVE  Discarded(m, largest) \in Nat
  BY CeilAbove DEF TypeOK, Discarded, Metas

-----------------------------------------------------------------------------
(* The steps of the readers                                                *)

\* What Readers says of one of them.
ReaderFine(p) == reader[p].pc # "idle" =>
    /\ IsOpen(p) /\ Fits(plan, reader[p].snap)
    /\ reader[p].snap.txn <= head.txn
    /\ reader[p].snap.txn = head.txn => reader[p].snap.first = head.first
    /\ reader[p].pc # "publish" => slot[p] = reader[p].snap.first
    /\ Pinned(p) => reader[p].snap.first <= file
    /\ reader[p].pc = "active" => reader[p].snap.first <= map[p].limit

\* A reader that was not registered before may be so now on the head only.
LEMMA ReaderMoves ==
  ASSUME Inv, NEW p \in Procs, TypeOK', ReaderFine(p)',
         UNCHANGED <<plan, file, durable, head, steady, boot, map, w, discarded>>,
         \A q \in Procs : q # p => reader'[q] = reader[q] /\ slot'[q] = slot[q],
         Pinned(p)' => \/ reader'[p].snap.first = head.first
                       \/ Pinned(p) /\ reader'[p].snap = reader[p].snap
  PROVE  Inv'
  <1>1. Pages' /\ Maps'
    BY DEF Inv, Pages, Maps, Mapped, IsOpen, Opening
  <1>2. Readers'
    <2> SUFFICES ASSUME NEW q \in Procs PROVE ReaderFine(q)'
      BY DEF Readers, ReaderFine
    <2>1. CASE q = p
      BY <2>1
    <2>2. CASE q # p
      BY <2>2 DEF Inv, Readers, ReaderFine, IsOpen, Opening, Mapped, Pinned
    <2> QED
      BY <2>1, <2>2
  <1>3. (w.pc # "idle" /\ Cutting) => Spared'
    BY DEF Inv, Owner, Spared, Pinned
  <1>4. Owner'
    BY <1>3 DEF Inv, Owner, Opener, Transacting, Resizing, Syncing, Cutting, Mapped, Header
  <1> QED
    BY <1>1, <1>2, <1>4 DEF Inv

\* A reader takes the head.
LEMMA SeizeStep ==
  ASSUME Inv, NEW p \in Procs, Seize(p)
  PROVE  Inv'
  <1> USE DEF Inv
  <1>1. reader' = [reader EXCEPT ![p] = [pc |-> "publish", snap |-> head]]
        /\ UNCHANGED <<plan, file, durable, head, steady, boot, map, slot, w, discarded>>
        /\ IsOpen(p)
    BY DEF Seize
  <1>2. reader'[p] = [pc |-> "publish", snap |-> head] /\ reader'[p] \in Readings
    BY <1>1 DEF TypeOK, Readings
  <1>3. TypeOK'
    BY <1>1, <1>2 DEF TypeOK
  <1>4. IsOpen(p)' /\ Fits(plan, head)
    BY <1>1 DEF IsOpen, Opening, Mapped, Pages
  <1>5. ReaderFine(p)'
    BY <1>1, <1>2, <1>4 DEF ReaderFine, Pinned, TypeOK, Metas
  <1> QED
    BY <1>1, <1>2, <1>3, <1>5, ReaderMoves DEF Pinned, TypeOK

\* It publishes the size of its snapshot.
LEMMA PublishStep ==
  ASSUME Inv, NEW p \in Procs, Publish(p)
  PROVE  Inv'
  <1> USE DEF Inv
  <1>1. reader' = [reader EXCEPT ![p].pc = "check"] /\ slot' = [slot EXCEPT ![p] = reader[p].snap.first]
        /\ UNCHANGED <<plan, file, durable, head, steady, boot, map, w, discarded>>
        /\ reader[p].pc = "publish"
    BY DEF Publish
  <1>2. reader[p] \in Readings
    BY <1>1 DEF TypeOK, NoReader
  <1>3. reader'[p] = [pc |-> "check", snap |-> reader[p].snap] /\ reader'[p] \in Readings
        /\ slot'[p] = reader[p].snap.first /\ slot'[p] \in Nat
    BY <1>1, <1>2 DEF TypeOK, Readings, Metas
  <1>4. TypeOK'
    BY <1>1, <1>3 DEF TypeOK
  <1>5. ReaderFine(p)'
    BY <1>1, <1>3 DEF ReaderFine, Readers, Pinned, IsOpen, Opening, Mapped
  <1> QED
    BY <1>1, <1>3, <1>4, <1>5, ReaderMoves DEF Pinned, TypeOK

\* It is registered if the head is still the one it took.
LEMMA CheckStep ==
  ASSUME Inv, NEW p \in Procs, Check(p)
  PROVE  Inv'
  <1> USE DEF Inv
  <1>1. reader' = [reader EXCEPT ![p] = IF head.txn = reader[p].snap.txn
                                        THEN [@ EXCEPT !.pc = "setup"]
                                        ELSE [pc |-> "publish", snap |-> head]]
        /\ UNCHANGED <<plan, file, durable, head, steady, boot, map, slot, w, discarded>>
        /\ reader[p].pc = "check"
    BY DEF Check
  <1>2. reader[p] \in Readings /\ head \in Metas
    BY <1>1 DEF TypeOK, NoReader
  <1>3. IsOpen(p) /\ IsOpen(p)' /\ boot /\ Fits(plan, head) /\ head.first <= file
    BY <1>1 DEF Readers, IsOpen, Opening, Mapped, Maps, Pages
  <1>4. CASE head.txn = reader[p].snap.txn
    <2>1. reader'[p] = [pc |-> "setup", snap |-> reader[p].snap] /\ reader'[p] \in Readings
      BY <1>1, <1>2, <1>4 DEF TypeOK, Readings
    <2>2. TypeOK'
      BY <1>1, <2>1 DEF TypeOK
    <2>3. reader[p].snap.first = head.first /\ slot[p] = reader[p].snap.first
      BY <1>1, <1>4 DEF Readers
    <2>4. ReaderFine(p)'
      BY <1>1, <1>3, <2>1, <2>3 DEF ReaderFine, Readers, Pinned
    <2> QED
      BY <1>1, <2>1, <2>2, <2>3, <2>4, ReaderMoves DEF Pinned, TypeOK
  <1>5. CASE head.txn # reader[p].snap.txn
    <2>1. reader'[p] = [pc |-> "publish", snap |-> head] /\ reader'[p] \in Readings
      BY <1>1, <1>2, <1>5 DEF TypeOK, Readings
    <2>2. TypeOK'
      BY <1>1, <2>1 DEF TypeOK
    <2>3. ReaderFine(p)'
      BY <1>1, <1>2, <1>3, <2>1 DEF ReaderFine, Pinned, Metas
    <2> QED
      BY <1>1, <2>1, <2>2, <2>3, ReaderMoves DEF Pinned, TypeOK
  <1> QED
    BY <1>4, <1>5

\* It is done.
LEMMA EndStep ==
  ASSUME Inv, NEW p \in Procs, End(p)
  PROVE  Inv'
  <1> USE DEF Inv
  <1>1. reader' = [reader EXCEPT ![p] = NoReader] /\ slot' = [slot EXCEPT ![p] = 0]
        /\ UNCHANGED <<plan, file, durable, head, steady, boot, map, w, discarded>>
    BY DEF End
  <1>2. reader'[p] = NoReader /\ TypeOK'
    BY <1>1 DEF TypeOK
  <1>3. ReaderFine(p)' /\ ~Pinned(p)'
    BY <1>2 DEF ReaderFine, NoReader, Pinned
  <1> QED
    BY <1>1, <1>2, <1>3, ReaderMoves DEF TypeOK

-----------------------------------------------------------------------------
(* Steps that make room                                                    *)

\* A mapping or the file grows: what was in order stays so.
LEMMA RoomMade ==
  ASSUME Inv, NEW p \in Procs, IsOpen(p),
         UNCHANGED <<plan, durable, head, steady, boot>>, Kept(p),
         map[p].limit <= map'[p].limit, file <= file',
         map'[p].current <= file' \/ map'[p].current <= map[p].current,
         \A q \in Procs : IsOpen(q)' => IsOpen(q)
  PROVE  /\ Pages' /\ Maps'
         /\ \A q \in Procs : Mapped(q)' <=> Mapped(q)
         /\ \A q \in Procs : map[q].limit <= map'[q].limit
  <1> USE DEF Inv
  <1>1. file \in Nat /\ file' \in Nat /\ map \in [Procs -> Mappings] /\ map' \in [Procs -> Mappings]
        /\ head \in Metas /\ steady \in Metas
    BY DEF TypeOK, Kept
  <1>2. Pages'
    BY <1>1 DEF Pages, Metas
  <1>3. \A q \in Procs : Mapped(q)' <=> Mapped(q)
    BY <1>1 DEF Kept, Mapped, IsOpen, Mappings
  <1>4. \A q \in Procs : map[q].limit <= map'[q].limit
    BY <1>1 DEF Kept, Mappings
  <1>5. \A q \in Procs : Mapped(q)' =>
           map'[q].current <= map'[q].limit /\ Whole(map'[q].limit) /\ AtLeast(plan, map'[q].limit)
    <2> SUFFICES ASSUME NEW q \in Procs, Mapped(q)'
                 PROVE  map'[q].current <= map'[q].limit /\ Whole(map'[q].limit)
                        /\ AtLeast(plan, map'[q].limit)
      OBVIOUS
    <2>1. CASE q = p
      BY <2>1 DEF Kept
    <2>2. CASE q # p
      BY <1>3, <2>2 DEF Kept, Maps
    <2> QED
      BY <2>1, <2>2
  <1>6. plan.alone => \A q, r \in Procs : Mapped(q)' /\ Mapped(r)' => q = r /\ map'[q].current <= file'
    <2> SUFFICES ASSUME plan.alone, NEW q \in Procs, NEW r \in Procs, Mapped(q)', Mapped(r)'
                 PROVE  q = r /\ map'[q].current <= file'
      OBVIOUS
    <2>1. q = r /\ map[q].current <= file /\ q = p
      BY <1>3 DEF Maps, IsOpen
    <2>2. map[p] \in Mappings /\ map'[p] \in Mappings
      BY <1>1
    <2> QED
      BY <1>1, <2>1, <2>2 DEF Mappings
  <1>7. ~plan.alone => \A q \in Procs : IsOpen(q)' => head.now <= file'
    BY <1>1 DEF Maps, Metas
  <1>8. ~boot => \A q \in Procs : ~IsOpen(q)'
    BY DEF Maps
  <1>9. Maps'
    <2>1. plan' = plan /\ head' = head /\ boot' = boot
      OBVIOUS
    <2> QED
      BY <1>5, <1>6, <1>7, <1>8, <2>1 DEF Maps
  <1> QED
    BY <1>2, <1>3, <1>4, <1>9

\* A reader begins.
LEMMA SetupStep ==
  ASSUME Inv, NEW p \in Procs, Setup(p)
  PROVE  Inv'
  <1> USE DEF Inv
  <1>1. PICK ok \in BOOLEAN :
           /\ reader[p].pc = "setup"
           /\ txn_setup_primal(p, reader[p].snap, reader[p].snap.first, ok)
           /\ reader' = [reader EXCEPT ![p] = IF ok THEN [@ EXCEPT !.pc = "active"] ELSE NoReader]
           /\ slot' = IF ok THEN slot ELSE [slot EXCEPT ![p] = 0]
           /\ UNCHANGED <<plan, durable, head, steady, boot, w>>
    BY DEF Setup
  <1> DEFINE s == reader[p].snap
  <1>2. reader[p] \in Readings /\ s \in Metas /\ s.first \in Nat /\ s.now \in Nat /\ s.first <= s.now
        /\ Fits(plan, s) /\ IsOpen(p) /\ ReaderFine(p)
    BY <1>1 DEF TypeOK, Readings, Metas, Readers, Fits, NoReader, ReaderFine
  <1>3. Good(p)
    BY <1>2 DEF Good, Maps, IsOpen
  <1>4. /\ Kept(p)
        /\ map[p].limit <= map'[p].limit
        /\ file <= file'
        /\ ok => s.first <= map'[p].limit
        /\ \/ /\ s.first <= map[p].current /\ file' = file
              /\ \/ map'[p].current <= file
                 \/ map'[p].current = map[p].current /\ map[p].current <= s.now
           \/ s.now <= file' /\ map'[p].current <= file'
    BY <1>1, <1>2, <1>3, SetupPrimal
  <1>5. map'[p].current <= file' \/ map'[p].current <= map[p].current
    BY <1>4 DEF TypeOK, Kept, Mappings
  <1>6. file \in Nat /\ file' \in Nat /\ map \in [Procs -> Mappings] /\ map' \in [Procs -> Mappings]
    BY <1>4 DEF TypeOK, Kept
  <1>7. \A q \in Procs : IsOpen(q)' => IsOpen(q)
    <2>1. \A q \in Procs : q # p => map'[q] = map[q]
      BY <1>4 DEF Kept
    <2> QED
      BY <1>1, <1>2, <2>1 DEF IsOpen, Opening, Mapped
  <1>8. /\ Pages' /\ Maps'
        /\ \A q \in Procs : Mapped(q)' <=> Mapped(q)
        /\ \A q \in Procs : map[q].limit <= map'[q].limit
    BY <1>1, <1>2, <1>4, <1>5, <1>7, RoomMade
  <1>9. \A q \in Procs : IsOpen(q)' <=> IsOpen(q)
    BY <1>1, <1>8 DEF IsOpen, Opening
  <1>10. reader'[p] \in {NoReader} \cup Readings
         /\ (reader'[p].pc # "idle" => ok /\ reader'[p] = [pc |-> "active", snap |-> s])
    BY <1>1, <1>2 DEF TypeOK, Readings, NoReader
  <1>11. TypeOK'
    BY <1>1, <1>4, <1>10 DEF TypeOK, Kept
  <1>12. ReaderFine(p)'
    <2>1. SUFFICES ASSUME ok, reader'[p] = [pc |-> "active", snap |-> s] PROVE ReaderFine(p)'
      BY <1>10 DEF ReaderFine
    <2>2. slot' = slot /\ slot[p] = s.first /\ s.first <= file
      BY <1>1, <1>2, <2>1 DEF ReaderFine, Pinned
    <2>3. s.first <= file'
      BY <1>2, <1>4, <1>6, <2>2
    <2> QED
      BY <1>1, <1>2, <1>4, <1>9, <2>1, <2>2, <2>3 DEF ReaderFine, Pinned
  <1>13. Readers'
    <2> SUFFICES ASSUME NEW q \in Procs PROVE ReaderFine(q)'
      BY DEF Readers, ReaderFine
    <2>1. CASE q = p
      BY <1>12, <2>1
    <2>2. CASE q # p
      <3>1. reader'[q] = reader[q] /\ slot'[q] = slot[q] /\ map'[q] = map[q]
        BY <1>1, <1>4, <2>2 DEF TypeOK, Kept
      <3>2. reader[q].pc # "idle" => reader[q].snap.first \in Nat
        BY DEF TypeOK, Readings, Metas, NoReader
      <3> QED
        BY <1>1, <1>4, <1>6, <1>9, <3>1, <3>2 DEF Readers, ReaderFine, Pinned
    <2> QED
      BY <2>1, <2>2
  <1>14. Owner'
    <2> SUFFICES ASSUME w.pc # "idle" PROVE Owner'
      BY <1>1 DEF Owner
    <2>1. w \in Holds /\ w.proc \in Procs /\ w.meta \in Metas /\ w.old \in Metas
      BY DEF TypeOK, Holds, Idle
    <2>2. Cutting => Spared'
      BY <1>1, <1>10 DEF Owner, Spared, Pinned, Cutting, TypeOK
    <2>3. map[w.proc] \in Mappings /\ map'[w.proc] \in Mappings /\ map[w.proc].limit <= map'[w.proc].limit
      BY <1>6, <1>8, <2>1
    <2>4. \A m \in Metas : Transacting(m) => Transacting(m)'
      BY <1>1, <1>4, <1>6, <2>3 DEF Transacting, Metas, Mappings
    <2>5. map[w.proc].current <= file => map'[w.proc].current <= file'
      BY <1>4, <1>5, <1>6, <2>1, <2>3 DEF Kept, Mappings
    <2>6. Opener'
      BY <1>1, <1>4, <1>6, <1>8, <2>1 DEF Owner, Opener, Header, Metas
    <2>7. w.pc = "resize" => Resizing'
      BY <1>1, <2>1, <2>3, <2>4 DEF Owner, Resizing, Metas, Mappings
    <2>8. w.pc = "sync" => Syncing'
      BY <1>1, <1>4, <1>6, <2>1 DEF Owner, Syncing, Metas
    <2> QED
      BY <1>1, <1>8, <2>1, <2>2, <2>4, <2>5, <2>6, <2>7, <2>8 DEF Owner, Cutting
  <1> QED
    BY <1>8, <1>11, <1>13, <1>14

-----------------------------------------------------------------------------
(* The steps of the write transaction                                      *)

\* Readers do not see what the writer does to the mapping.
LEMMA ReadersSee ==
  ASSUME Inv, UNCHANGED <<plan, head, reader, slot>>,
         file' \in Nat, map' \in [Procs -> Mappings], file <= file',
         \A q \in Procs : map[q].limit <= map'[q].limit,
         \A q \in Procs : IsOpen(q) => IsOpen(q)'
  PROVE  Readers'
  <1> SUFFICES ASSUME NEW q \in Procs PROVE ReaderFine(q)'
    BY DEF Readers, ReaderFine
  <1>1. map[q] \in Mappings /\ map'[q] \in Mappings /\ file \in Nat
    BY DEF Inv, TypeOK
  <1>2. reader[q].pc # "idle" => reader[q].snap.first \in Nat
    BY DEF Inv, TypeOK, Readings, Metas, NoReader
  <1> QED
    BY <1>1, <1>2 DEF Inv, Readers, ReaderFine, Pinned, Mappings

\* The lock is given up and nothing else changes: no file has to be cut.
LEMMA LetGo ==
  ASSUME Inv, w.pc # "idle" => w.by # "open", w' = Idle,
         UNCHANGED <<plan, file, durable, head, steady, boot, map, slot, reader>>,
         discarded' \in Nat
  PROVE  Inv'
  <1> USE DEF Inv
  <1>1. \A q \in Procs : IsOpen(q)' <=> IsOpen(q)
    BY DEF IsOpen, Opening, Mapped, Idle
  <1>2. Pages' /\ Maps'
    BY <1>1 DEF Pages, Maps, Mapped
  <1>3. Readers'
    BY <1>1 DEF Readers, Pinned
  <1>4. Owner'
    BY DEF Owner, Idle
  <1>5. TypeOK'
    BY DEF TypeOK
  <1> QED
    BY <1>2, <1>3, <1>4, <1>5

\* A write transaction begins.
LEMMA BeginStep ==
  ASSUME Inv, Covered, NEW p \in Procs, Begin(p)
  PROVE  Inv'
  <1> USE DEF Inv
  <1> DEFINE m == [head EXCEPT !.txn = @ + 1]
  <1>1. PICK ok \in BOOLEAN :
           /\ w.pc = "idle" /\ IsOpen(p)
           /\ txn_setup_primal(p, head, head.now, ok)
           /\ w' = IF ok THEN Held("txn", "txn", p, m) ELSE Idle
           /\ UNCHANGED <<plan, durable, head, steady, boot, slot, reader>>
    BY DEF Begin
  <1>2. head \in Metas /\ head.now \in Nat /\ Fits(plan, head) /\ head.txn \in Nat /\ head.first \in Nat
    BY DEF TypeOK, Metas, Pages
  <1>3. Good(p) /\ Mapped(p)
    BY <1>1 DEF Good, Maps, IsOpen
  <1>4. /\ Kept(p)
        /\ map[p].limit <= map'[p].limit
        /\ file <= file'
        /\ ok => head.now <= map'[p].limit
        /\ \/ /\ head.now <= map[p].current /\ file' = file
              /\ \/ map'[p].current <= file
                 \/ map'[p].current = map[p].current /\ map[p].current <= head.now
           \/ head.now <= file' /\ map'[p].current <= file'
    BY <1>1, <1>2, <1>3, SetupPrimal
  <1>5. map'[p].current <= file' \/ map'[p].current <= map[p].current
    BY <1>4 DEF TypeOK, Kept, Mappings
  <1>6. file \in Nat /\ file' \in Nat /\ map \in [Procs -> Mappings] /\ map' \in [Procs -> Mappings]
    BY <1>4 DEF TypeOK, Kept
  <1>7. m \in Metas /\ Fits(plan, m) /\ m.txn = head.txn + 1 /\ m.now = head.now /\ m.first = head.first
    BY <1>2 DEF Metas, Fits
  <1>8. w' = Idle \/ /\ ok /\ w' \in Holds /\ w'.pc = "txn" /\ w'.by = "txn" /\ w'.proc = p
                     /\ w'.cut = FALSE /\ w'.meta = m /\ w'.old = m
    <2>1. m \in Metas
      BY <1>7
    <2> HIDE DEF m
    <2>2. CASE ok
      BY <1>1, <2>1, <2>2 DEF Held, Holds
    <2> QED
      BY <1>1, <2>2
  <1>9. \A q \in Procs : (Mapped(q)' <=> Mapped(q)) => (IsOpen(q)' <=> IsOpen(q))
    BY <1>1, <1>8 DEF IsOpen, Opening, Idle
  <1>10. \A q \in Procs : Mapped(q)' <=> Mapped(q)
    BY <1>3, <1>4, <1>6 DEF Kept, Mapped, Mappings
  <1>11. /\ Pages' /\ Maps'
         /\ \A q \in Procs : map[q].limit <= map'[q].limit
    BY <1>1, <1>4, <1>5, <1>9, <1>10, RoomMade
  <1>12. TypeOK'
    BY <1>1, <1>4, <1>8 DEF TypeOK, Kept
  <1>13. Readers'
    BY <1>1, <1>4, <1>6, <1>9, <1>10, <1>11, ReadersSee
  <1>14. head.now <= file' /\ map'[p].current <= file'
    <2>1. map[p] \in Mappings /\ map'[p] \in Mappings
      BY <1>6
    <2>2. head.now <= file' \/ (head.now <= map[p].current /\ file' = file)
      BY <1>4
    <2>3. head.now <= file'
      BY <1>1, <1>2, <1>3, <1>6, <2>1, <2>2 DEF Maps, Mappings
    <2> QED
      BY <1>2, <1>4, <1>6, <2>1, <2>3 DEF Mappings
  <1>15. Owner'
    <2> HIDE DEF m
    <2>0. w' = Idle => Owner'
      BY DEF Owner, Idle
    <2> SUFFICES ASSUME w' # Idle PROVE Owner'
      BY <2>0
    <2>1. Transacting(w.meta)'
      BY <1>8, <1>1, <1>2, <1>4, <1>7, <1>14 DEF Transacting
    <2>2. boot
      BY <1>1 DEF Maps
    <2> QED
      BY <1>1, <1>3, <1>7, <1>8, <1>10, <1>14, <2>1, <2>2 DEF Owner, Opener, Cutting
  <1> QED
    BY <1>11, <1>12, <1>13, <1>15

\* A transaction is dropped.
LEMMA AbortStep ==
  ASSUME Inv, Abort
  PROVE  Inv'
  <1>1. w.pc = "txn" /\ w' = Idle /\ discarded' \in Nat
        /\ UNCHANGED <<plan, file, durable, head, steady, boot, map, slot, reader>>
    BY DEF Abort, Inv, TypeOK
  <1>2. w.by # "open"
    BY <1>1 DEF Inv, Owner, Opener
  <1> QED
    BY <1>1, <1>2, LetGo

\* Pages at the end are given back.
LEMMA RefundStep ==
  ASSUME Inv, Covered, NEW n \in Nat, Refund(n)
  PROVE  Inv'
  <1> USE DEF Inv
  <1> DEFINE m == [w.meta EXCEPT !.first = @ - n]
  <1>1. w.pc = "txn" /\ w' = [w EXCEPT !.meta.first = @ - n]
        /\ w.meta.first - n >= (IF plan.below THEN MinFirst ELSE head.first)
        /\ UNCHANGED <<plan, file, durable, head, steady, boot, map, slot, reader, discarded>>
    BY DEF Refund
  <1>2. w \in Holds /\ w.meta \in Metas /\ w.proc \in Procs
    BY <1>1 DEF TypeOK, Holds, Idle
  <1>3. MinFirst \in Nat /\ head.first \in Nat /\ MinFirst <= head.first /\ w.meta.first \in Nat
        /\ w.meta.now \in Nat
    BY <1>2, GeometryAssumption DEF TypeOK, Metas, Pages, Fits
  <1>4. Fits(plan, w.meta) /\ Transacting(w.meta)
    BY <1>1 DEF Owner
  <1>5. w.meta.first - n \in Nat /\ MinFirst <= w.meta.first - n
        /\ (plan.asked # {} /\ plan.inside => head.first <= w.meta.first - n)
    BY <1>1, <1>3 DEF Covered, Careful
  <1>6. m \in Metas /\ Fits(plan, m) /\ Transacting(m)
    BY <1>2, <1>3, <1>4, <1>5 DEF Metas, Fits, Transacting
  <1>7. w' = [w EXCEPT !.meta = m]
    BY <1>1, <1>2 DEF Holds, Metas
  <1> HIDE DEF m
  <1>8. w' \in Holds /\ w'.pc = w.pc /\ w'.by = w.by /\ w'.proc = w.proc /\ w'.cut = w.cut
        /\ w'.meta = m /\ w'.old = w.old
    BY <1>2, <1>6, <1>7 DEF Holds
  <1>9. \A q \in Procs : (IsOpen(q)' <=> IsOpen(q)) /\ (Mapped(q)' <=> Mapped(q))
    BY <1>1, <1>8 DEF IsOpen, Opening, Mapped
  <1>10. TypeOK' /\ Pages' /\ Maps'
    BY <1>1, <1>8, <1>9 DEF TypeOK, Pages, Maps
  <1>11. Readers'
    BY <1>1, <1>9 DEF Readers, Pinned
  <1>12. Transacting(w.meta)'
    BY <1>1, <1>6, <1>8 DEF Transacting
  <1>13. w.by # "open" /\ ~w.cut
    BY <1>1 DEF Owner, Opener
  <1>14. /\ Mapped(w.proc) /\ Fits(plan, w.old) /\ boot
         /\ map[w.proc].current <= file
    BY <1>1 DEF Owner
  <1>15. Mapped(w.proc)' /\ map'[w'.proc].current <= file'
    BY <1>1, <1>8, <1>14 DEF Mapped
  <1>16. Owner'
    BY <1>1, <1>6, <1>8, <1>12, <1>13, <1>14, <1>15 DEF Owner, Opener, Cutting
  <1> QED
    BY <1>10, <1>11, <1>16

\* The transaction goes on with another meta page.
LEMMA TxnGoesOn ==
  ASSUME Inv, w.pc = "txn", TypeOK', Pages', Maps',
         UNCHANGED <<plan, durable, head, steady, boot, slot, reader>>,
         \A q \in Procs : Mapped(q)' <=> Mapped(q),
         \A q \in Procs : map[q].limit <= map'[q].limit, file <= file',
         w'.pc = "txn", w'.by = w.by, w'.proc = w.proc, w'.cut = w.cut, w'.old = w.old,
         Fits(plan, w'.meta), Transacting(w.meta)', map'[w'.proc].current <= file'
  PROVE  Inv'
  <1> USE DEF Inv
  <1>1. \A q \in Procs : IsOpen(q)' <=> IsOpen(q)
    BY DEF IsOpen, Opening
  <1>2. Readers'
    BY <1>1, ReadersSee DEF TypeOK
  <1>3. /\ Mapped(w.proc) /\ Fits(plan, w.old) /\ boot
        /\ w.by # "open" /\ ~w.cut /\ w.proc \in Procs
    BY DEF Owner, Opener, TypeOK, Holds, Idle
  <1>4. Mapped(w.proc)'
    BY <1>3 DEF Mapped
  <1>5. Owner'
    BY <1>3, <1>4 DEF Owner, Opener, Cutting
  <1> QED
    BY <1>2, <1>5

\* Pages are allocated, and the file extended if they are at its end.
LEMMA AllocStep ==
  ASSUME Inv, Covered, NEW n \in Nat, Alloc(n)
  PROVE  Inv'
  <1> USE DEF Inv
  <1> DEFINE m == w.meta
             next == m.first + n
             p == w.proc
  <1>1. w.pc = "txn" /\ UNCHANGED <<plan, durable, head, steady, boot, slot, reader>>
    BY DEF Alloc
  <1>2. w \in Holds /\ m \in Metas /\ p \in Procs
    BY <1>1 DEF TypeOK, Holds, Idle
  <1>3. /\ m.txn \in Nat /\ m.first \in Nat /\ m.now \in Nat /\ m.upper \in Nat /\ m.grow \in Nat
        /\ m.lower \in Nat /\ head.first \in Nat /\ head.now \in Nat /\ MinFirst \in Nat /\ file \in Nat
        /\ map \in [Procs -> Mappings] /\ map[p] \in Mappings /\ next \in Nat /\ m.first <= next
    BY <1>2, GeometryAssumption DEF TypeOK, Metas
  <1>4. Fits(plan, m) /\ Transacting(m) /\ map[p].current <= file /\ Mapped(p) /\ w.by # "open"
    BY <1>1 DEF Owner, Opener
  <1>5. CASE next <= m.now /\ w' = [w EXCEPT !.meta.first = @ + n] /\ UNCHANGED <<map, file, discarded>>
    <2> DEFINE new == [m EXCEPT !.first = next]
    <2>1. new \in Metas /\ Fits(plan, new) /\ new.txn = m.txn /\ new.now = m.now /\ new.first = next
      BY <1>2, <1>3, <1>4, <1>5 DEF Metas, Fits
    <2>2. w' = [w EXCEPT !.meta = new]
      BY <1>2, <1>5 DEF Holds, Metas
    <2> HIDE DEF new
    <2>3. w' \in Holds /\ w'.pc = w.pc /\ w'.by = w.by /\ w'.proc = p /\ w'.cut = w.cut
          /\ w'.meta = new /\ w'.old = w.old
      BY <1>2, <2>1, <2>2 DEF Holds
    <2>4. Transacting(w.meta)'
      BY <1>1, <1>3, <1>4, <1>5, <2>1, <2>3 DEF Transacting
    <2>5. \A q \in Procs : (IsOpen(q)' <=> IsOpen(q)) /\ (Mapped(q)' <=> Mapped(q))
      BY <1>5, <2>3 DEF IsOpen, Opening, Mapped
    <2>6. TypeOK' /\ Pages' /\ Maps'
      BY <1>1, <1>5, <2>3, <2>5 DEF TypeOK, Pages, Maps
    <2>7. \A q \in Procs : map[q].limit <= map'[q].limit
      BY <1>3, <1>5 DEF Mappings
    <2> QED
      BY <1>1, <1>3, <1>4, <1>5, <2>1, <2>3, <2>4, <2>5, <2>6, <2>7, TxnGoesOn
  <1>6. CASE /\ next > m.now /\ next <= m.upper /\ m.grow > 0
             /\ LET aligned == smaller(pgno_ceil2os(NextStep(next, m.grow)), m.upper)
                IN  \E ok \in BOOLEAN :
                       /\ dxb_resize(p, aligned, m.upper, "grow", ok)
                       /\ w' = IF ok THEN [w EXCEPT !.meta.now = aligned, !.meta.first = next] ELSE w
    <2> DEFINE step == NextStep(next, m.grow)
               aligned == smaller(pgno_ceil2os(step), m.upper)
    <2>1. aligned \in Nat /\ Whole(aligned) /\ next <= aligned /\ aligned <= m.upper
      <3>1. m.grow \in Nat \ {0} /\ next <= m.upper
        BY <1>3, <1>6
      <3> HIDE DEF next
      <3>2. step \in Nat /\ next < step
        BY <1>3, <3>1, NextStepAbove
      <3> HIDE DEF step
      <3>3. pgno_ceil2os(step) \in Nat /\ Whole(pgno_ceil2os(step)) /\ step <= pgno_ceil2os(step)
        BY <3>2, CeilAbove, CeilWhole
      <3>4. Whole(m.upper)
        BY <1>4 DEF Fits
      <3> QED
        BY <1>3, <3>1, <3>2, <3>3, <3>4 DEF smaller
    <2> HIDE DEF step
    <2>2. PICK ok \in BOOLEAN :
             /\ dxb_resize(p, aligned, m.upper, "grow", ok)
             /\ w' = IF ok THEN [w EXCEPT !.meta.now = aligned, !.meta.first = next] ELSE w
      BY <1>6 DEF step
    <2> HIDE DEF aligned
    <2>3. Good(p) /\ IsOpen(p)
      BY <1>2, <1>4 DEF Good, Maps, IsOpen, Opening
    <2>4. Whole(m.upper) /\ AtLeast(plan, m.upper)
      BY <1>4 DEF Fits
    <2>5. /\ Kept(p) /\ Placed(p, aligned)
          /\ map[p].limit <= map'[p].limit
          /\ ok => aligned <= map'[p].limit
          /\ file <= file'
      <3> HIDE DEF m, p
      <3> QED
        BY <1>2, <1>3, <2>1, <2>2, <2>3, <2>4, ImplicitResize
    <2>6. map'[p] \in Mappings /\ file' \in Nat /\ map' \in [Procs -> Mappings]
      BY <1>2, <2>5 DEF Kept
    <2>7. map'[p].current <= file' /\ aligned <= file'
      BY <1>3, <1>4, <2>1, <2>5, <2>6 DEF Placed, Mappings
    <2> DEFINE new == [m EXCEPT !.now = aligned, !.first = next]
    <2>8. new \in Metas /\ Fits(plan, new) /\ new.txn = m.txn /\ new.now = aligned /\ new.first = next
      <3>1. m.now <= aligned
        BY <1>3, <1>6, <2>1
      <3>2. Fits(plan, m) /\ MinFirst <= next /\ m.lower <= aligned
        BY <1>3, <1>4, <2>1, <3>1 DEF Fits
      <3> HIDE DEF next, m
      <3>3. /\ new \in Metas /\ new.txn = m.txn /\ new.now = aligned /\ new.first = next
            /\ new.lower = m.lower /\ new.upper = m.upper
        BY <1>2, <1>3, <2>1 DEF Metas
      <3> HIDE DEF new
      <3> QED
        BY <2>1, <3>2, <3>3 DEF Fits
    <2>9. w' = IF ok THEN [w EXCEPT !.meta = new] ELSE w
      BY <1>2, <2>2 DEF Holds, Metas
    <2> HIDE DEF new
    <2>10. w' \in Holds /\ w'.pc = "txn" /\ w'.by = w.by /\ w'.proc = p /\ w'.cut = w.cut
           /\ w'.meta = (IF ok THEN new ELSE m) /\ w'.old = w.old
      BY <1>1, <1>2, <2>8, <2>9 DEF Holds
    <2>11. \A q \in Procs : Mapped(q)' <=> Mapped(q)
      BY <1>2, <1>3, <1>4, <2>5, <2>6 DEF Kept, Mapped, Mappings
    <2>12. \A q \in Procs : IsOpen(q)' <=> IsOpen(q)
      BY <1>1, <2>10, <2>11 DEF IsOpen, Opening
    <2>13. Pages' /\ Maps' /\ \A q \in Procs : map[q].limit <= map'[q].limit
      BY <1>1, <1>2, <2>3, <2>5, <2>7, <2>12, RoomMade
    <2>14. Transacting(w.meta)'
      <3>1. CASE ok
        <4>1. m.now <= aligned /\ aligned <= file' /\ aligned <= map'[p].limit
          BY <1>3, <1>6, <2>1, <2>5, <2>7, <3>1
        <4>2. w'.meta = new /\ w'.proc = p
          BY <2>10, <3>1
        <4> HIDE DEF next, m, p
        <4>3. plan.weak => head.now <= aligned
          BY <1>3, <1>4, <2>1, <4>1 DEF Transacting
        <4>4. plan.asked # {} /\ plan.inside => head.first <= next
          BY <1>3, <1>4 DEF Transacting
        <4>5. m.txn = head.txn + 1
          BY <1>4 DEF Transacting
        <4> QED
          BY <1>1, <2>8, <4>1, <4>2, <4>3, <4>4, <4>5 DEF Transacting
      <3>2. CASE ~ok
        BY <1>1, <1>3, <1>4, <2>5, <2>6, <2>10, <3>2 DEF Transacting, Mappings
      <3> QED
        BY <3>1, <3>2
    <2>15. TypeOK'
      BY <1>1, <2>5, <2>10 DEF TypeOK, Kept
    <2>16. Fits(plan, w'.meta)
      BY <1>4, <2>8, <2>10
    <2> QED
      BY <1>1, <2>5, <2>7, <2>10, <2>11, <2>13, <2>14, <2>15, <2>16, TxnGoesOn
  <1> QED
    BY <1>5, <1>6 DEF Alloc

-----------------------------------------------------------------------------
(* dxb_sync_locked                                                         *)

\* A pending meta page is worked out.
LEMMA SyncShrinkingStep ==
  ASSUME Inv, NEW p \in Procs, NEW by \in {"txn", "sync"}, NEW m \in Metas, NEW sync \in BOOLEAN,
         SyncShrinking(p, by, m, sync), IsOpen(p), Fits(plan, m), boot,
         UNCHANGED <<plan, file, durable, head, steady, boot, map, slot, reader>>,
         w.pc # "idle" => w.by # "open",
         m.first <= file, ~plan.alone => m.now <= file,
         head.txn <= m.txn, m.txn = head.txn => m.first = head.first,
         sync \/ (plan.weak /\ head.now <= m.now)
  PROVE  Inv'
  <1> USE DEF Inv
  <1> DEFINE last == larger(head.first, m.first)
             largest == Needed(m)
             h == Pending(p, by, m, sync, largest)
  <1>1. /\ m.txn \in Nat /\ m.first \in Nat /\ m.now \in Nat
        /\ head.txn \in Nat /\ head.first \in Nat /\ head.now \in Nat /\ file \in Nat
        /\ slot \in [Procs -> Nat]
    BY DEF TypeOK, Metas
  <1>2. last \in Nat /\ head.first <= last /\ m.first <= last
    BY <1>1 DEF larger
  <1>3. largest \in Nat /\ last <= largest /\ \A q \in Procs : slot[q] <= largest
    <2> HIDE DEF last
    <2>1. Largest(last) \in Nat /\ last <= Largest(last) /\ \A q \in Procs : slot[q] <= Largest(last)
      BY <1>1, <1>2, LargestAbove
    <2> QED
      BY <2>1 DEF last, Needed
  <1>4. w' = h /\ discarded' = Discarded(m, largest)
    BY DEF SyncShrinking
  <1> HIDE DEF last, largest
  <1>5. m.first <= largest /\ head.first <= largest
    BY <1>1, <1>2, <1>3
  <1>6. discarded' \in Nat
    BY <1>3, <1>4, DiscardedType
  <1>7. /\ h \in Holds /\ h.pc = "sync" /\ h.by = by /\ h.proc = p /\ h.old = h.meta
        /\ Fits(plan, h.meta) /\ h.meta.first = m.first
        /\ h.cut => /\ h.meta.steady /\ largest <= h.meta.now /\ h.meta.now <= m.now
                    /\ h.meta.txn \in {m.txn, m.txn + 1} /\ h.meta.txn # head.txn
        /\ ~h.cut => h.meta.steady = sync /\ h.meta.now = m.now /\ h.meta.txn = m.txn
    BY <1>3, <1>5, PendingFits
  <1> HIDE DEF h
  <1>8. \A q \in Procs : (IsOpen(q)' <=> IsOpen(q)) /\ (Mapped(q)' <=> Mapped(q))
    BY <1>4, <1>7 DEF IsOpen, Opening, Mapped
  <1>9. TypeOK' /\ Pages' /\ Maps'
    BY <1>4, <1>6, <1>7, <1>8 DEF TypeOK, Pages, Maps
  <1>10. Readers'
    BY <1>8 DEF Readers, Pinned
  <1>11. h.meta \in Metas /\ h.meta.now \in Nat
    BY <1>7 DEF Holds, Metas
  <1>13. Syncing'
    <2>1. CASE h.cut
      BY <1>1, <1>4, <1>7, <1>11, <2>1 DEF Syncing
    <2>2. CASE ~h.cut
      BY <1>4, <1>7, <2>2 DEF Syncing
    <2> QED
      BY <2>1, <2>2
  <1>14. h.cut => Spared'
    <2> SUFFICES ASSUME h.cut PROVE Spared'
      OBVIOUS
    <2>1. head.first <= h.meta.now
      BY <1>1, <1>3, <1>5, <1>7, <1>11
    <2>2. ASSUME NEW q \in Procs, Pinned(q) PROVE reader[q].snap.first <= h.meta.now
      <3>1. slot[q] = reader[q].snap.first /\ slot[q] <= largest
        BY <1>3, <2>2 DEF Pinned, Readers
      <3> QED
        BY <1>1, <1>3, <1>7, <1>11, <3>1
    <2> QED
      BY <1>4, <2>1, <2>2 DEF Spared, Pinned
  <1>15. Mapped(p)'
    BY DEF IsOpen, Mapped
  <1>16. Owner'
    BY <1>4, <1>7, <1>13, <1>14, <1>15 DEF Owner, Opener, Cutting
  <1> QED
    BY <1>9, <1>10, <1>16

\* The transaction is committed.
LEMMA CommitStep ==
  ASSUME Inv, NEW sync \in BOOLEAN, Commit(sync)
  PROVE  Inv'
  <1> USE DEF Inv
  <1>1. /\ w.pc = "txn" /\ (sync \/ plan.weak)
        /\ SyncShrinking(w.proc, "txn", w.meta, sync)
        /\ UNCHANGED <<plan, file, durable, head, steady, boot, map, slot, reader>>
    BY DEF Commit
  <1>2. w \in Holds /\ w.proc \in Procs /\ w.meta \in Metas
    BY <1>1 DEF TypeOK, Holds, Idle
  <1>3. Fits(plan, w.meta) /\ Transacting(w.meta) /\ Mapped(w.proc) /\ boot /\ w.by # "open"
    BY <1>1 DEF Owner, Opener
  <1>4. IsOpen(w.proc)
    BY <1>3 DEF IsOpen, Opening
  <1>5. /\ w.meta.first \in Nat /\ w.meta.now \in Nat /\ file \in Nat /\ head.txn \in Nat
        /\ w.meta.txn = head.txn + 1 /\ w.meta.now <= file /\ w.meta.first <= w.meta.now
        /\ plan.weak => head.now <= w.meta.now
    BY <1>2, <1>3 DEF TypeOK, Metas, Transacting, Fits
  <1>6. w.meta.first <= file /\ head.txn <= w.meta.txn /\ w.meta.txn # head.txn
    BY <1>5
  <1> QED
    BY <1>1, <1>2, <1>3, <1>4, <1>5, <1>6, SyncShrinkingStep

\* A weak head is made steady.
LEMMA SyncStep ==
  ASSUME Inv, NEW p \in Procs, Sync(p)
  PROVE  Inv'
  <1> USE DEF Inv
  <1>1. /\ w.pc = "idle" /\ IsOpen(p)
        /\ SyncShrinking(p, "sync", head, TRUE)
        /\ UNCHANGED <<plan, file, durable, head, steady, boot, map, slot, reader>>
    BY DEF Sync
  <1>2. head \in Metas /\ Fits(plan, head) /\ boot /\ head.first <= file
        /\ (~plan.alone => head.now <= file) /\ head.txn <= head.txn
    BY <1>1 DEF TypeOK, Metas, Pages, Maps
  <1> QED
    BY <1>1, <1>2, SyncShrinkingStep

\* The meta page is written.
LEMMA WriteMetaStep ==
  ASSUME Inv, WriteMeta
  PROVE  Inv'
  <1> USE DEF Inv
  <1> DEFINE m == w.meta
  <1>1. /\ w.pc = "sync" /\ head' = m /\ boot' = TRUE
        /\ IF m.steady THEN steady' = m /\ durable' = file ELSE UNCHANGED <<steady, durable>>
        /\ w' = IF w.cut THEN [w EXCEPT !.pc = "cut"] ELSE Idle
        /\ UNCHANGED <<plan, file, map, slot, reader, discarded>>
    BY DEF WriteMeta
  <1>2. w \in Holds /\ m \in Metas /\ w.proc \in Procs
    BY <1>1 DEF TypeOK, Holds, Idle
  <1>3. /\ m.txn \in Nat /\ m.first \in Nat /\ m.now \in Nat /\ m.steady \in BOOLEAN
        /\ head.txn \in Nat /\ head.now \in Nat /\ steady.now \in Nat /\ file \in Nat
    BY <1>2 DEF TypeOK, Metas
  <1>4. Syncing /\ Fits(plan, m) /\ Fits(plan, w.old) /\ Mapped(w.proc) /\ Opener
    BY <1>1 DEF Owner
  <1>5. \/ w' = Idle
        \/ /\ w.cut /\ w' \in Holds /\ w'.pc = "cut" /\ w'.by = w.by /\ w'.proc = w.proc
           /\ w'.cut = w.cut /\ w'.meta = m /\ w'.old = w.old
    BY <1>1, <1>2 DEF Holds
  <1>6. \A q \in Procs : IsOpen(q) => IsOpen(q)'
    BY <1>1, <1>5 DEF IsOpen, Opening, Mapped, Idle
  <1>7. TypeOK'
    BY <1>1, <1>2, <1>5 DEF TypeOK
  <1>8. Pages'
    <2>1. CASE m.steady
      BY <1>1, <1>3, <1>4, <2>1 DEF Pages, Syncing
    <2>2. CASE ~m.steady
      BY <1>1, <1>3, <1>4, <2>2 DEF Pages, Syncing
    <2> QED
      BY <2>1, <2>2
  <1>9. Maps'
    BY <1>1, <1>4 DEF Maps, Mapped, Syncing
  <1>10. Readers'
    <2> SUFFICES ASSUME NEW q \in Procs, reader[q].pc # "idle" PROVE ReaderFine(q)'
      BY <1>1 DEF Readers, ReaderFine
    <2>1. ReaderFine(q) /\ reader[q].snap.txn \in Nat
      BY DEF Readers, ReaderFine, TypeOK, Readings, Metas, NoReader
    <2>2. reader[q].snap.txn <= m.txn
      BY <1>3, <1>4, <2>1 DEF ReaderFine, Syncing
    <2>3. reader[q].snap.txn = m.txn => reader[q].snap.first = m.first
      BY <1>3, <1>4, <2>1 DEF ReaderFine, Syncing
    <2> QED
      BY <1>1, <1>6, <2>1, <2>2, <2>3 DEF ReaderFine, Pinned
  <1>11. Owner'
    <2>0. w' = Idle => Owner'
      BY DEF Owner, Idle
    <2> SUFFICES ASSUME w' # Idle PROVE Owner'
      BY <2>0
    <2>1. w.cut /\ w.by # "open" /\ m.steady
      BY <1>4, <1>5 DEF Opener, Syncing
    <2>2. Spared
      BY <1>1, <2>1 DEF Owner, Cutting
    <2>3. m.first <= m.now
      BY <1>4 DEF Fits
    <2>4. Spared'
      BY <1>1, <1>5, <2>2, <2>3 DEF Spared, Pinned
    <2>5. Mapped(w.proc)'
      BY <1>1, <1>4, <1>5 DEF Mapped
    <2> QED
      BY <1>1, <1>4, <1>5, <2>1, <2>4, <2>5 DEF Owner, Opener, Cutting
  <1> QED
    BY <1>7, <1>8, <1>9, <1>10, <1>11

\* The file is cut to what the written meta page says.
LEMMA ShrinkFileStep ==
  ASSUME Inv, ShrinkFile
  PROVE  Inv'
  <1> USE DEF Inv
  <1> DEFINE p == w.proc
  <1>1. /\ w.pc = "cut" /\ w' = Idle
        /\ dxb_resize(p, w.meta.now, w.meta.upper, "shrink", TRUE)
        /\ UNCHANGED <<plan, durable, head, steady, boot, slot, reader>>
    BY DEF ShrinkFile
  <1>2. w \in Holds /\ w.meta \in Metas /\ p \in Procs
    BY <1>1 DEF TypeOK, Holds, Idle
  <1>3. /\ w.meta = head /\ Mapped(p) /\ w.by # "open" /\ boot /\ Spared /\ Fits(plan, head)
        /\ head = steady /\ w.cut
    BY <1>1 DEF Owner, Opener, Cutting, Pages
  <1>4. /\ head.first \in Nat /\ head.now \in Nat /\ head.upper \in Nat /\ file \in Nat
        /\ map[p] \in Mappings /\ map \in [Procs -> Mappings]
    BY <1>2, <1>3 DEF TypeOK, Metas
  <1>5. Good(p) /\ IsOpen(p)
    BY <1>1, <1>2, <1>3 DEF Good, Maps, IsOpen, Opening
  <1>6. /\ Kept(p) /\ Placed(p, head.now)
        /\ map[p].limit <= map'[p].limit
        /\ file' \in {file, head.now}
    <2>1. dxb_resize(p, head.now, head.upper, "shrink", TRUE)
      BY <1>1, <1>3
    <2>2. Whole(head.now) /\ Whole(head.upper) /\ head.now <= head.upper /\ AtLeast(plan, head.upper)
      BY <1>3 DEF Fits
    <2> HIDE DEF p
    <2> QED
      BY <1>2, <1>4, <1>5, <2>1, <2>2, ImplicitResize
  <1>7. map'[p] \in Mappings /\ file' \in Nat /\ map' \in [Procs -> Mappings]
    BY <1>2, <1>6 DEF Kept
  <1>8. \A q \in Procs : (Mapped(q)' <=> Mapped(q)) /\ map[q].limit <= map'[q].limit
    <2> TAKE q \in Procs
    <2>1. CASE q = p
      BY <1>3, <1>4, <1>6, <1>7, <2>1 DEF Mapped, Mappings
    <2>2. CASE q # p
      <3>1. map'[q] = map[q] /\ map[q] \in Mappings
        BY <1>4, <1>6, <2>2 DEF Kept
      <3> QED
        BY <3>1 DEF Mapped, Mappings
    <2> QED
      BY <2>1, <2>2
  <1>9. \A q \in Procs : IsOpen(q)' <=> IsOpen(q)
    BY <1>1, <1>3, <1>8 DEF IsOpen, Opening, Idle
  <1>10. TypeOK'
    BY <1>1, <1>6 DEF TypeOK, Kept
  <1>11. Pages'
    <2>1. head.first <= file'
      BY <1>3, <1>4, <1>6 DEF Fits, Pages
    <2> QED
      BY <1>1, <1>3, <2>1 DEF Pages
  <1>12. Maps'
    <2>1. ASSUME NEW q \in Procs, Mapped(q)'
          PROVE  map'[q].current <= map'[q].limit /\ Whole(map'[q].limit) /\ AtLeast(plan, map'[q].limit)
      BY <1>6, <1>8, <2>1 DEF Kept, Maps
    <2>2. map[p].current <= file => map'[p].current <= file'
      BY <1>4, <1>6, <1>7 DEF Placed, Mappings
    <2>3. plan.alone => \A a, b \in Procs : Mapped(a)' /\ Mapped(b)' => a = b /\ map'[a].current <= file'
      BY <1>2, <1>3, <1>8, <2>2 DEF Maps
    <2>4. ~plan.alone => head.now <= file'
      BY <1>2, <1>4, <1>5, <1>6 DEF Maps
    <2> QED
      BY <1>1, <1>3, <2>1, <2>3, <2>4 DEF Maps
  <1>13. Readers'
    <2> SUFFICES ASSUME NEW q \in Procs, reader[q].pc # "idle" PROVE ReaderFine(q)'
      BY <1>1 DEF Readers, ReaderFine
    <2>1. ReaderFine(q) /\ reader[q].snap.first \in Nat /\ map[q] \in Mappings /\ map'[q] \in Mappings
      BY <1>4, <1>7 DEF Readers, ReaderFine, TypeOK, Readings, Metas, NoReader
    <2>2. Pinned(q) => reader[q].snap.first <= file'
      BY <1>3, <1>6, <2>1 DEF Spared, ReaderFine
    <2>3. reader[q].pc = "active" => reader[q].snap.first <= map'[q].limit
      BY <1>8, <2>1 DEF ReaderFine, Mappings
    <2> QED
      BY <1>1, <1>9, <2>1, <2>2, <2>3 DEF ReaderFine, Pinned
  <1>14. Owner'
    BY <1>1 DEF Owner, Idle
  <1> QED
    BY <1>10, <1>11, <1>12, <1>13, <1>14

-----------------------------------------------------------------------------
(* mdbx_env_set_geometry                                                   *)

\* The geometry asked for becomes a meta page in order that spares what the
\* pending meta page m and the registered readers use.
LEMMA AskedIs ==
  ASSUME TypeOK, Covered, NEW p \in Procs, NEW m \in Metas, Fits(plan, m), NEW g \in plan.asked,
         NEW by \in {"geo", "inside"}, Asked(p, m, g, by)
  PROVE  /\ w' \in Holds /\ w'.by = by /\ w'.proc = p /\ ~w'.cut /\ w'.old = m
         /\ w'.pc \in {"resize", After(by)}
         /\ w'.pc # "resize" => w'.meta.now = m.now
         /\ Fits(plan, w'.meta) /\ w'.meta.first = m.first /\ w'.meta.steady = m.steady
         /\ by = "geo" => w'.meta.txn = head.txn + 1
         /\ by = "inside" => w'.meta.txn = m.txn
         /\ m.first <= w'.meta.now /\ \A q \in Procs : slot[q] <= w'.meta.now
         /\ w'.meta.upper = g.upper
         /\ g.now = 0 /\ m.now <= g.upper => m.now <= w'.meta.now
  <1> DEFINE largest == Largest(m.first)
             used == pgno_ceil2os(largest)
             new == NewGeo(m, g, used)
             pc == IF new.now # m.now \/ new.upper # m.upper THEN "resize" ELSE After(by)
             meta == IF by = "geo" THEN [new EXCEPT !.txn = head.txn + 1] ELSE new
  <1>1. g \in AskedGeo /\ Ordered(g) /\ Whole(g.now) /\ g.upper \in Uppers(plan)
    BY DEF TypeOK, PlanType, Covered, Sane, Uppers
  <1>2. m.first \in Nat /\ m.now \in Nat /\ m.txn \in Nat /\ head.txn \in Nat /\ slot \in [Procs -> Nat]
    BY DEF TypeOK, Metas
  <1>3. largest \in Nat /\ m.first <= largest /\ \A q \in Procs : slot[q] <= largest
    BY <1>2, LargestAbove
  <1>4. used \in Nat /\ Whole(used) /\ largest <= used
    <2> HIDE DEF largest
    <2> QED
      BY <1>3, CeilAbove, CeilWhole
  <1>5. used <= g.upper /\ w' = [Held(pc, by, p, meta) EXCEPT !.old = m]
    <2>1. g.upper >= used /\ w' = [Held(pc, by, p, meta) EXCEPT !.old = m]
      BY DEF Asked
    <2> HIDE DEF pc, meta, used
    <2> QED
      BY <1>1, <1>4, <2>1 DEF AskedGeo
  <1> HIDE DEF largest
  <1>6. m.first <= used /\ \A q \in Procs : slot[q] <= used
    <2> HIDE DEF used
    <2> QED
      BY <1>2, <1>3, <1>4
  <1> HIDE DEF used
  <1>7. /\ new \in Metas /\ Fits(plan, new)
        /\ new.first = m.first /\ new.txn = m.txn /\ new.steady = m.steady
        /\ used <= new.now /\ new.upper = g.upper
        /\ g.now = 0 /\ m.now <= g.upper => m.now <= new.now
    BY <1>1, <1>4, <1>5, <1>6, NewGeoFits
  <1> HIDE DEF new
  <1>8. /\ meta \in Metas /\ Fits(plan, meta) /\ meta.first = new.first /\ meta.steady = new.steady
        /\ meta.now = new.now /\ meta.upper = new.upper
        /\ by = "geo" => meta.txn = head.txn + 1
        /\ by = "inside" => meta.txn = new.txn
    <2>1. head.txn + 1 \in Nat
      BY <1>2
    <2>2. CASE by = "geo"
      <3>1. meta = [new EXCEPT !.txn = head.txn + 1]
        BY <2>2
      <3> HIDE DEF meta
      <3> QED
        BY <1>7, <2>1, <2>2, <3>1 DEF Metas, Fits
    <2>3. CASE by = "inside"
      BY <1>7, <2>3
    <2> QED
      BY <2>2, <2>3
  <1>9. pc \in {"resize", After(by)} /\ After(by) \in {"sync", "txn"} /\ (pc # "resize" => new.now = m.now)
    BY DEF After
  <1> HIDE DEF pc, meta
  <1>10. w' = [pc |-> pc, by |-> by, proc |-> p, cut |-> FALSE, meta |-> meta, old |-> m]
    BY <1>5 DEF Held
  <1>11. w' \in Holds
    BY <1>8, <1>9, <1>10 DEF Holds
  <1>12. meta.now \in Nat /\ used <= meta.now
    BY <1>7, <1>8 DEF Metas
  <1>13. m.first <= meta.now /\ \A q \in Procs : slot[q] <= meta.now
    BY <1>2, <1>4, <1>6, <1>12
  <1>14. /\ w'.pc = pc /\ w'.by = by /\ w'.proc = p /\ ~w'.cut /\ w'.meta = meta /\ w'.old = m
    BY <1>10
  <1> QED
    BY <1>7, <1>8, <1>9, <1>11, <1>13, <1>14

\* A geometry is set outside a transaction.
LEMMA SetGeometryStep ==
  ASSUME Inv, Covered, NEW p \in Procs, NEW g \in plan.asked, NEW sync \in BOOLEAN,
         SetGeometry(p, g, sync)
  PROVE  Inv'
  <1> USE DEF Inv
  <1> DEFINE m == [head EXCEPT !.steady = sync]
  <1>1. /\ w.pc = "idle" /\ IsOpen(p) /\ (sync \/ plan.weak) /\ Asked(p, m, g, "geo")
        /\ UNCHANGED <<plan, file, durable, head, steady, boot, map, slot, reader, discarded>>
    BY DEF SetGeometry
  <1>2. ~plan.weak /\ plan.alone /\ plan.asked # {} /\ sync
    BY <1>1 DEF Covered, Careful
  <1>3. boot /\ head = steady /\ Fits(plan, head) /\ head.first <= file /\ Mapped(p)
    BY <1>1, <1>2 DEF Maps, Pages, IsOpen
  <1>4. /\ head \in Metas /\ head.txn \in Nat /\ head.first \in Nat /\ file \in Nat
    BY DEF TypeOK, Metas
  <1>5. m \in Metas /\ Fits(plan, m) /\ m.first = head.first /\ m.steady
    BY <1>2, <1>3, <1>4 DEF Metas, Fits
  <1> HIDE DEF m
  <1>6. /\ w' \in Holds /\ w'.by = "geo" /\ w'.proc = p /\ ~w'.cut /\ w'.old = m
        /\ w'.pc \in {"resize", "sync"}
        /\ Fits(plan, w'.meta) /\ w'.meta.first = m.first /\ w'.meta.steady = m.steady
        /\ w'.meta.txn = head.txn + 1
        /\ m.first <= w'.meta.now /\ \A q \in Procs : slot[q] <= w'.meta.now
    BY <1>1, <1>5, AskedIs DEF After
  <1>7. \A q \in Procs : (IsOpen(q)' <=> IsOpen(q)) /\ (Mapped(q)' <=> Mapped(q))
    BY <1>1, <1>6 DEF IsOpen, Opening, Mapped
  <1>8. TypeOK' /\ Pages' /\ Maps'
    BY <1>1, <1>6, <1>7 DEF TypeOK, Pages, Maps
  <1>9. Readers'
    BY <1>1, <1>7 DEF Readers, Pinned
  <1>10. Spared'
    <2>1. \A q \in Procs : Pinned(q) => slot[q] = reader[q].snap.first
      BY DEF Readers, Pinned
    <2> QED
      BY <1>1, <1>5, <1>6, <2>1 DEF Spared, Pinned
  <1>11. Resizing'
    BY <1>1, <1>2, <1>5, <1>6 DEF Resizing
  <1>12. Syncing'
    BY <1>1, <1>2, <1>3, <1>4, <1>5, <1>6 DEF Syncing
  <1>13. Owner'
    BY <1>1, <1>3, <1>5, <1>6, <1>7, <1>10, <1>11, <1>12 DEF Owner, Opener, Cutting
  <1> QED
    BY <1>8, <1>9, <1>13

\* A geometry is set within a transaction.
LEMMA SetGeometryInsideStep ==
  ASSUME Inv, Covered, NEW g \in plan.asked, SetGeometryInside(g)
  PROVE  Inv'
  <1> USE DEF Inv
  <1> DEFINE m == w.meta
             p == w.proc
  <1>1. /\ w.pc = "txn" /\ plan.inside /\ Asked(p, m, g, "inside")
        /\ UNCHANGED <<plan, file, durable, head, steady, boot, map, slot, reader, discarded>>
    BY DEF SetGeometryInside
  <1>2. /\ ~plan.weak /\ plan.alone /\ plan.asked # {}
        /\ plan.busy => Gentle(plan, g)
    BY <1>1 DEF Covered, Careful
  <1>3. w \in Holds /\ m \in Metas /\ p \in Procs
    BY <1>1 DEF TypeOK, Holds, Idle
  <1>4. /\ Fits(plan, m) /\ Transacting(m) /\ map[p].current <= file /\ Mapped(p) /\ boot
        /\ w.by # "open"
    BY <1>1 DEF Owner, Opener
  <1>5. /\ m.first \in Nat /\ m.now \in Nat /\ head.first \in Nat /\ file \in Nat
        /\ head.first <= m.first /\ m.txn = head.txn + 1 /\ head.txn \in Nat
    BY <1>1, <1>2, <1>3, <1>4 DEF TypeOK, Metas, Transacting
  <1>6. /\ w' \in Holds /\ w'.by = "inside" /\ w'.proc = p /\ ~w'.cut /\ w'.old = m
        /\ w'.pc \in {"resize", "txn"}
        /\ w'.pc # "resize" => w'.meta.now = m.now
        /\ Fits(plan, w'.meta) /\ w'.meta.first = m.first
        /\ w'.meta.txn = m.txn
        /\ m.first <= w'.meta.now /\ \A q \in Procs : slot[q] <= w'.meta.now
        /\ w'.meta.upper = g.upper
        /\ g.now = 0 /\ m.now <= g.upper => m.now <= w'.meta.now
    <2> HIDE DEF m, p
    <2> QED
      BY <1>1, <1>3, <1>4, AskedIs DEF After
  <1>7. \A q \in Procs : (IsOpen(q)' <=> IsOpen(q)) /\ (Mapped(q)' <=> Mapped(q))
    BY <1>1, <1>4, <1>6 DEF IsOpen, Opening, Mapped
  <1>8. TypeOK' /\ Pages' /\ Maps'
    BY <1>1, <1>6, <1>7 DEF TypeOK, Pages, Maps
  <1>9. Readers'
    BY <1>1, <1>7 DEF Readers, Pinned
  <1>10. Spared'
    <2>1. \A q \in Procs : Pinned(q) => slot[q] = reader[q].snap.first
      BY DEF Readers, Pinned
    <2>2. w'.meta.now \in Nat
      BY <1>6 DEF Holds, Metas
    <2> HIDE DEF m
    <2>3. head.first <= w'.meta.now
      BY <1>5, <1>6, <2>2
    <2> QED
      BY <1>1, <1>6, <2>1, <2>3 DEF Spared, Pinned
  <1>11. Transacting(w.old)'
    BY <1>1, <1>4, <1>6 DEF Transacting
  <1>12. plan.busy => m.now <= w'.meta.now \/ w'.meta.upper <= map[p].limit
    <2> SUFFICES ASSUME plan.busy PROVE m.now <= w'.meta.now \/ w'.meta.upper <= map[p].limit
      OBVIOUS
    <2>1. /\ \A u \in Uppers(plan) : u \in Nat
          /\ g.upper \in Nat /\ m.upper \in Nat /\ map[p].limit \in Nat
      BY <1>3 DEF Uppers, TypeOK, PlanType, AskedGeo, Metas, Mappings
    <2>2. CASE \A u \in Uppers(plan) : g.upper <= u
      <3>1. PICK u \in Uppers(plan) : u <= map[p].limit
        BY <1>3, <1>4 DEF Maps, AtLeast
      <3>2. g.upper <= u
        BY <2>2
      <3> QED
        BY <1>6, <2>1, <3>1, <3>2
    <2>3. CASE g.now = 0 /\ \A u \in Uppers(plan) : u <= g.upper
      <3>1. PICK u \in Uppers(plan) : m.upper <= u
        BY <1>4 DEF Fits, AtMost
      <3>2. m.now <= m.upper /\ u <= g.upper
        BY <1>4, <2>3 DEF Fits
      <3>3. m.now <= g.upper
        BY <1>5, <2>1, <3>1, <3>2
      <3> QED
        BY <1>6, <2>3, <3>3
    <2> QED
      BY <1>2, <2>2, <2>3 DEF Gentle
  <1>13. Resizing'
    BY <1>1, <1>2, <1>5, <1>6, <1>11, <1>12 DEF Resizing
  <1>14. w'.pc = "txn" => Transacting(w.meta)'
    BY <1>1, <1>2, <1>4, <1>6 DEF Transacting
  <1>15. Owner'
    <2>1. Mapped(w.proc)' /\ boot' /\ map'[w'.proc].current <= file'
      BY <1>1, <1>4, <1>6 DEF Mapped
    <2>2. Fits(plan, w.meta)' /\ Fits(plan, w.old)'
      BY <1>1, <1>4, <1>6
    <2> QED
      BY <1>6, <1>10, <1>13, <1>14, <2>1, <2>2 DEF Owner, Opener, Cutting
  <1> QED
    BY <1>8, <1>9, <1>15

\* The resize it starts with.
LEMMA ResizeNowStep ==
  ASSUME Inv, ResizeNow
  PROVE  Inv'
  <1> USE DEF Inv
  <1> DEFINE m == w.meta
             p == w.proc
  <1>1. PICK ok \in BOOLEAN :
           /\ w.pc = "resize"
           /\ dxb_resize(p, m.now, m.upper, "explicit", ok)
           /\ w' = IF ok THEN [w EXCEPT !.pc = After(w.by), !.old = w.meta]
                   ELSE IF w.by = "inside" THEN [w EXCEPT !.pc = "txn", !.meta = w.old] ELSE Idle
           /\ UNCHANGED <<plan, durable, head, steady, boot, slot, reader>>
    BY DEF ResizeNow
  <1>2. w \in Holds /\ m \in Metas /\ w.old \in Metas /\ p \in Procs
    BY <1>1 DEF TypeOK, Holds, Idle
  <1>3. /\ Resizing /\ Spared /\ Fits(plan, m) /\ Fits(plan, w.old) /\ Mapped(p) /\ boot /\ ~w.cut
    BY <1>1 DEF Owner, Cutting
  <1>4. /\ plan.asked # {} /\ plan.alone /\ ~plan.weak /\ w.by \in {"geo", "inside"}
        /\ head = steady /\ head.first <= file
    BY <1>3 DEF Resizing, Pages
  <1>5. /\ m.first \in Nat /\ m.now \in Nat /\ m.upper \in Nat /\ head.first \in Nat /\ file \in Nat
        /\ m.first <= m.now /\ m.now <= m.upper /\ m.upper > 0
        /\ w.old.now \in Nat
        /\ map \in [Procs -> Mappings] /\ map[p] \in Mappings
    BY <1>2, <1>3, GeometryAssumption DEF TypeOK, Metas, Fits
  <1>6. Good(p) /\ IsOpen(p) /\ map[p].current <= file
    BY <1>1, <1>2, <1>3, <1>4 DEF Good, Maps, IsOpen, Opening
  <1>7. /\ Kept(p) /\ Placed(p, m.now)
        /\ file' \in {file, m.now}
        /\ ok => map'[p].limit = m.upper
        /\ ~ok => plan.busy /\ map[p].limit < m.upper /\ map'[p].limit = map[p].limit
    <2>1. Whole(m.now) /\ Whole(m.upper) /\ AtLeast(plan, m.upper)
      BY <1>3 DEF Fits
    <2> HIDE DEF m, p
    <2> QED
      BY <1>1, <1>2, <1>5, <1>6, <2>1, ExplicitResize
  <1>8. map'[p] \in Mappings /\ file' \in Nat /\ map' \in [Procs -> Mappings]
    BY <1>2, <1>7 DEF Kept
  <1>9. map'[p].current <= file'
    BY <1>5, <1>6, <1>7, <1>8 DEF Placed, Mappings
  <1>10. \/ w' = Idle /\ ~ok
         \/ /\ w' \in Holds /\ w'.by = w.by /\ w'.proc = p /\ ~w'.cut
            /\ \/ ok /\ w'.pc = After(w.by) /\ w'.meta = m /\ w'.old = m
               \/ ~ok /\ w.by = "inside" /\ w'.pc = "txn" /\ w'.meta = w.old /\ w'.old = w.old
    <2>1. CASE ok
      BY <1>1, <1>2, <1>3, <1>4, <2>1 DEF Holds, After
    <2>2. CASE ~ok
      BY <1>1, <1>2, <1>3, <1>4, <2>2 DEF Holds
    <2> QED
      BY <2>1, <2>2
  <1>11. \A q \in Procs : Mapped(q)' <=> Mapped(q)
    <2> TAKE q \in Procs
    <2>1. CASE q = p
      BY <1>3, <1>5, <1>7, <1>8, <2>1 DEF Mapped, Mappings
    <2>2. CASE q # p
      BY <1>7, <2>2 DEF Kept, Mapped
    <2> QED
      BY <2>1, <2>2
  <1>12. \A q \in Procs : IsOpen(q)' <=> IsOpen(q)
    BY <1>1, <1>4, <1>10, <1>11 DEF IsOpen, Opening, Idle
  <1>13. TypeOK'
    BY <1>1, <1>7, <1>10 DEF TypeOK, Kept
  <1>14. Pages'
    <2>1. head.first <= file'
      BY <1>3, <1>4, <1>5, <1>7 DEF Spared
    <2> QED
      BY <1>1, <1>4, <2>1 DEF Pages
  <1>15. \A q \in Procs : Mapped(q) => q = p
    BY <1>2, <1>3, <1>4 DEF Maps
  <1>16. Maps'
    BY <1>1, <1>2, <1>3, <1>4, <1>7, <1>9, <1>11, <1>15 DEF Maps, Kept
  <1>17. Readers'
    <2> SUFFICES ASSUME NEW q \in Procs, reader[q].pc # "idle" PROVE ReaderFine(q)'
      BY <1>1 DEF Readers, ReaderFine
    <2>1. ReaderFine(q) /\ reader[q].snap.first \in Nat /\ q = p
      BY <1>15 DEF Readers, ReaderFine, TypeOK, Readings, Metas, NoReader, IsOpen
    <2>2. Pinned(q) => reader[q].snap.first <= m.now /\ reader[q].snap.first <= file
      BY <1>3, <2>1 DEF Spared, ReaderFine
    <2>3. Pinned(q) => reader[q].snap.first <= file'
      BY <1>7, <2>2
    <2>4. reader[q].pc = "active" => reader[q].snap.first <= map'[q].limit
      BY <1>5, <1>7, <2>1, <2>2 DEF ReaderFine, Pinned, Mappings
    <2> QED
      BY <1>1, <1>12, <2>1, <2>3, <2>4 DEF ReaderFine, Pinned
  <1>18. Owner'
    <2>0. w' = Idle => Owner'
      BY DEF Owner, Idle
    <2> SUFFICES ASSUME w' # Idle PROVE Owner'
      BY <2>0
    <2>1. Mapped(w.proc)' /\ w'.proc = p
      BY <1>2, <1>3, <1>10, <1>11 DEF Mapped
    <2>2. CASE ok /\ w.by = "geo"
      <3>1. m.first <= file'
        BY <1>3, <1>4, <1>5, <1>7, <2>2 DEF Resizing, Spared
      <3>2. Syncing'
        BY <1>1, <1>2, <1>3, <1>4, <1>10, <2>2, <3>1 DEF Syncing, Resizing, TypeOK, Metas
      <3> QED
        BY <1>1, <1>3, <1>4, <1>10, <2>1, <2>2, <3>2 DEF Owner, Opener, Cutting, After
    <2>3. CASE ok /\ w.by = "inside"
      <3>1. m.now <= file' /\ m.now <= map'[p].limit
        BY <1>5, <1>6, <1>7, <1>8, <2>3 DEF Placed, Mappings
      <3>2. Transacting(w.meta)'
        BY <1>1, <1>3, <1>4, <1>10, <2>3, <3>1 DEF Transacting, Resizing
      <3> QED
        BY <1>1, <1>3, <1>4, <1>9, <1>10, <2>1, <2>3, <3>2 DEF Owner, Opener, Cutting, After
    <2>4. CASE ~ok
      <3>1. Transacting(w.old) /\ (w.old.now <= m.now \/ m.upper <= map[p].limit)
        BY <1>3, <1>7, <1>10, <2>4 DEF Resizing
      <3>2. w.old.now <= file /\ w.old.now <= map[p].limit
        BY <3>1 DEF Transacting
      <3>3. w.old.now <= file' /\ w.old.now <= map'[p].limit
        BY <1>5, <1>7, <2>4, <3>1, <3>2 DEF Mappings
      <3>4. Transacting(w.meta)'
        BY <1>1, <1>4, <1>10, <2>4, <3>1, <3>3 DEF Transacting
      <3> QED
        BY <1>1, <1>3, <1>4, <1>9, <1>10, <2>1, <2>4, <3>4 DEF Owner, Opener, Cutting
    <2> QED
      BY <1>4, <2>2, <2>3, <2>4
  <1> QED
    BY <1>13, <1>14, <1>16, <1>17, <1>18

-----------------------------------------------------------------------------
(* Opening, dying                                                          *)

\* While the first opener is at work no process uses the file.
LEMMA OpenerAlone ==
  ASSUME Inv, NEW q \in Procs, IsOpen(q)
  PROVE  boot /\ (w.pc # "idle" => w.by # "open")
  BY DEF Inv, Maps, Owner, Opener, IsOpen, Opening, Mapped

\* The meta page the next opener takes is in order.
LEMMA HeaderFits ==
  ASSUME Inv
  PROVE  /\ Header \in Metas /\ Fits(plan, Header)
         /\ Header = steady \/ (boot /\ Header = head)
         /\ ~boot => Header = steady
         /\ boot => Header = head
         /\ ~plan.weak => Header = steady /\ head = steady
  BY DEF Inv, TypeOK, Pages, Header

\* Another process opens the file.
LEMMA JoinStep ==
  ASSUME Inv, NEW p \in Procs, Join(p)
  PROVE  Inv'
  <1> USE DEF Inv
  <1> DEFINE new == [current |-> smaller(file, head.upper), limit |-> head.upper, filesize |-> file]
  <1>1. PICK o \in Procs : IsOpen(o)
    BY DEF Join
  <1>2. boot /\ (w.pc # "idle" => w.by # "open") /\ Header = head
    BY <1>1, OpenerAlone DEF Header
  <1>3. /\ ~plan.alone /\ ~Mapped(p) /\ map' = [map EXCEPT ![p] = new]
        /\ UNCHANGED <<plan, file, durable, head, steady, boot, slot, reader, w, discarded>>
    BY <1>2 DEF Join
  <1>4. file \in Nat /\ head.upper \in Nat /\ map \in [Procs -> Mappings] /\ Fits(plan, head)
    BY DEF TypeOK, Metas, Pages
  <1>5. new \in Mappings /\ new.current <= new.limit /\ Whole(new.limit) /\ AtLeast(plan, new.limit)
    BY <1>4 DEF Mappings, smaller, Fits
  <1> HIDE DEF new
  <1>6. map'[p] = new /\ map' \in [Procs -> Mappings] /\ \A q \in Procs : q # p => map'[q] = map[q]
    BY <1>3, <1>4, <1>5
  <1>7. \A q \in Procs : q # p => (Mapped(q)' <=> Mapped(q)) /\ (IsOpen(q)' <=> IsOpen(q))
    BY <1>3, <1>6 DEF IsOpen, Opening, Mapped
  <1>8. TypeOK' /\ Pages'
    BY <1>3, <1>6 DEF TypeOK, Pages
  <1>9. Maps'
    <2>1. \A q \in Procs : Mapped(q)' =>
             map'[q].current <= map'[q].limit /\ Whole(map'[q].limit) /\ AtLeast(plan, map'[q].limit)
      BY <1>5, <1>6, <1>7 DEF Maps
    <2>2. head.now <= file
      BY <1>1, <1>3 DEF Maps
    <2> QED
      BY <1>2, <1>3, <2>1, <2>2 DEF Maps
  <1>10. Readers'
    <2> SUFFICES ASSUME NEW q \in Procs, reader[q].pc # "idle" PROVE ReaderFine(q)'
      BY <1>3 DEF Readers, ReaderFine
    <2>1. ReaderFine(q) /\ q # p
      BY <1>3 DEF Readers, ReaderFine, IsOpen
    <2> QED
      BY <1>3, <1>6, <1>7, <2>1 DEF ReaderFine, Pinned
  <1>11. Owner'
    <2> SUFFICES ASSUME w.pc # "idle" PROVE Owner'
      BY <1>3 DEF Owner
    <2>1. w \in Holds /\ w.proc \in Procs /\ w.proc # p /\ w.by # "open"
      BY <1>2, <1>3 DEF TypeOK, Holds, Idle, Owner
    <2>2. map'[w.proc] = map[w.proc]
      BY <1>6, <2>1
    <2>3. Spared => Spared'
      BY <1>3 DEF Spared, Pinned
    <2>4. \A m \in Metas : Transacting(m) => Transacting(m)'
      BY <1>3, <2>2 DEF Transacting
    <2> QED
      BY <1>3, <2>1, <2>2, <2>3, <2>4 DEF Owner, Opener, Mapped, Cutting, Resizing, Syncing, Transacting
  <1> QED
    BY <1>8, <1>9, <1>10, <1>11

\* The first process opens the file.
LEMMA OpenStep ==
  ASSUME Inv, Covered, NEW p \in Procs, Open(p)
  PROVE  Inv'
  <1> USE DEF Inv
  <1>1. PICK m \in {[Header EXCEPT !.now = pgno_ceil2os(@)]} \cup {OpenGeo(Header, g) : g \in plan.given} :
           /\ file' = m.now
           /\ map' = [map EXCEPT ![p] = [current |-> m.now, limit |-> m.upper, filesize |-> m.now]]
           /\ w' = Held("open", "open", p, m)
    BY DEF Open
  <1>2. /\ w.pc = "idle" /\ (\A q \in Procs : ~Mapped(q)) /\ discarded' = 0
        /\ UNCHANGED <<plan, durable, head, steady, boot, slot, reader>>
    BY DEF Open
  <1>3. /\ Header \in Metas /\ Fits(plan, Header)
        /\ Header = steady \/ (boot /\ Header = head)
        /\ ~boot => Header = steady
        /\ boot => Header = head
        /\ ~plan.weak => Header = steady /\ head = steady
    BY HeaderFits
  <1>4. [Header EXCEPT !.now = pgno_ceil2os(@)] = Header
    BY <1>3 DEF Fits, Whole, Metas
  <1>5. /\ m \in Metas /\ Fits(plan, m) /\ m.first = Header.first /\ m.txn = Header.txn
        /\ plan.weak => m = Header
    <2>1. CASE m = Header
      BY <1>3, <2>1
    <2>2. CASE m # Header
      <3>1. PICK g \in plan.given : m = OpenGeo(Header, g)
        BY <1>4, <2>2
      <3>2. /\ g \in AskedGeo /\ Ordered(g) /\ Whole(g.now) /\ g.upper \in Uppers(plan)
            /\ ~plan.weak /\ TypeOK
        BY DEF TypeOK, PlanType, Covered, Sane, Careful, Uppers
      <3> HIDE DEF Inv
      <3> QED
        BY <1>3, <3>1, <3>2, OpenGeoFits
    <2> QED
      BY <2>1, <2>2
  <1>6. /\ m.first \in Nat /\ m.now \in Nat /\ m.upper \in Nat /\ m.first <= m.now /\ m.now <= m.upper
        /\ m.upper > 0 /\ Whole(m.upper) /\ AtLeast(plan, m.upper)
    BY <1>5, GeometryAssumption DEF Metas, Fits
  <1>7. /\ w' \in Holds /\ w'.pc = "open" /\ w'.by = "open" /\ w'.proc = p /\ ~w'.cut
        /\ w'.meta = m /\ w'.old = m
    BY <1>1, <1>5 DEF Held, Holds
  <1> DEFINE new == [current |-> m.now, limit |-> m.upper, filesize |-> m.now]
  <1>8. new \in Mappings /\ new.current = m.now /\ new.limit = m.upper
    BY <1>6 DEF Mappings
  <1>9. map' = [map EXCEPT ![p] = new] /\ map \in [Procs -> Mappings]
    BY <1>1 DEF TypeOK
  <1> HIDE DEF new
  <1>10. /\ map' \in [Procs -> Mappings] /\ map'[p] = new
         /\ \A q \in Procs : q # p => map'[q] = map[q]
    BY <1>8, <1>9
  <1>11. \A q \in Procs : Mapped(q)' <=> q = p
    BY <1>2, <1>6, <1>8, <1>10 DEF Mapped
  <1>12. \A q \in Procs : ~IsOpen(q) /\ ~IsOpen(q)'
    BY <1>2, <1>7, <1>11 DEF IsOpen, Opening
  <1>13. TypeOK'
    BY <1>1, <1>2, <1>6, <1>7, <1>10 DEF TypeOK
  <1>14. Pages'
    <2>1. /\ steady.first \in Nat /\ steady.now \in Nat /\ head.now \in Nat /\ head.first \in Nat
          /\ steady.first <= steady.now /\ steady.now <= head.now
      BY DEF TypeOK, Metas, Pages, Fits
    <2>2. steady.first <= m.now
      BY <1>3, <1>5, <1>6, <2>1
    <2>3. boot => head.first <= m.now
      BY <1>3, <1>5, <1>6
    <2> QED
      BY <1>1, <1>2, <2>2, <2>3 DEF Pages
  <1>15. Maps'
    BY <1>1, <1>2, <1>6, <1>8, <1>10, <1>11, <1>12 DEF Maps
  <1>16. Readers'
    BY <1>2, <1>12 DEF Readers
  <1>17. Owner'
    <2>1. Header' = Header
      BY <1>2 DEF Header
    <2>2. Opener'
      BY <1>1, <1>2, <1>5, <1>6, <1>7, <1>11, <2>1 DEF Opener
    <2> QED
      BY <1>2, <1>5, <1>7, <1>11, <2>2 DEF Owner, Cutting
  <1> QED
    BY <1>13, <1>14, <1>15, <1>16, <1>17

\* It writes the meta page anew if the geometry is not the one in use.
LEMMA OpenMetaStep ==
  ASSUME Inv, OpenMeta
  PROVE  Inv'
  <1> USE DEF Inv
  <1>1. /\ w.pc = "open" /\ head' = Header /\ boot' = TRUE
        /\ UNCHANGED <<plan, file, durable, steady, map, slot, reader>>
    BY DEF OpenMeta
  <1>2. w \in Holds /\ w.meta \in Metas /\ w.proc \in Procs
    BY <1>1 DEF TypeOK, Holds, Idle
  <1>3. /\ Mapped(w.proc) /\ Fits(plan, w.meta) /\ w.by = "open" /\ w.meta.now <= file
        /\ \A q \in Procs : Mapped(q) => q = w.proc
        /\ w.meta.txn = Header.txn /\ w.meta.first = Header.first
        /\ plan.weak => w.meta = Header
    BY <1>1 DEF Owner, Opener
  <1>4. /\ Header \in Metas /\ Fits(plan, Header)
        /\ Header = steady \/ (boot /\ Header = head)
        /\ ~plan.weak => Header = steady /\ head = steady
    BY HeaderFits
  <1>5. /\ w.meta.first \in Nat /\ w.meta.now \in Nat /\ Header.txn \in Nat /\ file \in Nat
        /\ w.meta.first <= w.meta.now
    BY <1>2, <1>3, <1>4 DEF TypeOK, Metas, Fits
  <1> DEFINE steadily == Header.steady \/ ~plan.weak
             m == [w.meta EXCEPT !.txn = @ + 1, !.steady = steadily]
  <1>6. /\ discarded' = pgno_ceil2os(Header.first)
        /\ \/ w.meta = Header /\ w' = Idle
           \/ w.meta # Header /\ w' = Held("sync", "open", w.proc, m)
    BY DEF OpenMeta
  <1>7. discarded' \in Nat
    BY <1>4, <1>6, CeilAbove DEF Metas
  <1>8. /\ m \in Metas /\ Fits(plan, m) /\ m.txn = Header.txn + 1 /\ m.first = w.meta.first
        /\ m.now = w.meta.now
        /\ ~plan.weak => m.steady
    <2>1. steadily \in BOOLEAN /\ (~plan.weak => steadily)
      OBVIOUS
    <2> HIDE DEF steadily
    <2>2. /\ m \in Metas /\ m.txn = w.meta.txn + 1 /\ m.steady = steadily /\ m.first = w.meta.first
          /\ m.now = w.meta.now /\ m.lower = w.meta.lower /\ m.upper = w.meta.upper
      <3> DEFINE o == w.meta
                 plain == [txn |-> o.txn + 1, first |-> o.first, now |-> o.now, lower |-> o.lower,
                           upper |-> o.upper, grow |-> o.grow, shrink |-> o.shrink, steady |-> steadily]
      <3>1. m = plain
        <4>1. o = [txn |-> o.txn, first |-> o.first, now |-> o.now, lower |-> o.lower,
                   upper |-> o.upper, grow |-> o.grow, shrink |-> o.shrink, steady |-> o.steady]
          BY <1>2 DEF Metas
        <4>2. m = [o EXCEPT !.txn = o.txn + 1, !.steady = steadily]
          BY <1>2 DEF Metas
        <4> HIDE DEF o, m
        <4> QED
          BY <4>1, <4>2
      <3>2. /\ o.txn + 1 \in Nat /\ o.first \in Nat /\ o.now \in Nat /\ o.lower \in Nat
            /\ o.upper \in Nat /\ o.grow \in Nat /\ o.shrink \in Nat
        BY <1>2 DEF Metas
      <3>3. plain \in Metas
        BY <2>1, <3>2 DEF Metas
      <3> QED
        BY <3>1, <3>3
    <2> HIDE DEF m
    <2> QED
      BY <1>3, <2>1, <2>2 DEF Fits
  <1> HIDE DEF m
  <1>9. \/ w.meta = Header /\ w' = Idle
        \/ /\ w.meta # Header /\ w' \in Holds /\ w'.pc = "sync" /\ w'.by = "open"
           /\ w'.proc = w.proc /\ ~w'.cut /\ w'.meta = m /\ w'.old = m
    <2>1. CASE w' = Idle /\ w.meta = Header
      BY <2>1
    <2>2. CASE w.meta # Header /\ w' = Held("sync", "open", w.proc, m)
      BY <1>2, <1>8, <2>2 DEF Held, Holds
    <2> QED
      BY <1>6, <2>1, <2>2
  <1>10. \A q \in Procs : ~IsOpen(q)
    BY <1>1, <1>3 DEF IsOpen, Opening
  <1>11. \A q \in Procs : IsOpen(q)' => w' = Idle
    BY <1>1, <1>3, <1>9 DEF IsOpen, Opening, Mapped
  <1>12. TypeOK'
    BY <1>1, <1>4, <1>7, <1>9 DEF TypeOK
  <1>13. Pages'
    <2>1. /\ steady.now \in Nat /\ steady.now <= Header.now /\ Header.first <= file
      BY <1>3, <1>4, <1>5 DEF TypeOK, Metas, Pages
    <2>2. Header.steady \/ ~plan.weak => Header = steady
      BY <1>4 DEF Pages
    <2> QED
      BY <1>1, <1>4, <2>1, <2>2 DEF Pages
  <1>14. Maps'
    <2>1. \A q \in Procs : IsOpen(q)' => Header.now <= file
      BY <1>3, <1>9, <1>11 DEF Idle, Holds
    <2> QED
      BY <1>1, <2>1 DEF Maps, Mapped
  <1>15. Readers'
    BY <1>1, <1>10 DEF Readers
  <1>16. Owner'
    <2>0. w' = Idle => Owner'
      BY DEF Owner, Idle
    <2> SUFFICES ASSUME w' # Idle PROVE Owner'
      BY <2>0
    <2>1. ~plan.weak
      BY <1>3, <1>9
    <2>2. Syncing'
      BY <1>1, <1>3, <1>5, <1>8, <1>9, <2>1 DEF Syncing
    <2>3. Opener'
      BY <1>1, <1>3, <1>8, <1>9 DEF Opener, Mapped
    <2> QED
      BY <1>1, <1>3, <1>8, <1>9, <2>2, <2>3 DEF Owner, Cutting, Mapped
  <1> QED
    BY <1>12, <1>13, <1>14, <1>15, <1>16

\* A process dies.
LEMMA KillStep ==
  ASSUME Inv, NEW p \in Procs, Kill(p)
  PROVE  Inv'
  <1> USE DEF Inv
  <1>1. /\ map' = [map EXCEPT ![p] = Closed] /\ slot' = [slot EXCEPT ![p] = 0]
        /\ reader' = [reader EXCEPT ![p] = NoReader]
        /\ w' = (IF w.pc # "idle" /\ w.proc = p THEN Idle ELSE w)
        /\ UNCHANGED <<plan, file, durable, head, steady, boot, discarded>>
    BY DEF Kill
  <1>2. Closed \in Mappings /\ Closed.limit = 0
    BY DEF Closed, Mappings
  <1>3. /\ map' \in [Procs -> Mappings] /\ slot' \in [Procs -> Nat] /\ map'[p] = Closed
        /\ reader'[p] = NoReader /\ reader' \in [Procs -> {NoReader} \cup Readings]
        /\ \A q \in Procs : q # p => map'[q] = map[q] /\ slot'[q] = slot[q] /\ reader'[q] = reader[q]
    BY <1>1, <1>2 DEF TypeOK
  <1>4. ~Mapped(p)' /\ \A q \in Procs : q # p => (Mapped(q)' <=> Mapped(q))
    BY <1>2, <1>3 DEF Mapped
  <1>5. \A q \in Procs : q # p => (IsOpen(q)' <=> IsOpen(q))
    BY <1>1, <1>4 DEF IsOpen, Opening, Idle
  <1>6. ~IsOpen(p)'
    BY <1>4 DEF IsOpen
  <1>7. TypeOK'
    BY <1>1, <1>3 DEF TypeOK
  <1>8. Pages'
    BY <1>1 DEF Pages
  <1>9. Maps'
    BY <1>1, <1>3, <1>4, <1>5, <1>6 DEF Maps
  <1>10. Readers'
    <2> SUFFICES ASSUME NEW q \in Procs PROVE ReaderFine(q)'
      BY DEF Readers, ReaderFine
    <2>1. CASE q = p
      BY <1>3, <2>1 DEF ReaderFine, NoReader
    <2>2. CASE q # p
      BY <1>1, <1>3, <1>5, <2>2 DEF Readers, ReaderFine, Pinned
    <2> QED
      BY <2>1, <2>2
  <1>11. Owner'
    <2>0. w' = Idle => Owner'
      BY DEF Owner, Idle
    <2> SUFFICES ASSUME w' # Idle PROVE Owner'
      BY <2>0
    <2>1. w' = w /\ (w.pc # "idle" => w.proc # p)
      BY <1>1
    <2> SUFFICES ASSUME w.pc # "idle" PROVE Owner'
      BY <2>1 DEF Owner
    <2>2. w \in Holds /\ w.proc \in Procs /\ w.proc # p
      BY <2>1 DEF TypeOK, Holds, Idle
    <2>3. map'[w.proc] = map[w.proc]
      BY <1>3, <2>2
    <2>4. Spared => Spared'
      BY <1>1, <1>3, <2>1 DEF Spared, Pinned, NoReader
    <2>5. \A m \in Metas : Transacting(m) => Transacting(m)'
      BY <1>1, <2>1, <2>3 DEF Transacting
    <2>6. Opener => Opener'
      BY <1>1, <1>4, <2>1 DEF Opener, Header
    <2> QED
      BY <1>1, <2>1, <2>2, <2>3, <2>4, <2>5, <2>6
      DEF Owner, Mapped, Cutting, Resizing, Syncing, Transacting, Holds
  <1> QED
    BY <1>7, <1>8, <1>9, <1>10, <1>11

\* The system restarts.
LEMMA PowerFailStep ==
  ASSUME Inv, PowerFail
  PROVE  Inv'
  <1> USE DEF Inv
  <1>1. /\ file' \in {file, durable} /\ boot' = head.steady
        /\ map' = [q \in Procs |-> Closed] /\ slot' = [q \in Procs |-> 0]
        /\ reader' = [q \in Procs |-> NoReader] /\ w' = Idle
        /\ UNCHANGED <<plan, durable, head, steady, discarded>>
    BY DEF PowerFail
  <1>2. TypeOK'
    BY <1>1 DEF TypeOK, Metas, Closed, Mappings
  <1>3. \A q \in Procs : ~Mapped(q)' /\ ~IsOpen(q)' /\ reader'[q].pc = "idle"
    BY <1>1 DEF Mapped, IsOpen, Closed, NoReader
  <1>4. Pages'
    <2>1. steady.first <= file'
      BY <1>1 DEF Pages
    <2>2. head.steady => head.first <= file'
      BY <2>1 DEF Pages
    <2> QED
      BY <1>1, <2>1, <2>2 DEF Pages
  <1>5. Maps' /\ Readers' /\ Owner'
    BY <1>1, <1>3 DEF Maps, Readers, Owner, Idle
  <1> QED
    BY <1>2, <1>4, <1>5

-----------------------------------------------------------------------------
(* The invariant                                                           *)

\* It holds at the start.
LEMMA InitInv ==
  ASSUME Init, Covered
  PROVE  Inv
  <1> DEFINE meta(pl) == [txn |-> 1, first |-> pl.init[1], now |-> pl.init[2],
                          lower |-> pl.geo.lower, upper |-> pl.geo.upper, grow |-> pl.geo.grow,
                          shrink |-> pl.geo.shrink, steady |-> TRUE]
             m == meta(plan)
             whole == [current |-> m.now, limit |-> m.upper, filesize |-> m.now]
  <1>1. PICK pl \in Plans :
           /\ plan = pl
           /\ file = meta(pl).now /\ durable = meta(pl).now
           /\ head = meta(pl) /\ steady = meta(pl) /\ boot = TRUE
           /\ \E open \in IF pl.alone THEN {{p} : p \in Procs} ELSE {Procs} :
                 map = [p \in Procs |-> IF p \in open
                          THEN [current |-> meta(pl).now, limit |-> meta(pl).upper,
                                filesize |-> meta(pl).now]
                          ELSE Closed]
           /\ slot = [p \in Procs |-> 0] /\ reader = [p \in Procs |-> NoReader]
           /\ w = Idle /\ discarded = meta(pl).now
    BY DEF Init
  <1>2. /\ plan \in PlanType
        /\ file = m.now /\ durable = m.now /\ discarded = m.now
        /\ head = m /\ steady = m /\ boot = TRUE
        /\ slot = [p \in Procs |-> 0] /\ reader = [p \in Procs |-> NoReader] /\ w = Idle
    BY <1>1, GeometryAssumption
  <1>3. PICK open \in IF plan.alone THEN {{p} : p \in Procs} ELSE {Procs} :
           map = [p \in Procs |-> IF p \in open THEN whole ELSE Closed]
    BY <1>1
  <1>4. /\ m \in Metas /\ m.steady = TRUE /\ m.first <= m.now /\ m.now <= m.upper
        /\ m.first \in Nat /\ m.now \in Nat /\ m.upper \in Nat
    BY <1>2 DEF PlanType, Covered, Sane, Metas
  <1>5. Fits(plan, m)
    <2>1. plan.geo.upper \in Uppers(plan) /\ plan.geo.upper \in Nat
      BY <1>2 DEF Uppers, PlanType
    <2>2. AtLeast(plan, m.upper) /\ AtMost(plan, m.upper)
      BY <2>1 DEF AtLeast, AtMost
    <2>3. /\ MinFirst <= m.first /\ m.lower <= m.now
          /\ Whole(m.now) /\ Whole(m.lower) /\ Whole(m.upper)
      BY DEF Covered, Sane, Ordered
    <2> HIDE DEF m
    <2> QED
      BY <1>4, <2>2, <2>3 DEF Fits
  <1> HIDE DEF m
  <1>6. whole \in Mappings /\ Closed \in Mappings /\ Closed.limit = 0
        /\ whole.current <= whole.limit /\ Whole(whole.limit) /\ AtLeast(plan, whole.limit)
        /\ whole.current = file
    BY <1>2, <1>4, <1>5 DEF Mappings, Closed, Fits
  <1> HIDE DEF whole
  <1>7. TypeOK
    BY <1>2, <1>3, <1>4, <1>6 DEF TypeOK
  <1>8. Pages
    BY <1>2, <1>4, <1>5 DEF Pages
  <1>9. \A p \in Procs : Mapped(p) => p \in open /\ map[p] = whole
    BY <1>3, <1>6 DEF Mapped
  <1>10. plan.alone => \A p, q \in open : p = q
    BY <1>3
  <1>11. Maps
    BY <1>2, <1>4, <1>6, <1>9, <1>10 DEF Maps
  <1>12. Readers /\ Owner
    BY <1>2 DEF Readers, NoReader, Owner, Idle
  <1> QED
    BY <1>7, <1>8, <1>11, <1>12 DEF Inv

\* The plan stays.
LEMMA PlanStays ==
  ASSUME [Next]_vars
  PROVE  plan' = plan
  BY DEF Next, vars, Seize, Publish, Check, Setup, End, Begin, Alloc, Refund, Abort, Commit, Sync,
         WriteMeta, ShrinkFile, SetGeometry, SetGeometryInside, ResizeNow, Join, Open, OpenMeta,
         Kill, PowerFail

\* Every step preserves it.
LEMMA NextInv ==
  ASSUME Inv, Covered, [Next]_vars
  PROVE  Inv'
  <1>1. ASSUME NEW p \in Procs,
               \/ Seize(p) \/ Publish(p) \/ Check(p) \/ Setup(p) \/ End(p)
               \/ Begin(p) \/ Sync(p) \/ Join(p) \/ Open(p) \/ Kill(p)
        PROVE  Inv'
    BY <1>1, SeizeStep, PublishStep, CheckStep, SetupStep, EndStep, BeginStep, SyncStep, JoinStep,
       OpenStep, KillStep
  <1>2. ASSUME NEW p \in Procs, NEW g \in plan.asked, NEW sync \in BOOLEAN, SetGeometry(p, g, sync)
        PROVE  Inv'
    BY <1>2, SetGeometryStep
  <1>3. ASSUME NEW n \in plan.steps, Alloc(n) \/ Refund(n)
        PROVE  Inv'
    <2>1. n \in Nat
      BY DEF Inv, TypeOK, PlanType
    <2> QED
      BY <1>3, <2>1, AllocStep, RefundStep
  <1>4. ASSUME NEW sync \in BOOLEAN, Commit(sync)
        PROVE  Inv'
    BY <1>4, CommitStep
  <1>5. ASSUME NEW g \in plan.asked, SetGeometryInside(g)
        PROVE  Inv'
    BY <1>5, SetGeometryInsideStep
  <1>6. ASSUME Abort \/ WriteMeta \/ ShrinkFile \/ ResizeNow \/ OpenMeta \/ PowerFail
        PROVE  Inv'
    BY <1>6, AbortStep, WriteMetaStep, ShrinkFileStep, ResizeNowStep, OpenMetaStep, PowerFailStep
  <1>7. CASE UNCHANGED vars
    BY <1>7 DEF vars, Inv, TypeOK, Pages, Maps, Readers, Owner, Mapped, IsOpen, Opening, Pinned,
       Opener, Header, Transacting, Resizing, Syncing, Cutting, Spared
  <1> QED
    BY <1>1, <1>2, <1>3, <1>4, <1>5, <1>6, <1>7 DEF Next

\* What the file and the mappings hold is known at any time: the inductive
\* invariant of every plan that is covered.
THEOREM Invariance == Spec => [](Covered => Inv)
  <1>1. Init => (Covered => Inv)
    BY InitInv
  <1>2. (Covered => Inv) /\ [Next]_vars => (Covered => Inv)'
    <2> SUFFICES ASSUME Covered => Inv, [Next]_vars, Covered'
                 PROVE  Inv'
      OBVIOUS
    <2>1. Covered
      BY PlanStays DEF Covered
    <2> QED
      BY <2>1, NextInv
  <1> QED
    BY <1>1, <1>2, PTL DEF Spec

-----------------------------------------------------------------------------
(* The properties                                                          *)

\* While a transaction runs, every page it may touch is in the file and in
\* the mapping of its process (txn_setup_primal, dxb_sync_locked, dxb_resize).
THEOREM FileBacked == Spec => [](Covered => Backed)
  <1>1. Inv => Backed
    <2> SUFFICES ASSUME Inv PROVE Backed
      OBVIOUS
    <2>1. \A p \in Procs : reader[p].pc = "active" =>
             reader[p].snap.first <= file /\ reader[p].snap.first <= map[p].limit
      BY DEF Inv, Readers, Pinned
    <2>2. w.pc = "txn" => w.meta.now <= file /\ w.meta.now <= map[w.proc].limit
      BY DEF Inv, Owner, Transacting
    <2> QED
      BY <2>1, <2>2 DEF Backed
  <1> QED
    BY <1>1, Invariance, PTL

\* Wherever the process or the system dies, the meta page the next opener
\* takes passes meta_validate (dxb_read_header, meta_validate).
THEOREM FileOpenable == Spec => [](Covered => Openable)
  <1>1. Inv => Openable
    <2> SUFFICES ASSUME Inv PROVE Openable
      OBVIOUS
    <2>1. Fits(plan, Header)
      BY HeaderFits
    <2>2. Header.first <= file
      BY DEF Inv, Pages, Header
    <2> QED
      BY <2>1, <2>2 DEF Fits, Openable, meta_validate
  <1> QED
    BY <1>1, Invariance, PTL
=============================================================================

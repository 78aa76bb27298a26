--------------------------- MODULE MetaCrashProofs ---------------------------
(***************************************************************************)
(* What a system crash leaves of a durable environment, for any number of  *)
(* crashes, transactions and openings: weak transactions included, and     *)
(* killed processes where the file is not mapped for writing.              *)
(*                                                                         *)
(* The cache and the disk differ in one page at most, the one being        *)
(* written.  Both hold a steady page whose data is on the disk, that is    *)
(* not older than any promise and that nothing was reclaimed beyond: it is *)
(* never the page a commit overwrites.                                     *)
(***************************************************************************)
EXTENDS MetaProofs

\* The plans meant: no flag of an environment weakens durability, fsync does
\* not fail, and a mapping for writing dies with the system only.
Durably ==
    /\ \A flags \in Plan.flags : Full(flags)
    /\ \A flags \in Plan.flags : \A t \in Plan.txns[flags] :
          "WRITEMAP" \in flags => "NOMETASYNC" \notin t
    /\ Plan.kills \subseteq {{}} /\ Plan.io = FALSE

Valid(m) == m.a = m.b /\ m.a >= 1
Steady(m) == Valid(m) /\ m.steady = TRUE

\* What is known of the data pages, in one record.
World == [boot |-> boot, reused |-> reused, promised |-> promised,
          owner |-> owner, cached |-> cached, lost |-> lost]

\* The pages of the snapshot of txnid x are those transaction g left, and no
\* crash took one of them.
Whole(x, g, w) ==
    /\ w.owner[x] = g
    /\ \A y \in 1 .. x : w.owner[y] <= g /\ w.owner[y] \notin w.lost

\* None of them is only in the cache.
Flushed(x, w) == \A y \in 1 .. x : w.owner[y] \notin w.cached

\* A system crash does not harm the snapshot of this page, and it is no older
\* than what was promised.
Good(m, w) ==
    /\ w.reused <= m.a /\ w.promised <= m.a
    /\ Whole(m.a, m.gen, w) /\ Flushed(m.a, w)

\* The last steady page of these pages, which gc_alloc_ex stops at.
Last(d, i) == Steady(d[i]) /\ \A j \in Metas : Steady(d[j]) => d[j].a <= d[i].a

\* Pages that recovery works on.
Sound(d, w) ==
    /\ \A i \in Metas : d[i].boot <= w.boot /\ (Valid(d[i]) => d[i].a <= MaxTxn)
    /\ \A i, j \in Metas : i # j /\ Valid(d[i]) /\ Valid(d[j]) =>
          d[i].a # d[j].a /\ (d[i].boot < d[j].boot => d[i].a < d[j].a)
    /\ \E i \in Metas : Last(d, i) /\ Good(d[i], w)
    /\ \A i \in Metas : Valid(d[i]) /\ d[i].steady = FALSE /\ d[i].boot = w.boot =>
          Whole(d[i].a, d[i].gen, w)

Running == pc \in {"idle", "txn", "write"} \/ InCall
Going == pc \in {"txn", "write"} \/ (InCall /\ call.then = "txn")

Files ==
    /\ Sound(mem, World) /\ Sound(disk, World)
    /\ \A i \in Metas : disk[i] # mem[i] =>
          i = call.target /\ pc \in {"publish", "sign", "msync"} /\ WriteMap

Settings ==
    /\ lck \in [unsynced : 0 .. 2,
                msync : [txnid : Nat, lazy : {"no", "fd", "map"}]]
    /\ (Running \/ pc = "open") =>
          env.flags \in Plan.flags /\ env.dsync = TRUE /\ env.metadsync = TRUE
    /\ WriteMap /\ Going => "NOMETASYNC" \notin txn.flags
    /\ pc = "down" \/ pc = "open" \/ Running

\* Who owns what.
Numbers ==
    /\ \A x \in 1 .. MaxTxn : owner[x] <= gen
    /\ \A g \in cached \cup lost : g \in Nat /\ g <= gen

\* What is known of the head.
HeadWhole == Running => Whole(Head.txnid, mem[Recent].gen, World)
HeadFlushed == Running /\ lck.unsynced = 0 => Flushed(Head.txnid, World)

\* What a transaction finds: its number is new.
AtWork ==
    Going => /\ Head.txnid < MaxTxn /\ gen \notin lost
             /\ \A x \in 1 .. Head.txnid : owner[x] < gen
             /\ (~WriteMap /\ gen \in cached) => lck.unsynced > 0

Snapshots == Numbers /\ HeadWhole /\ HeadFlushed /\ AtWork

\* dxb_sync_locked, from its call to the end of env_sync: what it was called
\* with,
Asked ==
    InCall =>
        /\ call.back = "txn" => call.then = "txn"
        /\ call.back # "idle" => call.flags \subseteq {"WRITEMAP"}
        /\ "NOMETASYNC" \in call.flags => ~WriteMap
        /\ call.then = "txn" => call.txnid = Head.txnid

\* the snapshot of the page to write,
ToWrite ==
    pc \in {"sync", "meta", "publish"} =>
        /\ call.txnid \in 1 .. MaxTxn /\ call.txnid >= Head.txnid
        /\ Whole(call.txnid, call.gen, World)
        /\ lck.unsynced = 0 => Flushed(call.txnid, World)

\* its sign,
Sign ==
    /\ pc = "sync" => ("NOMETASYNC" \in call.flags => call.steady = FALSE)
    /\ pc \in {"meta", "publish", "sign", "msync"} =>
         /\ call.steady = TRUE => Flushed(call.txnid, World)
         /\ Full(call.flags) => call.steady = TRUE

\* and its place.
Place ==
    /\ pc = "meta" =>
         \/ call.txnid > Head.txnid /\ call.target # Recent /\ call.target # Prefer
         \/ /\ call.txnid = Head.txnid /\ call.target = Recent
            /\ mem[Recent].steady = FALSE /\ call.steady = TRUE
    /\ pc = "publish" => call.txnid > Head.txnid /\ ~Valid(mem[call.target])
    /\ pc \in {"publish", "sign"} => WriteMap
    /\ pc \in {"sign", "msync"} =>
         call.target = Recent /\ call.txnid = Head.txnid
    /\ pc = "sign" => mem[Recent].steady = FALSE
    /\ pc = "msync" => mem[Recent].steady = call.steady
    /\ pc = "metasync" => mem[Recent].steady = TRUE

Calling == Asked /\ ToWrite /\ Sign /\ Place

Crashable == Files /\ Settings /\ Snapshots /\ Calling

CrashInv == Durably => Crashable
-----------------------------------------------------------------------------
(* Pages. *)

\* What a snap tells of a page.
LEMMA SnapFacts ==
    ASSUME NEW m \in Page
    PROVE  LET s == meta_snap(m) IN
           /\ s \in Snaps
           /\ Valid(m) => s.txnid = m.a
           /\ ~Valid(m) => s.txnid = 0
           /\ s.steady = TRUE <=> Steady(m)
           /\ m.steady \in BOOLEAN /\ m.a \in Nat /\ m.b \in Nat /\ m.boot \in Nat /\ m.gen \in Nat
  <1> DEFINE s == meta_snap(m)
  <1>1. m.steady \in BOOLEAN /\ m.a \in Nat /\ m.b \in Nat /\ m.boot \in Nat /\ m.gen \in Nat
    BY DEF Page
  <1>2. s.steady = (m.steady /\ m.a >= 1 /\ m.a = m.b)
    BY DEF meta_snap
  <1>3. s.txnid = IF m.a = m.b THEN m.a ELSE 0
    BY DEF meta_snap
  <1>4. s \in Snaps
    BY DEF Page, meta_snap, Snaps
  <1>5. s.steady = TRUE <=> Steady(m)
    <2>1. s.steady = TRUE <=> (m.steady /\ m.a >= 1 /\ m.a = m.b)
      BY <1>2, Zenon
    <2>2. m.steady = TRUE <=> m.steady
      BY <1>1
    <2> QED BY <2>1, <2>2 DEF Steady, Valid
  <1>6. (Valid(m) => s.txnid = m.a) /\ (~Valid(m) => s.txnid = 0)
    BY <1>1, <1>3 DEF Valid
  <1> QED BY <1>1, <1>4, <1>5, <1>6

\* The head is the newest valid page; the last steady page is where a recovery
\* and gc_alloc_ex stop, and the next commit overwrites neither.
LEMMA MemFacts ==
    ASSUME Types, Sound(mem, World)
    PROVE  /\ Recent \in Metas /\ Prefer \in Metas /\ tail(Tap) \in Metas
           /\ Valid(mem[Recent]) /\ Head.txnid = mem[Recent].a /\ Head.txnid \in 1 .. MaxTxn
           /\ \A i \in Metas : i # Recent /\ Valid(mem[i]) => mem[i].a < Head.txnid
           /\ Head.steady = TRUE <=> mem[Recent].steady = TRUE
           /\ Last(mem, Prefer) /\ Good(mem[Prefer], World) /\ Detent = mem[Prefer].a
           /\ Tap[Prefer].steady = TRUE
           /\ \A i \in Metas : Last(mem, i) => i = Prefer
           /\ reused <= Detent /\ promised <= Detent /\ Detent \in Nat /\ Detent <= Head.txnid
           /\ mem[Recent].steady = TRUE => Recent = Prefer
           /\ tail(Tap) # Recent /\ tail(Tap) # Prefer
           /\ Distinct
  <1>1. /\ Tap \in [Metas -> Snaps] /\ Recent \in Metas /\ Head.txnid = Tap[Recent].txnid
        /\ \A i \in Metas : Tap[i].txnid <= Head.txnid
        /\ tail(Tap) \in Metas /\ tail(Tap) # Recent /\ MaxTxn \in Nat
    BY TapFacts, HeadFacts, MetaAssumption
  <1>2. ASSUME NEW i \in Metas
        PROVE  /\ mem[i] \in Page /\ Tap[i] \in Snaps
               /\ Valid(mem[i]) => Tap[i].txnid = mem[i].a
               /\ ~Valid(mem[i]) => Tap[i].txnid = 0
               /\ Tap[i].steady = TRUE <=> Steady(mem[i])
               /\ mem[i].a \in Nat /\ mem[i].steady \in BOOLEAN /\ Tap[i].txnid \in Nat
    <2>1. mem[i] \in Page /\ Tap[i] = meta_snap(mem[i])
      BY DEF Types, Tap
    <2> QED BY <2>1, SnapFacts DEF Snaps
  <1>a. \A i \in Metas : Tap[i].txnid \in Nat /\ mem[i].a \in Nat
    BY <1>2
  <1>b. \A i \in Metas : Valid(mem[i]) => Tap[i].txnid = mem[i].a /\ mem[i].a >= 1 /\ mem[i].a <= MaxTxn
    BY <1>2 DEF Valid, Sound
  <1>c. \A i \in Metas : ~Valid(mem[i]) => Tap[i].txnid = 0
    BY <1>2
  <1>d. \A i \in Metas : Tap[i].steady = TRUE <=> Steady(mem[i])
    BY <1>2
  <1>e. \A i, j \in Metas : i # j /\ Valid(mem[i]) /\ Valid(mem[j]) => mem[i].a # mem[j].a
    BY DEF Sound
  <1>3. PICK p \in Metas : Last(mem, p) /\ Good(mem[p], World)
    BY DEF Sound
  <1>4. Prefer \in Metas /\ tail(Tap) # Prefer
        /\ \A i \in Metas : Tap[i].steady = TRUE =>
              Tap[Prefer].steady = TRUE /\ Tap[i].txnid <= Tap[Prefer].txnid
    <2>1. Prefer \in Metas
      BY DEF Prefer, prefer_steady, Best, Metas
    <2> QED BY <1>1, <2>1, TailTheorem DEF TailIsFree, Prefer
  <1>5. Tap[p].steady = TRUE /\ Valid(mem[p]) /\ Steady(mem[p])
    BY <1>2, <1>3 DEF Last, Steady
  <1>6. Steady(mem[Prefer]) /\ mem[p].a <= mem[Prefer].a /\ mem[Prefer].a <= mem[p].a
    BY <1>2, <1>3, <1>4, <1>5 DEF Last, Steady
  <1>7. Prefer = p
    BY <1>3, <1>4, <1>5, <1>6, <1>a, <1>e DEF Steady
  <1>8. \A i \in Metas : Last(mem, i) => i = p
    <2>1. ASSUME NEW i \in Metas, Last(mem, i) PROVE mem[i].a = mem[p].a /\ Valid(mem[i])
      <3>1. Steady(mem[i]) /\ mem[p].a <= mem[i].a /\ mem[i].a <= mem[p].a
        BY <1>3, <1>5, <2>1 DEF Last
      <3> QED BY <1>a, <3>1 DEF Steady
    <2> QED BY <1>5, <1>e, <2>1
  <1>9. Valid(mem[Recent]) /\ Head.txnid = mem[Recent].a /\ Head.txnid \in 1 .. MaxTxn
    <2>1. Tap[p].txnid >= 1
      BY <1>5, <1>b
    <2>2. Tap[Recent].txnid >= 1
      BY <1>1, <1>a, <2>1
    <2> QED BY <1>1, <1>a, <1>b, <1>c, <2>2
  <1>10. \A i \in Metas : i # Recent /\ Valid(mem[i]) => mem[i].a < Head.txnid
    BY <1>1, <1>9, <1>a, <1>b, <1>e
  <1>11. Head.steady = TRUE <=> mem[Recent].steady = TRUE
    BY <1>1, <1>9, <1>d DEF Head, Steady
  <1>12. Detent = mem[Prefer].a /\ reused <= Detent /\ promised <= Detent /\ Detent \in Nat
         /\ Detent <= Head.txnid
    <2>1. Detent = mem[Prefer].a
      BY <1>2, <1>4, <1>6 DEF Detent, Steady
    <2> QED BY <1>1, <1>2, <1>3, <1>4, <1>5, <1>7, <2>1 DEF Good, World
  <1>13. mem[Recent].steady = TRUE => Recent = Prefer
    <2>1. ASSUME mem[Recent].steady = TRUE PROVE Last(mem, Recent)
      <3>1. \A j \in Metas : Valid(mem[j]) => mem[j].a <= mem[Recent].a
        BY <1>1, <1>9, <1>10, <1>a
      <3> QED BY <1>1, <1>9, <2>1, <3>1 DEF Last, Steady
    <2> QED BY <1>1, <1>7, <1>8, <2>1
  <1>14. Distinct
    BY <1>b, <1>c, <1>e DEF Distinct
  <1>15. Tap[Prefer].steady = TRUE
    BY <1>5, <1>7
  <1> QED BY <1>1, <1>3, <1>4, <1>7, <1>8, <1>9, <1>10, <1>11, <1>12, <1>13, <1>14, <1>15

\* Pages stay sound when only what they do not refer to changes.
LEMMA SoundKept ==
    ASSUME NEW d \in [Metas -> Page], NEW v, NEW w, Sound(d, v),
           w.boot = v.boot, w.lost = v.lost,
           \A i \in Metas : \A x \in 1 .. d[i].a : Valid(d[i]) =>
               /\ w.owner[x] = v.owner[x]
               /\ v.owner[x] \notin v.cached => w.owner[x] \notin w.cached,
           \A i \in Metas : Last(d, i) /\ Good(d[i], v) => w.reused <= d[i].a /\ w.promised <= d[i].a
    PROVE  Sound(d, w)
  <1>1. ASSUME NEW i \in Metas, Valid(d[i])
        PROVE  d[i].a \in 1 .. d[i].a
    <2>1. d[i].a \in Nat /\ d[i].a >= 1
      BY <1>1 DEF Valid, Page
    <2> QED BY <2>1
  <1>2. ASSUME NEW i \in Metas, Valid(d[i]), Whole(d[i].a, d[i].gen, v) PROVE Whole(d[i].a, d[i].gen, w)
    BY <1>1, <1>2 DEF Whole
  <1>3. ASSUME NEW i \in Metas, Last(d, i), Good(d[i], v) PROVE Good(d[i], w)
    <2>1. Valid(d[i])
      BY <1>3 DEF Last, Steady
    <2> QED BY <1>1, <1>2, <1>3, <2>1 DEF Good, Flushed
  <1> QED BY <1>2, <1>3 DEF Sound

\* A page may be replaced by one that is invalid, or newer than the others, and
\* whose data are on the disk if it is steady; the last steady page only by a
\* steady one.
LEMMA Replaced ==
    ASSUME NEW d \in [Metas -> Page], NEW w, Sound(d, w), NEW k \in Metas, NEW p \in Page,
           w.boot \in Nat, p.boot <= w.boot,
           Valid(p) => /\ p.a <= MaxTxn
                       /\ \A j \in Metas : j # k /\ Valid(d[j]) => d[j].a < p.a /\ d[j].boot <= p.boot,
           Steady(p) => Good(p, w),
           ~Steady(p) => ~Last(d, k),
           Valid(p) /\ p.steady = FALSE /\ p.boot = w.boot => Whole(p.a, p.gen, w)
    PROVE  Sound([d EXCEPT ![k] = p], w)
  <1> DEFINE e == [d EXCEPT ![k] = p]
  <1>1. e[k] = p /\ \A i \in Metas : i # k => e[i] = d[i]
    OBVIOUS
  <1>2. \A i \in Metas : d[i] \in Page /\ d[i].a \in Nat /\ d[i].boot \in Nat
    BY DEF Page
  <1>3. p.a \in Nat /\ p.boot \in Nat /\ MaxTxn \in Nat
    BY MetaAssumption DEF Page
  <1> HIDE DEF e
  <1>4. \A i \in Metas : e[i].boot <= w.boot /\ (Valid(e[i]) => e[i].a <= MaxTxn)
    BY <1>1 DEF Sound
  <1>5. \A i, j \in Metas : i # j /\ Valid(e[i]) /\ Valid(e[j]) =>
          e[i].a # e[j].a /\ (e[i].boot < e[j].boot => e[i].a < e[j].a)
    BY <1>1, <1>2, <1>3 DEF Sound
  <1>6. \E i \in Metas : Last(e, i) /\ Good(e[i], w)
    <2>1. CASE Steady(p)
      <3>1. \A j \in Metas : Steady(e[j]) => e[j].a <= p.a
        BY <1>1, <1>2, <1>3, <2>1 DEF Steady
      <3> QED BY <1>1, <2>1, <3>1 DEF Last
    <2>2. CASE ~Steady(p)
      <3>1. PICK i \in Metas : Last(d, i) /\ Good(d[i], w)
        BY DEF Sound
      <3>2. i # k
        BY <2>2, <3>1
      <3> QED BY <1>1, <2>2, <3>1, <3>2 DEF Last
    <2> QED BY <2>1, <2>2
  <1>7. \A i \in Metas : Valid(e[i]) /\ e[i].steady = FALSE /\ e[i].boot = w.boot =>
          Whole(e[i].a, e[i].gen, w)
    BY <1>1 DEF Sound
  <1>8. Sound(e, w)
    BY <1>4, <1>5, <1>6, <1>7 DEF Sound
  <1> QED BY <1>8 DEF e
-----------------------------------------------------------------------------
(* Steps that write no meta page. *)

\* The record and its fields.
LEMMA WorldFields ==
    /\ World.boot = boot /\ World.reused = reused /\ World.promised = promised
    /\ World.owner = owner /\ World.cached = cached /\ World.lost = lost
  BY DEF World

\* The cache stays; the disk stays or catches up with it; a promise is made
\* only of a steady head.
LEMMA QuietFiles ==
    ASSUME Types, Types', Files, mem' = mem, UNCHANGED <<boot, owner, lost, reused>>,
           cached' \subseteq cached,
           \/ disk' = mem
           \/ disk' = disk /\ disk = mem
           \/ /\ disk' = disk /\ promised' = promised
              /\ pc' \in {"publish", "sign", "msync"} /\ call'.target = call.target /\ env' = env,
           promised' = promised \/ (promised' = Head.txnid /\ mem[Recent].steady = TRUE)
    PROVE  /\ Files'
           /\ Tap' = Tap /\ Recent' = Recent /\ Head' = Head /\ Prefer' = Prefer
           /\ \A x, g : Whole(x, g, World) => Whole(x, g, World')
           /\ \A x : Flushed(x, World) => Flushed(x, World')
           /\ cached' = {} => \A x : Flushed(x, World')
  <1>1. /\ Last(mem, Prefer) /\ Good(mem[Prefer], World) /\ Detent = mem[Prefer].a
        /\ \A i \in Metas : Last(mem, i) => i = Prefer
        /\ reused <= Detent /\ promised <= Detent
        /\ mem[Recent].steady = TRUE => Recent = Prefer
        /\ Head.txnid = mem[Recent].a /\ Head.txnid \in Nat /\ Recent \in Metas
    <2>1. Head.txnid \in 1 .. MaxTxn /\ MaxTxn \in Nat
      BY MemFacts, MetaAssumption DEF Files
    <2>2. Head.txnid \in Nat
      BY <2>1
    <2> QED BY <2>2, MemFacts DEF Files
  <1>2. Tap' = Tap /\ Recent' = Recent /\ Head' = Head /\ Prefer' = Prefer
    BY SameMem DEF Prefer
  <1>3. /\ World.boot = boot /\ World.reused = reused /\ World.promised = promised
        /\ World.owner = owner /\ World.cached = cached /\ World.lost = lost
        /\ World'.boot = boot /\ World'.reused = reused /\ World'.promised = promised'
        /\ World'.owner = owner /\ World'.cached = cached' /\ World'.lost = lost
    BY DEF World
  <1>4. MaxTxn \in Nat /\ mem \in [Metas -> Page] /\ disk \in [Metas -> Page]
    BY MetaAssumption DEF Types
  <1>5. ASSUME NEW d \in [Metas -> Page], NEW v, v = World, NEW w, w = World', Sound(d, v),
               promised' = promised \/ d = mem
        PROVE  Sound(d, w)
    <2>2. \A i \in Metas : Last(d, i) /\ Good(d[i], v) => w.reused <= d[i].a /\ w.promised <= d[i].a
      <3>1. CASE promised' = promised
        BY <1>3, <1>5, <3>1 DEF Good
      <3>2. CASE d = mem /\ promised' = Head.txnid /\ mem[Recent].steady = TRUE
        BY <1>1, <1>3, <1>5, <3>2 DEF Good
      <3> QED BY <1>5, <3>1, <3>2
    <2>3. w.owner = v.owner /\ w.cached \subseteq v.cached
      BY <1>3, <1>5
    <2>4. w.boot = v.boot /\ w.lost = v.lost
      BY <1>3, <1>5
    <2>5. d \in [Metas -> Page] /\ Sound(d, v)
      BY <1>5
    <2>6. \A i \in Metas : \A x \in 1 .. d[i].a : Valid(d[i]) =>
               /\ w.owner[x] = v.owner[x]
               /\ v.owner[x] \notin v.cached => w.owner[x] \notin w.cached
      BY <2>3
    <2> QED BY <2>2, <2>4, <2>5, <2>6, SoundKept, SMTT(60)
  <1>6. Sound(mem, World')
    BY <1>4, <1>5 DEF Files
  <1>7. Sound(disk', World')
    BY <1>4, <1>5, <1>6 DEF Files
  <1>8. Files'
    <2>1. \A i \in Metas : disk'[i] # mem'[i] =>
            i = call'.target /\ pc' \in {"publish", "sign", "msync"} /\ WriteMap'
      BY DEF Files, WriteMap
    <2> QED BY <1>6, <1>7, <2>1 DEF Files
  <1>9. \A x, g : Whole(x, g, World) => Whole(x, g, World')
    BY <1>3 DEF Whole
  <1>10. \A x : Flushed(x, World) => Flushed(x, World')
    BY <1>3 DEF Flushed
  <1>11. cached' = {} => \A x : Flushed(x, World')
    BY <1>3 DEF Flushed
  <1> QED BY <1>2, <1>8, <1>9, <1>10, <1>11

\* The same of what transactions find.
LEMMA QuietSnapshots ==
    ASSUME Types, Types', Files, Snapshots, mem' = mem, UNCHANGED <<boot, owner, lost, reused, gen>>,
           cached' \subseteq cached,
           \/ disk' = mem
           \/ disk' = disk /\ disk = mem
           \/ /\ disk' = disk /\ promised' = promised
              /\ pc' \in {"publish", "sign", "msync"} /\ call'.target = call.target /\ env' = env,
           promised' = promised \/ (promised' = Head.txnid /\ mem[Recent].steady = TRUE),
           Running' => Whole(Head.txnid, mem[Recent].gen, World),
           Running' /\ lck'.unsynced = 0 => Flushed(Head.txnid, World) \/ cached' = {},
           Going' => Going /\ env' = env /\ (lck'.unsynced = lck.unsynced \/ cached' = {})
    PROVE  /\ Files' /\ Snapshots'
           /\ Tap' = Tap /\ Recent' = Recent /\ Head' = Head /\ Prefer' = Prefer
           /\ \A x, g : Whole(x, g, World) => Whole(x, g, World')
           /\ \A x : Flushed(x, World) => Flushed(x, World')
           /\ cached' = {} => \A x : Flushed(x, World')
  <1>1. /\ Files'
        /\ Tap' = Tap /\ Recent' = Recent /\ Head' = Head /\ Prefer' = Prefer
        /\ \A x, g : Whole(x, g, World) => Whole(x, g, World')
        /\ \A x : Flushed(x, World) => Flushed(x, World')
        /\ cached' = {} => \A x : Flushed(x, World')
    BY QuietFiles
  <1>2. Numbers'
    BY DEF Snapshots, Numbers
  <1>3. HeadWhole'
    BY <1>1 DEF HeadWhole
  <1>4. HeadFlushed'
    BY <1>1 DEF HeadFlushed
  <1>5. AtWork'
    BY <1>1 DEF Snapshots, AtWork, WriteMap
  <1>7. Snapshots'
    BY <1>2, <1>3, <1>4, <1>5 DEF Snapshots
  <1> QED BY <1>1, <1>7
-----------------------------------------------------------------------------
(* Opening. *)

\* Nothing is asked of a call where there is none.
LEMMA NoCalling == ~InCall => Calling
  BY DEF InCall, Calling, Asked, ToWrite, Sign, Place

\* How pages are compared, with signs that are values.
LEMMA ChoiceRules ==
    ASSUME NEW a \in Snaps, NEW b \in Snaps
    PROVE  /\ meta_choice_recent(a, b) <=>
                 \/ a.txnid > b.txnid
                 \/ a.txnid = b.txnid /\ a.steady = TRUE /\ b.steady = FALSE
           /\ meta_choice_steady(a, b) <=>
                 \/ a.steady = TRUE /\ b.steady = FALSE
                 \/ a.steady = b.steady /\ a.txnid > b.txnid
  <1>1. a.steady \in BOOLEAN /\ b.steady \in BOOLEAN
    BY DEF Snaps
  <1>2. /\ a.steady <=> a.steady = TRUE
        /\ ~b.steady <=> b.steady = FALSE
        /\ (a.steady <=> b.steady) <=> a.steady = b.steady
    BY <1>1
  <1>3. meta_choice_recent(a, b) <=>
            a.txnid > b.txnid \/ (a.txnid = b.txnid /\ a.steady /\ ~b.steady)
    BY RecentRule
  <1>4. meta_choice_steady(a, b) <=>
            (a.steady /\ ~b.steady) \/ ((a.steady <=> b.steady) /\ a.txnid > b.txnid)
    BY SteadyRule
  <1> QED BY <1>2, <1>3, <1>4, Zenon

\* Of the pages of ps dxb_read_header has latched none, if none is valid, or
\* one: a page it would refuse only where there is no steady one.
Chosen(h, ps, i) ==
    /\ Valid(mem[i]) /\ h.snap = meta_snap(mem[i])
    /\ Steady(mem[i]) \/ Matches(mem[i]) => h.ok = TRUE
    /\ Steady(mem[i]) \/ Matches(mem[i]) \/ \A j \in ps : ~Steady(mem[j])
LatchedOf(h, ps) ==
    \/ h.snap = [txnid |-> 0, steady |-> FALSE] /\ \A i \in ps : ~Valid(mem[i])
    \/ \E i \in ps : Chosen(h, ps, i)

\* It goes on so with the next page, since pages of this boot are newer than
\* older ones.
LEMMA LatchOn ==
    ASSUME Types, Sound(mem, World), NEW h, NEW ps \in SUBSET Metas, NEW k \in Metas,
           k \notin ps, LatchedOf(h, ps)
    PROVE  LatchedOf(Latch(h, mem[k]), ps \cup {k})
  <1> DEFINE m == mem[k]
             s == meta_snap(m)
             n == [snap |-> s, ok |-> s.steady \/ Matches(m)]
             better == IF Matches(m) THEN meta_choice_recent(s, h.snap) ELSE meta_choice_steady(s, h.snap)
  <1>1. Latch(h, m) = IF m.a = m.b /\ better THEN n ELSE h
    BY DEF Latch
  <1>2. /\ s \in Snaps /\ (Valid(m) => s.txnid = m.a) /\ (~Valid(m) => s.txnid = 0)
        /\ s.steady = TRUE <=> Steady(m)
        /\ m.steady \in BOOLEAN /\ m.a \in Nat /\ m.b \in Nat /\ m.boot \in Nat
    <2>1. m \in Page
      BY DEF Types
    <2> HIDE DEF m
    <2> QED BY <2>1, SnapFacts DEF s
  <1>3. n.snap = s /\ (Steady(m) \/ Matches(m) => n.ok = TRUE)
    <2>1. n.ok = (s.steady \/ Matches(m)) /\ n.snap = s
      OBVIOUS
    <2>2. s.steady \in BOOLEAN
      BY <1>2 DEF Snaps
    <2>3. Matches(m) \in BOOLEAN
      BY DEF Matches
    <2> HIDE DEF n, s, m
    <2> QED BY <1>2, <2>1, <2>2, <2>3
  <1>4. ASSUME NEW i \in ps
        PROVE  /\ Valid(mem[i]) /\ Valid(m) =>
                    mem[i].a # m.a /\ (Matches(m) /\ ~Matches(mem[i]) => mem[i].a < m.a)
                                   /\ (Matches(mem[i]) /\ ~Matches(m) => m.a < mem[i].a)
               /\ meta_snap(mem[i]) \in Snaps
               /\ Valid(mem[i]) => meta_snap(mem[i]).txnid = mem[i].a
               /\ meta_snap(mem[i]).steady = TRUE <=> Steady(mem[i])
               /\ mem[i].a \in Nat
    <2>1. i \in Metas /\ i # k /\ mem[i] \in Page /\ mem[k] \in Page
      BY DEF Types
    <2>2. mem[i].boot <= boot /\ m.boot <= boot /\ boot \in Nat /\ mem[i].boot \in Nat /\ m.boot \in Nat
      BY <2>1 DEF Sound, World, Page, Types
    <2>3. Valid(mem[i]) /\ Valid(m) => mem[i].a # m.a /\ (mem[i].boot < m.boot => mem[i].a < m.a)
                                      /\ (m.boot < mem[i].boot => m.a < mem[i].a)
      BY <2>1 DEF Sound
    <2>4. (Matches(m) <=> m.boot = boot) /\ (Matches(mem[i]) <=> mem[i].boot = boot)
      BY DEF Matches
    <2>5. Valid(mem[i]) /\ Valid(m) =>
                    mem[i].a # m.a /\ (Matches(m) /\ ~Matches(mem[i]) => mem[i].a < m.a)
                                   /\ (Matches(mem[i]) /\ ~Matches(m) => m.a < mem[i].a)
      <3> HIDE DEF m
      <3> QED BY <2>2, <2>3, <2>4
    <2> QED BY <2>1, <2>5, SnapFacts
  <1>5. ASSUME h.snap \in Snaps
        PROVE  better <=> IF Matches(m)
                 THEN \/ s.txnid > h.snap.txnid
                      \/ s.txnid = h.snap.txnid /\ s.steady = TRUE /\ h.snap.steady = FALSE
                 ELSE \/ s.steady = TRUE /\ h.snap.steady = FALSE
                      \/ s.steady = h.snap.steady /\ s.txnid > h.snap.txnid
    BY <1>2, <1>5, ChoiceRules
  <1>6. m = mem[k] /\ s = meta_snap(m)
    OBVIOUS
  <1> HIDE DEF m, s, n, better
  <1>7. ~Valid(m) => ~Steady(m) /\ s.txnid = 0 /\ (m.a = m.b => s.steady = FALSE)
    <2>1. s.steady \in BOOLEAN
      BY <1>2 DEF Snaps
    <2> QED BY <1>2, <2>1 DEF Steady
  <1>8. ASSUME h.snap = [txnid |-> 0, steady |-> FALSE] /\ \A i \in ps : ~Valid(mem[i])
        PROVE  LatchedOf(Latch(h, m), ps \cup {k})
    <2>1. h.snap \in Snaps /\ h.snap.txnid = 0 /\ h.snap.steady = FALSE
      BY <1>8 DEF Snaps
    <2>2. CASE Valid(m)
      <3>1. m.a = m.b /\ s.txnid > 0
        BY <1>2, <2>2 DEF Valid
      <3>2. s.steady \in BOOLEAN
        BY <1>2 DEF Snaps
      <3>3. better
        BY <1>5, <2>1, <3>1, <3>2
      <3>4. Latch(h, m) = n
        BY <1>1, <3>1, <3>3
      <3>5. Steady(m) \/ Matches(m) \/ \A j \in ps \cup {k} : ~Steady(mem[j])
        BY <1>6, <1>8 DEF Steady
      <3> QED BY <1>3, <1>6, <2>2, <3>4, <3>5 DEF LatchedOf, Chosen
    <2>3. CASE ~Valid(m)
      <3>1. ~(m.a = m.b /\ better)
        <4>1. CASE m.a = m.b
          <5>1. s.steady = FALSE /\ s.txnid = 0
            BY <1>7, <2>3, <4>1
          <5>2. ~(s.txnid > h.snap.txnid)
            BY <2>1, <5>1
          <5>3. ~(s.steady = TRUE)
            BY <5>1
          <5> QED BY <1>5, <2>1, <5>2, <5>3
        <4> QED BY <4>1
      <3>2. Latch(h, m) = h
        BY <1>1, <3>1
      <3> QED BY <1>6, <1>8, <2>3, <3>2 DEF LatchedOf, Chosen
    <2> QED BY <2>2, <2>3
  <1>9. ASSUME NEW i \in ps, Chosen(h, ps, i)
        PROVE  LatchedOf(Latch(h, m), ps \cup {k})
    <2>0. /\ Valid(mem[i]) /\ h.snap = meta_snap(mem[i])
          /\ Steady(mem[i]) \/ Matches(mem[i]) => h.ok = TRUE
          /\ Steady(mem[i]) \/ Matches(mem[i]) \/ \A j \in ps : ~Steady(mem[j])
      BY <1>9 DEF Chosen
    <2>1. /\ h.snap \in Snaps /\ h.snap.txnid = mem[i].a /\ mem[i].a >= 1 /\ mem[i].a \in Nat
          /\ h.snap.steady = TRUE <=> Steady(mem[i])
          /\ h.snap.steady \in BOOLEAN /\ s.steady \in BOOLEAN
      BY <1>2, <1>4, <2>0 DEF Valid, Snaps
    <2>2. CASE ~Valid(m)
      <3>1. ~(m.a = m.b /\ better)
        <4>1. CASE m.a = m.b
          <5>1. s.steady = FALSE /\ s.txnid = 0
            BY <1>7, <2>2, <4>1
          <5>2. ~(s.txnid > h.snap.txnid) /\ ~(s.txnid = h.snap.txnid)
            BY <2>1, <5>1
          <5>3. ~(s.steady = TRUE)
            BY <5>1
          <5> QED BY <1>5, <2>1, <5>2, <5>3
        <4> QED BY <4>1
      <3>2. Latch(h, m) = h
        BY <1>1, <3>1
      <3>3. Steady(mem[i]) \/ Matches(mem[i]) \/ \A j \in ps \cup {k} : ~Steady(mem[j])
        BY <1>6, <1>7, <2>0, <2>2
      <3> QED BY <2>0, <3>2, <3>3 DEF LatchedOf, Chosen
    <2>3. CASE Valid(m) /\ better
      <3>1. Latch(h, m) = n
        BY <1>1, <2>3 DEF Valid
      <3>2. ASSUME ~Steady(m), ~Matches(m) PROVE ~Steady(mem[i]) /\ ~Matches(mem[i])
        <4>1. h.snap.steady = FALSE /\ s.txnid > h.snap.txnid
          BY <1>2, <1>5, <2>1, <2>3, <3>2
        <4>2. ~Matches(mem[i])
          <5>1. Matches(mem[i]) => m.a < mem[i].a
            BY <1>4, <2>0, <2>3, <3>2
          <5>2. s.txnid = m.a /\ h.snap.txnid = mem[i].a /\ m.a \in Nat
            BY <1>2, <2>1, <2>3
          <5> QED BY <2>1, <4>1, <5>1, <5>2
        <4> QED BY <2>1, <4>1, <4>2
      <3>3. Steady(m) \/ Matches(m) \/ \A j \in ps \cup {k} : ~Steady(mem[j])
        BY <1>6, <2>0, <3>2
      <3> QED BY <1>3, <1>6, <2>3, <3>1, <3>3 DEF LatchedOf, Chosen
    <2>4. CASE Valid(m) /\ ~better
      <3>1. Latch(h, m) = h
        BY <1>1, <2>4
      <3>2. ASSUME ~Steady(mem[i]), ~Matches(mem[i]) PROVE ~Steady(m)
        <4>1. h.snap.steady = FALSE
          BY <2>1, <3>2
        <4>2. Matches(m) => s.txnid > h.snap.txnid
          BY <1>2, <1>4, <2>0, <2>1, <2>4, <3>2
        <4> QED BY <1>2, <1>5, <2>1, <2>4, <4>1, <4>2
      <3>3. Steady(mem[i]) \/ Matches(mem[i]) \/ \A j \in ps \cup {k} : ~Steady(mem[j])
        BY <1>6, <2>0, <3>2
      <3> QED BY <2>0, <3>1, <3>3 DEF LatchedOf, Chosen
    <2> QED BY <2>2, <2>3, <2>4
  <1> QED BY <1>6, <1>8, <1>9 DEF LatchedOf

\* The header is taken: dxb_read_header comes across the last steady page.
LEMMA HeaderSound ==
    ASSUME Types, Sound(mem, World)
    PROVE  Header.ok = TRUE
  <1> DEFINE none == [snap |-> [txnid |-> 0, steady |-> FALSE], ok |-> FALSE]
             first == Latch(none, mem[0])
             second == Latch(first, mem[1])
             third == Latch(second, mem[2])
  <1>1. 0 \in Metas /\ 1 \in Metas /\ 2 \in Metas /\ Metas = {0, 1, 2}
    BY DEF Metas
  <1>2. LatchedOf(none, {})
    BY DEF LatchedOf
  <1> HIDE DEF none
  <1>3. LatchedOf(first, {0})
    <2>1. {} \cup {0} = {0} /\ 0 \notin {} /\ {} \in SUBSET Metas
      OBVIOUS
    <2>2. LatchedOf(Latch(none, mem[0]), {} \cup {0})
      BY <1>1, <1>2, <2>1, LatchOn
    <2> QED BY <2>1, <2>2
  <1> HIDE DEF first
  <1>4. LatchedOf(second, {0, 1})
    <2>1. {0} \cup {1} = {0, 1} /\ 1 \notin {0} /\ {0} \in SUBSET Metas
      BY <1>1
    <2>2. LatchedOf(Latch(first, mem[1]), {0} \cup {1})
      BY <1>1, <1>3, <2>1, LatchOn
    <2> QED BY <2>1, <2>2
  <1> HIDE DEF second
  <1>5. LatchedOf(third, {0, 1, 2})
    <2>1. {0, 1} \cup {2} = {0, 1, 2} /\ 2 \notin {0, 1} /\ {0, 1} \in SUBSET Metas
      BY <1>1
    <2>2. LatchedOf(Latch(second, mem[2]), {0, 1} \cup {2})
      BY <1>1, <1>4, <2>1, LatchOn
    <2> QED BY <2>1, <2>2
  <1>6. Header = third
    BY DEF Header, third, second, first, none
  <1> HIDE DEF third
  <1>8. LatchedOf(Header, Metas)
    BY <1>1, <1>5, <1>6
  <1>9. PICK p \in Metas : Valid(mem[p]) /\ Steady(mem[p])
    BY DEF Sound, Last, Steady
  <1> QED BY <1>8, <1>9 DEF LatchedOf, Chosen

\* The disk lags behind with a mapping for writing only, and only while a meta
\* page is written.
LEMMA DiskIsMem ==
    ASSUME Types, Files, pc \notin {"publish", "sign", "msync"} \/ ~WriteMap
    PROVE  disk = mem
  <1>1. \A i \in Metas : disk[i] = mem[i]
    BY DEF Files
  <1> QED BY <1>1 DEF Types

\* The flags of a durable environment.
LEMMA DurableFlags ==
    ASSUME Types, Durably, Crashable, Running \/ pc = "open"
    PROVE  env.flags \subseteq {"WRITEMAP"} /\ env.flags \in Plan.flags
  BY DEF Durably, Crashable, Settings, Full

\* The first process opens the file.
LEMMA OpenStep ==
    ASSUME Types, Types', Durably, Crashable, NEW flags \in Plan.flags, Open(flags)
    PROVE  Crashable'
  <1>1. /\ pc = "down" /\ pc' = "open" /\ Header.ok = TRUE
        /\ UNCHANGED <<mem, disk, boot, txn, call, gen, owner, cached, lost, reused, promised>>
        /\ env' = [flags |-> flags, dsync |-> "SAFE_NOSYNC" \notin flags, metadsync |-> Full(flags)]
        /\ lck' = [unsynced |-> 0, msync |-> Synced(0)] /\ plan' = plan
    BY HeaderSound DEF Open, Crashable, Files, ghosts
  <1>2. ~Running' /\ ~Going' /\ ~InCall'
    BY <1>1 DEF Running, Going, InCall
  <1>3. disk = mem
    BY <1>1, DiskIsMem DEF Crashable
  <1>4. Files' /\ Snapshots'
    BY <1>1, <1>2, <1>3, QuietSnapshots DEF Crashable
  <1>5. Calling'
    BY <1>2 DEF InCall, Calling, Asked, ToWrite, Sign, Place
  <1>6. Settings'
    <2>1. Full(flags) /\ "SAFE_NOSYNC" \notin flags
      BY DEF Durably, Full
    <2>2. env'.flags = flags /\ env'.dsync = TRUE /\ env'.metadsync = TRUE
      BY <1>1, <2>1
    <2>3. lck' \in [unsynced : 0 .. 2, msync : [txnid : Nat, lazy : {"no", "fd", "map"}]]
      BY <1>1 DEF Synced
    <2>4. (Plan.flags)' = Plan.flags
      BY <1>1 DEF Plan
    <2> QED BY <1>1, <1>2, <2>2, <2>3, <2>4 DEF Settings
  <1> QED BY <1>4, <1>5, <1>6 DEF Crashable

\* The head is taken: what a weak head of this boot needs is still there.
LEMMA OpenDoneStep ==
    ASSUME Types, Types', Durably, Crashable, OpenDone
    PROVE  Crashable'
  <1>1. /\ Recent \in Metas /\ Prefer \in Metas
        /\ Valid(mem[Recent]) /\ Head.txnid = mem[Recent].a /\ Head.txnid \in 1 .. MaxTxn
        /\ Head.steady = TRUE <=> mem[Recent].steady = TRUE
        /\ Good(mem[Prefer], World) /\ Tap[Prefer].steady = TRUE
        /\ mem[Recent].steady = TRUE => Recent = Prefer
        /\ Distinct /\ mem[Recent] \in Page /\ Head \in Snaps
    BY MemFacts, TapFacts DEF Crashable, Files, Types, Head
  <1>2. ~Clashed(Tap)
    BY <1>1, NoClashes
  <1>3. ~Rollback
    BY <1>1, <1>2 DEF OpenDone
  <1>4. /\ pc = "open" /\ pc' = "idle"
        /\ UNCHANGED <<plan, mem, disk, boot, env, txn, call, gen, owner, cached, lost, reused, promised>>
        /\ lck' = [unsynced |-> IF Head.steady THEN 0 ELSE 2,
                   msync    |-> Synced(recent_committed_txnid(Tap))]
    BY <1>2, <1>3 DEF OpenDone, ghosts
  <1>5. Running' /\ ~Going' /\ ~InCall'
    BY <1>4 DEF Running, Going, InCall
  <1>6. Whole(Head.txnid, mem[Recent].gen, World)
    <2>1. CASE mem[Recent].steady = TRUE
      BY <1>1, <2>1 DEF Good
    <2>2. CASE mem[Recent].steady # TRUE
      <3>1. mem[Recent].steady = FALSE /\ mem[Recent].boot = boot
        <4>1. mem[Recent].steady \in BOOLEAN
          BY <1>1 DEF Page
        <4>2. Head.steady = FALSE
          BY <1>1, <2>2 DEF Snaps
        <4> QED BY <1>3, <2>2, <4>1, <4>2 DEF Rollback, Matches
      <3>2. World.boot = boot
        BY WorldFields
      <3> QED BY <1>1, <3>1, <3>2 DEF Crashable, Files, Sound
    <2> QED BY <2>1, <2>2
  <1>7. lck'.unsynced = 0 => Flushed(Head.txnid, World)
    <2>1. CASE mem[Recent].steady = TRUE
      BY <1>1, <2>1 DEF Good
    <2>2. CASE mem[Recent].steady # TRUE
      <3>1. Head.steady = FALSE
        BY <1>1, <2>2 DEF Snaps
      <3> QED BY <1>4, <3>1
    <2> QED BY <2>1, <2>2
  <1>8. disk = mem
    BY <1>4, DiskIsMem DEF Crashable
  <1>9. Files' /\ Snapshots'
    BY <1>4, <1>5, <1>6, <1>7, <1>8, QuietSnapshots DEF Crashable
  <1>10. Calling'
    BY <1>5 DEF InCall, Calling, Asked, ToWrite, Sign, Place
  <1>11. Settings'
    <2>1. lck' \in [unsynced : 0 .. 2, msync : [txnid : Nat, lazy : {"no", "fd", "map"}]]
      <3>1. recent_committed_txnid(Tap) \in Nat
        BY TapFacts DEF recent_committed_txnid, Snaps, Metas
      <3> QED BY <1>4, <3>1 DEF Synced
    <2>2. (Plan.flags)' = Plan.flags
      BY <1>4 DEF Plan
    <2> QED BY <1>4, <1>5, <2>1, <2>2 DEF Settings, Crashable
  <1> QED BY <1>9, <1>10, <1>11 DEF Crashable
-----------------------------------------------------------------------------
(* Write-back, transactions, the death of a process. *)

\* The kernel writes back the page that is being written, if any.
LEMMA WritebackStep ==
    ASSUME Types, Types', Durably, Crashable, NEW i \in Metas, Writeback(i)
    PROVE  Crashable'
  <1>1. /\ disk' = [disk EXCEPT ![i] = mem[i]] /\ disk[i] # mem[i]
        /\ UNCHANGED <<plan, mem, boot, env, lck, pc, txn, call, gen, owner, cached, lost, reused, promised>>
    BY DEF Writeback, ghosts
  <1>2. \A j \in Metas : j # i => disk[j] = mem[j]
    BY <1>1 DEF Crashable, Files
  <1>3. disk' = mem
    <2>1. \A j \in Metas : disk'[j] = mem[j]
      BY <1>1, <1>2 DEF Types
    <2> QED BY <1>1, <2>1 DEF Types
  <1>4. (Running' <=> Running) /\ (Going' <=> Going)
    BY <1>1 DEF Running, Going, InCall
  <1>5. /\ Files' /\ Snapshots'
        /\ Tap' = Tap /\ Recent' = Recent /\ Head' = Head /\ Prefer' = Prefer
        /\ \A x, g : Whole(x, g, World) => Whole(x, g, World')
        /\ \A x : Flushed(x, World) => Flushed(x, World')
    <2>1. Running => Whole(Head.txnid, mem[Recent].gen, World)
      BY DEF Crashable, Snapshots, HeadWhole
    <2>2. Running /\ lck.unsynced = 0 => Flushed(Head.txnid, World)
      BY DEF Crashable, Snapshots, HeadFlushed
    <2> QED BY <1>1, <1>3, <1>4, <2>1, <2>2, QuietSnapshots DEF Crashable
  <1>6. Settings'
    BY <1>1, <1>4 DEF Crashable, Settings, Plan, WriteMap
  <1>7. Calling'
    <2>1. Asked'
      BY <1>1, <1>5 DEF Crashable, Calling, Asked, InCall, WriteMap
    <2>2. ToWrite'
      BY <1>1, <1>5 DEF Crashable, Calling, ToWrite
    <2>3. Sign'
      BY <1>1, <1>5 DEF Crashable, Calling, Sign
    <2>4. Place'
      BY <1>1, <1>5 DEF Crashable, Calling, Place, WriteMap
    <2> QED BY <2>1, <2>2, <2>3, <2>4 DEF Calling
  <1> QED BY <1>5, <1>6, <1>7 DEF Crashable

\* A transaction gets a number nobody has.
LEMMA BeginStep ==
    ASSUME Types, Types', Durably, Crashable, NEW flags, Begin(flags)
    PROVE  Crashable'
  <1>1. /\ pc = "idle" /\ pc' = "txn" /\ gen' = gen + 1 /\ Head.txnid < Plan.top
        /\ flags \in Plan.txns[env.flags] /\ txn' = [flags |-> flags, need |-> FALSE]
        /\ UNCHANGED <<plan, mem, disk, boot, env, lck, call, owner, cached, lost, reused, promised>>
    BY DEF Begin
  <1>2. Running /\ Running' /\ ~InCall'
    BY <1>1 DEF Running, InCall
  <1>3. disk = mem
    BY <1>1, DiskIsMem DEF Crashable
  <1>4. /\ Files'
        /\ Tap' = Tap /\ Recent' = Recent /\ Head' = Head /\ Prefer' = Prefer
        /\ \A x, g : Whole(x, g, World) => Whole(x, g, World')
        /\ \A x : Flushed(x, World) => Flushed(x, World')
    BY <1>1, <1>3, QuietFiles DEF Crashable
  <1>5. gen \in Nat /\ owner \in [1 .. MaxTxn -> Nat] /\ MaxTxn \in Nat /\ Head.txnid \in 1 .. MaxTxn
    BY MemFacts, MetaAssumption DEF Types, Crashable, Files
  <1>6. Numbers'
    <2>1. \A x \in 1 .. MaxTxn : owner[x] \in Nat /\ owner[x] <= gen
      BY <1>5 DEF Crashable, Snapshots, Numbers
    <2>2. \A g \in cached \cup lost : g \in Nat /\ g <= gen
      BY DEF Crashable, Snapshots, Numbers
    <2>3. \A x \in 1 .. MaxTxn : owner[x] <= gen + 1
      BY <1>5, <2>1
    <2>4. \A g \in cached \cup lost : g \in Nat /\ g <= gen + 1
      BY <1>5, <2>2
    <2> QED BY <1>1, <2>3, <2>4 DEF Numbers
  <1>7. HeadWhole' /\ HeadFlushed'
    BY <1>1, <1>2, <1>4 DEF Crashable, Snapshots, HeadWhole, HeadFlushed
  <1>8. AtWork'
    <2>1. Head.txnid < MaxTxn
      <3>1. Plan.top \in 3 .. MaxTxn
        BY MetaAssumption DEF Plan, Types
      <3> QED BY <1>1, <1>5, <3>1
    <2>2. \A g \in cached \cup lost : g \in Nat /\ g <= gen
      BY DEF Crashable, Snapshots, Numbers
    <2>3. gen' \notin lost' /\ gen' \notin cached'
      BY <1>1, <1>5, <2>2
    <2>4. \A x \in 1 .. Head.txnid : owner[x] < gen + 1
      BY <1>5 DEF Crashable, Snapshots, Numbers
    <2> QED BY <1>1, <1>4, <2>1, <2>3, <2>4 DEF AtWork
  <1>9. Calling'
    BY <1>2 DEF InCall, Calling, Asked, ToWrite, Sign, Place
  <1>10. Settings'
    <2>1. WriteMap => "NOMETASYNC" \notin flags
      BY <1>1, <1>2, DurableFlags DEF Durably, WriteMap
    <2>2. WriteMap' => "NOMETASYNC" \notin txn'.flags
      BY <1>1, <2>1 DEF WriteMap
    <2> QED BY <1>1, <1>2, <2>2 DEF Crashable, Settings, Plan
  <1> QED BY <1>4, <1>6, <1>7, <1>8, <1>9, <1>10 DEF Crashable, Snapshots

\* The transaction goes on to its commit, ends without one, or its process
\* dies.
LEMMA TxnStep ==
    ASSUME Types, Types', Durably, Crashable, Abort \/ PureCommit \/ Presync \/ OwnerDies
    PROVE  Crashable'
  <1>1. /\ UNCHANGED <<plan, mem, boot, env, gen, owner, lost, reused, promised>>
        /\ (disk' = disk /\ cached' = cached) \/ FlushMetas
        /\ pc' = "idle" \/ (pc = "txn" /\ pc' = "write")
        /\ lck'.unsynced = lck.unsynced
        /\ lck' = lck \/ lck' = [lck EXCEPT !.msync = Synced(Head.txnid)]
        /\ txn'.flags = txn.flags \/ pc' = "idle"
    BY DEF Abort, PureCommit, Presync, OwnerDies, ghosts, Types, TxnType, Crashable, Settings
  <1>2. Running
    <2>1. pc \notin {"down", "open"}
      BY DEF Abort, PureCommit, Presync, OwnerDies
    <2> QED BY <2>1 DEF Crashable, Settings
  <1>3. disk = mem
    <2>1. CASE Abort \/ PureCommit \/ Presync
      <3>1. pc \in {"txn", "write"}
        BY <2>1 DEF Abort, PureCommit, Presync
      <3> QED BY <3>1, DiskIsMem DEF Crashable
    <2>2. CASE OwnerDies
      <3>1. ~WriteMap
        BY <2>2 DEF OwnerDies, Durably, WriteMap
      <3> QED BY <3>1, DiskIsMem DEF Crashable
    <2> QED BY <2>1, <2>2
  <1>4. disk' = mem /\ cached' \subseteq cached
    BY <1>1, <1>3 DEF FlushMetas
  <1>5. Running' /\ ~InCall' /\ (Going' => Going)
    BY <1>1 DEF Running, Going, InCall
  <1>6. Files' /\ Snapshots'
    <2>1. Whole(Head.txnid, mem[Recent].gen, World)
      BY <1>2 DEF Crashable, Snapshots, HeadWhole
    <2>2. lck.unsynced = 0 => Flushed(Head.txnid, World)
      BY <1>2 DEF Crashable, Snapshots, HeadFlushed
    <2> QED BY <1>1, <1>4, <1>5, <2>1, <2>2, QuietSnapshots DEF Crashable
  <1>7. Calling'
    BY <1>5 DEF InCall, Calling, Asked, ToWrite, Sign, Place
  <1>8. Settings'
    <2>1. lck' \in [unsynced : 0 .. 2, msync : [txnid : Nat, lazy : {"no", "fd", "map"}]]
      <3>1. Head.txnid \in Nat
        BY HeadFacts
      <3>2. Synced(Head.txnid) \in [txnid : Nat, lazy : {"no", "fd", "map"}]
        BY <3>1 DEF Synced
      <3> QED BY <1>1, <3>2 DEF Crashable, Settings
    <2>2. pc' = "idle" => ~Going'
      BY DEF Going, InCall
    <2>3. WriteMap' /\ Going' => "NOMETASYNC" \notin txn'.flags
      BY <1>1, <1>5, <2>2 DEF Crashable, Settings, WriteMap
    <2>4. (Plan.flags)' = Plan.flags
      BY <1>1 DEF Plan
    <2> QED BY <1>1, <1>2, <1>5, <2>1, <2>3, <2>4 DEF Crashable, Settings
  <1> QED BY <1>6, <1>7, <1>8 DEF Crashable

\* The only process is killed.
LEMMA KillStep ==
    ASSUME Types, Types', Durably, Crashable, Kill
    PROVE  Crashable'
  <1>1. /\ UNCHANGED <<plan, mem, disk, boot, env, lck, gen, owner, cached, lost, reused, promised>>
        /\ pc' = "down" /\ ~WriteMap
    BY DEF Kill, ghosts, Durably, WriteMap
  <1>2. ~Running' /\ ~Going' /\ ~InCall'
    BY <1>1 DEF Running, Going, InCall
  <1>3. disk = mem
    BY <1>1, DiskIsMem DEF Crashable
  <1>4. Files' /\ Snapshots'
    BY <1>1, <1>2, <1>3, QuietSnapshots DEF Crashable
  <1>5. Calling'
    BY <1>2 DEF InCall, Calling, Asked, ToWrite, Sign, Place
  <1>6. Settings'
    BY <1>1, <1>2 DEF Crashable, Settings
  <1> QED BY <1>4, <1>5, <1>6 DEF Crashable
-----------------------------------------------------------------------------
(* dxb_sync_locked and env_sync, the steps that write no meta page. *)

\* A call that ends, or goes on to meta_sync.
LEMMA CallEnds ==
    ASSUME Types, Types', Durably, Crashable, InCall,
           UNCHANGED <<plan, mem, boot, env, gen, owner, lost, reused>>,
           disk' = mem, cached' \subseteq cached,
           lck' \in [unsynced : 0 .. 2, msync : [txnid : Nat, lazy : {"no", "fd", "map"}]],
           lck'.unsynced = lck.unsynced \/ cached' = {},
           NEW flags, Return(flags), Full(flags) => mem[Recent].steady = TRUE,
           call.flags \subseteq {"WRITEMAP"} => mem[Recent].steady = TRUE,
           call.txnid = Head.txnid
    PROVE  Crashable'
  <1>1. /\ Running
        /\ call.back \in {"idle", "txn", "metasync"} /\ pc' = call.back
        /\ call' = IF call.back = "metasync" THEN call ELSE NoCall
        /\ txn' = IF call.back = "idle" THEN NoTxn ELSE txn
        /\ promised' = IF call.back = "idle" /\ Full(flags) THEN call.txnid ELSE promised
    BY DEF Return, Running, Types, CallType
  <1>2. /\ call.back = "txn" => call.then = "txn"
        /\ call.back # "idle" => call.flags \subseteq {"WRITEMAP"}
    BY DEF Crashable, Calling, Asked
  <1>3. Running' /\ (Going' => Going)
    BY <1>1, <1>2 DEF Running, Going, InCall
  <1>4. promised' = promised \/ (promised' = Head.txnid /\ mem[Recent].steady = TRUE)
    BY <1>1
  <1>5. /\ Files' /\ Snapshots'
        /\ Tap' = Tap /\ Recent' = Recent /\ Head' = Head /\ Prefer' = Prefer
    <2>1. Whole(Head.txnid, mem[Recent].gen, World)
      BY <1>1 DEF Crashable, Snapshots, HeadWhole
    <2>2. lck.unsynced = 0 => Flushed(Head.txnid, World)
      BY <1>1 DEF Crashable, Snapshots, HeadFlushed
    <2> QED BY <1>3, <1>4, <2>1, <2>2, QuietSnapshots DEF Crashable
  <1>6. Settings'
    <2>1. Going' => txn' = txn
      BY <1>1 DEF Going, InCall
    <2>2. WriteMap' /\ Going' => "NOMETASYNC" \notin txn'.flags
      BY <1>3, <2>1 DEF Crashable, Settings, WriteMap
    <2>3. (Plan.flags)' = Plan.flags
      BY DEF Plan
    <2> QED BY <1>1, <1>3, <2>2, <2>3 DEF Crashable, Settings
  <1>7. Calling'
    <2>1. CASE call.back = "metasync"
      <3>1. pc' = "metasync" /\ call' = call
        BY <1>1, <2>1
      <3>2. Asked'
        BY <1>5, <3>1 DEF Crashable, Calling, Asked, WriteMap
      <3>3. mem'[Recent'].steady = TRUE
        BY <1>2, <1>5, <2>1
      <3>4. ToWrite' /\ Sign' /\ Place'
        BY <3>1, <3>3 DEF ToWrite, Sign, Place
      <3> QED BY <3>2, <3>4 DEF Calling
    <2>2. CASE call.back # "metasync"
      <3>1. ~InCall'
        BY <1>1, <2>2 DEF InCall
      <3> QED BY <3>1 DEF InCall, Calling, Asked, ToWrite, Sign, Place
    <2> QED BY <2>1, <2>2
  <1> QED BY <1>5, <1>6, <1>7 DEF Crashable

\* env_sync, closing and gc_alloc_ex ask for the head to be made steady.
LEMMA AskStep ==
    ASSUME Types, Types', Durably, Crashable,
           MakeSteady \/ Close \/ \E force \in BOOLEAN : EnvSync(force)
    PROVE  Crashable'
  <1>1. /\ pc \in {"idle", "txn"}
        /\ UNCHANGED <<plan, mem, disk, boot, env, lck, txn, gen, owner, cached, lost, reused>>
    <2>1. pc # "fatal"
      BY DEF Crashable, Settings, Running, InCall
    <2> QED BY <2>1 DEF MakeSteady, Close, EnvSync, ghosts
  <1>2. Running
    BY <1>1 DEF Running
  <1>3. env.flags \subseteq {"WRITEMAP"}
    BY <1>2, DurableFlags
  <1>4. /\ Recent \in Metas /\ Head.txnid \in 1 .. MaxTxn /\ MaxTxn \in Nat
        /\ Head.steady = TRUE <=> mem[Recent].steady = TRUE
        /\ mem[Recent] \in Page /\ Head.steady \in BOOLEAN
    BY MemFacts, TapFacts, MetaAssumption DEF Crashable, Files, Types, Head, Snaps
  <1>5. disk = mem
    BY <1>1, DiskIsMem DEF Crashable
  <1> DEFINE Done == /\ pc' \in {"idle", "down", pc} /\ (pc' = "txn" => pc = "txn")
                     /\ promised' = promised \/ (promised' = Head.txnid /\ mem[Recent].steady = TRUE)
             Asks(flags, back, then) ==
               /\ flags \subseteq {"WRITEMAP"} /\ promised' = promised
               /\ pc' = "sync" \/ (pc' = "metasync" /\ Head.steady = TRUE)
               /\ back \in {"txn", "metasync"} /\ then \in {"idle", "txn", "down"}
               /\ back = "txn" => then = "txn"
               /\ then = "txn" => pc = "txn"
               /\ call' = [flags |-> flags, txnid |-> Head.txnid, steady |-> Head.steady,
                           gen |-> mem[Recent].gen, target |-> 0, back |-> back, then |-> then]
  <1>6. Done \/ \E flags, back, then : Asks(flags, back, then)
    <2>1. /\ env.flags \cap {"WRITEMAP"} \subseteq {"WRITEMAP"}
          /\ env.flags \ {"NOMETASYNC"} \subseteq {"WRITEMAP"}
          /\ env.flags \cap {"WRITEMAP", "NOMETASYNC"} \subseteq {"WRITEMAP"}
      BY <1>3
    <2>2. ASSUME NEW flags, NEW then \in {"idle", "txn", "down"}, SyncHead(flags, then),
                 flags \subseteq {"WRITEMAP"}, then = pc \/ then = "down"
          PROVE  Done \/ Asks(flags, "metasync", then)
      BY <1>4, <2>2 DEF SyncHead
    <2>3. CASE MakeSteady
      <3>1. Asks(env.flags \cap {"WRITEMAP", "NOMETASYNC"}, "txn", "txn")
        BY <2>1, <2>3 DEF MakeSteady, ghosts
      <3> HIDE DEF Asks
      <3> QED BY <3>1
    <2>4. CASE Close
      <3>1. SyncHead(env.flags \cap {"WRITEMAP"}, "down")
        BY <1>1, <2>4 DEF Close
      <3>2. Done \/ Asks(env.flags \cap {"WRITEMAP"}, "metasync", "down")
        BY <2>1, <2>2, <3>1
      <3> HIDE DEF Asks, Done
      <3> QED BY <3>2
    <2>5. ASSUME NEW force \in BOOLEAN, EnvSync(force)
          PROVE  \E flags \in {env.flags \cap {"WRITEMAP"}, env.flags \ {"NOMETASYNC"}} : SyncHead(flags, pc)
      BY <2>5 DEF EnvSync
    <2>6. CASE \E force \in BOOLEAN : EnvSync(force)
      <3>1. PICK flags \in {env.flags \cap {"WRITEMAP"}, env.flags \ {"NOMETASYNC"}} : SyncHead(flags, pc)
        BY <2>5, <2>6
      <3>2. flags \subseteq {"WRITEMAP"} /\ pc \in {"idle", "txn", "down"}
        BY <1>1, <2>1
      <3>3. Done \/ Asks(flags, "metasync", pc)
        BY <2>2, <3>1, <3>2
      <3> HIDE DEF Asks, Done
      <3> QED BY <3>3
    <2>7. MakeSteady \/ Close \/ \E force \in BOOLEAN : EnvSync(force)
      OBVIOUS
    <2> HIDE DEF Asks, Done
    <2> QED BY <2>3, <2>4, <2>6, <2>7
  <1>7. /\ Whole(Head.txnid, mem[Recent].gen, World)
        /\ lck.unsynced = 0 => Flushed(Head.txnid, World)
    BY <1>2 DEF Crashable, Snapshots, HeadWhole, HeadFlushed
  <1>8. CASE Done
    <2>1. ~InCall' /\ (Going' => Going) /\ (Running' => Running)
      BY <1>1, <1>2, <1>8 DEF InCall, Going, Running
    <2>2. Files' /\ Snapshots'
      BY <1>1, <1>5, <1>7, <1>8, <2>1, QuietSnapshots DEF Crashable
    <2>3. Calling'
      BY <2>1 DEF InCall, Calling, Asked, ToWrite, Sign, Place
    <2>4. Settings'
      <3>1. pc' = "down" \/ Running'
        BY <1>1, <1>8 DEF Running
      <3> QED BY <1>1, <1>2, <1>8, <2>1, <3>1 DEF Crashable, Settings, Plan, WriteMap
    <2> QED BY <2>2, <2>3, <2>4 DEF Crashable
  <1>9. ASSUME NEW flags, NEW back, NEW then, Asks(flags, back, then)
        PROVE  Crashable'
    <2>1. /\ call'.flags = flags /\ call'.txnid = Head.txnid /\ call'.gen = mem[Recent].gen
          /\ call'.back = back /\ call'.then = then
      BY <1>9
    <2>2. InCall' /\ Running' /\ (Going' => Going)
      BY <1>9, <2>1 DEF InCall, Going, Running
    <2>3. /\ Files' /\ Snapshots'
          /\ Tap' = Tap /\ Recent' = Recent /\ Head' = Head /\ Prefer' = Prefer
          /\ \A x, g : Whole(x, g, World) => Whole(x, g, World')
          /\ \A x : Flushed(x, World) => Flushed(x, World')
      BY <1>1, <1>5, <1>7, <1>9, <2>2, QuietSnapshots DEF Crashable
    <2>4. Asked'
      BY <1>9, <2>1, <2>3 DEF Asked
    <2>5. ToWrite'
      BY <1>1, <1>4, <1>7, <2>1, <2>3 DEF ToWrite
    <2>6. Sign'
      BY <1>9, <2>1 DEF Sign
    <2>7. Place'
      BY <1>1, <1>4, <1>9, <2>3 DEF Place
    <2>8. Settings'
      BY <1>1, <1>2, <2>2 DEF Crashable, Settings, Plan, WriteMap
    <2> QED BY <2>3, <2>4, <2>5, <2>6, <2>7, <2>8 DEF Crashable, Calling
  <1> HIDE DEF Asks, Done
  <1> QED BY <1>6, <1>8, <1>9

\* meta_sync.
LEMMA MetaSyncStep ==
    ASSUME Types, Types', Durably, Crashable, MetaSync
    PROVE  Crashable'
  <1>1. /\ pc = "metasync" /\ pc' = call.then /\ call.then \in {"idle", "txn", "down"}
        /\ UNCHANGED <<plan, mem, boot, env, txn, gen, owner, lost, reused>>
        /\ (disk' = disk /\ cached' = cached) \/ FlushMetas
        /\ lck' = lck \/ lck' = [lck EXCEPT !.msync = Synced(Head.txnid)]
        /\ promised' \in {promised, Head.txnid}
    BY DEF MetaSync, Types, CallType
  <1>2. mem[Recent].steady = TRUE /\ Running /\ InCall
    BY <1>1 DEF Crashable, Calling, Place, Running, InCall
  <1>3. disk' = mem /\ cached' \subseteq cached
    <2>1. disk = mem
      BY <1>1, DiskIsMem DEF Crashable
    <2> QED BY <1>1, <2>1 DEF FlushMetas
  <1>4. ~InCall' /\ (Going' => Going)
    BY <1>1, <1>2 DEF InCall, Going
  <1>5. /\ lck' \in [unsynced : 0 .. 2, msync : [txnid : Nat, lazy : {"no", "fd", "map"}]]
        /\ lck'.unsynced = lck.unsynced
    <2>1. Synced(Head.txnid) \in [txnid : Nat, lazy : {"no", "fd", "map"}]
      BY HeadFacts DEF Synced
    <2> QED BY <1>1, <2>1 DEF Crashable, Settings
  <1>6. Files' /\ Snapshots'
    <2>1. /\ Whole(Head.txnid, mem[Recent].gen, World)
          /\ lck.unsynced = 0 => Flushed(Head.txnid, World)
      BY <1>2 DEF Crashable, Snapshots, HeadWhole, HeadFlushed
    <2> QED BY <1>1, <1>2, <1>3, <1>4, <1>5, <2>1, QuietSnapshots DEF Crashable
  <1>7. Calling'
    BY <1>4 DEF InCall, Calling, Asked, ToWrite, Sign, Place
  <1>8. Settings'
    <2>1. pc' = "down" \/ Running'
      BY <1>1 DEF Running
    <2> QED BY <1>1, <1>2, <1>4, <1>5, <2>1 DEF Crashable, Settings, Plan, WriteMap
  <1> QED BY <1>6, <1>7, <1>8 DEF Crashable

\* Syncing the data decides the sign: steady only if nothing is left unsynced.
LEMMA SyncDataStep ==
    ASSUME Types, Types', Durably, Crashable, NEW force \in BOOLEAN, SyncData(force)
    PROVE  Crashable'
  <1> DEFINE flags == Effective(force)
             skip  == lck.unsynced = 1 /\ "NOMETASYNC" \in flags
             weak  == lck.unsynced > 0 /\ "SAFE_NOSYNC" \in flags
             flush == lck.unsynced > 0 /\ ~skip /\ ~weak
             steady == IF skip THEN call.steady ELSE ~weak
             again  == Head.txnid = call.txnid
  <1>1. /\ pc = "sync"
        /\ IF flush THEN disk' = mem /\ cached' = {} ELSE disk' = disk /\ cached' = cached
        /\ lck' = IF skip \/ weak THEN lck ELSE [lck EXCEPT !.unsynced = 0]
        /\ IF again /\ (Head.steady \/ ~steady)
           THEN Return(flags)
           ELSE /\ pc' = "meta" /\ txn' = txn /\ promised' = promised
                /\ call' = [call EXCEPT !.flags = flags, !.steady = steady,
                                        !.target = IF again THEN Recent ELSE tail(Tap)]
        /\ UNCHANGED <<plan, mem, boot, env, gen, owner, lost, reused>>
    BY DEF SyncData, FlushAll
  <1>2. InCall /\ Running
    BY <1>1 DEF InCall, Running
  <1>3. lck \in [unsynced : 0 .. 2, msync : [txnid : Nat, lazy : {"no", "fd", "map"}]]
    BY DEF Crashable, Settings
  <1>4. /\ call.txnid \in 1 .. MaxTxn /\ call.txnid >= Head.txnid
        /\ Whole(call.txnid, call.gen, World)
        /\ lck.unsynced = 0 => Flushed(call.txnid, World)
        /\ "NOMETASYNC" \in call.flags => call.steady = FALSE /\ ~WriteMap
        /\ call.back = "txn" => call.then = "txn"
        /\ call.back # "idle" => call.flags \subseteq {"WRITEMAP"}
        /\ call.then = "txn" => call.txnid = Head.txnid
    BY <1>1, <1>2 DEF Crashable, Calling, Asked, ToWrite, Sign
  <1>5. /\ Recent \in Metas /\ Head.txnid \in 1 .. MaxTxn /\ MaxTxn \in Nat
        /\ Head.steady = TRUE <=> mem[Recent].steady = TRUE
        /\ mem[Recent].steady \in BOOLEAN /\ Head.steady \in BOOLEAN
        /\ tail(Tap) \in Metas /\ tail(Tap) # Recent /\ tail(Tap) # Prefer
    BY MemFacts, TapFacts, MetaAssumption DEF Crashable, Files, Types, Head, Snaps, Page
  <1>6. disk = mem
    BY <1>1, DiskIsMem DEF Crashable
  <1>7. disk' = mem /\ cached' \subseteq cached
    BY <1>1, <1>6
  <1>8. flags = call.flags \/ flags = call.flags \cap {"WRITEMAP"}
    BY DEF Effective
  <1>9. /\ flags \subseteq {"WRITEMAP"} => ~skip /\ ~weak
        /\ call.flags \subseteq {"WRITEMAP"} => flags \subseteq {"WRITEMAP"}
        /\ "NOMETASYNC" \in flags => "NOMETASYNC" \in call.flags
    BY <1>8
  <1> HIDE DEF flags
  <1>10. /\ lck' \in [unsynced : 0 .. 2, msync : [txnid : Nat, lazy : {"no", "fd", "map"}]]
         /\ lck'.unsynced = lck.unsynced \/ cached' = {}
         /\ lck'.unsynced = 0 => lck.unsynced = 0 \/ cached' = {}
    <2>1. CASE skip \/ weak
      BY <1>1, <1>3, <2>1
    <2>2. CASE ~(skip \/ weak)
      <3>1. lck' = [lck EXCEPT !.unsynced = 0] /\ (lck.unsynced > 0 => cached' = {})
        BY <1>1, <2>2
      <3>2. lck'.unsynced = 0 /\ lck.unsynced \in 0 .. 2
        BY <1>3, <3>1
      <3>3. lck' \in [unsynced : 0 .. 2, msync : [txnid : Nat, lazy : {"no", "fd", "map"}]]
        BY <1>3, <3>1
      <3> QED BY <3>1, <3>2, <3>3
    <2> QED BY <2>1, <2>2
  <1>11. /\ steady \in BOOLEAN
         /\ ~skip /\ ~weak => steady = TRUE
         /\ steady = TRUE => ~skip /\ ~weak
    <2>1. call.steady \in BOOLEAN
      BY DEF Types, CallType
    <2>2. skip => call.steady = FALSE
      BY <1>4, <1>9
    <2> QED BY <2>1, <2>2
  <1>12. steady = TRUE => lck.unsynced = 0 \/ cached' = {}
    BY <1>1, <1>3, <1>11
  <1>13. CASE again /\ (Head.steady \/ ~steady)
    <2>1. Return(flags)
      BY <1>1, <1>13
    <2>2. flags \subseteq {"WRITEMAP"} => mem[Recent].steady = TRUE
      <3>1. flags \subseteq {"WRITEMAP"} => steady = TRUE
        BY <1>9, <1>11
      <3> HIDE DEF steady
      <3> QED BY <1>5, <1>13, <3>1
    <2>3. /\ Full(flags) => mem[Recent].steady = TRUE
          /\ call.flags \subseteq {"WRITEMAP"} => mem[Recent].steady = TRUE
      BY <1>9, <2>2 DEF Full
    <2> QED BY <1>1, <1>2, <1>7, <1>10, <1>13, <2>1, <2>3, CallEnds
  <1>14. CASE ~(again /\ (Head.steady \/ ~steady))
    <2>1. /\ pc' = "meta" /\ txn' = txn /\ promised' = promised
          /\ call' = [call EXCEPT !.flags = flags, !.steady = steady,
                                  !.target = IF again THEN Recent ELSE tail(Tap)]
      BY <1>1, <1>14
    <2>2. /\ call'.flags = flags /\ call'.steady = steady /\ call'.txnid = call.txnid
          /\ call'.gen = call.gen /\ call'.back = call.back /\ call'.then = call.then
          /\ call'.target = IF again THEN Recent ELSE tail(Tap)
      <3> HIDE DEF steady, again
      <3>1. call \in CallType
        BY DEF Types
      <3> QED BY <2>1, <3>1 DEF CallType
    <2>3. InCall' /\ Running' /\ (Going' => Going)
      BY <1>2, <2>1, <2>2 DEF InCall, Running, Going
    <2>4. /\ Files' /\ Snapshots'
          /\ Tap' = Tap /\ Recent' = Recent /\ Head' = Head /\ Prefer' = Prefer
          /\ \A x, g : Whole(x, g, World) => Whole(x, g, World')
          /\ \A x : Flushed(x, World) => Flushed(x, World')
          /\ cached' = {} => \A x : Flushed(x, World')
      <3>1. /\ Whole(Head.txnid, mem[Recent].gen, World)
            /\ lck.unsynced = 0 => Flushed(Head.txnid, World)
        BY <1>2 DEF Crashable, Snapshots, HeadWhole, HeadFlushed
      <3> QED BY <1>1, <1>7, <1>10, <2>1, <2>3, <3>1, QuietSnapshots DEF Crashable
    <2>5. Asked'
      BY <1>1, <1>4, <1>9, <2>2, <2>4 DEF Asked, WriteMap
    <2>6. ToWrite'
      BY <1>4, <1>10, <2>2, <2>4 DEF ToWrite
    <2>7. Sign'
      <3>1. call'.steady = TRUE => Flushed(call'.txnid, World')
        BY <1>4, <1>12, <2>2, <2>4
      <3>2. Full(call'.flags) => call'.steady = TRUE
        BY <1>9, <1>11, <2>2 DEF Full
      <3> QED BY <2>1, <3>1, <3>2 DEF Sign
    <2>8. Place'
      <3>1. CASE again
        <4>1. mem[Recent].steady = FALSE /\ steady = TRUE
          BY <1>5, <1>11, <1>14, <3>1
        <4> QED BY <1>1, <2>1, <2>2, <2>4, <3>1, <4>1 DEF Place
      <3>2. CASE ~again
        <4>1. call.txnid > Head.txnid
          BY <1>4, <1>5, <3>2
        <4> QED BY <1>5, <2>1, <2>2, <2>4, <3>2, <4>1 DEF Place
      <3> QED BY <3>1, <3>2
    <2>9. Settings'
      <3>1. WriteMap' /\ Going' => "NOMETASYNC" \notin txn'.flags
        BY <1>1, <2>1, <2>3 DEF Crashable, Settings, WriteMap
      <3>2. (Plan.flags)' = Plan.flags
        BY <1>1 DEF Plan
      <3> QED BY <1>1, <1>2, <1>10, <2>3, <3>1, <3>2 DEF Crashable, Settings
    <2> QED BY <2>4, <2>5, <2>6, <2>7, <2>8, <2>9 DEF Crashable, Calling
  <1> QED BY <1>13, <1>14

\* Syncing the meta page brings the disk up to the cache.
LEMMA SyncMetaStep ==
    ASSUME Types, Types', Durably, Crashable, SyncMeta
    PROVE  Crashable'
  <1> DEFINE nometa == "NOMETASYNC" \in call.flags
  <1>1. /\ pc = "msync" /\ Return(call.flags)
        /\ IF nometa \/ (env.metadsync /\ ~WriteMap)
           THEN disk' = disk /\ cached' = cached ELSE FlushMetas
        /\ lck' = [unsynced |-> IF nometa /\ ~WriteMap /\ ~env.metadsync THEN Plus(1) ELSE lck.unsynced,
                   msync    |-> [txnid |-> call.txnid, lazy  |-> IF nometa THEN Lazily ELSE "no"]]
        /\ UNCHANGED <<plan, mem, boot, env, gen, owner, lost, reused>>
    BY DEF SyncMeta
  <1>2. InCall /\ Running
    BY <1>1 DEF InCall, Running
  <1>3. /\ call.txnid = Head.txnid /\ mem[Recent].steady = call.steady
        /\ Full(call.flags) => call.steady = TRUE
        /\ nometa => ~WriteMap
    BY <1>1, <1>2 DEF Crashable, Calling, Asked, Sign, Place
  <1>4. env.metadsync = TRUE
    BY <1>2 DEF Crashable, Settings
  <1>5. disk' = mem /\ cached' \subseteq cached
    <2>1. CASE WriteMap
      BY <1>1, <1>3, <2>1 DEF FlushMetas
    <2>2. CASE ~WriteMap
      <3>1. disk = mem
        BY <2>2, DiskIsMem DEF Crashable
      <3> QED BY <1>1, <3>1 DEF FlushMetas
    <2> QED BY <2>1, <2>2
  <1>6. /\ lck' \in [unsynced : 0 .. 2, msync : [txnid : Nat, lazy : {"no", "fd", "map"}]]
        /\ lck'.unsynced = lck.unsynced
    <2>1. lck' = [unsynced |-> lck.unsynced,
                  msync    |-> [txnid |-> call.txnid, lazy  |-> IF nometa THEN Lazily ELSE "no"]]
      BY <1>1, <1>4
    <2>2. lck.unsynced \in 0 .. 2 /\ call.txnid \in Nat
      BY DEF Crashable, Settings, Types, CallType
    <2> QED BY <2>1, <2>2 DEF Lazily
  <1>7. /\ Full(call.flags) => mem[Recent].steady = TRUE
        /\ call.flags \subseteq {"WRITEMAP"} => mem[Recent].steady = TRUE
    BY <1>3 DEF Full
  <1> QED BY <1>1, <1>2, <1>3, <1>5, <1>6, <1>7, CallEnds
-----------------------------------------------------------------------------
(* Writing data. *)

\* The pages of the running transaction belong to the next txnid: whatever
\* recovery may go back to needs none of the pages they overwrite.
LEMMA DataWritten ==
    ASSUME Types, Types', Durably, Crashable, pc \in {"txn", "write"},
           NEW durably \in BOOLEAN, WriteData(durably),
           UNCHANGED <<plan, mem, disk, boot, env, gen, lost, promised>>,
           pc' \in {"txn", "sync"}
    PROVE  /\ Files' /\ Numbers'
           /\ Tap' = Tap /\ Recent' = Recent /\ Head' = Head /\ Prefer' = Prefer
           /\ Whole(Head.txnid, mem[Recent].gen, World')
           /\ Whole(Head.txnid + 1, gen, World')
           /\ Flushed(Head.txnid, World) => Flushed(Head.txnid, World')
           /\ Flushed(Head.txnid, World) /\ gen \notin cached' => Flushed(Head.txnid + 1, World')
           /\ \A x \in 1 .. Head.txnid : owner'[x] < gen
           /\ Head.txnid \in 1 .. MaxTxn /\ Head.txnid < MaxTxn /\ MaxTxn \in Nat
  <1>1. /\ Recent \in Metas /\ Head.txnid \in 1 .. MaxTxn /\ MaxTxn \in Nat
        /\ Valid(mem[Recent]) /\ Head.txnid = mem[Recent].a
        /\ \A i \in Metas : i # Recent /\ Valid(mem[i]) => mem[i].a < Head.txnid
        /\ Good(mem[Prefer], World) /\ Detent = mem[Prefer].a
        /\ \A i \in Metas : Last(mem, i) => i = Prefer
        /\ reused <= Detent /\ promised <= Detent /\ Detent \in Nat
    BY MemFacts, MetaAssumption DEF Crashable, Files
  <1>2. Tap' = Tap /\ Recent' = Recent /\ Head' = Head /\ Prefer' = Prefer
    BY SameMem DEF Prefer
  <1>3. Running /\ Going
    BY DEF Running, Going
  <1>4. /\ Head.txnid < MaxTxn /\ gen \notin lost
        /\ \A x \in 1 .. Head.txnid : owner[x] < gen
        /\ Whole(Head.txnid, mem[Recent].gen, World)
    BY <1>3 DEF Crashable, Snapshots, AtWork, HeadWhole
  <1>5. owner \in [1 .. MaxTxn -> Nat] /\ gen \in Nat /\ reused \in Nat
    BY DEF Types
  <1>6. /\ owner' = [owner EXCEPT ![Head.txnid + 1] = gen]
        /\ reused' = MaxOf(reused, Detent) /\ cached' \subseteq cached \cup {gen}
        /\ cached \subseteq cached'
    BY DEF WriteData
  <1>7. /\ owner'[Head.txnid + 1] = gen
        /\ \A x \in 1 .. MaxTxn : x # Head.txnid + 1 => owner'[x] = owner[x]
    BY <1>1, <1>4, <1>5, <1>6
  <1>8. \A x \in 1 .. Head.txnid : owner'[x] = owner[x] /\ owner[x] # gen /\ owner[x] \in Nat /\ owner[x] < gen
    BY <1>1, <1>4, <1>5, <1>7
  <1>9. /\ World.boot = boot /\ World.reused = reused /\ World.promised = promised
        /\ World.owner = owner /\ World.cached = cached /\ World.lost = lost
        /\ World'.boot = boot /\ World'.reused = reused' /\ World'.promised = promised
        /\ World'.owner = owner' /\ World'.cached = cached' /\ World'.lost = lost
    BY DEF World
  <1>10. disk = mem
    BY DiskIsMem DEF Crashable
  <1>11. ASSUME NEW v, v = World, NEW w, w = World' PROVE Sound(mem, w)
    <2>1. mem \in [Metas -> Page] /\ Sound(mem, v)
      BY <1>11 DEF Types, Crashable, Files
    <2>2. \A i \in Metas : Valid(mem[i]) => mem[i].a <= Head.txnid /\ mem[i].a \in Nat
      <3>1. \A i \in Metas : mem[i].a \in Nat
        BY <2>1 DEF Page
      <3> QED BY <1>1, <3>1
    <2>3. \A i \in Metas : \A x \in 1 .. mem[i].a : Valid(mem[i]) =>
               /\ w.owner[x] = v.owner[x]
               /\ v.owner[x] \notin v.cached => w.owner[x] \notin w.cached
      <3>1. \A i \in Metas : \A x \in 1 .. mem[i].a : Valid(mem[i]) => x \in 1 .. Head.txnid
        BY <1>1, <2>2
      <3>2. \A x \in 1 .. Head.txnid : /\ w.owner[x] = v.owner[x]
                                       /\ v.owner[x] \notin v.cached => w.owner[x] \notin w.cached
        BY <1>6, <1>8, <1>9, <1>11
      <3> QED BY <3>1, <3>2
    <2>4. \A i \in Metas : Last(mem, i) /\ Good(mem[i], v) => w.reused <= mem[i].a /\ w.promised <= mem[i].a
      <3>1. reused' <= Detent
        BY <1>1, <1>5, <1>6 DEF MaxOf
      <3> QED BY <1>1, <1>9, <1>11, <3>1
    <2>5. w.boot = v.boot /\ w.lost = v.lost
      BY <1>9, <1>11
    <2> QED BY <2>1, <2>3, <2>4, <2>5, SoundKept
  <1>12. Sound(mem, World')
    BY <1>11
  <1>13. Files'
    <2>1. Sound(disk', World') /\ Sound(mem', World')
      BY <1>10, <1>12
    <2> QED BY <1>10, <2>1 DEF Files
  <1>14. Numbers'
    <2>1. \A x \in 1 .. MaxTxn : owner'[x] <= gen
      BY <1>5, <1>7 DEF Crashable, Snapshots, Numbers
    <2>2. \A g \in cached' \cup lost : g \in Nat /\ g <= gen
      BY <1>5, <1>6 DEF Crashable, Snapshots, Numbers
    <2> QED BY <2>1, <2>2 DEF Numbers
  <1>15. Whole(Head.txnid, mem[Recent].gen, World')
    BY <1>1, <1>4, <1>8, <1>9 DEF Whole
  <1>16. Whole(Head.txnid + 1, gen, World')
    <2>1. \A x \in 1 .. Head.txnid + 1 : x \in 1 .. Head.txnid \/ x = Head.txnid + 1
      BY <1>1
    <2>2. \A x \in 1 .. Head.txnid : owner[x] \notin lost
      BY <1>4, <1>9 DEF Whole
    <2> QED BY <1>4, <1>5, <1>7, <1>8, <1>9, <2>1, <2>2 DEF Whole
  <1>17. Flushed(Head.txnid, World) => Flushed(Head.txnid, World')
    BY <1>6, <1>8, <1>9 DEF Flushed
  <1>18. Flushed(Head.txnid, World) /\ gen \notin cached' => Flushed(Head.txnid + 1, World')
    <2>1. \A x \in 1 .. Head.txnid + 1 : x \in 1 .. Head.txnid \/ x = Head.txnid + 1
      BY <1>1
    <2> QED BY <1>6, <1>7, <1>8, <1>9, <2>1 DEF Flushed
  <1> QED BY <1>1, <1>2, <1>4, <1>8, <1>13, <1>14, <1>15, <1>16, <1>17, <1>18

\* Before its commit the transaction may have written in the mapping, or
\* spilled.
LEMMA SpillStep ==
    ASSUME Types, Types', Durably, Crashable, Spill
    PROVE  Crashable'
  <1>1. /\ pc = "txn" /\ pc' = "txn" /\ WriteData(FALSE)
        /\ UNCHANGED <<plan, mem, disk, boot, env, txn, call, gen, lost, promised>>
        /\ \E n \in 0 .. 2 : lck' = [lck EXCEPT !.unsynced = Plus(n)] /\ (~WriteMap => n > 0)
    <2>1. CASE WriteMap
      BY <2>1 DEF Spill
    <2>2. CASE ~WriteMap
      <3>1. PICK n \in 1 .. 2 : lck' = [lck EXCEPT !.unsynced = Plus(n)]
        BY <2>2 DEF Spill
      <3>2. n \in 0 .. 2 /\ n > 0
        OBVIOUS
      <3> QED BY <3>1, <3>2 DEF Spill
    <2> QED BY <2>1, <2>2
  <1>2. /\ Files' /\ Numbers'
        /\ Tap' = Tap /\ Recent' = Recent /\ Head' = Head /\ Prefer' = Prefer
        /\ Whole(Head.txnid, mem[Recent].gen, World')
        /\ Flushed(Head.txnid, World) => Flushed(Head.txnid, World')
        /\ \A x \in 1 .. Head.txnid : owner'[x] < gen
        /\ Head.txnid < MaxTxn
    BY <1>1, DataWritten
  <1>3. lck \in [unsynced : 0 .. 2, msync : [txnid : Nat, lazy : {"no", "fd", "map"}]]
    BY DEF Crashable, Settings
  <1>4. /\ lck' \in [unsynced : 0 .. 2, msync : [txnid : Nat, lazy : {"no", "fd", "map"}]]
        /\ lck'.unsynced = 0 => lck.unsynced = 0
        /\ ~WriteMap => lck'.unsynced > 0
    <2>1. PICK n \in 0 .. 2 : lck' = [lck EXCEPT !.unsynced = Plus(n)] /\ (~WriteMap => n > 0)
      BY <1>1
    <2>2. lck.unsynced \in 0 .. 2 /\ Plus(n) \in 0 .. 2 /\ (Plus(n) = 0 => lck.unsynced = 0 /\ n = 0)
      BY <1>3 DEF Plus
    <2>3. lck'.unsynced = Plus(n)
      BY <1>3, <2>1
    <2>4. lck' \in [unsynced : 0 .. 2, msync : [txnid : Nat, lazy : {"no", "fd", "map"}]]
      BY <1>3, <2>1, <2>2
    <2> QED BY <2>1, <2>2, <2>3, <2>4
  <1>5. Running /\ Running' /\ Going /\ ~InCall'
    BY <1>1 DEF Running, Going, InCall
  <1>6. HeadWhole' /\ HeadFlushed'
    BY <1>1, <1>2, <1>4, <1>5 DEF Crashable, Snapshots, HeadWhole, HeadFlushed
  <1>7. AtWork'
    <2>1. gen \notin lost
      BY <1>5 DEF Crashable, Snapshots, AtWork
    <2> QED BY <1>1, <1>2, <1>4, <2>1 DEF AtWork, WriteMap
  <1>8. Calling'
    BY <1>5 DEF InCall, Calling, Asked, ToWrite, Sign, Place
  <1>9. Settings'
    BY <1>1, <1>4, <1>5 DEF Crashable, Settings, Plan, WriteMap
  <1> QED BY <1>2, <1>6, <1>7, <1>8, <1>9 DEF Crashable, Snapshots

\* The commit writes its pages and calls dxb_sync_locked.
LEMMA CommitStep ==
    ASSUME Types, Types', Durably, Crashable, CommitWrite
    PROVE  Crashable'
  <1>1. /\ pc = "write" /\ pc' = "sync"
        /\ UNCHANGED <<plan, mem, disk, boot, env, txn, gen, lost, promised>>
        /\ \/ ~WriteMap /\ lck.unsynced = 0 /\ WriteData(TRUE) /\ lck' = lck
           \/ WriteData(FALSE) /\ \E n \in 1 .. 2 : lck' = [lck EXCEPT !.unsynced = Plus(n)]
        /\ call' = [flags |-> env.flags \cup txn.flags,
                    txnid |-> Head.txnid + 1, steady |-> FALSE, gen |-> gen,
                    target |-> 0, back |-> "idle", then |-> "idle"]
    BY DEF CommitWrite
  <1>2. /\ Files' /\ Numbers'
        /\ Tap' = Tap /\ Recent' = Recent /\ Head' = Head /\ Prefer' = Prefer
        /\ Whole(Head.txnid, mem[Recent].gen, World')
        /\ Whole(Head.txnid + 1, gen, World')
        /\ Flushed(Head.txnid, World) => Flushed(Head.txnid, World')
        /\ Flushed(Head.txnid, World) /\ gen \notin cached' => Flushed(Head.txnid + 1, World')
        /\ Head.txnid \in 1 .. MaxTxn /\ Head.txnid < MaxTxn /\ MaxTxn \in Nat
    BY <1>1, DataWritten
  <1>3. lck \in [unsynced : 0 .. 2, msync : [txnid : Nat, lazy : {"no", "fd", "map"}]]
    BY DEF Crashable, Settings
  <1>4. /\ lck' \in [unsynced : 0 .. 2, msync : [txnid : Nat, lazy : {"no", "fd", "map"}]]
        /\ lck'.unsynced = 0 => lck.unsynced = 0 /\ ~WriteMap /\ WriteData(TRUE)
    <2>1. CASE \E n \in 1 .. 2 : lck' = [lck EXCEPT !.unsynced = Plus(n)]
      <3>1. PICK n \in 1 .. 2 : lck' = [lck EXCEPT !.unsynced = Plus(n)]
        BY <2>1
      <3>2. Plus(n) \in 1 .. 2
        BY <1>3 DEF Plus
      <3>3. lck'.unsynced = Plus(n) /\ Plus(n) # 0
        BY <1>3, <3>1, <3>2
      <3>4. lck' \in [unsynced : 0 .. 2, msync : [txnid : Nat, lazy : {"no", "fd", "map"}]]
        BY <1>3, <3>1, <3>2
      <3> QED BY <3>3, <3>4
    <2>2. CASE ~WriteMap /\ lck.unsynced = 0 /\ WriteData(TRUE) /\ lck' = lck
      BY <1>3, <2>2
    <2> QED BY <1>1, <2>1, <2>2
  <1>5. Running /\ Running' /\ Going /\ InCall'
    BY <1>1 DEF Running, Going, InCall
  <1>6. /\ call'.flags = env.flags \cup txn.flags /\ call'.txnid = Head.txnid + 1
        /\ call'.steady = FALSE /\ call'.gen = gen /\ call'.back = "idle" /\ call'.then = "idle"
    BY <1>1
  <1>7. ~Going'
    BY <1>1, <1>6 DEF Going
  <1>8. HeadWhole' /\ HeadFlushed' /\ AtWork'
    BY <1>1, <1>2, <1>4, <1>5, <1>7 DEF Crashable, Snapshots, HeadWhole, HeadFlushed, AtWork
  <1>9. Asked'
    <2>1. "NOMETASYNC" \in call'.flags => ~WriteMap'
      <3>1. "NOMETASYNC" \notin env.flags
        BY <1>5, DurableFlags
      <3>2. WriteMap' <=> WriteMap
        BY <1>1 DEF WriteMap
      <3> QED BY <1>5, <1>6, <3>1, <3>2 DEF Crashable, Settings
    <2> QED BY <1>6, <2>1 DEF Asked
  <1>10. ToWrite'
    <2>1. Head.txnid + 1 \in 1 .. MaxTxn /\ Head.txnid + 1 >= Head.txnid
      BY <1>2
    <2>2. ASSUME lck'.unsynced = 0 PROVE Flushed(Head.txnid + 1, World')
      <3>1. lck.unsynced = 0 /\ ~WriteMap /\ WriteData(TRUE)
        BY <1>4, <2>2
      <3>2. gen \notin cached'
        BY <1>5, <3>1 DEF WriteData, Crashable, Snapshots, AtWork
      <3>3. Flushed(Head.txnid, World)
        BY <1>5, <3>1 DEF Crashable, Snapshots, HeadFlushed
      <3> QED BY <1>2, <3>2, <3>3
    <2> QED BY <1>2, <1>6, <2>1, <2>2 DEF ToWrite
  <1>11. Sign' /\ Place'
    BY <1>1, <1>6 DEF Sign, Place
  <1>12. Settings'
    BY <1>1, <1>4, <1>5, <1>7 DEF Crashable, Settings, Plan
  <1> QED BY <1>2, <1>8, <1>9, <1>10, <1>11, <1>12 DEF Crashable, Snapshots, Calling
-----------------------------------------------------------------------------
(* Writing a meta page. *)

\* One page of the cache is replaced as recovery allows; the disk has it, too,
\* or keeps what it had of that page.
LEMMA PageWritten ==
    ASSUME Types, Types', Crashable, UNCHANGED <<boot, env, owner, lost, reused, promised>>,
           cached' \subseteq cached,
           NEW k \in Metas, NEW p \in Page, mem' = [mem EXCEPT ![k] = p],
           \/ disk' = mem'
           \/ /\ disk' = disk /\ WriteMap /\ pc' \in {"publish", "sign", "msync"}
              /\ call'.target = k /\ (disk = mem \/ k = call.target),
           p.boot <= boot,
           Valid(p) => /\ p.a <= MaxTxn
                       /\ \A j \in Metas : j # k /\ Valid(mem[j]) => mem[j].a < p.a /\ mem[j].boot <= p.boot,
           Steady(p) => Good(p, World),
           ~Steady(p) => ~Last(mem, k),
           Valid(p) /\ p.steady = FALSE /\ p.boot = boot => Whole(p.a, p.gen, World)
    PROVE  /\ Files'
           /\ \A x, g : Whole(x, g, World) => Whole(x, g, World')
           /\ \A x : Flushed(x, World) => Flushed(x, World')
  <1>1. /\ World.boot = boot /\ World.reused = reused /\ World.promised = promised
        /\ World.owner = owner /\ World.cached = cached /\ World.lost = lost
        /\ World'.boot = boot /\ World'.reused = reused /\ World'.promised = promised
        /\ World'.owner = owner /\ World'.cached = cached' /\ World'.lost = lost
    BY DEF World
  <1>2. /\ mem \in [Metas -> Page] /\ disk \in [Metas -> Page] /\ mem' \in [Metas -> Page]
        /\ Sound(mem, World) /\ Sound(disk, World) /\ boot \in Nat
    BY DEF Types, Crashable, Files
  <1>3. Sound(mem', World)
    BY <1>1, <1>2, Replaced
  <1>4. ASSUME NEW d \in [Metas -> Page], NEW v, v = World, NEW w, w = World', Sound(d, v)
        PROVE  Sound(d, w)
    <2>1. w.owner = v.owner /\ w.cached \subseteq v.cached
      BY <1>1, <1>4
    <2>2. \A i \in Metas : \A x \in 1 .. d[i].a : Valid(d[i]) =>
               /\ w.owner[x] = v.owner[x]
               /\ v.owner[x] \notin v.cached => w.owner[x] \notin w.cached
      BY <2>1
    <2>3. \A i \in Metas : Last(d, i) /\ Good(d[i], v) => w.reused <= d[i].a /\ w.promised <= d[i].a
      BY <1>1, <1>4 DEF Good
    <2>4. w.boot = v.boot /\ w.lost = v.lost
      BY <1>1, <1>4
    <2>5. d \in [Metas -> Page] /\ Sound(d, v)
      BY <1>4
    <2> QED BY <2>2, <2>3, <2>4, <2>5, SoundKept
  <1>5. Sound(mem', World')
    BY <1>2, <1>3, <1>4
  <1>6. Sound(disk', World')
    BY <1>2, <1>4, <1>5
  <1>7. \A i \in Metas : disk'[i] # mem'[i] =>
          i = call'.target /\ pc' \in {"publish", "sign", "msync"} /\ WriteMap'
    <2>1. CASE disk' = mem'
      BY <2>1
    <2>2. CASE disk' # mem'
      <3>1. /\ disk' = disk /\ WriteMap /\ pc' \in {"publish", "sign", "msync"}
            /\ call'.target = k /\ (disk = mem \/ k = call.target)
        BY <2>2
      <3>2. \A i \in Metas : i # k => disk[i] = mem[i] /\ mem'[i] = mem[i]
        BY <1>2, <3>1 DEF Crashable, Files
      <3>3. WriteMap'
        BY <3>1 DEF WriteMap
      <3> QED BY <3>1, <3>2, <3>3
    <2> QED BY <2>1, <2>2
  <1>8. Files'
    BY <1>5, <1>6, <1>7 DEF Files
  <1>9. \A x, g : Whole(x, g, World) => Whole(x, g, World')
    BY <1>1 DEF Whole
  <1>10. \A x : Flushed(x, World) => Flushed(x, World')
    BY <1>1 DEF Flushed
  <1> QED BY <1>8, <1>9, <1>10

\* A weak head of an older boot is wiped: it is not what recovery goes back to.
LEMMA OpenPurgeStep ==
    ASSUME Types, Types', Durably, Crashable, OpenPurge
    PROVE  Crashable'
  <1> DEFINE empty == [a |-> 0, b |-> 0, steady |-> TRUE, boot |-> boot, gen |-> 0]
  <1>1. /\ pc = "open" /\ pc' = "open" /\ Rollback
        /\ mem' = [mem EXCEPT ![Recent] = empty]
        /\ IF env.metadsync /\ ~WriteMap
           THEN disk' = [disk EXCEPT ![Recent] = empty] /\ cached' = cached
           ELSE disk' = mem' /\ cached' = {}
        /\ UNCHANGED <<plan, boot, env, lck, txn, call, gen, owner, lost, reused, promised>>
    BY DEF OpenPurge
  <1>2. ~Running' /\ ~Going' /\ ~InCall'
    BY <1>1 DEF Running, Going, InCall
  <1>3. empty \in Page /\ empty.boot = boot /\ empty.a = 0
    BY NewPages
  <1>4. disk = mem
    BY <1>1, DiskIsMem DEF Crashable
  <1> HIDE DEF empty
  <1>5. disk' = mem' /\ cached' \subseteq cached
    BY <1>1, <1>4
  <1>6. ~Valid(empty) /\ ~Steady(empty)
    BY <1>3 DEF Valid, Steady
  <1>7. Recent \in Metas /\ ~Last(mem, Recent)
    <2>1. Recent \in Metas /\ (Head.steady = TRUE <=> mem[Recent].steady = TRUE) /\ boot \in Nat
      BY MemFacts DEF Crashable, Files, Types
    <2>2. Head.steady # TRUE
      BY <1>1 DEF Rollback
    <2> QED BY <2>1, <2>2 DEF Last, Steady
  <1>8. Files'
    <2>1. empty.boot <= boot /\ boot \in Nat
      BY <1>3 DEF Types
    <2> QED BY <1>1, <1>3, <1>5, <1>6, <1>7, <2>1, PageWritten
  <1>9. Numbers'
    BY <1>1, <1>5 DEF Crashable, Snapshots, Numbers
  <1>10. HeadWhole' /\ HeadFlushed' /\ AtWork'
    BY <1>2 DEF HeadWhole, HeadFlushed, AtWork
  <1>11. Calling'
    BY <1>2 DEF InCall, Calling, Asked, ToWrite, Sign, Place
  <1>12. Settings'
    BY <1>1, <1>2 DEF Crashable, Settings, Plan
  <1> QED BY <1>8, <1>9, <1>10, <1>11, <1>12 DEF Crashable, Snapshots

\* What is known before dxb_sync_locked writes a page.
LEMMA BeforeMeta ==
    ASSUME Types, Crashable, pc \in {"meta", "publish", "sign"}
    PROVE  /\ InCall /\ Running /\ call \in CallType /\ call.target \in Metas
           /\ call.txnid \in Nat /\ call.steady \in BOOLEAN /\ boot \in Nat
           /\ mem \in [Metas -> Page] /\ disk \in [Metas -> Page] /\ MaxTxn \in Nat
           /\ Whole(Head.txnid, mem[Recent].gen, World)
           /\ lck.unsynced = 0 => Flushed(Head.txnid, World)
           /\ call.steady = TRUE => Flushed(call.txnid, World)
           /\ Full(call.flags) => call.steady = TRUE
           /\ World.boot = boot /\ World.reused = reused /\ World.promised = promised
           /\ reused \in Nat /\ promised \in Nat
           /\ \A j \in Metas : mem[j].boot <= boot /\ mem[j].boot \in Nat /\ mem[j].a \in Nat
                               /\ mem[j].steady \in BOOLEAN
  <1>1. InCall /\ Running
    BY DEF InCall, Running
  <1>2. call \in CallType /\ call.target \in Metas /\ call.txnid \in Nat /\ call.steady \in BOOLEAN
    BY DEF Types, CallType
  <1>3. /\ mem \in [Metas -> Page] /\ disk \in [Metas -> Page] /\ MaxTxn \in Nat
        /\ reused \in Nat /\ promised \in Nat /\ boot \in Nat
    BY MetaAssumption DEF Types
  <1>4. /\ Whole(Head.txnid, mem[Recent].gen, World)
        /\ lck.unsynced = 0 => Flushed(Head.txnid, World)
    BY <1>1 DEF Crashable, Snapshots, HeadWhole, HeadFlushed
  <1>5. /\ call.steady = TRUE => Flushed(call.txnid, World)
        /\ Full(call.flags) => call.steady = TRUE
    BY DEF Crashable, Calling, Sign
  <1>6. World.boot = boot /\ World.reused = reused /\ World.promised = promised
    BY WorldFields
  <1>7. \A j \in Metas : mem[j].boot <= boot /\ mem[j].boot \in Nat /\ mem[j].a \in Nat
                               /\ mem[j].steady \in BOOLEAN
    <2>1. \A j \in Metas : mem[j].boot <= World.boot
      BY DEF Crashable, Files, Sound
    <2> QED BY <1>3, <1>6, <2>1 DEF Page
  <1> QED BY <1>1, <1>2, <1>3, <1>4, <1>5, <1>6, <1>7

\* The page gets the next commit, which becomes the head.
LEMMA NewerWritten ==
    ASSUME Types, Types', Durably, Crashable, pc \in {"meta", "publish"},
           call.txnid > Head.txnid, ~Last(mem, call.target),
           UNCHANGED <<plan, boot, env, lck, txn, call, gen, owner, cached, lost, reused, promised>>,
           NEW p \in Page, p.a = call.txnid, p.b = call.txnid, p.boot = boot, p.gen = call.gen,
           p.steady = FALSE \/ p.steady = call.steady,
           mem' = [mem EXCEPT ![call.target] = p],
           disk' = mem' \/ (disk' = disk /\ WriteMap),
           \/ pc' = "msync" /\ p.steady = call.steady
           \/ pc' = "sign" /\ p.steady = FALSE /\ WriteMap
    PROVE  Crashable'
  <1>1. /\ InCall /\ Running /\ call \in CallType /\ call.target \in Metas
        /\ call.txnid \in Nat /\ call.steady \in BOOLEAN /\ boot \in Nat
        /\ mem \in [Metas -> Page] /\ disk \in [Metas -> Page] /\ MaxTxn \in Nat
        /\ call.steady = TRUE => Flushed(call.txnid, World)
        /\ Full(call.flags) => call.steady = TRUE
        /\ World.boot = boot /\ World.reused = reused /\ World.promised = promised
        /\ reused \in Nat /\ promised \in Nat
        /\ \A j \in Metas : mem[j].boot <= boot /\ mem[j].a \in Nat
    BY BeforeMeta
  <1>2. /\ Recent \in Metas /\ Head.txnid \in 1 .. MaxTxn
        /\ Valid(mem[Recent]) /\ Head.txnid = mem[Recent].a
        /\ \A i \in Metas : i # Recent /\ Valid(mem[i]) => mem[i].a < Head.txnid
        /\ reused <= Detent /\ promised <= Detent /\ Detent \in Nat /\ Detent <= Head.txnid
        /\ Distinct
    BY MemFacts DEF Crashable, Files
  <1>3. /\ call.txnid \in 1 .. MaxTxn /\ Whole(call.txnid, call.gen, World)
        /\ lck.unsynced = 0 => Flushed(call.txnid, World)
    BY DEF Crashable, Calling, ToWrite
  <1>4. Valid(p) /\ p.steady \in BOOLEAN
    BY <1>3 DEF Valid, Page
  <1>5. Steady(p) => Good(p, World)
    <2>1. ASSUME Steady(p) PROVE Good(p, World)
      <3>1. call.steady = TRUE
        BY <2>1 DEF Steady
      <3>2. reused <= call.txnid /\ promised <= call.txnid
        BY <1>1, <1>2
      <3> QED BY <1>1, <1>3, <3>1, <3>2 DEF Good
    <2> QED BY <2>1
  <1>6. \A j \in Metas : Valid(mem[j]) => mem[j].a < p.a /\ mem[j].boot <= p.boot
    BY <1>1, <1>2
  <1>7. disk' = disk => disk = mem \/ call.target = call.target
    OBVIOUS
  <1>8. /\ Files'
        /\ \A x, g : Whole(x, g, World) => Whole(x, g, World')
        /\ \A x : Flushed(x, World) => Flushed(x, World')
    <2>1. p.boot <= boot
      BY <1>1
    <2>2. \/ disk' = mem'
          \/ /\ disk' = disk /\ WriteMap /\ pc' \in {"publish", "sign", "msync"}
             /\ call'.target = call.target /\ (disk = mem \/ call.target = call.target)
      OBVIOUS
    <2>3. Valid(p) => /\ p.a <= MaxTxn
                      /\ \A j \in Metas : j # call.target /\ Valid(mem[j]) =>
                            mem[j].a < p.a /\ mem[j].boot <= p.boot
      BY <1>1, <1>3, <1>6
    <2>4. Valid(p) /\ p.steady = FALSE /\ p.boot = boot => Whole(p.a, p.gen, World)
      BY <1>3
    <2> QED BY <1>1, <1>5, <2>1, <2>2, <2>3, <2>4, PageWritten
  <1>9. Recent' = call.target /\ Head'.txnid = call.txnid
    <2>1. \A m \in Page : meta_snap(m).txnid = IF m.a = m.b THEN m.a ELSE 0
      BY DEF Page, meta_snap
    <2>2. \A i \in Metas : Tap[i].txnid = (IF mem[i].a = mem[i].b THEN mem[i].a ELSE 0)
                           /\ Tap'[i].txnid = (IF mem'[i].a = mem'[i].b THEN mem'[i].a ELSE 0)
      BY <2>1 DEF Types, Tap
    <2>3. Tap'[call.target].txnid = call.txnid
      BY <1>1, <2>2
    <2>4. \A i \in Metas : i # call.target => Tap'[i].txnid = Tap[i].txnid
      BY <1>1, <2>2
    <2> QED BY <1>1, <1>2, <2>3, <2>4, HeadMoves
  <1>10. mem'[Recent'] = p
    BY <1>1, <1>9
  <1>11. InCall' /\ Running'
    BY DEF InCall, Running
  <1>12. ~Going'
    <2>1. call.then = "txn" => call.txnid = Head.txnid
      BY <1>1 DEF Crashable, Calling, Asked
    <2> QED BY <1>1, <1>2, <2>1 DEF Going
  <1>13. Snapshots'
    <2>1. Numbers'
      BY DEF Crashable, Snapshots, Numbers
    <2>2. HeadWhole' /\ HeadFlushed'
      BY <1>3, <1>8, <1>9, <1>10 DEF HeadWhole, HeadFlushed
    <2>3. AtWork'
      BY <1>12 DEF AtWork
    <2> QED BY <2>1, <2>2, <2>3 DEF Snapshots
  <1>14. Asked'
    <2>1. call.then # "txn"
      BY <1>12, <1>11 DEF Going
    <2> QED BY <1>1, <2>1 DEF Crashable, Calling, Asked, WriteMap
  <1>15. ToWrite'
    BY DEF ToWrite
  <1>16. Sign'
    BY <1>1, <1>8 DEF Sign
  <1>17. Place'
    BY <1>9, <1>10 DEF Place, WriteMap
  <1>18. Settings'
    BY <1>1, <1>11, <1>12 DEF Crashable, Settings, Plan
  <1> QED BY <1>8, <1>13, <1>14, <1>15, <1>16, <1>17, <1>18 DEF Crashable, Calling

\* The head is written again: a weak one gets its sign.
LEMMA HeadRewritten ==
    ASSUME Types, Types', Durably, Crashable, pc \in {"meta", "sign"}, pc' = "msync",
           call.txnid = Head.txnid, call.target = Recent, mem[Recent].steady = FALSE,
           UNCHANGED <<plan, boot, env, lck, txn, call, gen, owner, cached, lost, reused, promised>>,
           NEW p \in Page, p.a = call.txnid, p.b = call.txnid, p.boot <= boot,
           \A j \in Metas : j # Recent /\ Valid(mem[j]) => mem[j].boot <= p.boot,
           Whole(call.txnid, p.gen, World), p.steady = call.steady,
           mem' = [mem EXCEPT ![Recent] = p],
           disk' = mem' \/ (disk' = disk /\ WriteMap)
    PROVE  Crashable'
  <1>1. /\ InCall /\ Running /\ call \in CallType /\ call.target \in Metas
        /\ call.txnid \in Nat /\ call.steady \in BOOLEAN /\ boot \in Nat
        /\ mem \in [Metas -> Page] /\ disk \in [Metas -> Page] /\ MaxTxn \in Nat
        /\ lck.unsynced = 0 => Flushed(Head.txnid, World)
        /\ call.steady = TRUE => Flushed(call.txnid, World)
        /\ Full(call.flags) => call.steady = TRUE
        /\ World.boot = boot /\ World.reused = reused /\ World.promised = promised
        /\ reused \in Nat /\ promised \in Nat
        /\ \A j \in Metas : mem[j].a \in Nat
    BY BeforeMeta
  <1>2. /\ Recent \in Metas /\ Head.txnid \in 1 .. MaxTxn
        /\ Valid(mem[Recent]) /\ Head.txnid = mem[Recent].a
        /\ \A i \in Metas : i # Recent /\ Valid(mem[i]) => mem[i].a < Head.txnid
        /\ reused <= Detent /\ promised <= Detent /\ Detent \in Nat /\ Detent <= Head.txnid
        /\ Distinct
    BY MemFacts DEF Crashable, Files
  <1>3. Valid(p) /\ p.steady \in BOOLEAN
    BY <1>2 DEF Valid, Page
  <1>4. Steady(p) => Good(p, World)
    <2>1. ASSUME Steady(p) PROVE Good(p, World)
      <3>1. call.steady = TRUE
        BY <2>1 DEF Steady
      <3>2. reused <= call.txnid /\ promised <= call.txnid
        BY <1>1, <1>2
      <3> QED BY <1>1, <3>1, <3>2 DEF Good
    <2> QED BY <2>1
  <1>5. ~Last(mem, Recent)
    BY DEF Last, Steady
  <1>6. /\ Files'
        /\ \A x, g : Whole(x, g, World) => Whole(x, g, World')
        /\ \A x : Flushed(x, World) => Flushed(x, World')
    <2>1. \/ disk' = mem'
          \/ /\ disk' = disk /\ WriteMap /\ pc' \in {"publish", "sign", "msync"}
             /\ call'.target = Recent /\ (disk = mem \/ Recent = call.target)
      OBVIOUS
    <2>2. Valid(p) => /\ p.a <= MaxTxn
                      /\ \A j \in Metas : j # Recent /\ Valid(mem[j]) =>
                            mem[j].a < p.a /\ mem[j].boot <= p.boot
      BY <1>1, <1>2
    <2>3. Valid(p) /\ p.steady = FALSE /\ p.boot = boot => Whole(p.a, p.gen, World)
      OBVIOUS
    <2> QED BY <1>1, <1>2, <1>4, <1>5, <2>1, <2>2, <2>3, PageWritten
  <1>7. Recent' = Recent /\ Head'.txnid = Head.txnid
    <2>1. \A m \in Page : meta_snap(m).txnid = IF m.a = m.b THEN m.a ELSE 0
      BY DEF Page, meta_snap
    <2>2. \A i \in Metas : Tap[i].txnid = (IF mem[i].a = mem[i].b THEN mem[i].a ELSE 0)
                           /\ Tap'[i].txnid = (IF mem'[i].a = mem'[i].b THEN mem'[i].a ELSE 0)
      BY <2>1 DEF Types, Tap
    <2>3. \A i \in Metas : Tap'[i].txnid = Tap[i].txnid
      BY <1>1, <1>2, <2>2 DEF Valid
    <2> QED BY <1>1, <1>2, <2>3, HeadStays
  <1>8. mem'[Recent'] = p
    BY <1>1, <1>2, <1>7
  <1>9. InCall' /\ Running' /\ (Going' => Going)
    BY <1>1 DEF InCall, Running, Going
  <1>10. Snapshots'
    <2>1. Numbers'
      BY DEF Crashable, Snapshots, Numbers
    <2>2. HeadWhole' /\ HeadFlushed'
      BY <1>1, <1>6, <1>7, <1>8 DEF HeadWhole, HeadFlushed
    <2>3. AtWork'
      BY <1>7, <1>9 DEF Crashable, Snapshots, AtWork, WriteMap
    <2> QED BY <2>1, <2>2, <2>3 DEF Snapshots
  <1>11. Asked'
    BY <1>1, <1>7 DEF Crashable, Calling, Asked, WriteMap
  <1>12. ToWrite'
    BY DEF ToWrite
  <1>13. Sign'
    BY <1>1, <1>6 DEF Sign
  <1>14. Place'
    BY <1>7, <1>8 DEF Place
  <1>15. Settings'
    BY <1>1, <1>9 DEF Crashable, Settings, Plan, WriteMap
  <1> QED BY <1>6, <1>10, <1>11, <1>12, <1>13, <1>14, <1>15 DEF Crashable, Calling

\* What is known of the pages that are written.
LEMMA NewMetaFacts ==
    ASSUME Types
    PROVE  /\ NewMeta \in Page /\ NewMeta.a = call.txnid /\ NewMeta.b = call.txnid
           /\ NewMeta.boot = boot /\ NewMeta.gen = call.gen /\ NewMeta.steady = call.steady
           /\ \A m \in Page, s \in BOOLEAN : LET n == [m EXCEPT !.steady = s]
                  IN  n \in Page /\ n.a = m.a /\ n.b = m.b /\ n.boot = m.boot /\ n.gen = m.gen
                      /\ n.steady = s
           /\ \A m \in Page : LET n == [m EXCEPT !.a = call.txnid, !.b = 0, !.steady = FALSE, !.gen = call.gen]
                  IN  n \in Page /\ n.a = call.txnid /\ n.b = 0 /\ n.boot = m.boot
  <1>1. /\ NewMeta.a = call.txnid /\ NewMeta.b = call.txnid /\ NewMeta.boot = boot
        /\ NewMeta.gen = call.gen /\ NewMeta.steady = call.steady /\ NewMeta \in Page
    BY NewPages DEF NewMeta
  <1>2. \A m \in Page, s \in BOOLEAN : LET n == [m EXCEPT !.steady = s]
            IN  n \in Page /\ n.a = m.a /\ n.b = m.b /\ n.boot = m.boot /\ n.gen = m.gen
                /\ n.steady = s
    BY DEF Page
  <1>3. call.txnid \in Nat /\ call.gen \in Nat
    BY DEF Types, CallType
  <1>4. \A m \in Page : LET n == [m EXCEPT !.a = call.txnid, !.b = 0, !.steady = FALSE, !.gen = call.gen]
            IN  n \in Page /\ n.a = call.txnid /\ n.b = 0 /\ n.boot = m.boot
    BY <1>3 DEF Page
  <1> QED BY <1>1, <1>2, <1>4

\* Without a mapping the page is written at once.
LEMMA PwriteStep ==
    ASSUME Types, Types', Durably, Crashable, PwriteMeta
    PROVE  Crashable'
  <1>1. /\ pc = "meta" /\ pc' = "msync" /\ ~WriteMap
        /\ mem' = [mem EXCEPT ![call.target] = NewMeta]
        /\ disk' = IF env.metadsync THEN [disk EXCEPT ![call.target] = NewMeta] ELSE disk
        /\ UNCHANGED <<plan, boot, env, lck, txn, call, gen, owner, cached, lost, reused, promised>>
    BY DEF PwriteMeta, ghosts
  <1>2. Running /\ boot \in Nat /\ Whole(Head.txnid, mem[Recent].gen, World)
        /\ \A j \in Metas : mem[j].boot <= boot
    BY <1>1, BeforeMeta
  <1>3. disk' = mem'
    <2>1. disk = mem
      BY <1>1, DiskIsMem DEF Crashable
    <2>2. env.metadsync = TRUE
      BY <1>2 DEF Crashable, Settings
    <2> QED BY <1>1, <2>1, <2>2
  <1>4. /\ NewMeta \in Page /\ NewMeta.a = call.txnid /\ NewMeta.b = call.txnid
        /\ NewMeta.boot = boot /\ NewMeta.gen = call.gen /\ NewMeta.steady = call.steady
    BY NewMetaFacts
  <1>5. CASE call.txnid > Head.txnid /\ call.target # Recent /\ call.target # Prefer
    <2>1. ~Last(mem, call.target)
      <3>1. call.target \in Metas
        BY <1>1, BeforeMeta
      <3> QED BY <1>5, <3>1, MemFacts DEF Crashable, Files
    <2>2. pc \in {"meta", "publish"} /\ call.txnid > Head.txnid
      BY <1>1, <1>5
    <2>3. UNCHANGED <<plan, boot, env, lck, txn, call, gen, owner, cached, lost, reused, promised>>
      BY <1>1
    <2>4. NewMeta.steady = FALSE \/ NewMeta.steady = call.steady
      BY <1>4
    <2>5. disk' = mem' \/ (disk' = disk /\ WriteMap)
      BY <1>3
    <2>6. (pc' = "msync" /\ NewMeta.steady = call.steady)
             \/ (pc' = "sign" /\ NewMeta.steady = FALSE /\ WriteMap)
      BY <1>1, <1>4
    <2>7. /\ NewMeta \in Page /\ NewMeta.a = call.txnid /\ NewMeta.b = call.txnid
          /\ NewMeta.boot = boot /\ NewMeta.gen = call.gen
          /\ mem' = [mem EXCEPT ![call.target] = NewMeta]
      BY <1>1, <1>4
    <2> QED BY <2>1, <2>2, <2>3, <2>4, <2>5, <2>6, <2>7, NewerWritten
  <1>6. CASE call.txnid = Head.txnid /\ call.target = Recent /\ mem[Recent].steady = FALSE
    <2>1. Whole(call.txnid, NewMeta.gen, World)
      BY <1>1, <1>4 DEF Crashable, Calling, ToWrite
    <2>2. NewMeta.boot <= boot /\ \A j \in Metas : mem[j].boot <= NewMeta.boot
      BY <1>2, <1>4
    <2>3. mem' = [mem EXCEPT ![Recent] = NewMeta]
      BY <1>1, <1>6
    <2> QED BY <1>1, <1>3, <1>4, <1>6, <2>1, <2>2, <2>3, HeadRewritten
  <1> QED BY <1>1, <1>5, <1>6 DEF Crashable, Calling, Place

\* In the mapping the page is first made invalid; a weak head is only signed.
LEMMA InvalidateStep ==
    ASSUME Types, Types', Durably, Crashable, InvalidateMeta
    PROVE  Crashable'
  <1>1. /\ pc = "meta" /\ WriteMap
        /\ UNCHANGED <<plan, disk, boot, env, lck, txn, call, gen, owner, cached, lost, reused, promised>>
    BY DEF InvalidateMeta, ghosts
  <1>2. /\ InCall /\ Running /\ call \in CallType /\ call.target \in Metas
        /\ call.txnid \in Nat /\ boot \in Nat /\ mem \in [Metas -> Page]
        /\ Whole(Head.txnid, mem[Recent].gen, World)
        /\ lck.unsynced = 0 => Flushed(Head.txnid, World)
        /\ call.steady = TRUE => Flushed(call.txnid, World)
        /\ Full(call.flags) => call.steady = TRUE
        /\ \A j \in Metas : mem[j].boot <= boot
    BY <1>1, BeforeMeta
  <1>3. disk = mem
    BY <1>1, DiskIsMem DEF Crashable
  <1>4. /\ \/ call.txnid > Head.txnid /\ call.target # Recent /\ call.target # Prefer
           \/ call.txnid = Head.txnid /\ call.target = Recent /\ mem[Recent].steady = FALSE
        /\ call.txnid \in 1 .. MaxTxn /\ Whole(call.txnid, call.gen, World)
        /\ lck.unsynced = 0 => Flushed(call.txnid, World)
    BY <1>1 DEF Crashable, Calling, Place, ToWrite
  <1>5. CASE call.target = Recent
    <2>1. pc' = "sign" /\ mem' = mem /\ call.txnid = Head.txnid /\ mem[Recent].steady = FALSE
      BY <1>4, <1>5 DEF InvalidateMeta
    <2>2. Running' /\ InCall' /\ (Going' => Going)
      BY <1>1, <1>2, <2>1 DEF InCall, Running, Going
    <2>3. /\ Files' /\ Snapshots' /\ Recent' = Recent /\ Head' = Head
          /\ \A x : Flushed(x, World) => Flushed(x, World')
      BY <1>1, <1>2, <1>3, <2>1, <2>2, QuietSnapshots DEF Crashable
    <2>4. Asked'
      BY <1>1, <1>2, <2>3 DEF Crashable, Calling, Asked, WriteMap
    <2>5. ToWrite' /\ Sign' /\ Place'
      BY <1>1, <1>2, <1>5, <2>1, <2>3 DEF ToWrite, Sign, Place, WriteMap
    <2>6. Settings'
      BY <1>1, <1>2, <2>2 DEF Crashable, Settings, Plan, WriteMap
    <2> QED BY <2>3, <2>4, <2>5, <2>6 DEF Crashable, Calling
  <1>6. CASE call.target # Recent
    <2> DEFINE p == [mem[call.target] EXCEPT !.a = call.txnid, !.b = 0, !.steady = FALSE, !.gen = call.gen]
    <2>1. pc' = "publish" /\ mem' = [mem EXCEPT ![call.target] = p]
      BY <1>6 DEF InvalidateMeta
    <2>2. p \in Page /\ p.a = call.txnid /\ p.b = 0 /\ p.boot = mem[call.target].boot
      BY <1>2, NewMetaFacts
    <2> HIDE DEF p
    <2>3. call.txnid > Head.txnid /\ call.target # Prefer
      BY <1>4, <1>6
    <2>4. p.a # p.b /\ ~Valid(p) /\ ~Steady(p)
      BY <1>4, <2>2 DEF Valid, Steady
    <2>5. /\ Recent \in Metas /\ Head.txnid >= 1 /\ Distinct
          /\ ~Last(mem, call.target)
      BY <1>2, <2>3, MemFacts DEF Crashable, Files
    <2>6. /\ Files'
          /\ \A x, g : Whole(x, g, World) => Whole(x, g, World')
          /\ \A x : Flushed(x, World) => Flushed(x, World')
      <3>1. p.boot <= boot
        BY <1>2, <2>2
      <3>2. /\ disk' = disk /\ WriteMap /\ pc' \in {"publish", "sign", "msync"}
            /\ call'.target = call.target /\ (disk = mem \/ call.target = call.target)
        BY <1>1, <2>1
      <3> QED BY <1>1, <1>2, <2>1, <2>2, <2>4, <2>5, <3>1, <3>2, PageWritten
    <2>7. Recent' = Recent /\ Head'.txnid = Head.txnid
      <3>1. \A m \in Page : meta_snap(m).txnid = IF m.a = m.b THEN m.a ELSE 0
        BY DEF Page, meta_snap
      <3>2. \A i \in Metas : Tap[i].txnid = (IF mem[i].a = mem[i].b THEN mem[i].a ELSE 0)
                             /\ Tap'[i].txnid = (IF mem'[i].a = mem'[i].b THEN mem'[i].a ELSE 0)
        BY <3>1 DEF Types, Tap
      <3>3. \A i \in Metas : Tap'[i].txnid = Tap[i].txnid \/ (i # Recent /\ Tap'[i].txnid = 0)
        BY <1>2, <1>6, <2>1, <2>4, <3>2
      <3> QED BY <2>5, <3>3, HeadStays
    <2>8. mem'[Recent] = mem[Recent] /\ mem'[call.target] = p
      BY <1>2, <1>6, <2>1, <2>5
    <2>9. Running' /\ InCall' /\ (Going' => Going)
      BY <1>1, <1>2, <2>1 DEF InCall, Running, Going
    <2>10. Snapshots'
      <3>1. Numbers'
        BY <1>1 DEF Crashable, Snapshots, Numbers
      <3>2. HeadWhole' /\ HeadFlushed'
        BY <1>1, <1>2, <2>6, <2>7, <2>8 DEF HeadWhole, HeadFlushed
      <3>3. AtWork'
        BY <1>1, <2>7, <2>9 DEF Crashable, Snapshots, AtWork, WriteMap
      <3> QED BY <3>1, <3>2, <3>3 DEF Snapshots
    <2>11. Asked'
      BY <1>1, <1>2, <2>7 DEF Crashable, Calling, Asked, WriteMap
    <2>12. ToWrite'
      <3>1. call'.txnid >= Head'.txnid
        BY <1>1, <2>7 DEF Crashable, Calling, ToWrite
      <3> QED BY <1>1, <1>4, <2>6, <3>1 DEF ToWrite
    <2>13. Sign'
      BY <1>1, <1>2, <2>1, <2>6 DEF Sign
    <2>14. Place'
      BY <1>1, <2>1, <2>3, <2>4, <2>7, <2>8 DEF Place, WriteMap
    <2>15. Settings'
      BY <1>1, <1>2, <2>9 DEF Crashable, Settings, Plan, WriteMap
    <2> QED BY <2>6, <2>10, <2>11, <2>12, <2>13, <2>14, <2>15 DEF Crashable, Calling
  <1> QED BY <1>5, <1>6

\* Then it is filled and made valid,
LEMMA PublishStep ==
    ASSUME Types, Types', Durably, Crashable, PublishMeta
    PROVE  Crashable'
  <1> DEFINE p == [NewMeta EXCEPT !.steady = FALSE]
  <1>1. /\ pc = "publish" /\ pc' = "sign"
        /\ mem' = [mem EXCEPT ![call.target] = p]
        /\ UNCHANGED <<plan, disk, boot, env, lck, txn, call, gen, owner, cached, lost, reused, promised>>
    BY DEF PublishMeta, ghosts
  <1>2. /\ p \in Page /\ p.a = call.txnid /\ p.b = call.txnid /\ p.boot = boot /\ p.gen = call.gen
        /\ p.steady = FALSE
    BY NewMetaFacts
  <1> HIDE DEF p
  <1>3. call.txnid > Head.txnid /\ ~Last(mem, call.target)
    BY <1>1 DEF Crashable, Calling, Place, Last, Steady
  <1>4. WriteMap
    BY <1>1 DEF Crashable, Calling, Place
  <1> QED BY <1>1, <1>2, <1>3, <1>4, NewerWritten

\* and at last signed.
LEMMA SignStep ==
    ASSUME Types, Types', Durably, Crashable, SignMeta
    PROVE  Crashable'
  <1>1. /\ pc = "sign" /\ pc' = "msync"
        /\ UNCHANGED <<plan, disk, boot, env, lck, txn, call, gen, owner, cached, lost, reused, promised>>
        /\ mem' = [mem EXCEPT ![call.target] = [mem[call.target] EXCEPT !.steady = call.steady]]
    BY DEF SignMeta, ghosts
  <1>2. /\ call.target = Recent /\ call.txnid = Head.txnid /\ mem[Recent].steady = FALSE /\ WriteMap
    BY <1>1 DEF Crashable, Calling, Place
  <1>3. /\ call.steady \in BOOLEAN /\ Whole(Head.txnid, mem[Recent].gen, World)
        /\ mem \in [Metas -> Page] /\ World.boot = boot /\ Running
        /\ \A j \in Metas : mem[j].boot <= boot /\ mem[j].boot \in Nat /\ mem[j].a \in Nat
    BY <1>1, BeforeMeta
  <1>4. /\ Recent \in Metas /\ Valid(mem[Recent]) /\ Head.txnid = mem[Recent].a
        /\ \A i \in Metas : i # Recent /\ Valid(mem[i]) => mem[i].a < Head.txnid
    BY MemFacts DEF Crashable, Files
  <1> DEFINE p == [mem[Recent] EXCEPT !.steady = call.steady]
  <1>5. /\ p \in Page /\ p.a = mem[Recent].a /\ p.b = mem[Recent].b /\ p.boot = mem[Recent].boot
        /\ p.gen = mem[Recent].gen /\ p.steady = call.steady
    BY <1>3, <1>4, NewMetaFacts
  <1>6. mem' = [mem EXCEPT ![Recent] = p]
    BY <1>1, <1>2
  <1> HIDE DEF p
  <1>7. \A j \in Metas : j # Recent /\ Valid(mem[j]) => mem[j].boot <= p.boot
    <2>1. ASSUME NEW j \in Metas, j # Recent, Valid(mem[j]) PROVE mem[j].boot <= mem[Recent].boot
      <3>1. ~(mem[Recent].boot < mem[j].boot)
        <4>1. ~(mem[Recent].a < mem[j].a)
          BY <1>3, <1>4, <2>1
        <4>2. mem[Recent].boot < mem[j].boot => mem[Recent].a < mem[j].a
          BY <1>4, <2>1 DEF Crashable, Files, Sound
        <4> QED BY <4>1, <4>2
      <3> QED BY <1>3, <1>4, <2>1, <3>1
    <2> QED BY <1>5, <2>1
  <1>8. p.a = call.txnid /\ p.b = call.txnid /\ p.boot <= boot /\ Whole(call.txnid, p.gen, World)
    BY <1>2, <1>3, <1>4, <1>5 DEF Valid
  <1> QED BY <1>1, <1>2, <1>5, <1>6, <1>7, <1>8, HeadRewritten
-----------------------------------------------------------------------------
(* All steps. *)

\* The system goes down: the cache is what the disk was, and nothing that the
\* steady page on it needs is lost.
LEMMA SystemCrashStep ==
    ASSUME Types, Types', Durably, Crashable, SystemCrash
    PROVE  Crashable'
  <1>1. /\ boot' = boot + 1 /\ mem' = disk /\ disk' = disk /\ lost' = lost \cup cached /\ cached' = {}
        /\ pc' = "down" /\ UNCHANGED <<plan, env, lck, gen, owner, reused, promised>>
    BY DEF SystemCrash
  <1>2. ~Running' /\ ~Going' /\ ~InCall'
    BY <1>1 DEF Running, Going, InCall
  <1>3. boot \in Nat /\ disk \in [Metas -> Page] /\ Sound(disk, World)
    BY DEF Types, Crashable, Files
  <1>4. /\ World.boot = boot /\ World.reused = reused /\ World.promised = promised
        /\ World.owner = owner /\ World.cached = cached /\ World.lost = lost
        /\ World'.boot = boot + 1 /\ World'.reused = reused /\ World'.promised = promised
        /\ World'.owner = owner /\ World'.cached = {} /\ World'.lost = lost \cup cached
    BY <1>1 DEF World
  <1>5. Sound(disk, World')
    <2>1. ASSUME NEW i \in Metas, Good(disk[i], World) PROVE Good(disk[i], World')
      <3>1. \A y \in 1 .. disk[i].a : owner[y] \notin lost \cup cached
        BY <1>4, <2>1 DEF Good, Whole, Flushed
      <3> QED BY <1>4, <2>1, <3>1 DEF Good, Whole, Flushed
    <2>2. \E i \in Metas : Last(disk, i) /\ Good(disk[i], World')
      BY <1>3, <2>1 DEF Sound
    <2>3. \A i \in Metas : disk[i].boot <= boot /\ disk[i].boot \in Nat
      BY <1>3, <1>4 DEF Sound, Page
    <2>4. \A i \in Metas : disk[i].boot <= World'.boot /\ disk[i].boot # World'.boot
      BY <1>3, <1>4, <2>3
    <2> QED BY <1>3, <2>2, <2>4 DEF Sound
  <1>6. Files'
    BY <1>1, <1>5 DEF Files
  <1>7. Numbers'
    BY <1>1 DEF Crashable, Snapshots, Numbers
  <1>8. HeadWhole' /\ HeadFlushed' /\ AtWork'
    BY <1>2 DEF HeadWhole, HeadFlushed, AtWork
  <1>9. Calling'
    BY <1>2 DEF InCall, Calling, Asked, ToWrite, Sign, Place
  <1>10. Settings'
    BY <1>1, <1>2 DEF Crashable, Settings
  <1> QED BY <1>6, <1>7, <1>8, <1>9, <1>10 DEF Crashable, Snapshots

\* What a durable environment does not do.
LEMMA NeverDurably ==
    ASSUME Types, Durably, Crashable
    PROVE  /\ ~WipeSteady /\ ~SyncDataFails /\ ~WriteMetaFails
           /\ \A f, onoff : ~(f \in {{"NOMETASYNC"}, {"SAFE_NOSYNC"}, {"SAFE_NOSYNC", "UTTERLY"}}
                              /\ onoff \in BOOLEAN /\ SetFlags(f, onoff))
  <1>1. Plan.io = FALSE
    BY DEF Durably
  <1>2. ~SyncDataFails /\ ~WriteMetaFails
    BY <1>1 DEF SyncDataFails, WriteMetaFails
  <1>3. ~WipeSteady
    <2>1. ASSUME WipeSteady PROVE FALSE
      <3>1. pc = "txn" /\ "UTTERLY" \in env.flags
        BY <2>1 DEF WipeSteady
      <3> QED BY <3>1, DurableFlags DEF Running
    <2> QED BY <2>1
  <1>4. ASSUME NEW f \in {{"NOMETASYNC"}, {"SAFE_NOSYNC"}, {"SAFE_NOSYNC", "UTTERLY"}}, NEW onoff \in BOOLEAN,
               SetFlags(f, onoff)
        PROVE  FALSE
    <2>1. /\ pc \in {"idle", "txn"} /\ env' # env /\ env'.flags \in Plan.flags
          /\ env' = [env EXCEPT !.flags = IF onoff THEN Combine(env.flags, f) ELSE env.flags \ f]
      BY <1>4 DEF SetFlags
    <2>2. env.flags \subseteq {"WRITEMAP"} /\ env \in [flags : SUBSET AnyFlag, dsync : BOOLEAN, metadsync : BOOLEAN]
      BY <2>1, DurableFlags DEF Running, Types
    <2>3. env'.flags = IF onoff THEN Combine(env.flags, f) ELSE env.flags \ f
      BY <2>1, <2>2
    <2>4. env'.flags \subseteq {"WRITEMAP"}
      BY <2>1 DEF Durably, Full
    <2>5. CASE onoff
      BY <2>3, <2>4, <2>5 DEF Combine
    <2>6. CASE ~onoff
      <3>1. env.flags \ f = env.flags
        BY <2>2
      <3>2. env' = [env EXCEPT !.flags = env.flags]
        BY <2>1, <2>6, <3>1
      <3> QED BY <2>1, <2>2, <3>2
    <2> QED BY <2>5, <2>6
  <1> QED BY <1>2, <1>3, <1>4

\* Every step keeps it.
LEMMA CrashNext == Types /\ CrashInv /\ [Next]_vars => Types' /\ CrashInv'
  <1> SUFFICES ASSUME Types, CrashInv, [Next]_vars PROVE Types' /\ CrashInv'
    OBVIOUS
  <1>1. Types'
    BY TypesStep
  <1>2. plan' = plan
    BY DEF Next, vars, Writeback, Open, OpenDone, OpenPurge, Begin, Spill, Abort, MakeSteady, WipeSteady,
           Presync, PureCommit, CommitWrite, SyncData, EnvSync, SyncDataFails, PwriteMeta, InvalidateMeta,
           PublishMeta, SignMeta, SyncMeta, WriteMetaFails, Close, MetaSync, SetFlags, Kill, OwnerDies, SystemCrash
  <1>3. Durably' => Durably
    BY <1>2 DEF Durably, Plan
  <1>4. ASSUME Durably, Crashable PROVE Crashable'
    <2>1. CASE UNCHANGED vars
      <3>1. /\ mem' = mem /\ disk' = disk /\ boot' = boot /\ env' = env /\ lck' = lck /\ pc' = pc /\ txn' = txn
            /\ call' = call /\ gen' = gen /\ owner' = owner /\ cached' = cached /\ lost' = lost
            /\ reused' = reused /\ promised' = promised
        BY <2>1 DEF vars, ghosts
      <3>2. Tap' = Tap /\ Recent' = Recent /\ Head' = Head /\ Prefer' = Prefer
        BY <3>1, SameMem DEF Prefer
      <3>3. World' = World /\ Plan' = Plan /\ InCall' = InCall /\ WriteMap' = WriteMap
        BY <1>2, <3>1 DEF World, Plan, InCall, WriteMap
      <3>4. Running' = Running /\ Going' = Going
        BY <3>1, <3>3 DEF Running, Going
      <3>5. Files'
        BY <1>4, <3>1, <3>3 DEF Crashable, Files
      <3>6. Settings'
        BY <1>4, <3>1, <3>3, <3>4 DEF Crashable, Settings
      <3>7. Numbers' /\ HeadWhole' /\ HeadFlushed'
        BY <1>4, <3>1, <3>2, <3>3, <3>4 DEF Crashable, Snapshots, Numbers, HeadWhole, HeadFlushed
      <3>8. AtWork'
        BY <1>4, <3>1, <3>2, <3>3, <3>4 DEF Crashable, Snapshots, AtWork
      <3>9. Asked' /\ ToWrite'
        BY <1>4, <3>1, <3>2, <3>3 DEF Crashable, Calling, Asked, ToWrite
      <3>10. Sign' /\ Place'
        <4>1. Sign'
          BY <1>4, <3>1, <3>2, <3>3 DEF Crashable, Calling, Sign
        <4>2. Valid(mem[call.target])' <=> Valid(mem[call.target])
          BY <3>1 DEF Valid
        <4>3. Place'
          BY <1>4, <3>1, <3>2, <3>3, <4>2 DEF Crashable, Calling, Place
        <4> QED BY <4>1, <4>3
      <3> QED BY <3>5, <3>6, <3>7, <3>8, <3>9, <3>10 DEF Crashable, Snapshots, Calling
    <2>2. CASE Next
      <3>1. CASE \E i \in Metas : Writeback(i)
        BY <1>1, <1>4, <3>1, WritebackStep
      <3>2. CASE \E flags \in Plan.flags : Open(flags)
        BY <1>1, <1>4, <3>2, OpenStep
      <3>3. CASE OpenDone \/ OpenPurge
        BY <1>1, <1>4, <3>3, OpenDoneStep, OpenPurgeStep
      <3>4. CASE \E flags \in SUBSET {"NOMETASYNC", "SAFE_NOSYNC"} : Begin(flags)
        BY <1>1, <1>4, <3>4, BeginStep
      <3>5. CASE Spill \/ CommitWrite
        BY <1>1, <1>4, <3>5, SpillStep, CommitStep
      <3>6. CASE Abort \/ PureCommit \/ Presync \/ OwnerDies
        BY <1>1, <1>4, <3>6, TxnStep
      <3>7. CASE MakeSteady \/ Close \/ \E force \in BOOLEAN : EnvSync(force)
        BY <1>1, <1>4, <3>7, AskStep
      <3>8. CASE \E force \in BOOLEAN : SyncData(force)
        BY <1>1, <1>4, <3>8, SyncDataStep
      <3>9. CASE PwriteMeta \/ InvalidateMeta \/ PublishMeta \/ SignMeta
        BY <1>1, <1>4, <3>9, PwriteStep, InvalidateStep, PublishStep, SignStep
      <3>10. CASE SyncMeta \/ MetaSync
        BY <1>1, <1>4, <3>10, SyncMetaStep, MetaSyncStep
      <3>11. CASE Kill \/ SystemCrash
        BY <1>1, <1>4, <3>11, KillStep, SystemCrashStep
      <3>12. CASE \/ WipeSteady \/ SyncDataFails \/ WriteMetaFails
                  \/ \E f \in {{"NOMETASYNC"}, {"SAFE_NOSYNC"}, {"SAFE_NOSYNC", "UTTERLY"}},
                        onoff \in BOOLEAN : SetFlags(f, onoff)
        BY <1>4, <3>12, NeverDurably
      <3> QED BY <2>2, <3>1, <3>2, <3>3, <3>4, <3>5, <3>6, <3>7, <3>8, <3>9, <3>10, <3>11, <3>12, Zenon DEF Next
    <2> QED BY <2>1, <2>2
  <1> QED BY <1>1, <1>3, <1>4 DEF CrashInv

\* A new file with three steady pages, the last of which is transaction 3.
LEMMA CrashInit == Init => Types /\ CrashInv
  <1> SUFFICES ASSUME Init PROVE Types /\ Crashable
    BY DEF CrashInv
  <1>1. Types
    BY MetaInit DEF MetaInv
  <1>2. /\ 2 \in Metas /\ \A i \in Metas : i \in Nat /\ i <= 2
        /\ MaxTxn \in Nat /\ MaxTxn >= 3
    BY MetaAssumption DEF Metas
  <1>3. /\ disk = mem /\ boot = 0 /\ pc = "down" /\ cached = {} /\ lost = {} /\ reused = 0 /\ promised = 0
        /\ gen = 0 /\ lck = [unsynced |-> 0, msync |-> Synced(0)] /\ owner = [x \in 1 .. MaxTxn |-> 0]
    BY DEF Init
  <1>4. \A i \in Metas : /\ mem[i].a = i + 1 /\ mem[i].b = i + 1 /\ mem[i].steady = TRUE
                         /\ mem[i].boot = 0 /\ mem[i].gen = 0
    BY DEF Init
  <1>5. ~Running /\ ~Going /\ ~InCall
    BY <1>3 DEF Running, Going, InCall
  <1>6. \A x \in 1 .. MaxTxn : owner[x] = 0
    BY <1>3
  <1>7. Sound(mem, World)
    <2>0. \A i \in Metas : i + 1 >= 1 /\ i + 1 <= 3
      BY DEF Metas
    <2>1. \A i \in Metas : Valid(mem[i]) /\ Steady(mem[i]) /\ mem[i].a <= 3
      BY <1>4, <2>0 DEF Valid, Steady
    <2>2. Last(mem, 2)
      BY <1>2, <1>4, <2>1 DEF Last
    <2>3. Good(mem[2], World)
      <3>1. mem[2].a = 3 /\ mem[2].gen = 0 /\ \A x \in 1 .. 3 : x \in 1 .. MaxTxn
        BY <1>2, <1>4
      <3> QED BY <1>3, <1>6, <3>1, WorldFields DEF Good, Whole, Flushed
    <2> QED BY <1>2, <1>3, <1>4, <2>1, <2>2, <2>3, WorldFields DEF Sound
  <1>8. Files
    BY <1>3, <1>7 DEF Files
  <1>9. Settings
    BY <1>3, <1>5 DEF Settings, Synced
  <1>10. Snapshots
    BY <1>3, <1>5, <1>6 DEF Snapshots, Numbers, HeadWhole, HeadFlushed, AtWork
  <1>11. Calling
    BY <1>3, <1>5, NoCalling
  <1> QED BY <1>1, <1>8, <1>9, <1>10, <1>11 DEF Crashable

\* In every reachable state of every durable plan the pages that recovery works
\* on are sound, and so is what the steps in between rely on.
THEOREM CrashInvariance == Spec => [](Types /\ CrashInv)
  <1> QED BY CrashInit, CrashNext, PTL DEF Spec

\* However often the system crashed, and wherever in a commit, a database that
\* is open has a head all of whose pages are there: dxb_setup rolls a weak head
\* of an older boot back to a steady one, whose pages were synced before it was
\* signed and are never reclaimed before another one is (gc_alloc_ex).
THEOREM CrashHeadSafety == Spec => [](Durably => HeadIntact)
  <1>1. Types /\ CrashInv => (Durably => HeadIntact)
    <2> SUFFICES ASSUME Types, Crashable, Active, pc # "open" PROVE Intact(mem[Recent])
      BY DEF CrashInv, HeadIntact
    <2>1. Running
      BY DEF Crashable, Settings, Active
    <2>2. Whole(mem[Recent].a, mem[Recent].gen, World) /\ reused <= mem[Recent].a
      <3>1. /\ Head.txnid = mem[Recent].a /\ reused <= Detent /\ Detent <= Head.txnid
            /\ Detent \in Nat /\ Head.txnid \in 1 .. MaxTxn
        BY MemFacts DEF Crashable, Files
      <3>2. reused \in Nat /\ MaxTxn \in Nat
        BY MetaAssumption DEF Types
      <3> QED BY <2>1, <3>1, <3>2 DEF Crashable, Snapshots, HeadWhole
    <2> QED BY <2>2, WorldFields DEF Intact, Whole
  <1> QED BY <1>1, CrashInvariance, PTL

\* A commit made or synced with full durability survives every crash of a
\* durable environment: nothing is promised before the page that says so is
\* signed and on the disk (dxb_sync_locked, env_sync).
THEOREM CrashDurability == Spec => [](Durably => DurableSurvives)
  <1>1. Types /\ CrashInv => (Durably => DurableSurvives)
    <2> SUFFICES ASSUME Types, Crashable PROVE promised <= Head.txnid
      BY DEF CrashInv, DurableSurvives
    <2>1. /\ promised <= Detent /\ Detent <= Head.txnid
          /\ Detent \in Nat /\ Head.txnid \in 1 .. MaxTxn
      BY MemFacts DEF Crashable, Files
    <2>2. promised \in Nat /\ MaxTxn \in Nat
      BY MetaAssumption DEF Types
    <2> QED BY <2>1, <2>2
  <1> QED BY <1>1, CrashInvariance, PTL

\* dxb_setup always finds a page to go back to.
THEOREM CrashOpenSafety == Spec => [](Durably => AlwaysOpens)
  <1>1. CrashInv => (Durably => AlwaysOpens)
    BY DEF CrashInv, Crashable, Settings, AlwaysOpens, Running, InCall
  <1> QED BY <1>1, CrashInvariance, PTL

\* Two meta pages never claim to be the same commit, neither in the cache nor
\* on the disk, at any step of a commit or a rollback and after any crash: the
\* one that meta_override or dxb_sync_locked overwrites is invalid or older.
THEOREM CrashNoClash == Spec => [](Durably => NoClash)
  <1>1. ASSUME NEW d \in [Metas -> Page], NEW w, Sound(d, w), NEW t, t = [i \in Metas |-> meta_snap(d[i])]
        PROVE  ~Clashed(t)
    <2>1. 0 \in Metas /\ 1 \in Metas /\ 2 \in Metas
      BY DEF Metas
    <2>2. \A i \in Metas : /\ Valid(d[i]) => t[i].txnid = d[i].a
                           /\ ~Valid(d[i]) => t[i].txnid = 0
                           /\ t[i] = meta_snap(d[i]) /\ d[i] \in Page
      BY <1>1, SnapFacts
    <2>3. \A i, j \in Metas : i # j => (t[i].txnid # t[j].txnid \/ t[i].txnid = 0)
      BY <1>1, <2>2 DEF Sound, Valid
    <2>4. \A x, y : meta_cmp2int(x, y) = 1 => x = y
      BY DEF meta_cmp2int
    <2>5. \A i, j \in Metas : i # j => ~meta_eq(t, i, j)
      BY <2>3, <2>4 DEF meta_eq, Differ, Cmp
    <2> QED BY <2>1, <2>5 DEF Clashed
  <1>2. Types /\ CrashInv => (Durably => NoClash)
    <2> SUFFICES ASSUME Types, Crashable PROVE NoClash
      BY DEF CrashInv
    <2>1. mem \in [Metas -> Page] /\ disk \in [Metas -> Page] /\ Sound(mem, World) /\ Sound(disk, World)
      BY DEF Types, Crashable, Files
    <2>2. ~Clashed(Tap)
      BY <1>1, <2>1 DEF Tap
    <2>3. ~Clashed([i \in Metas |-> meta_snap(disk[i])])
      BY <1>1, <2>1
    <2> QED BY <2>2, <2>3 DEF NoClash
  <1> QED BY <1>2, CrashInvariance, PTL
=============================================================================

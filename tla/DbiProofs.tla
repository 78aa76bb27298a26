----------------------------- MODULE DbiProofs -----------------------------
(***************************************************************************)
(* Proofs about Dbi, for any number of slots, names and tables, when the   *)
(* application is careful: there is one set of flags, and readers open     *)
(* what their snapshot has while they hold no cursor.                      *)
(*                                                                         *)
(* The argument.  The holder of dbi_lock is in one of three sequences of   *)
(* stores: it closes slots, enrols a table in a free slot, or gives up a   *)
(* slot that it poisoned.  Every other slot is at rest.  A handle that a   *)
(* transaction holds for valid carries a sequence number which is not      *)
(* ahead of the slot's, and while it is the same the slot has not been     *)
(* given to another table; the one exception is the slot that the          *)
(* transaction itself is enrolling, whose future number it has already.    *)
(* Nobody closes the slot of a changed table, so what was written is still *)
(* found under the name of its slot when the transaction commits.          *)
(***************************************************************************)
EXTENDS Dbi, FiniteSetTheorems, SequenceTheorems, WellFoundedInduction, TLAPS

TableType == [id : Nat, flags : {"plain"}, full : BOOLEAN]
SlotType == [flags : {"plain", Free, POISON}, seq : Nat, name : Names \cup {None}]
Marks == {"LINDO", "VALID", "STALE", "OLDEN", "SLAIN", "FRESH", "CREAT", "DIRTY"}
Asked == [flags : {"plain"}, accede : BOOLEAN, create : BOOLEAN]
Mains == {m \in [Names -> TableType] : \A n \in Names : m[n] = NoTable \/ m[n].id # 0}
JobType == [slot : Slots, todo : Seq(SlotType)]
ScanType == [pc : {"scan", "name", "check", "bind", "slow"}, name : Names, a : Asked,
             i : Nat, free : Nat, fast : Nat, snap : SlotType]

TxnType == [active : BOOLEAN, error : BOOLEAN, cursors : SUBSET Slots, main : Mains,
            dbs : [Slots -> TableType], state : [Slots -> SUBSET Marks],
            seqs : [Slots -> Nat]]

\* The marks a handle can have together.
Sane(st) ==
    \/ st = {}
    \/ /\ "LINDO" \in st
       /\ "VALID" \in st \/ st \subseteq {"LINDO", "OLDEN", "SLAIN"}
       /\ "DIRTY" \in st => "VALID" \in st /\ "STALE" \notin st

-----------------------------------------------------------------------------
(* The slots and the stores that are still to be made.                     *)

On(q, n) == [flags |-> "plain", seq |-> q, name |-> n]
Off(q, n) == [flags |-> Free, seq |-> q, name |-> n]
Mid(q) == [flags |-> POISON, seq |-> q, name |-> None]

\* Nobody is changing the slot.
Rest(e) == \/ e = On(e.seq, e.name) /\ e.name \in Names
           \/ e = Off(e.seq, None)

\* The slot is to be closed, and has not been touched yet.
Shutting(e, td) ==
    /\ e = On(e.seq, e.name) /\ e.name \in Names
    /\ td = << Off(e.seq, e.name), Off(e.seq, None), Off(e.seq + 1, None) >>

\* The slot is no longer valid, but its sequence number is still the old one.
Shut(e, td) ==
    \/ e = Off(e.seq, e.name) /\ e.name \in Names
       /\ td = << Off(e.seq, None), Off(e.seq + 1, None) >>
    \/ e = Off(e.seq, None) /\ td = << Off(e.seq + 1, None) >>

\* The slot becomes that of a table: On(q, n) is the last of the stores.
Enrolling(e, td, q, n) ==
    \/ e = Off(q - 2, None) /\ td = << Mid(q - 2), Mid(q - 1), Off(q, n), On(q, n) >>
    \/ e = Mid(q - 2) /\ td = << Mid(q - 1), Off(q, n), On(q, n) >>
    \/ e = Mid(q - 1) /\ td = << Off(q, n), On(q, n) >>
    \/ e = Off(q, n) /\ td = << On(q, n) >>

\* The slot was poisoned for nothing.
Refusing(e, td) ==
    \/ e = Off(e.seq, None) /\ td = << Mid(e.seq), Mid(e.seq + 1), Off(e.seq + 1, None) >>
    \/ e = Mid(e.seq) /\ td = << Mid(e.seq + 1), Off(e.seq + 1, None) >>
    \/ e = Mid(e.seq) /\ td = << Off(e.seq, None) >>

\* The slot that is being stored to, the stores, and the last of them.
Slot(t) == op[t].jobs[1].slot
Todo(t) == op[t].jobs[1].todo
Target(t) == Todo(t)[Len(Todo(t))]

Enrols(t, s) == lock = t /\ Slot(t) = s /\ Target(t).flags = "plain"
Shuts(s) == /\ lock # None /\ Slot(lock) = s /\ Shut(env[s], Todo(lock))
            /\ lock = "r" => op["r"].by = "close"
Busy(s) == lock # None /\ \E k \in DOMAIN op[lock].jobs : op[lock].jobs[k].slot = s

\* What the transaction knows of the slot that it enrols.
Enrolled1(x, s, q, n) ==
    /\ x.active /\ {"LINDO", "VALID"} \subseteq x.state[s] /\ "STALE" \notin x.state[s]
    /\ x.seqs[s] = q /\ x.main[n].id = x.dbs[s].id /\ x.main[n].id # 0

Holder(t) ==
    /\ op[t].jobs \in Seq(JobType) /\ op[t].jobs # <<>>
    /\ \A k, m \in DOMAIN op[t].jobs : k # m => op[t].jobs[k].slot # op[t].jobs[m].slot
    /\ \A k \in DOMAIN op[t].jobs : k # 1 =>
          Shutting(env[op[t].jobs[k].slot], op[t].jobs[k].todo)
    /\ \/ /\ Shutting(env[Slot(t)], Todo(t)) \/ Shut(env[Slot(t)], Todo(t))
          /\ t = "r" => op[t].by = "close"
       \/ Len(op[t].jobs) = 1 /\ Refusing(env[Slot(t)], Todo(t))
       \/ \E q \in Nat, n \in Names :
             /\ Len(op[t].jobs) = 1 /\ Enrolling(env[Slot(t)], Todo(t), q, n)
             /\ Enrolled1(txn[t], Slot(t), q, n)
             /\ \A u \in Slots : env[u].flags = "plain" => env[u].name # n

SlotsInv ==
    /\ env \in [Slots -> SlotType] /\ n_dbi \in 0 .. MaxDbi /\ lock \in Threads \cup {None}
    /\ \A s \in Slots : ~Busy(s) => Rest(env[s])
    /\ \A s \in Slots : env[s].flags = "plain" => env[s].name \in Names
    /\ \A s \in Slots : env[s].name # None \/ env[s].flags # Free => s <= n_dbi
    /\ \A s, u \in Slots : env[s].flags = "plain" /\ env[u].flags = "plain" /\ s # u =>
          env[s].name # env[u].name
    /\ lock # None => op[lock].pc = "store" /\ Holder(lock)

-----------------------------------------------------------------------------
(* What a transaction knows of a slot.                                     *)

View(x, s) ==
    /\ Sane(x.state[s])
    /\ "VALID" \in x.state[s] =>
          /\ x.seqs[s] <= env[s].seq
          /\ x.seqs[s] = env[s].seq => env[s].flags = "plain" \/ Shuts(s)
          /\ x.seqs[s] = env[s].seq /\ env[s].flags = "plain" /\ "STALE" \notin x.state[s] =>
                x.main[env[s].name].id = x.dbs[s].id /\ x.main[env[s].name].id # 0

Views == \A t \in Threads, s \in Slots :
            txn[t].active => View(txn[t], s) \/ (Enrols(t, s) /\ Sane(txn[t].state[s]))

\* A changed table: its slot is valid and nobody closes it.
Changed(x, s) ==
    \/ x.seqs[s] = env[s].seq /\ env[s].flags = "plain" /\ ~Busy(s)
    \/ Enrols("w", s)

Written1(x) == \A id \in wrote : \E s \in Slots :
                 "DIRTY" \in x.state[s] /\ x.dbs[s].id = id /\ x.dbs[s].full

Writes == txn["w"].active =>
            /\ \A s \in Slots : "DIRTY" \in txn["w"].state[s] => Changed(txn["w"], s)
            /\ Written1(txn["w"])

\* The slot is not one that the transaction could use as it is.
Unusable(x, s) == ~("VALID" \in x.state[s] /\ x.seqs[s] = env[s].seq /\ env[s].flags = "plain")

OpenInv(t) ==
    /\ op[t] \in ScanType /\ txn[t].active
    /\ op[t].pc \in {"scan", "name"} =>
          /\ op[t].free \in 1 .. MaxDbi + 1
          /\ op[t].free \in Slots => Unusable(txn[t], op[t].free)
    /\ op[t].pc = "scan" => op[t].i # 0
    /\ op[t].pc \in {"name", "check", "bind"} =>
          op[t].i \in Slots /\ op[t].snap.flags = "plain"
    /\ op[t].pc \in {"check", "bind"} => op[t].snap.name = op[t].name
    /\ op[t].pc = "slow" => op[t].fast <= MaxDbi
    /\ t = "r" => ~op[t].a.create /\ txn[t].main[op[t].name] # NoTable /\ txn[t].cursors = {}

OpInv(t) ==
    /\ op[t].pc \in {"idle", "store", "scan", "name", "check", "bind", "slow", "end"}
    /\ op[t].pc = "store" => lock = t
    /\ op[t].pc \in {"scan", "name", "check", "bind", "slow"} => OpenInv(t)
    /\ op[t].pc = "end" => t = "w" /\ op[t].slots \subseteq Slots /\ ~txn[t].active

Ops == \A t \in Threads : OpInv(t)

Types ==
    /\ txn \in [Threads -> TxnType] /\ tables \in Mains /\ lastId \in Nat
    /\ DOMAIN op = Threads
    /\ txn["w"].cursors = {}
    /\ \A s \in Slots : txn["r"].state[s] \cap {"SLAIN", "DIRTY"} = {}

Inv == Types /\ SlotsInv /\ Views /\ Ops /\ Writes /\ ~lost

-----------------------------------------------------------------------------
(* The operations on one slot of a transaction.                            *)

\* The least number of a set.
LEMMA MinOf ==
  ASSUME NEW S \in SUBSET Nat, S # {}
  PROVE  Min(S) \in S /\ \A i \in S : Min(S) <= i
  <1>1. PICK m \in S : \A i \in S : ~(<<i, m>> \in OpToRel(<, Nat))
    BY NatLessThanWellFounded, WFMin
  <1>2. \A i \in S : m <= i
    <2>1. TAKE i \in S
    <2>2. <<i, m>> \notin OpToRel(<, Nat)
      BY <1>1
    <2>3. i \in Nat /\ m \in Nat /\ ~(i < m)
      BY <2>2 DEF OpToRel
    <2> QED
      BY <2>3
  <1> QED
    BY <1>2 DEF Min

\* The greatest number of a bounded set.
LEMMA MaxOf ==
  ASSUME NEW N \in Nat, NEW S \in SUBSET (0 .. N), S # {}
  PROVE  Max(S) \in S /\ \A i \in S : i <= Max(S)
  <1> DEFINE D == {k \in Nat : N - k \in S}
  <1>1. \A i \in S : i \in Nat /\ N - i \in D
    OBVIOUS
  <1>2. D \in SUBSET Nat /\ D # {}
    BY <1>1
  <1>3. Min(D) \in D /\ \A k \in D : Min(D) <= k
    <2> HIDE DEF D
    <2> QED
      BY <1>2, MinOf
  <1> DEFINE m == N - Min(D)
  <1>4. m \in S /\ \A i \in S : m >= i
    <2>1. m \in S /\ Min(D) \in Nat
      BY <1>3
    <2>2. \A i \in S : Min(D) <= N - i
      BY <1>1, <1>3
    <2> QED
      BY <1>1, <2>1, <2>2
  <1> HIDE DEF D, m
  <1> QED
    BY <1>4 DEF Max

\* y is what became of transaction x by an operation on slot s.
Near(x, y, s) ==
    /\ y \in TxnType /\ y.main = x.main /\ y.active = x.active /\ y.error = x.error
    /\ y.cursors \subseteq x.cursors
    /\ \A u \in Slots : u # s =>
          y.state[u] = x.state[u] /\ y.seqs[u] = x.seqs[u] /\ y.dbs[u] = x.dbs[u]
    /\ "SLAIN" \in y.state[s] => "SLAIN" \in x.state[s]
    /\ IF "DIRTY" \in x.state[s] THEN y = x ELSE "DIRTY" \notin y.state[s]

\* A changed slot is valid.
Settled(x, s) ==
    "DIRTY" \in x.state[s] => x.seqs[s] = env[s].seq /\ env[s].flags = "plain"

\* What is known when an operation on a slot starts.
Known(x, s) ==
    /\ x \in TxnType /\ s \in Slots /\ env[s] \in SlotType /\ n_dbi \in Nat
    /\ View(x, s) /\ Settled(x, s)

LEMMA ValidIsPlain ==
  ASSUME NEW s \in Slots, env[s] \in SlotType
  PROVE  Valid(s) <=> env[s].flags = "plain"
BY DbiAssumption DEF Valid, SlotType, Free, POISON

LEMMA DisownedView ==
  ASSUME NEW x, NEW s, Known(x, s), "DIRTY" \notin x.state[s]
  PROVE  /\ Near(x, Disowned(x, s), s) /\ View(Disowned(x, s), s)
         /\ "VALID" \notin Disowned(x, s).state[s]
         /\ "OLDEN" \in Disowned(x, s).state[s]
BY DEF Known, Near, Disowned, TxnType, SlotType, View, Sane, Marks

LEMMA ImportedView ==
  ASSUME NEW x, NEW s, Known(x, s), "DIRTY" \notin x.state[s]
  PROVE  LET r == Imported(x, s) IN
         /\ Near(x, r.x, s) /\ View(r.x, s) /\ r.todo = <<>>
         /\ \/ r.rc = "SUCCESS" /\ r.x.seqs[s] = env[s].seq
               /\ r.x.state[s] = {"LINDO", "VALID", "STALE"}
            \/ r.rc = "BAD_DBI" /\ r.x.state[s] = {"LINDO"} /\ env[s].flags # "plain"
  <1>1. CASE Valid(s)
    <2> DEFINE y == Imported(x, s).x
    <2>1. env[s].flags = "plain" /\ env[s].seq \in Nat /\ x \in TxnType /\ s \in Slots
      BY <1>1, ValidIsPlain DEF Known, SlotType
    <2>2. /\ y.main = x.main /\ y.active = x.active /\ y.error = x.error /\ y.cursors = x.cursors
          /\ y.dbs = [x.dbs EXCEPT ![s].flags = "plain"]
          /\ y.seqs = [x.seqs EXCEPT ![s] = env[s].seq]
          /\ y.state = [x.state EXCEPT ![s] = {"LINDO", "VALID", "STALE"}]
          /\ y = [active |-> y.active, error |-> y.error, cursors |-> y.cursors, main |-> y.main,
                  dbs |-> y.dbs, state |-> y.state, seqs |-> y.seqs]
      BY <1>1, <2>1 DEF Imported, Result, TxnType
    <2>3. y.dbs \in [Slots -> TableType] /\ \A u \in Slots : u # s => y.dbs[u] = x.dbs[u]
      BY <2>1, <2>2 DEF TxnType, TableType
    <2>4. y.seqs \in [Slots -> Nat] /\ y.state \in [Slots -> SUBSET Marks]
      BY <2>1, <2>2 DEF TxnType, Marks
    <2>5. y \in TxnType
      BY <2>1, <2>2, <2>3, <2>4 DEF TxnType
    <2>6. Imported(x, s).rc = "SUCCESS" /\ Imported(x, s).todo = <<>>
      BY <1>1 DEF Imported, Result
    <2>7. y.state[s] = {"LINDO", "VALID", "STALE"} /\ y.seqs[s] = env[s].seq
          /\ \A u \in Slots : u # s => y.state[u] = x.state[u] /\ y.seqs[u] = x.seqs[u]
      BY <2>1, <2>2 DEF TxnType
    <2> HIDE DEF y
    <2>8. Near(x, y, s) /\ View(y, s)
      BY <2>1, <2>2, <2>3, <2>5, <2>7 DEF Near, View, Sane
    <2> QED
      BY <2>6, <2>7, <2>8 DEF y
  <1>2. CASE ~Valid(s)
    BY <1>2, ValidIsPlain DEF Known, Near, Imported, Result, State, TxnType, SlotType, View, Sane, Marks
  <1> QED
    BY <1>1, <1>2

\* dbi_import and dbi_check leave a transaction that knows the slot rightly;
\* success means that the handle is valid and up to date.
Checked1(x, r, s) ==
    /\ Near(x, r.x, s) /\ View(r.x, s) /\ r.todo = <<>>
    /\ r.rc \in {"SUCCESS", "BAD_DBI", "DANGLING_DBI"}
    /\ r.rc = "SUCCESS" => /\ {"LINDO", "VALID"} \subseteq r.x.state[s]
                           /\ r.x.seqs[s] = env[s].seq
    /\ r.rc = "BAD_DBI" /\ env[s].flags = "plain" /\ s <= n_dbi =>
          "VALID" \notin r.x.state[s] /\ r.x.state[s] # {}
    /\ r.rc = "DANGLING_DBI" => s \in x.cursors

LEMMA NearItself ==
  ASSUME NEW x \in TxnType, NEW s \in Slots
  PROVE  Near(x, x, s)
BY DEF Near

LEMMA ImportKnown ==
  ASSUME NEW x, NEW s, Known(x, s), "DIRTY" \notin x.state[s]
  PROVE  Checked1(x, dbi_import(x, s), s)
  <1> DEFINE r == dbi_import(x, s)
  <1>1. CASE s > n_dbi \/ env[s].flags = Free
    <2>1. r = Result("BAD_DBI", x)
      BY <1>1 DEF dbi_import, Known, Slots
    <2>2. ~(env[s].flags = "plain" /\ s <= n_dbi)
      BY <1>1, DbiAssumption DEF Known, Free, Slots
    <2>3. Near(x, x, s)
      BY NearItself DEF Known
    <2> QED
      BY <2>1, <2>2, <2>3 DEF Checked1, Result, Known
  <1>2. CASE s <= n_dbi /\ env[s].flags # Free /\ x.state[s] = {}
    <2> DEFINE z == [x EXCEPT !.cursors = @ \ {s}]
    <2>1. z \in TxnType /\ z.main = x.main /\ z.active = x.active /\ z.error = x.error
          /\ z.dbs = x.dbs /\ z.state = x.state /\ z.seqs = x.seqs /\ z.cursors \subseteq x.cursors
      BY DEF Known, TxnType
    <2>2. r = Imported(z, s)
      BY <1>2 DEF dbi_import, Known, Slots
    <2> HIDE DEF z
    <2>3. Known(z, s) /\ "DIRTY" \notin z.state[s]
      BY <2>1 DEF Known, View, Settled
    <2> HIDE DEF r
    <2>4. /\ Near(z, r.x, s) /\ View(r.x, s) /\ r.todo = <<>>
          /\ \/ r.rc = "SUCCESS" /\ r.x.seqs[s] = env[s].seq
                /\ r.x.state[s] = {"LINDO", "VALID", "STALE"}
             \/ r.rc = "BAD_DBI" /\ r.x.state[s] = {"LINDO"} /\ env[s].flags # "plain"
      BY <2>2, <2>3, ImportedView
    <2>5. Near(x, r.x, s)
      BY <2>1, <2>4 DEF Near
    <2> QED
      BY <2>4, <2>5 DEF Checked1, r
  <1>3. CASE s <= n_dbi /\ env[s].flags # Free /\ x.state[s] # {} /\ s \in x.cursors
    <2>1. r = Result("DANGLING_DBI", Disowned(x, s))
      BY <1>3 DEF dbi_import, Known, Slots
    <2> QED
      BY <1>3, <2>1, DisownedView DEF Checked1, Result
  <1>4. CASE /\ s <= n_dbi /\ env[s].flags # Free /\ s \notin x.cursors
             /\ x.state[s] \cap {"OLDEN", "VALID", "SLAIN"} # {}
    <2>1. r = Result("BAD_DBI", Disowned(x, s))
      BY <1>4 DEF dbi_import, Known, Slots
    <2> QED
      BY <1>4, <2>1, DisownedView DEF Checked1, Result
  <1>5. CASE /\ s <= n_dbi /\ env[s].flags # Free /\ s \notin x.cursors
             /\ x.state[s] = {"LINDO"}
    <2>1. r = Imported(x, s)
      BY <1>5 DEF dbi_import, Known, Slots
    <2> HIDE DEF r
    <2>2. /\ Near(x, r.x, s) /\ View(r.x, s) /\ r.todo = <<>>
          /\ \/ r.rc = "SUCCESS" /\ r.x.seqs[s] = env[s].seq
                /\ r.x.state[s] = {"LINDO", "VALID", "STALE"}
             \/ r.rc = "BAD_DBI" /\ r.x.state[s] = {"LINDO"} /\ env[s].flags # "plain"
      BY <2>1, ImportedView
    <2> QED
      BY <2>2 DEF Checked1, r
  <1>6. x.state[s] = {} \/ x.state[s] = {"LINDO"} \/ x.state[s] \cap {"OLDEN", "VALID", "SLAIN"} # {}
    BY DEF Known, View, Sane
  <1> QED
    BY <1>1, <1>2, <1>3, <1>4, <1>5, <1>6 DEF Known, Slots

LEMMA CheckKnown ==
  ASSUME NEW x, NEW s, Known(x, s)
  PROVE  /\ Checked1(x, dbi_check(x, s), s)
         /\ "DIRTY" \in x.state[s] => dbi_check(x, s) = Result("SUCCESS", x)
  <1>1. CASE "LINDO" \in x.state[s] /\ ~dbi_changed(x, s)
    <2>1. dbi_check(x, s) = Result(IF "VALID" \in x.state[s] THEN "SUCCESS" ELSE "BAD_DBI", x)
      BY <1>1 DEF dbi_check
    <2>2. Near(x, x, s)
      BY NearItself DEF Known
    <2>3. "DIRTY" \in x.state[s] => "VALID" \in x.state[s]
      BY DEF Known, View, Sane
    <2> QED
      BY <1>1, <2>1, <2>2, <2>3 DEF Checked1, Result, Known, dbi_changed
  <1>2. CASE ~("LINDO" \in x.state[s] /\ ~dbi_changed(x, s))
    <2>1. dbi_check(x, s) = dbi_import(x, s)
      BY <1>2 DEF dbi_check
    <2>2. "DIRTY" \notin x.state[s]
      BY <1>2 DEF Known, View, Settled, Sane, dbi_changed
    <2> QED
      BY <2>1, <2>2, ImportKnown
  <1> QED
    BY <1>1, <1>2

\* What the steps of an operation do to a slot adds up.
LEMMA NearTwice ==
  ASSUME NEW x, NEW y, NEW z, NEW s, Near(x, y, s), Near(y, z, s)
  PROVE  Near(x, z, s)
BY DEF Near

\* The unnamed table has the table or not: with one set of flags nothing else
\* can go wrong.
LEMMA FetchKnown ==
  ASSUME NEW x \in TxnType, NEW s \in Slots, NEW n \in Names \cup {None}, NEW a,
         a.flags = "plain"
  PROVE  LET f == tbl_fetch(x, s, n, a) IN
         \/ /\ n = None \/ (n \in Names /\ x.main[n] = NoTable)
            /\ f = Result("NOTFOUND", x)
         \/ /\ n \in Names /\ x.main[n] # NoTable /\ x.main[n].id # 0
            /\ f = Result("SUCCESS", [x EXCEPT !.dbs[s] = x.main[n]])
  <1>1. CASE n = None \/ x.main[n] = NoTable
    BY <1>1 DEF tbl_fetch
  <1>2. CASE n # None /\ x.main[n] # NoTable
    <2>1. n \in Names /\ x.main[n].flags = "plain" /\ x.main[n].id # 0
      BY <1>2 DEF TxnType, Mains, TableType
    <2> QED
      BY <1>2, <2>1 DEF tbl_fetch
  <1> QED
    BY <1>1, <1>2

LEMMA GoneView ==
  ASSUME NEW x, NEW s, Known(x, s), "DIRTY" \notin x.state[s]
  PROVE  Near(x, dbi_gone(x, s), s) /\ View(dbi_gone(x, s), s)
  <1> DEFINE y == dbi_gone(x, s)
  <1>1. /\ y.main = x.main /\ y.active = x.active /\ y.error = x.error /\ y.cursors = x.cursors
        /\ y.dbs = x.dbs
        /\ y.seqs \in [Slots -> Nat] /\ \A u \in Slots : u # s => y.seqs[u] = x.seqs[u]
        /\ y.state = [x.state EXCEPT ![s] = (@ \cap {"SLAIN"}) \cup {"OLDEN", "LINDO"}]
        /\ y = [active |-> y.active, error |-> y.error, cursors |-> y.cursors, main |-> y.main,
                dbs |-> y.dbs, state |-> y.state, seqs |-> y.seqs]
    <2> DEFINE st == (x.state[s] \cap {"SLAIN"}) \cup {"OLDEN", "LINDO"}
               q == IF x.state[s] \cap {"FRESH", "CREAT"} # {} THEN x.seqs[s] ELSE 0
    <2>1. y = [x EXCEPT !.state[s] = st, !.seqs[s] = q]
      BY DEF dbi_gone
    <2>2. q \in Nat /\ x \in TxnType /\ s \in Slots
      BY DEF Known, TxnType
    <2> HIDE DEF q, y
    <2> QED
      BY <2>1, <2>2 DEF TxnType
  <1>2. y.state \in [Slots -> SUBSET Marks]
        /\ y.state[s] = (x.state[s] \cap {"SLAIN"}) \cup {"OLDEN", "LINDO"}
        /\ \A u \in Slots : u # s => y.state[u] = x.state[u]
    BY <1>1 DEF Known, TxnType, Marks
  <1>3. y \in TxnType
    BY <1>1, <1>2 DEF Known, TxnType
  <1> HIDE DEF y
  <1>4. Near(x, y, s)
    BY <1>1, <1>2, <1>3 DEF Near
  <1>5. View(y, s)
    BY <1>2 DEF View, Sane
  <1> QED
    BY <1>4, <1>5 DEF y

\* A handle that a transaction can use as it is.
Ready(x, s) ==
    /\ {"LINDO", "VALID"} \subseteq x.state[s] /\ "STALE" \notin x.state[s]
    /\ x.seqs[s] = env[s].seq

\* The record of the handle's table was looked up, and the mark taken away.
Filled(x, s, n) == [x EXCEPT !.dbs[s] = x.main[n]]
Unstale(x, s, n) == State(Filled(x, s, n), s, x.state[s] \ {"STALE"})

LEMMA FilledView ==
  ASSUME NEW x, NEW s, NEW n, Known(x, s), n \in Names,
         "STALE" \in x.state[s], x.main[n] # NoTable,
         env[s].flags = "plain" => env[s].name = n
  PROVE  /\ Near(x, Unstale(x, s, n), s) /\ View(Unstale(x, s, n), s)
         /\ Unstale(x, s, n).state[s] = x.state[s] \ {"STALE"}
         /\ Unstale(x, s, n).seqs = x.seqs
  <1> DEFINE z == Filled(x, s, n)
             y == Unstale(x, s, n)
  <1>1. z \in TxnType /\ z.main = x.main /\ z.active = x.active /\ z.error = x.error
        /\ z.cursors = x.cursors /\ z.state = x.state /\ z.seqs = x.seqs
        /\ z.dbs[s] = x.main[n] /\ \A u \in Slots : u # s => z.dbs[u] = x.dbs[u]
    BY DEF Filled, Known, TxnType, Mains
  <1>2. y \in TxnType /\ y.main = z.main /\ y.active = z.active /\ y.error = z.error
        /\ y.cursors = z.cursors /\ y.dbs = z.dbs /\ y.seqs = z.seqs
        /\ y.state[s] = x.state[s] \ {"STALE"}
        /\ \A u \in Slots : u # s => y.state[u] = x.state[u]
    <2>1. y = State(z, s, x.state[s] \ {"STALE"})
      BY DEF Unstale
    <2> HIDE DEF y, z
    <2> QED
      BY <1>1, <2>1 DEF Known, State, TxnType
  <1> HIDE DEF y, z
  <1>3. "VALID" \in x.state[s] /\ "LINDO" \in x.state[s] /\ "DIRTY" \notin x.state[s]
    BY DEF Known, View, Sane
  <1>4. Near(x, y, s)
    BY <1>1, <1>2, <1>3 DEF Near
  <1>5. x.main[n].id # 0
    BY DEF Known, TxnType, Mains
  <1>6. View(y, s)
    BY <1>1, <1>2, <1>3, <1>5 DEF Known, View, Sane
  <1> QED
    BY <1>1, <1>2, <1>4, <1>6 DEF y

LEMMA RefreshKnown ==
  ASSUME NEW x, NEW s, Known(x, s), "STALE" \in x.state[s], x.seqs[s] = env[s].seq
  PROVE  LET r == tbl_refresh(x, s) IN
         /\ Near(x, r.x, s) /\ View(r.x, s) /\ r.todo = <<>>
         /\ r.rc = "SUCCESS" => Ready(r.x, s)
  <1> DEFINE n == env[s].name
             a == [flags |-> x.dbs[s].flags, accede |-> FALSE, create |-> FALSE]
             f == tbl_fetch(x, s, n, a)
             r == Refreshed(f, x, s)
  <1>1. tbl_refresh(x, s) = r
    BY DEF tbl_refresh
  <1>2. n \in Names \cup {None} /\ a.flags = "plain" /\ x \in TxnType /\ s \in Slots
    BY DEF Known, SlotType, TxnType, TableType
  <1>3. "DIRTY" \notin x.state[s] /\ {"LINDO", "VALID"} \subseteq x.state[s]
    BY DEF Known, View, Sane
  <1>4. \/ /\ n = None \/ (n \in Names /\ x.main[n] = NoTable)
           /\ f = Result("NOTFOUND", x)
        \/ /\ n \in Names /\ x.main[n] # NoTable /\ x.main[n].id # 0
           /\ f = Result("SUCCESS", [x EXCEPT !.dbs[s] = x.main[n]])
    <2> HIDE DEF n, a
    <2> QED
      BY <1>2, FetchKnown DEF f
  <1> HIDE DEF f
  <1>5. CASE f = Result("NOTFOUND", x)
    <2>1. r = Result("NOTFOUND", dbi_gone(x, s))
      BY <1>5 DEF Refreshed, Result
    <2> QED
      BY <1>1, <1>3, <2>1, GoneView DEF Result
  <1>6. CASE /\ n \in Names /\ x.main[n] # NoTable
             /\ f = Result("SUCCESS", [x EXCEPT !.dbs[s] = x.main[n]])
    <2> DEFINE y == Unstale(x, s, n)
    <2>1. r = Result("SUCCESS", y)
      BY <1>6 DEF Refreshed, Result, dbi_changed, Unstale, Filled
    <2> HIDE DEF y
    <2>3. /\ Near(x, y, s) /\ View(y, s) /\ y.state[s] = x.state[s] \ {"STALE"}
          /\ y.seqs = x.seqs
      BY <1>6, FilledView DEF y
    <2>4. Ready(y, s)
      BY <1>3, <2>3 DEF Ready
    <2> QED
      BY <1>1, <2>1, <2>3, <2>4 DEF Result
  <1> QED
    BY <1>4, <1>5, <1>6

\* Every operation on a handle starts with cursor_init: when it succeeds the
\* handle can be used as it is.
LEMMA InitKnown ==
  ASSUME NEW x, NEW s, Known(x, s)
  PROVE  LET r == cursor_init(x, s) IN
         /\ Near(x, r.x, s) /\ View(r.x, s)
         /\ r.rc = "SUCCESS" => Ready(r.x, s)
  <1> DEFINE c == dbi_check(x, s)
             r == Fresh(c, s)
  <1>1. cursor_init(x, s) = r
    BY DEF cursor_init
  <1>2. /\ Near(x, c.x, s) /\ View(c.x, s)
        /\ c.rc = "SUCCESS" => /\ {"LINDO", "VALID"} \subseteq c.x.state[s]
                               /\ c.x.seqs[s] = env[s].seq
    BY CheckKnown DEF Checked1
  <1> HIDE DEF c
  <1>3. CASE c.rc = "SUCCESS" /\ "STALE" \in c.x.state[s]
    <2>1. r = tbl_refresh(c.x, s)
      BY <1>3 DEF Fresh
    <2>2. Known(c.x, s)
      BY <1>2, <1>3 DEF Known, Near, Settled, View, Sane
    <2> HIDE DEF r
    <2>3. /\ Near(c.x, r.x, s) /\ View(r.x, s)
          /\ r.rc = "SUCCESS" => Ready(r.x, s)
      BY <1>2, <1>3, <2>1, <2>2, RefreshKnown
    <2>4. Near(x, r.x, s)
      BY <1>2, <2>3, NearTwice
    <2> QED
      BY <1>1, <2>3, <2>4
  <1>4. CASE ~(c.rc = "SUCCESS" /\ "STALE" \in c.x.state[s])
    <2>1. r = c
      BY <1>4 DEF Fresh
    <2> QED
      BY <1>1, <1>2, <1>4, <2>1 DEF Ready
  <1> QED
    BY <1>3, <1>4

-----------------------------------------------------------------------------
(* Steps that leave the slots alone.                                       *)

\* The invariant of the slots speaks of the lock's holder only.
LEMMA SlotsKept ==
  ASSUME SlotsInv, env' = env, n_dbi' = n_dbi, lock' = lock,
         lock # None => op'[lock] = op[lock] /\ txn'[lock] = txn[lock]
  PROVE  /\ SlotsInv'
         /\ \A s \in Slots : (Busy(s)' <=> Busy(s)) /\ (Shuts(s)' <=> Shuts(s))
         /\ \A t \in Threads, s \in Slots : Enrols(t, s)' <=> Enrols(t, s)
  <1>1. \A s \in Slots : (Busy(s)' <=> Busy(s)) /\ (Shuts(s)' <=> Shuts(s))
    BY DEF Busy, Shuts, Slot, Todo
  <1>2. \A t \in Threads, s \in Slots : Enrols(t, s)' <=> Enrols(t, s)
    BY DEF Enrols, Slot, Todo, Target, Threads, None
  <1>3. lock # None => op'[lock].pc = "store" /\ Holder(lock)'
    <2>1. SUFFICES ASSUME lock # None
                   PROVE  op'[lock].pc = "store" /\ Holder(lock)'
      OBVIOUS
    <2>2. op[lock].pc = "store" /\ Holder(lock)
      BY <2>1 DEF SlotsInv
    <2>3. lock' = lock /\ op'[lock] = op[lock] /\ txn'[lock] = txn[lock] /\ env' = env
      BY <2>1
    <2>4. Slot(lock)' = Slot(lock) /\ Todo(lock)' = Todo(lock)
      BY <2>3 DEF Slot, Todo
    <2>5. Holder(lock)'
      BY ONLY <2>2, <2>3, <2>4, SMTT(30) DEF Holder
    <2> QED
      BY <2>2, <2>3, <2>5
  <1>4. SlotsInv'
    BY <1>1, <1>3 DEF SlotsInv
  <1> QED
    BY <1>1, <1>2, <1>4

\* What a thread does with its transaction while another one, or nobody, has
\* the lock.
LEMMA TxnStep ==
  ASSUME Types, SlotsInv, Views, Writes, NEW t \in Threads, lock # t, NEW y \in TxnType,
         txn' = [txn EXCEPT ![t] = y], env' = env, n_dbi' = n_dbi, lock' = lock,
         lock # None => op'[lock] = op[lock], DOMAIN op' = Threads,
         tables' \in Mains, lastId' \in Nat,
         y.active => \A s \in Slots : View(y, s),
         t = "w" => y.cursors = {},
         t = "r" => (wrote' = wrote /\ \A s \in Slots : y.state[s] \cap {"SLAIN", "DIRTY"} = {}),
         t = "w" /\ y.active =>
            /\ \A s \in Slots : "DIRTY" \in y.state[s] => Changed(y, s)
            /\ \A id \in wrote' : \E s \in Slots :
                  "DIRTY" \in y.state[s] /\ y.dbs[s].id = id /\ y.dbs[s].full
  PROVE  Types' /\ SlotsInv' /\ Views' /\ Writes'
  <1>1. txn'[t] = y /\ \A u \in Threads : u # t => txn'[u] = txn[u]
    BY DEF Types
  <1>2. lock # None => txn'[lock] = txn[lock]
    BY <1>1 DEF SlotsInv
  <1>3. /\ SlotsInv'
        /\ \A s \in Slots : (Busy(s)' <=> Busy(s)) /\ (Shuts(s)' <=> Shuts(s))
        /\ \A u \in Threads, s \in Slots : Enrols(u, s)' <=> Enrols(u, s)
    BY <1>2, SlotsKept
  <1>4. Types'
    BY <1>1 DEF Types, Threads
  <1>5. Views'
    <2>1. SUFFICES ASSUME NEW u \in Threads, NEW s \in Slots, txn'[u].active
                   PROVE  View(txn[u], s)' \/ (Enrols(u, s)' /\ Sane(txn'[u].state[s]))
      BY DEF Views
    <2>2. CASE u = t
      BY <1>1, <1>3, <2>1, <2>2 DEF View
    <2>3. CASE u # t
      BY <1>1, <1>3, <2>1, <2>3 DEF View, Views
    <2> QED
      BY <2>2, <2>3
  <1>6. Writes'
    <2>1. CASE t = "w"
      BY <1>1, <1>3, <2>1 DEF Writes, Changed, Written1, Threads
    <2>2. CASE t = "r"
      BY <1>1, <1>3, <2>2 DEF Writes, Changed, Written1, Threads
    <2> QED
      BY <2>1, <2>2 DEF Threads
  <1> QED
    BY <1>3, <1>4, <1>5, <1>6

\* The other thread's call is where it was.
LEMMA OthersOp ==
  ASSUME Ops, NEW u \in Threads, op'[u] = op[u], txn'[u] = txn[u], env' = env,
         lock = u => lock' = u
  PROVE  OpInv(u)'
BY DEF Ops, OpInv, OpenInv, Unusable

\* Whoever does not store does not hold the lock, and knows every slot rightly.
LEMMA Knows ==
  ASSUME Types, SlotsInv, Views, Writes, NEW t \in Threads, txn[t].active, op[t].pc # "store"
  PROVE  /\ lock # t /\ \A s \in Slots : ~Enrols(t, s) /\ Known(txn[t], s)
         /\ t = "w" => \A s \in Slots : "DIRTY" \in txn[t].state[s] =>
                          txn[t].seqs[s] = env[s].seq /\ env[s].flags = "plain" /\ ~Busy(s)
  <1>1. lock # t
    BY DEF SlotsInv, Threads, None
  <1>2. \A s \in Slots : ~Enrols(t, s)
    BY <1>1 DEF Enrols
  <1>3. \A s \in Slots : View(txn[t], s)
    BY <1>2 DEF Views
  <1>4. t = "w" => \A s \in Slots : "DIRTY" \in txn[t].state[s] =>
                          txn[t].seqs[s] = env[s].seq /\ env[s].flags = "plain" /\ ~Busy(s)
    BY <1>2 DEF Writes, Changed
  <1>5. \A s \in Slots : Settled(txn[t], s)
    <2>1. CASE t = "w"
      BY <1>4, <2>1 DEF Settled
    <2>2. CASE t = "r"
      BY <2>2 DEF Settled, Types
    <2> QED
      BY <2>1, <2>2 DEF Threads
  <1>6. \A s \in Slots : Known(txn[t], s)
    BY <1>3, <1>5, DbiAssumption DEF Known, Types, SlotsInv
  <1> QED
    BY <1>1, <1>2, <1>4, <1>6

\* An operation on one slot.
LEMMA NearFacts ==
  ASSUME Types, SlotsInv, Views, Writes, NEW t \in Threads, txn[t].active, op[t].pc # "store",
         NEW s \in Slots, NEW y, Near(txn[t], y, s), View(y, s)
  PROVE  /\ lock # t /\ y \in TxnType /\ \A u \in Slots : View(y, u)
         /\ t = "w" => y.cursors = {}
         /\ t = "r" => \A u \in Slots : y.state[u] \cap {"SLAIN", "DIRTY"} = {}
         /\ t = "w" =>
              /\ \A u \in Slots : "DIRTY" \in y.state[u] => Changed(y, u)
              /\ \A id \in wrote : \E u \in Slots :
                    "DIRTY" \in y.state[u] /\ y.dbs[u].id = id /\ y.dbs[u].full
  <1>1. /\ lock # t /\ \A u \in Slots : ~Enrols(t, u) /\ Known(txn[t], u)
        /\ t = "w" => \A u \in Slots : "DIRTY" \in txn[t].state[u] =>
                          txn[t].seqs[u] = env[u].seq /\ env[u].flags = "plain" /\ ~Busy(u)
    BY Knows
  <1>2. y \in TxnType
    BY DEF Near
  <1>3. \A u \in Slots : View(y, u)
    <2>1. SUFFICES ASSUME NEW u \in Slots, u # s
                   PROVE  View(y, u)
      OBVIOUS
    <2>2. View(txn[t], u)
      BY <1>1 DEF Known
    <2> QED
      BY <2>1, <2>2 DEF Near, View
  <1>4. t = "w" => y.cursors = {}
    BY DEF Near, Types
  <1>5. t = "r" => \A u \in Slots : y.state[u] \cap {"SLAIN", "DIRTY"} = {}
    <2>1. SUFFICES ASSUME t = "r", NEW u \in Slots
                   PROVE  y.state[u] \cap {"SLAIN", "DIRTY"} = {}
      OBVIOUS
    <2>2. txn[t].state[u] \cap {"SLAIN", "DIRTY"} = {}
      BY <2>1 DEF Types
    <2> QED
      BY <2>2 DEF Near
  <1>6. \A u \in Slots : "DIRTY" \in txn[t].state[u] <=> "DIRTY" \in y.state[u]
    BY DEF Near
  <1>7. \A u \in Slots : "DIRTY" \in txn[t].state[u] =>
           y.state[u] = txn[t].state[u] /\ y.seqs[u] = txn[t].seqs[u] /\ y.dbs[u] = txn[t].dbs[u]
    BY DEF Near
  <1>8. t = "w" =>
            /\ \A u \in Slots : "DIRTY" \in y.state[u] => Changed(y, u)
            /\ \A id \in wrote : \E u \in Slots :
                  "DIRTY" \in y.state[u] /\ y.dbs[u].id = id /\ y.dbs[u].full
    BY <1>1, <1>6, <1>7 DEF Changed, Writes, Written1
  <1> QED
    BY <1>1, <1>2, <1>3, <1>4, <1>5, <1>8

LEMMA NearStep ==
  ASSUME Types, SlotsInv, Views, Writes, NEW t \in Threads, txn[t].active, op[t].pc # "store",
         NEW s \in Slots, NEW y, Near(txn[t], y, s), View(y, s),
         txn' = [txn EXCEPT ![t] = y], env' = env, n_dbi' = n_dbi, lock' = lock,
         lock # None => op'[lock] = op[lock], DOMAIN op' = Threads,
         tables' = tables, lastId' = lastId, wrote' = wrote
  PROVE  Types' /\ SlotsInv' /\ Views' /\ Writes'
  <1>1. /\ lock # t /\ y \in TxnType /\ \A u \in Slots : View(y, u)
        /\ t = "w" => y.cursors = {}
        /\ t = "r" => \A u \in Slots : y.state[u] \cap {"SLAIN", "DIRTY"} = {}
        /\ t = "w" =>
              /\ \A u \in Slots : "DIRTY" \in y.state[u] => Changed(y, u)
              /\ \A id \in wrote : \E u \in Slots :
                    "DIRTY" \in y.state[u] /\ y.dbs[u].id = id /\ y.dbs[u].full
    BY NearFacts
  <1> QED
    BY <1>1, TxnStep DEF Types

\* A step that changes nothing but what its thread is doing.
LEMMA CallStep ==
  ASSUME Types, SlotsInv, Views, Writes, UNCHANGED <<env, n_dbi, lock, txn, tables, lastId, wrote>>,
         lock # None => op'[lock] = op[lock], DOMAIN op' = Threads
  PROVE  Types' /\ SlotsInv' /\ Views' /\ Writes'
  <1>1. /\ SlotsInv'
        /\ \A s \in Slots : (Busy(s)' <=> Busy(s)) /\ (Shuts(s)' <=> Shuts(s))
        /\ \A u \in Threads, s \in Slots : Enrols(u, s)' <=> Enrols(u, s)
    BY SlotsKept
  <1>2. Types'
    BY DEF Types
  <1>3. Views'
    BY <1>1 DEF Views, View
  <1>4. Writes'
    BY <1>1 DEF Writes, Changed, Written1, Threads
  <1> QED
    BY <1>1, <1>2, <1>3, <1>4

\* What is left to show when thread t takes a step in its call.
LEMMA OpsStep ==
  ASSUME Ops, DOMAIN op = Threads, NEW t \in Threads, NEW o, op' = [op EXCEPT ![t] = o],
         \A u \in Threads : u # t => txn'[u] = txn[u], env' = env, lock' = lock,
         OpInv(t)'
  PROVE  Ops'
  <1>1. SUFFICES ASSUME NEW u \in Threads, u # t
                 PROVE  OpInv(u)'
    BY DEF Ops
  <1>2. op'[u] = op[u] /\ txn'[u] = txn[u]
    BY <1>1
  <1> QED
    BY <1>1, <1>2, OthersOp

LEMMA IdleOp ==
  ASSUME NEW t \in Threads, op'[t] = Idle
  PROVE  OpInv(t)'
BY DEF OpInv, Idle

\* The call goes on under the lock.
LEMMA SlowOp ==
  ASSUME Ops, NEW t \in Threads, op[t].pc \in {"scan", "name", "check", "bind"},
         DOMAIN op = Threads, NEW k \in Nat, k <= MaxDbi, SlowPath(t, k),
         txn'[t].active, txn'[t].main = txn[t].main, txn'[t].cursors \subseteq txn[t].cursors
  PROVE  OpInv(t)'
  <1>1. OpenInv(t)
    BY DEF Ops, OpInv
  <1>2. op'[t] = [op[t] EXCEPT !.pc = "slow", !.fast = k, !.snap = FreeSlot]
    BY DEF SlowPath
  <1>3. FreeSlot \in SlotType
    BY DEF FreeSlot, SlotType
  <1>4. op'[t] \in ScanType /\ op'[t].pc = "slow" /\ op'[t].fast = k
        /\ op'[t].name = op[t].name /\ op'[t].a = op[t].a
    BY <1>1, <1>2, <1>3 DEF OpenInv, ScanType
  <1>5. t = "r" => ~op'[t].a.create /\ txn'[t].main[op'[t].name] # NoTable /\ txn'[t].cursors = {}
    BY <1>1, <1>4 DEF OpenInv
  <1> QED
    BY <1>4, <1>5 DEF OpInv, OpenInv, NoTable

LEMMA OpenStep ==
  ASSUME Inv, Careful, NEW t \in Threads, NEW n \in Names, NEW f \in Flags, NEW k \in Modes,
         Open(t, n, [flags |-> f, accede |-> k = "accede", create |-> k = "create"])
  PROVE  Inv'
  <1> DEFINE a == [flags |-> f, accede |-> k = "accede", create |-> k = "create"]
             o == [pc |-> "scan", name |-> n, a |-> a, i |-> 1,
                   free |-> n_dbi + 1, fast |-> 0, snap |-> FreeSlot]
  <1>1. /\ op[t].pc = "idle" /\ txn[t].active /\ op' = [op EXCEPT ![t] = o]
        /\ UNCHANGED <<env, n_dbi, lock, txn, tables, lastId, wrote, lost>>
    BY DEF Open
  <1>2. a.flags = "plain" /\ t = "r" => txn[t].main[n] # NoTable /\ txn[t].cursors = {}
    BY DEF Open, Sensible
  <1>3. f = "plain" /\ a \in Asked
    BY DEF Open, Sensible, Asked
  <1>4. t = "r" => ~a.create
    BY DEF Open
  <1>5. o \in ScanType
    BY <1>3, DbiAssumption DEF ScanType, FreeSlot, SlotType, Inv, SlotsInv
  <1>6. o.free \in 1 .. MaxDbi + 1 /\ (o.free \in Slots => Unusable(txn[t], o.free))
    <2>1. n_dbi \in 0 .. MaxDbi /\ MaxDbi \in Nat
      BY DbiAssumption DEF Inv, SlotsInv
    <2>2. n_dbi + 1 \in Slots => env[n_dbi + 1].flags # "plain"
      BY <2>1 DEF Inv, SlotsInv, Free
    <2> QED
      BY <2>1, <2>2 DEF Unusable
  <1>7. o.pc = "scan" /\ o.i # 0 /\ o.name = n /\ o.a = a
    OBVIOUS
  <1> HIDE DEF o, a
  <1>8. op'[t] = o
    BY <1>1 DEF Inv, Types
  <1>9. OpInv(t)'
    BY <1>1, <1>2, <1>3, <1>4, <1>5, <1>6, <1>7, <1>8 DEF OpInv, OpenInv, Unusable, NoTable, a
  <1>10. lock # None => op'[lock] = op[lock]
    BY <1>1 DEF Inv, SlotsInv, Types
  <1>11. DOMAIN op' = Threads
    BY <1>1 DEF Inv, Types
  <1>12. Ops'
    BY <1>1, <1>9, OpsStep DEF Inv, Types
  <1> QED
    BY <1>1, <1>10, <1>11, <1>12, CallStep DEF Inv

LEMMA ScanSlotStep ==
  ASSUME Inv, NEW t \in Threads, ScanSlot(t)
  PROVE  Inv'
  <1> DEFINE i == op[t].i
  <1>1. /\ op[t].pc = "scan" /\ i <= n_dbi
        /\ UNCHANGED <<env, n_dbi, lock, txn, tables, lastId, wrote, lost>>
    BY DEF ScanSlot, Pure
  <1>2. OpenInv(t)
    BY <1>1 DEF Inv, Ops, OpInv
  <1>3. i \in Slots /\ i \in Nat /\ i # 0 /\ env[i] \in SlotType /\ op[t] \in ScanType
    BY <1>1, <1>2, DbiAssumption DEF OpenInv, ScanType, Slots, Inv, SlotsInv
  <1>4. CASE ~Valid(i)
    <2> DEFINE m == Min({op[t].free, i})
               o == [op[t] EXCEPT !.i = i + 1, !.free = m]
    <2>1. op' = [op EXCEPT ![t] = o]
      BY <1>4 DEF ScanSlot
    <2>2. m = op[t].free \/ m = i
      <3>1. {op[t].free, i} \in SUBSET Nat /\ {op[t].free, i} # {}
        BY <1>3 DEF ScanType
      <3> QED
        BY <3>1, MinOf
    <2>3. Unusable(txn[t], i)
      BY <1>3, <1>4, ValidIsPlain DEF Unusable
    <2>4. m \in 1 .. MaxDbi + 1 /\ (m \in Slots => Unusable(txn[t], m)) /\ m \in Nat
      <3>1. CASE m = i
        BY <1>3, <2>3, <3>1, DbiAssumption DEF Slots
      <3>2. CASE m = op[t].free
        BY <1>1, <1>2, <3>2, DbiAssumption DEF OpenInv
      <3> HIDE DEF m
      <3> QED
        BY <2>2, <3>1, <3>2
    <2> HIDE DEF m
    <2>5. o \in ScanType /\ o.pc = "scan" /\ o.i # 0 /\ o.free = m /\ o.name = op[t].name
          /\ o.a = op[t].a
      <3>1. i + 1 \in Nat /\ i + 1 # 0
        BY <1>3
      <3> QED
        BY <1>1, <1>3, <2>4, <3>1 DEF ScanType
    <2> HIDE DEF o
    <2>6. op'[t] = o /\ DOMAIN op' = Threads /\ (lock # None => op'[lock] = op[lock])
      BY <1>1, <2>1 DEF Inv, Types, SlotsInv
    <2>7. OpInv(t)'
      BY <1>1, <1>2, <2>4, <2>5, <2>6 DEF OpInv, OpenInv, Unusable, NoTable
    <2>8. Ops'
      BY <1>1, <2>1, <2>7, OpsStep DEF Inv, Types
    <2> QED
      BY <1>1, <2>6, <2>8, CallStep DEF Inv
  <1>5. CASE Valid(i)
    <2> DEFINE o == [op[t] EXCEPT !.pc = "name", !.snap = env[i]]
    <2>1. op' = [op EXCEPT ![t] = o]
      BY <1>5 DEF ScanSlot
    <2>2. env[i].flags = "plain"
      BY <1>3, <1>5, ValidIsPlain
    <2>3. o \in ScanType /\ o.pc = "name" /\ o.i = i /\ o.free = op[t].free /\ o.name = op[t].name
          /\ o.a = op[t].a /\ o.snap = env[i]
      BY <1>1, <1>3 DEF ScanType
    <2> HIDE DEF o
    <2>4. op'[t] = o /\ DOMAIN op' = Threads /\ (lock # None => op'[lock] = op[lock])
      BY <1>1, <2>1 DEF Inv, Types, SlotsInv
    <2>5. OpInv(t)'
      BY <1>1, <1>2, <1>3, <2>2, <2>3, <2>4 DEF OpInv, OpenInv, Unusable, NoTable
    <2>6. Ops'
      BY <1>1, <2>1, <2>5, OpsStep DEF Inv, Types
    <2> QED
      BY <1>1, <2>4, <2>6, CallStep DEF Inv
  <1> QED
    BY <1>4, <1>5

LEMMA MatchNameStep ==
  ASSUME Inv, NEW t \in Threads, MatchName(t)
  PROVE  Inv'
  <1>1. /\ op[t].pc = "name" /\ UNCHANGED <<env, n_dbi, lock, txn, tables, lastId, wrote, lost>>
    BY DEF MatchName, Pure
  <1>2. OpenInv(t) /\ op[t] \in ScanType /\ DOMAIN op = Threads /\ txn[t].active
    BY <1>1 DEF Inv, Ops, OpInv, OpenInv, Types
  <1>3. /\ \E o : op' = [op EXCEPT ![t] = o]
        /\ OpInv(t)'
    <2>1. CASE SlowPath(t, 0)
      <3>1. op' = [op EXCEPT ![t] = [op[t] EXCEPT !.pc = "slow", !.fast = 0, !.snap = FreeSlot]]
        BY <2>1 DEF SlowPath
      <3>2. 0 \in Nat /\ 0 <= MaxDbi /\ Ops
        BY DbiAssumption DEF Inv
      <3>3. OpInv(t)'
        BY <1>1, <1>2, <2>1, <3>2, SlowOp
      <3> QED
        BY <3>1, <3>3
    <2>2. CASE NextSlot(t)
      <3> DEFINE o == [op[t] EXCEPT !.pc = "scan", !.i = @ + 1, !.snap = FreeSlot]
      <3>1. op' = [op EXCEPT ![t] = o]
        BY <2>2 DEF NextSlot
      <3>2. FreeSlot \in SlotType
        BY DEF FreeSlot, SlotType
      <3>3. o \in ScanType /\ o.pc = "scan" /\ o.i = op[t].i + 1 /\ o.free = op[t].free
            /\ o.name = op[t].name /\ o.a = op[t].a
        <4>1. op[t].i + 1 \in Nat
          BY <1>2 DEF ScanType
        <4> QED
          BY <1>2, <3>2, <4>1 DEF ScanType
      <3>4. o.i # 0
        BY <1>2, <3>3 DEF ScanType
      <3> HIDE DEF o
      <3>5. op'[t] = o
        BY <1>2, <3>1
      <3> QED
        BY <1>1, <1>2, <3>1, <3>3, <3>4, <3>5 DEF OpInv, OpenInv, Unusable, NoTable
    <2>3. CASE op[t].snap.name = op[t].name /\ op' = [op EXCEPT ![t].pc = "check"]
      <3> DEFINE o == [op[t] EXCEPT !.pc = "check"]
      <3>1. op' = [op EXCEPT ![t] = o]
        BY <2>3
      <3>2. o \in ScanType /\ o.pc = "check" /\ o.i = op[t].i /\ o.snap = op[t].snap
            /\ o.name = op[t].name /\ o.a = op[t].a
        BY <1>2 DEF ScanType
      <3> HIDE DEF o
      <3>3. op'[t] = o
        BY <1>2, <3>1
      <3> QED
        BY <1>1, <1>2, <2>3, <3>1, <3>2, <3>3 DEF OpInv, OpenInv, Unusable, NoTable
    <2>4. \/ op[t].snap.name = None \/ ~Unmoved(t)
          \/ Unmoved(t) /\ op[t].snap.name \notin {None, op[t].name}
          \/ Unmoved(t) /\ op[t].snap.name = op[t].name
      OBVIOUS
    <2> QED
      BY <2>1, <2>2, <2>3, <2>4 DEF MatchName
  <1>4. DOMAIN op' = Threads /\ (lock # None => op'[lock] = op[lock])
    BY <1>1, <1>2, <1>3 DEF Inv, SlotsInv
  <1>5. Ops'
    BY <1>1, <1>2, <1>3, OpsStep DEF Inv
  <1> QED
    BY <1>1, <1>4, <1>5, CallStep DEF Inv

\* The steps of a scan that look at one slot of the transaction: they return
\* or go on.
LEMMA ScanStep ==
  ASSUME Inv, NEW t \in Threads, op[t].pc \in {"scan", "check", "bind"}, txn[t].active,
         NEW s \in Slots, NEW y, Near(txn[t], y, s), View(y, s),
         txn' = [txn EXCEPT ![t] = y], Pure,
         Return(t) \/ (\E k \in Nat : k <= MaxDbi /\ SlowPath(t, k))
  PROVE  Inv'
  <1>1. DOMAIN op = Threads /\ lock # t /\ txn'[t] = y
        /\ \A u \in Threads : u # t => txn'[u] = txn[u]
    BY DEF Inv, Types, Ops, OpInv, SlotsInv, Threads, None
  <1>2. y.active /\ y.main = txn[t].main /\ y.cursors \subseteq txn[t].cursors
    BY DEF Near
  <1>3. (\E o : op' = [op EXCEPT ![t] = o]) /\ OpInv(t)'
    <2>1. CASE Return(t)
      <3>1. op' = [op EXCEPT ![t] = Idle]
        BY <2>1 DEF Return
      <3>2. op'[t] = Idle
        BY <1>1, <3>1
      <3> QED
        BY <3>1, <3>2, IdleOp
    <2>2. CASE \E k \in Nat : k <= MaxDbi /\ SlowPath(t, k)
      <3>1. PICK k \in Nat : k <= MaxDbi /\ SlowPath(t, k)
        BY <2>2
      <3>2. op' = [op EXCEPT ![t] = [op[t] EXCEPT !.pc = "slow", !.fast = k, !.snap = FreeSlot]]
        BY <3>1 DEF SlowPath
      <3>3. op[t].pc \in {"scan", "name", "check", "bind"} /\ Ops
        BY DEF Inv
      <3>4. OpInv(t)'
        BY <1>1, <1>2, <3>1, <3>3, SlowOp
      <3> QED
        BY <3>2, <3>4
    <2> QED
      BY <2>1, <2>2
  <1>4. DOMAIN op' = Threads /\ (lock # None => op'[lock] = op[lock])
    BY <1>1, <1>3 DEF Inv, SlotsInv
  <1>5. UNCHANGED <<env, n_dbi, lock, tables, lastId, wrote, lost>>
    BY DEF Pure
  <1>6. Ops'
    BY <1>1, <1>3, <1>5, OpsStep DEF Inv
  <1>7. Types' /\ SlotsInv' /\ Views' /\ Writes'
    BY <1>4, <1>5, NearStep DEF Inv
  <1> QED
    BY <1>5, <1>6, <1>7 DEF Inv

LEMMA CheckSlotStep ==
  ASSUME Inv, NEW t \in Threads, CheckSlot(t)
  PROVE  Inv'
  <1> DEFINE i == op[t].i
             r == dbi_check(txn[t], i)
  <1>1. op[t].pc = "check" /\ Pure /\ Checked(t, r, r.x.state[i])
    BY DEF CheckSlot, CheckedAs
  <1>2. OpenInv(t) /\ op[t] \in ScanType /\ txn[t].active /\ i \in Slots /\ DOMAIN op = Threads
    BY <1>1 DEF Inv, Ops, OpInv, OpenInv, Types
  <1>3. Known(txn[t], i) /\ lock # t
    BY <1>1, <1>2, Knows DEF Inv
  <1>4. Near(txn[t], r.x, i) /\ View(r.x, i)
    BY <1>3, CheckKnown DEF Checked1
  <1> HIDE DEF r
  <1>5. txn' = [txn EXCEPT ![t] = r.x]
    BY <1>1 DEF Checked
  <1>6. Return(t) \/ SlowPath(t, 0) \/ op' = [op EXCEPT ![t].pc = "bind"]
    BY <1>1 DEF Checked
  <1>7. CASE Return(t) \/ SlowPath(t, 0)
    <2>1. Return(t) \/ (\E k \in Nat : k <= MaxDbi /\ SlowPath(t, k))
      BY <1>7, DbiAssumption
    <2> QED
      BY <1>1, <1>2, <1>4, <1>5, <2>1, ScanStep
  <1>8. CASE op' = [op EXCEPT ![t].pc = "bind"]
    <2> DEFINE o == [op[t] EXCEPT !.pc = "bind"]
    <2>1. op' = [op EXCEPT ![t] = o]
      BY <1>8
    <2>2. o \in ScanType /\ o.pc = "bind" /\ o.i = op[t].i /\ o.snap = op[t].snap
          /\ o.name = op[t].name /\ o.a = op[t].a
      BY <1>2 DEF ScanType
    <2> HIDE DEF o
    <2>3. op'[t] = o /\ txn'[t] = r.x /\ \A u \in Threads : u # t => txn'[u] = txn[u]
      BY <1>2, <1>5, <2>1 DEF Inv, Types
    <2>4. r.x.active /\ r.x.main = txn[t].main /\ r.x.cursors \subseteq txn[t].cursors
      BY <1>2, <1>4 DEF Near
    <2>5. t = "r" => ~o.a.create /\ r.x.main[o.name] # NoTable /\ r.x.cursors = {}
      BY <1>2, <2>2, <2>4 DEF OpenInv
    <2>6. OpInv(t)'
      BY <1>1, <1>2, <2>2, <2>3, <2>4, <2>5 DEF OpInv, OpenInv, NoTable
    <2>7. UNCHANGED <<env, n_dbi, lock, tables, lastId, wrote, lost>>
      BY <1>1 DEF Pure
    <2>8. Ops'
      BY <1>2, <2>1, <2>3, <2>6, <2>7, OpsStep DEF Inv
    <2>9. DOMAIN op' = Threads /\ (lock # None => op'[lock] = op[lock])
      BY <1>2, <1>3, <2>1 DEF Inv, SlotsInv
    <2>10. Types' /\ SlotsInv' /\ Views' /\ Writes'
      BY <1>1, <1>2, <1>4, <1>5, <2>7, <2>9, NearStep DEF Inv
    <2> QED
      BY <2>7, <2>8, <2>10 DEF Inv
  <1> QED
    BY <1>6, <1>7, <1>8

LEMMA BindSlotStep ==
  ASSUME Inv, NEW t \in Threads, BindSlot(t)
  PROVE  Inv'
  <1> DEFINE i == op[t].i
             a == op[t].a
             n == op[t].name
             x == txn[t]
             b == dbi_bind(x, i, a)
             f == tbl_fetch(x, i, n, a)
  <1>1. op[t].pc = "bind" /\ Pure
        /\ IF Unmoved(t) THEN BoundFast(t, i, b) ELSE SlowPath(t, 0) /\ txn' = txn
    BY DEF BindSlot
  <1>2. OpenInv(t) /\ op[t] \in ScanType /\ x.active /\ i \in Slots /\ DOMAIN op = Threads
        /\ x \in TxnType /\ n \in Names /\ a.flags = "plain" /\ op[t].snap.flags = "plain"
        /\ op[t].snap.name = n
    BY <1>1 DEF Inv, Ops, OpInv, OpenInv, Types, ScanType, Asked
  <1>3. Known(x, i) /\ lock # t
    BY <1>1, <1>2, Knows DEF Inv
  <1>4. Near(x, x, i) /\ View(x, i) /\ [txn EXCEPT ![t] = x] = txn
    BY <1>2, <1>3, NearItself DEF Known, Inv, Types
  <1>5. CASE ~Unmoved(t)
    <2>1. \E k \in Nat : k <= MaxDbi /\ SlowPath(t, k)
      BY <1>1, <1>5, DbiAssumption
    <2>2. txn' = [txn EXCEPT ![t] = x]
      BY <1>1, <1>4, <1>5
    <2> HIDE DEF x
    <2> QED
      BY <1>1, <1>2, <1>4, <2>1, <2>2, ScanStep DEF x
  <1>6. CASE Unmoved(t)
    <2>1. env[i].flags = "plain" /\ env[i].name = n
      BY <1>2, <1>6 DEF Unmoved
    <2>2. b = Result("SUCCESS", x)
      BY <1>2, <2>1 DEF dbi_bind
    <2>3. BoundFast(t, i, Result("SUCCESS", x))
      BY <1>1, <1>6, <2>2
    <2>4. CASE "STALE" \notin x.state[i]
      <3>1. Return(t) /\ txn' = [txn EXCEPT ![t] = x]
        BY <2>3, <2>4 DEF BoundFast, Result
      <3> HIDE DEF x
      <3> QED
        BY <1>1, <1>2, <1>4, <3>1, ScanStep DEF x
    <2>5. CASE "STALE" \in x.state[i]
      <3>1. FetchedFast(t, i, f)
        BY <2>3, <2>5 DEF BoundFast, Result
      <3>2. \/ /\ n = None \/ (n \in Names /\ x.main[n] = NoTable)
               /\ f = Result("NOTFOUND", x)
            \/ /\ n \in Names /\ x.main[n] # NoTable /\ x.main[n].id # 0
               /\ f = Result("SUCCESS", [x EXCEPT !.dbs[i] = x.main[n]])
        <4> HIDE DEF x, i, n, a
        <4> QED
          BY <1>2, FetchKnown DEF f
      <3> HIDE DEF f
      <3>3. CASE f = Result("NOTFOUND", x)
        <4>1. SlowPath(t, i) /\ txn' = [txn EXCEPT ![t] = x]
          BY <3>1, <3>3 DEF FetchedFast, Result
        <4>2. \E k \in Nat : k <= MaxDbi /\ SlowPath(t, k)
          BY <1>2, <4>1, DbiAssumption DEF Slots
        <4> HIDE DEF x
        <4> QED
          BY <1>1, <1>2, <1>4, <4>1, <4>2, ScanStep DEF x
      <3>4. CASE /\ n \in Names /\ x.main[n] # NoTable /\ x.main[n].id # 0
                 /\ f = Result("SUCCESS", [x EXCEPT !.dbs[i] = x.main[n]])
        <4> DEFINE y == Unstale(x, i, n)
        <4>1. [x EXCEPT !.dbs[i] = x.main[n]].state = x.state
          BY <1>2 DEF TxnType
        <4>2. Return(t) /\ txn' = [txn EXCEPT ![t] = y]
          BY <3>1, <3>4, <4>1 DEF FetchedFast, Result, Unstale, Filled
        <4> HIDE DEF x, y, i, n
        <4>3. Near(x, y, i) /\ View(y, i)
          BY <1>2, <1>3, <2>1, <2>5, <3>4, FilledView DEF y
        <4> QED
          BY <1>1, <1>2, <4>2, <4>3, ScanStep DEF x
      <3> QED
        BY <3>2, <3>3, <3>4
    <2> QED
      BY <2>4, <2>5
  <1> QED
    BY <1>5, <1>6

LEMMA ScanEndStep ==
  ASSUME Inv, NEW t \in Threads, ScanEnd(t)
  PROVE  Inv'
  <1> DEFINE s == op[t].free
             a == op[t].a
             n == op[t].name
             x == txn[t]
             f == tbl_fetch(x, s, n, a)
  <1>1. op[t].pc = "scan" /\ Pure
    BY DEF ScanEnd
  <1>2. OpenInv(t) /\ op[t] \in ScanType /\ x.active /\ DOMAIN op = Threads
        /\ x \in TxnType /\ n \in Names /\ a.flags = "plain" /\ s \in Nat /\ s \in 1 .. MaxDbi + 1
    BY <1>1 DEF Inv, Ops, OpInv, OpenInv, Types, ScanType, Asked
  <1>3. lock # t /\ [txn EXCEPT ![t] = x] = txn /\ \A u \in Slots : Known(x, u)
    BY <1>1, <1>2, Knows DEF Inv, Types
  <1>4. CASE txn' = txn /\ (Return(t) \/ SlowPath(t, 0))
    <2>1. Return(t) \/ (\E k \in Nat : k <= MaxDbi /\ SlowPath(t, k))
      BY <1>4, DbiAssumption
    <2>2. txn' = [txn EXCEPT ![t] = x]
      BY <1>3, <1>4
    <2>3. 1 \in Slots
      BY DbiAssumption DEF Slots
    <2>4. Near(x, x, 1) /\ View(x, 1)
      BY <1>2, <1>3, <2>3, NearItself DEF Known
    <2> HIDE DEF x
    <2> QED
      BY <1>1, <1>2, <2>1, <2>2, <2>3, <2>4, ScanStep DEF x
  <1>5. CASE s <= MaxDbi /\ txn' = [txn EXCEPT ![t] = f.x]
             /\ IF f.rc = "SUCCESS" THEN SlowPath(t, s) ELSE Return(t)
    <2>1. s \in Slots
      BY <1>2, <1>5, DbiAssumption DEF Slots
    <2>2. \/ /\ n = None \/ (n \in Names /\ x.main[n] = NoTable)
             /\ f = Result("NOTFOUND", x)
          \/ /\ n \in Names /\ x.main[n] # NoTable /\ x.main[n].id # 0
             /\ f = Result("SUCCESS", Filled(x, s, n))
      <3> HIDE DEF x, s, n, a
      <3> QED
        BY <1>2, <2>1, FetchKnown DEF f, Filled
    <2> HIDE DEF f
    <2>3. Return(t) \/ (\E k \in Nat : k <= MaxDbi /\ SlowPath(t, k))
      BY <1>2, <1>5
    <2>4. CASE f = Result("NOTFOUND", x)
      <3>1. txn' = txn /\ Return(t)
        BY <1>3, <1>5, <2>4 DEF Result
      <3> QED
        BY <1>4, <3>1
    <2>5. CASE f = Result("SUCCESS", Filled(x, s, n))
      <3> DEFINE y == Filled(x, s, n)
      <3>1. txn' = [txn EXCEPT ![t] = y]
        BY <1>5, <2>5 DEF Result
      <3>2. x.main[n] \in TableType
        BY <1>2 DEF TxnType, Mains
      <3>3. y \in TxnType /\ y.main = x.main /\ y.active = x.active /\ y.error = x.error
            /\ y.cursors = x.cursors /\ y.state = x.state /\ y.seqs = x.seqs
            /\ \A u \in Slots : u # s => y.dbs[u] = x.dbs[u]
        <4> HIDE DEF s, n, x
        <4> QED
          BY <1>2, <2>1, <3>2 DEF Filled, TxnType
      <3>4. Unusable(x, s) /\ View(x, s) /\ Settled(x, s)
        BY <1>1, <1>2, <1>3, <2>1 DEF OpenInv, Known
      <3> HIDE DEF s, n, x, y
      <3>5. "DIRTY" \notin x.state[s]
        BY <3>4 DEF Unusable, View, Sane, Settled
      <3>6. Near(x, y, s)
        BY <3>3, <3>5 DEF Near
      <3>7. View(y, s)
        BY <3>3, <3>4 DEF View, Unusable
      <3> QED
        BY <1>1, <1>2, <2>1, <2>3, <3>1, <3>6, <3>7, ScanStep DEF x
    <2> QED
      BY <2>2, <2>4, <2>5
  <1>6. \/ txn' = txn /\ (Return(t) \/ SlowPath(t, 0))
        \/ s <= MaxDbi /\ txn' = [txn EXCEPT ![t] = f.x]
           /\ IF f.rc = "SUCCESS" THEN SlowPath(t, s) ELSE Return(t)
    <2>1. \/ s > MaxDbi \/ (s <= MaxDbi /\ a.create) \/ (s <= MaxDbi /\ ~a.create)
      BY <1>2, DbiAssumption
    <2> HIDE DEF f
    <2> QED
      BY <2>1 DEF ScanEnd, f
  <1> QED
    BY <1>4, <1>5, <1>6

-----------------------------------------------------------------------------
(* Transactions that begin, use a handle and end.                          *)

\* A thread that is in no call stays in none.
LEMMA IdleStep ==
  ASSUME Ops, NEW t \in Threads, op[t].pc = "idle", op' = op,
         \A u \in Threads : u # t => txn'[u] = txn[u], env' = env, lock' = lock
  PROVE  Ops'
  <1>1. \A u \in Threads : u # t => OpInv(u)'
    BY OthersOp
  <1>2. OpInv(t)'
    BY DEF OpInv
  <1> QED
    BY <1>1, <1>2 DEF Ops

LEMMA FreshTxn ==
  /\ NoTxn \in TxnType
  /\ NoTxn.active = FALSE /\ NoTxn.error = FALSE /\ NoTxn.cursors = {}
  /\ NoTxn.dbs = [s \in Slots |-> NoTable] /\ NoTxn.state = [s \in Slots |-> {}]
  /\ NoTxn.seqs = [s \in Slots |-> 0]
  <1>1. NoTable \in TableType
    BY DEF NoTable, TableType
  <1>2. [n \in Names |-> NoTable] \in Mains
    BY <1>1 DEF Mains
  <1> QED
    BY <1>1, <1>2 DEF NoTxn, TxnType

LEMMA BeginStep ==
  ASSUME Inv, NEW t \in Threads, Begin(t)
  PROVE  Inv'
  <1> DEFINE y == [NoTxn EXCEPT !.active = TRUE, !.main = tables]
  <1>1. /\ op[t].pc = "idle" /\ ~txn[t].active /\ txn' = [txn EXCEPT ![t] = y]
        /\ wrote' = IF t = "w" THEN {} ELSE wrote
        /\ UNCHANGED <<env, n_dbi, lock, op, tables, lastId, lost>>
    BY DEF Begin
  <1>2. tables \in Mains /\ NoTxn \in TxnType
    BY FreshTxn DEF Inv, Types
  <1>3. y \in TxnType /\ y.state = NoTxn.state /\ y.cursors = NoTxn.cursors
    BY <1>2 DEF TxnType
  <1> HIDE DEF y
  <1>4. \A s \in Slots : y.state[s] = {}
    BY <1>3, FreshTxn
  <1>5. y.cursors = {}
    BY <1>3, FreshTxn
  <1>6. \A s \in Slots : View(y, s) /\ y.state[s] = {}
    BY <1>4 DEF View, Sane
  <1>7. lock # t
    BY <1>1 DEF Inv, SlotsInv, Threads, None
  <1>8. Types' /\ SlotsInv' /\ Views' /\ Writes'
    <2>1. t = "w" => wrote' = {}
      BY <1>1
    <2>2. t = "r" => wrote' = wrote
      BY <1>1
    <2> QED
      BY <1>1, <1>3, <1>5, <1>6, <1>7, <2>1, <2>2, TxnStep DEF Inv, Types
  <1>9. Ops'
    <2>1. \A u \in Threads : u # t => txn'[u] = txn[u]
      BY <1>1 DEF Inv, Types
    <2> QED
      BY <1>1, <2>1, IdleStep DEF Inv
  <1> QED
    BY <1>1, <1>8, <1>9 DEF Inv

\* The transaction is over, the writer may still have slots to close.
LEMMA FinishStep ==
  ASSUME Inv, NEW t \in Threads, op[t].pc = "idle", NEW flag, Finish(t, txn[t], flag),
         tables' \in Mains, t = "r" => wrote' = wrote,
         UNCHANGED <<env, n_dbi, lock, lastId>>
  PROVE  Types' /\ SlotsInv' /\ Views' /\ Writes' /\ Ops'
  <1>1. lock # t /\ DOMAIN op = Threads /\ txn[t] \in TxnType
    BY DEF Inv, Types, SlotsInv, Threads, None
  <1>2. CASE t = "w" /\ Ended(txn[t], flag) # {}
    <2> DEFINE y == [txn[t] EXCEPT !.active = FALSE]
               o == [pc |-> "end", slots |-> Ended(txn[t], flag)]
    <2>1. txn' = [txn EXCEPT ![t] = y] /\ op' = [op EXCEPT ![t] = o]
      BY <1>2 DEF Finish
    <2>2. y \in TxnType /\ ~y.active /\ y.cursors = txn[t].cursors /\ y.state = txn[t].state
      BY <1>1 DEF TxnType
    <2>3. DOMAIN op' = Threads /\ (lock # None => op'[lock] = op[lock]) /\ op'[t] = o
          /\ txn'[t] = y /\ \A u \in Threads : u # t => txn'[u] = txn[u]
      BY <1>1, <2>1 DEF Inv, SlotsInv, Types
    <2>4. o.slots \subseteq Slots /\ o.pc = "end"
      BY DEF Ended
    <2> HIDE DEF y, o
    <2>5. Types' /\ SlotsInv' /\ Views' /\ Writes'
      BY <1>1, <1>2, <2>1, <2>2, <2>3, TxnStep DEF Inv, Types
    <2>6. OpInv(t)'
      BY <1>2, <2>2, <2>3, <2>4 DEF OpInv
    <2> QED
      BY <1>1, <2>1, <2>3, <2>5, <2>6, OpsStep DEF Inv
  <1>3. CASE ~(t = "w" /\ Ended(txn[t], flag) # {})
    <2>1. txn' = [txn EXCEPT ![t] = NoTxn] /\ op' = op
      BY <1>3 DEF Finish
    <2>2. NoTxn.active = FALSE /\ NoTxn.error = FALSE /\ NoTxn.cursors = {}
          /\ NoTxn.state = [s \in Slots |-> {}] /\ NoTxn \in TxnType
      BY FreshTxn
    <2>3. Types' /\ SlotsInv' /\ Views' /\ Writes'
      BY <1>1, <2>1, <2>2, TxnStep DEF Inv, Types
    <2>4. \A u \in Threads : u # t => txn'[u] = txn[u]
      BY <2>1 DEF Inv, Types
    <2> QED
      BY <2>1, <2>3, <2>4, IdleStep DEF Inv
  <1> QED
    BY <1>2, <1>3

LEMMA AbortStep ==
  ASSUME Inv, NEW t \in Threads, Abort(t)
  PROVE  Inv'
  <1>1. /\ op[t].pc = "idle" /\ Finish(t, txn[t], "CREAT")
        /\ wrote' = IF t = "w" THEN {} ELSE wrote
        /\ UNCHANGED <<env, n_dbi, lock, tables, lastId, lost>>
    BY DEF Abort
  <1>2. tables' \in Mains /\ (t = "r" => wrote' = wrote)
    BY <1>1 DEF Inv, Types
  <1>3. Types' /\ SlotsInv' /\ Views' /\ Writes' /\ Ops'
    BY <1>1, <1>2, FinishStep
  <1> QED
    BY <1>1, <1>3 DEF Inv

LEMMA CloseCursorStep ==
  ASSUME Inv, NEW t \in Threads, NEW s \in Slots, CloseCursor(t, s)
  PROVE  Inv'
  <1> DEFINE x == txn[t]
             y == [x EXCEPT !.cursors = @ \ {s}]
  <1>1. /\ op[t].pc = "idle" /\ x.active /\ txn' = [txn EXCEPT ![t] = y]
        /\ UNCHANGED <<env, n_dbi, lock, op, tables, lastId, wrote, lost>>
    BY DEF CloseCursor, Using
  <1>2. x \in TxnType /\ View(x, s) /\ s \in x.cursors
    BY <1>1, Knows DEF Inv, Known, CloseCursor
  <1>3. y \in TxnType /\ y.main = x.main /\ y.active = x.active /\ y.error = x.error
        /\ y.dbs = x.dbs /\ y.state = x.state /\ y.seqs = x.seqs /\ y.cursors \subseteq x.cursors
        /\ y.cursors = x.cursors \ {s}
    BY <1>2 DEF TxnType
  <1> HIDE DEF y
  <1>4. t = "w" => FALSE
    BY <1>2 DEF Inv, Types
  <1>5. View(y, s)
    BY <1>2, <1>3 DEF View
  <1>6. "DIRTY" \notin x.state[s]
    BY <1>4 DEF Inv, Types, Threads
  <1>7. Near(x, y, s)
    BY <1>3, <1>6 DEF Near
  <1>8. Types' /\ SlotsInv' /\ Views' /\ Writes'
    BY <1>1, <1>5, <1>7, NearStep DEF Inv, Types
  <1>9. Ops'
    <2>1. \A u \in Threads : u # t => txn'[u] = txn[u]
      BY <1>1 DEF Inv, Types
    <2> QED
      BY <1>1, <2>1, IdleStep DEF Inv
  <1> QED
    BY <1>1, <1>8, <1>9 DEF Inv

LEMMA GetStep ==
  ASSUME Inv, NEW t \in Threads, NEW s \in Slots, NEW keep \in BOOLEAN, Get(t, s, keep)
  PROVE  Inv'
  <1> DEFINE x == txn[t]
             r == cursor_init(x, s)
             c == IF r.rc = "SUCCESS" /\ keep THEN r.x.cursors \cup {s} ELSE r.x.cursors
             y == [r.x EXCEPT !.cursors = c]
  <1>1. /\ op[t].pc = "idle" /\ x.active /\ txn' = [txn EXCEPT ![t] = y]
        /\ UNCHANGED <<env, n_dbi, lock, op, tables, lastId, wrote, lost>>
        /\ keep => t = "r"
    BY DEF Get, Read, Using
  <1>2. Known(x, s)
    BY <1>1, Knows DEF Inv
  <1>3. Near(x, r.x, s) /\ View(r.x, s)
    BY <1>2, InitKnown
  <1>4. c \subseteq r.x.cursors \cup {s} /\ (t = "w" => c = r.x.cursors)
    BY <1>1 DEF Threads
  <1> HIDE DEF r, c
  <1>5. /\ lock # t /\ r.x \in TxnType /\ \A u \in Slots : View(r.x, u)
        /\ t = "w" => r.x.cursors = {}
        /\ t = "r" => \A u \in Slots : r.x.state[u] \cap {"SLAIN", "DIRTY"} = {}
        /\ t = "w" =>
              /\ \A u \in Slots : "DIRTY" \in r.x.state[u] => Changed(r.x, u)
              /\ \A id \in wrote : \E u \in Slots :
                    "DIRTY" \in r.x.state[u] /\ r.x.dbs[u].id = id /\ r.x.dbs[u].full
    BY <1>1, <1>3, NearFacts DEF Inv
  <1>6. y \in TxnType /\ y.main = r.x.main /\ y.dbs = r.x.dbs /\ y.state = r.x.state
        /\ y.seqs = r.x.seqs /\ y.cursors = c /\ y.active = r.x.active
    BY <1>4, <1>5 DEF TxnType
  <1> HIDE DEF y
  <1>7. \A u \in Slots : View(y, u)
    BY <1>5, <1>6 DEF View
  <1>8. t = "w" => \A u \in Slots : "DIRTY" \in y.state[u] => Changed(y, u)
    BY <1>5, <1>6 DEF Changed
  <1>9. Types' /\ SlotsInv' /\ Views' /\ Writes'
    <2>1. t = "w" => \A id \in wrote' : \E u \in Slots :
                        "DIRTY" \in y.state[u] /\ y.dbs[u].id = id /\ y.dbs[u].full
      BY <1>1, <1>5, <1>6
    <2>2. t = "w" => y.cursors = {}
      BY <1>4, <1>5, <1>6
    <2>3. t = "r" => (wrote' = wrote /\ \A u \in Slots : y.state[u] \cap {"SLAIN", "DIRTY"} = {})
      BY <1>1, <1>5, <1>6
    <2>4. DOMAIN op' = Threads /\ tables' \in Mains /\ lastId' \in Nat
      BY <1>1 DEF Inv, Types
    <2> QED
      BY <1>1, <1>5, <1>6, <1>7, <1>8, <2>1, <2>2, <2>3, <2>4, TxnStep DEF Inv
  <1>10. Ops'
    <2>1. \A u \in Threads : u # t => txn'[u] = txn[u]
      BY <1>1 DEF Inv, Types
    <2> QED
      BY <1>1, <2>1, IdleStep DEF Inv
  <1> QED
    BY <1>1, <1>9, <1>10 DEF Inv

\* While the writer is in no call and nobody is in mdbx_dbi_close for this
\* slot, a handle that is up to date has a slot that nobody touches.
LEMMA NotBusy ==
  ASSUME SlotsInv, op["w"].pc = "idle", NEW s \in Slots, ~Closing(s),
         env[s].flags = "plain" \/ Shuts(s)
  PROVE  env[s].flags = "plain" /\ ~Busy(s)
  <1>1. CASE lock = None
    BY <1>1 DEF Shuts, Busy
  <1>2. CASE lock = "r"
    <2>1. op["r"].pc = "store" /\ Holder("r") /\ lock # None
      BY <1>2 DEF SlotsInv, None
    <2>2. DOMAIN op["r"].jobs = 1 .. Len(op["r"].jobs) /\ 1 \in DOMAIN op["r"].jobs
          /\ Len(op["r"].jobs) \in Nat
      BY <2>1 DEF Holder
    <2>3. CASE op["r"].by = "close"
      <3>1. ~\E k \in DOMAIN op["r"].jobs : op["r"].jobs[k].slot = s
        BY <2>1, <2>3 DEF Closing, Threads
      <3> QED
        BY <1>2, <2>2, <3>1 DEF Shuts, Busy, Slot
    <2>4. CASE op["r"].by # "close"
      <3>1. Len(op["r"].jobs) = 1
        BY <2>1, <2>4 DEF Holder
      <3>2. env[Slot("r")].flags # "plain"
        <4>1. CASE Refusing(env[Slot("r")], Todo("r"))
          BY <4>1 DEF Refusing, Off, Mid, Free, POISON
        <4>2. ASSUME NEW q, NEW n, Enrolling(env[Slot("r")], Todo("r"), q, n)
              PROVE  env[Slot("r")].flags # "plain"
          BY <4>2 DEF Enrolling, Off, Mid, Free, POISON
        <4> QED
          BY <2>1, <2>4, <4>1, <4>2 DEF Holder
      <3>3. ~Shuts(s)
        BY <1>2, <2>4 DEF Shuts
      <3> QED
        BY <1>2, <2>2, <3>1, <3>2, <3>3 DEF Busy, Slot
    <2> QED
      BY <2>3, <2>4
  <1>3. lock # "w"
    BY DEF SlotsInv, None
  <1> QED
    BY <1>1, <1>2, <1>3 DEF SlotsInv, Threads

LEMMA PutStep ==
  ASSUME Inv, NEW s \in Slots, Put(s)
  PROVE  Inv'
  <1> DEFINE x == txn["w"]
             r == cursor_init(x, s)
             d == [r.x.dbs[s] EXCEPT !.full = TRUE]
             y == [r.x EXCEPT !.dbs[s] = d, !.state[s] = r.x.state[s] \cup {"DIRTY"}]
  <1>1. /\ op["w"].pc = "idle" /\ x.active /\ ~Closing(s) /\ r.rc = "SUCCESS"
        /\ wrote' = wrote \cup {r.x.dbs[s].id}
        /\ UNCHANGED <<env, n_dbi, lock, op, tables, lastId, lost>>
    BY DEF Put, Written, Using
  <1>2. txn' = [txn EXCEPT !["w"] = [r.x EXCEPT !.dbs[s].full = TRUE,
                                                !.state[s] = @ \cup {"DIRTY"}]]
    BY DEF Put, Written
  <1>3. Known(x, s) /\ "w" \in Threads
    BY <1>1, Knows DEF Inv, Threads
  <1>4. Near(x, r.x, s) /\ View(r.x, s) /\ Ready(r.x, s)
    BY <1>1, <1>3, InitKnown
  <1> HIDE DEF r
  <1>5. /\ lock # "w" /\ r.x \in TxnType /\ \A u \in Slots : View(r.x, u)
        /\ r.x.cursors = {}
        /\ \A u \in Slots : "DIRTY" \in r.x.state[u] => Changed(r.x, u)
        /\ \A id \in wrote : \E u \in Slots :
              "DIRTY" \in r.x.state[u] /\ r.x.dbs[u].id = id /\ r.x.dbs[u].full
    BY <1>1, <1>3, <1>4, NearFacts DEF Inv
  <1>6. txn' = [txn EXCEPT !["w"] = y]
    BY <1>2, <1>5 DEF TxnType
  <1>7. env[s].flags = "plain" /\ ~Busy(s)
    <2>1. env[s].flags = "plain" \/ Shuts(s)
      BY <1>4 DEF View, Ready
    <2> QED
      BY <1>1, <2>1, NotBusy DEF Inv
  <1>8. d \in TableType /\ d.id = r.x.dbs[s].id /\ d.full
    <2>1. r.x.dbs[s] \in TableType
      BY <1>5 DEF TxnType
    <2> QED
      BY <2>1 DEF TableType
  <1> HIDE DEF d
  <1>9. y \in TxnType /\ y.main = r.x.main /\ y.seqs = r.x.seqs /\ y.cursors = r.x.cursors
        /\ y.active = r.x.active
        /\ y.dbs[s] = d /\ y.state[s] = r.x.state[s] \cup {"DIRTY"}
        /\ \A u \in Slots : u # s => y.dbs[u] = r.x.dbs[u] /\ y.state[u] = r.x.state[u]
    BY <1>5, <1>8 DEF TxnType, Marks
  <1> HIDE DEF y
  <1>10. \A u \in Slots : View(y, u)
    <2>1. TAKE u \in Slots
    <2>2. View(r.x, u)
      BY <1>5
    <2>3. CASE u = s
      BY <1>4, <1>8, <1>9, <2>2, <2>3 DEF View, Sane, Ready
    <2>4. CASE u # s
      BY <1>9, <2>2, <2>4 DEF View
    <2> QED
      BY <2>3, <2>4
  <1>11. \A u \in Slots : "DIRTY" \in y.state[u] => Changed(y, u)
    <2>1. SUFFICES ASSUME NEW u \in Slots, "DIRTY" \in y.state[u]
                   PROVE  Changed(y, u)
      OBVIOUS
    <2>2. CASE u = s
      BY <1>4, <1>7, <1>9, <2>2 DEF Changed, Ready
    <2>3. CASE u # s
      BY <1>5, <1>9, <2>1, <2>3 DEF Changed
    <2> QED
      BY <2>2, <2>3
  <1>12. \A id \in wrote' : \E u \in Slots :
            "DIRTY" \in y.state[u] /\ y.dbs[u].id = id /\ y.dbs[u].full
    <2>1. SUFFICES ASSUME NEW id \in wrote'
                   PROVE  \E u \in Slots : "DIRTY" \in y.state[u] /\ y.dbs[u].id = id /\ y.dbs[u].full
      OBVIOUS
    <2>2. CASE id = r.x.dbs[s].id
      BY <1>8, <1>9, <2>2
    <2>3. CASE id \in wrote
      <3>1. PICK u \in Slots : "DIRTY" \in r.x.state[u] /\ r.x.dbs[u].id = id /\ r.x.dbs[u].full
        BY <1>5, <2>3
      <3>2. CASE u = s
        BY <1>8, <1>9, <3>1, <3>2
      <3>3. CASE u # s
        BY <1>9, <3>1, <3>3
      <3> QED
        BY <3>2, <3>3
    <2> QED
      BY <1>1, <2>2, <2>3
  <1>13. Types' /\ SlotsInv' /\ Views' /\ Writes'
    <2>1. lock # "w" /\ y \in TxnType /\ y.cursors = {}
      BY <1>5, <1>9
    <2>2. /\ Types /\ SlotsInv /\ Views /\ Writes
          /\ env' = env /\ n_dbi' = n_dbi /\ lock' = lock /\ op' = op
          /\ tables' \in Mains /\ lastId' \in Nat /\ DOMAIN op' = Threads
      BY <1>1 DEF Inv, Types
    <2> QED
      BY <1>3, <1>6, <1>10, <1>11, <1>12, <2>1, <2>2, TxnStep
  <1>14. Ops'
    <2>1. \A u \in Threads : u # "w" => txn'[u] = txn[u]
      BY <1>6 DEF Inv, Types
    <2> QED
      BY <1>1, <1>3, <2>1, IdleStep DEF Inv
  <1> QED
    BY <1>1, <1>13, <1>14 DEF Inv

\* Taking the lock: the slots are at rest until then.
LEMMA LockStep ==
  ASSUME Inv, NEW t \in Threads, lock = None, NEW y \in TxnType,
         txn' = [txn EXCEPT ![t] = y], env' = env, n_dbi' = n_dbi, lock' = t,
         NEW o, op' = [op EXCEPT ![t] = o], o.pc = "store", Holder(t)',
         tables' \in Mains, lastId' \in Nat,
         y.active => \A s \in Slots : View(y, s) \/ (Enrols(t, s)' /\ Sane(y.state[s])),
         t = "w" => y.cursors = {},
         t = "r" => (wrote' = wrote /\ \A s \in Slots : y.state[s] \cap {"SLAIN", "DIRTY"} = {}),
         txn'["w"].active => \A s \in Slots : "DIRTY" \in txn'["w"].state[s] => Changed(txn["w"], s)',
         t = "w" /\ y.active =>
            \A id \in wrote' : \E s \in Slots :
               "DIRTY" \in y.state[s] /\ y.dbs[s].id = id /\ y.dbs[s].full
  PROVE  Types' /\ SlotsInv' /\ Views' /\ Writes' /\ Ops'
  <1>1. DOMAIN op' = Threads /\ op'[t] = o /\ txn'[t] = y
        /\ \A u \in Threads : u # t => txn'[u] = txn[u] /\ op'[u] = op[u]
    BY DEF Inv, Types
  <1>2. \A s \in Slots : ~Busy(s) /\ ~Shuts(s)
    BY DEF Busy, Shuts
  <1>3. lock' # None
    BY DEF Threads, None
  <1>4. SlotsInv'
    BY <1>1, <1>2, <1>3 DEF Inv, SlotsInv
  <1>5. Types'
    BY <1>1 DEF Inv, Types, Threads
  <1>6. Views'
    <2>1. SUFFICES ASSUME NEW u \in Threads, NEW s \in Slots, txn'[u].active
                   PROVE  View(txn[u], s)' \/ (Enrols(u, s)' /\ Sane(txn'[u].state[s]))
      BY DEF Views
    <2>2. CASE u = t
      BY <1>1, <1>2, <2>1, <2>2 DEF View
    <2>3. CASE u # t
      <3>1. View(txn[u], s)
        BY <1>1, <2>1, <2>3 DEF Inv, Views, Enrols, Threads, None
      <3> QED
        BY <1>1, <1>2, <2>3, <3>1 DEF View
    <2> QED
      BY <2>2, <2>3
  <1>7. Writes'
    <2>1. CASE t = "w"
      BY <1>1, <2>1 DEF Writes, Written1
    <2>2. CASE t = "r"
      BY <1>1, <2>2 DEF Inv, Writes, Written1, Threads
    <2> QED
      BY <2>1, <2>2 DEF Threads
  <1>8. Ops'
    <2>1. OpInv(t)'
      BY <1>1 DEF OpInv
    <2>2. \A u \in Threads : u # t => OpInv(u)'
      BY <1>1, OthersOp DEF Inv, Threads, None
    <2> QED
      BY <2>1, <2>2 DEF Ops
  <1> QED
    BY <1>4, <1>5, <1>6, <1>7, <1>8

\* The stores that close a slot, and a holder of the lock that is to make them.
LEMMA ClosedJob ==
  ASSUME NEW s \in Slots, env[s] \in SlotType, env[s].flags = "plain", env[s].name \in Names
  PROVE  /\ Closed(s) # <<>> /\ Closed(s) \in Seq(SlotType)
         /\ Shutting(env[s], Closed(s))
         /\ [slot |-> s, todo |-> Closed(s)] \in JobType
  <1> DEFINE q == env[s].seq
             n == env[s].name
  <1>1. env[s] = On(q, n) /\ q \in Nat
    BY DEF SlotType, On
  <1>2. Closed(s) = << Off(q, n), Off(q, None), Off(q + 1, None) >>
    <2>1. env[s] = [flags |-> env[s].flags, seq |-> q, name |-> n]
      BY <1>1 DEF On
    <2>2. [env[s] EXCEPT !.flags = Free] = Off(q, n)
      BY <2>1 DEF Off
    <2>3. [flags |-> Free, name |-> None, seq |-> q] = Off(q, None)
      BY DEF Off
    <2>4. [flags |-> Free, name |-> None, seq |-> q + 1] = Off(q + 1, None)
      BY DEF Off
    <2> QED
      BY <2>2, <2>3, <2>4 DEF Closed
  <1>3. Off(q, n) \in SlotType /\ Off(q, None) \in SlotType /\ Off(q + 1, None) \in SlotType
    BY <1>1 DEF Off, SlotType
  <1>4. Closed(s) # <<>> /\ Closed(s) \in Seq(SlotType)
    <2> HIDE DEF q, n
    <2> QED
      BY <1>2, <1>3
  <1> QED
    BY <1>1, <1>2, <1>4 DEF Shutting, JobType

LEMMA CloseHolder ==
  ASSUME NEW t \in Threads, NEW s \in Slots, env[s] \in SlotType, env[s].flags = "plain",
         env[s].name \in Names, env' = env, lock' = t,
         op'[t].jobs = << [slot |-> s, todo |-> Closed(s)] >>,
         t = "r" => op'[t].by = "close"
  PROVE  Holder(t)' /\ \A u \in Slots : Busy(u)' => u = s
  <1> DEFINE j == [slot |-> s, todo |-> Closed(s)]
  <1>1. Shutting(env[s], Closed(s)) /\ j \in JobType
    BY ClosedJob
  <1>2. j.slot = s /\ j.todo = Closed(s)
    OBVIOUS
  <1> HIDE DEF j
  <1>3. op'[t].jobs = << j >>
    BY DEF j
  <1>4. op'[t].jobs \in Seq(JobType) /\ op'[t].jobs # <<>> /\ DOMAIN op'[t].jobs = {1}
        /\ op'[t].jobs[1] = j
    BY <1>1, <1>3
  <1>5. Holder(t)'
    BY <1>1, <1>2, <1>4 DEF Holder, Slot, Todo
  <1>6. \A u \in Slots : Busy(u)' => u = s
    BY <1>2, <1>4 DEF Busy
  <1> QED
    BY <1>5, <1>6

\* mdbx_drop empties the table first.
LEMMA PurgeView ==
  ASSUME NEW x \in TxnType, NEW s \in Slots, View(x, s), Ready(x, s)
  PROVE  LET z == tbl_purge(x, s) IN
         /\ z \in TxnType /\ z.main = x.main /\ z.seqs = x.seqs /\ z.cursors = x.cursors
         /\ z.active = x.active /\ z.dbs[s].id = x.dbs[s].id /\ View(z, s)
         /\ \A u \in Slots : u # s => z.dbs[u] = x.dbs[u] /\ z.state[u] = x.state[u]
  <1> DEFINE d == [x.dbs[s] EXCEPT !.full = FALSE]
             y == [x EXCEPT !.dbs[s] = d, !.state[s] = x.state[s] \cup {"DIRTY"}]
  <1>1. tbl_purge(x, s) = x \/ tbl_purge(x, s) = y
    <2>1. [x EXCEPT !.dbs[s].full = FALSE, !.state[s] = @ \cup {"DIRTY"}] = y
      BY DEF TxnType
    <2> QED
      BY <2>1 DEF tbl_purge
  <1>2. d \in TableType /\ d.id = x.dbs[s].id
    <2>1. x.dbs[s] \in TableType
      BY DEF TxnType
    <2> QED
      BY <2>1 DEF TableType
  <1> HIDE DEF d
  <1>3. /\ y \in TxnType /\ y.main = x.main /\ y.seqs = x.seqs /\ y.cursors = x.cursors
        /\ y.active = x.active /\ y.dbs[s] = d /\ y.state[s] = x.state[s] \cup {"DIRTY"}
        /\ \A u \in Slots : u # s => y.dbs[u] = x.dbs[u] /\ y.state[u] = x.state[u]
    BY <1>2 DEF TxnType, Marks
  <1> HIDE DEF y
  <1>4. View(y, s)
    BY <1>2, <1>3 DEF View, Sane, Ready
  <1> QED
    BY <1>1, <1>2, <1>3, <1>4

LEMMA DropStep ==
  ASSUME Inv, NEW s \in Slots, NEW del \in BOOLEAN, Drop(s, del)
  PROVE  Inv'
  <1> DEFINE x == txn["w"]
             r == cursor_init(x, s)
             z == tbl_purge(r.x, s)
             n == env[s].name
             Dead(st) == State([z EXCEPT !.main[n] = NoTable], s, st)
  <1>1. /\ op["w"].pc = "idle" /\ x.active /\ ~Closing(s) /\ r.rc = "SUCCESS"
        /\ wrote' = wrote \ {z.dbs[s].id}
        /\ UNCHANGED <<env, n_dbi, tables, lastId, lost>>
        /\ IF del THEN Erased(z, s, n)
           ELSE txn' = [txn EXCEPT !["w"] = z] /\ UNCHANGED <<lock, op>>
    BY DEF Drop, Dropped, Purged, Using
  <1>2. Known(x, s) /\ "w" \in Threads
    BY <1>1, Knows DEF Inv, Threads
  <1>3. Near(x, r.x, s) /\ View(r.x, s) /\ Ready(r.x, s)
    BY <1>1, <1>2, InitKnown
  <1> HIDE DEF r
  <1>4. /\ lock # "w" /\ r.x \in TxnType /\ \A u \in Slots : View(r.x, u)
        /\ r.x.cursors = {} /\ r.x.active
        /\ \A u \in Slots : "DIRTY" \in r.x.state[u] => Changed(r.x, u)
        /\ \A id \in wrote : \E u \in Slots :
              "DIRTY" \in r.x.state[u] /\ r.x.dbs[u].id = id /\ r.x.dbs[u].full
    BY <1>1, <1>2, <1>3, NearFacts DEF Inv, Near
  <1>5. env[s].flags = "plain" /\ ~Busy(s)
    <2>1. env[s].flags = "plain" \/ Shuts(s)
      BY <1>3 DEF View, Ready
    <2> QED
      BY <1>1, <2>1, NotBusy DEF Inv
  <1>6. /\ z \in TxnType /\ z.main = r.x.main /\ z.seqs = r.x.seqs /\ z.cursors = r.x.cursors
        /\ z.active = r.x.active /\ z.dbs[s].id = r.x.dbs[s].id /\ View(z, s)
        /\ \A u \in Slots : u # s => z.dbs[u] = r.x.dbs[u] /\ z.state[u] = r.x.state[u]
    <2>1. r.x \in TxnType
      BY <1>4
    <2> QED
      BY <1>3, <2>1, PurgeView
  <1> HIDE DEF z
  <1>7. \A id \in wrote' : \E u \in Slots : u # s /\ "DIRTY" \in z.state[u] /\ z.dbs[u].id = id
                                           /\ z.dbs[u].full
    <2>1. TAKE id \in wrote'
    <2>2. PICK u \in Slots : "DIRTY" \in r.x.state[u] /\ r.x.dbs[u].id = id /\ r.x.dbs[u].full
      BY <1>1, <1>4
    <2>3. u # s
      BY <1>1, <1>6, <2>2
    <2> QED
      BY <1>6, <2>2, <2>3
  <1>8. \A u \in Slots : u # s /\ "DIRTY" \in z.state[u] => Changed(z, u)
    BY <1>4, <1>6 DEF Changed
  <1>9. \A u \in Slots : View(z, u)
    <2>1. TAKE u \in Slots
    <2>2. View(r.x, u)
      BY <1>4
    <2>3. CASE u # s
      BY <1>6, <2>2, <2>3 DEF View
    <2> QED
      BY <1>6, <2>3
  <1>10. n \in Names /\ s <= n_dbi /\ \A u \in Slots : u # s /\ env[u].flags = "plain" => env[u].name # n
    BY <1>5 DEF Inv, SlotsInv, Free
  <1>11. CASE ~del
    <2>1. txn' = [txn EXCEPT !["w"] = z] /\ UNCHANGED <<lock, op>>
      BY <1>1, <1>11
    <2>2. \A u \in Slots : "DIRTY" \in z.state[u] => Changed(z, u)
      <3>1. Changed(z, s)
        BY <1>3, <1>5, <1>6 DEF Changed, Ready
      <3> QED
        BY <1>8, <3>1
    <2>3. Types' /\ SlotsInv' /\ Views' /\ Writes'
      <3>1. /\ lock # "w" /\ z \in TxnType /\ z.cursors = {} /\ \A u \in Slots : View(z, u)
            /\ \A u \in Slots : "DIRTY" \in z.state[u] => Changed(z, u)
            /\ \A id \in wrote' : \E u \in Slots :
                  "DIRTY" \in z.state[u] /\ z.dbs[u].id = id /\ z.dbs[u].full
        BY <1>4, <1>6, <1>7, <1>9, <2>2
      <3>2. /\ Types /\ SlotsInv /\ Views /\ Writes
            /\ env' = env /\ n_dbi' = n_dbi /\ lock' = lock /\ op' = op
            /\ tables' \in Mains /\ lastId' \in Nat /\ DOMAIN op' = Threads
        BY <1>1, <2>1 DEF Inv, Types
      <3> QED
        BY <1>2, <2>1, <3>1, <3>2, TxnStep
    <2>4. Ops'
      <3>1. \A u \in Threads : u # "w" => txn'[u] = txn[u]
        BY <2>1 DEF Inv, Types
      <3> QED
        BY <1>1, <1>2, <2>1, <3>1, IdleStep DEF Inv
    <2> QED
      BY <1>1, <2>3, <2>4 DEF Inv
  <1>12. ASSUME NEW st, st \in {{"SLAIN", "LINDO"}, {"OLDEN", "LINDO"}}
         PROVE  /\ Dead(st) \in TxnType /\ Dead(st).cursors = {} /\ Dead(st).active
                /\ \A u \in Slots : View(Dead(st), u)
                /\ \A u \in Slots : "DIRTY" \in Dead(st).state[u] =>
                      u # s /\ Changed(Dead(st), u)
                /\ \A id \in wrote' : \E u \in Slots :
                      "DIRTY" \in Dead(st).state[u] /\ Dead(st).dbs[u].id = id
                      /\ Dead(st).dbs[u].full
    <2> DEFINE m == [z.main EXCEPT ![n] = NoTable]
               y == Dead(st)
    <2>1. m \in Mains /\ \A k \in Names : k # n => m[k] = z.main[k]
      <3>1. NoTable \in TableType /\ z.main \in Mains
        BY <1>6 DEF NoTable, TableType, TxnType
      <3> QED
        BY <1>10, <3>1 DEF Mains
    <2>2. y.main = m /\ y.active = z.active /\ y.error = z.error /\ y.cursors = z.cursors
          /\ y.dbs = z.dbs /\ y.state = [z.state EXCEPT ![s] = st] /\ y.seqs = z.seqs
          /\ y = [active |-> y.active, error |-> y.error, cursors |-> y.cursors, main |-> y.main,
                  dbs |-> y.dbs, state |-> y.state, seqs |-> y.seqs]
      <3> DEFINE v == [z EXCEPT !.main[n] = NoTable]
      <3>1. v.main = m /\ v.active = z.active /\ v.error = z.error /\ v.cursors = z.cursors
            /\ v.dbs = z.dbs /\ v.state = z.state /\ v.seqs = z.seqs
            /\ v = [active |-> v.active, error |-> v.error, cursors |-> v.cursors, main |-> v.main,
                    dbs |-> v.dbs, state |-> v.state, seqs |-> v.seqs]
        BY <1>6 DEF TxnType
      <3>2. y = State(v, s, st)
        OBVIOUS
      <3> HIDE DEF v, m, y
      <3> QED
        BY <3>1, <3>2 DEF State
    <2>3. y.state \in [Slots -> SUBSET Marks]
      BY <1>6, <1>12, <2>2 DEF TxnType, Marks
    <2> HIDE DEF y, m
    <2>4. y \in TxnType
      BY <1>6, <2>1, <2>2, <2>3 DEF TxnType
    <2>5. y.state[s] = st /\ \A u \in Slots : u # s => y.state[u] = z.state[u]
      BY <1>6, <2>2 DEF TxnType
    <2>6. \A u \in Slots : View(y, u)
      <3>1. TAKE u \in Slots
      <3>2. CASE u = s
        BY <1>12, <2>5, <3>2 DEF View, Sane
      <3>3. CASE u # s
        <4>1. View(z, u)
          BY <1>9
        <4>2. env[u].flags = "plain" => env[u].name # n /\ env[u].name \in Names
          BY <1>10, <3>3 DEF Inv, SlotsInv
        <4> QED
          BY <2>1, <2>2, <2>5, <3>3, <4>1, <4>2 DEF View
      <3> QED
        BY <3>2, <3>3
    <2>7. \A u \in Slots : "DIRTY" \in y.state[u] => u # s /\ Changed(y, u)
      BY <1>8, <1>12, <2>2, <2>5 DEF Changed
    <2>8. \A id \in wrote' : \E u \in Slots : "DIRTY" \in y.state[u] /\ y.dbs[u].id = id /\ y.dbs[u].full
      BY <1>7, <2>2, <2>5
    <2> QED
      BY <1>4, <1>6, <2>2, <2>4, <2>6, <2>7, <2>8 DEF y
  <1>13. CASE del
    <2>1. Erased(z, s, n)
      BY <1>1, <1>13
    <2>2. n # None /\ z.main[n] # NoTable
      <3>1. r.x.main[n].id # 0
        BY <1>3, <1>5 DEF View, Ready
      <3> QED
        BY <1>6, <1>10, <3>1, DbiAssumption DEF NoTable, None
    <2>3. CASE z.state[s] \cap {"CREAT", "FRESH"} = {}
      <3> DEFINE y == Dead({"SLAIN", "LINDO"})
      <3>1. txn' = [txn EXCEPT !["w"] = y] /\ UNCHANGED <<lock, op>>
        BY <2>1, <2>2, <2>3 DEF Erased
      <3>2. /\ y \in TxnType /\ y.cursors = {} /\ y.active
            /\ \A u \in Slots : View(y, u)
            /\ \A u \in Slots : "DIRTY" \in y.state[u] => u # s /\ Changed(y, u)
            /\ \A id \in wrote' : \E u \in Slots :
                 "DIRTY" \in y.state[u] /\ y.dbs[u].id = id /\ y.dbs[u].full
        BY <1>12
      <3> HIDE DEF y, Dead
      <3>3. Types' /\ SlotsInv' /\ Views' /\ Writes'
        BY <1>1, <1>2, <1>4, <3>1, <3>2, TxnStep DEF Inv, Types
      <3>4. Ops'
        <4>1. \A u \in Threads : u # "w" => txn'[u] = txn[u]
          BY <3>1 DEF Inv, Types
        <4> QED
          BY <1>1, <1>2, <3>1, <4>1, IdleStep DEF Inv
      <3> QED
        BY <1>1, <3>3, <3>4 DEF Inv
    <2>4. CASE z.state[s] \cap {"CREAT", "FRESH"} # {}
      <3> DEFINE y == Dead({"OLDEN", "LINDO"})
                 j == << [slot |-> s, todo |-> Closed(s)] >>
                 o == [pc |-> "store", jobs |-> j, by |-> "drop"]
      <3>1. txn' = [txn EXCEPT !["w"] = y] /\ Locked("w", Job(s, dbi_close_locked(s)), "drop")
        BY <2>1, <2>2, <2>4 DEF Erased
      <3>2. env[s] \in SlotType
        BY DEF Inv, SlotsInv
      <3>3. Closed(s) # <<>>
        BY <1>5, <1>10, <3>2, ClosedJob
      <3>4. Job(s, dbi_close_locked(s)) = j /\ j # <<>>
        BY <1>10, <2>2, <3>3 DEF Job, dbi_close_locked
      <3>5. lock = None /\ lock' = "w" /\ op' = [op EXCEPT !["w"] = o]
        BY <3>1, <3>4 DEF Locked, Holding
      <3>6. /\ y \in TxnType /\ y.cursors = {} /\ y.active
            /\ \A u \in Slots : View(y, u)
            /\ \A u \in Slots : "DIRTY" \in y.state[u] => u # s /\ Changed(y, u)
            /\ \A id \in wrote' : \E u \in Slots :
                 "DIRTY" \in y.state[u] /\ y.dbs[u].id = id /\ y.dbs[u].full
        BY <1>12
      <3>7. o.pc = "store" /\ o.jobs = j
        OBVIOUS
      <3> HIDE DEF y, Dead, o
      <3>8. op'["w"] = o /\ txn'["w"] = y
        BY <3>1, <3>5 DEF Inv, Types, Threads
      <3>9. Holder("w")' /\ \A u \in Slots : Busy(u)' => u = s
        BY <1>1, <1>2, <1>5, <1>10, <3>2, <3>5, <3>7, <3>8, CloseHolder
      <3>10. \A u \in Slots : "DIRTY" \in txn'["w"].state[u] => Changed(txn["w"], u)'
        <4>1. SUFFICES ASSUME NEW u \in Slots, "DIRTY" \in y.state[u]
                       PROVE  Changed(txn["w"], u)'
          BY <3>8
        <4>2. u # s /\ Changed(y, u)
          BY <3>6, <4>1
        <4>3. y.seqs[u] = env[u].seq /\ env[u].flags = "plain"
          BY <1>4, <4>2 DEF Changed, Enrols
        <4>4. ~Busy(u)'
          BY <3>9, <4>2
        <4> QED
          BY <1>1, <3>8, <4>3, <4>4 DEF Changed
      <3>11. Types' /\ SlotsInv' /\ Views' /\ Writes' /\ Ops'
        BY <1>1, <1>2, <3>1, <3>5, <3>6, <3>7, <3>9, <3>10, LockStep DEF Inv, Types
      <3> QED
        BY <1>1, <3>11 DEF Inv
    <2> QED
      BY <2>3, <2>4
  <1> QED
    BY <1>11, <1>13

LEMMA CloseStep ==
  ASSUME Inv, NEW t \in Threads, NEW s \in Slots, Close(t, s)
  PROVE  Inv'
  <1> DEFINE j == << [slot |-> s, todo |-> Closed(s)] >>
             o == [pc |-> "store", jobs |-> j, by |-> "close"]
             y == txn[t]
  <1>1. /\ op[t].pc = "idle" /\ s <= n_dbi /\ Valid(s)
        /\ ~(txn["w"].active /\ txn["w"].state[s] \cap {"DIRTY", "CREAT"} # {})
        /\ Locked(t, Job(s, dbi_close_locked(s)), "close")
        /\ UNCHANGED <<env, n_dbi, txn, tables, lastId, wrote, lost>>
    BY DEF Close
  <1>2. env[s] \in SlotType /\ env[s].flags = "plain" /\ env[s].name \in Names
        /\ txn' = [txn EXCEPT ![t] = y] /\ DOMAIN op = Threads /\ y \in TxnType
    BY <1>1, ValidIsPlain DEF Inv, SlotsInv, Types
  <1>3. Closed(s) # <<>>
    BY <1>2, ClosedJob
  <1>4. Job(s, dbi_close_locked(s)) = j /\ j # <<>>
    BY <1>1, <1>2, <1>3, DbiAssumption DEF Job, dbi_close_locked, None
  <1>5. lock = None /\ lock' = t /\ op' = [op EXCEPT ![t] = o]
    BY <1>1, <1>4 DEF Locked, Holding
  <1>6. o.pc = "store" /\ o.jobs = j /\ o.by = "close"
    OBVIOUS
  <1> HIDE DEF o, y
  <1>7. op'[t] = o
    BY <1>2, <1>5
  <1>8. Holder(t)' /\ \A u \in Slots : Busy(u)' => u = s
    BY <1>1, <1>2, <1>5, <1>6, <1>7, CloseHolder
  <1>9. op["w"].pc # "store"
    BY <1>5 DEF Inv, Ops, OpInv, Threads, None
  <1>10. txn["w"].active => \A u \in Slots : "DIRTY" \in txn["w"].state[u] => Changed(txn["w"], u)'
    <2>1. SUFFICES ASSUME txn["w"].active, NEW u \in Slots, "DIRTY" \in txn["w"].state[u]
                   PROVE  Changed(txn["w"], u)'
      OBVIOUS
    <2>2. txn["w"].seqs[u] = env[u].seq /\ env[u].flags = "plain"
      BY <1>9, <2>1, Knows DEF Inv, Threads
    <2>3. u # s
      BY <1>1, <2>1
    <2> QED
      BY <1>1, <1>8, <2>2, <2>3 DEF Changed
  <1>11. y.active => \A u \in Slots : View(y, u)
    BY <1>1, Knows DEF Inv, Known, y
  <1>12. t = "w" /\ y.active =>
           \A id \in wrote' : \E u \in Slots :
               "DIRTY" \in y.state[u] /\ y.dbs[u].id = id /\ y.dbs[u].full
    BY <1>1 DEF Inv, Writes, Written1, y
  <1>13. (t = "w" => y.cursors = {})
         /\ (t = "r" => \A u \in Slots : y.state[u] \cap {"SLAIN", "DIRTY"} = {})
    BY DEF Inv, Types, y
  <1>14. Types' /\ SlotsInv' /\ Views' /\ Writes' /\ Ops'
    BY <1>1, <1>2, <1>5, <1>6, <1>8, <1>10, <1>11, <1>12, <1>13, LockStep DEF Inv, Types
  <1> QED
    BY <1>1, <1>14 DEF Inv

\* Every changed table is stored under the name of its slot, which no other
\* slot has.
LEMMA RootsKeep ==
  ASSUME Inv, op["w"].pc = "idle", txn["w"].active
  PROVE  /\ Roots(txn["w"]) \in Mains
         /\ \A s \in Slots : "DIRTY" \in txn["w"].state[s] =>
               env[s].name \in Names /\ Roots(txn["w"])[env[s].name] = txn["w"].dbs[s]
  <1> DEFINE x == txn["w"]
             dirty(n) == {s \in Slots : "DIRTY" \in x.state[s] /\ env[s].name = n}
  <1>1. "w" \in Threads /\ x \in TxnType
    BY DEF Inv, Types, Threads
  <1>2. \A s \in Slots : "DIRTY" \in x.state[s] =>
           /\ x.seqs[s] = env[s].seq /\ env[s].flags = "plain" /\ env[s].name \in Names
           /\ x.dbs[s].id # 0
    <2>1. TAKE s \in Slots
    <2>2. HAVE "DIRTY" \in x.state[s]
    <2>3. x.seqs[s] = env[s].seq /\ env[s].flags = "plain" /\ View(x, s)
      BY <1>1, <2>2, Knows DEF Inv, Known
    <2>4. x.main[env[s].name].id = x.dbs[s].id /\ x.main[env[s].name].id # 0
      BY <2>2, <2>3 DEF View, Sane
    <2> QED
      BY <2>3, <2>4 DEF Inv, SlotsInv
  <1>3. \A s \in Slots : "DIRTY" \in x.state[s] => dirty(env[s].name) = {s}
    BY <1>2 DEF Inv, SlotsInv
  <1>4. \A s \in Slots : Max({s}) = s
    <2>1. TAKE s \in Slots
    <2>2. {s} \in SUBSET (0 .. MaxDbi) /\ {s} # {} /\ MaxDbi \in Nat
      BY DbiAssumption DEF Slots
    <2> QED
      BY <2>2, MaxOf
  <1>5. Roots(x) = [n \in Names |-> IF dirty(n) = {} THEN x.main[n] ELSE x.dbs[Max(dirty(n))]]
    BY DEF Roots
  <1>6. \A s \in Slots : "DIRTY" \in x.state[s] => Roots(x)[env[s].name] = x.dbs[s]
    <2>1. TAKE s \in Slots
    <2>2. HAVE "DIRTY" \in x.state[s]
    <2>3. dirty(env[s].name) = {s} /\ {s} # {}
      BY <1>3, <2>2
    <2> HIDE DEF dirty, x
    <2> QED
      BY <1>2, <1>4, <1>5, <2>2, <2>3
  <1>7. Roots(x) \in Mains
    <2>1. SUFFICES ASSUME NEW n \in Names
                   PROVE  Roots(x)[n] \in TableType /\ (Roots(x)[n] = NoTable \/ Roots(x)[n].id # 0)
      BY <1>5 DEF Mains
    <2>2. CASE dirty(n) = {}
      <3>1. Roots(x)[n] = x.main[n]
        BY <1>5, <2>2
      <3> QED
        BY <1>1, <3>1 DEF TxnType, Mains
    <2>3. CASE dirty(n) # {}
      <3>1. PICK s \in Slots : "DIRTY" \in x.state[s] /\ env[s].name = n
        BY <2>3
      <3>2. Roots(x)[n] = x.dbs[s] /\ x.dbs[s].id # 0
        BY <1>2, <1>6, <3>1
      <3> QED
        BY <1>1, <3>2 DEF TxnType
    <2> QED
      BY <2>2, <2>3
  <1> QED
    BY <1>2, <1>6, <1>7

LEMMA CommitStep ==
  ASSUME Inv, Commit
  PROVE  Inv'
  <1> DEFINE x == txn["w"]
  <1>1. /\ op["w"].pc = "idle" /\ x.active /\ tables' = Roots(x) /\ Finish("w", x, "SLAIN")
        /\ lost' = (lost \/ \E id \in wrote :
                      ~\E n \in Names : Roots(x)[n].id = id /\ Roots(x)[n].full)
        /\ UNCHANGED <<env, n_dbi, lock, lastId>>
    BY DEF Commit
  <1>2. /\ Roots(x) \in Mains
        /\ \A s \in Slots : "DIRTY" \in x.state[s] =>
              env[s].name \in Names /\ Roots(x)[env[s].name] = x.dbs[s]
    BY <1>1, RootsKeep
  <1>3. \A id \in wrote : \E n \in Names : Roots(x)[n].id = id /\ Roots(x)[n].full
    <2>1. TAKE id \in wrote
    <2>2. PICK s \in Slots : "DIRTY" \in x.state[s] /\ x.dbs[s].id = id /\ x.dbs[s].full
      BY <1>1 DEF Inv, Writes, Written1
    <2> QED
      BY <1>2, <2>2
  <1>4. ~lost'
    BY <1>1, <1>3 DEF Inv
  <1>5. Types' /\ SlotsInv' /\ Views' /\ Writes' /\ Ops'
    BY <1>1, <1>2, FinishStep DEF Threads
  <1> QED
    BY <1>4, <1>5 DEF Inv

\* The elements of a finite set in some order.
LEMMA SeqOfSet ==
  ASSUME NEW S, IsFiniteSet(S)
  PROVE  /\ SetToSeq(S) \in Seq(S)
         /\ \A i, k \in DOMAIN SetToSeq(S) : i # k => SetToSeq(S)[i] # SetToSeq(S)[k]
  <1>1. Cardinality(S) \in Nat /\ ExistsBijection(1 .. Cardinality(S), S)
    BY FS_CardinalityType
  <1>2. \E f \in [1 .. Cardinality(S) -> S] : IsInjective(f)
    BY <1>1 DEF ExistsBijection, Bijection, Injection, IsInjective
  <1>3. SetToSeq(S) \in [1 .. Cardinality(S) -> S] /\ IsInjective(SetToSeq(S))
    BY <1>2 DEF SetToSeq
  <1> QED
    BY <1>1, <1>3 DEF IsInjective

LEMMA UpdateStep ==
  ASSUME Inv, dbi_update
  PROVE  Inv'
  <1> DEFINE mine == {s \in op["w"].slots : /\ s <= n_dbi /\ env[s].name # None
                                            /\ ~dbi_changed(txn["w"], s)}
             J(s) == [slot |-> s, todo |-> Closed(s)]
             S == {J(s) : s \in mine}
             j == SetToSeq(S)
             o == [pc |-> "store", jobs |-> j, by |-> "end"]
  <1>1. /\ op["w"].pc = "end" /\ Locked("w", j, "end") /\ txn' = [txn EXCEPT !["w"] = NoTxn]
        /\ UNCHANGED <<env, n_dbi, tables, lastId, wrote, lost>>
    BY DEF dbi_update
  <1>2. lock = None /\ "w" \in Threads /\ DOMAIN op = Threads /\ op["w"].slots \subseteq Slots
    BY <1>1 DEF Locked, Inv, Types, Ops, OpInv, Threads
  <1>3. \A s \in mine : s \in Slots /\ env[s] \in SlotType /\ env[s].flags = "plain"
                        /\ env[s].name \in Names
    BY <1>2 DEF Inv, SlotsInv, Busy, Rest, On, Off
  <1>4. \A s \in mine : J(s) \in JobType /\ J(s).slot = s /\ J(s).todo = Closed(s)
                        /\ Shutting(env[s], Closed(s))
    BY <1>3, ClosedJob
  <1>5. IsFiniteSet(S)
    <2>1. IsFiniteSet(mine)
      <3>1. IsFiniteSet(Slots)
        BY FS_Interval, DbiAssumption DEF Slots
      <3> QED
        BY <1>3, <3>1, FS_Subset
    <2>2. [s \in mine |-> J(s)] \in Surjection(mine, S)
      BY DEF Surjection
    <2> HIDE DEF mine, S
    <2> QED
      BY <2>1, <2>2, FS_Surjection
  <1>6. /\ j \in Seq(S)
        /\ \A i, k \in DOMAIN j : i # k => j[i] # j[k]
    <2> HIDE DEF S
    <2> QED
      BY <1>5, SeqOfSet
  <1>7. \A k \in DOMAIN j : j[k].slot \in mine /\ j[k] = J(j[k].slot)
    <2>1. \A v \in S : v.slot \in mine /\ v = J(v.slot)
      BY <1>4
    <2> HIDE DEF mine, J, S, j
    <2> QED
      BY <1>6, <2>1
  <1>8. \A t \in Threads : t # "w" => txn'[t] = txn[t]
    BY <1>1 DEF Inv, Types
  <1> HIDE DEF j
  <1>9. CASE j = <<>>
    <2>1. lock' = None /\ op' = [op EXCEPT !["w"] = Idle]
      BY <1>1, <1>9 DEF Locked, Release
    <2>2. Types' /\ SlotsInv' /\ Views' /\ Writes'
      BY <1>1, <1>2, <2>1, FreshTxn, TxnStep DEF Inv, Types, Threads, None
    <2>3. op'["w"] = Idle
      BY <1>2, <2>1
    <2>4. Ops'
      BY <1>1, <1>2, <1>8, <2>1, <2>3, IdleOp, OpsStep DEF Inv
    <2> QED
      BY <1>1, <2>2, <2>4 DEF Inv
  <1>10. CASE j # <<>>
    <2>1. lock' = "w" /\ op' = [op EXCEPT !["w"] = o]
      BY <1>1, <1>10 DEF Locked, Holding
    <2>2. o.pc = "store" /\ o.jobs = j
      OBVIOUS
    <2> HIDE DEF o
    <2>3. op'["w"] = o
      BY <1>2, <2>1
    <2>4. Holder("w")'
      <3>1. j \in Seq(JobType)
        <4>1. \A k \in DOMAIN j : j[k] \in JobType
          BY <1>4, <1>7
        <4> QED
          BY <1>6, <4>1
      <3>2. \A k, m \in DOMAIN j : k # m => j[k].slot # j[m].slot
        <4>1. TAKE k, m \in DOMAIN j
        <4>2. j[k] = J(j[k].slot) /\ j[m] = J(j[m].slot)
          BY <1>7
        <4> HIDE DEF J
        <4> QED
          BY <1>6, <4>2
      <3>3. \A k \in DOMAIN j : Shutting(env[j[k].slot], j[k].todo)
        BY <1>4, <1>7
      <3>4. 1 \in DOMAIN j
        BY <1>10, <3>1
      <3> QED
        BY <1>1, <1>10, <2>2, <2>3, <3>1, <3>2, <3>3, <3>4 DEF Holder, Slot, Todo
    <2>5. Types' /\ SlotsInv' /\ Views' /\ Writes' /\ Ops'
      <3>1. ~NoTxn.active /\ NoTxn \in TxnType /\ NoTxn.cursors = {} /\ txn'["w"] = NoTxn
        BY <1>1, <1>2, FreshTxn DEF Inv, Types
      <3> QED
        BY <1>1, <1>2, <2>1, <2>2, <2>4, <3>1, LockStep DEF Inv, Types
    <2> QED
      BY <1>1, <2>5 DEF Inv
  <1> QED
    BY <1>9, <1>10

-----------------------------------------------------------------------------
(* mdbx_dbi_open under the lock.                                           *)

LEMMA SlotOfName ==
  ASSUME SlotsInv, lock = None, NEW n \in Names
  PROVE  LET s == SlotOf(n) IN
         /\ s \in Nat
         /\ s <= n_dbi /\ Valid(s) => s \in Slots /\ env[s].name = n
         /\ s <= MaxDbi /\ ~(s <= n_dbi /\ Valid(s)) =>
               /\ s \in Slots /\ env[s] = Off(env[s].seq, None)
               /\ \A u \in Slots : env[u].flags = "plain" => env[u].name # n
  <1> DEFINE same == {s \in 1 .. n_dbi : Valid(s) /\ env[s].name = n}
             rest == {i \in 1 .. n_dbi : ~Valid(i)} \cup {n_dbi + 1}
             s == SlotOf(n)
  <1>1. n_dbi \in Nat /\ n_dbi <= MaxDbi /\ MaxDbi \in Nat
    BY DbiAssumption DEF SlotsInv
  <1>2. \A u \in Slots : env[u] \in SlotType /\ Rest(env[u])
    BY DEF SlotsInv, Busy
  <1>3. \A u \in 1 .. n_dbi : u \in Slots
    BY <1>1 DEF Slots
  <1>4. s = IF same # {} THEN Min(same) ELSE Min(rest)
    BY DEF SlotOf
  <1>5. CASE same # {}
    <2>1. same \in SUBSET Nat
      BY <1>1
    <2> HIDE DEF same
    <2>2. s \in same
      BY <1>4, <1>5, <2>1, MinOf
    <2> QED
      BY <1>1, <1>3, <2>2 DEF same
  <1>6. CASE same = {}
    <2>1. rest \in SUBSET Nat /\ rest # {}
      BY <1>1
    <2> HIDE DEF rest
    <2>2. s \in rest
      BY <1>4, <1>6, <2>1, MinOf
    <2> USE DEF rest
    <2>3. s \in Nat /\ s # 0 /\ ~(s <= n_dbi /\ Valid(s))
      BY <1>1, <2>2
    <2>4. ASSUME s <= MaxDbi
          PROVE  s \in Slots /\ env[s] = Off(env[s].seq, None)
      <3>1. s \in Slots
        BY <1>1, <2>3, <2>4 DEF Slots
      <3>2. env[s].flags # "plain"
        <4>1. CASE s = n_dbi + 1
          BY <1>1, <3>1, <4>1 DEF SlotsInv, Free
        <4>2. CASE s # n_dbi + 1
          BY <1>1, <1>2, <2>2, <3>1, <4>2, ValidIsPlain
        <4> QED
          BY <4>1, <4>2
      <3>3. env[s] # On(env[s].seq, env[s].name)
        <4>1. On(env[s].seq, env[s].name).flags = "plain"
          BY DEF On
        <4> QED
          BY <3>2, <4>1
      <3> QED
        BY <1>2, <3>1, <3>3 DEF Rest
    <2>5. \A u \in Slots : env[u].flags = "plain" => env[u].name # n
      <3>1. SUFFICES ASSUME NEW u \in Slots, env[u].flags = "plain", env[u].name = n
                     PROVE  FALSE
        OBVIOUS
      <3>2. u <= n_dbi /\ Valid(u)
        BY <1>2, <3>1, ValidIsPlain DEF SlotsInv, Free
      <3>3. u \in 1 .. n_dbi
        BY <1>1, <3>2 DEF Slots
      <3> QED
        BY <1>6, <3>1, <3>2, <3>3
    <2> QED
      BY <2>3, <2>4, <2>5
  <1> QED
    BY <1>5, <1>6

\* A slot with the name is known to the transaction, or is imported anew.
LEMMA RecheckKnown ==
  ASSUME NEW x, NEW s, Known(x, s), env[s].flags = "plain", s <= n_dbi, NEW a \in Asked
  PROVE  LET c == Recheck(x, s, a) IN
         /\ Near(x, c.x, s) /\ View(c.x, s) /\ c.todo = <<>> /\ c.rc # "CREATED"
         /\ c.rc = "SUCCESS" => /\ {"LINDO", "VALID"} \subseteq c.x.state[s]
                                /\ c.x.seqs[s] = env[s].seq
         /\ c.rc # "SUCCESS" => "DIRTY" \notin x.state[s]
         /\ x.cursors = {} /\ "SLAIN" \notin x.state[s] => c.rc = "SUCCESS"
  <1> DEFINE k == dbi_check(x, s)
             st == k.x.state[s]
             y == [State(k.x, s, {"LINDO"}) EXCEPT !.seqs[s] = 0]
             c == Recheck(x, s, a)
  <1>1. Checked1(x, k, s) /\ ("DIRTY" \in x.state[s] => k = Result("SUCCESS", x))
    BY CheckKnown
  <1>2. c = Rescued(k, s, a)
    BY DEF Recheck
  <1> HIDE DEF k
  <1>3. "DIRTY" \in x.state[s] => k.rc = "SUCCESS"
    BY <1>1 DEF Result
  <1>4. CASE k.rc # "BAD_DBI"
    <2>1. c = k
      BY <1>2, <1>4 DEF Rescued
    <2> QED
      BY <1>1, <1>3, <1>4, <2>1 DEF Checked1
  <1>5. CASE k.rc = "BAD_DBI"
    <2>1. "VALID" \notin st /\ st # {} /\ Sane(st) /\ "DIRTY" \notin x.state[s]
      BY <1>1, <1>3, <1>5 DEF Checked1, View
    <2>2. "LINDO" \in st /\ st \subseteq {"LINDO", "OLDEN", "SLAIN"}
      BY <2>1 DEF Sane
    <2>3. CASE "SLAIN" \in st /\ ~a.create
      <3>1. c = Result("NOTFOUND", k.x)
        BY <1>2, <1>5, <2>3 DEF Rescued
      <3>2. "SLAIN" \in x.state[s]
        BY <1>1, <2>3 DEF Checked1, Near
      <3> QED
        BY <1>1, <2>1, <3>1, <3>2 DEF Checked1, Result
    <2>4. CASE ~("SLAIN" \in st /\ ~a.create)
      <3>1. c = dbi_import(y, s)
        <4>1. \/ st \in {{"SLAIN", "LINDO"}, {"SLAIN", "OLDEN", "LINDO"}} /\ a.create
              \/ st \in {{"OLDEN", "LINDO"}, {"LINDO"}}
          <5>1. CASE "SLAIN" \in st
            BY <2>2, <2>4, <5>1
          <5>2. CASE "SLAIN" \notin st
            BY <2>2, <5>2
          <5> QED
            BY <5>1, <5>2
        <4>2. c = Reopened(k.x, s)
          <5> HIDE DEF st, y, c
          <5>1. "SLAIN" \in st => a.create
            BY <2>4
          <5>2. Rescued(k, s, a) = Reopened(k.x, s)
            BY <1>5, <4>1, <5>1 DEF Rescued, st
          <5> QED
            BY <1>2, <5>2
        <4> QED
          BY <4>2 DEF Reopened
      <3>2. k.x \in TxnType /\ s \in Slots
        BY <1>1 DEF Checked1, Near, Known
      <3>3. /\ y \in TxnType /\ y.main = k.x.main /\ y.active = k.x.active /\ y.error = k.x.error
            /\ y.cursors = k.x.cursors /\ y.dbs = k.x.dbs /\ y.state[s] = {"LINDO"}
            /\ \A u \in Slots : u # s => y.state[u] = k.x.state[u] /\ y.seqs[u] = k.x.seqs[u]
        <4> DEFINE v == State(k.x, s, {"LINDO"})
        <4>1. /\ v \in TxnType /\ v.main = k.x.main /\ v.active = k.x.active /\ v.error = k.x.error
              /\ v.cursors = k.x.cursors /\ v.dbs = k.x.dbs /\ v.state[s] = {"LINDO"}
              /\ v.seqs = k.x.seqs /\ \A u \in Slots : u # s => v.state[u] = k.x.state[u]
          BY <3>2 DEF State, TxnType, Marks
        <4> HIDE DEF v
        <4>2. y = [v EXCEPT !.seqs[s] = 0]
          BY DEF v
        <4> HIDE DEF y
        <4> QED
          BY <3>2, <4>1, <4>2 DEF TxnType
      <3> HIDE DEF y
      <3>4. Near(k.x, y, s)
        BY <2>1, <3>3 DEF Near, Sane
      <3>5. Known(y, s) /\ "DIRTY" \notin y.state[s]
        BY <3>3 DEF Known, View, Settled, Sane
      <3>6. Checked1(y, c, s)
        BY <3>1, <3>5, ImportKnown
      <3>7. Near(x, c.x, s)
        BY <1>1, <3>4, <3>6, NearTwice DEF Checked1
      <3>8. x.cursors = {} => c.rc = "SUCCESS"
        <4>1. SUFFICES ASSUME x.cursors = {}
                       PROVE  c.rc = "SUCCESS"
          OBVIOUS
        <4>2. y.cursors = {}
          BY <1>1, <3>3, <4>1 DEF Checked1, Near
        <4>3. c = Imported(y, s)
          <5>1. s <= n_dbi /\ env[s].flags # Free /\ s \notin y.cursors /\ ~(s > n_dbi)
            BY <4>2 DEF Free, Known, Slots
          <5>2. dbi_import(y, s) = Imported(y, s)
            BY <3>3, <5>1 DEF dbi_import
          <5> QED
            BY <3>1, <5>2
        <4> QED
          BY <3>5, <4>3, ImportedView
      <3> QED
        BY <2>1, <3>6, <3>7, <3>8 DEF Checked1
    <2> QED
      BY <2>3, <2>4
  <1> QED
    BY <1>4, <1>5

\* Another record for a handle whose record has not been looked up.
Refilled(x, s, d) == [x EXCEPT !.dbs[s] = d]

LEMMA RefilledView ==
  ASSUME NEW x, NEW s, NEW d, Known(x, s), "DIRTY" \notin x.state[s], d \in TableType,
         "STALE" \in x.state[s] \/ "VALID" \notin x.state[s]
  PROVE  /\ Near(x, Refilled(x, s, d), s) /\ View(Refilled(x, s, d), s)
         /\ Refilled(x, s, d).state = x.state /\ Refilled(x, s, d).seqs = x.seqs
         /\ Refilled(x, s, d).dbs[s] = d
  <1> DEFINE y == Refilled(x, s, d)
  <1>1. y \in TxnType /\ y.main = x.main /\ y.active = x.active /\ y.error = x.error
        /\ y.cursors = x.cursors /\ y.state = x.state /\ y.seqs = x.seqs
        /\ y.dbs[s] = d /\ \A u \in Slots : u # s => y.dbs[u] = x.dbs[u]
    BY DEF Refilled, Known, TxnType
  <1> HIDE DEF y
  <1>2. Near(x, y, s)
    BY <1>1 DEF Near
  <1>3. View(y, s)
    BY <1>1 DEF Known, View
  <1> QED
    BY <1>1, <1>2, <1>3 DEF y

\* z is what became of transaction y when table n was made for slot s.
Made(y, z, s, n, a) ==
    /\ z \in TxnType /\ z.active = y.active /\ z.cursors = y.cursors
    /\ z.main = [y.main EXCEPT ![n] = NewTable(a)] /\ z.dbs[s] = NewTable(a)
    /\ \A u \in Slots : u # s =>
          z.state[u] = y.state[u] /\ z.seqs[u] = y.seqs[u] /\ z.dbs[u] = y.dbs[u]

MadeFor(y, s, n, a, q, st) == [tbl_create(y, s, n, a) EXCEPT !.seqs[s] = q, !.state[s] = st]

LEMMA MadeTable ==
  ASSUME NEW y \in TxnType, NEW s \in Slots, NEW n \in Names, NEW a, a.flags = "plain",
         lastId \in Nat, NEW st \in SUBSET Marks, NEW q \in Nat
  PROVE  LET z == MadeFor(y, s, n, a, q, st)
         IN Made(y, z, s, n, a) /\ z.state[s] = st /\ z.seqs[s] = q /\ NewTable(a).id # 0
  <1> DEFINE d == NewTable(a)
             c == [y EXCEPT !.dbs[s] = d, !.main[n] = d]
             z == [c EXCEPT !.seqs[s] = q, !.state[s] = st]
             m == [y.main EXCEPT ![n] = d]
  <1>1. d \in TableType /\ d.id # 0
    BY DEF NewTable, TableType
  <1>2. tbl_create(y, s, n, a) = c
    BY DEF tbl_create
  <1> HIDE DEF d
  <1>3. m \in Mains
    BY <1>1 DEF TxnType, Mains
  <1>4. /\ c.main = m /\ c.active = y.active /\ c.error = y.error /\ c.cursors = y.cursors
        /\ c.dbs = [y.dbs EXCEPT ![s] = d] /\ c.state = y.state /\ c.seqs = y.seqs
        /\ c = [active |-> c.active, error |-> c.error, cursors |-> c.cursors, main |-> c.main,
                dbs |-> c.dbs, state |-> c.state, seqs |-> c.seqs]
    <2> DEFINE e == [y EXCEPT !.dbs[s] = d]
    <2>1. /\ e.main = y.main /\ e.active = y.active /\ e.error = y.error /\ e.cursors = y.cursors
          /\ e.dbs = [y.dbs EXCEPT ![s] = d] /\ e.state = y.state /\ e.seqs = y.seqs
          /\ e = [active |-> e.active, error |-> e.error, cursors |-> e.cursors, main |-> e.main,
                  dbs |-> e.dbs, state |-> e.state, seqs |-> e.seqs]
      BY DEF TxnType
    <2>2. c = [e EXCEPT !.main[n] = d]
      OBVIOUS
    <2> HIDE DEF c, e
    <2> QED
      BY <2>1, <2>2
  <1>5. c.dbs \in [Slots -> TableType] /\ c.dbs[s] = d /\ \A u \in Slots : u # s => c.dbs[u] = y.dbs[u]
    BY <1>1, <1>4 DEF TxnType
  <1> HIDE DEF c, m
  <1>6. c \in TxnType
    BY <1>3, <1>4, <1>5 DEF TxnType
  <1>7. /\ z \in TxnType /\ z.main = m /\ z.active = y.active /\ z.cursors = y.cursors
        /\ z.dbs = c.dbs /\ z.state = [y.state EXCEPT ![s] = st] /\ z.seqs = [y.seqs EXCEPT ![s] = q]
    BY <1>4, <1>6 DEF TxnType
  <1> HIDE DEF z
  <1>9. Made(y, z, s, n, a) /\ z.state[s] = st /\ z.seqs[s] = q
    BY <1>5, <1>7 DEF Made, TxnType, d, m
  <1> QED
    BY <1>1, <1>2, <1>9 DEF z, d, MadeFor

\* The same, when the sequence number that the transaction has is right.
LEMMA MadeAgain ==
  ASSUME NEW y \in TxnType, NEW s \in Slots, NEW n \in Names, NEW a, a.flags = "plain",
         lastId \in Nat, NEW st \in SUBSET Marks
  PROVE  LET v == State(tbl_create(y, s, n, a), s, st)
         IN Made(y, v, s, n, a) /\ v.state[s] = st /\ v.seqs[s] = y.seqs[s] /\ NewTable(a).id # 0
  <1> DEFINE q == y.seqs[s]
             c == tbl_create(y, s, n, a)
             z == MadeFor(y, s, n, a, q, st)
             v == State(c, s, st)
  <1>1. q \in Nat
    BY DEF TxnType
  <1>2. Made(y, z, s, n, a) /\ z.state[s] = st /\ z.seqs[s] = q /\ NewTable(a).id # 0
    <2> HIDE DEF q
    <2> QED
      BY <1>1, MadeTable
  <1>3. c.seqs = y.seqs
    BY DEF tbl_create, TxnType
  <1>4. [c.seqs EXCEPT ![s] = q] = c.seqs
    BY <1>3 DEF TxnType
  <1>5. z = v
    <2>1. z = [c EXCEPT !.seqs[s] = q, !.state[s] = st]
      BY DEF MadeFor
    <2> HIDE DEF c, z
    <2> QED
      BY <1>4, <2>1 DEF State
  <1> QED
    BY <1>2, <1>5

\* What mdbx_dbi_open gives for a slot that has the name: the handle as it is,
\* a slot to close, or a new table for the handle.
Kept(x, s, r) ==
    r.todo = <<>> /\ r.rc # "CREATED" /\ Near(x, r.x, s) /\ View(r.x, s)
Expelled(x, s, r) ==
    /\ r.todo = Closed(s) /\ r.rc # "CREATED" /\ Near(x, r.x, s) /\ View(r.x, s)
    /\ "DIRTY" \notin r.x.state[s]
Renewed(x, s, o, r) ==
    /\ r.todo = <<>> /\ o.a.create
    /\ \E y : /\ Near(x, y, s) /\ View(y, s) /\ "DIRTY" \notin y.state[s]
              /\ Made(y, r.x, s, o.name, o.a) /\ NewTable(o.a).id # 0
    /\ r.x.state[s] = {"LINDO", "VALID", "DIRTY"} /\ r.x.seqs[s] = env[s].seq

\* The lookup of a table for a handle that is up to date.
LEMMA FetchedKnown ==
  ASSUME NEW x, NEW s, NEW y, NEW f, NEW o, Near(x, y, s), View(y, s), s \in Slots,
         "DIRTY" \notin y.state[s], y.seqs[s] = env[s].seq, lastId \in Nat,
         env[s].name \in Names, s <= n_dbi, o.name \in Names, o.a \in Asked,
         f.rc \in {"SUCCESS", "NOTFOUND"}, f.x = y, f.todo = <<>>
  PROVE  LET r == Fetched(f, s, o) IN
         /\ Kept(x, s, r) \/ Expelled(x, s, r) \/ Renewed(x, s, o, r)
         /\ f.rc = "SUCCESS" => Kept(x, s, r)
  <1> DEFINE r == Fetched(f, s, o)
  <1>1. CASE f.rc = "SUCCESS"
    BY <1>1 DEF Fetched, Kept
  <1>2. CASE f.rc = "NOTFOUND" /\ o.a.create
    <2> DEFINE st == {"LINDO", "VALID", "DIRTY"}
               v == State(tbl_create(y, s, o.name, o.a), s, st)
    <2>1. r = Result("CREATED", v)
      BY <1>2 DEF Fetched
    <2>2. st \in SUBSET Marks /\ o.a.flags = "plain" /\ y \in TxnType
      BY DEF Marks, Asked, Near
    <2>3. Made(y, v, s, o.name, o.a) /\ v.state[s] = st /\ v.seqs[s] = y.seqs[s]
          /\ NewTable(o.a).id # 0
      <3> HIDE DEF st
      <3> QED
        BY <2>2, MadeAgain
    <2> HIDE DEF v, r
    <2>4. r.todo = <<>> /\ r.x = v
      BY <2>1 DEF Result
    <2>5. Renewed(x, s, o, r)
      BY <1>2, <2>3, <2>4 DEF Renewed
    <2> QED
      BY <1>2, <2>5 DEF r
  <1>3. CASE f.rc = "NOTFOUND" /\ ~o.a.create
    <2>1. r = Gone("NOTFOUND", y, s) /\ env[s].name # None
      BY <1>3, DbiAssumption DEF Fetched, None
    <2> QED
      BY <1>3, <2>1 DEF Gone, dbi_close_locked, Expelled
  <1> QED
    BY <1>1, <1>2, <1>3

\* All that mdbx_dbi_open does with a slot that has the name.
LEMMA FoundKnown ==
  ASSUME NEW x, NEW s, NEW o, Known(x, s), env[s].flags = "plain", s <= n_dbi,
         env[s].name = o.name, o.name \in Names, o.a \in Asked, o.fast \in 0 .. MaxDbi,
         lastId \in Nat
  PROVE  LET r == OpenFound(x, s, o) IN
         /\ Kept(x, s, r) \/ Expelled(x, s, r) \/ Renewed(x, s, o, r)
         /\ x.cursors = {} /\ "SLAIN" \notin x.state[s] /\ x.main[o.name] # NoTable /\ ~o.a.create =>
               Kept(x, s, r)
  <1> DEFINE c == Recheck(x, s, o.a)
             r == OpenFound(x, s, o)
             y == c.x
  <1>1. /\ Near(x, y, s) /\ View(y, s) /\ c.todo = <<>>
        /\ c.rc = "SUCCESS" => {"LINDO", "VALID"} \subseteq y.state[s] /\ y.seqs[s] = env[s].seq
        /\ c.rc # "SUCCESS" => "DIRTY" \notin x.state[s]
        /\ x.cursors = {} /\ "SLAIN" \notin x.state[s] => c.rc = "SUCCESS"
        /\ c.rc # "CREATED"
    BY RecheckKnown
  <1>2. r = Rechecked(c, s, o)
    BY DEF OpenFound
  <1>3. s \in Slots /\ env[s].name # None /\ MaxDbi \in Nat
    BY DbiAssumption DEF Known, None
  <1> HIDE DEF c, r
  <1>4. CASE c.rc # "SUCCESS"
    <2>1. r = Gone(c.rc, y, s)
      BY <1>2, <1>4 DEF Rechecked
    <2>2. "DIRTY" \notin y.state[s]
      BY <1>1, <1>4 DEF Near
    <2> QED
      BY <1>1, <1>3, <1>4, <2>1, <2>2 DEF Gone, dbi_close_locked, Expelled, r
  <1>5. CASE c.rc = "SUCCESS"
    <2> DEFINE b == Result("SUCCESS", y)
    <2>1. r = Bound(b, s, o)
      <3>1. dbi_bind(y, s, o.a) = b
        BY DEF dbi_bind, Asked
      <3> QED
        BY <1>2, <1>5, <3>1 DEF Rechecked
    <2>2. CASE "STALE" \notin y.state[s]
      <3>1. r = b
        BY <2>1, <2>2 DEF Bound, Result
      <3> QED
        BY <1>1, <3>1 DEF Result, Kept, r
    <2>3. CASE "STALE" \in y.state[s]
      <3>1. "DIRTY" \notin y.state[s] /\ Known(y, s) /\ y.seqs[s] = env[s].seq
        BY <1>1, <1>5, <2>3 DEF Known, View, Sane, Near, Settled
      <3>2. CASE o.fast = 0
        <4> DEFINE f == tbl_fetch(y, s, o.name, o.a)
        <4>1. r = Fetched(f, s, o)
          BY <2>1, <2>3, <3>2 DEF Bound, Result
        <4>2. \/ y.main[o.name] = NoTable /\ f = Result("NOTFOUND", y)
              \/ /\ y.main[o.name] # NoTable
                 /\ f = Result("SUCCESS", Refilled(y, s, y.main[o.name]))
          <5>1. y \in TxnType /\ o.a.flags = "plain" /\ o.name \in Names \cup {None}
            BY <3>1 DEF Known, Asked
          <5> HIDE DEF y
          <5> QED
            BY <1>3, <5>1, FetchKnown DEF Refilled
        <4> HIDE DEF f
        <4>3. CASE y.main[o.name] = NoTable /\ f = Result("NOTFOUND", y)
          <5>1. f.rc = "NOTFOUND" /\ f.x = y /\ f.todo = <<>>
            BY <4>3 DEF Result
          <5>2. x.main[o.name] = NoTable
            BY <1>1, <4>3 DEF Near
          <5> HIDE DEF y
          <5> QED
            BY <1>1, <1>3, <3>1, <4>1, <5>1, <5>2, FetchedKnown DEF r
        <4>4. CASE f = Result("SUCCESS", Refilled(y, s, y.main[o.name]))
          <5> DEFINE z == Refilled(y, s, y.main[o.name])
          <5>1. f.rc = "SUCCESS" /\ f.x = z /\ f.todo = <<>>
            BY <4>4 DEF Result
          <5>2. y.main[o.name] \in TableType
            BY <3>1 DEF Known, TxnType, Mains
          <5> HIDE DEF y, z
          <5>3. Near(y, z, s) /\ View(z, s) /\ z.state = y.state /\ z.seqs = y.seqs
            BY <2>3, <3>1, <5>2, RefilledView DEF z
          <5>4. Near(x, z, s)
            BY <1>1, <5>3, NearTwice
          <5> QED
            BY <1>3, <3>1, <4>1, <5>1, <5>3, <5>4, FetchedKnown DEF r
        <4> QED
          BY <4>2, <4>3, <4>4
      <3>3. CASE o.fast # 0
        <4> DEFINE z == Refilled(y, s, y.dbs[o.fast])
                   f == Result(IF o.a.create THEN "NOTFOUND" ELSE "SUCCESS", z)
        <4>1. r = Fetched(f, s, o)
          BY <2>1, <2>3, <3>3 DEF Bound, Result, Refilled
        <4>2. y.dbs[o.fast] \in TableType
          <5>1. o.fast \in Slots
            BY <1>3, <3>3 DEF Slots
          <5> QED
            BY <3>1, <5>1 DEF Known, TxnType
        <4>3. f.rc \in {"SUCCESS", "NOTFOUND"} /\ (~o.a.create => f.rc = "SUCCESS")
              /\ f.x = z /\ f.todo = <<>>
          BY DEF Result
        <4> HIDE DEF y, z, f
        <4>4. Near(y, z, s) /\ View(z, s) /\ z.state = y.state /\ z.seqs = y.seqs
          BY <2>3, <3>1, <4>2, RefilledView DEF z
        <4>5. Near(x, z, s)
          BY <1>1, <4>4, NearTwice
        <4> QED
          BY <1>3, <3>1, <4>1, <4>3, <4>4, <4>5, FetchedKnown DEF r
      <3> QED
        BY <3>2, <3>3
    <2> QED
      BY <2>2, <2>3
  <1> QED
    BY <1>4, <1>5

\* z is what became of transaction x when slot s became its handle of table n.
Joined(x, z, s, n, q) ==
    /\ z \in TxnType /\ z.active = x.active /\ z.cursors \subseteq x.cursors
    /\ \A m \in Names : m # n => z.main[m] = x.main[m]
    /\ \A u \in Slots : u # s =>
          z.state[u] = x.state[u] /\ z.seqs[u] = x.seqs[u] /\ z.dbs[u] = x.dbs[u]
    /\ {"LINDO", "VALID"} \subseteq z.state[s] /\ z.state[s] \cap {"STALE", "SLAIN"} = {}
    /\ z.seqs[s] = q /\ z.main[n].id = z.dbs[s].id /\ z.main[n].id # 0

LEMMA RenewedJoins ==
  ASSUME NEW x, NEW s, NEW o, NEW r, Renewed(x, s, o, r), s \in Slots, o.name \in Names
  PROVE  Joined(x, r.x, s, o.name, env[s].seq)
  <1>1. PICK y : /\ Near(x, y, s) /\ View(y, s) /\ "DIRTY" \notin y.state[s]
                 /\ Made(y, r.x, s, o.name, o.a) /\ NewTable(o.a).id # 0
    BY DEF Renewed
  <1>2. r.x.state[s] = {"LINDO", "VALID", "DIRTY"} /\ r.x.seqs[s] = env[s].seq
    BY DEF Renewed
  <1>3. y.main \in [Names -> TableType] /\ y.main = x.main
    BY <1>1 DEF Near, TxnType, Mains
  <1> QED
    BY <1>1, <1>2, <1>3 DEF Joined, Near, Made

\* The other handles of the transaction are as they were.
NoOther(s, n) == \A u \in Slots : u # s /\ env[u].flags = "plain" => env[u].name # n
Joined1(z, t, s) ==
    /\ z \in TxnType /\ z.active /\ Sane(z.state[s])
    /\ \A u \in Slots : u # s => View(z, u)
    /\ t = "w" => z.cursors = {}
    /\ t = "r" => \A u \in Slots : u # s => z.state[u] \cap {"SLAIN", "DIRTY"} = {}
    /\ t = "w" =>
         /\ \A u \in Slots : u # s /\ "DIRTY" \in z.state[u] =>
               z.seqs[u] = env[u].seq /\ env[u].flags = "plain" /\ ~Busy(u)
         /\ \A id \in wrote : \E u \in Slots :
               "DIRTY" \in z.state[u] /\ z.dbs[u].id = id /\ z.dbs[u].full

LEMMA JoinedFacts ==
  ASSUME Types, SlotsInv, Views, Writes, NEW t \in Threads, txn[t].active, op[t].pc # "store",
         NEW s \in Slots, NEW n \in Names, NEW z, NEW q, Joined(txn[t], z, s, n, q),
         "DIRTY" \notin txn[t].state[s], NoOther(s, n)
  PROVE  Joined1(z, t, s)
  <1> DEFINE x == txn[t]
  <1>1. /\ \A u \in Slots : Known(x, u)
        /\ t = "w" => \A u \in Slots : "DIRTY" \in x.state[u] =>
                          x.seqs[u] = env[u].seq /\ env[u].flags = "plain" /\ ~Busy(u)
    BY Knows
  <1>2. \A u \in Slots : u # s => View(z, u)
    <2>1. SUFFICES ASSUME NEW u \in Slots, u # s
                   PROVE  View(z, u)
      OBVIOUS
    <2>2. View(x, u) /\ (env[u].flags = "plain" => env[u].name # n /\ env[u].name \in Names)
      BY <1>1, <2>1 DEF Known, SlotsInv, NoOther
    <2> HIDE DEF x
    <2> QED
      BY <2>1, <2>2 DEF Joined, View, x
  <1>3. t = "w" => \A id \in wrote : \E u \in Slots :
                      "DIRTY" \in z.state[u] /\ z.dbs[u].id = id /\ z.dbs[u].full
    BY DEF Joined, Writes, Written1
  <1>4. t = "r" => \A u \in Slots : u # s => z.state[u] \cap {"SLAIN", "DIRTY"} = {}
    BY DEF Joined, Types
  <1>5. Sane(z.state[s])
    BY DEF Joined, Sane
  <1>6. t = "w" => z.cursors = {}
    BY DEF Joined, Types
  <1> QED
    BY <1>1, <1>2, <1>3, <1>4, <1>5, <1>6 DEF Joined, Joined1

\* A free slot is poisoned: what the transaction knew of it is void.
LEMMA PoisonedView ==
  ASSUME NEW x, NEW s, Known(x, s), env[s].flags # "plain"
  PROVE  /\ Near(x, Poisoned(x, s), s) /\ View(Poisoned(x, s), s)
         /\ "VALID" \notin Poisoned(x, s).state[s] /\ "LINDO" \in Poisoned(x, s).state[s]
         /\ "DIRTY" \notin x.state[s]
  <1> DEFINE st == IF x.state[s] \cap {"OLDEN", "VALID", "SLAIN"} # {}
                   THEN (x.state[s] \cap {"SLAIN"}) \cup {"OLDEN", "LINDO"} ELSE {"LINDO"}
             q == env[s].seq + 1
             y == [x EXCEPT !.seqs[s] = q, !.state[s] = st]
  <1>1. Poisoned(x, s) = y
    BY DEF Poisoned, Known, TxnType
  <1>2. q \in Nat /\ st \in SUBSET Marks /\ x \in TxnType /\ s \in Slots
        /\ "DIRTY" \notin x.state[s]
    BY DEF Known, SlotType, Marks, Settled
  <1>3. "VALID" \notin st /\ "LINDO" \in st /\ Sane(st) /\ "DIRTY" \notin st
        /\ ("SLAIN" \in st => "SLAIN" \in x.state[s])
    BY DEF Sane
  <1> HIDE DEF st, q
  <1>4. /\ y \in TxnType /\ y.main = x.main /\ y.active = x.active /\ y.error = x.error
        /\ y.cursors = x.cursors /\ y.dbs = x.dbs /\ y.state[s] = st
        /\ \A u \in Slots : u # s => y.state[u] = x.state[u] /\ y.seqs[u] = x.seqs[u]
    BY <1>2 DEF TxnType
  <1> HIDE DEF y
  <1> QED
    BY <1>1, <1>2, <1>3, <1>4 DEF Near, View

\* All that mdbx_dbi_open does with a free slot: it gives the slot up again or
\* makes it the handle of the table.
LEMMA NewKnown ==
  ASSUME NEW x, NEW s, NEW o, Known(x, s), env[s].flags # "plain",
         o.name \in Names, o.a \in Asked, lastId \in Nat
  PROVE  LET r == OpenNew(x, s, o) IN
         /\ "DIRTY" \notin x.state[s]
         /\ \/ r.todo = Refused(s) /\ Near(x, r.x, s) /\ View(r.x, s)
            \/ /\ r.todo = Registered(s, o.name, "plain", FALSE)
               /\ Joined(x, r.x, s, o.name, env[s].seq + 2)
               /\ "DIRTY" \in r.x.state[s] => o.a.create
  <1> DEFINE p == Poisoned(x, s)
             n == o.name
             a == o.a
             f == tbl_fetch(p, s, n, a)
             r == Enrolled(x, f, s, o)
             bad == x.state[s] # {} /\ s \in x.cursors
             q == env[s].seq
  <1>1. OpenNew(x, s, o) = r
    BY DEF OpenNew
  <1>2. a.flags = "plain" /\ a.create \in BOOLEAN /\ s \in Slots /\ q + 2 \in Nat /\ n # None
    BY DbiAssumption DEF Asked, Known, SlotType, None
  <1>3. /\ Near(x, p, s) /\ View(p, s) /\ "VALID" \notin p.state[s] /\ "LINDO" \in p.state[s]
        /\ "DIRTY" \notin x.state[s]
    BY PoisonedView
  <1> HIDE DEF p
  <1>4. p \in TxnType /\ Known(p, s) /\ "DIRTY" \notin p.state[s]
    BY <1>3 DEF Known, Near, Settled, View, Sane
  <1>5. \/ p.main[n] = NoTable /\ f = Result("NOTFOUND", p)
        \/ /\ p.main[n] # NoTable /\ p.main[n].id # 0
           /\ f = Result("SUCCESS", Refilled(p, s, p.main[n]))
    <2> HIDE DEF n, a
    <2>1. n \in Names \cup {None}
      BY DEF n
    <2> QED
      BY <1>2, <1>4, <2>1, FetchKnown DEF f, Refilled
  <1> DEFINE y == f.x
  <1>6. /\ Near(x, y, s) /\ View(y, s) /\ Known(y, s) /\ "VALID" \notin y.state[s]
        /\ "LINDO" \in y.state[s] /\ "DIRTY" \notin y.state[s]
        /\ f.rc \in {"SUCCESS", "NOTFOUND"}
        /\ f.rc = "SUCCESS" => y.dbs[s] = p.main[n] /\ y.main[n] = p.main[n] /\ p.main[n].id # 0
    <2>1. CASE f = Result("NOTFOUND", p)
      BY <1>3, <1>4, <2>1 DEF Result
    <2>2. CASE p.main[n].id # 0 /\ f = Result("SUCCESS", Refilled(p, s, p.main[n]))
      <3> DEFINE d == p.main[n]
                 z == Refilled(p, s, d)
      <3>1. d \in TableType
        BY <1>4 DEF TxnType, Mains
      <3>2. y = z /\ f.rc = "SUCCESS"
        BY <2>2 DEF Result
      <3> HIDE DEF d, y, z, f
      <3>3. /\ Near(p, z, s) /\ View(z, s) /\ z.state = p.state /\ z.seqs = p.seqs /\ z.dbs[s] = d
        BY <1>3, <1>4, <3>1, RefilledView DEF z
      <3>4. Near(x, z, s)
        BY <1>3, <3>3, NearTwice
      <3>5. z.main = p.main
        BY <3>3 DEF Near
      <3>6. Known(z, s)
        BY <1>4, <3>3 DEF Known, Near, Settled
      <3> QED
        BY <1>3, <1>4, <2>2, <3>2, <3>3, <3>4, <3>5, <3>6 DEF d
    <2> QED
      BY <1>5, <2>1, <2>2
  <1> HIDE DEF f
  <1>7. CASE bad \/ (f.rc = "NOTFOUND" /\ ~a.create)
    <2> DEFINE st == y.state[s] \cap {"LINDO", "OLDEN"}
               z == State(y, s, st)
    <2>1. r.todo = Refused(s) /\ r.x = z
      BY <1>7 DEF Enrolled
    <2>2. st \in SUBSET Marks /\ Sane(st) /\ "VALID" \notin st /\ st \cap {"DIRTY", "SLAIN"} = {}
          /\ y \in TxnType /\ s \in Slots
      BY <1>2, <1>4, <1>6 DEF Sane, Marks, Near
    <2> HIDE DEF st
    <2>3. /\ z \in TxnType /\ z.main = y.main /\ z.active = y.active /\ z.error = y.error
          /\ z.cursors = y.cursors /\ z.dbs = y.dbs /\ z.seqs = y.seqs /\ z.state[s] = st
          /\ \A u \in Slots : u # s => z.state[u] = y.state[u]
      BY <2>2 DEF TxnType, State
    <2> HIDE DEF z, y
    <2>4. Near(y, z, s) /\ View(z, s)
      BY <1>6, <2>2, <2>3 DEF Near, View
    <2>5. Near(x, z, s)
      BY <1>6, <2>4, NearTwice
    <2> QED
      BY <1>1, <1>3, <2>1, <2>4, <2>5
  <1>8. CASE ~bad /\ f.rc = "NOTFOUND" /\ a.create
    <2> DEFINE st == {"LINDO", "VALID", "FRESH", "CREAT", "DIRTY"}
               k == q + 2
               z == MadeFor(y, s, n, a, k, st)
    <2>1. r.todo = Registered(s, n, "plain", FALSE) /\ r.x = z
      BY <1>2, <1>8 DEF Enrolled, MadeFor
    <2>2. st \in SUBSET Marks /\ y \in TxnType
      BY <1>6 DEF Marks, Near
    <2>3. Made(y, z, s, n, a) /\ z.state[s] = st /\ z.seqs[s] = k /\ NewTable(a).id # 0
      <3>1. k \in Nat
        BY <1>2
      <3> HIDE DEF st, y, k
      <3> QED
        BY <1>2, <2>2, <3>1, MadeTable
    <2> HIDE DEF z, y
    <2>4. y.main \in [Names -> TableType] /\ y.main = x.main
      BY <1>6 DEF Near, TxnType, Mains
    <2>5. Joined(x, z, s, n, q + 2)
      BY <1>6, <2>3, <2>4 DEF Joined, Near, Made
    <2> QED
      BY <1>1, <1>3, <1>8, <2>1, <2>5
  <1>9. CASE ~bad /\ f.rc = "SUCCESS"
    <2> DEFINE st == {"LINDO", "VALID", "FRESH"}
               z == [y EXCEPT !.seqs[s] = q + 2, !.state[s] = st]
    <2>1. y.dbs[s].flags = "plain"
      BY <1>6 DEF Known, TxnType, TableType
    <2>2. r.todo = Registered(s, n, "plain", FALSE) /\ r.x = z
      BY <1>2, <1>9, <2>1 DEF Enrolled
    <2>3. st \in SUBSET Marks /\ y \in TxnType
      BY <1>6 DEF Marks, Near
    <2> HIDE DEF y
    <2>4. /\ z \in TxnType /\ z.main = y.main /\ z.active = y.active
          /\ z.cursors = y.cursors /\ z.dbs = y.dbs /\ z.state[s] = st /\ z.seqs[s] = q + 2
          /\ \A u \in Slots : u # s => z.state[u] = y.state[u] /\ z.seqs[u] = y.seqs[u]
      BY <1>2, <2>3 DEF TxnType
    <2> HIDE DEF z
    <2>5. Joined(x, z, s, n, q + 2)
      BY <1>6, <1>9, <2>4 DEF Joined, Near
    <2>6. "DIRTY" \notin r.x.state[s] /\ Joined(x, r.x, s, n, q + 2)
      BY <2>2, <2>4, <2>5
    <2> HIDE DEF r, n
    <2> QED
      BY <1>1, <1>3, <2>2, <2>6 DEF n
  <1> QED
    BY <1>2, <1>6, <1>7, <1>8, <1>9

\* One slot to store to.
LEMMA OneJob ==
  ASSUME NEW t \in Threads, NEW s \in Slots, NEW td \in Seq(SlotType), lock' = t,
         op'[t].jobs = << [slot |-> s, todo |-> td] >>
  PROVE  /\ op'[t].jobs \in Seq(JobType) /\ op'[t].jobs # <<>> /\ Len(op'[t].jobs) = 1
         /\ DOMAIN op'[t].jobs = {1} /\ Slot(t)' = s /\ Todo(t)' = td
         /\ \A u \in Slots : Busy(u)' => u = s
  <1> DEFINE j == [slot |-> s, todo |-> td]
  <1>1. j \in JobType /\ j.slot = s /\ j.todo = td
    BY DEF JobType
  <1> HIDE DEF j
  <1>2. op'[t].jobs = << j >>
    BY DEF j
  <1>3. op'[t].jobs \in Seq(JobType) /\ op'[t].jobs # <<>> /\ Len(op'[t].jobs) = 1
        /\ DOMAIN op'[t].jobs = {1} /\ op'[t].jobs[1] = j
    BY <1>1, <1>2
  <1>4. Slot(t)' = s /\ Todo(t)' = td
    BY <1>1, <1>3 DEF Slot, Todo
  <1>5. \A u \in Slots : Busy(u)' => u = s
    BY <1>1, <1>3 DEF Busy
  <1> QED
    BY <1>3, <1>4, <1>5

\* Two stores and two more.
LEMMA TwoAndTwo ==
  ASSUME NEW a, NEW b, NEW c, NEW d
  PROVE  << a, b >> \o << c, d >> = << a, b, c, d >>
  <1> DEFINE S == {a, b, c, d}
             x == << a, b >>
             y == << c, d >>
             z == << a, b, c, d >>
  <1>1. x \in Seq(S) /\ y \in Seq(S) /\ z \in Seq(S) /\ Len(x) = 2 /\ Len(y) = 2 /\ Len(z) = 4
    OBVIOUS
  <1>2. x[1] = a /\ x[2] = b /\ y[1] = c /\ y[2] = d /\ z[1] = a /\ z[2] = b /\ z[3] = c /\ z[4] = d
    OBVIOUS
  <1> HIDE DEF S, x, y, z
  <1> DEFINE w == x \o y
  <1>3. w \in Seq(S) /\ Len(w) = 4 /\ \A i \in 1 .. 4 : w[i] = IF i <= 2 THEN x[i] ELSE y[i - 2]
    <2>1. /\ x \o y \in Seq(S) /\ Len(x \o y) = Len(x) + Len(y)
          /\ \A i \in 1 .. Len(x) + Len(y) :
                (x \o y)[i] = IF i <= Len(x) THEN x[i] ELSE y[i - Len(x)]
      <3>1. x \in Seq(S) /\ y \in Seq(S)
        BY <1>1
      <3> HIDE DEF w
      <3> QED
        BY ONLY <3>1, ConcatProperties
    <2> QED
      BY <1>1, <2>1
  <1> HIDE DEF w
  <1>4. w[1] = a /\ w[2] = b
    BY <1>2, <1>3
  <1>5. w[3] = c /\ w[4] = d
    <2>1. 3 - 2 = 1 /\ 4 - 2 = 2 /\ 3 \in 1 .. 4 /\ 4 \in 1 .. 4 /\ ~(3 <= 2) /\ ~(4 <= 2)
      OBVIOUS
    <2>2. w[3] = y[3 - 2] /\ w[4] = y[4 - 2]
      BY <1>3, <2>1
    <2> QED
      BY <1>2, <2>1, <2>2
  <1>6. \A i \in 1 .. 4 : w[i] = z[i]
    <2>1. TAKE i \in 1 .. 4
    <2>2. i = 1 \/ i = 2 \/ i = 3 \/ i = 4
      OBVIOUS
    <2> QED
      BY <1>2, <1>4, <1>5, <2>2
  <1>7. w = z
    BY <1>1, <1>3, <1>6, SeqEqual
  <1>8. x \o y = z
    BY <1>7 DEF w
  <1> QED
    BY <1>8 DEF x, y, z

LEMMA RegisteredJob ==
  ASSUME NEW s \in Slots, NEW n \in Names, NEW q \in Nat, env[s] = Off(q, None)
  PROVE  LET td == Registered(s, n, "plain", FALSE) IN
         /\ td \in Seq(SlotType) /\ td # <<>> /\ Enrolling(env[s], td, q + 2, n)
         /\ td[Len(td)].flags = "plain"
  <1> DEFINE td == Registered(s, n, "plain", FALSE)
  <1>1. env[s].seq = q
    BY DEF Off
  <1>2. td = << Mid(q), Mid(q + 1), Off(q + 2, n), On(q + 2, n) >>
    <2> DEFINE a == << Mid(q), Mid(q + 1) >>
               b == << Off(q + 2, n), On(q + 2, n) >>
    <2>1. td = a \o b
      BY <1>1 DEF Registered, Mid, Off, On
    <2> HIDE DEF td
    <2> QED
      BY <2>1, TwoAndTwo
  <1>3. Mid(q) \in SlotType /\ Mid(q + 1) \in SlotType /\ Off(q + 2, n) \in SlotType
        /\ On(q + 2, n) \in SlotType /\ On(q + 2, n).flags = "plain"
    BY DEF Mid, Off, On, SlotType
  <1> HIDE DEF td
  <1>4. td \in Seq(SlotType) /\ td # <<>> /\ td[Len(td)] = On(q + 2, n)
    BY <1>2, <1>3
  <1>5. (q + 2) - 2 = q /\ (q + 2) - 1 = q + 1
    OBVIOUS
  <1>6. Enrolling(env[s], td, q + 2, n)
    BY <1>2, <1>5 DEF Enrolling
  <1> QED
    BY <1>3, <1>4, <1>6 DEF td

LEMMA RefusedJob ==
  ASSUME NEW s \in Slots, NEW q \in Nat, env[s] = Off(q, None)
  PROVE  LET td == Refused(s) IN
         td \in Seq(SlotType) /\ td # <<>> /\ Refusing(env[s], td)
  <1> DEFINE td == Refused(s)
  <1>1. env[s].seq = q
    BY DEF Off
  <1>2. td = << Mid(q), Mid(q + 1), Off(q + 1, None) >>
    BY <1>1 DEF Refused, Mid, Off
  <1>3. Mid(q) \in SlotType /\ Mid(q + 1) \in SlotType /\ Off(q + 1, None) \in SlotType
    BY DEF Mid, Off, SlotType
  <1> HIDE DEF td
  <1>4. td \in Seq(SlotType) /\ td # <<>>
    BY <1>2, <1>3
  <1>5. Refusing(env[s], td)
    BY <1>1, <1>2 DEF Refusing
  <1> QED
    BY <1>4, <1>5 DEF td

\* The call returns at once.
LEMMA OpenReturns ==
  ASSUME Inv, NEW t \in Threads, lock = None, Release(t), NEW y, txn' = [txn EXCEPT ![t] = y],
         env' = env
  PROVE  Ops' /\ lock' = lock /\ DOMAIN op' = Threads
  <1>1. lock' = lock /\ op' = [op EXCEPT ![t] = Idle] /\ DOMAIN op = Threads
    BY DEF Release, Inv, Types
  <1>2. op'[t] = Idle /\ \A u \in Threads : u # t => txn'[u] = txn[u]
    BY <1>1 DEF Inv, Types
  <1> QED
    BY <1>1, <1>2, IdleOp, OpsStep DEF Inv

LEMMA OpenFoundStep ==
  ASSUME Inv, NEW t \in Threads, op[t].pc = "slow", lock = None, OpenInv(t),
         NEW s \in Slots, s <= n_dbi, env[s].flags = "plain", env[s].name = op[t].name,
         Opened(t, s, OpenFound(txn[t], s, op[t])),
         UNCHANGED <<env, n_dbi, tables, wrote, lost>>
  PROVE  Inv'
  <1> DEFINE x == txn[t]
             o == op[t]
             n == o.name
             r == OpenFound(x, s, o)
             y == r.x
  <1>1. /\ txn' = [txn EXCEPT ![t] = y] /\ Locked(t, Job(s, r.todo), "open")
        /\ lastId' = IF r.rc = "CREATED" THEN lastId + 1 ELSE lastId
    BY DEF Opened
  <1>2. /\ x.active /\ x \in TxnType /\ n \in Names /\ o.a \in Asked /\ o.fast \in 0 .. MaxDbi
        /\ lastId \in Nat /\ DOMAIN op = Threads /\ o.pc # "store"
    BY DbiAssumption DEF OpenInv, ScanType, Inv, Types
  <1>3. lock # t /\ \A u \in Slots : Known(x, u)
    BY <1>2, Knows DEF Inv
  <1>4. /\ Kept(x, s, r) \/ Expelled(x, s, r) \/ Renewed(x, s, o, r)
        /\ x.cursors = {} /\ "SLAIN" \notin x.state[s] /\ x.main[n] # NoTable /\ ~o.a.create =>
              Kept(x, s, r)
    <2> HIDE DEF x, o
    <2> QED
      BY <1>2, <1>3, FoundKnown DEF o
  <1>5. t = "r" => Kept(x, s, r)
    <2>1. t = "r" => "SLAIN" \notin x.state[s]
      BY DEF Inv, Types
    <2> QED
      BY <1>4, <2>1 DEF OpenInv
  <1>6. lastId' \in Nat
    BY <1>1, <1>2
  <1> HIDE DEF r
  <1>7. CASE Kept(x, s, r)
    <2>1. r.todo = <<>> /\ lastId' = lastId /\ Near(x, y, s) /\ View(y, s)
      BY <1>1, <1>7 DEF Kept
    <2>2. Release(t)
      BY <1>1, <2>1 DEF Locked, Job
    <2> HIDE DEF y
    <2>3. Ops' /\ lock' = lock /\ DOMAIN op' = Threads
      BY <1>1, <2>2, OpenReturns
    <2>4. Types' /\ SlotsInv' /\ Views' /\ Writes'
      BY <1>1, <1>2, <2>1, <2>3, NearStep DEF Inv
    <2> QED
      BY <2>3, <2>4 DEF Inv
  <1>8. CASE Renewed(x, s, o, r)
    <2>1. r.todo = <<>> /\ o.a.create
      BY <1>8 DEF Renewed
    <2>2. Release(t) /\ t = "w"
      BY <1>1, <2>1 DEF Locked, Job, OpenInv, Threads
    <2>3. Joined(x, y, s, n, env[s].seq) /\ "DIRTY" \notin x.state[s]
      <3>1. "DIRTY" \notin x.state[s]
        BY <1>8 DEF Renewed, Near
      <3> HIDE DEF x, o
      <3> QED
        BY <1>2, <1>8, <3>1, RenewedJoins
    <2>4. \A u \in Slots : u # s /\ env[u].flags = "plain" => env[u].name # n
      BY DEF Inv, SlotsInv
    <2> HIDE DEF y
    <2>5. /\ y \in TxnType /\ y.active /\ Sane(y.state[s])
          /\ \A u \in Slots : u # s => View(y, u)
          /\ y.cursors = {}
          /\ \A u \in Slots : u # s /\ "DIRTY" \in y.state[u] =>
                  y.seqs[u] = env[u].seq /\ env[u].flags = "plain" /\ ~Busy(u)
          /\ \A id \in wrote : \E u \in Slots :
                  "DIRTY" \in y.state[u] /\ y.dbs[u].id = id /\ y.dbs[u].full
      <3>1. NoOther(s, n)
        BY <2>4 DEF NoOther
      <3> HIDE DEF n
      <3>2. Joined1(y, t, s)
        BY <1>2, <2>3, <3>1, JoinedFacts DEF Inv
      <3> QED
        BY <2>2, <3>2 DEF Joined1
    <2>6. View(y, s) /\ Changed(y, s)
      <3>1. y.seqs[s] = env[s].seq /\ y.main[n].id = y.dbs[s].id /\ y.main[n].id # 0
            /\ env[s].name = n /\ env[s].seq \in Nat
        BY <2>3 DEF Joined, Inv, SlotsInv, SlotType
      <3> HIDE DEF n
      <3> QED
        BY <2>5, <3>1 DEF View, Changed, Busy
    <2>7. \A u \in Slots : View(y, u) /\ ("DIRTY" \in y.state[u] => Changed(y, u))
      BY <2>5, <2>6 DEF Changed
    <2>8. Ops' /\ lock' = lock /\ DOMAIN op' = Threads
      BY <1>1, <2>2, OpenReturns
    <2>9. Types' /\ SlotsInv' /\ Views' /\ Writes'
      BY <1>1, <1>3, <1>6, <2>2, <2>5, <2>7, <2>8, TxnStep DEF Inv, Types
    <2> QED
      BY <2>8, <2>9 DEF Inv
  <1>9. CASE Expelled(x, s, r) /\ t = "w"
    <2> DEFINE j == << [slot |-> s, todo |-> Closed(s)] >>
               p == [pc |-> "store", jobs |-> j, by |-> "open"]
    <2>1. r.todo = Closed(s) /\ Near(x, y, s) /\ View(y, s) /\ "DIRTY" \notin y.state[s]
      BY <1>9 DEF Expelled
    <2>2. env[s] \in SlotType
      BY DEF Inv, SlotsInv
    <2>3. Closed(s) # <<>>
      BY <1>2, <2>2, ClosedJob
    <2>4. Job(s, r.todo) = j /\ j # <<>>
      BY <2>1, <2>3 DEF Job
    <2>5. lock' = t /\ op' = [op EXCEPT ![t] = p]
      BY <1>1, <2>4 DEF Locked, Holding
    <2>6. p.pc = "store" /\ p.jobs = j
      OBVIOUS
    <2> HIDE DEF p, y
    <2>7. op'[t] = p /\ txn'[t] = y
      BY <1>1, <1>2, <2>5 DEF Inv, Types
    <2>8. Holder(t)' /\ \A u \in Slots : Busy(u)' => u = s
      BY <1>2, <1>9, <2>2, <2>5, <2>6, <2>7, CloseHolder
    <2>9. /\ y \in TxnType /\ \A u \in Slots : View(y, u)
          /\ y.cursors = {}
          /\ \A u \in Slots : "DIRTY" \in y.state[u] => Changed(y, u)
          /\ \A id \in wrote : \E u \in Slots :
                  "DIRTY" \in y.state[u] /\ y.dbs[u].id = id /\ y.dbs[u].full
      BY <1>2, <1>9, <2>1, NearFacts DEF Inv
    <2>10. \A u \in Slots : "DIRTY" \in y.state[u] => Changed(txn["w"], u)'
      <3>1. SUFFICES ASSUME NEW u \in Slots, "DIRTY" \in y.state[u]
                     PROVE  Changed(txn["w"], u)'
        OBVIOUS
      <3>2. u # s /\ Changed(y, u)
        BY <2>1, <2>9, <3>1
      <3>3. y.seqs[u] = env[u].seq /\ env[u].flags = "plain"
        BY <1>3, <1>9, <3>2 DEF Changed, Enrols
      <3> QED
        BY <1>9, <2>7, <2>8, <3>2, <3>3 DEF Changed
    <2>11. Types' /\ SlotsInv' /\ Views' /\ Writes' /\ Ops'
      BY <1>1, <1>6, <1>9, <2>5, <2>6, <2>7, <2>8, <2>9, <2>10, LockStep DEF Inv, Types
    <2> QED
      BY <2>11 DEF Inv
  <1> QED
    BY <1>4, <1>5, <1>7, <1>8, <1>9 DEF Threads

LEMMA OpenNewStep ==
  ASSUME Inv, NEW t \in Threads, op[t].pc = "slow", lock = None, OpenInv(t),
         NEW s \in Slots, env[s] = Off(env[s].seq, None),
         \A u \in Slots : env[u].flags = "plain" => env[u].name # op[t].name,
         Opened(t, s, OpenNew(txn[t], s, op[t])),
         UNCHANGED <<env, n_dbi, tables, wrote, lost>>
  PROVE  Inv'
  <1> DEFINE x == txn[t]
             o == op[t]
             n == o.name
             r == OpenNew(x, s, o)
             y == r.x
             q == env[s].seq
             td == r.todo
             p == [pc |-> "store", jobs |-> << [slot |-> s, todo |-> td] >>, by |-> "open"]
  <1>1. /\ txn' = [txn EXCEPT ![t] = y] /\ Locked(t, Job(s, td), "open")
        /\ lastId' = IF r.rc = "CREATED" THEN lastId + 1 ELSE lastId
    BY DEF Opened
  <1>2. /\ x.active /\ x \in TxnType /\ n \in Names /\ o.a \in Asked
        /\ lastId \in Nat /\ DOMAIN op = Threads /\ o.pc # "store" /\ q \in Nat
        /\ env[s].flags # "plain"
    BY DbiAssumption DEF OpenInv, ScanType, Inv, Types, SlotsInv, SlotType, Off, Free
  <1>3. lock # t /\ \A u \in Slots : Known(x, u)
    BY <1>2, Knows DEF Inv
  <1>4. /\ "DIRTY" \notin x.state[s]
        /\ \/ td = Refused(s) /\ Near(x, y, s) /\ View(y, s)
           \/ /\ td = Registered(s, n, "plain", FALSE)
              /\ Joined(x, y, s, n, q + 2)
              /\ "DIRTY" \in y.state[s] => o.a.create
    <2> HIDE DEF x, o
    <2> QED
      BY <1>2, <1>3, NewKnown DEF n
  <1>5. lastId' \in Nat
    BY <1>1, <1>2
  <1> HIDE DEF r, td
  <1>6. ASSUME td \in Seq(SlotType), td # <<>>
        PROVE  /\ lock' = t /\ op' = [op EXCEPT ![t] = p] /\ op'[t] = p /\ p.pc = "store"
               /\ op'[t].jobs \in Seq(JobType) /\ op'[t].jobs # <<>> /\ Len(op'[t].jobs) = 1
               /\ DOMAIN op'[t].jobs = {1} /\ Slot(t)' = s /\ Todo(t)' = td
               /\ \A u \in Slots : Busy(u)' => u = s
               /\ txn'[t] = y
    <2>1. Job(s, td) = << [slot |-> s, todo |-> td] >> /\ Job(s, td) # <<>>
      BY <1>6 DEF Job
    <2>2. lock' = t /\ op' = [op EXCEPT ![t] = p]
      BY <1>1, <2>1 DEF Locked, Holding
    <2>3. op'[t] = p /\ p.jobs = << [slot |-> s, todo |-> td] >> /\ p.pc = "store"
      BY <1>2, <2>2
    <2> HIDE DEF p
    <2>4. op'[t].jobs = << [slot |-> s, todo |-> td] >>
      BY <2>3
    <2>5. txn'[t] = y
      BY <1>1 DEF Inv, Types
    <2> QED
      BY <1>6, <2>2, <2>3, <2>4, <2>5, OneJob
  <1> HIDE DEF p
  <1>7. CASE td = Refused(s) /\ Near(x, y, s) /\ View(y, s)
    <2>1. td \in Seq(SlotType) /\ td # <<>> /\ Refusing(env[s], td)
      <3> HIDE DEF q
      <3> QED
        BY <1>2, <1>7, RefusedJob DEF q
    <2>2. Holder(t)'
      BY <1>6, <2>1 DEF Holder
    <2> HIDE DEF y
    <2>3. /\ y \in TxnType /\ \A u \in Slots : View(y, u)
          /\ t = "w" => y.cursors = {}
          /\ t = "r" => \A u \in Slots : y.state[u] \cap {"SLAIN", "DIRTY"} = {}
          /\ t = "w" =>
               /\ \A u \in Slots : "DIRTY" \in y.state[u] => Changed(y, u)
               /\ \A id \in wrote : \E u \in Slots :
                     "DIRTY" \in y.state[u] /\ y.dbs[u].id = id /\ y.dbs[u].full
      BY <1>2, <1>7, NearFacts DEF Inv
    <2>4. txn'["w"].active => \A u \in Slots : "DIRTY" \in txn'["w"].state[u] => Changed(txn["w"], u)'
      <3>1. CASE t = "w"
        <4>1. SUFFICES ASSUME NEW u \in Slots, "DIRTY" \in y.state[u]
                       PROVE  Changed(txn["w"], u)'
          BY <1>6, <2>1, <3>1
        <4>2. Changed(y, u) /\ u # s
          BY <1>4, <1>7, <2>3, <3>1, <4>1 DEF Near
        <4>3. y.seqs[u] = env[u].seq /\ env[u].flags = "plain"
          BY <1>3, <3>1, <4>2 DEF Changed, Enrols
        <4> QED
          BY <1>6, <2>1, <3>1, <4>2, <4>3 DEF Changed
      <3>2. CASE t = "r"
        <4>1. SUFFICES ASSUME NEW u \in Slots, txn["w"].active, "DIRTY" \in txn["w"].state[u]
                       PROVE  Changed(txn["w"], u)'
          BY <1>1, <3>2 DEF Inv, Types, Threads
        <4>2. txn["w"].seqs[u] = env[u].seq /\ env[u].flags = "plain"
          BY <4>1 DEF Inv, Writes, Changed, Enrols, None
        <4>3. u # s /\ txn'["w"] = txn["w"]
          BY <1>1, <1>2, <3>2, <4>2 DEF Inv, Types, Threads
        <4> QED
          BY <1>6, <2>1, <4>2, <4>3 DEF Changed
      <3> QED
        BY <3>1, <3>2 DEF Threads
    <2>5. Types' /\ SlotsInv' /\ Views' /\ Writes' /\ Ops'
      <3>1. tables' \in Mains /\ wrote' = wrote
        BY DEF Inv, Types
      <3>2. txn' = [txn EXCEPT ![t] = y] /\ lock' = t /\ op' = [op EXCEPT ![t] = p]
            /\ p.pc = "store" /\ env' = env /\ n_dbi' = n_dbi
        BY <1>1, <1>6, <2>1
      <3>3. y.active => \A u \in Slots : View(y, u) \/ (Enrols(t, u)' /\ Sane(y.state[u]))
        BY <2>3
      <3> QED
        BY <1>5, <2>2, <2>3, <2>4, <3>1, <3>2, <3>3, LockStep
    <2> QED
      BY <2>5 DEF Inv
  <1>8. CASE /\ td = Registered(s, n, "plain", FALSE)
             /\ Joined(x, y, s, n, q + 2)
             /\ "DIRTY" \in y.state[s] => o.a.create
    <2>1. td \in Seq(SlotType) /\ td # <<>> /\ Enrolling(env[s], td, q + 2, n)
          /\ td[Len(td)].flags = "plain"
      <3> HIDE DEF q, n
      <3> QED
        BY <1>2, <1>8, RegisteredJob DEF q
    <2>2. lock' = t /\ Slot(t)' = s /\ Todo(t)' = td /\ txn'[t] = y
          /\ \A u \in Slots : Busy(u)' => u = s
      BY <1>6, <2>1
    <2>3. Enrols(t, s)'
      BY <2>1, <2>2 DEF Enrols, Target
    <2> HIDE DEF y
    <2>4. /\ y \in TxnType /\ y.active /\ Sane(y.state[s])
          /\ \A u \in Slots : u # s => View(y, u)
          /\ t = "w" => y.cursors = {}
          /\ t = "r" => \A u \in Slots : u # s => y.state[u] \cap {"SLAIN", "DIRTY"} = {}
          /\ t = "w" =>
               /\ \A u \in Slots : u # s /\ "DIRTY" \in y.state[u] =>
                     y.seqs[u] = env[u].seq /\ env[u].flags = "plain" /\ ~Busy(u)
               /\ \A id \in wrote : \E u \in Slots :
                     "DIRTY" \in y.state[u] /\ y.dbs[u].id = id /\ y.dbs[u].full
      <3>1. NoOther(s, n)
        BY DEF NoOther
      <3> HIDE DEF n, q
      <3>2. Joined1(y, t, s)
        BY <1>2, <1>4, <1>8, <3>1, JoinedFacts DEF Inv
      <3> QED
        BY <3>2 DEF Joined1
    <2>5. Enrolled1(y, s, q + 2, n)
      BY <1>8, <2>4 DEF Joined, Enrolled1
    <2>6. Holder(t)'
      <3>1. q + 2 \in Nat
        BY <1>2
      <3> HIDE DEF q, n
      <3> QED
        BY <1>2, <1>6, <2>1, <2>2, <2>5, <3>1 DEF Holder, Enrolled1, n
    <2>7. t = "r" => y.state[s] \cap {"SLAIN", "DIRTY"} = {}
      BY <1>8 DEF Joined, OpenInv
    <2>8. txn'["w"].active => \A u \in Slots : "DIRTY" \in txn'["w"].state[u] => Changed(txn["w"], u)'
      <3>1. CASE t = "w"
        <4>1. SUFFICES ASSUME NEW u \in Slots, "DIRTY" \in y.state[u]
                       PROVE  Changed(txn["w"], u)'
          BY <2>2, <3>1
        <4>2. CASE u = s
          BY <2>3, <3>1, <4>2 DEF Changed
        <4>3. CASE u # s
          <5>1. y.seqs[u] = env[u].seq /\ env[u].flags = "plain"
            BY <2>4, <3>1, <4>1, <4>3
          <5> QED
            BY <2>2, <3>1, <4>3, <5>1 DEF Changed
        <4> QED
          BY <4>2, <4>3
      <3>2. CASE t = "r"
        <4>1. SUFFICES ASSUME NEW u \in Slots, txn["w"].active, "DIRTY" \in txn["w"].state[u]
                       PROVE  Changed(txn["w"], u)'
          BY <1>1, <3>2 DEF Inv, Types, Threads
        <4>2. txn["w"].seqs[u] = env[u].seq /\ env[u].flags = "plain"
          BY <4>1 DEF Inv, Writes, Changed, Enrols, None
        <4>3. u # s /\ txn'["w"] = txn["w"]
          BY <1>1, <1>2, <3>2, <4>2 DEF Inv, Types, Threads
        <4> QED
          BY <2>2, <4>2, <4>3 DEF Changed
      <3> QED
        BY <3>1, <3>2 DEF Threads
    <2>9. Types' /\ SlotsInv' /\ Views' /\ Writes' /\ Ops'
      <3>1. \A u \in Slots : View(y, u) \/ (Enrols(t, u)' /\ Sane(y.state[u]))
        BY <2>3, <2>4
      <3>2. t = "r" => \A u \in Slots : y.state[u] \cap {"SLAIN", "DIRTY"} = {}
        BY <2>4, <2>7
      <3>3. tables' \in Mains /\ wrote' = wrote
        BY DEF Inv, Types
      <3>4. txn' = [txn EXCEPT ![t] = y] /\ lock' = t /\ op' = [op EXCEPT ![t] = p]
            /\ p.pc = "store" /\ env' = env /\ n_dbi' = n_dbi
        BY <1>1, <1>6, <2>1
      <3> QED
        BY <1>5, <2>4, <2>6, <2>8, <3>1, <3>2, <3>3, <3>4, LockStep
    <2> QED
      BY <2>9 DEF Inv
  <1> QED
    BY <1>4, <1>7, <1>8

LEMMA OpenLockedStep ==
  ASSUME Inv, NEW t \in Threads, OpenLocked(t)
  PROVE  Inv'
  <1> DEFINE s == SlotOf(op[t].name)
  <1>1. /\ op[t].pc = "slow" /\ lock = None /\ dbi_open_locked(t, s, op[t])
        /\ UNCHANGED <<env, n_dbi, tables, wrote, lost>>
    BY DEF OpenLocked
  <1>2. OpenInv(t) /\ op[t].name \in Names /\ DOMAIN op = Threads
    BY <1>1 DEF Inv, Ops, OpInv, OpenInv, ScanType, Types
  <1>3. /\ s \in Nat
        /\ s <= n_dbi /\ Valid(s) => s \in Slots /\ env[s].name = op[t].name
        /\ s <= MaxDbi /\ ~(s <= n_dbi /\ Valid(s)) =>
              /\ s \in Slots /\ env[s] = Off(env[s].seq, None)
              /\ \A u \in Slots : env[u].flags = "plain" => env[u].name # op[t].name
    BY <1>1, <1>2, SlotOfName DEF Inv
  <1> HIDE DEF s
  <1>4. CASE s > MaxDbi
    <2> DEFINE y == txn[t]
    <2>1. Opened(t, s, Result("DBS_FULL", y))
      BY <1>1, <1>4 DEF dbi_open_locked
    <2>2. txn' = [txn EXCEPT ![t] = y] /\ Release(t) /\ lastId' = lastId
      BY <2>1 DEF Opened, Result, Locked, Job
    <2>3. txn' = txn
      BY <2>2 DEF Inv, Types
    <2> HIDE DEF y
    <2>4. Ops' /\ lock' = lock /\ DOMAIN op' = Threads
      BY <1>1, <2>2, OpenReturns
    <2>5. Types' /\ SlotsInv' /\ Views' /\ Writes'
      BY <1>1, <2>2, <2>3, <2>4, CallStep DEF Inv
    <2> QED
      BY <1>1, <2>4, <2>5 DEF Inv
  <1>5. CASE s <= MaxDbi /\ s <= n_dbi /\ Valid(s)
    <2>1. Opened(t, s, OpenFound(txn[t], s, op[t])) /\ s \in Slots
      BY <1>1, <1>3, <1>5, DbiAssumption DEF dbi_open_locked
    <2>2. env[s].flags = "plain"
      BY <1>5, <2>1, ValidIsPlain DEF Inv, SlotsInv
    <2> QED
      BY <1>1, <1>2, <1>3, <1>5, <2>1, <2>2, OpenFoundStep
  <1>6. CASE s <= MaxDbi /\ ~(s <= n_dbi /\ Valid(s))
    <2>1. Opened(t, s, OpenNew(txn[t], s, op[t]))
      BY <1>1, <1>3, <1>6, DbiAssumption DEF dbi_open_locked
    <2> QED
      BY <1>1, <1>2, <1>3, <1>6, <2>1, OpenNewStep
  <1> QED
    BY <1>3, <1>4, <1>5, <1>6, DbiAssumption

-----------------------------------------------------------------------------
(* The stores.                                                             *)

\* The next store h to a slot, what it leaves to be stored (td), and the
\* sequence the slot was in and goes on in.
Closes(e, h, td) ==
    /\ Shut(h, td) /\ td # <<>> /\ h.flags = Free /\ h.seq = e.seq
    /\ h.name # None => e.flags = "plain"
Freed(e, h, td) ==
    td = <<>> /\ h = Off(h.seq, None) /\ h.seq = e.seq + 1 /\ e.flags = Free
Enrolls(e, h, td, q, n) ==
    /\ Enrolling(h, td, q, n) /\ td # <<>> /\ td[Len(td)].flags = "plain"
    /\ h.flags # "plain" /\ e.flags # "plain" /\ h.seq >= e.seq
    /\ h.flags = Free /\ h.name # None => e.flags = POISON
Enrolled2(e, h, td, q, n) ==
    td = <<>> /\ h = On(q, n) /\ e = Off(q, n)
Refuses(e, h, td) ==
    /\ Refusing(h, td) /\ td # <<>> /\ h.flags = POISON /\ e.flags # "plain" /\ h.seq >= e.seq
GaveUp(e, h, td) ==
    td = <<>> /\ h = Off(e.seq, None) /\ e.flags = POISON

LEMMA ClosingStore ==
  ASSUME NEW e \in SlotType, NEW td, Shutting(e, td) \/ Shut(e, td)
  PROVE  /\ td[Len(td)].flags # "plain"
         /\ Head(td) \in SlotType
         /\ Closes(e, Head(td), Tail(td)) \/ (Freed(e, Head(td), Tail(td)) /\ Shut(e, td))
  <1>1. e.seq \in Nat
    BY DEF SlotType
  <1>2. CASE Shutting(e, td)
    <2> DEFINE a == Off(e.seq, e.name)
               b == Off(e.seq, None)
               c == Off(e.seq + 1, None)
    <2>1. td = << a, b, c >>
      BY <1>2 DEF Shutting
    <2>2. Head(td) = a /\ Tail(td) = << b, c >> /\ Tail(td) # <<>> /\ td[Len(td)] = c
      BY <2>1
    <2>3. /\ a.flags = Free /\ a.seq = e.seq /\ a.name = e.name /\ a \in SlotType
          /\ c.flags = Free /\ e.flags = "plain" /\ e.name \in Names
      BY <1>1, <1>2 DEF Shutting, Off, On, SlotType
    <2>4. Shut(a, << b, c >>)
      BY <2>3 DEF Shut
    <2> QED
      BY <2>2, <2>3, <2>4 DEF Closes, Free
  <1>3. CASE e = Off(e.seq, e.name) /\ e.name \in Names
             /\ td = << Off(e.seq, None), Off(e.seq + 1, None) >>
    <2> DEFINE b == Off(e.seq, None)
               c == Off(e.seq + 1, None)
    <2>1. Head(td) = b /\ Tail(td) = << c >> /\ Tail(td) # <<>> /\ td[Len(td)] = c
      BY <1>3
    <2>2. b.flags = Free /\ b.seq = e.seq /\ b.name = None /\ b \in SlotType /\ c.flags = Free
      BY <1>1 DEF Off, SlotType
    <2>3. Shut(b, << c >>)
      BY <2>2 DEF Shut
    <2> QED
      BY <2>1, <2>2, <2>3 DEF Closes, Free
  <1>4. CASE e = Off(e.seq, None) /\ td = << Off(e.seq + 1, None) >>
    <2> DEFINE c == Off(e.seq + 1, None)
    <2>1. Head(td) = c /\ Tail(td) = <<>> /\ td[Len(td)] = c
      BY <1>4
    <2>2. c.flags = Free /\ c.seq = e.seq + 1 /\ c \in SlotType /\ e.flags = Free
      BY <1>1, <1>4 DEF Off, SlotType
    <2> QED
      BY <1>4, <2>1, <2>2 DEF Freed, Shut, Free
  <1> QED
    BY <1>2, <1>3, <1>4 DEF Shut

LEMMA EnrollingStore ==
  ASSUME NEW e \in SlotType, NEW td, NEW q \in Nat, NEW n \in Names, Enrolling(e, td, q, n)
  PROVE  /\ td[Len(td)].flags = "plain" /\ Head(td) \in SlotType /\ e.flags # "plain"
         /\ Enrolls(e, Head(td), Tail(td), q, n) \/ Enrolled2(e, Head(td), Tail(td), q, n)
  <1> DEFINE a == Mid(q - 2)
             b == Mid(q - 1)
             c == Off(q, n)
             d == On(q, n)
  <1>1. /\ a.flags = POISON /\ a.seq = q - 2 /\ b.flags = POISON /\ b.seq = q - 1
        /\ a.name = None /\ b.name = None
        /\ c.flags = Free /\ c.seq = q /\ d.flags = "plain" /\ c \in SlotType /\ d \in SlotType
        /\ b \in SlotType \/ q - 1 \notin Nat
        /\ a \in SlotType \/ q - 2 \notin Nat
    BY DEF Mid, Off, On, SlotType
  <1>2. e.seq \in Nat
    BY DEF SlotType
  <1>3. CASE e = Off(q - 2, None) /\ td = << a, b, c, d >>
    <2>1. Head(td) = a /\ Tail(td) = << b, c, d >> /\ Tail(td) # <<>> /\ td[Len(td)] = d
          /\ Tail(td)[Len(Tail(td))] = d
      BY <1>3
    <2>2. e.flags = Free /\ e.seq = q - 2
      BY <1>3 DEF Off
    <2>3. Enrolling(a, << b, c, d >>, q, n)
      BY DEF Enrolling
    <2>4. a \in SlotType /\ a.seq >= e.seq /\ e.flags # "plain" /\ a.flags # "plain"
          /\ d.flags = "plain" /\ a.flags # Free
      BY <1>1, <1>2, <2>2 DEF Free, POISON
    <2> HIDE DEF a, b, c, d
    <2> QED
      BY <2>1, <2>3, <2>4 DEF Enrolls
  <1>4. CASE e = a /\ td = << b, c, d >>
    <2>1. Head(td) = b /\ Tail(td) = << c, d >> /\ Tail(td) # <<>> /\ td[Len(td)] = d
          /\ Tail(td)[Len(Tail(td))] = d
      BY <1>4
    <2>2. Enrolling(b, << c, d >>, q, n)
      BY DEF Enrolling
    <2> QED
      BY <1>1, <1>2, <1>4, <2>1, <2>2 DEF Enrolls, Free, POISON
  <1>5. CASE e = b /\ td = << c, d >>
    <2>1. Head(td) = c /\ Tail(td) = << d >> /\ Tail(td) # <<>> /\ td[Len(td)] = d
          /\ Tail(td)[Len(Tail(td))] = d
      BY <1>5
    <2>2. Enrolling(c, << d >>, q, n)
      BY DEF Enrolling
    <2> QED
      BY <1>1, <1>2, <1>5, <2>1, <2>2 DEF Enrolls, Free, POISON
  <1>6. CASE e = c /\ td = << d >>
    <2>1. Head(td) = d /\ Tail(td) = <<>> /\ td[Len(td)] = d
      BY <1>6
    <2> QED
      BY <1>1, <1>6, <2>1 DEF Enrolled2, Free, POISON
  <1> QED
    BY <1>3, <1>4, <1>5, <1>6 DEF Enrolling

LEMMA RefusingStore ==
  ASSUME NEW e \in SlotType, NEW td, Refusing(e, td)
  PROVE  /\ td[Len(td)].flags # "plain" /\ ~Shut(e, td)
         /\ Head(td) \in SlotType /\ e.flags # "plain"
         /\ Refuses(e, Head(td), Tail(td)) \/ GaveUp(e, Head(td), Tail(td))
  <1> DEFINE q == e.seq
             a == Mid(q)
             b == Mid(q + 1)
             c == Off(q + 1, None)
             d == Off(q, None)
  <1>1. /\ a.flags = POISON /\ a.seq = q /\ b.flags = POISON /\ b.seq = q + 1
        /\ c.flags = Free /\ c.seq = q + 1 /\ d.flags = Free /\ d.seq = q
        /\ a \in SlotType /\ b \in SlotType /\ c \in SlotType /\ d \in SlotType /\ q \in Nat
    BY DEF Mid, Off, SlotType
  <1>2. Shut(e, td) => e.flags = Free /\ td[1].flags = Free
    BY DEF Shut, Off
  <1>3. CASE e = d /\ td = << a, b, c >>
    <2>1. Head(td) = a /\ Tail(td) = << b, c >> /\ Tail(td) # <<>> /\ td[Len(td)] = c /\ td[1] = a
      BY <1>3
    <2>2. Refusing(a, << b, c >>)
      BY <1>1 DEF Refusing
    <2> QED
      BY <1>1, <1>2, <1>3, <2>1, <2>2 DEF Refuses, Free, POISON
  <1>4. CASE e = a /\ td = << b, c >>
    <2>1. Head(td) = b /\ Tail(td) = << c >> /\ Tail(td) # <<>> /\ td[Len(td)] = c
      BY <1>4
    <2>2. Refusing(b, << c >>)
      BY <1>1 DEF Refusing
    <2> QED
      BY <1>1, <1>2, <1>4, <2>1, <2>2 DEF Refuses, Free, POISON
  <1>5. CASE e = a /\ td = << d >>
    <2>1. Head(td) = d /\ Tail(td) = <<>> /\ td[Len(td)] = d
      BY <1>5
    <2> QED
      BY <1>1, <1>2, <1>5, <2>1 DEF GaveUp, Free, POISON
  <1> QED
    BY <1>3, <1>4, <1>5 DEF Refusing

\* What the holder of the lock is about to do to its slot.
Ahead(t, s, h, r) ==
    \/ /\ Closes(env[s], h, r) \/ (Freed(env[s], h, r) /\ Shuts(s))
       /\ t = "r" => op[t].by = "close"
       /\ Target(t).flags # "plain"
    \/ /\ Refuses(env[s], h, r) \/ GaveUp(env[s], h, r)
       /\ Len(op[t].jobs) = 1
       /\ ~Shuts(s) /\ Target(t).flags # "plain" /\ env[s].flags # "plain"
    \/ \E q \in Nat, n \in Names :
          /\ Len(op[t].jobs) = 1
          /\ Enrolls(env[s], h, r, q, n) \/ Enrolled2(env[s], h, r, q, n)
          /\ Enrolled1(txn[t], s, q, n)
          /\ \A u \in Slots : env[u].flags = "plain" => env[u].name # n
          /\ ~Shuts(s) /\ Target(t).flags = "plain" /\ env[s].flags # "plain"

LEMMA StoreAhead ==
  ASSUME Inv, NEW t \in Threads, op[t].pc = "store"
  PROVE  /\ lock = t /\ Holder(t) /\ Slot(t) \in Slots /\ env[Slot(t)] \in SlotType
         /\ op[t].jobs[1] \in JobType /\ Head(op[t].jobs) = op[t].jobs[1]
         /\ Todo(t) \in Seq(SlotType) /\ Todo(t) # <<>> /\ Head(Todo(t)) \in SlotType
         /\ Ahead(t, Slot(t), Head(Todo(t)), Tail(Todo(t)))
  <1> DEFINE s == Slot(t)
             td == Todo(t)
             e == env[s]
             h == Head(td)
             r == Tail(td)
  <1>1. lock = t /\ Holder(t)
    BY DEF Inv, Ops, OpInv, SlotsInv, Threads, None
  <1>2. op[t].jobs \in Seq(JobType) /\ op[t].jobs # <<>> /\ op[t].jobs[1] \in JobType
        /\ Head(op[t].jobs) = op[t].jobs[1]
    BY <1>1 DEF Holder
  <1>3. s \in Slots /\ e \in SlotType /\ td \in Seq(SlotType)
    BY <1>2 DEF Slot, Todo, JobType, Inv, SlotsInv
  <1>4. Target(t) = td[Len(td)]
    BY DEF Target
  <1> HIDE DEF td, s
  <1>5. Shuts(s) => Shut(e, td)
    BY <1>1 DEF Shuts, s, td
  <1>6. Holder(t) =>
          \/ /\ Shutting(e, td) \/ Shut(e, td)
             /\ t = "r" => op[t].by = "close"
          \/ Len(op[t].jobs) = 1 /\ Refusing(e, td)
          \/ \E q \in Nat, n \in Names :
                /\ Len(op[t].jobs) = 1 /\ Enrolling(e, td, q, n)
                /\ Enrolled1(txn[t], s, q, n)
                /\ \A u \in Slots : env[u].flags = "plain" => env[u].name # n
    BY DEF Holder, s, td
  <1>7. td # <<>>
    <2>1. Shutting(e, td) => td # <<>>
      BY DEF Shutting
    <2>2. Shut(e, td) => td # <<>>
      BY DEF Shut
    <2>3. Refusing(e, td) => td # <<>>
      <3>1. \A a, b, c : << a >> # <<>> /\ << a, b >> # <<>> /\ << a, b, c >> # <<>>
        OBVIOUS
      <3> HIDE DEF e
      <3> QED
        BY <3>1 DEF Refusing
    <2>4. ASSUME NEW q, NEW n, Enrolling(e, td, q, n)
          PROVE  td # <<>>
      BY <2>4 DEF Enrolling
    <2> HIDE DEF e
    <2> QED
      BY <1>1, <1>6, <2>1, <2>2, <2>3, <2>4
  <1>8. h \in SlotType /\ Ahead(t, s, h, r)
    <2>1. CASE (Shutting(e, td) \/ Shut(e, td)) /\ (t = "r" => op[t].by = "close")
      <3>1. /\ td[Len(td)].flags # "plain" /\ h \in SlotType
            /\ Closes(e, h, r) \/ (Freed(e, h, r) /\ Shut(e, td))
        <4> HIDE DEF e
        <4> QED
          BY <1>3, <2>1, ClosingStore
      <3>2. Shut(e, td) => Shuts(s)
        BY <1>1, <2>1, DbiAssumption DEF Shuts, s, td, Threads, None
      <3> HIDE DEF h, r
      <3> QED
        BY <1>4, <2>1, <3>1, <3>2 DEF Ahead
    <2>2. CASE Len(op[t].jobs) = 1 /\ Refusing(e, td)
      <3>1. /\ td[Len(td)].flags # "plain" /\ ~Shut(e, td) /\ h \in SlotType /\ e.flags # "plain"
            /\ Refuses(e, h, r) \/ GaveUp(e, h, r)
        <4> HIDE DEF e
        <4> QED
          BY <1>3, <2>2, RefusingStore
      <3> HIDE DEF h, r
      <3> QED
        BY <1>4, <1>5, <2>2, <3>1 DEF Ahead
    <2>3. CASE \E q \in Nat, n \in Names :
                 /\ Len(op[t].jobs) = 1 /\ Enrolling(e, td, q, n)
                 /\ Enrolled1(txn[t], s, q, n)
                 /\ \A u \in Slots : env[u].flags = "plain" => env[u].name # n
      <3>1. PICK q \in Nat, n \in Names :
                 /\ Len(op[t].jobs) = 1 /\ Enrolling(e, td, q, n)
                 /\ Enrolled1(txn[t], s, q, n)
                 /\ \A u \in Slots : env[u].flags = "plain" => env[u].name # n
        BY <2>3
      <3>2. /\ td[Len(td)].flags = "plain" /\ h \in SlotType /\ e.flags # "plain"
            /\ Enrolls(e, h, r, q, n) \/ Enrolled2(e, h, r, q, n)
        <4> HIDE DEF e
        <4> QED
          BY <1>3, <3>1, EnrollingStore
      <3>3. ~Shuts(s)
        BY <1>3, <1>5, <3>2, ClosingStore
      <3> HIDE DEF h, r
      <3> QED
        BY <1>4, <3>1, <3>2, <3>3 DEF Ahead
    <2> QED
      BY <1>1, <1>6, <2>1, <2>2, <2>3
  <1> QED
    BY <1>1, <1>2, <1>3, <1>7, <1>8 DEF s, td

\* What is left to be stored.
LEMMA StoreRest ==
  ASSUME Inv, NEW t \in Threads, Store(t)
  PROVE  LET s == Slot(t)
             h == Head(Todo(t))
             r == Tail(Todo(t))
         IN /\ env' = [env EXCEPT ![s] = h]
            /\ UNCHANGED <<txn, tables, lastId, wrote, lost>>
            /\ DOMAIN op' = Threads /\ \A u \in Threads : u # t => op'[u] = op[u]
            /\ \A u \in Slots : Busy(u)' <=> Busy(u) /\ (u # s \/ r # <<>>)
            /\ \/ /\ r = <<>> /\ Len(op[t].jobs) = 1 /\ lock' = None /\ op'[t] = Idle
               \/ /\ r # <<>> \/ Len(op[t].jobs) # 1
                  /\ lock' = t /\ op'[t].pc = "store" /\ op'[t].by = op[t].by
                  /\ op'[t].jobs \in Seq(JobType) /\ op'[t].jobs # <<>>
                  /\ r # <<>> =>
                       /\ Slot(t)' = s /\ Todo(t)' = r /\ Len(op'[t].jobs) = Len(op[t].jobs)
                       /\ \A k \in DOMAIN op'[t].jobs : k # 1 => op'[t].jobs[k] = op[t].jobs[k]
                  /\ r = <<>> =>
                       /\ Len(op'[t].jobs) = Len(op[t].jobs) - 1
                       /\ \A k \in DOMAIN op'[t].jobs : op'[t].jobs[k] = op[t].jobs[k + 1]
  <1> DEFINE jobs == op[t].jobs
             td == Todo(t)
             s == Slot(t)
             r == Tail(td)
             rest == Job(s, r) \o Tail(jobs)
             o == [pc |-> "store", jobs |-> rest, by |-> op[t].by]
  <1>1. op[t].pc = "store" /\ DOMAIN op = Threads
    BY DEF Store, Inv, Types
  <1>2. /\ lock = t /\ Holder(t) /\ s \in Slots /\ jobs[1] \in JobType /\ Head(jobs) = jobs[1]
        /\ td \in Seq(SlotType) /\ td # <<>>
    BY <1>1, StoreAhead
  <1>3. /\ env' = [env EXCEPT ![s] = Head(td)]
        /\ IF rest = <<>> THEN Release(t) ELSE Holding(t, rest, op[t].by)
        /\ UNCHANGED <<txn, tables, lastId, wrote, lost>>
    BY <1>2 DEF Store, Slot, Todo
  <1>4. jobs \in Seq(JobType) /\ jobs # <<>> /\ Len(jobs) \in Nat /\ Len(jobs) >= 1
        /\ DOMAIN jobs = 1 .. Len(jobs)
        /\ \A k, m \in DOMAIN jobs : k # m => jobs[k].slot # jobs[m].slot
    BY <1>2 DEF Holder
  <1>5. /\ Tail(jobs) \in Seq(JobType) /\ Len(Tail(jobs)) = Len(jobs) - 1
        /\ \A k \in 1 .. Len(jobs) - 1 : Tail(jobs)[k] = jobs[k + 1]
    BY <1>4
  <1>6. r \in Seq(SlotType)
    BY <1>2
  <1>7. jobs[1].slot = s
    BY DEF Slot
  <1>8. lock # None /\ t # None
    BY <1>2 DEF Threads, None
  <1> HIDE DEF jobs, td, s, r
  <1>9. \A u \in Slots : Busy(u) <=> \E k \in DOMAIN jobs : jobs[k].slot = u
    BY <1>2, <1>8 DEF Busy, jobs
  <1>10. CASE r # <<>>
    <2> DEFINE j == [slot |-> s, todo |-> r]
    <2>1. j \in JobType /\ j.slot = s /\ j.todo = r
      BY <1>2, <1>6 DEF JobType
    <2> HIDE DEF j
    <2>2. Job(s, r) = << j >>
      BY <1>10 DEF Job, j
    <2>3. << j >> \in Seq(JobType) /\ Len(<< j >>) = 1 /\ << j >>[1] = j
      BY <2>1
    <2>4. /\ rest \in Seq(JobType) /\ Len(rest) = Len(jobs)
          /\ \A k \in 1 .. Len(jobs) : rest[k] = IF k <= 1 THEN << j >>[k] ELSE Tail(jobs)[k - 1]
      <3>1. /\ << j >> \o Tail(jobs) \in Seq(JobType)
            /\ Len(<< j >> \o Tail(jobs)) = 1 + (Len(jobs) - 1)
            /\ \A k \in 1 .. 1 + (Len(jobs) - 1) :
                  (<< j >> \o Tail(jobs))[k] = IF k <= 1 THEN << j >>[k] ELSE Tail(jobs)[k - 1]
        BY <1>5, <2>3, ConcatProperties
      <3>2. 1 + (Len(jobs) - 1) = Len(jobs)
        BY <1>4
      <3> QED
        BY <2>2, <3>1, <3>2
    <2> HIDE DEF rest
    <2>5. rest[1] = j /\ rest # <<>> /\ DOMAIN rest = 1 .. Len(jobs)
          /\ \A k \in DOMAIN rest : k # 1 => rest[k] = jobs[k]
      <3>1. rest[1] = j /\ rest # <<>> /\ DOMAIN rest = 1 .. Len(jobs)
        BY <1>4, <2>3, <2>4
      <3>2. ASSUME NEW k \in 1 .. Len(jobs), k # 1
            PROVE  rest[k] = jobs[k]
        <4>1. k - 1 \in 1 .. Len(jobs) - 1 /\ (k - 1) + 1 = k /\ ~(k <= 1)
          BY <1>4, <3>2
        <4> QED
          BY <1>5, <2>4, <4>1
      <3> QED
        BY <3>1, <3>2
    <2>6. lock' = t /\ op' = [op EXCEPT ![t] = o]
      BY <1>3, <2>5 DEF Holding
    <2>7. o.pc = "store" /\ o.jobs = rest /\ o.by = op[t].by
      OBVIOUS
    <2> HIDE DEF o
    <2>8. op'[t] = o /\ DOMAIN op' = Threads /\ \A u \in Threads : u # t => op'[u] = op[u]
      BY <1>1, <2>6
    <2>9. Slot(t)' = s /\ Todo(t)' = r
      BY <2>1, <2>5, <2>7, <2>8 DEF Slot, Todo
    <2>10. \A u \in Slots : Busy(u)' <=> \E k \in DOMAIN rest : rest[k].slot = u
      BY <1>8, <2>6, <2>7, <2>8 DEF Busy
    <2>11. \A u \in Slots : Busy(u)' <=> Busy(u)
      <3>1. \A k \in DOMAIN rest : rest[k].slot = jobs[k].slot
        BY <1>7, <2>1, <2>5
      <3> QED
        BY <1>4, <1>9, <2>5, <2>10, <3>1
    <2> QED
      BY <1>3, <1>10, <2>4, <2>5, <2>6, <2>7, <2>8, <2>9, <2>11 DEF jobs, td, s, r
  <1>11. CASE r = <<>>
    <2>1. rest = Tail(jobs)
      BY <1>5, <1>11, ConcatEmptySeq DEF Job
    <2> HIDE DEF rest
    <2>2. \A u \in Slots : Busy(u) /\ u # s <=> \E k \in 1 .. Len(jobs) - 1 : jobs[k + 1].slot = u
      <3>1. ASSUME NEW u \in Slots, NEW k \in 1 .. Len(jobs) - 1, jobs[k + 1].slot = u
            PROVE  Busy(u) /\ u # s
        <4>1. k + 1 \in DOMAIN jobs /\ 1 \in DOMAIN jobs /\ k + 1 # 1
          BY <1>4
        <4> QED
          BY <1>4, <1>7, <1>9, <3>1, <4>1
      <3>2. ASSUME NEW u \in Slots, Busy(u), u # s
            PROVE  \E k \in 1 .. Len(jobs) - 1 : jobs[k + 1].slot = u
        <4>1. PICK m \in DOMAIN jobs : jobs[m].slot = u
          BY <1>9, <3>2
        <4>2. m - 1 \in 1 .. Len(jobs) - 1 /\ (m - 1) + 1 = m
          BY <1>4, <1>7, <3>2, <4>1
        <4> QED
          BY <4>1, <4>2
      <3> QED
        BY <3>1, <3>2
    <2>3. CASE Len(jobs) = 1
      <3>1. rest = <<>>
        BY <1>5, <2>1, <2>3
      <3>2. lock' = None /\ op' = [op EXCEPT ![t] = Idle]
        BY <1>3, <3>1 DEF Release
      <3>3. op'[t] = Idle /\ DOMAIN op' = Threads /\ \A u \in Threads : u # t => op'[u] = op[u]
        BY <1>1, <3>2
      <3>4. \A u \in Slots : ~Busy(u)' /\ ~(Busy(u) /\ u # s)
        BY <2>2, <2>3, <3>2 DEF Busy
      <3> QED
        BY <1>3, <1>11, <2>3, <3>2, <3>3, <3>4 DEF jobs, td, s, r
    <2>4. CASE Len(jobs) # 1
      <3>1. rest # <<>> /\ rest \in Seq(JobType) /\ Len(rest) = Len(jobs) - 1
            /\ DOMAIN rest = 1 .. Len(jobs) - 1 /\ \A k \in DOMAIN rest : rest[k] = jobs[k + 1]
        BY <1>4, <1>5, <2>1, <2>4
      <3>2. lock' = t /\ op' = [op EXCEPT ![t] = o]
        BY <1>3, <3>1 DEF Holding
      <3>3. o.pc = "store" /\ o.jobs = rest /\ o.by = op[t].by
        OBVIOUS
      <3> HIDE DEF o
      <3>4. op'[t] = o /\ DOMAIN op' = Threads /\ \A u \in Threads : u # t => op'[u] = op[u]
        BY <1>1, <3>2
      <3>5. \A u \in Slots : Busy(u)' <=> \E k \in DOMAIN rest : rest[k].slot = u
        BY <1>8, <3>2, <3>3, <3>4 DEF Busy
      <3>6. \A u \in Slots : Busy(u)' <=> Busy(u) /\ u # s
        <4>1. TAKE u \in Slots
        <4>2. Busy(u) /\ u # s <=> \E k \in 1 .. Len(jobs) - 1 : jobs[k + 1].slot = u
          BY <2>2
        <4>3. Busy(u)' <=> \E k \in 1 .. Len(jobs) - 1 : rest[k].slot = u
          BY <3>1, <3>5
        <4>4. \A k \in 1 .. Len(jobs) - 1 : rest[k] = jobs[k + 1]
          BY <3>1
        <4> QED
          BY ONLY <4>2, <4>3, <4>4
      <3> QED
        BY <1>3, <1>11, <2>4, <3>1, <3>2, <3>3, <3>4, <3>6 DEF jobs, td, s, r
    <2> QED
      BY <2>3, <2>4
  <1> QED
    BY <1>10, <1>11

\* The slots that nobody stores to now are open or closed.
LEMMA OthersRest ==
  ASSUME Inv, NEW t \in Threads, op[t].pc = "store", NEW u \in Slots, u # Slot(t)
  PROVE  Rest(env[u])
  <1>1. lock = t /\ Holder(t)
    BY StoreAhead
  <1>2. CASE ~Busy(u)
    BY <1>2 DEF Inv, SlotsInv
  <1>3. CASE Busy(u)
    <2>1. PICK k \in DOMAIN op[t].jobs : op[t].jobs[k].slot = u
      BY <1>1, <1>3 DEF Busy
    <2>2. k # 1
      BY <2>1 DEF Slot
    <2>3. Shutting(env[u], op[t].jobs[k].todo)
      BY <1>1, <2>1, <2>2 DEF Holder
    <2> QED
      BY <2>3 DEF Shutting, Rest
  <1> QED
    BY <1>2, <1>3

LEMMA AheadName ==
  ASSUME NEW t \in Threads, NEW s \in Slots, NEW h, NEW r, Ahead(t, s, h, r), h.flags = Free
  PROVE  /\ h.name # None => env[s].flags # Free
         /\ r = <<>> => h.name = None
  <1>1. CASE Closes(env[s], h, r)
    BY <1>1 DEF Closes, Free
  <1>2. CASE Freed(env[s], h, r)
    BY <1>2 DEF Freed, Off
  <1>3. CASE Refuses(env[s], h, r)
    BY <1>3 DEF Refuses, Free, POISON
  <1>4. CASE GaveUp(env[s], h, r)
    BY <1>4 DEF GaveUp, Off
  <1>5. ASSUME NEW q, NEW n, Enrolls(env[s], h, r, q, n)
        PROVE  (h.name # None => env[s].flags # Free) /\ r # <<>>
    BY <1>5 DEF Enrolls, Free, POISON
  <1>6. ASSUME NEW q, NEW n, Enrolled2(env[s], h, r, q, n)
        PROVE  FALSE
    BY <1>6 DEF Enrolled2, On, Free
  <1> QED
    BY <1>1, <1>2, <1>3, <1>4, <1>5, <1>6 DEF Ahead

\* n_dbi covers every slot that is not free.
LEMMA StoreCount ==
  ASSUME Inv, NEW t \in Threads, Store(t)
  PROVE  /\ n_dbi' \in 0 .. MaxDbi
         /\ \A u \in Slots : env'[u].name # None \/ env'[u].flags # Free => u <= n_dbi'
  <1> DEFINE s == Slot(t)
             h == Head(Todo(t))
             r == Tail(Todo(t))
             E == [env EXCEPT ![s] = h]
             D == {i \in 1 .. n_dbi : E[i].name # None}
  <1>1. op[t].pc = "store"
    BY DEF Store
  <1>2. /\ s \in Slots /\ Ahead(t, s, h, r) /\ Head(op[t].jobs) = op[t].jobs[1]
    BY <1>1, StoreAhead
  <1>3. \/ n_dbi' = Max({n_dbi, s}) /\ h.flags # Free
        \/ n_dbi' = Trimmed(E, n_dbi) /\ h.flags = Free /\ r = <<>>
        \/ n_dbi' = n_dbi /\ h.flags = Free
    <2> HIDE DEF E
    <2>1. h.flags # Free => n_dbi' = Max({n_dbi, s})
      BY <1>2 DEF Store, Slot, Todo
    <2>2. h.flags = Free => (n_dbi' = Trimmed(E, n_dbi) /\ r = <<>>) \/ n_dbi' = n_dbi
      BY <1>2 DEF Store, Slot, Todo, E
    <2> HIDE DEF h, r, s
    <2> QED
      BY <2>1, <2>2
  <1>4. env' = E
    BY StoreRest
  <1>5. /\ MaxDbi \in Nat /\ n_dbi \in 0 .. MaxDbi /\ n_dbi \in Nat /\ s \in 1 .. MaxDbi
        /\ \A u \in Slots : env[u].name # None \/ env[u].flags # Free => u <= n_dbi
        /\ E[s] = h /\ \A u \in Slots : u # s => E[u] = env[u]
    BY <1>2, DbiAssumption DEF Inv, SlotsInv, Slots
  <1>6. \A u \in Slots : u # s /\ (env[u].name # None \/ env[u].flags # Free) => env[u].name # None
    <2>1. ASSUME NEW u \in Slots, u # s, env[u].name # None \/ env[u].flags # Free
          PROVE  env[u].name # None
      <3>1. Rest(env[u])
        BY <1>1, <2>1, OthersRest
      <3>2. CASE env[u] = On(env[u].seq, env[u].name) /\ env[u].name \in Names
        BY <3>2, DbiAssumption DEF None
      <3>3. CASE env[u] = Off(env[u].seq, None)
        BY <2>1, <3>3 DEF Off
      <3> QED
        BY <3>1, <3>2, <3>3 DEF Rest
    <2> QED
      BY <2>1
  <1>7. h.flags = Free => (h.name # None => env[s].flags # Free) /\ (r = <<>> => h.name = None)
    <2> HIDE DEF s, h, r
    <2> QED
      BY <1>2, AheadName
  <1> HIDE DEF s, h, r, E
  <1>8. CASE n_dbi' = Max({n_dbi, s})
    <2>1. {n_dbi, s} \in SUBSET (0 .. MaxDbi) /\ {n_dbi, s} # {}
      BY <1>5
    <2>2. n_dbi' \in {n_dbi, s} /\ \A i \in {n_dbi, s} : i <= n_dbi'
      BY <1>5, <1>8, <2>1, MaxOf
    <2>3. n_dbi' \in 0 .. MaxDbi /\ n_dbi <= n_dbi' /\ s <= n_dbi'
      BY <1>5, <2>2
    <2>4. ASSUME NEW u \in Slots, E[u].name # None \/ E[u].flags # Free
          PROVE  u <= n_dbi'
      <3>1. CASE u = s
        BY <2>3, <3>1
      <3>2. CASE u # s
        BY <1>5, <2>3, <2>4, <3>2 DEF Slots
      <3> QED
        BY <3>1, <3>2
    <2> QED
      BY <1>4, <2>3, <2>4
  <1>9. CASE n_dbi' = Trimmed(E, n_dbi) /\ h.flags = Free /\ r = <<>>
    <2>1. n_dbi' = Max({0} \cup D)
      BY <1>9 DEF Trimmed
    <2>2. ({0} \cup D) \in SUBSET (0 .. MaxDbi) /\ ({0} \cup D) # {}
      BY <1>5
    <2>3. n_dbi' \in {0} \cup D /\ \A i \in {0} \cup D : i <= n_dbi'
      <3> HIDE DEF D
      <3> QED
        BY <1>5, <2>1, <2>2, MaxOf
    <2>4. ASSUME NEW u \in Slots, E[u].name # None \/ E[u].flags # Free
          PROVE  u <= n_dbi'
      <3>1. u # s
        BY <1>5, <1>7, <1>9, <2>4
      <3>2. E[u].name # None /\ u <= n_dbi
        BY <1>5, <1>6, <2>4, <3>1
      <3>3. u \in D
        BY <1>5, <3>2 DEF Slots
      <3> QED
        BY <2>3, <3>3
    <2>5. n_dbi' \in 0 .. MaxDbi
      BY <1>5, <2>2, <2>3
    <2> QED
      BY <1>4, <2>4, <2>5
  <1>10. CASE n_dbi' = n_dbi /\ h.flags = Free
    <2>1. ASSUME NEW u \in Slots, E[u].name # None \/ E[u].flags # Free
          PROVE  u <= n_dbi'
      <3>1. CASE u = s
        <4>1. h.name # None
          BY <1>5, <1>10, <2>1, <3>1
        <4> QED
          BY <1>2, <1>5, <1>7, <1>10, <3>1, <4>1
      <3>2. CASE u # s
        BY <1>5, <1>10, <2>1, <3>2
      <3> QED
        BY <3>1, <3>2
    <2> QED
      BY <1>4, <1>5, <1>10, <2>1
  <1> QED
    BY <1>3, <1>8, <1>9, <1>10

\* Whose job goes on holds the lock as before.
LEMMA StoreHolder ==
  ASSUME Inv, NEW t \in Threads, Store(t), lock' # None
  PROVE  lock' = t /\ op'[t].pc = "store" /\ Holder(t)'
  <1> DEFINE s == Slot(t)
             h == Head(Todo(t))
             r == Tail(Todo(t))
  <1>1. op[t].pc = "store"
    BY DEF Store
  <1>2. /\ lock = t /\ Holder(t) /\ s \in Slots /\ Ahead(t, s, h, r)
    BY <1>1, StoreAhead
  <1>3. /\ env' = [env EXCEPT ![s] = h] /\ txn' = txn
        /\ r # <<>> \/ Len(op[t].jobs) # 1
        /\ lock' = t /\ op'[t].pc = "store" /\ op'[t].by = op[t].by
        /\ op'[t].jobs \in Seq(JobType) /\ op'[t].jobs # <<>>
        /\ r # <<>> =>
             /\ Slot(t)' = s /\ Todo(t)' = r /\ Len(op'[t].jobs) = Len(op[t].jobs)
             /\ \A k \in DOMAIN op'[t].jobs : k # 1 => op'[t].jobs[k] = op[t].jobs[k]
        /\ r = <<>> =>
             /\ Len(op'[t].jobs) = Len(op[t].jobs) - 1
             /\ \A k \in DOMAIN op'[t].jobs : op'[t].jobs[k] = op[t].jobs[k + 1]
    BY StoreRest
  <1>4. env'[s] = h /\ \A u \in Slots : u # s => env'[u] = env[u]
    BY <1>2, <1>3 DEF Inv, SlotsInv
  <1>5. /\ op[t].jobs \in Seq(JobType) /\ Len(op[t].jobs) \in Nat /\ Len(op[t].jobs) >= 1
        /\ DOMAIN op[t].jobs = 1 .. Len(op[t].jobs)
        /\ \A k, m \in DOMAIN op[t].jobs : k # m => op[t].jobs[k].slot # op[t].jobs[m].slot
        /\ \A k \in DOMAIN op[t].jobs : k # 1 =>
              Shutting(env[op[t].jobs[k].slot], op[t].jobs[k].todo)
        /\ op[t].jobs[1].slot = s
    <2>1. /\ op[t].jobs \in Seq(JobType) /\ op[t].jobs # <<>>
          /\ \A k, m \in DOMAIN op[t].jobs : k # m => op[t].jobs[k].slot # op[t].jobs[m].slot
          /\ \A k \in DOMAIN op[t].jobs : k # 1 =>
                Shutting(env[op[t].jobs[k].slot], op[t].jobs[k].todo)
          /\ op[t].jobs[1].slot = s
      BY <1>2 DEF Holder, Slot
    <2>2. /\ Len(op[t].jobs) \in Nat /\ Len(op[t].jobs) >= 1
          /\ DOMAIN op[t].jobs = 1 .. Len(op[t].jobs)
      BY ONLY <2>1
    <2> QED
      BY <2>1, <2>2
  <1> HIDE DEF s, h, r
  <1>6. ASSUME NEW k \in DOMAIN op[t].jobs, k # 1
        PROVE  LET j == op[t].jobs[k] IN
               j \in JobType /\ j.slot # s /\ j.slot \in Slots /\ Shutting(env'[j.slot], j.todo)
    <2>1. op[t].jobs[k] \in JobType
      BY <1>5, <1>6
    <2>3. op[t].jobs[k].slot \in Slots
      BY <2>1 DEF JobType
    <2>2. op[t].jobs[k].slot # s
      BY <1>5, <1>6
    <2> QED
      BY <1>4, <1>5, <1>6, <2>1, <2>2, <2>3
  <1>7. CASE r # <<>>
    <2>1. /\ Slot(t)' = s /\ Todo(t)' = r /\ Len(op'[t].jobs) = Len(op[t].jobs)
          /\ DOMAIN op'[t].jobs = DOMAIN op[t].jobs
          /\ \A k \in DOMAIN op'[t].jobs : op'[t].jobs[k].slot = op[t].jobs[k].slot
          /\ \A k \in DOMAIN op'[t].jobs : k # 1 => op'[t].jobs[k] = op[t].jobs[k]
      BY <1>3, <1>5, <1>7 DEF Slot
    <2>2. /\ \A k, m \in DOMAIN op'[t].jobs : k # m => op'[t].jobs[k].slot # op'[t].jobs[m].slot
          /\ \A k \in DOMAIN op'[t].jobs : k # 1 =>
                Shutting(env'[op'[t].jobs[k].slot], op'[t].jobs[k].todo)
      BY <1>5, <1>6, <2>1
    <2>3. CASE Closes(env[s], h, r) /\ (t = "r" => op[t].by = "close")
      <3>1. Shut(h, r)
        BY <2>3 DEF Closes
      <3> QED
        BY <1>3, <1>4, <2>1, <2>2, <2>3, <3>1 DEF Holder
    <2>4. CASE Refuses(env[s], h, r) /\ Len(op[t].jobs) = 1
      <3>1. Refusing(h, r)
        BY <2>4 DEF Refuses
      <3> QED
        BY <1>3, <1>4, <2>1, <2>2, <2>4, <3>1 DEF Holder
    <2>5. ASSUME NEW q \in Nat, NEW n \in Names, Len(op[t].jobs) = 1, Enrolls(env[s], h, r, q, n),
                 Enrolled1(txn[t], s, q, n),
                 \A u \in Slots : env[u].flags = "plain" => env[u].name # n
          PROVE  Holder(t)'
      <3>1. Enrolling(h, r, q, n) /\ h.flags # "plain"
        BY <2>5 DEF Enrolls
      <3>2. \A u \in Slots : env'[u].flags = "plain" => env'[u].name # n
        BY <1>4, <2>5, <3>1
      <3>3. Enrolled1(txn'[t], s, q, n)
        BY <1>3, <2>5
      <3>4. /\ Len(op'[t].jobs) = 1 /\ Enrolling(env'[s], r, q, n)
        BY <1>4, <2>1, <2>5, <3>1
      <3>5. /\ Len(op'[t].jobs) = 1 /\ Enrolling(env'[Slot(t)'], Todo(t)', q, n)
            /\ Enrolled1(txn'[t], Slot(t)', q, n)
            /\ \A u \in Slots : env'[u].flags = "plain" => env'[u].name # n
        BY <2>1, <3>2, <3>3, <3>4
      <3> QED
        BY <1>3, <2>2, <2>5, <3>5 DEF Holder, Enrolled1
    <2>6. /\ ~Freed(env[s], h, r) /\ ~GaveUp(env[s], h, r)
          /\ \A q, n : ~Enrolled2(env[s], h, r, q, n)
      BY <1>7 DEF Freed, GaveUp, Enrolled2
    <2>7. \/ Closes(env[s], h, r) /\ (t = "r" => op[t].by = "close")
          \/ Refuses(env[s], h, r) /\ Len(op[t].jobs) = 1
          \/ \E q \in Nat, n \in Names :
                /\ Len(op[t].jobs) = 1 /\ Enrolls(env[s], h, r, q, n)
                /\ Enrolled1(txn[t], s, q, n)
                /\ \A u \in Slots : env[u].flags = "plain" => env[u].name # n
      BY <1>2, <2>6 DEF Ahead
    <2> QED
      BY <1>3, <2>3, <2>4, <2>5, <2>7
  <1>8. CASE r = <<>>
    <2>1. Len(op[t].jobs) # 1
      BY <1>3, <1>8
    <2>2. ~Closes(env[s], h, r)
      BY <1>8 DEF Closes
    <2>3. t = "r" => op[t].by = "close"
      BY <1>2, <2>1, <2>2 DEF Ahead
    <2> DEFINE L == Len(op[t].jobs)
               new == op'[t].jobs
    <2>10. /\ Len(new) = L - 1 /\ new \in Seq(JobType)
           /\ \A k \in DOMAIN new : new[k] = op[t].jobs[k + 1]
      BY <1>3, <1>8
    <2>11. DOMAIN new = 1 .. L - 1
      BY <2>10
    <2>13. L \in Nat /\ L >= 1 /\ L # 1 /\ DOMAIN op[t].jobs = 1 .. L
      BY ONLY <1>5, <2>1
    <2> HIDE DEF L, new
    <2>12. L \in Nat /\ L >= 2 /\ DOMAIN op[t].jobs = 1 .. L
      BY ONLY <2>13
    <2>4. /\ DOMAIN new = 1 .. L - 1 /\ 1 \in DOMAIN new
          /\ \A k \in DOMAIN new :
                k + 1 \in DOMAIN op[t].jobs /\ k + 1 # 1 /\ new[k] = op[t].jobs[k + 1]
      BY <2>10, <2>11, <2>12
    <2>5. \A k \in DOMAIN new : Shutting(env'[new[k].slot], new[k].todo)
      BY <1>6, <2>4
    <2>6. \A k, m \in DOMAIN new : k # m => new[k].slot # new[m].slot
      <3>1. TAKE k, m \in DOMAIN new
      <3>2. k \in Int /\ m \in Int
        BY <2>4, <2>12
      <3>3. k # m => k + 1 # m + 1
        BY <3>2
      <3>4. /\ new[k] = op[t].jobs[k + 1] /\ new[m] = op[t].jobs[m + 1]
            /\ k + 1 \in DOMAIN op[t].jobs /\ m + 1 \in DOMAIN op[t].jobs
        BY <2>4
      <3> QED
        BY <1>5, <3>3, <3>4
    <2>7. Shutting(env'[Slot(t)'], Todo(t)')
      BY <2>4, <2>5 DEF Slot, Todo, new
    <2> QED
      BY <1>3, <2>3, <2>5, <2>6, <2>7 DEF Holder, new
  <1> QED
    BY <1>3, <1>7, <1>8

\* Only the last store makes a slot that of a table, and no other slot has
\* the name.
LEMMA AheadPlain ==
  ASSUME NEW t \in Threads, NEW s \in Slots, NEW h, NEW r, Ahead(t, s, h, r)
  PROVE  /\ r = <<>> => Rest(h)
         /\ h.flags = "plain" =>
              /\ h.name \in Names
              /\ \A u \in Slots : env[u].flags = "plain" => env[u].name # h.name
  <1>1. CASE Closes(env[s], h, r)
    BY <1>1 DEF Closes, Free
  <1>2. CASE Freed(env[s], h, r)
    BY <1>2 DEF Freed, Off, Free, Rest
  <1>3. CASE Refuses(env[s], h, r)
    BY <1>3 DEF Refuses, POISON
  <1>4. CASE GaveUp(env[s], h, r)
    BY <1>4 DEF GaveUp, Off, Free, Rest
  <1>5. ASSUME NEW q, NEW n, Enrolls(env[s], h, r, q, n)
        PROVE  r # <<>> /\ h.flags # "plain"
    BY <1>5 DEF Enrolls
  <1>6. ASSUME NEW q, NEW n \in Names, Enrolled2(env[s], h, r, q, n)
        PROVE  Rest(h) /\ h.name = n
    BY <1>6 DEF Enrolled2, On, Rest
  <1> QED
    BY <1>1, <1>2, <1>3, <1>4, <1>5, <1>6 DEF Ahead

LEMMA HolderBusy ==
  ASSUME Inv, NEW t \in Threads, op[t].pc = "store"
  PROVE  lock # None /\ Busy(Slot(t))
  <1>1. lock = t /\ op[t].jobs \in Seq(JobType) /\ op[t].jobs # <<>>
    BY StoreAhead DEF Holder
  <1>2. 1 \in DOMAIN op[t].jobs
    BY <1>1
  <1>3. lock # None
    BY <1>1 DEF Threads, None
  <1> QED
    BY <1>1, <1>2, <1>3 DEF Busy, Slot

LEMMA StoreSlots ==
  ASSUME Inv, NEW t \in Threads, Store(t)
  PROVE  SlotsInv'
  <1> DEFINE s == Slot(t)
             h == Head(Todo(t))
             r == Tail(Todo(t))
  <1>1. op[t].pc = "store"
    BY DEF Store
  <1>2. lock = t /\ s \in Slots /\ h \in SlotType /\ Ahead(t, s, h, r)
    BY <1>1, StoreAhead
  <1>3. /\ env' = [env EXCEPT ![s] = h]
        /\ \A u \in Slots : Busy(u)' <=> Busy(u) /\ (u # s \/ r # <<>>)
        /\ lock' = None \/ lock' = t
    BY StoreRest
  <1>4. Busy(s)
    BY <1>1, HolderBusy
  <1>5. \A u \in Slots : u # s => Rest(env[u])
    BY <1>1, OthersRest
  <1> HIDE DEF s, h, r
  <1>6. /\ env' \in [Slots -> SlotType] /\ env'[s] = h
        /\ \A u \in Slots : u # s => env'[u] = env[u]
    BY <1>2, <1>3 DEF Inv, SlotsInv
  <1>7. /\ r = <<>> => Rest(h)
        /\ h.flags = "plain" =>
             /\ h.name \in Names
             /\ \A u \in Slots : env[u].flags = "plain" => env[u].name # h.name
    BY <1>2, AheadPlain
  <1>8. n_dbi' \in 0 .. MaxDbi
        /\ \A u \in Slots : env'[u].name # None \/ env'[u].flags # Free => u <= n_dbi'
    BY StoreCount
  <1>9. \A u \in Slots : ~Busy(u)' => Rest(env'[u])
    BY <1>3, <1>4, <1>5, <1>6, <1>7
  <1>10. \A u \in Slots : env'[u].flags = "plain" => env'[u].name \in Names
    BY <1>6, <1>7 DEF Inv, SlotsInv
  <1>11. ASSUME NEW u \in Slots, NEW v \in Slots, env'[u].flags = "plain", env'[v].flags = "plain",
                u # v
         PROVE  env'[u].name # env'[v].name
    BY <1>6, <1>7, <1>11 DEF Inv, SlotsInv
  <1>12. lock' # None => op'[lock'].pc = "store" /\ Holder(lock)'
    <2>1. SUFFICES ASSUME lock' # None
                   PROVE  op'[lock'].pc = "store" /\ Holder(lock)'
      OBVIOUS
    <2>2. lock' = t /\ op'[t].pc = "store" /\ Holder(t)'
      BY <2>1, StoreHolder
    <2>3. /\ op'[lock'] = op'[t] /\ txn'[lock'] = txn'[t] /\ (lock' = "r" <=> t = "r")
          /\ Slot(lock)' = Slot(t)' /\ Todo(lock)' = Todo(t)'
      BY ONLY <2>2 DEF Slot, Todo
    <2>4. Holder(lock)'
      BY ONLY <2>2, <2>3, SMTT(30) DEF Holder
    <2> QED
      BY <2>2, <2>3, <2>4
  <1>13. lock' \in Threads \cup {None}
    BY <1>3
  <1> QED
    BY <1>6, <1>8, <1>9, <1>10, <1>11, <1>12, <1>13 DEF SlotsInv

\* A store keeps what the transactions know of the slots.
LEMMA StoreViews ==
  ASSUME Inv, NEW t \in Threads, Store(t), NEW u \in Threads, NEW v \in Slots, txn[u].active
  PROVE  View(txn[u], v)' \/ (Enrols(u, v)' /\ Sane(txn'[u].state[v]))
  <1> DEFINE s == Slot(t)
             h == Head(Todo(t))
             r == Tail(Todo(t))
             x == txn[u]
  <1>1. op[t].pc = "store"
    BY DEF Store
  <1>2. lock = t /\ s \in Slots /\ h \in SlotType /\ Ahead(t, s, h, r) /\ lock # None
    BY <1>1, StoreAhead, HolderBusy
  <1>3. /\ env' = [env EXCEPT ![s] = h] /\ txn' = txn
        /\ r # <<>> => /\ lock' = t /\ op'[t].by = op[t].by /\ Slot(t)' = s /\ Todo(t)' = r
    BY StoreRest
  <1>4. /\ env[s] \in SlotType /\ env'[s] = h /\ \A w \in Slots : w # s => env'[w] = env[w]
        /\ x.seqs[v] \in Nat
    BY <1>2, <1>3 DEF Inv, SlotsInv, Types, TxnType
  <1>5. View(x, v) \/ (Enrols(u, v) /\ Sane(x.state[v]))
    BY DEF Inv, Views
  <1>6. Enrols(u, v) => u = t /\ v = s /\ Target(t).flags = "plain"
    BY <1>2 DEF Enrols
  <1>7. Sane(x.state[v])
    BY <1>5 DEF View
  <1>8. Shuts(v) => v = s
    BY <1>2 DEF Shuts
  <1>9. env[s].seq \in Nat /\ h.seq \in Nat
    BY <1>2, <1>4 DEF SlotType
  <1> HIDE DEF s, h, r, x
  <1>10. CASE v # s
    <2>1. View(x, v) /\ ~Shuts(v) /\ env'[v] = env[v]
      BY <1>4, <1>5, <1>6, <1>8, <1>10
    <2>2. View(txn[u], v)'
      BY <1>3, <2>1 DEF View, x
    <2> QED
      BY <2>2
  <1>11. CASE v = s
    <2>1. ASSUME "VALID" \in x.state[s] => x.seqs[s] < h.seq
          PROVE  View(txn[u], v)'
      BY <1>3, <1>4, <1>7, <1>9, <1>11, <2>1 DEF View, x
    <2>2. CASE Closes(env[s], h, r) /\ (t = "r" => op[t].by = "close")
               /\ Target(t).flags # "plain"
      <3>1. View(x, s)
        BY <1>5, <1>6, <1>11, <2>2
      <3>2. Shuts(s)'
        <4>1. r # <<>> /\ Shut(h, r)
          BY <2>2 DEF Closes
        <4>2. lock' = t /\ op'[t].by = op[t].by /\ Slot(t)' = s /\ Todo(t)' = r
          BY <1>3, <4>1
        <4>3. Shut(env'[s], Todo(t)') /\ (t = "r" => op'[t].by = "close")
          BY <1>4, <2>2, <4>1, <4>2
        <4>4. Slot(lock)' = s /\ Todo(lock)' = Todo(t)' /\ lock' # None
          BY <1>2, <4>2 DEF Slot, Todo
        <4>5. s' = s
          BY <4>2 DEF s
        <4> QED
          BY <4>2, <4>3, <4>4, <4>5 DEF Shuts
      <3>3. h.seq = env[s].seq /\ h.flags # "plain"
        BY <2>2 DEF Closes, Free
      <3>4. View(txn[u], v)'
        <4>1. Shuts(v)'
          BY <1>3, <1>11, <2>2, <3>2 DEF Closes, s
        <4> QED
          BY <1>3, <1>4, <1>7, <1>9, <1>11, <3>1, <3>3, <4>1 DEF View, x
      <3> QED
        BY <3>4
    <2>3. CASE Freed(env[s], h, r) /\ Target(t).flags # "plain"
      <3>1. View(x, s) /\ h.seq = env[s].seq + 1
        BY <1>5, <1>6, <1>11, <2>3 DEF Freed
      <3>2. "VALID" \in x.state[s] => x.seqs[s] < h.seq
        BY <1>4, <1>9, <1>11, <3>1 DEF View
      <3> QED
        BY <2>1, <3>2
    <2>4. ASSUME h.seq >= env[s].seq, ~Shuts(s), env[s].flags # "plain", ~Enrols(u, v)
          PROVE  View(txn[u], v)'
      <3>1. View(x, s)
        BY <1>5, <1>11, <2>4
      <3>2. "VALID" \in x.state[s] => x.seqs[s] < h.seq
        BY <1>4, <1>9, <1>11, <2>4, <3>1 DEF View
      <3> QED
        BY <2>1, <3>2
    <2>5. CASE (Refuses(env[s], h, r) \/ GaveUp(env[s], h, r))
               /\ ~Shuts(s) /\ Target(t).flags # "plain" /\ env[s].flags # "plain"
      <3>1. Refuses(env[s], h, r) => h.seq >= env[s].seq
        BY DEF Refuses
      <3>2. GaveUp(env[s], h, r) => h.seq >= env[s].seq
        BY <1>9 DEF GaveUp, Off
      <3> QED
        BY <1>6, <2>4, <2>5, <3>1, <3>2
    <2>6. ASSUME NEW q \in Nat, NEW n \in Names,
                 Enrolls(env[s], h, r, q, n) \/ Enrolled2(env[s], h, r, q, n),
                 Enrolled1(txn[t], s, q, n), ~Shuts(s), env[s].flags # "plain"
          PROVE  View(txn[u], v)' \/ (Enrols(u, v)' /\ Sane(txn'[u].state[v]))
      <3>1. CASE u # t
        <4>1. Enrolls(env[s], h, r, q, n) => h.seq >= env[s].seq
          BY DEF Enrolls
        <4>2. Enrolled2(env[s], h, r, q, n) => h.seq >= env[s].seq
          BY <1>9 DEF Enrolled2, Off, On
        <4> QED
          BY <1>6, <2>4, <2>6, <3>1, <4>1, <4>2
      <3>2. CASE u = t /\ Enrolls(env[s], h, r, q, n)
        <4>1. r # <<>> /\ r[Len(r)].flags = "plain"
          BY <3>2 DEF Enrolls
        <4>2. Enrols(u, v)'
          BY <1>3, <1>11, <3>2, <4>1 DEF Enrols, Target
        <4> QED
          BY <1>3, <1>7, <4>2 DEF x
      <3>3. CASE u = t /\ Enrolled2(env[s], h, r, q, n)
        <4>1. h.flags = "plain" /\ h.seq = q /\ h.name = n
          BY <3>3 DEF Enrolled2, On
        <4>2. x.seqs[s] = q /\ x.main[n].id = x.dbs[s].id /\ x.main[n].id # 0
          BY <2>6, <3>3 DEF Enrolled1, x
        <4> QED
          BY <1>3, <1>4, <1>7, <1>9, <1>11, <4>1, <4>2 DEF View, x
      <3> QED
        BY <2>6, <3>1, <3>2, <3>3
    <2> QED
      BY <1>2, <2>2, <2>3, <2>5, <2>6 DEF Ahead
  <1> QED
    BY <1>10, <1>11

\* A changed table keeps its slot through a store.
LEMMA StoreWrites ==
  ASSUME Inv, NEW t \in Threads, Store(t)
  PROVE  Writes'
  <1> DEFINE s == Slot(t)
             h == Head(Todo(t))
             r == Tail(Todo(t))
             x == txn["w"]
  <1>1. op[t].pc = "store"
    BY DEF Store
  <1>2. lock = t /\ s \in Slots /\ Ahead(t, s, h, r) /\ Busy(s)
    BY <1>1, StoreAhead, HolderBusy
  <1>3. /\ env' = [env EXCEPT ![s] = h] /\ txn' = txn /\ wrote' = wrote
        /\ \A u \in Slots : Busy(u)' <=> Busy(u) /\ (u # s \/ r # <<>>)
        /\ r # <<>> => lock' = t /\ Slot(t)' = s /\ Todo(t)' = r
    BY StoreRest
  <1> HIDE DEF s, h, r
  <1>4. env'[s] = h /\ \A w \in Slots : w # s => env'[w] = env[w]
    BY <1>2, <1>3 DEF Inv, SlotsInv
  <1>5. ASSUME x.active, NEW v \in Slots, "DIRTY" \in x.state[v]
        PROVE  Changed(txn["w"], v)'
    <2>1. Changed(x, v)
      BY <1>5 DEF Inv, Writes
    <2>2. CASE v # s
      <3>1. ~Enrols("w", v)
        BY <1>2, <2>2 DEF Enrols, s
      <3>2. x.seqs[v] = env[v].seq /\ env[v].flags = "plain" /\ ~Busy(v)
        BY <2>1, <3>1 DEF Changed
      <3>3. ~Busy(v)' /\ env'[v] = env[v]
        BY <1>3, <1>4, <2>2, <3>2
      <3> QED
        BY <1>3, <3>2, <3>3 DEF Changed
    <2>3. CASE v = s
      <3>1. Enrols("w", s)
        BY <1>2, <2>1, <2>3 DEF Changed
      <3>2. t = "w" /\ Target(t).flags = "plain"
        BY <1>2, <3>1 DEF Enrols
      <3>3. PICK q \in Nat, n \in Names :
              /\ Enrolls(env[s], h, r, q, n) \/ Enrolled2(env[s], h, r, q, n)
              /\ Enrolled1(txn[t], s, q, n)
        BY <1>2, <3>2 DEF Ahead
      <3>4. CASE Enrolls(env[s], h, r, q, n)
        <4>1. r # <<>> /\ r[Len(r)].flags = "plain"
          BY <3>4 DEF Enrolls
        <4>2. Enrols("w", v)'
          BY <1>3, <2>3, <3>2, <4>1 DEF Enrols, Target
        <4> QED
          BY <4>2 DEF Changed
      <3>5. CASE Enrolled2(env[s], h, r, q, n)
        <4>1. r = <<>> /\ h.flags = "plain" /\ h.seq = q
          BY <3>5 DEF Enrolled2, On
        <4>2. x.seqs[s] = q
          BY <3>2, <3>3 DEF Enrolled1
        <4>3. ~Busy(v)'
          BY <1>3, <2>3, <4>1
        <4> QED
          BY <1>3, <1>4, <2>3, <4>1, <4>2, <4>3 DEF Changed
      <3> QED
        BY <3>3, <3>4, <3>5
    <2> QED
      BY <2>2, <2>3
  <1>6. x.active => Written1(txn["w"])'
    BY <1>3 DEF Inv, Writes, Written1
  <1> QED
    BY <1>3, <1>5, <1>6 DEF Writes

\* The other thread's call knows nothing that the store makes wrong.
LEMMA StoreOps ==
  ASSUME Inv, NEW t \in Threads, Store(t)
  PROVE  Ops'
  <1> DEFINE s == Slot(t)
             h == Head(Todo(t))
             r == Tail(Todo(t))
  <1>1. op[t].pc = "store"
    BY DEF Store
  <1>2. lock = t /\ s \in Slots /\ Ahead(t, s, h, r)
    BY <1>1, StoreAhead
  <1>3. /\ env' = [env EXCEPT ![s] = h] /\ txn' = txn
        /\ \A u \in Threads : u # t => op'[u] = op[u]
        /\ op'[t] = Idle \/ (lock' = t /\ op'[t].pc = "store")
    BY StoreRest
  <1> HIDE DEF s, h, r
  <1>4. env'[s] = h /\ \A w \in Slots : w # s => env'[w] = env[w]
    BY <1>2, <1>3 DEF Inv, SlotsInv
  <1>5. OpInv(t)'
    BY <1>3, IdleOp DEF OpInv
  <1>6. ASSUME NEW u \in Threads, u # t
        PROVE  OpInv(u)'
    <2>1. OpInv(u) /\ op[u].pc # "store" /\ op'[u] = op[u] /\ txn'[u] = txn[u]
      BY <1>2, <1>3, <1>6 DEF Inv, Ops, OpInv
    <2>2. ASSUME NEW f \in Slots, Unusable(txn[u], f), txn[u].active
          PROVE  Unusable(txn[u], f)'
      <3>1. CASE f # s \/ h.flags # "plain"
        BY <1>3, <1>4, <2>2, <3>1 DEF Unusable
      <3>2. CASE f = s /\ h.flags = "plain"
        <4>1. ~Closes(env[s], h, r) /\ ~Freed(env[s], h, r) /\ ~Refuses(env[s], h, r)
              /\ ~GaveUp(env[s], h, r)
          BY <3>2 DEF Closes, Freed, Refuses, GaveUp, Off, Free, POISON
        <4>2. PICK q \in Nat, n \in Names :
                /\ Enrolls(env[s], h, r, q, n) \/ Enrolled2(env[s], h, r, q, n)
                /\ ~Shuts(s) /\ env[s].flags # "plain"
          BY <1>2, <4>1 DEF Ahead
        <4>3. ~Enrolls(env[s], h, r, q, n)
          BY <3>2 DEF Enrolls
        <4>4. h.seq = env[s].seq
          BY <4>2, <4>3 DEF Enrolled2, On, Off
        <4>5. View(txn[u], s)
          BY <1>2, <1>6, <2>2 DEF Inv, Views, Enrols
        <4>6. "VALID" \in txn[u].state[s] => txn[u].seqs[s] # env[s].seq
          BY <4>2, <4>5 DEF View
        <4> QED
          BY <1>3, <1>4, <3>2, <4>4, <4>6 DEF Unusable
      <3> QED
        BY <3>1, <3>2
    <2>3. OpenInv(u) => OpenInv(u)'
      BY <2>1, <2>2 DEF OpenInv
    <2> QED
      BY <2>1, <2>3 DEF OpInv
  <1> QED
    BY <1>5, <1>6 DEF Ops

LEMMA StoreStep ==
  ASSUME Inv, NEW t \in Threads, Store(t)
  PROVE  Inv'
  <1>1. UNCHANGED <<txn, tables, lastId, wrote, lost>> /\ DOMAIN op' = Threads
    BY StoreRest
  <1>2. Types'
    BY <1>1 DEF Inv, Types
  <1>3. Views'
    <2>1. SUFFICES ASSUME NEW u \in Threads, NEW v \in Slots, txn'[u].active
                   PROVE  View(txn[u], v)' \/ (Enrols(u, v)' /\ Sane(txn'[u].state[v]))
      BY DEF Views
    <2>2. txn[u].active
      BY <1>1, <2>1
    <2> QED
      BY <2>2, StoreViews
  <1> QED
    BY <1>1, <1>2, <1>3, StoreSlots, StoreWrites, StoreOps DEF Inv

-----------------------------------------------------------------------------
(* The theorems.                                                           *)

LEMMA InitInv == Init => Inv
  <1> SUFFICES ASSUME Init
               PROVE  Inv
    OBVIOUS
  <1>1. \A t \in Threads : txn[t] = NoTxn /\ op[t] = Idle
    BY DEF Init
  <1>2. /\ env \in [Slots -> SlotType] /\ \A s \in Slots : env[s] = Off(0, None)
        /\ n_dbi \in 0 .. MaxDbi /\ n_dbi = 0 /\ lock = None /\ lost = FALSE
    BY DbiAssumption DEF Init, FreeSlot, SlotType, Off
  <1>3. \A s \in Slots : env[s].flags = Free /\ env[s].name = None /\ env[s].seq = 0
    BY <1>2 DEF Off
  <1>4. Types
    <2>1. NoTable \in TableType
      BY DEF NoTable, TableType
    <2>2. tables \in Mains
      BY <2>1 DEF Init, Mains
    <2>3. txn \in [Threads -> TxnType] /\ txn["w"].cursors = {} /\ lastId \in Nat
          /\ DOMAIN op = Threads
      BY <1>1, FreshTxn DEF Init, Threads
    <2>4. \A s \in Slots : txn["r"].state[s] = {}
      BY <1>1, FreshTxn DEF Threads
    <2> QED
      BY <2>2, <2>3, <2>4 DEF Types
  <1>5. SlotsInv
    BY <1>2, <1>3 DEF SlotsInv, Rest, Free
  <1>6. \A t \in Threads : ~txn[t].active
    BY <1>1, FreshTxn
  <1>7. Views /\ Writes
    BY <1>6 DEF Views, Writes, Threads
  <1>8. Ops
    BY <1>1 DEF Ops, OpInv, Idle
  <1> QED
    BY <1>2, <1>4, <1>5, <1>7, <1>8 DEF Inv

LEMMA NextInv ==
  ASSUME Inv, Careful, [Next]_vars
  PROVE  Inv'
  <1>1. CASE Next
    <2>1. ASSUME NEW t \in Threads, Opening(t)
          PROVE  Inv'
      BY <2>1, OpenStep, ScanSlotStep, MatchNameStep, CheckSlotStep, BindSlotStep, ScanEndStep,
         OpenLockedStep, StoreStep DEF Opening
    <2>2. ASSUME NEW t \in Threads, Handling(t)
          PROVE  Inv'
      BY <2>2, BeginStep, AbortStep, CloseStep, CloseCursorStep, GetStep DEF Handling
    <2>3. CASE Commit \/ dbi_update
      BY <2>3, CommitStep, UpdateStep
    <2>4. CASE \E s \in Slots : Put(s) \/ \E del \in BOOLEAN : Drop(s, del)
      BY <2>4, PutStep, DropStep
    <2> QED
      BY <1>1, <2>1, <2>2, <2>3, <2>4 DEF Next
  <1>2. CASE UNCHANGED vars
    <2>1. UNCHANGED <<env, n_dbi, lock, txn, op, tables, lastId, wrote, lost>>
      BY <1>2 DEF vars
    <2>2. Types' /\ SlotsInv' /\ Views' /\ Writes'
      BY <2>1, CallStep DEF Inv, Types
    <2>3. Ops'
      BY <2>1, OthersOp DEF Inv, Ops
    <2> QED
      BY <2>1, <2>2, <2>3 DEF Inv
  <1> QED
    BY <1>1, <1>2

\* The bookkeeping of dbi_lock, of the slots and of what every transaction
\* knows of them (dbi_open, dbi_close, dbi_check, dbi_import, dbi_update)
\* holds in every state that a careful application reaches.
THEOREM Bookkeeping ==
  ASSUME Careful
  PROVE  Spec => []Inv
  <1>1. Inv /\ [Next]_vars => Inv'
    BY NextInv
  <1> QED
    BY <1>1, InitInv, PTL DEF Spec

LEMMA InvHandle ==
  ASSUME Inv
  PROVE  HandleSound
  <1>1. SUFFICES ASSUME lock = None
                 PROVE  HandleSound
    BY DEF HandleSound
  <1>2. ASSUME NEW t \in Threads, NEW s \in Slots, Usable(t, s)
        PROVE  /\ Valid(s) /\ env[s].name # None
               /\ txn[t].main[env[s].name].id = txn[t].dbs[s].id
               /\ txn[t].main[env[s].name].id # 0
    <2>1. View(txn[t], s) /\ ~Shuts(s)
      BY <1>1, <1>2 DEF Inv, Views, Usable, Enrols, Shuts, Threads, None
    <2>2. /\ "VALID" \in txn[t].state[s] /\ "STALE" \notin txn[t].state[s]
          /\ txn[t].seqs[s] = env[s].seq
      BY <1>2 DEF Usable, dbi_changed
    <2>3. env[s].flags = "plain" /\ env[s].name \in Names
      BY <2>1, <2>2 DEF View, Inv, SlotsInv
    <2>4. Valid(s) /\ env[s].name # None
      BY <2>3, DbiAssumption DEF Valid, None
    <2> QED
      BY <2>1, <2>2, <2>3, <2>4 DEF View
  <1>3. ASSUME NEW s \in Slots, NEW u \in Slots, Valid(s), Valid(u), s # u
        PROVE  env[s].name # env[u].name
    <2>1. env[s].flags = "plain" /\ env[u].flags = "plain"
      BY <1>3, ValidIsPlain DEF Inv, SlotsInv
    <2> QED
      BY <1>3, <2>1 DEF Inv, SlotsInv
  <1> QED
    BY <1>2, <1>3 DEF HandleSound

\* In a careful application, while nobody changes the slots, a handle that a
\* transaction would use (dbi_check) leads to the table that the handle's
\* name has in that transaction, and no two handles have one name, whatever
\* the number of slots, names and tables and however the opens, closes,
\* drops and commits of the threads interleave.
THEOREM HandlesSound ==
  ASSUME Careful
  PROVE  Spec => []HandleSound
  <1>1. Inv => HandleSound
    BY InvHandle
  <1> QED
    BY <1>1, Bookkeeping, PTL

\* In a careful application a commit stores every record put through a
\* handle (txn_basal_update_tbl_roots takes the names from the slots).
THEOREM WritesKept ==
  ASSUME Careful
  PROVE  Spec => []WritesSurvive
  <1>1. Inv => WritesSurvive
    BY DEF Inv, WritesSurvive
  <1> QED
    BY <1>1, Bookkeeping, PTL
=============================================================================

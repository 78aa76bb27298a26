-------------------------------- MODULE Dbi --------------------------------
(***************************************************************************)
(* Handles of named tables.  The environment keeps one array of slots for  *)
(* all threads: flags, a sequence number and the name.  Writers of the     *)
(* array hold dbi_lock and change a slot field by field; mdbx_dbi_open     *)
(* first scans the array without the lock and trusts what it saw only if   *)
(* the sequence number has not moved.  A transaction keeps its own state   *)
(* of each slot, filled lazily, and finds out by the sequence number that  *)
(* a handle was closed or given to another table under its feet.           *)
(*                                                                         *)
(* One thread runs write transactions, the other read transactions.  A     *)
(* table is its identity, its flags and whether it is empty.  Comparators, *)
(* the unnamed table with MDBX_DUPSORT, renaming and nested transactions   *)
(* are left out.  Stores are seen in program order, as on x86.             *)
(***************************************************************************)
EXTENDS Integers, Sequences, FiniteSets, FiniteSetsExt, SequencesExt

CONSTANTS
    Names,      \* names of tables
    MaxDbi,     \* env->max_dbi without the two core tables
    Flags,      \* persistent flags of a table
    Modes,      \* how tables are opened: plain, accede, create
    MaxSeq,     \* bound on the sequence number from which a slot is opened
    MaxId,      \* bound on the number of tables ever created
    Careful     \* one set of flags, readers open what they can see and hold no
                \* cursor then

ASSUME DbiAssumption ==
    /\ MaxDbi \in Nat \ {0} /\ MaxSeq \in Nat /\ Careful \in BOOLEAN
    /\ "plain" \in Flags /\ {"free", "poison"} \cap Flags = {} /\ "none" \notin Names
    /\ Modes \subseteq {"plain", "accede", "create"}

VARIABLES
    env,        \* slots: [flags, seq, name]
    n_dbi,      \* env->n_dbi
    lock,       \* the holder of dbi_lock
    txn,        \* the transaction of each thread
    op,         \* what each thread is doing
    tables,     \* the named tables of the last commit
    lastId,     \* the last table identity given out
    wrote,      \* tables the write transaction put a record into
    lost        \* a commit left out something written

vars == <<env, n_dbi, lock, txn, op, tables, lastId, wrote, lost>>

Threads == {"w", "r"}
Slots == 1 .. MaxDbi
None == "none"
Free == "free"
POISON == "poison"

NoTable == [id |-> 0, flags |-> "plain", full |-> FALSE]
FreeSlot == [flags |-> Free, seq |-> 0, name |-> None]
Valid(s) == env[s].flags \in Flags
Idle == [pc |-> "idle"]

\* A transaction that knows no handle yet.
NoTxn == [active |-> FALSE, error |-> FALSE, cursors |-> {},
          main |-> [n \in Names |-> NoTable], dbs |-> [s \in Slots |-> NoTable],
          state |-> [s \in Slots |-> {}], seqs |-> [s \in Slots |-> 0]]

-----------------------------------------------------------------------------
(* The state of a handle in a transaction.  x is a transaction; results    *)
(* are [rc, x], with the stores to the slot (todo) where there are any.    *)

State(x, s, st) == [x EXCEPT !.state[s] = st]
Result(rc, x) == [rc |-> rc, x |-> x, todo |-> <<>>]

dbi_changed(x, s) == env[s].seq # x.seqs[s]

Disowned(x, s) ==
    [x EXCEPT !.state[s] = (@ \cap {"SLAIN"}) \cup {"OLDEN", "LINDO"},
              !.seqs[s] = env[s].seq]

Imported(x, s) ==
    LET y == [x EXCEPT !.seqs[s] = env[s].seq] IN
    IF Valid(s)
    THEN Result("SUCCESS", [y EXCEPT !.dbs[s].flags = env[s].flags,
                                     !.state[s] = {"LINDO", "VALID", "STALE"}])
    ELSE Result("BAD_DBI", State(y, s, {"LINDO"}))

dbi_import(x, s) ==
    CASE s > n_dbi \/ env[s].flags = Free -> Result("BAD_DBI", x)
      [] s <= n_dbi /\ env[s].flags # Free ->
           CASE x.state[s] = {} ->
                  Imported([x EXCEPT !.cursors = @ \ {s}], s)
             [] x.state[s] # {} /\ s \in x.cursors ->
                  Result("DANGLING_DBI", Disowned(x, s))
             [] /\ x.state[s] \cap {"OLDEN", "VALID", "SLAIN"} # {}
                /\ s \notin x.cursors -> Result("BAD_DBI", Disowned(x, s))
             [] x.state[s] = {"LINDO"} /\ s \notin x.cursors -> Imported(x, s)

dbi_check(x, s) ==
    IF "LINDO" \in x.state[s] /\ ~dbi_changed(x, s)
    THEN Result(IF "VALID" \in x.state[s] THEN "SUCCESS" ELSE "BAD_DBI", x)
    ELSE dbi_import(x, s)

dbi_gone(x, s) ==
    [x EXCEPT !.state[s] = (@ \cap {"SLAIN"}) \cup {"OLDEN", "LINDO"},
              !.seqs[s] = IF x.state[s] \cap {"FRESH", "CREAT"} # {}
                          THEN @ ELSE 0]

\* tbl_fetch: the record of a table in the unnamed one; a is what the caller
\* asks for.
tbl_fetch(x, s, n, a) ==
    CASE n = None \/ x.main[n] = NoTable -> Result("NOTFOUND", x)
      [] /\ n # None /\ x.main[n] # NoTable
         /\ x.main[n].flags # a.flags /\ ~a.accede
         /\ ~(a.create /\ ~x.main[n].full) -> Result("INCOMPATIBLE", x)
      [] OTHER -> Result("SUCCESS", [x EXCEPT !.dbs[s] = x.main[n]])

Refreshed(r, x, s) ==
    CASE r.rc # "SUCCESS" -> Result(r.rc, dbi_gone(x, s))
      [] r.rc = "SUCCESS" /\ dbi_changed(x, s) -> Result("BAD_DBI", r.x)
      [] r.rc = "SUCCESS" /\ ~dbi_changed(x, s) ->
           Result("SUCCESS", State(r.x, s, x.state[s] \ {"STALE"}))

tbl_refresh(x, s) ==
    Refreshed(tbl_fetch(x, s, env[s].name,
                        [flags |-> x.dbs[s].flags, accede |-> FALSE, create |-> FALSE]),
              x, s)

\* cursor_init: what every operation on a handle starts with.
Fresh(r, s) ==
    IF r.rc = "SUCCESS" /\ "STALE" \in r.x.state[s] THEN tbl_refresh(r.x, s) ELSE r

cursor_init(x, s) == Fresh(dbi_check(x, s), s)

\* An empty table is made anew with other flags.
Remade(x, s, f) ==
    LET q == env[s].seq
        e == [env[s] EXCEPT !.flags = POISON]
    IN [rc |-> "SUCCESS",
        x |-> [x EXCEPT !.dbs[s].flags = f, !.seqs[s] = q + 2,
                        !.state[s] = {"LINDO", "VALID", "CREAT", "DIRTY"}],
        todo |-> << e, [e EXCEPT !.seq = q + 1],
                    [e EXCEPT !.seq = q + 1, !.flags = f],
                    [e EXCEPT !.seq = q + 2, !.flags = f] >>]

\* r is what the refresh of a stale handle gave.
Recreated(r, s, f) ==
    CASE r.rc # "NOTFOUND" -> r
      [] r.rc = "NOTFOUND" /\ r.x.dbs[s].full -> Result("INCOMPATIBLE", r.x)
      [] r.rc = "NOTFOUND" /\ ~r.x.dbs[s].full /\ s \in r.x.cursors ->
           Result("DANGLING_DBI", r.x)
      [] r.rc = "NOTFOUND" /\ ~r.x.dbs[s].full /\ s \notin r.x.cursors ->
           Remade(r.x, s, f)

\* dbi_bind: the flags asked for against those of the slot.
dbi_bind(x, s, a) ==
    CASE a.flags = env[s].flags \/ a.accede -> Result("SUCCESS", x)
      [] a.flags # env[s].flags /\ ~a.accede /\ ~a.create ->
           Result("INCOMPATIBLE", x)
      [] a.flags # env[s].flags /\ ~a.accede /\ a.create ->
           Recreated(IF "STALE" \in x.state[s] THEN tbl_refresh(x, s)
                     ELSE Result("NOTFOUND", x), s, a.flags)
-----------------------------------------------------------------------------
(* Stores to a slot by the holder of dbi_lock.                             *)

Closed(s) ==
    << [env[s] EXCEPT !.flags = Free],
       [flags |-> Free, name |-> None, seq |-> env[s].seq],
       [flags |-> Free, name |-> None, seq |-> env[s].seq + 1] >>

dbi_close_locked(s) ==
    IF s <= n_dbi /\ env[s].name # None THEN Closed(s) ELSE <<>>

\* env->n_dbi after the last slot was closed.
Trimmed(e, n) == Max({0} \cup {i \in 1 .. n : e[i].name # None})

\* The slots left to store to, with their stores.
Job(s, todo) == IF todo = <<>> THEN <<>> ELSE << [slot |-> s, todo |-> todo] >>

Release(t) == lock' = None /\ op' = [op EXCEPT ![t] = Idle]

\* The thread holds the lock and has these stores to make for this call.
Holding(t, jobs, by) ==
    /\ lock' = t
    /\ op' = [op EXCEPT ![t] = [pc |-> "store", jobs |-> jobs, by |-> by]]

\* Taking the lock; a call that has nothing to store only passes by.
Locked(t, jobs, by) ==
    /\ lock = None
    /\ IF jobs = <<>> THEN Release(t) ELSE Holding(t, jobs, by)

\* One store; n_dbi grows with the store that poisons the first unused slot
\* and shrinks when the last slot is closed.  With the last store the lock
\* is released.
Store(t) ==
    /\ op[t].pc = "store"
    /\ LET j == Head(op[t].jobs)
           e == [env EXCEPT ![j.slot] = Head(j.todo)]
           rest == Job(j.slot, Tail(j.todo)) \o Tail(op[t].jobs)
           last == Tail(j.todo) = <<>> /\ env[j.slot].flags = Free
                   /\ Head(j.todo).flags = Free
       IN /\ env' = e
          /\ n_dbi' = CASE Head(j.todo).flags # Free -> Max({n_dbi, j.slot})
                        [] last /\ (n_dbi = j.slot \/ (op[t].by = "end" /\ rest = <<>>)) ->
                             Trimmed(e, n_dbi)
                        [] OTHER -> n_dbi
          /\ IF rest = <<>> THEN Release(t) ELSE Holding(t, rest, op[t].by)
    /\ UNCHANGED <<txn, tables, lastId, wrote, lost>>

-----------------------------------------------------------------------------
(* mdbx_dbi_open.                                                          *)

\* Tables are stable; what a reader asks for is in its snapshot, and it has no
\* cursor.
Sensible(t, n, a) ==
    \/ ~Careful
    \/ /\ a.flags = "plain"
       /\ t = "r" => txn[t].main[n] # NoTable /\ txn[t].cursors = {}

Open(t, n, a) ==
    /\ op[t].pc = "idle" /\ txn[t].active
    /\ t = "r" => ~a.create
    /\ Sensible(t, n, a)
    /\ t = "w" => lastId < MaxId
    /\ \A s \in Slots : env[s].seq < MaxSeq
    /\ op' = [op EXCEPT ![t] = [pc |-> "scan", name |-> n, a |-> a, i |-> 1,
                               free |-> n_dbi + 1, fast |-> 0, snap |-> FreeSlot]]
    /\ UNCHANGED <<env, n_dbi, lock, txn, tables, lastId, wrote, lost>>

Return(t) == op' = [op EXCEPT ![t] = Idle]
SlowPath(t, fast) ==
    op' = [op EXCEPT ![t] = [@ EXCEPT !.pc = "slow", !.fast = fast,
                                       !.snap = FreeSlot]]
NextSlot(t) ==
    op' = [op EXCEPT ![t] = [@ EXCEPT !.pc = "scan", !.i = op[t].i + 1,
                                      !.snap = FreeSlot]]

Pure == UNCHANGED <<env, n_dbi, lock, tables, lastId, wrote, lost>>

\* A free slot is remembered; of a used one flags and sequence are read.
ScanSlot(t) ==
    /\ op[t].pc = "scan" /\ op[t].i <= n_dbi
    /\ LET i == op[t].i IN
       IF ~Valid(i)
       THEN op' = [op EXCEPT ![t] = [@ EXCEPT !.i = i + 1,
                                             !.free = Min({op[t].free, i})]]
       ELSE op' = [op EXCEPT ![t] = [@ EXCEPT !.pc = "name",
                                             !.snap = env[i]]]
    /\ UNCHANGED txn /\ Pure

\* Flags, sequence and name are compared with what was read first.
Unmoved(t) == op[t].snap = env[op[t].i]

\* The slot is the one wanted, if it did not move meanwhile.  The name is
\* read here: only one that is still there counts.
MatchName(t) ==
    /\ op[t].pc = "name"
    /\ CASE op[t].snap.name = None \/ ~Unmoved(t) -> SlowPath(t, 0)
         [] Unmoved(t) /\ op[t].snap.name \notin {None, op[t].name} -> NextSlot(t)
         [] Unmoved(t) /\ op[t].snap.name = op[t].name ->
              IF ~op[t].a.accede /\ op[t].a.flags # op[t].snap.flags
              THEN SlowPath(t, 0)
              ELSE op' = [op EXCEPT ![t].pc = "check"]
    /\ UNCHANGED txn /\ Pure

\* The slot as the transaction knows it.
Checked(t, r, st) ==
    /\ txn' = [txn EXCEPT ![t] = r.x]
    /\ CASE r.rc = "SUCCESS" -> op' = [op EXCEPT ![t].pc = "bind"]
         [] r.rc = "BAD_DBI" /\ st \in {{"SLAIN", "LINDO"}, {"SLAIN", "OLDEN", "LINDO"}} ->
              IF op[t].a.create THEN SlowPath(t, 0) ELSE Return(t)
         [] r.rc = "BAD_DBI" /\ st \in {{"OLDEN", "LINDO"}, {"LINDO"}} -> SlowPath(t, 0)
         [] OTHER -> Return(t)

CheckedAs(t, r) == Checked(t, r, r.x.state[op[t].i])

CheckSlot(t) ==
    /\ op[t].pc = "check"
    /\ CheckedAs(t, dbi_check(txn[t], op[t].i))
    /\ Pure

FetchedFast(t, i, f) ==
    IF f.rc = "SUCCESS"
    THEN Return(t) /\ txn' = [txn EXCEPT ![t] = State(f.x, i, f.x.state[i] \ {"STALE"})]
    ELSE SlowPath(t, i) /\ txn' = [txn EXCEPT ![t] = f.x]

BoundFast(t, i, b) ==
    IF b.rc = "SUCCESS" /\ "STALE" \in b.x.state[i]
    THEN FetchedFast(t, i, tbl_fetch(b.x, i, op[t].name, op[t].a))
    ELSE Return(t) /\ txn' = [txn EXCEPT ![t] = b.x]

\* Mutant: the second look is forgotten.
BindSlotUnchecked(t) ==
    /\ op[t].pc = "bind"
    /\ BoundFast(t, op[t].i, dbi_bind(txn[t], op[t].i, op[t].a))
    /\ Pure

\* Nothing moved: the handle is bound and its table looked up.
BindSlot(t) ==
    /\ op[t].pc = "bind"
    /\ IF Unmoved(t) THEN BoundFast(t, op[t].i, dbi_bind(txn[t], op[t].i, op[t].a))
       ELSE SlowPath(t, 0) /\ UNCHANGED txn
    /\ Pure

\* The name is not among the slots.
ScanEnd(t) ==
    /\ op[t].pc = "scan" /\ op[t].i > n_dbi
    /\ LET free == op[t].free
           f == tbl_fetch(txn[t], free, op[t].name, op[t].a)
       IN CASE free > MaxDbi -> Return(t) /\ UNCHANGED txn
            [] free <= MaxDbi /\ op[t].a.create -> SlowPath(t, 0) /\ UNCHANGED txn
            [] free <= MaxDbi /\ ~op[t].a.create ->
                 /\ txn' = [txn EXCEPT ![t] = f.x]
                 /\ IF f.rc = "SUCCESS" THEN SlowPath(t, free) ELSE Return(t)
    /\ Pure

-----------------------------------------------------------------------------
(* The slow path: everything is looked at again under dbi_lock.            *)

Reopened(x, s) == dbi_import([State(x, s, {"LINDO"}) EXCEPT !.seqs[s] = 0], s)

\* A slot with this name: checked, or imported anew when the transaction
\* knew it as closed or as dropped and the caller creates.
Rescued(c, s, a) ==
    LET st == c.x.state[s] IN
    CASE c.rc # "BAD_DBI" -> c
      [] c.rc = "BAD_DBI" /\ "SLAIN" \in st /\ ~a.create -> Result("NOTFOUND", c.x)
      [] c.rc = "BAD_DBI" /\ a.create
         /\ st \in {{"SLAIN", "LINDO"}, {"SLAIN", "OLDEN", "LINDO"}} -> Reopened(c.x, s)
      [] c.rc = "BAD_DBI" /\ st \in {{"OLDEN", "LINDO"}, {"LINDO"}} -> Reopened(c.x, s)
      [] OTHER -> c

Recheck(x, s, a) == Rescued(dbi_check(x, s), s, a)

NewTable(a) == [id |-> lastId + 1, flags |-> a.flags, full |-> FALSE]

tbl_create(x, s, n, a) ==
    [x EXCEPT !.dbs[s] = NewTable(a), !.main[n] = NewTable(a)]

\* dbi_open_locked, for a slot that has the name: a failure closes the slot.
Gone(rc, x, s) == [rc |-> rc, x |-> x, todo |-> dbi_close_locked(s)]

Fetched(f, s, o) ==
    CASE f.rc = "SUCCESS" -> f
      [] f.rc = "NOTFOUND" /\ o.a.create ->
           Result("CREATED", State(tbl_create(f.x, s, o.name, o.a), s,
                                   {"LINDO", "VALID", "DIRTY"}))
      [] OTHER -> Gone(f.rc, f.x, s)

\* The lock-free part may have looked the table up already.
Bound(b, s, o) ==
    CASE b.rc # "SUCCESS" -> Gone(b.rc, b.x, s)
      [] b.rc = "SUCCESS" /\ "STALE" \notin b.x.state[s] -> b
      [] b.rc = "SUCCESS" /\ "STALE" \in b.x.state[s] ->
           IF o.fast = 0 THEN Fetched(tbl_fetch(b.x, s, o.name, o.a), s, o)
           ELSE Fetched(Result(IF o.a.create THEN "NOTFOUND" ELSE "SUCCESS",
                               [b.x EXCEPT !.dbs[s] = b.x.dbs[o.fast]]), s, o)

Rechecked(c, s, o) ==
    IF c.rc = "SUCCESS" THEN Bound(dbi_bind(c.x, s, o.a), s, o)
    ELSE Gone(c.rc, c.x, s)

OpenFound(x, s, o) == Rechecked(Recheck(x, s, o.a), s, o)

\* The slot is poisoned first; what the transaction knew of it is void.
Poisoned(x, s) ==
    [x EXCEPT !.seqs[s] = env[s].seq + 1,
              !.state[s] = IF @ \cap {"OLDEN", "VALID", "SLAIN"} # {}
                           THEN (@ \cap {"SLAIN"}) \cup {"OLDEN", "LINDO"}
                           ELSE {"LINDO"}]

\* The stores that make a slot the handle of a table.
Registered(s, n, f, again) ==
    LET q == env[s].seq
        e == [flags |-> POISON, seq |-> q, name |-> None]
    IN << e, [e EXCEPT !.seq = q + 1] >> \o
       (IF again
        THEN << [e EXCEPT !.seq = q + 2], [e EXCEPT !.seq = q + 2, !.flags = f],
                [e EXCEPT !.seq = q + 3, !.flags = f],
                [name |-> n, seq |-> q + 3, flags |-> f] >>
        ELSE << [name |-> n, seq |-> q + 2, flags |-> Free],
                [name |-> n, seq |-> q + 2, flags |-> f] >>)

Refused(s) ==
    LET e == [flags |-> POISON, seq |-> env[s].seq + 1, name |-> None] IN
    << [e EXCEPT !.seq = env[s].seq], e, [e EXCEPT !.flags = Free] >>

\* dbi_open_locked, for a name that has no slot; f is what the lookup gave.
Enrolled(x, f, s, o) ==
    LET t == f.x.dbs[s]
        again == t.flags # o.a.flags /\ ~o.a.accede
        q == env[s].seq
    IN CASE (x.state[s] # {} /\ s \in x.cursors)
            \/ (f.rc \notin {"SUCCESS", "NOTFOUND"})
            \/ (f.rc = "NOTFOUND" /\ ~o.a.create) ->
              [rc |-> "FAILED", todo |-> Refused(s),
               x |-> State(f.x, s, f.x.state[s] \cap {"LINDO", "OLDEN"})]
         [] f.rc = "NOTFOUND" /\ o.a.create /\ ~(x.state[s] # {} /\ s \in x.cursors) ->
              [rc |-> "CREATED", todo |-> Registered(s, o.name, o.a.flags, FALSE),
               x |-> [tbl_create(f.x, s, o.name, o.a) EXCEPT
                        !.seqs[s] = q + 2,
                        !.state[s] = {"LINDO", "VALID", "FRESH", "CREAT", "DIRTY"}]]
         [] f.rc = "SUCCESS" /\ ~(x.state[s] # {} /\ s \in x.cursors) ->
              [rc |-> "SUCCESS",
               todo |-> Registered(s, o.name, IF again THEN o.a.flags ELSE t.flags, again),
               x |-> IF again
                     THEN [f.x EXCEPT !.dbs[s].flags = o.a.flags, !.seqs[s] = q + 3,
                             !.state[s] = {"LINDO", "VALID", "CREAT", "DIRTY"}]
                     ELSE [f.x EXCEPT !.seqs[s] = q + 2,
                             !.state[s] = {"LINDO", "VALID", "FRESH"}]]

OpenNew(x, s, o) == Enrolled(x, tbl_fetch(Poisoned(x, s), s, o.name, o.a), s, o)

\* The slot with the name, else the first free one.
SlotOf(n) ==
    LET same == {s \in 1 .. n_dbi : Valid(s) /\ env[s].name = n} IN
    IF same # {} THEN Min(same)
    ELSE Min({i \in 1 .. n_dbi : ~Valid(i)} \cup {n_dbi + 1})

Opened(t, s, r) ==
    /\ txn' = [txn EXCEPT ![t] = r.x]
    /\ Locked(t, Job(s, r.todo), "open")
    /\ lastId' = IF r.rc = "CREATED" THEN lastId + 1 ELSE lastId

dbi_open_locked(t, s, o) ==
    IF s > MaxDbi THEN Opened(t, s, Result("DBS_FULL", txn[t]))
    ELSE IF s <= n_dbi /\ Valid(s) THEN Opened(t, s, OpenFound(txn[t], s, o))
    ELSE Opened(t, s, OpenNew(txn[t], s, o))

OpenLocked(t) ==
    /\ op[t].pc = "slow" /\ lock = None
    /\ dbi_open_locked(t, SlotOf(op[t].name), op[t])
    /\ UNCHANGED <<env, n_dbi, tables, wrote, lost>>

-----------------------------------------------------------------------------
(* mdbx_dbi_close.                                                         *)

\* "MUST NOT be called concurrently with any transactions using the closing
\* handle, nor during other thread commit/abort a write transaction."
Closing(s) == \E u \in Threads : /\ op[u].pc = "store" /\ op[u].by = "close"
                                 /\ \E i \in DOMAIN op[u].jobs : op[u].jobs[i].slot = s

\* Mutant: a changed table is no obstacle.
CloseAnyway(t, s) ==
    /\ op[t].pc = "idle"
    /\ s <= n_dbi /\ Valid(s)
    /\ \A u \in Threads : txn[u].active => s \notin txn[u].cursors
    /\ op["w"].pc # "end"
    /\ Locked(t, Job(s, dbi_close_locked(s)), "close")
    /\ UNCHANGED <<env, n_dbi, txn, tables, lastId, wrote, lost>>

Close(t, s) ==
    /\ op[t].pc = "idle"
    /\ s <= n_dbi /\ Valid(s)
    /\ \A u \in Threads : txn[u].active => s \notin txn[u].cursors
    /\ op["w"].pc # "end"
    /\ ~(txn["w"].active /\ txn["w"].state[s] \cap {"DIRTY", "CREAT"} # {})
    /\ Locked(t, Job(s, dbi_close_locked(s)), "close")
    /\ UNCHANGED <<env, n_dbi, txn, tables, lastId, wrote, lost>>

-----------------------------------------------------------------------------
(* Transactions and what they do through a handle.                         *)

Begin(t) ==
    /\ op[t].pc = "idle" /\ ~txn[t].active
    /\ txn' = [txn EXCEPT ![t] = [NoTxn EXCEPT !.active = TRUE, !.main = tables]]
    /\ wrote' = IF t = "w" THEN {} ELSE wrote
    /\ UNCHANGED <<env, n_dbi, lock, op, tables, lastId, lost>>

\* The thread is in a transaction and uses this handle.
Using(t, s) ==
    /\ op[t].pc = "idle" /\ txn[t].active /\ ~txn[t].error
    /\ ~Closing(s)
    /\ UNCHANGED <<env, n_dbi, tables, lastId, lost>>

\* Reading through a handle; a reader may keep the cursor.
Read(t, s, keep, r) ==
    txn' = [txn EXCEPT ![t] = [r.x EXCEPT !.cursors = IF r.rc = "SUCCESS" /\ keep
                                                      THEN @ \cup {s} ELSE @]]

Get(t, s, keep) ==
    /\ Using(t, s)
    /\ keep => t = "r"
    /\ txn[t].state[s] # {} \/ Valid(s)
    /\ Read(t, s, keep, cursor_init(txn[t], s))
    /\ UNCHANGED <<lock, op, wrote>>

CloseCursor(t, s) ==
    /\ Using(t, s) /\ s \in txn[t].cursors
    /\ txn' = [txn EXCEPT ![t].cursors = @ \ {s}]
    /\ UNCHANGED <<lock, op, wrote>>

Written(s, r) ==
    /\ r.rc = "SUCCESS"
    /\ txn' = [txn EXCEPT !["w"] = [r.x EXCEPT !.dbs[s].full = TRUE,
                                               !.state[s] = @ \cup {"DIRTY"}]]
    /\ wrote' = wrote \cup {r.x.dbs[s].id}

Put(s) ==
    /\ Using("w", s)
    /\ Written(s, cursor_init(txn["w"], s))
    /\ UNCHANGED <<lock, op>>

tbl_purge(x, s) ==
    IF x.dbs[s].full
    THEN [x EXCEPT !.dbs[s].full = FALSE, !.state[s] = @ \cup {"DIRTY"}]
    ELSE x

\* mdbx_drop: a handle that is new in this transaction is closed at once,
\* another one when the transaction commits.
Erased(x, s, n) ==
    CASE n = None \/ x.main[n] = NoTable ->
           /\ txn' = [txn EXCEPT !["w"] = [x EXCEPT !.error = TRUE]]
           /\ UNCHANGED <<lock, op>>
      [] OTHER ->
           IF x.state[s] \cap {"CREAT", "FRESH"} = {}
           THEN /\ txn' = [txn EXCEPT !["w"] =
                     State([x EXCEPT !.main[n] = NoTable], s, {"SLAIN", "LINDO"})]
                /\ UNCHANGED <<lock, op>>
           ELSE /\ txn' = [txn EXCEPT !["w"] =
                     State([x EXCEPT !.main[n] = NoTable], s, {"OLDEN", "LINDO"})]
                /\ Locked("w", Job(s, dbi_close_locked(s)), "drop")

Purged(rc, x, s, del) ==
    /\ rc = "SUCCESS"
    /\ wrote' = wrote \ {x.dbs[s].id}
    /\ IF del THEN Erased(x, s, env[s].name)
       ELSE txn' = [txn EXCEPT !["w"] = x] /\ UNCHANGED <<lock, op>>

Dropped(r, s, del) == Purged(r.rc, tbl_purge(r.x, s), s, del)

Drop(s, del) ==
    /\ Using("w", s)
    /\ Dropped(cursor_init(txn["w"], s), s, del)

\* txn_basal_update_tbl_roots: changed tables are stored under the names
\* the slots have now.
Roots(x) ==
    LET dirty(n) == {s \in Slots : "DIRTY" \in x.state[s] /\ env[s].name = n}
    IN [n \in Names |-> IF dirty(n) = {} THEN x.main[n] ELSE x.dbs[Max(dirty(n))]]

\* The slots dbi_update closes.
Ended(x, flag) == {s \in Slots : flag \in x.state[s]}

Finish(t, x, flag) ==
    IF t = "w" /\ Ended(x, flag) # {}
    THEN /\ txn' = [txn EXCEPT ![t] = [x EXCEPT !.active = FALSE]]
         /\ op' = [op EXCEPT ![t] = [pc |-> "end", slots |-> Ended(x, flag)]]
    ELSE txn' = [txn EXCEPT ![t] = NoTxn] /\ UNCHANGED op

Commit ==
    /\ op["w"].pc = "idle" /\ txn["w"].active /\ ~txn["w"].error
    /\ \A s \in Slots : ~Closing(s)
    /\ LET x == txn["w"] IN
       /\ tables' = Roots(x)
       /\ lost' = (lost \/ \E id \in wrote :
                     ~\E n \in Names : Roots(x)[n].id = id /\ Roots(x)[n].full)
       /\ Finish("w", x, "SLAIN")
    /\ wrote' = {}
    /\ UNCHANGED <<env, n_dbi, lock, lastId>>

Abort(t) ==
    /\ op[t].pc = "idle" /\ txn[t].active
    /\ t = "w" => \A s \in Slots : ~Closing(s)
    /\ Finish(t, txn[t], "CREAT")
    /\ wrote' = IF t = "w" THEN {} ELSE wrote
    /\ UNCHANGED <<env, n_dbi, lock, tables, lastId, lost>>

\* dbi_update: handles of dropped tables are closed, after an abort those
\* of created ones, unless somebody closed them already.
dbi_update ==
    /\ op["w"].pc = "end"
    /\ LET mine == {s \in op["w"].slots : /\ s <= n_dbi /\ env[s].name # None
                                          /\ ~dbi_changed(txn["w"], s)}
       IN Locked("w", SetToSeq({[slot |-> s, todo |-> Closed(s)] : s \in mine}), "end")
    /\ txn' = [txn EXCEPT !["w"] = NoTxn]
    /\ UNCHANGED <<env, n_dbi, tables, lastId, wrote, lost>>
-----------------------------------------------------------------------------
Init ==
    /\ env = [s \in Slots |-> FreeSlot] /\ n_dbi = 0 /\ lock = None
    /\ txn = [t \in Threads |-> NoTxn]
    /\ op = [t \in Threads |-> Idle]
    /\ tables = [n \in Names |-> NoTable]
    /\ lastId = 0 /\ wrote = {} /\ lost = FALSE

Opening(t) ==
    \/ \E n \in Names, f \in Flags, k \in Modes :
         Open(t, n, [flags |-> f, accede |-> k = "accede", create |-> k = "create"])
    \/ ScanSlot(t) \/ MatchName(t) \/ CheckSlot(t) \/ BindSlot(t)
    \/ ScanEnd(t) \/ OpenLocked(t) \/ Store(t)

Handling(t) ==
    \/ Begin(t) \/ Abort(t)
    \/ \E s \in Slots : \/ Close(t, s) \/ CloseCursor(t, s)
                        \/ \E keep \in BOOLEAN : Get(t, s, keep)

Next ==
    \/ \E t \in Threads : Opening(t) \/ Handling(t)
    \/ Commit \/ dbi_update
    \/ \E s \in Slots : Put(s) \/ \E del \in BOOLEAN : Drop(s, del)

Spec == Init /\ [][Next]_vars
-----------------------------------------------------------------------------
(* A handle the next call of the transaction would accept as it is.        *)
Usable(t, s) ==
    /\ txn[t].active /\ op[t].pc = "idle"
    /\ {"LINDO", "VALID"} \subseteq txn[t].state[s]
    /\ "STALE" \notin txn[t].state[s] /\ ~dbi_changed(txn[t], s)

\* While nobody changes the slots, a handle that a transaction would use
\* leads to the table that the handle's name has in that transaction, and
\* no two handles have one name (dbi_check, dbi_import, dbi_open).
HandleSound ==
    lock = None =>
      /\ \A t \in Threads, s \in Slots : Usable(t, s) =>
           /\ Valid(s) /\ env[s].name # None
           /\ txn[t].main[env[s].name].id = txn[t].dbs[s].id
           /\ txn[t].main[env[s].name].id # 0
      /\ \A s, u \in Slots : Valid(s) /\ Valid(u) /\ s # u => env[s].name # env[u].name

\* A commit stores every record put through a handle, unless the table was
\* emptied or dropped (txn_basal_update_tbl_roots takes the names from the
\* slots, so nobody may close the handle of a changed table).
WritesSurvive == ~lost
=============================================================================

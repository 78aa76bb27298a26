------------------------------ MODULE TxnPool ------------------------------
(***************************************************************************)
(* exp/mdbxpool/txnpool.go: a sync.Pool of read-only transactions shared   *)
(* by goroutines that run View and Update, and the handleIdle goroutines   *)
(* CommitID starts.  A handle (mdbx.Txn) stands for the reader slot        *)
(* libmdbx keeps bound to it until Abort; Reset keeps the slot and gives   *)
(* up the snapshot.  One action is one atomic operation of the code: a     *)
(* sync.Pool call, an atomic load or CAS, or one call into libmdbx.        *)
(***************************************************************************)
EXTENDS Naturals, FiniteSets

CONSTANTS
    Goroutines,      \* goroutines calling View, Update and Close
    Sweepers,        \* goroutines "go p.handleIdle()" may start (a bound)
    Txns,            \* read-only handles = reader slots of the environment
    Settings,        \* the settings of UpdateHandling to look at
    MaxId,           \* bound: the last transaction id the model commits
    NoTxn            \* Go's nil

ASSUME PoolAssumption ==
    /\ Settings \subseteq SUBSET {"Outstanding", "Idle", "Renew"}
    /\ MaxId \in Nat \ {0}
    /\ NoTxn \notin Txns
    /\ "nobody" \notin Goroutines

\* INVALID_TXNID, what mdbx_txn_id reports of a reset reader: above every id.
Invalid == MaxId + 3

VARIABLES
    UpdateHandling,  \* TxnPool.UpdateHandling, a set of flags
    head,       \* last committed transaction id of the environment
    writer,     \* the goroutine holding the write lock, or "nobody"
    lastid,     \* TxnPool.lastid
    idleGuard,  \* TxnPool.idleGuard
    pool,       \* handles in the sync.Pool
    lost,       \* handles the sync.Pool dropped during a garbage collection
    st,         \* libmdbx's view of each handle: "none", "live" or "reset"
    id,         \* mdbx_txn_id of each handle
    pc, held,   \* each goroutine's next step and the handle it uses
    want, seen, \* CommitID's parameter and its local copy of lastid
    floor,      \* ghost: the head when this goroutine's View began
    done,       \* ghost: newest id a returned Update had passed to CommitID
    spc, stxn, back  \* handleIdle: next step, txn and txnPutBack

poolVars == <<pool, lost>>
handleVars == <<st, id>>
procVars == <<pc, held, want, seen, floor>>
sweepVars == <<spc, stxn, back, idleGuard>>
vars == <<UpdateHandling, head, writer, lastid, done, poolVars, handleVars, procVars, sweepVars>>

handlesUpdates == UpdateHandling \cap {"Outstanding", "Idle"} # {}

Init ==
    /\ UpdateHandling \in Settings
    /\ head = 1 /\ writer = "nobody" /\ lastid = 0 /\ done = 0
    /\ pool = {} /\ lost = {}
    /\ st = [t \in Txns |-> "none"] /\ id = [t \in Txns |-> 0]
    /\ pc = [g \in Goroutines |-> "idle"]
    /\ held = [g \in Goroutines |-> NoTxn]
    /\ want = [g \in Goroutines |-> 0] /\ seen = [g \in Goroutines |-> 0]
    /\ floor = [g \in Goroutines |-> 0]
    /\ spc = [s \in Sweepers |-> "none"]
    /\ stxn = [s \in Sweepers |-> NoTxn] /\ back = [s \in Sweepers |-> NoTxn]
    /\ idleGuard = 0

-----------------------------------------------------------------------------
(* Calls into libmdbx on one handle, each atomic for the pool.              *)

\* mdbx_txn_begin / mdbx_txn_renew take the newest snapshot.
Live(t) == st' = [st EXCEPT ![t] = "live"] /\ id' = [id EXCEPT ![t] = head]

\* mdbx_txn_reset gives the snapshot up and keeps the slot.
Reset(t) == st' = [st EXCEPT ![t] = "reset"] /\ id' = [id EXCEPT ![t] = Invalid]

\* mdbx_txn_abort frees the handle and its slot.
Abort(t) == st' = [st EXCEPT ![t] = "none"] /\ id' = [id EXCEPT ![t] = 0]

goto(g, to) == pc' = [pc EXCEPT ![g] = to]

hold(g, t) == held' = [held EXCEPT ![g] = t]

-----------------------------------------------------------------------------
(* beginReadonly                                                            *)

\* pool.Get: sync.Pool may hand out any of its items, and may treat a
\* non-empty pool as empty (an item cached by another P is not stolen).
BeginGet(g) ==
    /\ pc[g] = "idle"
    /\ floor' = [floor EXCEPT ![g] = head]
    /\ \/ \E t \in pool : pool' = pool \ {t} /\ hold(g, t) /\ goto(g, "renew")
       \/ goto(g, "new") /\ UNCHANGED <<pool, held>>
    /\ UNCHANGED <<UpdateHandling, head, writer, lastid, done, lost, handleVars, want, seen, sweepVars>>

\* Mutant: a pooled handle is handed out without Renew.
BeginRenewSkipped(g) ==
    /\ pc[g] = "renew"
    /\ goto(g, "view")
    /\ UNCHANGED <<UpdateHandling, head, writer, lastid, done, poolVars, handleVars, held, want, seen, floor, sweepVars>>

\* txn.Renew; on an error the handle is aborted and a new one begun.
BeginRenew(g) ==
    /\ pc[g] = "renew"
    /\ \/ Live(held[g]) /\ goto(g, "view") /\ UNCHANGED held
       \/ Abort(held[g]) /\ hold(g, NoTxn) /\ goto(g, "new")
    /\ UNCHANGED <<UpdateHandling, head, writer, lastid, done, poolVars, want, seen, floor, sweepVars>>

\* env.BeginTxn(nil, Readonly): it needs a free reader slot, and otherwise
\* returns MDBX_READERS_FULL to the caller of View.
BeginNew(g) ==
    /\ pc[g] = "new"
    /\ \/ \E t \in Txns : st[t] = "none" /\ Live(t) /\ hold(g, t) /\ goto(g, "view")
       \/ /\ \A t \in Txns : st[t] # "none"
          /\ goto(g, "idle") /\ UNCHANGED <<handleVars, held>>
    /\ UNCHANGED <<UpdateHandling, head, writer, lastid, done, poolVars, want, seen, floor, sweepVars>>

-----------------------------------------------------------------------------
(* abortReadonly                                                            *)

\* The staleness test; it runs when fn returned.
EndView(g) ==
    /\ pc[g] = "view"
    /\ goto(g, IF handlesUpdates /\ id[held[g]] < lastid THEN "stale" ELSE "reset")
    /\ floor' = [floor EXCEPT ![g] = 0]
    /\ UNCHANGED <<UpdateHandling, head, writer, lastid, done, poolVars, handleVars, held, want, seen, sweepVars>>

\* handleReadonly(txn, HandleOutstanding).  Without the flag it returns
\* (false, nil) and has done nothing, and abortReadonly returns as well.
EndStale(g) ==
    /\ pc[g] = "stale"
    /\ \/ /\ "Outstanding" \notin UpdateHandling
          /\ goto(g, "idle") /\ hold(g, NoTxn) /\ UNCHANGED handleVars
       \/ /\ {"Outstanding", "Renew"} \subseteq UpdateHandling
          /\ \/ Live(held[g]) /\ goto(g, "reset") /\ UNCHANGED held
             \/ Abort(held[g]) /\ goto(g, "idle") /\ hold(g, NoTxn)
       \/ /\ "Outstanding" \in UpdateHandling /\ "Renew" \notin UpdateHandling
          /\ Abort(held[g]) /\ goto(g, "idle") /\ hold(g, NoTxn)
    /\ UNCHANGED <<UpdateHandling, head, writer, lastid, done, poolVars, want, seen, floor, sweepVars>>

\* Mutant: the handle goes to the pool without Reset.
EndResetSkipped(g) ==
    /\ pc[g] = "reset"
    /\ goto(g, "put")
    /\ UNCHANGED <<UpdateHandling, head, writer, lastid, done, poolVars, handleVars, held, want, seen, floor, sweepVars>>

\* txn.Reset; a handle that failed to reset is aborted.
EndReset(g) ==
    /\ pc[g] = "reset"
    /\ \/ Reset(held[g]) /\ goto(g, "put") /\ UNCHANGED held
       \/ Abort(held[g]) /\ goto(g, "idle") /\ hold(g, NoTxn)
    /\ UNCHANGED <<UpdateHandling, head, writer, lastid, done, poolVars, want, seen, floor, sweepVars>>

\* pool.Put
EndPut(g) ==
    /\ pc[g] = "put"
    /\ pool' = pool \cup {held[g]}
    /\ hold(g, NoTxn) /\ goto(g, "idle")
    /\ UNCHANGED <<UpdateHandling, head, writer, lastid, done, lost, handleVars, want, seen, floor, sweepVars>>

-----------------------------------------------------------------------------
(* Update and CommitID                                                      *)

\* env.Update takes the write lock; fn runs and its txn has id head + 1.
UpdateBegin(g) ==
    /\ pc[g] = "idle" /\ writer = "nobody" /\ head < MaxId
    /\ writer' = g /\ want' = [want EXCEPT ![g] = head + 1]
    /\ goto(g, "write")
    /\ UNCHANGED <<UpdateHandling, head, lastid, done, poolVars, handleVars, held, seen, floor, sweepVars>>

\* The commit.  A "pure" commit succeeds without a new head, a big-foot one
\* consumes one id more than txn.ID() said, a failed one changes nothing.
UpdateCommit(g) ==
    /\ pc[g] = "write"
    /\ writer' = "nobody"
    /\ \/ head' \in head .. head + 2 /\ goto(g, "publish") /\ UNCHANGED want
       \/ goto(g, "idle") /\ want' = [want EXCEPT ![g] = 0] /\ UNCHANGED head
    /\ UNCHANGED <<UpdateHandling, lastid, done, poolVars, handleVars, held, seen, floor, sweepVars>>

\* Update returns to its caller; CommitID's locals go out of scope.
Return(g) ==
    /\ goto(g, "idle")
    /\ done' = IF want[g] > done THEN want[g] ELSE done
    /\ want' = [want EXCEPT ![g] = 0] /\ seen' = [seen EXCEPT ![g] = 0]

\* CommitID: the first atomic load of lastid.
CommitIDLoad(g) ==
    /\ pc[g] = "publish"
    /\ \/ /\ handlesUpdates
          /\ goto(g, "cas") /\ seen' = [seen EXCEPT ![g] = lastid] /\ UNCHANGED <<done, want>>
       \/ ~handlesUpdates /\ Return(g)
    /\ UNCHANGED <<UpdateHandling, head, writer, lastid, poolVars, handleVars, held, floor, sweepVars>>

\* Mutant: a lost CAS is taken for success and not retried.
CommitIDNoRetry(g) ==
    /\ pc[g] = "cas"
    /\ lastid' = IF seen[g] < want[g] /\ lastid = seen[g] THEN want[g] ELSE lastid
    /\ Return(g)
    /\ UNCHANGED <<UpdateHandling, head, writer, poolVars, handleVars, held, floor, sweepVars>>

\* Mutant: after a lost CAS the loop goes on with the id it loaded before.
CommitIDNoReload(g) ==
    /\ pc[g] = "cas"
    /\ \/ /\ seen[g] >= want[g] \/ lastid = seen[g]
          /\ lastid' = IF seen[g] < want[g] THEN want[g] ELSE lastid
          /\ Return(g)
       \/ /\ seen[g] < want[g] /\ lastid # seen[g]
          /\ UNCHANGED <<lastid, pc, done, want, seen>>
    /\ UNCHANGED <<UpdateHandling, head, writer, poolVars, handleVars, held, floor, sweepVars>>

\* One round of the CAS loop: done when lastid is new enough, else CAS, and
\* on success start handleIdle; on failure load again.
CommitIDCas(g) ==
    /\ pc[g] = "cas"
    /\ \/ /\ seen[g] >= want[g]
          /\ Return(g) /\ UNCHANGED <<lastid, spc>>
       \/ /\ seen[g] < want[g] /\ lastid = seen[g]
          /\ lastid' = want[g] /\ Return(g)
          /\ \/ "Idle" \notin UpdateHandling /\ UNCHANGED spc
             \/ /\ "Idle" \in UpdateHandling
                /\ \E s \in Sweepers : spc[s] = "none" /\ spc' = [spc EXCEPT ![s] = "start"]
       \/ /\ seen[g] < want[g] /\ lastid # seen[g]
          /\ goto(g, "publish") /\ UNCHANGED <<lastid, want, seen, done, spc>>
    /\ UNCHANGED <<UpdateHandling, head, writer, poolVars, handleVars, held, floor, stxn, back, idleGuard>>

-----------------------------------------------------------------------------
(* handleIdle                                                               *)

\* CAS idleGuard 0 -> 1, or return.
SweepStart(s) ==
    /\ spc[s] = "start"
    /\ \/ idleGuard = 0 /\ idleGuard' = 1 /\ spc' = [spc EXCEPT ![s] = "get"]
       \/ idleGuard = 1 /\ spc' = [spc EXCEPT ![s] = "none"] /\ UNCHANGED idleGuard
    /\ UNCHANGED <<UpdateHandling, head, writer, lastid, done, poolVars, handleVars, procVars, stxn, back>>

\* pool.Get, and only then the put-back of the handle renewed in the last round.
SweepGet(s) ==
    LET rest == IF back[s] = NoTxn THEN {} ELSE {back[s]} IN
    /\ spc[s] = "get"
    /\ back' = [back EXCEPT ![s] = NoTxn]
    /\ \/ \E t \in pool : /\ pool' = (pool \ {t}) \cup rest
                          /\ stxn' = [stxn EXCEPT ![s] = t]
                          /\ spc' = [spc EXCEPT ![s] = "check"]
       \/ pool' = pool \cup rest /\ spc' = [spc EXCEPT ![s] = "exit"] /\ UNCHANGED stxn
    /\ UNCHANGED <<UpdateHandling, head, writer, lastid, done, lost, handleVars, procVars, idleGuard>>

\* Mutant: the handle is put back although the sweep goes on using it.
SweepCheckShared(s) ==
    /\ spc[s] = "check"
    /\ pool' = pool \cup {stxn[s]}
    /\ spc' = [spc EXCEPT ![s] = "get"]
    /\ UNCHANGED <<UpdateHandling, head, writer, lastid, done, lost, handleVars, procVars, stxn, back, idleGuard>>

\* A handle that is not stale goes back and ends the sweep; a stale one is
\* renewed (and put back in the next round) or aborted.
SweepCheck(s) ==
    LET t == stxn[s] IN
    /\ spc[s] = "check"
    /\ stxn' = [stxn EXCEPT ![s] = NoTxn]
    /\ IF id[t] >= lastid
       THEN /\ pool' = pool \cup {t} /\ spc' = [spc EXCEPT ![s] = "exit"]
            /\ UNCHANGED <<handleVars, back>>
       ELSE /\ spc' = [spc EXCEPT ![s] = "get"]
            /\ \/ "Renew" \in UpdateHandling /\ Live(t) /\ back' = [back EXCEPT ![s] = t]
               \/ Abort(t) /\ UNCHANGED back
            /\ UNCHANGED pool
    /\ UNCHANGED <<UpdateHandling, head, writer, lastid, done, lost, procVars, idleGuard>>

\* Mutant: the deferred store that reopens idleGuard is missing.
SweepExitGuarded(s) ==
    /\ spc[s] = "exit"
    /\ spc' = [spc EXCEPT ![s] = "none"]
    /\ UNCHANGED <<UpdateHandling, head, writer, lastid, done, poolVars, handleVars, procVars, stxn, back, idleGuard>>

\* The deferred atomic store of 0.
SweepExit(s) ==
    /\ spc[s] = "exit"
    /\ idleGuard' = 0 /\ spc' = [spc EXCEPT ![s] = "none"]
    /\ UNCHANGED <<UpdateHandling, head, writer, lastid, done, poolVars, handleVars, procVars, stxn, back>>

-----------------------------------------------------------------------------
(* Close, and the garbage collector                                         *)

\* TxnPool.Close: Get and Abort until Get returns nil.
CloseStep(g) ==
    /\ pc[g] \in {"idle", "closing"}
    /\ \/ \E t \in pool : pool' = pool \ {t} /\ Abort(t) /\ goto(g, "closing")
       \/ pc[g] = "closing" /\ goto(g, "idle") /\ UNCHANGED <<pool, handleVars>>
    /\ UNCHANGED <<UpdateHandling, head, writer, lastid, done, lost, held, want, seen, floor, sweepVars>>

\* sync.Pool drops an item; mdbx-go has no finalizer that would abort it.
PoolDrop(t) ==
    /\ t \in pool
    /\ pool' = pool \ {t} /\ lost' = lost \cup {t}
    /\ UNCHANGED <<UpdateHandling, head, writer, lastid, done, handleVars, procVars, sweepVars>>

CommitID(g) == CommitIDLoad(g) \/ CommitIDCas(g)

Sweep(s) == SweepStart(s) \/ SweepGet(s) \/ SweepCheck(s) \/ SweepExit(s)

Next ==
    \/ \E g \in Goroutines :
          \/ BeginGet(g) \/ BeginRenew(g) \/ BeginNew(g)
          \/ EndView(g) \/ EndStale(g) \/ EndReset(g) \/ EndPut(g)
          \/ UpdateBegin(g) \/ UpdateCommit(g) \/ CommitIDLoad(g) \/ CommitIDCas(g)
          \/ CloseStep(g)
    \/ \E s \in Sweepers : SweepStart(s) \/ SweepGet(s) \/ SweepCheck(s) \/ SweepExit(s)
    \/ \E t \in Txns : PoolDrop(t)

\* The Go scheduler runs every goroutine that can take a step of CommitID or
\* handleIdle; when View and Update are called is the application's choice.
Spec ==
    /\ Init /\ [][Next]_vars
    /\ \A g \in Goroutines : WF_vars(CommitID(g))
    /\ \A s \in Sweepers : WF_vars(Sweep(s))

-----------------------------------------------------------------------------
(* Properties                                                               *)

TypeOK ==
    /\ UpdateHandling \in Settings
    /\ head \in 1 .. MaxId + 1 /\ writer \in Goroutines \cup {"nobody"}
    /\ lastid \in 0 .. MaxId /\ done \in 0 .. MaxId
    /\ idleGuard \in {0, 1}
    /\ pool \subseteq Txns /\ lost \subseteq Txns
    /\ st \in [Txns -> {"none", "live", "reset"}]
    /\ id \in [Txns -> 0 .. Invalid]
    /\ pc \in [Goroutines -> {"idle", "renew", "new", "view", "stale", "reset",
                              "put", "write", "publish", "cas", "closing"}]
    /\ held \in [Goroutines -> Txns \cup {NoTxn}]
    /\ want \in [Goroutines -> 0 .. MaxId] /\ seen \in [Goroutines -> 0 .. MaxId]
    /\ floor \in [Goroutines -> 0 .. MaxId + 1]
    /\ spc \in [Sweepers -> {"none", "start", "get", "check", "exit"}]
    /\ stxn \in [Sweepers -> Txns \cup {NoTxn}]
    /\ back \in [Sweepers -> Txns \cup {NoTxn}]

\* Who can reach a handle: the pool, a goroutine's local, handleIdle's locals.
Owners(t) ==
    {<<"pool", 0>> : x \in pool \cap {t}}
    \cup {<<"lost", 0>> : x \in lost \cap {t}}
    \cup {<<"view", g>> : g \in {g \in Goroutines : held[g] = t}}
    \cup {<<"txn", s>> : s \in {s \in Sweepers : stxn[s] = t}}
    \cup {<<"back", s>> : s \in {s \in Sweepers : back[s] = t}}

\* A handle that libmdbx knows has exactly one owner in Go: nobody uses a
\* handle another goroutine may renew or abort, and none is forgotten with
\* its reader slot bound (beginReadonly, abortReadonly, handleIdle, Close).
OneOwner == \A t \in Txns : Cardinality(Owners(t)) = IF st[t] = "none" THEN 0 ELSE 1

\* abortReadonly ends what beginReadonly began: a handle that is still live in
\* libmdbx, pinning its snapshot, can be reached by somebody who will end it.
\* (The comment where abortReadonly drops the handle: "The transaction was
\* aborted instead of being renewed.")
DroppedIsAborted == \A t \in Txns : st[t] = "live" => Owners(t) # {}

\* An idle handle pins no MVCC snapshot, so pooled readers never keep the
\* garbage collector of libmdbx from reclaiming pages (the comment above
\* txn.Reset in abortReadonly).
IdlePinsNothing == \A t \in pool \cup lost : st[t] = "reset"

\* A View runs on a live snapshot that holds every commit made before the
\* View began, whether its handle is new or reused (Renew in beginReadonly).
ViewSeesEarlierCommits ==
    \A g \in Goroutines : pc[g] = "view" => st[held[g]] = "live" /\ id[held[g]] >= floor[g]

\* An Update that has returned has its id covered by lastid, however many
\* CommitID calls raced with its CAS loop.
ReturnedIsPublished == handlesUpdates => lastid >= done

\* CommitID's CAS loop ends: every failure means lastid grew.
CommitIDTerminates == \A g \in Goroutines : pc[g] \in {"publish", "cas"} ~> pc[g] = "idle"

\* idleGuard is reopened after every sweep, so that a later commit's
\* handleIdle is not turned away for ever.
GuardReopens == (idleGuard = 1) ~> (idleGuard = 0)

\* What CommitID and handleIdle wait for comes: the loop of the one ends and
\* the guard of the other reopens.
NothingStuck == CommitIDTerminates /\ GuardReopens
=============================================================================

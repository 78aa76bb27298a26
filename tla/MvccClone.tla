----------------------------- MODULE MvccClone -----------------------------
(***************************************************************************)
(* Mvcc with mdbx_txn_clone (Txn.Clone and Txn.CloneInto): a second handle *)
(* takes over the snapshot of a running read-only transaction by writing   *)
(* the origin's txnid into a slot of its own (txn_ro_clone).  The origin   *)
(* is not used while the call runs, as its documentation demands.          *)
(***************************************************************************)
EXTENDS Mvcc

CONSTANT NoReader  \* not a reader: the handle is not being cloned

VARIABLE origin  \* for each handle, the handle it is being cloned from

cloneVars == <<vars, origin>>

InitC == Init /\ origin = [r \in Readers |-> NoReader]

Busy(r) == \E c \in Readers : origin[c] = r

\* txn_ro_clone, first part: the slot of the clone gets the origin's txnid.
\* For a parked origin the code stores MDBX_TID_TXN_PARKED in the txnid
\* field (a value above the threshold) and leaves the tid field alone.
CloneWrite(c, o) ==
    /\ c # o /\ Proc[c] = Proc[o]
    /\ pc[c] = "finished" /\ pc[o] \in {"active", "parked"} /\ ~Busy(o) /\ ~Busy(c)
    /\ origin[c] = NoReader /\ origin' = [origin EXCEPT ![c] = o]
    /\ snap' = [snap EXCEPT ![c] = snap[o]]
    /\ stxn' = [stxn EXCEPT ![slot[c]] = IF pc[o] = "parked" THEN Invalid ELSE snap[o]]
    /\ UNCHANGED <<metaVars, flag, cached, rdtlen, spid, stid, pc, slot, loop, scanVars, wrVars, deadVars>>

\* Second part: the slot is read back and compared with cached_oldest_txnid
\* (MDBX_OUSTED and MDBX_MVCC_RETARDED reset the clone); a clone of a parked
\* transaction is parked without a check.
CloneCheck(c) ==
    LET o == origin[c] IN
    /\ o # NoReader
    /\ origin' = [origin EXCEPT ![c] = NoReader]
    /\ pc' = [pc EXCEPT ![c] =
                IF pc[o] = "parked" THEN "parked"
                ELSE IF stxn[slot[c]] = snap[c] /\ snap[c] >= cached THEN "active" ELSE "clean"]
    /\ UNCHANGED <<metaVars, flag, cached, tblVars, slot, snap, loop, scanVars, wrVars, deadVars>>

NextC ==
    \/ \E c, o \in Readers : CloneWrite(c, o)
    \/ \E c \in Readers : CloneCheck(c)
    \/ /\ \/ \E r \in Readers : origin[r] = NoReader /\ ~Busy(r) /\ Reader(r)
          \/ Writer
       /\ UNCHANGED origin

SpecC == InitC /\ [][NextC]_cloneVars

-----------------------------------------------------------------------------
\* A clone keeps the snapshot it was given for as long as it is active, even
\* when its origin ends: "creates a new read-only transaction that observes
\* the same MVCC-snapshot as the origin transaction" (Txn.Clone).
CloneKeepsSnapshot == SnapshotIntact

\* A parked reader is marked in the table until it is ousted: "the parking
\* state of original is preserved and inherited by cloned transaction"
\* (mdbx_txn_clone in mdbx.h), so that it can be unparked.
ParkedIsMarked ==
    \A r \in Readers : pc[r] = "parked" => stid[slot[r]] \in {"parked", "ousted"}
=============================================================================

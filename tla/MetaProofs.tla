----------------------------- MODULE MetaProofs -----------------------------
(***************************************************************************)
(* What the meta pages promise as long as the system stays up, for every   *)
(* plan: any modes of the environment, weak transactions, failing writes,  *)
(* writers killed anywhere and any number of transactions.                 *)
(*                                                                         *)
(* The page cache then keeps everything.  The argument is about the newest *)
(* page in it: only a page that continues its snapshot is ever put before  *)
(* it, and what a transaction writes meanwhile belongs to the next txnid.  *)
(***************************************************************************)
EXTENDS Meta, TroikaProofs

Page == [a : Nat, b : Nat, steady : BOOLEAN, boot : Nat, gen : Nat]

AnyFlag == {"WRITEMAP", "NOMETASYNC", "SAFE_NOSYNC", "UTTERLY"}
TxnType == [flags : SUBSET AnyFlag, need : BOOLEAN]
CallType == [flags : SUBSET AnyFlag, txnid : Nat, steady : BOOLEAN, gen : Nat,
             target : Metas, back : {"idle", "txn", "metasync"}, then : {"idle", "txn", "down"}]

\* What the steps below need of the types.
Types ==
    /\ mem \in [Metas -> Page] /\ disk \in [Metas -> Page]
    /\ boot \in Nat /\ gen \in Nat /\ owner \in [1 .. MaxTxn -> Nat]
    /\ reused \in Nat /\ promised \in Nat
    /\ plan \in DOMAIN Plans
    /\ env \in [flags : SUBSET AnyFlag, dsync : BOOLEAN, metadsync : BOOLEAN]
    /\ txn \in TxnType
    /\ call \in CallType

\* The pages of the snapshot of txnid x are those transaction g left.
Owned(x, g) == owner[x] = g /\ \A y \in 1 .. x : owner[y] <= g

InCall == pc \in {"sync", "meta", "publish", "sign", "msync", "metasync"}

\* No two valid pages have one txnid.
Distinct ==
    \A i, j \in Metas : i # j => (Tap[i].txnid # Tap[j].txnid \/ Tap[i].txnid = 0)

\* The newest page and what was said of it.
HeadKept ==
    /\ Head.txnid \in 1 .. MaxTxn
    /\ reused <= Head.txnid /\ promised <= Head.txnid
    /\ Owned(Head.txnid, mem[Recent].gen)
    /\ \A x \in 1 .. MaxTxn : owner[x] <= gen

\* A transaction has a txnid left to commit with.
Room ==
    (pc \in {"txn", "write"} \/ (InCall /\ call.then = "txn")) => Head.txnid < MaxTxn

\* What dxb_sync_locked is about to write continues the newest page or is that
\* page again.
Continues ==
    /\ pc \in {"sync", "meta", "publish"} =>
          /\ call.txnid \in 1 .. MaxTxn /\ call.txnid >= Head.txnid
          /\ Owned(call.txnid, call.gen)
          /\ call.then = "txn" => call.txnid = Head.txnid
    /\ pc = "meta" => (call.txnid > Head.txnid /\ call.target # Recent)
                      \/ (call.txnid = Head.txnid /\ call.target = Recent)
    /\ pc = "publish" => call.txnid > Head.txnid /\ call.target # Recent
    /\ pc \in {"sign", "msync", "metasync"} => call.txnid <= Head.txnid
    /\ InCall /\ call.back = "txn" => call.then = "txn"

\* The page cache since the system was started.
Cache ==
    /\ \A i \in Metas : mem[i].boot = 0
    /\ lost = {} /\ pc # "corrupt"
    /\ Distinct /\ HeadKept

UpInv == boot = 0 => Cache /\ Room /\ Continues

MetaInv == Types /\ UpInv
-----------------------------------------------------------------------------
(* The newest page. *)

\* What a tap shows of the pages in the cache.
LEMMA TapFacts ==
    ASSUME Types
    PROVE  /\ Tap \in [Metas -> Snaps]
           /\ \A i \in Metas : Tap[i].txnid = IF mem[i].a = mem[i].b THEN mem[i].a ELSE 0
  <1>1. \A m \in Page : meta_snap(m) \in Snaps
    BY DEF Page, meta_snap, Snaps
  <1>2. \A m \in Page : meta_snap(m).txnid = IF m.a = m.b THEN m.a ELSE 0
    BY DEF Page, meta_snap
  <1> QED BY <1>1, <1>2 DEF Types, Tap

\* The head is the newest page, and gc_alloc_ex never reclaims beyond it.
LEMMA HeadFacts ==
    ASSUME Types
    PROVE  /\ Recent \in Metas /\ Head.txnid = Tap[Recent].txnid /\ Head.txnid \in Nat
           /\ \A i \in Metas : Tap[i].txnid <= Head.txnid
           /\ Detent \in Nat /\ Detent <= Head.txnid
           /\ tail(Tap) \in Metas /\ tail(Tap) # Recent
  <1>1. Tap \in [Metas -> Snaps]
    BY TapFacts
  <1>2. Recent \in Metas /\ Prefer \in Metas /\ tail(Tap) \in Metas
    BY DEF Recent, Prefer, recent, prefer_steady, tail, Best, Metas
  <1>3. \A i \in Metas : ~meta_choice_recent(Tap[i], Tap[Recent])
    BY <1>1, NewestTheorem DEF RecentIsNewest, Recent
  <1>4. \A i \in Metas : Tap[i].txnid \in Nat
    BY <1>1 DEF Snaps
  <1>5. \A i \in Metas : Tap[i].txnid <= Tap[Recent].txnid
    <2>1. ASSUME NEW i \in Metas PROVE ~(Tap[i].txnid > Tap[Recent].txnid)
      <3>1. Tap[i] \in Snaps /\ Tap[Recent] \in Snaps /\ ~meta_choice_recent(Tap[i], Tap[Recent])
        BY <1>1, <1>2, <1>3
      <3> QED BY <3>1, RecentRule
    <2> QED BY <1>2, <1>4, <2>1 DEF Metas
  <1>6. tail(Tap) # Recent
    BY <1>1, TailTheorem DEF TailIsFree, Recent
  <1> QED BY <1>2, <1>4, <1>5, <1>6 DEF Head, Detent

\* A page that is newer than all others is the head.
LEMMA NewestIsRecent ==
    ASSUME NEW t \in [Metas -> Snaps], NEW i \in Metas,
           \A j \in Metas : j # i => t[j].txnid < t[i].txnid
    PROVE  recent(t) = i
  <1>1. recent(t) \in Metas /\ ~meta_choice_recent(t[i], t[recent(t)])
    BY NewestTheorem DEF RecentIsNewest, recent, Best, Metas
  <1>2. t[i] \in Snaps /\ t[recent(t)] \in Snaps
    BY <1>1
  <1>3. ~(t[i].txnid > t[recent(t)].txnid)
    BY <1>1, <1>2, RecentRule
  <1> QED BY <1>1, <1>3, <1>2 DEF Snaps

\* A step that gives no page another txnid keeps the head.
LEMMA HeadStays ==
    ASSUME Types, Types', Distinct, Head.txnid >= 1,
           \A i \in Metas : Tap'[i].txnid = Tap[i].txnid
                            \/ (i # Recent /\ Tap'[i].txnid = 0)
    PROVE  Recent' = Recent /\ Head'.txnid = Head.txnid /\ Distinct'
  <1>1. /\ Recent \in Metas /\ Head.txnid = Tap[Recent].txnid
        /\ \A i \in Metas : Tap[i].txnid <= Head.txnid
        /\ \A i \in Metas : Tap[i].txnid \in Nat
    BY HeadFacts, TapFacts DEF Snaps
  <1>2. Tap' \in [Metas -> Snaps]
    <2>1. \A m \in Page : meta_snap(m) \in Snaps
      BY DEF Page, meta_snap, Snaps
    <2> QED BY <2>1 DEF Types, Tap
  <1>3. \A j \in Metas : j # Recent => Tap'[j].txnid < Tap'[Recent].txnid
    BY <1>1 DEF Distinct
  <1>4. recent(Tap') = Recent
    BY <1>1, <1>2, <1>3, NewestIsRecent
  <1> QED BY <1>1, <1>4 DEF Recent, Head, Distinct

\* A page with a greater txnid becomes the head.
LEMMA HeadMoves ==
    ASSUME Types, Types', Distinct, Head.txnid >= 1, NEW k \in Metas, Tap'[k].txnid > Head.txnid,
           \A i \in Metas : i # k => Tap'[i].txnid = Tap[i].txnid
    PROVE  Recent' = k /\ Head'.txnid = Tap'[k].txnid /\ Distinct'
  <1>1. /\ \A i \in Metas : Tap[i].txnid <= Head.txnid
        /\ \A i \in Metas : Tap[i].txnid \in Nat /\ Head.txnid \in Nat
    BY HeadFacts, TapFacts DEF Snaps
  <1>2. Tap' \in [Metas -> Snaps]
    <2>1. \A m \in Page : meta_snap(m) \in Snaps
      BY DEF Page, meta_snap, Snaps
    <2> QED BY <2>1 DEF Types, Tap
  <1>3. Tap'[k].txnid \in Nat
    BY <1>2 DEF Snaps
  <1>4. \A j \in Metas : j # k => Tap'[j].txnid < Tap'[k].txnid
    BY <1>1, <1>3
  <1>5. recent(Tap') = k
    BY <1>2, <1>4, NewestIsRecent
  <1>6. Distinct'
    BY <1>1, <1>4 DEF Distinct
  <1> QED BY <1>5, <1>6 DEF Recent, Head
-----------------------------------------------------------------------------
(* Types. *)

\* The pages that are written are pages.
LEMMA NewPages ==
    ASSUME Types
    PROVE  /\ NewMeta \in Page /\ [NewMeta EXCEPT !.steady = FALSE] \in Page
           /\ [a |-> 0, b |-> 0, steady |-> TRUE, boot |-> boot, gen |-> 0] \in Page
           /\ \A m \in Page, s \in BOOLEAN : [m EXCEPT !.steady = s] \in Page
           /\ \A m \in Page : [m EXCEPT !.a = call.txnid, !.b = 0, !.steady = FALSE,
                                         !.gen = call.gen] \in Page
  <1>1. call.txnid \in Nat /\ call.gen \in Nat /\ call.steady \in BOOLEAN /\ boot \in Nat
    BY DEF Types, CallType
  <1>2. NewMeta \in Page
    BY <1>1 DEF NewMeta, Page
  <1>3. \A m \in Page, s \in BOOLEAN : [m EXCEPT !.steady = s] \in Page
    BY DEF Page
  <1>4. [NewMeta EXCEPT !.steady = FALSE] \in Page
    BY <1>2, <1>3
  <1>5. [a |-> 0, b |-> 0, steady |-> TRUE, boot |-> boot, gen |-> 0] \in Page
    BY <1>1 DEF Page
  <1>6. \A m \in Page, x \in Nat, g \in Nat :
            [m EXCEPT !.a = x, !.b = 0, !.steady = FALSE, !.gen = g] \in Page
    BY DEF Page
  <1> QED BY <1>1, <1>2, <1>3, <1>4, <1>5, <1>6

\* No call and no transaction are of their types.
LEMMA NoneTyped == NoCall \in CallType /\ NoTxn \in TxnType
  <1>1. {} \in SUBSET AnyFlag /\ 0 \in Metas /\ 0 \in Nat
    BY DEF Metas
  <1>2. NoTxn \in TxnType
    BY <1>1 DEF NoTxn, TxnType
  <1>3. NoCall \in CallType
    BY <1>1 DEF NoCall, CallType
  <1> QED BY <1>2, <1>3

\* Every step keeps the types.
LEMMA TypesStep ==
    ASSUME Types, [Next]_vars
    PROVE  Types'
  <1>0. /\ Recent \in Metas /\ Head.txnid \in Nat /\ Detent \in Nat /\ tail(Tap) \in Metas
        /\ 0 \in Metas /\ Tap[Recent] \in Snaps /\ mem[Recent] \in Page
        /\ call \in CallType /\ Plan.flags \subseteq SUBSET AnyFlag
    BY HeadFacts, TapFacts, MetaAssumption DEF Types, Metas, Plan, AnyFlag
  <1>1. CASE UNCHANGED <<plan, boot, env, txn, gen, owner, reused, call, promised>>
             /\ mem' \in [Metas -> Page] /\ disk' \in [Metas -> Page]
    BY <1>1 DEF Types
  <1>a. CASE OpenPurge \/ WipeSteady \/ PwriteMeta \/ InvalidateMeta \/ PublishMeta \/ SignMeta
    <2>1. UNCHANGED <<plan, boot, env, txn, gen, owner, reused, call, promised>>
      BY <1>a DEF OpenPurge, WipeSteady, PwriteMeta, InvalidateMeta, PublishMeta, SignMeta, ghosts
    <2>2. /\ call.target \in Metas /\ call.steady \in BOOLEAN /\ disk \in [Metas -> Page]
          /\ mem \in [Metas -> Page] /\ call.txnid \in Nat /\ call.gen \in Nat
      BY <1>0 DEF CallType, Types
    <2>3. CASE OpenPurge
      <3> DEFINE empty == [a |-> 0, b |-> 0, steady |-> TRUE, boot |-> boot, gen |-> 0]
      <3>1. empty \in Page
        BY NewPages
      <3>2. mem' = [mem EXCEPT ![Recent] = empty] /\ disk' \in {mem', [disk EXCEPT ![Recent] = empty]}
        BY <2>3 DEF OpenPurge
      <3> QED BY <1>1, <2>1, <2>2, <3>1, <3>2
    <2>4. CASE WipeSteady
      <3>1. mem' \in [Metas -> Page]
        BY <2>2, <2>4, NewPages DEF WipeSteady
      <3>2. disk' = mem' \/ \E w : disk' = [i \in Metas |-> IF i \in w THEN mem'[i] ELSE disk[i]]
        BY <2>4 DEF WipeSteady
      <3> QED BY <1>1, <2>1, <2>2, <3>1, <3>2
    <2>5. CASE PwriteMeta
      BY <1>1, <2>1, <2>2, <2>5, NewPages DEF PwriteMeta
    <2>6. CASE InvalidateMeta
      <3>1. mem' = mem \/ mem' = [mem EXCEPT ![call.target] =
                 [mem[call.target] EXCEPT !.a = call.txnid, !.b = 0, !.steady = FALSE, !.gen = call.gen]]
        BY <2>2, <2>6 DEF InvalidateMeta
      <3>2. mem' \in [Metas -> Page]
        <4>1. [mem[call.target] EXCEPT !.a = call.txnid, !.b = 0, !.steady = FALSE, !.gen = call.gen] \in Page
          BY <2>2, NewPages
        <4> QED BY <2>2, <3>1, <4>1
      <3> QED BY <1>1, <2>1, <2>2, <2>6, <3>2 DEF InvalidateMeta
    <2>7. CASE PublishMeta
      BY <1>1, <2>1, <2>2, <2>7, NewPages DEF PublishMeta
    <2>8. CASE SignMeta
      BY <1>1, <2>1, <2>2, <2>8, NewPages DEF SignMeta
    <2> QED BY <1>a, <2>3, <2>4, <2>5, <2>6, <2>7, <2>8
  <1>2. CASE \/ (\E i \in Metas : Writeback(i)) \/ OpenDone \/ PureCommit \/ Abort \/ Presync
             \/ SyncDataFails \/ WriteMetaFails \/ UNCHANGED vars
    <2>1. UNCHANGED <<plan, boot, env, mem, gen, owner, reused, call, promised>>
      BY <1>2 DEF Writeback, OpenDone, Abort, Presync, PureCommit, SyncDataFails, WriteMetaFails, vars,
                  ghosts, FlushMetas
    <2>2. txn' \in TxnType
      <3>1. txn' = txn \/ txn' = NoTxn \/ txn' = [txn EXCEPT !.need = TRUE]
        BY <1>2 DEF Writeback, OpenDone, Abort, Presync, PureCommit, SyncDataFails, WriteMetaFails, vars
      <3> QED BY <3>1, NoneTyped DEF Types, TxnType
    <2>3. disk' \in [Metas -> Page]
      <3>1. CASE WriteMetaFails
        <4>1. call.target \in Metas /\ disk \in [Metas -> Page] /\ NewMeta \in Page
          BY <1>0, NewPages DEF Types, CallType
        <4>2. disk' = disk \/ \E page \in {disk[call.target], NewMeta} : disk' = [disk EXCEPT ![call.target] = page]
          BY <3>1 DEF WriteMetaFails
        <4> QED BY <4>1, <4>2
      <3>2. CASE \E i \in Metas : Writeback(i)
        BY <3>2 DEF Writeback, Types
      <3>3. CASE disk' = mem \/ disk' = disk
        BY <3>3 DEF Types
      <3> QED BY <1>2, <3>1, <3>2, <3>3 DEF OpenDone, Abort, Presync, PureCommit, FlushMetas,
                 SyncDataFails, vars, ghosts
    <2> QED BY <2>1, <2>2, <2>3 DEF Types
  <1>b. CASE \/ \E flags \in Plan.flags : Open(flags)
             \/ \E f \in {{"NOMETASYNC"}, {"SAFE_NOSYNC"}, {"SAFE_NOSYNC", "UTTERLY"}},
                  onoff \in BOOLEAN : SetFlags(f, onoff)
    <2>1. UNCHANGED <<plan, boot, mem, disk, txn, gen, owner, reused, call, promised>>
      BY <1>b DEF Open, SetFlags, ghosts
    <2>2. \/ \E flags \in Plan.flags : env' = [flags |-> flags, dsync |-> "SAFE_NOSYNC" \notin flags,
                                              metadsync |-> Full(flags)]
          \/ \E flags : env' = [env EXCEPT !.flags = flags] /\ env'.flags \in Plan.flags
      BY <1>b DEF Open, SetFlags
    <2>3. env' \in [flags : SUBSET AnyFlag, dsync : BOOLEAN, metadsync : BOOLEAN]
      <3>1. ASSUME NEW flags \in Plan.flags,
                   env' = [flags |-> flags, dsync |-> "SAFE_NOSYNC" \notin flags, metadsync |-> Full(flags)]
            PROVE  env' \in [flags : SUBSET AnyFlag, dsync : BOOLEAN, metadsync : BOOLEAN]
        BY <1>0, <3>1 DEF Full
      <3>2. ASSUME NEW flags, env' = [env EXCEPT !.flags = flags], env'.flags \in Plan.flags
            PROVE  env' \in [flags : SUBSET AnyFlag, dsync : BOOLEAN, metadsync : BOOLEAN]
        BY <1>0, <3>2 DEF Types
      <3> QED BY <2>2, <3>1, <3>2
    <2> QED BY <2>1, <2>3 DEF Types
  <1>3. CASE Spill \/ CommitWrite
    <2>1. /\ UNCHANGED <<plan, mem, disk, boot, env, txn, gen, promised>>
          /\ reused' = MaxOf(reused, Detent)
          /\ owner' = [owner EXCEPT ![Head.txnid + 1] = gen]
      BY <1>3 DEF Spill, CommitWrite, WriteData
    <2>2. call' = call \/ call' = [flags |-> env.flags \cup txn.flags,
                txnid |-> Head.txnid + 1, steady |-> FALSE, gen |-> gen,
                target |-> 0, back |-> "idle", then |-> "idle"]
      BY <1>3 DEF Spill, CommitWrite
    <2>3. reused' \in Nat
      BY <1>0, <2>1 DEF Types, MaxOf
    <2>4. owner' \in [1 .. MaxTxn -> Nat]
      BY <2>1 DEF Types
    <2>5. call' \in CallType
      <3>1. env.flags \cup txn.flags \in SUBSET AnyFlag /\ gen \in Nat /\ Head.txnid + 1 \in Nat
        BY <1>0 DEF Types, TxnType
      <3>2. \A flags \in SUBSET AnyFlag, x \in Nat, g \in Nat :
               [flags |-> flags, txnid |-> x, steady |-> FALSE, gen |-> g, target |-> 0,
                back |-> "idle", then |-> "idle"] \in CallType
        BY <1>0 DEF CallType
      <3> QED BY <1>0, <2>2, <3>1, <3>2
    <2> QED BY <2>1, <2>3, <2>4, <2>5 DEF Types
  <1>4. CASE MakeSteady \/ Close \/ \E force \in BOOLEAN : EnvSync(force)
    <2>1. UNCHANGED <<plan, mem, disk, boot, env, txn, gen, owner, reused>>
      BY <1>4 DEF MakeSteady, Close, EnvSync, ghosts
    <2>2. promised' \in {promised, Head.txnid}
      BY <1>4 DEF MakeSteady, Close, EnvSync, ghosts, SyncHead
    <2>3. \/ call' = call
          \/ \E flags \in SUBSET AnyFlag, back \in {"txn", "metasync"}, then \in {"idle", "txn", "down"} :
                call' = [flags |-> flags, txnid |-> Head.txnid, steady |-> Head.steady,
                         gen |-> mem[Recent].gen, target |-> 0, back |-> back, then |-> then]
      <3>1. /\ env.flags \cap {"WRITEMAP", "NOMETASYNC"} \in SUBSET AnyFlag
            /\ env.flags \cap {"WRITEMAP"} \in SUBSET AnyFlag
            /\ env.flags \ {"NOMETASYNC"} \in SUBSET AnyFlag
        BY DEF Types
      <3> QED BY <1>4, <3>1 DEF MakeSteady, Close, EnvSync, SyncHead
    <2>4. Head.steady \in BOOLEAN /\ mem[Recent].gen \in Nat
      BY <1>0 DEF Head, Snaps, Page
    <2>5. call' \in CallType
      BY <1>0, <2>3, <2>4 DEF CallType
    <2> QED BY <1>0, <2>1, <2>2, <2>5 DEF Types
  <1>5. ASSUME NEW force \in BOOLEAN, SyncData(force) PROVE Types'
    <2>1. /\ UNCHANGED <<plan, mem, boot, env, gen, owner, reused>> /\ disk' \in {mem, disk}
      BY <1>5 DEF SyncData, FlushAll
    <2>2. \/ Return(Effective(force))
          \/ /\ promised' = promised /\ txn' = txn
             /\ \E s \in BOOLEAN, t \in {Recent, tail(Tap)} :
                   call' = [call EXCEPT !.flags = Effective(force), !.steady = s, !.target = t]
      <3> DEFINE flags == Effective(force)
                 skip  == lck.unsynced = 1 /\ "NOMETASYNC" \in flags
                 weak  == lck.unsynced > 0 /\ "SAFE_NOSYNC" \in flags
                 steady == IF skip THEN call.steady ELSE ~weak
                 again  == Head.txnid = call.txnid
      <3>1. \/ Return(flags)
            \/ /\ promised' = promised /\ txn' = txn
               /\ call' = [call EXCEPT !.flags = flags, !.steady = steady,
                                       !.target = IF again THEN Recent ELSE tail(Tap)]
        BY <1>5 DEF SyncData
      <3>2. steady \in BOOLEAN
        BY <1>0 DEF CallType
      <3> QED BY <3>1, <3>2
    <2>3. Effective(force) \in SUBSET AnyFlag
      BY <1>0 DEF Effective, CallType
    <2>4. call' \in CallType
      <3>1. CASE Return(Effective(force))
        BY <1>0, <3>1, NoneTyped DEF Return
      <3>2. CASE \E st \in BOOLEAN, t \in {Recent, tail(Tap)} :
                   call' = [call EXCEPT !.flags = Effective(force), !.steady = st, !.target = t]
        BY <1>0, <2>3, <3>2 DEF CallType
      <3> QED BY <2>2, <3>1, <3>2
    <2>5. promised' \in {promised, call.txnid} /\ txn' \in {txn, NoTxn}
      BY <2>2 DEF Return
    <2>6. promised' \in Nat /\ txn' \in TxnType
      BY <1>0, <2>5, NoneTyped DEF Types, CallType
    <2> QED BY <2>1, <2>4, <2>6 DEF Types
  <1>6. CASE SyncMeta \/ MetaSync
    <2>1. /\ UNCHANGED <<plan, mem, boot, env, gen, owner, reused>> /\ disk' \in {mem, disk}
          /\ call' \in {call, NoCall} /\ promised' \in {promised, call.txnid, Head.txnid}
          /\ txn' \in {txn, NoTxn}
      BY <1>6 DEF SyncMeta, MetaSync, FlushMetas, Return
    <2>2. call.txnid \in Nat
      BY <1>0 DEF CallType
    <2>3. call' \in CallType /\ promised' \in Nat /\ txn' \in TxnType
      BY <1>0, <2>1, <2>2, NoneTyped DEF Types
    <2> QED BY <2>1, <2>3 DEF Types
  <1>7. CASE Kill \/ OwnerDies \/ SystemCrash \/ \E flags \in SUBSET {"NOMETASYNC", "SAFE_NOSYNC"} : Begin(flags)
    <2>1. /\ UNCHANGED <<plan, disk, env, owner, reused, promised>> /\ mem' \in {mem, disk}
          /\ call' \in {call, NoCall} /\ boot' \in {boot, boot + 1} /\ gen' \in {gen, gen + 1}
      BY <1>7 DEF Kill, OwnerDies, SystemCrash, Begin, ghosts
    <2>2. txn' \in TxnType
      <3>1. txn' = NoTxn \/ \E flags \in SUBSET {"NOMETASYNC", "SAFE_NOSYNC"} : txn' = [flags |-> flags, need |-> FALSE]
        BY <1>7 DEF Kill, OwnerDies, SystemCrash, Begin
      <3>2. \A flags \in SUBSET AnyFlag : [flags |-> flags, need |-> FALSE] \in TxnType
        BY DEF TxnType
      <3>3. SUBSET {"NOMETASYNC", "SAFE_NOSYNC"} \subseteq SUBSET AnyFlag
        BY DEF AnyFlag
      <3> QED BY <3>1, <3>2, <3>3, NoneTyped
    <2>3. call' \in CallType
      BY <1>0, <2>1, NoneTyped
    <2> QED BY <2>1, <2>2, <2>3 DEF Types
  <1> QED BY <1>2, <1>a, <1>b, <1>3, <1>4, <1>5, <1>6, <1>7 DEF Next
-----------------------------------------------------------------------------
(* One step while the system is up. *)

\* The head of an untouched cache.
LEMMA SameMem ==
    ASSUME mem' = mem
    PROVE  Tap' = Tap /\ Recent' = Recent /\ Head' = Head /\ Distinct' = Distinct
  BY DEF Tap, Recent, Head, Distinct

\* The guards of a call's end and of everything that writes no meta page.
LEMMA QuietStep ==
    ASSUME Types, Types', Cache, boot = 0, mem' = mem, lost' = lost,
           UNCHANGED <<owner, reused>>, gen' \in {gen, gen + 1}, promised' \in {promised, Head.txnid},
           pc' \in {"down", "open", "idle", "fatal", "txn", "write"},
           pc' \in {"txn", "write"} => Head.txnid < MaxTxn
    PROVE  Cache' /\ Room' /\ Continues' /\ Head.txnid <= Head'.txnid
  <1>1. Tap' = Tap /\ Recent' = Recent /\ Head' = Head /\ Distinct' = Distinct
    BY SameMem
  <1>2. HeadKept'
    <2>1. \A x \in 1 .. MaxTxn : owner[x] \in Nat
      BY DEF Types
    <2>2. \A x \in 1 .. MaxTxn : owner'[x] <= gen'
      BY <2>1 DEF Types, Cache, HeadKept
    <2>3. promised' <= Head.txnid
      BY HeadFacts DEF Cache, HeadKept
    <2> QED BY <1>1, <2>2, <2>3 DEF Cache, HeadKept, Owned
  <1>3. Cache'
    BY <1>1, <1>2 DEF Cache
  <1>4. Room' /\ Continues'
    BY <1>1 DEF Room, Continues, InCall
  <1>n. Head.txnid <= Head'.txnid
    BY <1>1, HeadFacts
  <1> QED BY <1>3, <1>4, <1>n

\* A call that begins, goes on or hands over to meta_sync without touching a
\* meta page.
LEMMA CallStep ==
    ASSUME Types, Types', Cache, boot = 0, mem' = mem, lost' = lost,
           UNCHANGED <<owner, reused, gen>>, promised' \in {promised, Head.txnid},
           pc' \in {"sync", "meta", "sign", "msync", "metasync"}, Continues',
           call'.then = "txn" => Head.txnid < MaxTxn
    PROVE  Cache' /\ Room' /\ Continues' /\ Head.txnid <= Head'.txnid
  <1>1. Tap' = Tap /\ Recent' = Recent /\ Head' = Head /\ Distinct' = Distinct
    BY SameMem
  <1>2. HeadKept'
    <2>1. promised' <= Head.txnid
      BY HeadFacts DEF Cache, HeadKept
    <2> QED BY <1>1, <2>1 DEF Cache, HeadKept, Owned
  <1>3. Cache'
    BY <1>1, <1>2 DEF Cache
  <1>4. Room'
    BY <1>1 DEF Room
  <1>n. Head.txnid <= Head'.txnid
    BY <1>1, HeadFacts
  <1> QED BY <1>3, <1>4, <1>n

\* The call returns to the transaction or to nobody, or goes on to meta_sync.
LEMMA ReturnStep ==
    ASSUME Types, Types', Cache, Room, Continues, boot = 0, mem' = mem, lost' = lost,
           UNCHANGED <<owner, reused, gen>>, InCall, call.txnid <= Head.txnid,
           NEW flags, Return(flags), call.txnid >= Head.txnid \/ pc = "msync"
    PROVE  Cache' /\ Room' /\ Continues' /\ Head.txnid <= Head'.txnid
  <1>1. Tap' = Tap /\ Recent' = Recent /\ Head' = Head /\ Distinct' = Distinct
    BY SameMem
  <1>2. Head.txnid \in Nat /\ call \in CallType /\ call.txnid \in Nat
    BY HeadFacts DEF Types, CallType
  <1>3. promised' <= Head.txnid
    BY <1>2 DEF Return, Cache, HeadKept
  <1>4. HeadKept'
    BY <1>1, <1>3 DEF Cache, HeadKept, Owned
  <1>5. pc' \in {"idle", "txn", "metasync"} /\ Cache'
    BY <1>1, <1>2, <1>4 DEF Return, CallType, Cache
  <1>6. pc' = "txn" => Head.txnid < MaxTxn
    BY <1>2 DEF Return, Room, Continues
  <1>7. pc' = "metasync" => call' = call
    BY DEF Return
  <1>n. Head.txnid <= Head'.txnid
    BY <1>1, HeadFacts
  <1>8. Room' /\ Continues'
    BY <1>1, <1>5, <1>6, <1>7 DEF Room, Continues, InCall
  <1> QED BY <1>5, <1>8, <1>n
\* A meta page that is not the head is replaced by a newer one.
LEMMA NewHeadStep ==
    ASSUME Types, Types', Cache, Continues, boot = 0, lost' = lost,
           UNCHANGED <<owner, reused, gen, promised, call>>,
           pc \in {"meta", "publish"}, call.txnid > Head.txnid, pc' \in {"sign", "msync"},
           NEW p \in Page, p.a = call.txnid, p.b = call.txnid, p.boot = 0, p.gen = call.gen,
           mem' = [mem EXCEPT ![call.target] = p]
    PROVE  Cache' /\ Room' /\ Continues' /\ Head.txnid <= Head'.txnid
  <1>1. /\ call.target \in Metas /\ call.txnid \in 1 .. MaxTxn /\ Owned(call.txnid, call.gen)
        /\ mem \in [Metas -> Page] /\ Head.txnid \in Nat /\ call.txnid \in Nat
        /\ call.then # "txn"
    BY HeadFacts DEF Types, CallType, Continues
  <1>2. /\ \A i \in Metas : Tap[i].txnid = IF mem[i].a = mem[i].b THEN mem[i].a ELSE 0
        /\ \A i \in Metas : Tap'[i].txnid = IF mem'[i].a = mem'[i].b THEN mem'[i].a ELSE 0
    <2>1. \A m \in Page : meta_snap(m).txnid = IF m.a = m.b THEN m.a ELSE 0
      BY DEF Page, meta_snap
    <2> QED BY <2>1 DEF Types, Tap
  <1>3. Tap'[call.target].txnid = call.txnid
    BY <1>1, <1>2
  <1>4. \A i \in Metas : i # call.target => Tap'[i].txnid = Tap[i].txnid
    BY <1>1, <1>2
  <1>5. Recent' = call.target /\ Head'.txnid = call.txnid /\ Distinct'
    <2>1. Distinct /\ Head.txnid >= 1
      BY DEF Cache, HeadKept
    <2> QED BY <1>1, <1>3, <1>4, <2>1, HeadMoves
  <1>6. mem'[call.target].gen = call.gen
    BY <1>1
  <1>7. HeadKept'
    <2>1. reused <= call.txnid /\ promised <= call.txnid
      BY <1>1 DEF Cache, HeadKept, Types
    <2> QED BY <1>1, <1>5, <1>6, <2>1 DEF Cache, HeadKept, Owned
  <1>8. Cache'
    <2>1. \A i \in Metas : mem'[i].boot = 0
      BY <1>1 DEF Cache
    <2> QED BY <1>5, <1>7, <2>1 DEF Cache
  <1>9. Room' /\ Continues'
    <2>1. InCall /\ InCall'
      BY DEF InCall
    <2> QED BY <1>1, <1>5, <2>1 DEF Room, Continues
  <1>n. Head.txnid <= Head'.txnid
    BY <1>1, <1>5
  <1> QED BY <1>8, <1>9, <1>n

\* The pages change, but none becomes newer and the head stays as it is.
LEMMA SameHeadStep ==
    ASSUME Types, Types', Cache, Room, Continues, boot = 0, lost' = lost,
           UNCHANGED <<owner, reused, gen, promised, call>>,
           \/ pc' = pc /\ pc = "txn"
           \/ pc = "meta" /\ pc' \in {"sign", "msync"} /\ call.txnid = Head.txnid
           \/ pc = "meta" /\ pc' = "publish" /\ call.txnid > Head.txnid /\ call.target # Recent
           \/ pc = "sign" /\ pc' = "msync",
           \A i \in Metas : \/ mem'[i].a = mem[i].a /\ mem'[i].b = mem[i].b
                            \/ i # Recent /\ mem'[i].a # mem'[i].b,
           \A i \in Metas : mem'[i].boot = 0,
           mem'[Recent].gen = mem[Recent].gen
    PROVE  Cache' /\ Room' /\ Continues' /\ Head.txnid <= Head'.txnid
  <1>1. /\ \A i \in Metas : Tap[i].txnid = IF mem[i].a = mem[i].b THEN mem[i].a ELSE 0
        /\ \A i \in Metas : Tap'[i].txnid = IF mem'[i].a = mem'[i].b THEN mem'[i].a ELSE 0
    <2>1. \A m \in Page : meta_snap(m).txnid = IF m.a = m.b THEN m.a ELSE 0
      BY DEF Page, meta_snap
    <2> QED BY <2>1 DEF Types, Tap
  <1>2. Recent' = Recent /\ Head'.txnid = Head.txnid /\ Distinct'
    <2>1. Distinct /\ Head.txnid >= 1
      BY DEF Cache, HeadKept
    <2>2. \A i \in Metas : Tap'[i].txnid = Tap[i].txnid \/ (i # Recent /\ Tap'[i].txnid = 0)
      BY <1>1
    <2> QED BY <2>1, <2>2, HeadStays
  <1>3. HeadKept'
    BY <1>2 DEF Cache, HeadKept, Owned
  <1>4. Cache'
    BY <1>2, <1>3 DEF Cache
  <1>5. Room'
    BY <1>2 DEF Room, InCall
  <1>6. Continues'
    <2>1. Head.txnid \in Nat /\ call.txnid \in Nat
      BY HeadFacts DEF Types, CallType
    <2>2. pc' = "publish" =>
            /\ call.txnid \in 1 .. MaxTxn /\ Owned(call.txnid, call.gen)
            /\ call.then = "txn" => call.txnid = Head.txnid
      BY DEF Continues
    <2>3. pc' \in {"sign", "msync"} => call.txnid <= Head.txnid
      BY <2>1 DEF Continues
    <2>4. pc' # "txn" => (call.back = "txn" => call.then = "txn")
      BY DEF Continues, InCall
    <2> QED BY <1>2, <2>1, <2>2, <2>3, <2>4 DEF Continues, InCall, Owned
  <1>n. Head.txnid <= Head'.txnid
    BY <1>2, HeadFacts
  <1> QED BY <1>4, <1>5, <1>6, <1>n

\* The running transaction writes pages: they belong to the next txnid, and
\* it takes nothing the head needs.
LEMMA WriteStep ==
    ASSUME Types, Types', Cache, Room, boot = 0, lost' = lost, mem' = mem,
           UNCHANGED <<gen, promised>>, pc \in {"txn", "write"},
           NEW durably \in BOOLEAN, WriteData(durably),
           \/ pc' = "txn"
           \/ /\ pc' = "sync" /\ call'.txnid = Head.txnid + 1 /\ call'.gen = gen
              /\ call'.back = "idle" /\ call'.then = "idle"
    PROVE  Cache' /\ Room' /\ Continues' /\ Head.txnid <= Head'.txnid
  <1>1. Tap' = Tap /\ Recent' = Recent /\ Head' = Head /\ Distinct' = Distinct
    BY SameMem
  <1>2. /\ Head.txnid \in 1 .. MaxTxn /\ Head.txnid < MaxTxn /\ Detent \in Nat /\ Detent <= Head.txnid
        /\ MaxTxn \in Nat /\ owner \in [1 .. MaxTxn -> Nat] /\ gen \in Nat /\ reused \in Nat
    BY HeadFacts, MetaAssumption DEF Cache, HeadKept, Room, Types
  <1>3. owner' = [owner EXCEPT ![Head.txnid + 1] = gen] /\ reused' = MaxOf(reused, Detent)
    BY DEF WriteData
  <1>4. /\ owner'[Head.txnid + 1] = gen
        /\ \A x \in 1 .. MaxTxn : owner'[x] <= gen
        /\ \A x \in 1 .. Head.txnid : owner'[x] = owner[x]
    BY <1>2, <1>3 DEF Cache, HeadKept
  <1>5. HeadKept'
    <2>1. reused' <= Head.txnid
      BY <1>2, <1>3 DEF MaxOf, Cache, HeadKept
    <2> QED BY <1>1, <1>2, <1>4, <2>1 DEF Cache, HeadKept, Owned
  <1>6. Cache'
    BY <1>1, <1>5 DEF Cache
  <1>7. Owned(Head.txnid + 1, gen)'
    BY <1>1, <1>2, <1>4 DEF Owned
  <1>8. Room'
    BY <1>1, <1>2 DEF Room
  <1>9. Continues'
    BY <1>1, <1>2, <1>7 DEF Continues, InCall, Owned
  <1>n. Head.txnid <= Head'.txnid
    BY <1>1, <1>2
  <1> QED BY <1>6, <1>8, <1>9, <1>n
-----------------------------------------------------------------------------
(* Opening. *)

Latched == [snap : Snaps, ok : BOOLEAN]

\* dxb_read_header takes one page after the other; once it has one of this
\* boot it keeps one, and a valid page is taken if there was none.
LEMMA LatchStep ==
    ASSUME NEW m \in Page, Matches(m), NEW d \in Latched,
           d.ok = TRUE \/ d.snap.txnid = 0
    PROVE  /\ Latch(d, m) \in Latched
           /\ Latch(d, m).ok = TRUE \/ Latch(d, m).snap.txnid = 0
           /\ d.ok = TRUE => Latch(d, m).ok = TRUE
           /\ m.a = m.b /\ m.a >= 1 => Latch(d, m).ok = TRUE
  <1> DEFINE s == meta_snap(m)
             n == [snap |-> s, ok |-> TRUE]
  <1>1. s \in Snaps /\ s.txnid = (IF m.a = m.b THEN m.a ELSE 0)
    BY DEF Page, meta_snap, Snaps
  <1>2. n \in Latched /\ n.ok = TRUE /\ n.snap = s
    BY <1>1 DEF Latched
  <1>3. Latch(d, m) = IF m.a = m.b /\ meta_choice_recent(s, d.snap) THEN n ELSE d
    <2>1. (s.steady \/ Matches(m)) = TRUE
      OBVIOUS
    <2> QED BY <2>1 DEF Latch
  <1>4. ASSUME m.a = m.b, m.a >= 1, d.snap.txnid = 0 PROVE meta_choice_recent(s, d.snap)
    <2>1. d.snap \in Snaps
      BY DEF Latched
    <2>2. s.txnid > d.snap.txnid
      BY <1>1, <1>4 DEF Page
    <2> QED BY <1>1, <2>1, <2>2, RecentRule
  <1> HIDE DEF s, n
  <1> QED BY <1>2, <1>3, <1>4

\* A cache of this boot can be opened.
LEMMA HeaderFound ==
    ASSUME Types, Cache, boot = 0
    PROVE  Header.ok = TRUE
  <1> DEFINE none == [snap |-> [txnid |-> 0, steady |-> FALSE], ok |-> FALSE]
             first == Latch(none, mem[0])
             second == Latch(first, mem[1])
  <1>1. /\ 0 \in Metas /\ 1 \in Metas /\ 2 \in Metas
        /\ \A i \in Metas : i = 0 \/ i = 1 \/ i = 2
        /\ \A i \in Metas : mem[i] \in Page /\ Matches(mem[i])
    BY DEF Metas, Types, Cache, Matches
  <1>2. none \in Latched /\ none.snap.txnid = 0
    <2>1. [txnid |-> 0, steady |-> FALSE] \in Snaps
      BY DEF Snaps
    <2> QED BY <2>1 DEF Latched
  <1>3. Header = Latch(second, mem[2])
    BY DEF Header
  <1>4. \E i \in Metas : mem[i].a = mem[i].b /\ mem[i].a >= 1
    BY HeadFacts, TapFacts DEF Cache, HeadKept
  <1> HIDE DEF none
  <1>5. /\ first \in Latched /\ (first.ok = TRUE \/ first.snap.txnid = 0)
        /\ mem[0].a = mem[0].b /\ mem[0].a >= 1 => first.ok = TRUE
    BY <1>1, <1>2, LatchStep
  <1> HIDE DEF first
  <1>6. /\ second \in Latched /\ (second.ok = TRUE \/ second.snap.txnid = 0)
        /\ first.ok = TRUE => second.ok = TRUE
        /\ mem[1].a = mem[1].b /\ mem[1].a >= 1 => second.ok = TRUE
    BY <1>1, <1>5, LatchStep
  <1> HIDE DEF second
  <1>7. /\ second.ok = TRUE => Header.ok = TRUE
        /\ mem[2].a = mem[2].b /\ mem[2].a >= 1 => Header.ok = TRUE
    BY <1>1, <1>3, <1>6, LatchStep
  <1> QED BY <1>1, <1>4, <1>5, <1>6, <1>7

\* Pages of different txnids do not clash.
LEMMA NoClashes ==
    ASSUME Distinct
    PROVE  ~Clashed(Tap)
  <1>1. 0 \in Metas /\ 1 \in Metas /\ 2 \in Metas
    BY DEF Metas
  <1>2. \A i, j \in Metas : i # j => ~meta_eq(Tap, i, j)
    <2>1. \A i, j \in Metas : i # j => (Tap[i].txnid # Tap[j].txnid \/ Tap[i].txnid = 0)
      BY DEF Distinct
    <2>2. \A x, y : meta_cmp2int(x, y) = 1 => x = y
      BY DEF meta_cmp2int
    <2> QED BY <2>1, <2>2 DEF meta_eq, Differ, Cmp
  <1> QED BY <1>1, <1>2 DEF Clashed

\* No two pages clash and no head is rolled back.
LEMMA NothingRolledBack ==
    ASSUME Types, Cache, boot = 0
    PROVE  ~Clashed(Tap) /\ ~Rollback
  <1>1. ~Clashed(Tap)
    BY NoClashes DEF Cache
  <1>2. Matches(mem[Recent])
    BY HeadFacts DEF Cache, Matches
  <1> QED BY <1>1, <1>2 DEF Rollback
-----------------------------------------------------------------------------
(* Every step of the system while it is up. *)

\* No step, of whatever process in whatever mode, spoils the cache.
LEMMA UpStep ==
    ASSUME Types, Types', Cache, Room, Continues, boot = 0, boot' = 0, [Next]_vars
    PROVE  Cache' /\ Room' /\ Continues' /\ Head.txnid <= Head'.txnid
  <1>0. /\ Header.ok = TRUE /\ ~Clashed(Tap) /\ ~Rollback
        /\ Recent \in Metas /\ Head.txnid \in 1 .. MaxTxn
        /\ call \in CallType /\ call.target \in Metas /\ call.txnid \in Nat /\ call.gen \in Nat
        /\ mem \in [Metas -> Page] /\ MaxTxn \in Nat
    BY HeaderFound, NothingRolledBack, HeadFacts, MetaAssumption DEF Types, Cache, HeadKept, CallType
  <1>1. CASE \/ (\E i \in Metas : Writeback(i)) \/ UNCHANGED vars
             \/ \E f \in {{"NOMETASYNC"}, {"SAFE_NOSYNC"}, {"SAFE_NOSYNC", "UTTERLY"}},
                  onoff \in BOOLEAN : SetFlags(f, onoff)
    <2>1. UNCHANGED <<mem, lost, owner, reused, promised, gen, pc, call>>
      BY <1>1 DEF Writeback, SetFlags, vars, ghosts
    <2>2. Tap' = Tap /\ Recent' = Recent /\ Head' = Head /\ Distinct' = Distinct
      BY <2>1, SameMem
    <2> QED BY <1>0, <2>1, <2>2 DEF Cache, HeadKept, Owned, Room, Continues, InCall
  <1>2. CASE \/ (\E flags \in Plan.flags : Open(flags)) \/ OpenDone \/ Abort \/ PureCommit
             \/ SyncDataFails \/ WriteMetaFails \/ Kill \/ OwnerDies
    <2>1. UNCHANGED <<mem, lost, owner, reused, promised, gen>>
      BY <1>2 DEF Open, OpenDone, Abort, PureCommit, SyncDataFails, WriteMetaFails, Kill, OwnerDies, ghosts
    <2>2. pc' \in {"down", "open", "idle", "fatal"}
      BY <1>0, <1>2 DEF Open, OpenDone, Abort, PureCommit, SyncDataFails, WriteMetaFails, Kill, OwnerDies
    <2> QED BY <2>1, <2>2, QuietStep
  <1>3. CASE OpenPurge
    BY <1>0, <1>3 DEF OpenPurge
  <1>4. CASE Presync \/ \E flags \in SUBSET {"NOMETASYNC", "SAFE_NOSYNC"} : Begin(flags)
    <2>1. UNCHANGED <<mem, lost, owner, reused, promised>> /\ gen' \in {gen, gen + 1}
      BY <1>4 DEF Presync, Begin
    <2>2. pc' \in {"idle", "txn", "write"}
      BY <1>4 DEF Presync, Begin
    <2>3. Head.txnid < MaxTxn
      <3>1. CASE Presync
        BY <3>1 DEF Presync, Room
      <3>2. CASE ~Presync
        <4>1. Head.txnid < Plan.top
          BY <1>4, <3>2 DEF Begin
        <4>2. Plan.top \in 3 .. MaxTxn
          BY MetaAssumption DEF Plan, Types
        <4> QED BY <1>0, <4>1, <4>2
      <3> QED BY <3>1, <3>2
    <2> QED BY <2>1, <2>2, <2>3, QuietStep
  <1>5. CASE Spill
    <2>1. /\ pc = "txn" /\ pc' = "txn" /\ WriteData(FALSE)
          /\ UNCHANGED <<mem, lost, gen, promised>>
      BY <1>5 DEF Spill
    <2> QED BY <2>1, WriteStep
  <1>6. CASE CommitWrite
    <2>1. /\ pc = "write" /\ pc' = "sync" /\ (WriteData(TRUE) \/ WriteData(FALSE))
          /\ UNCHANGED <<mem, lost, gen, promised>>
          /\ call'.txnid = Head.txnid + 1 /\ call'.gen = gen
          /\ call'.back = "idle" /\ call'.then = "idle"
      BY <1>6 DEF CommitWrite
    <2> QED BY <2>1, WriteStep
  <1>7. ASSUME MakeSteady \/ Close \/ \E force \in BOOLEAN : EnvSync(force)
        PROVE  Cache' /\ Room' /\ Continues' /\ Head.txnid <= Head'.txnid
    <2>1. UNCHANGED <<mem, lost, owner, reused, gen>> /\ promised' \in {promised, Head.txnid}
      BY <1>7 DEF MakeSteady, Close, EnvSync, SyncHead, ghosts
    <2>2. \/ pc' \in {"idle", "down"} \/ (pc' = "txn" /\ pc = "txn")
          \/ /\ pc' \in {"sync", "metasync"} /\ call'.txnid = Head.txnid /\ call'.gen = mem[Recent].gen
             /\ call'.back = "txn" => call'.then = "txn"
             /\ call'.then = "txn" => pc = "txn"
      BY <1>7 DEF MakeSteady, Close, EnvSync, SyncHead
    <2>3. CASE pc' \in {"idle", "down"} \/ (pc' = "txn" /\ pc = "txn")
      BY <2>1, <2>3, QuietStep DEF Room
    <2>4. CASE /\ pc' \in {"sync", "metasync"} /\ call'.txnid = Head.txnid /\ call'.gen = mem[Recent].gen
               /\ call'.back = "txn" => call'.then = "txn"
               /\ call'.then = "txn" => pc = "txn"
      <3>1. Tap' = Tap /\ Recent' = Recent /\ Head' = Head
        BY <2>1, SameMem
      <3>2. Owned(Head.txnid, mem[Recent].gen)'
        BY <2>1, <3>1 DEF Cache, HeadKept, Owned
      <3>3. Continues'
        BY <1>0, <2>1, <2>4, <3>1, <3>2 DEF Continues, InCall, Owned
      <3>4. call'.then = "txn" => Head.txnid < MaxTxn
        BY <2>4 DEF Room
      <3> QED BY <2>1, <2>4, <3>3, <3>4, CallStep
    <2> QED BY <2>2, <2>3, <2>4
  <1>8. ASSUME NEW force \in BOOLEAN, SyncData(force) PROVE Cache' /\ Room' /\ Continues' /\ Head.txnid <= Head'.txnid
    <2>1. /\ pc = "sync" /\ InCall /\ UNCHANGED <<mem, lost, owner, reused, gen>>
          /\ call.txnid >= Head.txnid /\ call.txnid \in 1 .. MaxTxn /\ Owned(call.txnid, call.gen)
          /\ call.then = "txn" => call.txnid = Head.txnid /\ Head.txnid < MaxTxn
          /\ call.back = "txn" => call.then = "txn"
      BY <1>8 DEF SyncData, InCall, Continues, Room
    <2>2. CASE Head.txnid = call.txnid /\ Return(Effective(force))
      BY <1>0, <2>1, <2>2, ReturnStep
    <2>3. CASE ~(Head.txnid = call.txnid /\ Return(Effective(force)))
      <3>1. PICK s : /\ pc' = "meta" /\ promised' = promised
                     /\ call' = [call EXCEPT !.flags = Effective(force), !.steady = s,
                            !.target = IF Head.txnid = call.txnid THEN Recent ELSE tail(Tap)]
        BY <1>8, <2>3 DEF SyncData
      <3>2. /\ call'.txnid = call.txnid /\ call'.gen = call.gen /\ call'.then = call.then
            /\ call'.back = call.back
            /\ call'.target = IF Head.txnid = call.txnid THEN Recent ELSE tail(Tap)
        BY <1>0, <3>1 DEF CallType
      <3>3. tail(Tap) # Recent
        BY HeadFacts
      <3>4. Tap' = Tap /\ Recent' = Recent /\ Head' = Head
        BY <2>1, SameMem
      <3>5. Owned(call.txnid, call.gen)'
        BY <2>1, <3>2 DEF Owned
      <3>6. Continues'
        BY <1>0, <2>1, <3>1, <3>2, <3>3, <3>4, <3>5 DEF Continues, Owned
      <3> QED BY <2>1, <3>1, <3>2, <3>6, CallStep
    <2> QED BY <2>2, <2>3
  <1>9. CASE PwriteMeta \/ PublishMeta
    <2>1. /\ UNCHANGED <<lost, owner, reused, promised, gen, call>> /\ pc \in {"meta", "publish"}
          /\ pc = "meta" => pc' = "msync"
          /\ pc = "publish" => pc' = "sign"
          /\ \/ mem' = [mem EXCEPT ![call.target] = NewMeta]
             \/ mem' = [mem EXCEPT ![call.target] = [NewMeta EXCEPT !.steady = FALSE]]
      BY <1>9 DEF PwriteMeta, PublishMeta, ghosts
    <2>2. PICK p \in Page : /\ p.a = call.txnid /\ p.b = call.txnid /\ p.boot = 0 /\ p.gen = call.gen
                            /\ mem' = [mem EXCEPT ![call.target] = p]
      <3>1. \A m \in Page : LET n == [m EXCEPT !.steady = FALSE]
                             IN  n.a = m.a /\ n.b = m.b /\ n.boot = m.boot /\ n.gen = m.gen
        BY DEF Page
      <3>2. /\ NewMeta.a = call.txnid /\ NewMeta.b = call.txnid /\ NewMeta.boot = 0
            /\ NewMeta.gen = call.gen /\ NewMeta \in Page /\ [NewMeta EXCEPT !.steady = FALSE] \in Page
        BY NewPages DEF NewMeta
      <3> QED BY <2>1, <3>1, <3>2
    <2>3. CASE call.txnid > Head.txnid
      BY <2>1, <2>2, <2>3, NewHeadStep
    <2>4. CASE ~(call.txnid > Head.txnid)
      <3>1. pc = "meta" /\ call.txnid = Head.txnid /\ call.target = Recent
        BY <2>1, <2>4 DEF Continues
      <3>2. mem'[Recent] = p /\ \A i \in Metas : i # Recent => mem'[i] = mem[i]
        BY <1>0, <2>2, <3>1
      <3>3. mem[Recent].a = mem[Recent].b /\ mem[Recent].a = Head.txnid
        BY <1>0, HeadFacts, TapFacts
      <3>4. mem[Recent].gen = call.gen
        BY <3>1 DEF Continues, Cache, HeadKept, Owned
      <3>5. \A i \in Metas : mem'[i].a = mem[i].a /\ mem'[i].b = mem[i].b /\ mem'[i].boot = 0
        BY <2>2, <3>1, <3>2, <3>3 DEF Cache
      <3>6. mem'[Recent].gen = mem[Recent].gen
        BY <2>2, <3>2, <3>4
      <3> QED BY <2>1, <3>1, <3>5, <3>6, SameHeadStep
    <2> QED BY <2>3, <2>4
  <1>10. CASE InvalidateMeta
    <2>1. UNCHANGED <<lost, owner, reused, promised, gen, call>> /\ pc = "meta"
      BY <1>10 DEF InvalidateMeta, ghosts
    <2>2. CASE call.target = Recent
      <3>1. mem' = mem /\ pc' = "sign" /\ call.txnid = Head.txnid
        BY <1>10, <2>1, <2>2 DEF InvalidateMeta, Continues
      <3> QED BY <2>1, <3>1, SameHeadStep DEF Cache
    <2>3. CASE call.target # Recent
      <3> DEFINE p == [mem[call.target] EXCEPT !.a = call.txnid, !.b = 0, !.steady = FALSE, !.gen = call.gen]
      <3>1. mem' = [mem EXCEPT ![call.target] = p] /\ pc' = "publish" /\ call.txnid > Head.txnid
        BY <1>0, <1>10, <2>1, <2>3 DEF InvalidateMeta, Continues
      <3>2. p.a = call.txnid /\ p.b = 0 /\ p.boot = mem[call.target].boot
        BY <1>0 DEF Page
      <3> HIDE DEF p
      <3>3. \A i \in Metas : \/ mem'[i].a = mem[i].a /\ mem'[i].b = mem[i].b
                             \/ i # Recent /\ mem'[i].a # mem'[i].b
        BY <1>0, <2>3, <3>1, <3>2
      <3>4. \A i \in Metas : mem'[i].boot = 0
        BY <1>0, <3>1, <3>2 DEF Cache
      <3>5. mem'[Recent].gen = mem[Recent].gen
        BY <1>0, <2>3, <3>1
      <3> QED BY <2>1, <2>3, <3>1, <3>3, <3>4, <3>5, SameHeadStep
    <2> QED BY <2>2, <2>3
  <1>11. CASE SignMeta \/ WipeSteady
    <2>1. /\ UNCHANGED <<lost, owner, reused, promised, gen, call>>
          /\ (pc' = pc /\ pc = "txn") \/ (pc = "sign" /\ pc' = "msync")
      BY <1>11 DEF SignMeta, WipeSteady, ghosts
    <2>2. \A i \in Metas : mem'[i] = mem[i] \/ \E s \in BOOLEAN : mem'[i] = [mem[i] EXCEPT !.steady = s]
      <3>1. CASE SignMeta
        <4>1. mem' = [mem EXCEPT ![call.target] = [mem[call.target] EXCEPT !.steady = call.steady]]
              /\ call.steady \in BOOLEAN
          BY <1>0, <3>1 DEF SignMeta, CallType
        <4> QED BY <1>0, <4>1
      <3>2. CASE WipeSteady
        <4>1. PICK w : mem' = [i \in Metas |-> IF i \in w THEN [mem[i] EXCEPT !.steady = FALSE] ELSE mem[i]]
          BY <3>2 DEF WipeSteady
        <4> QED BY <4>1
      <3> QED BY <1>11, <3>1, <3>2
    <2>3. \A m \in Page, s \in BOOLEAN : LET n == [m EXCEPT !.steady = s]
                                         IN  n.a = m.a /\ n.b = m.b /\ n.boot = m.boot /\ n.gen = m.gen
      BY DEF Page
    <2>4. \A i \in Metas : /\ mem'[i].a = mem[i].a /\ mem'[i].b = mem[i].b
                           /\ mem'[i].boot = mem[i].boot /\ mem'[i].gen = mem[i].gen
      <3>1. ASSUME NEW i \in Metas, NEW s \in BOOLEAN, mem'[i] = [mem[i] EXCEPT !.steady = s]
            PROVE  /\ mem'[i].a = mem[i].a /\ mem'[i].b = mem[i].b
                   /\ mem'[i].boot = mem[i].boot /\ mem'[i].gen = mem[i].gen
        <4> DEFINE n == [mem[i] EXCEPT !.steady = s]
        <4>1. n.a = mem[i].a /\ n.b = mem[i].b /\ n.boot = mem[i].boot /\ n.gen = mem[i].gen
          BY <1>0, <2>3
        <4> HIDE DEF n
        <4> QED BY <3>1, <4>1 DEF n
      <3> QED BY <2>2, <3>1
    <2>5. \A i \in Metas : mem'[i].boot = 0
      BY <2>4 DEF Cache
    <2> QED BY <1>0, <2>1, <2>4, <2>5, SameHeadStep
  <1>12. CASE SyncMeta
    <2>1. /\ pc = "msync" /\ InCall /\ UNCHANGED <<mem, lost, owner, reused, gen>>
          /\ Return(call.flags) /\ call.txnid <= Head.txnid
      BY <1>12 DEF SyncMeta, InCall, Continues
    <2> QED BY <2>1, ReturnStep
  <1>13. CASE MetaSync
    <2>1. /\ UNCHANGED <<mem, lost, owner, reused, gen>> /\ promised' \in {promised, Head.txnid}
          /\ pc = "metasync" /\ pc' = call.then
      BY <1>13 DEF MetaSync
    <2>2. pc' \in {"idle", "txn", "down"} /\ (pc' = "txn" => Head.txnid < MaxTxn)
      BY <1>0, <2>1 DEF CallType, Room, InCall
    <2> QED BY <2>1, <2>2, QuietStep
  <1>14. CASE SystemCrash
    BY <1>14 DEF SystemCrash, Types
  <1> QED BY <1>1, <1>2, <1>3, <1>4, <1>5, <1>6, <1>7, <1>8, <1>9, <1>10, <1>11, <1>12, <1>13, <1>14 DEF Next
-----------------------------------------------------------------------------
\* Only a crash of the system starts it anew.
LEMMA BootGrows ==
    ASSUME Types, [Next]_vars
    PROVE  boot' = 0 => boot = 0
  <1>1. CASE SystemCrash
    BY <1>1 DEF SystemCrash, Types
  <1>2. CASE ~SystemCrash
    BY <1>2 DEF Next, vars, Writeback, Open, OpenDone, OpenPurge, Begin, Spill, Abort, MakeSteady, WipeSteady,
                Presync, PureCommit, CommitWrite, SyncData, EnvSync, SyncDataFails, PwriteMeta, InvalidateMeta,
                PublishMeta, SignMeta, SyncMeta, WriteMetaFails, Close, MetaSync, SetFlags, Kill, OwnerDies
  <1> QED BY <1>1, <1>2

\* A new file with three steady pages.
LEMMA MetaInit == Init => MetaInv
  <1> SUFFICES ASSUME Init PROVE MetaInv
    OBVIOUS
  <1>1. /\ 0 \in Metas /\ 1 \in Metas /\ 2 \in Metas
        /\ \A i \in Metas : i \in Nat /\ i <= 2
        /\ MaxTxn \in Nat /\ MaxTxn >= 3
    BY MetaAssumption DEF Metas
  <1>2. \A i \in Metas : mem[i] \in Page /\ mem[i].a = i + 1 /\ mem[i].b = i + 1
                         /\ mem[i].boot = 0 /\ mem[i].gen = 0
    <2>1. \A x \in Nat : LET p == [a |-> x, b |-> x, steady |-> TRUE, boot |-> 0, gen |-> 0]
                         IN  p \in Page /\ p.a = x /\ p.b = x /\ p.boot = 0 /\ p.gen = 0
      BY DEF Page
    <2>2. ASSUME NEW i \in Metas
          PROVE  mem[i] = [a |-> i + 1, b |-> i + 1, steady |-> TRUE, boot |-> 0, gen |-> 0]
      BY DEF Init
    <2>3. ASSUME NEW i \in Metas
          PROVE  mem[i] \in Page /\ mem[i].a = i + 1 /\ mem[i].b = i + 1
                 /\ mem[i].boot = 0 /\ mem[i].gen = 0
      <3>1. i + 1 \in Nat
        BY <1>1
      <3> DEFINE p == [a |-> i + 1, b |-> i + 1, steady |-> TRUE, boot |-> 0, gen |-> 0]
      <3>2. p \in Page /\ p.a = i + 1 /\ p.b = i + 1 /\ p.boot = 0 /\ p.gen = 0
        BY <2>1, <3>1
      <3>3. mem[i] = p
        BY <2>2
      <3> HIDE DEF p
      <3> QED BY <3>2, <3>3
    <2> QED BY <2>3
  <1>3. Types
    <2>1. mem \in [Metas -> Page] /\ disk = mem
      <3>1. mem = [i \in Metas |-> mem[i]]
        BY DEF Init
      <3> QED BY <1>2, <3>1 DEF Init
    <2>2. NoCall \in CallType /\ NoTxn \in TxnType
      BY NoneTyped
    <2>3. env \in [flags : SUBSET AnyFlag, dsync : BOOLEAN, metadsync : BOOLEAN]
      BY DEF Init
    <2>4. owner \in [1 .. MaxTxn -> Nat]
      BY DEF Init
    <2> QED BY <2>1, <2>2, <2>3, <2>4 DEF Init, Types
  <1>4. /\ \A i \in Metas : Tap[i].txnid = i + 1
        /\ Tap \in [Metas -> Snaps]
    BY <1>2, <1>3, TapFacts
  <1>5. Recent = 2 /\ Head.txnid = 3
    <2>1. recent(Tap) = 2
      BY <1>1, <1>4, NewestIsRecent
    <2> QED BY <1>1, <1>4, <2>1 DEF Recent, Head
  <1>6. Distinct
    BY <1>1, <1>4 DEF Distinct
  <1>7. HeadKept
    <2>1. \A x \in 1 .. MaxTxn : owner[x] = 0
      BY DEF Init
    <2>2. mem[2].gen = 0 /\ gen = 0 /\ reused = 0 /\ promised = 0
      BY <1>1, <1>2 DEF Init
    <2> QED BY <1>1, <1>5, <2>1, <2>2 DEF HeadKept, Owned
  <1>8. Cache
    <2>1. \A i \in Metas : mem[i].boot = 0
      BY <1>2
    <2> QED BY <1>6, <1>7, <2>1 DEF Cache, Init
  <1>9. Room /\ Continues
    BY DEF Init, Room, Continues, InCall
  <1> QED BY <1>3, <1>8, <1>9 DEF MetaInv, UpInv

\* The types and, while the system is up, the cache are kept.
LEMMA MetaNext == MetaInv /\ [Next]_vars => MetaInv'
  <1> SUFFICES ASSUME MetaInv, [Next]_vars PROVE MetaInv'
    OBVIOUS
  <1>1. Types /\ Types'
    BY TypesStep DEF MetaInv
  <1>2. boot' = 0 => boot = 0
    BY <1>1, BootGrows
  <1>3. UpInv'
    BY <1>1, <1>2, UpStep DEF MetaInv, UpInv
  <1> QED BY <1>1, <1>3 DEF MetaInv

\* Types, and what holds of the cache while the system is up, in every
\* reachable state of every plan.
THEOREM CacheInvariance == Spec => []MetaInv
  <1> QED BY MetaInit, MetaNext, PTL DEF Spec

\* What a process finds when it opens the file, or reads in it, is a whole
\* snapshot: no page of the head was overwritten by a transaction that it does
\* not descend from, none was reused (txn_basal_commit, gc_alloc_ex), whoever
\* was killed and whichever write failed since the system was started.
THEOREM HeadSafety == Spec => [](boot = 0 => HeadIntact)
  <1>1. MetaInv => (boot = 0 => HeadIntact)
    <2> SUFFICES ASSUME Types, Cache PROVE Intact(mem[Recent])
      BY DEF MetaInv, UpInv, HeadIntact
    <2>1. mem[Recent].a = Head.txnid /\ Head.txnid \in 1 .. MaxTxn
      BY HeadFacts, TapFacts DEF Cache, HeadKept
    <2>2. \A x \in 1 .. Head.txnid : owner[x] \notin lost
      BY DEF Cache
    <2> QED BY <2>1, <2>2 DEF Intact, Cache, HeadKept, Owned
  <1> QED BY <1>1, CacheInvariance, PTL

\* A commit a caller was told is durable stays while the system is up, though
\* writers are killed and the environment is opened again (dxb_setup).
THEOREM DurableSafety == Spec => [](boot = 0 => DurableSurvives)
  <1>1. MetaInv => (boot = 0 => DurableSurvives)
    BY DEF MetaInv, UpInv, DurableSurvives, Cache, HeadKept
  <1> QED BY <1>1, CacheInvariance, PTL

\* dxb_setup never refuses the file while the system is up.
THEOREM OpenSafety == Spec => [](boot = 0 => AlwaysOpens)
  <1>1. MetaInv => (boot = 0 => AlwaysOpens)
    BY DEF MetaInv, UpInv, AlwaysOpens, Cache
  <1> QED BY <1>1, CacheInvariance, PTL

\* No step makes the head older while the system is up: the commit protocol of
\* dxb_sync_locked, meta_wipe_steady and meta_override only ever put a newer
\* page before it, or sign the one there is.
THEOREM HeadAdvances == Spec => HeadMonotone
  <1>1. MetaInv /\ MetaInv' /\ [Next]_vars => [boot' = 0 => Head.txnid <= Head'.txnid]_mem
    <2> SUFFICES ASSUME MetaInv, MetaInv', [Next]_vars, boot' = 0
                 PROVE  Head.txnid <= Head'.txnid
      OBVIOUS
    <2>1. boot = 0 /\ Types /\ Types' /\ Cache /\ Continues
      BY BootGrows DEF MetaInv, UpInv
    <2> QED BY <2>1, UpStep DEF MetaInv, UpInv
  <1> QED BY <1>1, CacheInvariance, PTL DEF Spec, HeadMonotone
=============================================================================

---------------------------- MODULE TroikaProofs ----------------------------
(***************************************************************************)
(* The choice among the meta pages is right for every txnid, not only for  *)
(* the small ones MCAlgorithms walks through.                              *)
(***************************************************************************)
EXTENDS Troika, TLAPS

\* meta_choice_recent orders pages by txnid, then by sign.
LEMMA RecentRule ==
    ASSUME NEW a \in Snaps, NEW b \in Snaps
    PROVE  meta_choice_recent(a, b) <=>
             \/ a.txnid > b.txnid
             \/ a.txnid = b.txnid /\ a.steady /\ ~b.steady
BY DEF Snaps, meta_choice_recent, meta_cmp2recent, meta_cmp2int

\* meta_choice_steady orders pages by sign, then by txnid.
LEMMA SteadyRule ==
    ASSUME NEW a \in Snaps, NEW b \in Snaps
    PROVE  meta_choice_steady(a, b) <=>
             \/ a.steady /\ ~b.steady
             \/ (a.steady <=> b.steady) /\ a.txnid > b.txnid
BY DEF Snaps, meta_choice_steady, meta_cmp2steady, meta_cmp2int

\* The three pages of a tap.
LEMMA ThreeSnaps ==
    ASSUME NEW t \in [Metas -> Snaps]
    PROVE  /\ t[0] \in Snaps /\ t[1] \in Snaps /\ t[2] \in Snaps
           /\ \A i \in Metas : i = 0 \/ i = 1 \/ i = 2
BY DEF Metas

\* meta_tap: no page is newer than recent, for all txnids.
THEOREM NewestTheorem ==
    ASSUME NEW t \in [Metas -> Snaps]
    PROVE  RecentIsNewest(t)
<1>1. /\ recent(t) \in {0, 1, 2}
      /\ \A i \in {0, 1, 2} : ~meta_choice_recent(t[i], t[recent(t)])
  BY ThreeSnaps, RecentRule DEF recent, Best, Snaps
<1>2. recent_committed_txnid(t) = t[recent(t)].txnid
  BY ThreeSnaps, RecentRule DEF recent, Best, Snaps, recent_committed_txnid
<1> QED
  BY <1>1, <1>2, ThreeSnaps DEF RecentIsNewest

\* dxb_sync_locked's ENSURE on the tail (the page to overwrite is neither
\* recent nor prefer_steady) holds for all txnids.
THEOREM TailTheorem ==
    ASSUME NEW t \in [Metas -> Snaps]
    PROVE  TailIsFree(t)
<1>1. tail(t) \notin {recent(t), prefer_steady(t)}
  BY ThreeSnaps, RecentRule, SteadyRule DEF tail, recent, prefer_steady,
     Best, Snaps
<1>2. ASSUME NEW i \in Metas, t[i].steady
      PROVE  /\ t[prefer_steady(t)].steady
             /\ t[i].txnid <= t[prefer_steady(t)].txnid
  BY <1>2, ThreeSnaps, SteadyRule DEF prefer_steady, Best, Snaps
<1> QED
  BY <1>1, <1>2 DEF TailIsFree

\* A commit written to the tail becomes the head and moves the steady point
\* only when it is steady itself (dxb_sync_locked followed by meta_tap), for
\* all txnids.
THEOREM CommitTheorem ==
    ASSUME NEW t \in [Metas -> Snaps]
    PROVE  CommitMovesHead(t)
<1> SUFFICES ASSUME NEW steady \in BOOLEAN,
                    NEW new, NEW u,
                    new = [txnid |-> t[recent(t)].txnid + 1,
                           steady |-> steady],
                    u = [t EXCEPT ![tail(t)] = new]
             PROVE  /\ recent(u) = tail(t)
                    /\ prefer_steady(u) =
                         IF ~steady /\ t[prefer_steady(t)].steady
                         THEN prefer_steady(t) ELSE tail(t)
  BY DEF CommitMovesHead
<1>1. /\ recent(t) \in {0, 1, 2}
      /\ \A i \in {0, 1, 2} : t[i].txnid <= t[recent(t)].txnid
  BY ThreeSnaps, RecentRule DEF recent, Best, Snaps
<1>2. tail(t) \in {0, 1, 2}
  BY DEF tail
<1>3. /\ prefer_steady(t) \in {0, 1, 2}
      /\ \A i \in {0, 1, 2} : t[i].steady =>
            /\ t[prefer_steady(t)].steady
            /\ t[i].txnid <= t[prefer_steady(t)].txnid
  BY ThreeSnaps, SteadyRule DEF prefer_steady, Best, Snaps
<1>4. /\ new \in Snaps
      /\ \A i \in {0, 1, 2} : t[i].txnid < new.txnid
  BY <1>1, ThreeSnaps DEF Snaps
<1>5. /\ u \in [Metas -> Snaps]
      /\ u[tail(t)] = new
      /\ \A i \in {0, 1, 2} \ {tail(t)} : u[i] = t[i]
  BY <1>2, <1>4 DEF Metas
<1>6. recent(u) = tail(t)
  BY <1>2, <1>4, <1>5, ThreeSnaps, RecentRule DEF recent, Best, Snaps
<1>7. tail(t) # prefer_steady(t)
  BY TailTheorem DEF TailIsFree
<1>8. CASE steady \/ ~t[prefer_steady(t)].steady
  <2>1. prefer_steady(u) = tail(t)
    BY <1>2, <1>3, <1>4, <1>5, <1>8, ThreeSnaps, SteadyRule
       DEF prefer_steady, Best, Snaps
  <2> QED
    BY <2>1, <1>6, <1>8
<1>9. CASE ~steady /\ t[prefer_steady(t)].steady
  <2>1. prefer_steady(u) = prefer_steady(t)
    BY <1>2, <1>3, <1>4, <1>5, <1>7, <1>9, ThreeSnaps, SteadyRule
       DEF prefer_steady, Best, Snaps
  <2> QED
    BY <2>1, <1>6, <1>9
<1> QED
  BY <1>8, <1>9
=============================================================================

------------------------------- MODULE Troika -------------------------------
(***************************************************************************)
(* The choice among the three meta pages of a libmdbx data file.           *)
(*                                                                         *)
(* A meta page carries a txnid, written twice, and a signature that says   *)
(* whether everything it refers to was on disk when it was written         *)
(* ("steady") or not ("weak").  meta_tap looks at the three pages and      *)
(* tells which one is the newest commit (recent), which one a recovery     *)
(* would go back to (prefer_steady) and which one the next commit may      *)
(* overwrite (tail).  The code reads the answer from a table of 216 bytes  *)
(* indexed by the outcome of all comparisons.                              *)
(***************************************************************************)
EXTENDS Integers

Metas == 0 .. 2

\* meta_snap_t: what a tap sees of one meta page.
Snaps == {s \in [txnid : Nat, steady : BOOLEAN] : s.steady => s.txnid >= 1}

\* A page in the middle of an update has two different txnids: it counts
\* as empty.
meta_snap(m) ==
    [txnid  |-> IF m.a = m.b THEN m.a ELSE 0,
     steady |-> m.steady /\ m.a >= 1 /\ m.a = m.b]

meta_cmp2int(a, b) == IF a = b THEN 1 ELSE IF a > b THEN 2 ELSE 0

\* Is a the better choice of the two by txnid, then by sign?
meta_cmp2recent(c, aSteady, bSteady) ==
    c > 1 \/ (c = 1 /\ aSteady /\ ~bSteady)

\* Is a the better choice of the two by sign, then by txnid?
meta_cmp2steady(c, aSteady, bSteady) ==
    (aSteady /\ ~bSteady) \/ ((aSteady <=> bSteady) /\ c > 1)

meta_choice_recent(a, b) ==
    meta_cmp2recent(meta_cmp2int(a.txnid, b.txnid), a.steady, b.steady)

meta_choice_steady(a, b) ==
    meta_cmp2steady(meta_cmp2int(a.txnid, b.txnid), a.steady, b.steady)

Cmp(t, i, j) == meta_cmp2int(t[i].txnid, t[j].txnid)

\* The winner of two comparisons, as meta_cmp2pack nests them.
Best(t, better(_, _)) ==
    IF better(t[0], t[1]) THEN IF better(t[0], t[2]) THEN 0 ELSE 2
                          ELSE IF better(t[1], t[2]) THEN 1 ELSE 2

\* Mistake: the winner of the first comparison is not compared further.
recentFirst(t) ==
    IF meta_choice_recent(t[0], t[1]) THEN 0
    ELSE IF meta_choice_recent(t[1], t[2]) THEN 1 ELSE 2

recent(t) == Best(t, meta_choice_recent)

\* Mistake: the choice by sign looks at the txnid first.
prefer_steadyByTxnid(t) == Best(t, meta_choice_recent)

\* The page recovery would go back to.
prefer_steady(t) == Best(t, meta_choice_steady)

\* Mistake: the older of the two, whatever its sign.
tailOldest(t) ==
    LET worse(i, j) == IF meta_choice_recent(t[i], t[j]) THEN j ELSE i
    IN  IF recent(t) = 0 THEN worse(1, 2)
        ELSE IF recent(t) = 1 THEN worse(0, 2)
        ELSE worse(0, 1)

\* The worse of the two pages that are not recent.
tail(t) ==
    LET worse(i, j) == IF meta_choice_steady(t[i], t[j]) THEN j ELSE i
    IN  IF recent(t) = 0 THEN worse(1, 2)
        ELSE IF recent(t) = 1 THEN worse(0, 2)
        ELSE worse(0, 1)

Differ(t, i, j) == Cmp(t, i, j) # 1 \/ ~(t[i].steady <=> t[j].steady)

valid(t) == Differ(t, 0, 1) \/ Differ(t, 0, 2) \/ Differ(t, 1, 2)

strict(t) == Differ(t, 0, 1) /\ Differ(t, 0, 2) /\ Differ(t, 1, 2)

bit(p) == IF p THEN 1 ELSE 0

meta_cmp2pack(t) ==
    tail(t) + 4 * recent(t) + 16 * prefer_steady(t)
            + 64 * bit(strict(t)) + 128 * bit(valid(t))

\* Mistake: the weights of the comparisons swapped.
fsmSwapped(t) ==
    bit(t[0].steady) + 2 * bit(t[1].steady) + 4 * bit(t[2].steady)
        + 8 * Cmp(t, 0, 1) + 72 * Cmp(t, 0, 2) + 24 * Cmp(t, 1, 2)

\* troika_t.fsm as meta_tap computes it.
fsm(t) ==
    bit(t[0].steady) + 2 * bit(t[1].steady) + 4 * bit(t[2].steady)
        + 8 * Cmp(t, 0, 1) + 24 * Cmp(t, 0, 2) + 72 * Cmp(t, 1, 2)

troika_fsm_map == <<
    232, 201, 216, 216, 232, 233, 232, 232, 168, 201, 216, 152, 168, 233,
    232, 168, 233, 201, 216, 201, 233, 233, 232, 233, 168, 201, 152, 216,
    232, 169, 232, 168, 168, 193, 152, 152, 168, 169, 232, 168, 169, 193,
    152, 194, 233, 169, 232, 169, 232, 201, 216, 216, 232, 201, 232, 232,
    168, 193, 216, 152, 168, 193, 232, 168, 193, 193, 210, 194, 225, 193,
    225, 193, 168, 137, 212, 214, 232, 233, 168, 168, 168, 137, 212, 150,
    168, 233, 168, 168, 169, 137, 216, 201, 233, 233, 168, 169, 168, 137,
    148, 214, 232, 169, 168, 168, 40, 129, 148, 150, 168, 169, 168, 40,
    169, 129, 152, 194, 233, 169, 168, 169, 168, 137, 214, 214, 232, 201,
    168, 168, 168, 129, 214, 150, 168, 193, 168, 168, 129, 129, 210, 194,
    225, 193, 161, 129, 212, 198, 212, 214, 228, 228, 212, 212, 148, 201,
    212, 150, 164, 233, 212, 148, 233, 201, 216, 201, 233, 233, 216, 233,
    148, 198, 148, 214, 228, 164, 212, 148, 148, 194, 148, 150, 164, 169,
    212, 148, 169, 194, 152, 194, 233, 169, 216, 169, 214, 198, 214, 214,
    228, 198, 212, 214, 150, 194, 214, 150, 164, 193, 212, 150, 194, 194,
    210, 194, 225, 193, 210, 194>>

\* meta_tap and meta_troika_unpack: the answer read from the table.
meta_tap(t) ==
    LET packed == troika_fsm_map[fsm(t) + 1]
    IN  [recent        |-> (packed \div 4) % 4,
         prefer_steady |-> (packed \div 16) % 4,
         tail          |-> packed % 4]

recent_committed_txnid(t) ==
    IF t[0].txnid > t[1].txnid
    THEN IF t[0].txnid > t[2].txnid THEN t[0].txnid ELSE t[2].txnid
    ELSE IF t[1].txnid > t[2].txnid THEN t[1].txnid ELSE t[2].txnid

meta_eq(t, i, j) == ~Differ(t, i, j) /\ t[i].txnid # 0

\* meta_eq_mask # 0: two pages claim to be the same commit.
Clashed(t) == meta_eq(t, 0, 1) \/ meta_eq(t, 1, 2) \/ meta_eq(t, 2, 0)

-----------------------------------------------------------------------------
(* What the choice must satisfy. *)

\* No page is a newer commit than recent, and no page of the same txnid has
\* a better sign; recent_committed_txnid, which makes its own comparisons,
\* gives the same txnid.
RecentIsNewest(t) ==
    /\ \A i \in Metas : ~meta_choice_recent(t[i], t[recent(t)])
    /\ recent_committed_txnid(t) = t[recent(t)].txnid

\* The page a commit may overwrite is neither the newest commit nor the one
\* recovery would go back to, and that one is steady if any page is and then
\* no steady page is newer.
TailIsFree(t) ==
    /\ tail(t) \notin {recent(t), prefer_steady(t)}
    /\ \A i \in Metas : t[i].steady =>
           /\ t[prefer_steady(t)].steady
           /\ t[i].txnid <= t[prefer_steady(t)].txnid

\* A commit with a newer txnid that is written to the tail becomes recent;
\* it replaces prefer_steady if it is steady itself, and else leaves a
\* steady page where it is.
CommitMovesHead(t) ==
    \A steady \in BOOLEAN :
        LET new == [txnid |-> t[recent(t)].txnid + 1, steady |-> steady]
            u   == [t EXCEPT ![tail(t)] = new]
        IN  /\ recent(u) = tail(t)
            /\ prefer_steady(u) =
                 IF ~steady /\ t[prefer_steady(t)].steady
                 THEN prefer_steady(t) ELSE tail(t)

\* The table agrees with the comparisons it was computed from, at every
\* index a tap can produce.
TableAgrees(t) ==
    /\ troika_fsm_map[fsm(t) + 1] = meta_cmp2pack(t)
    /\ meta_tap(t) = [recent |-> recent(t), prefer_steady |-> prefer_steady(t),
                      tail |-> tail(t)]
=============================================================================

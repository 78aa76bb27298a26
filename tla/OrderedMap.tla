----------------------------- MODULE OrderedMap -----------------------------
(***************************************************************************)
(* What the cursors of a table promise to the application: a sorted map    *)
(* and, for every cursor, a place in it.  Nothing is said of pages.        *)
(*                                                                         *)
(* A place is <<"on", k>> (at row k), <<"last", k>> (at row k, where the   *)
(* cursor was told that this is the end), <<"gap", k>> (the row of the     *)
(* cursor is deleted, k is the row behind it), End (past the rows), None   *)
(* (no place) or Fresh (never used).                                       *)
(***************************************************************************)
EXTENDS Integers, FiniteSets

CONSTANTS Keys, Values, Cursors, Flags

VARIABLES map,     \* the rows: a function from some of the keys to values
          pos,     \* the place of every cursor
          call,    \* the last call of the application
          ret      \* what it returned: a code and, when it found a row, the key

vars == <<map, pos, call, ret>>

End   == <<"end", 0>>
None  == <<"none", 0>>
Fresh == <<"fresh", 0>>
Lost  == {End, None, Fresh}

Places == Lost \cup ({"on", "last", "gap"} \X Keys)

Rows     == DOMAIN map
Least(S) == CHOOSE k \in S : \A j \in S : k <= j
Most(S)  == CHOOSE k \in S : \A j \in S : k >= j
Above(k) == {j \in Rows : j > k}
Below(k) == {j \in Rows : j < k}

Ret(rc, key) == ret' = [rc |-> rc, key |-> key]

-----------------------------------------------------------------------------
(* The calls that change the rows. *)

(* A cursor without a place may lose what is left of it. *)
Drift(p, q) == q = p \/ (p \in Lost /\ q \in Lost)

(* A row appears or changes; no other cursor moves. *)
Write(k, v, me) ==
  /\ map' = [j \in Rows \cup {k} |-> IF j = k THEN v ELSE map[j]]
  /\ \A c \in Cursors \ me : Drift(pos[c], pos'[c])

(* A row disappears; the cursors that stood on it stand before the next    *)
(* row, every other cursor keeps its row.                                  *)
Behind(k) == IF Above(k) = {} THEN Lost ELSE {<<"gap", Least(Above(k))>>}

Erase(k) ==
  /\ map' = [j \in Rows \ {k} |-> map[j]]
  /\ \A c \in Cursors : IF pos[c][2] = k THEN pos'[c] \in Behind(k)
                        ELSE Drift(pos[c], pos'[c])

Keep(me) == map' = map /\ \A c \in Cursors \ me : pos'[c] = pos[c]

(* What a put answers, by its flag and by the rows. *)
PutCode(k, flag) ==
  CASE flag = "NOOVERWRITE" /\ k \in Rows -> "KEYEXIST"
    [] flag = "APPEND" /\ Above(k) # {}   -> "EKEYMISMATCH"
    [] flag = "CURRENT" /\ k \notin Rows  -> "NOTFOUND"
    [] OTHER                              -> "OK"

Put(k, v, flag) ==
  /\ call' = <<"put", k, v, flag>>
  /\ pos' \in [Cursors -> Places]
  /\ Ret(PutCode(k, flag), 0)
  /\ IF PutCode(k, flag) = "OK" THEN Write(k, v, {}) ELSE Keep({})

Del(k) ==
  /\ call' = <<"del", k>>
  /\ pos' \in [Cursors -> Places]
  /\ IF k \in Rows THEN Erase(k) /\ Ret("OK", 0) ELSE Keep({}) /\ Ret("NOTFOUND", 0)

(* mdbx_replace tells the value the row had; without a new one it deletes. *)
Gone == 0

Replace(k, v, flag) ==
  /\ call' = <<"replace", k, v, flag>>
  /\ pos' \in [Cursors -> Places]
  /\ CASE k \notin Rows /\ flag = "CURRENT"   -> Keep({}) /\ Ret("NOTFOUND", 0)
       [] k \notin Rows /\ flag # "CURRENT"   -> Write(k, v, {}) /\ Ret("OK", 0)
       [] k \in Rows /\ flag = "NOOVERWRITE"  -> Keep({}) /\ Ret("KEYEXIST", 0)
       [] k \in Rows /\ flag # "NOOVERWRITE"  ->
            (IF v = Gone THEN Erase(k) ELSE Write(k, v, {})) /\ Ret("OK", map[k])

(* A put through a cursor leaves the cursor on the row.  MDBX_CURRENT is   *)
(* about the row under the cursor, whose key must be given again; past the *)
(* rows it may still reach the one the cursor came from.                   *)
CursorCodes(c, k, flag) ==
  IF flag # "CURRENT" THEN {PutCode(k, flag)}
  ELSE IF pos[c] \notin Lost THEN {IF pos[c][2] = k THEN "OK" ELSE "EKEYMISMATCH"}
  ELSE {"ENODATA", "NOTFOUND", "EKEYMISMATCH", "STRAY"}
       \cup (IF pos[c] = End /\ k \in Rows THEN {"OK"} ELSE {})

CursorPut(c, k, v, flag) ==
  LET at == {<<"on", k>>, <<"last", k>>} \cup (IF flag = "CURRENT" THEN {pos[c]} ELSE {})
  IN  /\ call' = <<"cursor_put", c, k, v, flag>>
      /\ pos' \in [Cursors -> Places]
      /\ \E rc \in CursorCodes(c, k, flag) :
           /\ Ret(rc, 0)
           /\ IF rc = "OK" THEN Write(k, v, {c}) ELSE Keep({c})
           /\ rc \in {"OK", "KEYEXIST"} => pos'[c] \in at

CursorDel(c) ==
  /\ call' = <<"cursor_del", c>>
  /\ pos' \in [Cursors -> Places]
  /\ IF pos[c] \in Lost
     THEN Keep({}) /\ \E rc \in {"ENODATA", "STRAY"} : Ret(rc, 0)
     ELSE Erase(pos[c][2]) /\ Ret("OK", 0)

-----------------------------------------------------------------------------
(* The calls that delete a range of rows. *)

(* The rows of S disappear.  A cursor on one of them stands before the     *)
(* next row that is left, any other cursor keeps its row; so do the        *)
(* cursors of the call, but what they were told of the row they forget.    *)
Rest(k, S) == {j \in Rows \ S : j >= k}

Without(S, me) ==
  /\ map' = [j \in Rows \ S |-> map[j]]
  /\ pos' \in [Cursors -> Places]
  /\ \A c \in Cursors \ me :
       IF pos[c][2] \notin S THEN Drift(pos[c], pos'[c])
       ELSE IF Rest(pos[c][2], S) = {} THEN pos'[c] \in Lost
       ELSE pos'[c] = <<"gap", Least(Rest(pos[c][2], S))>>

EraseAll(S, me) ==
  /\ Without(S, me)
  /\ \A c \in Cursors \cap me :
       pos'[c] \notin Lost => pos[c] \notin Lost /\ pos'[c][2] = Least(Rest(pos[c][2], S))
  /\ Ret("OK", Cardinality(S))

Between(lo, hi) == {j \in Rows : lo <= j /\ j <= hi}

(* A cursor in a gap stands for the row behind it.  As the end of a range  *)
(* it may spare that row although it was to be included.  As the begin of  *)
(* a range nothing is promised but that no row outside of it goes.         *)
InGap(c) == c # 0 /\ pos[c][1] = "gap"

UpTo(e, hi, inc) ==
  IF ~inc THEN {hi - 1} ELSE IF InGap(e) THEN {hi - 1, hi} ELSE {hi}

Cuts(b, lo, hi) == IF InGap(b) THEN SUBSET Between(lo, hi) ELSE {Between(lo, hi)}

(* With a cursor that has no place nobody knows where the range ends; it   *)
(* is one range all the same, and the call may fail when part of it is     *)
(* gone.                                                                   *)
EraseSome(b, me) ==
  \/ /\ Without({}, me)
     /\ \E rc \in {"OK", "ENODATA", "STRAY"} : Ret(rc, 0)
  \/ \E lo, hi \in Rows : \E S \in Cuts(b, lo, hi) :
       /\ Without(S, me)
       /\ Ret("OK", Cardinality(S)) \/ Ret("ENODATA", 0)

DeleteRange(b, e, inc) ==
  LET lo == IF b = 0 THEN Least(Rows) ELSE pos[b][2]
      hi == IF e = 0 THEN Most(Rows) ELSE pos[e][2]
  IN  /\ call' = <<"delete_range", b, e, inc>>
      /\ IF \E c \in {b, e} \ {0} : pos[c] \in Lost THEN EraseSome(b, {b, e})
         ELSE IF lo > hi THEN Without({}, {b, e}) /\ Ret("ENODATA", 0)
         ELSE \E to \in UpTo(e, hi, inc) : \E S \in Cuts(b, lo, to) : EraseAll(S, {b, e})

(* mdbx_cursor_bunch_delete: the rows on one side of the cursor. *)
Bunch(c, action) ==
  LET k == pos[c][2]
      beyond == IF InGap(c) THEN k ELSE k + 1
  IN  CASE action = "BEFORE_EXCLUDING" -> {Between(0, k - 1)}
        [] action = "BEFORE_INCLUDING" -> {Between(0, to) : to \in UpTo(c, k, TRUE)}
        [] action = "AFTER_INCLUDING" -> Cuts(c, k, Most(Rows))
        [] action = "AFTER_EXCLUDING" -> {IF pos[c][1] = "last" THEN {} ELSE {j \in Rows : j >= beyond}}
        [] action \in {"CURRENT_MULTIVAL_BEFORE_EXCLUDING", "CURRENT_MULTIVAL_AFTER_EXCLUDING"} -> {{}}
        [] action \in {"CURRENT_VALUE", "CURRENT_MULTIVAL_ALL", "CURRENT_MULTIVAL_BEFORE_INCLUDING",
                       "CURRENT_MULTIVAL_AFTER_INCLUDING"} -> {{k}}
        [] action = "WHOLE" -> {Rows}

Actions == {"CURRENT_VALUE", "CURRENT_MULTIVAL_ALL", "CURRENT_MULTIVAL_BEFORE_EXCLUDING",
            "CURRENT_MULTIVAL_BEFORE_INCLUDING", "CURRENT_MULTIVAL_AFTER_EXCLUDING",
            "CURRENT_MULTIVAL_AFTER_INCLUDING", "BEFORE_EXCLUDING", "BEFORE_INCLUDING",
            "AFTER_EXCLUDING", "AFTER_INCLUDING", "WHOLE"}

BunchDelete(c, action) ==
  /\ call' = <<"bunch_delete", c, action>>
  /\ IF pos[c] \in Lost /\ action # "WHOLE" THEN EraseSome(0, {c})
     ELSE \E S \in Bunch(c, action) : EraseAll(S, {c})

-----------------------------------------------------------------------------
(* The calls that only move a cursor. *)

At(c, p)        == map' = map /\ pos' = [pos EXCEPT ![c] = p]
Found(c, p)     == At(c, p) /\ Ret("OK", p[2])
Missed(c, p)    == At(c, p) /\ Ret("NOTFOUND", 0)
Nowhere(c, rcs) == \E p \in Lost, rc \in rcs : At(c, p) /\ Ret(rc, 0)

FoundLeast(c, S) ==
  IF S = {} THEN Nowhere(c, {"NOTFOUND"}) ELSE Found(c, <<"on", Least(S)>>)

FoundLast(c) ==
  IF Rows = {} THEN Nowhere(c, {"NOTFOUND"}) ELSE Found(c, <<"last", Most(Rows)>>)

(* Without a place there is no next row.  A cursor past the rows may come  *)
(* back to any of them, because rows may have been written behind it.      *)
Astray(c) ==
  \/ Nowhere(c, {"NOTFOUND", "ENODATA", "STRAY"})
  \/ /\ pos[c] = End
     /\ \E k \in Rows : \/ Found(c, <<"on", k>>)
                        \/ Missed(c, <<"last", k>>)
                        \/ At(c, End) /\ Ret("OK", k)

First(c) == call' = <<"FIRST", c>> /\ FoundLeast(c, Rows)

Last(c)  == call' = <<"LAST", c>> /\ FoundLast(c)

NextRow(c) ==
  LET k == pos[c][2]
  IN  /\ call' = <<"NEXT", c>>
      /\ CASE pos[c] = Fresh         -> FoundLeast(c, Rows)
           [] pos[c] \in {End, None} -> Astray(c)
           [] pos[c][1] = "gap"      -> Found(c, <<"on", k>>)
           [] pos[c][1] = "last"     -> Missed(c, pos[c])
           [] OTHER -> IF Above(k) = {} THEN Missed(c, <<"last", k>>)
                       ELSE Found(c, <<"on", Least(Above(k))>>)

PrevRow(c) ==
  LET k == pos[c][2]
  IN  /\ call' = <<"PREV", c>>
      /\ CASE pos[c] = Fresh         -> FoundLast(c)
           [] pos[c] \in {End, None} -> Astray(c)
           [] OTHER -> IF Below(k) = {} THEN Missed(c, pos[c])
                       ELSE Found(c, <<"on", Most(Below(k))>>)

Current(c) ==
  LET k == pos[c][2]
  IN  /\ call' = <<"GET_CURRENT", c>>
      /\ CASE pos[c] \in Lost   -> Astray(c)
           [] pos[c][1] = "gap" -> Found(c, <<"on", k>>)
           [] OTHER             -> Found(c, pos[c])

Set(c, k)     == call' = <<"SET", c, k>> /\ FoundLeast(c, {k} \cap Rows)
Range(c, k)   == call' = <<"SET_RANGE", c, k>> /\ FoundLeast(c, Above(k - 1))
Greater(c, k) == call' = <<"GREATER_THAN", c, k>> /\ FoundLeast(c, Above(k))

(* Without a lesser row the cursor stays where the search has ended. *)
Lesser(c, k) ==
  /\ call' = <<"LESSER_THAN", c, k>>
  /\ IF Below(k) # {} THEN Found(c, <<"on", Most(Below(k))>>)
     ELSE IF Rows # {} THEN Missed(c, <<"on", Least(Rows)>>)
     ELSE Nowhere(c, {"NOTFOUND", "ENODATA"})

(* So many rows on, or back; a row that is deleted still counts for its    *)
(* place.  On the way back the cursor stops at the first row.              *)
Scroll(c, amount) ==
  LET k  == pos[c][2]
      to == {j \in Rows : Cardinality(Below(j)) = Cardinality(Below(k)) + amount}
  IN  /\ call' = <<"scroll", c, amount>>
      /\ IF pos[c] \in Lost
         THEN \/ Nowhere(c, {"NOTFOUND", "ENODATA"})
              \/ \E j \in Rows : At(c, <<"on", j>>) /\ \E rc \in {"OK", "NOTFOUND"} : Ret(rc, 0)
         ELSE IF to # {} THEN At(c, <<"on", Least(to)>>) /\ Ret("OK", 0)
         ELSE IF amount > 0 THEN At(c, End) /\ Ret("NOTFOUND", 0)
         ELSE Missed(c, <<pos[c][1], Least(Rows)>>)

-----------------------------------------------------------------------------
(* The next transaction: the rows stay, the cursors are renewed. *)
Renew ==
  /\ call' = <<"commit">>
  /\ map' = map
  /\ pos' = [c \in Cursors |-> Fresh]
  /\ Ret("OK", 0)

Init ==
  /\ \E S \in SUBSET Keys : map \in [S -> Values]
  /\ pos = [c \in Cursors |-> Fresh]
  /\ call = <<"commit">>
  /\ ret = [rc |-> "OK", key |-> 0]

Next ==
  \/ Renew
  \/ \E k \in Keys, v \in Values, flag \in Flags :
       Put(k, v, flag) \/ Replace(k, v, flag) \/ \E c \in Cursors : CursorPut(c, k, v, flag)
  \/ \E k \in Keys : Del(k) \/ Replace(k, Gone, "CURRENT")
  \/ \E c \in Cursors, k \in Keys :
       Set(c, k) \/ Range(c, k) \/ Greater(c, k) \/ Lesser(c, k)
  \/ \E c \in Cursors :
       \/ CursorDel(c) \/ First(c) \/ Last(c)
       \/ NextRow(c) \/ PrevRow(c) \/ Current(c)
       \/ \E action \in Actions : BunchDelete(c, action)
       \/ \E amount \in (-Cardinality(Keys))..Cardinality(Keys) : Scroll(c, amount)
  \/ \E b, e \in Cursors \cup {0}, inc \in BOOLEAN : DeleteRange(b, e, inc)

Spec == Init /\ [][Next]_vars

=============================================================================

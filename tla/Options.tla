------------------------------ MODULE Options ------------------------------
(***************************************************************************)
(* The options of an environment: what mdbx_env_set_option accepts, what   *)
(* it derives from a value, what mdbx_env_get_option gives back, and how   *)
(* the limit of dirty pages follows the size of the file.                  *)
(*                                                                         *)
(* b holds the limits of a build, which TLC gets scaled down; e is the     *)
(* environment: its page size ps and that of the system, its size now and  *)
(* upper, whether it is active, read-only, mapped and has a lock area, who *)
(* runs a write transaction ("none", "own" or "other" thread) and the part *)
(* of the memory the limit is derived from; o holds the options.           *)
(***************************************************************************)
EXTENDS Integers

Standard == -1   \* UINT64_MAX

NUM_METAS_   == 3
PAGEHDRSZ_   == 20
NODESIZE_    == 8

Lesser(x, y)  == IF x < y THEN x ELSE y
Greater(x, y) == IF x > y THEN x ELSE y
CeilTo(x, unit) == ((x + unit - 1) \div unit) * unit

lock_needed(e) == e.active /\ ~e.rdonly /\ e.txn # "own"

-----------------------------------------------------------------------------
(* Defaults. *)

(* 16.16 fixed-point seconds and nanoseconds. *)
osal_16dot16_to_monotime(s) ==
  LET ret == (1953125 * s + 64) \div 128
  IN  IF ret = 0 /\ s # 0 THEN 1 ELSE ret

osal_monotime_to_16dot16(t) == (t * 128) \div 1953125

bytes2pgno(e, bytes) == bytes \div e.ps
bytes_ceil2os_pgno(e, bytes) == bytes2pgno(e, CeilTo(bytes, Greater(e.ps, e.os)))

env_max_pgno(b, e) == bytes2pgno(e, IF e.upper > 0 THEN e.upper ELSE b.mmap_limit)

default_dp_limit(b, e) ==
  LET pages == IF e.ps > e.os THEN e.ram \div (e.ps \div e.os) ELSE e.ram * (e.os \div e.ps)
      most  == env_max_pgno(b, e) - NUM_METAS_
  IN  Greater(Lesser(Lesser(pages, b.PAGELIST_LIMIT), most), b.least_dp)

(* pnl_bytes2size(pnl_size2bytes(size)) *)
WholePnl(b, size) == CeilTo(b.overhead + size + 3, b.granulate) - b.overhead - 3

(* The time limit is in nanoseconds, the time frame in 1/65536 seconds. *)
default_rp_augment_limit(b, e, gc_time_limit) ==
  LET remain    == Greater(0, b.timeframe - gc_time_limit)
      large1page == (e.ps - PAGEHDRSZ_) \div 4 - 1
      minimum   == Greater(large1page * 2, b.PNL_INITIAL)
      one_third == (e.now \div 3) \div e.ps
  IN  WholePnl(b, IF one_third > minimum
                  THEN minimum + ((one_third - minimum) \div b.timeframe) * remain ELSE minimum)

default_prefault_write(e) == e.writemap /\ ~e.rdonly

(* The options whose default does not depend on the environment. *)
Defaults(b) ==
  [sync_bytes |-> b.MAX_IO_BYTES, sync_period |-> b.period, max_db |-> 42,
   max_readers |-> b.READERS_LIMIT, dp_reserve_limit |-> b.PNL_INITIAL, gc_time_limit |-> 0,
   txn_dp_initial |-> b.PNL_INITIAL,
   spill_max_denominator |-> 8, spill_min_denominator |-> 8,
   spill_parent4child_denominator |-> 0, loose_limit |-> 64, merge_threshold |-> 65536 \div 3,
   writethrough_threshold |-> 2, prefer_waf_insteadof_balance |-> 1,
   subpage_limit |-> 65535, subpage_room_threshold |-> 0, subpage_reserve_prereq |-> 27525,
   subpage_reserve_limit |-> 2753, split_reserve |-> 0, presync_threshold |-> b.presync]

-----------------------------------------------------------------------------
(* What follows from the options. *)

page_space(e)   == e.ps - PAGEHDRSZ_
leaf_nodemax(e) == ((page_space(e) \div 2) \div 2) * 2 - 2

Part(whole, dot16) == (whole * dot16 + 32767) \div 65536

(* recalculate_merge_thresholds *)
merge_threshold(e, o) == page_space(e) - (page_space(e) * o.merge_threshold) \div 65536

(* recalculate_subpage_thresholds *)
Thresholds(e, o) ==
  LET limit   == Part(leaf_nodemax(e) - NODESIZE_, o.subpage_limit)
      reserve == Part(limit, o.subpage_reserve_limit)
      room    == Part(leaf_nodemax(e), o.subpage_room_threshold)
      prereq  == Part(leaf_nodemax(e), o.subpage_reserve_prereq)
  IN  [limit |-> limit, reserve |-> reserve, room |-> room,
       prereq |-> IF room + reserve > page_space(e) THEN page_space(e)
                  ELSE Greater(prereq, room + reserve)]

(* env_options_adjust_dp_limit *)
env_options_adjust_dp_limit(b, e, o) ==
  LET most  == env_max_pgno(b, e) - NUM_METAS_
      limit == IF "dp_limit" \notin o.non_auto THEN default_dp_limit(b, e)
               ELSE Greater(Lesser(o.txn_dp_limit, most), b.least_dp)
      over  == o.txn_dp_initial > Greater(limit, b.PNL_INITIAL)
  IN  [o EXCEPT !.txn_dp_limit = limit,
                !.txn_dp_initial = IF over THEN limit ELSE @,
                !.need_adjust = FALSE]

(* env_options_adjust_defaults, when the file was opened or resized: the    *)
(* limit of a transaction that runs is left alone.                         *)
env_options_adjust_defaults(b, e, o) ==
  LET a == [o EXCEPT !.rp_augment_limit =
                       IF "rp_augment_limit" \in o.non_auto THEN @
                       ELSE default_rp_augment_limit(b, e, o.gc_time_limit),
                     !.prefault_write_enable =
                       IF "prefault_write" \in o.non_auto THEN @
                       ELSE IF default_prefault_write(e) THEN 1 ELSE 0,
                     !.need_adjust = TRUE]
  IN  IF e.txn = "none" THEN env_options_adjust_dp_limit(b, e, a) ELSE a

(* env_options_init, lck_options_init_defaults *)
env_options_init(b, e) ==
  LET d == Defaults(b)
  IN  [k \in DOMAIN d \cup {"rp_augment_limit", "txn_dp_limit", "prefault_write_enable",
                            "shadow_reserve_len", "non_auto", "need_adjust"} |->
         CASE k = "rp_augment_limit" -> WholePnl(b, b.PNL_INITIAL)
           [] k = "txn_dp_limit" -> b.PNL_INITIAL * 42
           [] k = "presync_threshold" -> bytes_ceil2os_pgno(e, b.presync)
           [] k \in {"prefault_write_enable", "sync_bytes", "sync_period", "shadow_reserve_len"} -> 0
           [] k = "non_auto" -> {}
           [] k = "need_adjust" -> FALSE
           [] OTHER -> d[k]]

-----------------------------------------------------------------------------
(* mdbx_env_set_option. *)

Bounds(b) ==
  [sync_bytes |-> <<0, b.SIZE_MAX>>, sync_period |-> <<0, b.UINT32_MAX>>,
   max_db |-> <<0, b.MAX_DBI>>, max_readers |-> <<1, b.READERS_LIMIT>>,
   dp_reserve_limit |-> <<0, b.INT_MAX>>, rp_augment_limit |-> <<0, b.PAGELIST_LIMIT>>,
   gc_time_limit |-> <<0, b.UINT32_MAX>>,
   txn_dp_limit |-> <<b.least_dp, b.PAGELIST_LIMIT>>,
   txn_dp_initial |-> <<b.least_dp, b.PAGELIST_LIMIT>>,
   spill_max_denominator |-> <<0, 255>>, spill_min_denominator |-> <<0, 255>>,
   spill_parent4child_denominator |-> <<0, 255>>, loose_limit |-> <<0, 255>>,
   merge_threshold |-> <<8192, 32768>>, writethrough_threshold |-> <<0, b.UINT32_MAX>>,
   prefault_write_enable |-> <<0, 1>>, prefer_waf_insteadof_balance |-> <<0, 1>>,
   subpage_limit |-> <<0, 65535>>, subpage_room_threshold |-> <<0, 65535>>,
   subpage_reserve_prereq |-> <<0, 65535>>, subpage_reserve_limit |-> <<0, 65535>>,
   split_reserve |-> <<0, 32768>>, presync_threshold |-> <<0, b.presync_max>>]

AllOptions == DOMAIN Bounds([SIZE_MAX |-> 0, UINT32_MAX |-> 0, MAX_DBI |-> 0, READERS_LIMIT |-> 0,
                             INT_MAX |-> 0, PAGELIST_LIMIT |-> 0, least_dp |-> 0, presync_max |-> 0])

Inside(b, option, v) ==
  v = Standard \/ (Bounds(b)[option][1] <= v /\ v <= Bounds(b)[option][2])

Given(b, option, v) == IF v = Standard THEN Defaults(b)[option] ELSE v

(* The answer of a call; sync: the data may be written out because of it. *)
Answer(rc, o, sync) == [rc |-> rc, o |-> o, sync |-> sync]

(* MDBX_opt_sync_bytes, MDBX_opt_sync_period: they live in the lock area,   *)
(* the first one as a number of pages of 32 bits.                          *)
Threshold(b, e, option, v) ==
  IF option = "sync_period" THEN osal_16dot16_to_monotime(v)
  ELSE bytes2pgno(e, v + e.ps - 1) % (b.UINT32_MAX + 1)

SetSync(b, e, o, option, v) ==
  LET new == Threshold(b, e, option, Given(b, option, v))
  IN  IF e.rdonly THEN Answer("EACCESS", o, FALSE)
      ELSE IF ~e.active THEN Answer("EPERM", o, FALSE)
      ELSE IF ~Inside(b, option, v) THEN Answer("EINVAL", o, FALSE)
      ELSE Answer("SUCCESS", [o EXCEPT ![option] = new],
                  new # o[option] /\ new # 0 /\ lock_needed(e))

(* MDBX_opt_max_db, MDBX_opt_max_readers *)
SetTableSize(b, e, o, option, v) ==
  IF ~Inside(b, option, v) THEN Answer("EINVAL", o, FALSE)
  ELSE IF e.mapped THEN Answer("EPERM", o, FALSE)
  ELSE Answer("SUCCESS", [o EXCEPT ![option] = Given(b, option, v)], FALSE)

(* MDBX_opt_rp_augment_limit *)
SetAugment(b, e, o, v) ==
  IF v = Standard
  THEN Answer("SUCCESS", [o EXCEPT !.non_auto = @ \ {"rp_augment_limit"},
                                   !.rp_augment_limit = default_rp_augment_limit(b, e, o.gc_time_limit)],
              FALSE)
  ELSE IF ~Inside(b, "rp_augment_limit", v) THEN Answer("EINVAL", o, FALSE)
  ELSE Answer("SUCCESS", [o EXCEPT !.non_auto = @ \cup {"rp_augment_limit"},
                                   !.rp_augment_limit = v], FALSE)

(* MDBX_opt_gc_time_limit *)
SetGcTime(b, e, o, v) ==
  LET new == osal_16dot16_to_monotime(Given(b, "gc_time_limit", v))
  IN  IF ~Inside(b, "gc_time_limit", v) THEN Answer("EINVAL", o, FALSE)
      ELSE IF e.rdonly THEN Answer("EACCESS", o, FALSE)
      ELSE IF new = o.gc_time_limit THEN Answer("SUCCESS", o, FALSE)
      ELSE IF e.txn = "other" /\ lock_needed(e) THEN Answer("EPERM", o, FALSE)
      ELSE Answer("SUCCESS",
                  [o EXCEPT !.gc_time_limit = new,
                            !.rp_augment_limit = IF "rp_augment_limit" \in o.non_auto THEN @
                                                 ELSE default_rp_augment_limit(b, e, new)],
                  FALSE)

(* MDBX_opt_txn_dp_limit, MDBX_opt_txn_dp_initial: under the lock of the    *)
(* writer, which means that the transaction of another thread is over.     *)
NewInitial(b, e, v) ==
  IF v = Standard THEN b.PNL_INITIAL
  ELSE IF v > env_max_pgno(b, e) THEN Greater(env_max_pgno(b, e), b.least_dp) ELSE v

NewLimit(b, e, o, v) ==
  env_options_adjust_dp_limit(b, e,
    IF v = Standard THEN [o EXCEPT !.non_auto = @ \ {"dp_limit"}]
    ELSE [o EXCEPT !.non_auto = @ \cup {"dp_limit"}, !.txn_dp_limit = v])

\* Mutant: the limit may be changed while a transaction counts against it.
SetDirtyAnytime(b, e, o, option, v) ==
  IF ~Inside(b, option, v) THEN Answer("EINVAL", o, FALSE)
  ELSE IF e.rdonly THEN Answer("EACCESS", o, FALSE)
  ELSE Answer("SUCCESS", IF option = "txn_dp_initial"
                         THEN [o EXCEPT !.txn_dp_initial = NewInitial(b, e, v)]
                         ELSE NewLimit(b, e, o, v), FALSE)

SetDirty(b, e, o, option, v) ==
  IF ~Inside(b, option, v) THEN Answer("EINVAL", o, FALSE)
  ELSE IF e.rdonly THEN Answer("EACCESS", o, FALSE)
  ELSE IF e.txn = "own" THEN Answer("EPERM", o, FALSE)
  ELSE Answer("SUCCESS", IF option = "txn_dp_initial"
                         THEN [o EXCEPT !.txn_dp_initial = NewInitial(b, e, v)]
                         ELSE NewLimit(b, e, o, v), FALSE)

(* MDBX_opt_prefault_write_enable *)
SetPrefault(b, e, o, v) ==
  IF ~Inside(b, "prefault_write_enable", v) THEN Answer("EINVAL", o, FALSE)
  ELSE Answer("SUCCESS",
              IF v = Standard
              THEN [o EXCEPT !.non_auto = @ \ {"prefault_write"},
                             !.prefault_write_enable = IF default_prefault_write(e) THEN 1 ELSE 0]
              ELSE [o EXCEPT !.non_auto = @ \cup {"prefault_write"}, !.prefault_write_enable = v],
              FALSE)

(* MDBX_opt_presync_threshold: it lives in the lock area, in pages. *)
SetPresync(b, e, o, v) ==
  IF ~e.lck THEN Answer("EPERM", o, FALSE)
  ELSE IF ~Inside(b, "presync_threshold", v) THEN Answer("EINVAL", o, FALSE)
  ELSE Answer("SUCCESS",
              [o EXCEPT !.presync_threshold =
                 IF v = Standard THEN bytes_ceil2os_pgno(e, b.presync)
                 ELSE Greater(bytes_ceil2os_pgno(e, v), 1)], FALSE)

(* MDBX_opt_dp_reserve_limit: pages kept beyond the limit are freed. *)
SetReserve(b, o, v) ==
  LET new == Given(b, "dp_reserve_limit", v)
  IN  IF ~Inside(b, "dp_reserve_limit", v) THEN Answer("EINVAL", o, FALSE)
      ELSE Answer("SUCCESS", [o EXCEPT !.dp_reserve_limit = new,
                                       !.shadow_reserve_len = Lesser(@, new)], FALSE)

(* Every other option is kept as it is given. *)
SetPlain(b, e, o, option, v) ==
  IF ~Inside(b, option, v) THEN Answer("EINVAL", o, FALSE)
  ELSE Answer("SUCCESS", [o EXCEPT ![option] = Given(b, option, v)], FALSE)

(* Calls that take the lock of the writer wait for other threads. *)
Waits(e, option) ==
  /\ option \in {"dp_reserve_limit", "txn_dp_limit", "txn_dp_initial"}
  /\ lock_needed(e) /\ e.txn = "other"

mdbx_env_set_option(b, e, o, option, v) ==
  CASE option \in {"sync_bytes", "sync_period"} -> SetSync(b, e, o, option, v)
    [] option \in {"max_db", "max_readers"} -> SetTableSize(b, e, o, option, v)
    [] option = "rp_augment_limit" -> SetAugment(b, e, o, v)
    [] option = "gc_time_limit" -> SetGcTime(b, e, o, v)
    [] option \in {"txn_dp_limit", "txn_dp_initial"} -> SetDirty(b, e, o, option, v)
    [] option = "dp_reserve_limit" -> SetReserve(b, o, v)
    [] option = "prefault_write_enable" -> SetPrefault(b, e, o, v)
    [] option = "presync_threshold" -> SetPresync(b, e, o, v)
    [] OTHER -> SetPlain(b, e, o, option, v)

(* mdbx_env_get_option; the first two are refused while there is no lock    *)
(* area.                                                                   *)
Readable(e, option) == option \in {"sync_bytes", "sync_period"} => e.active

mdbx_env_get_option(e, o, option) ==
  CASE option = "sync_bytes" -> o.sync_bytes * e.ps
    [] option = "sync_period" -> osal_monotime_to_16dot16(o.sync_period)
    [] option = "gc_time_limit" -> osal_monotime_to_16dot16(o.gc_time_limit)
    [] option = "presync_threshold" -> IF e.lck THEN o.presync_threshold * e.ps ELSE 0
    [] OTHER -> o[option]

=============================================================================

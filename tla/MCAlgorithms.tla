---------------------------- MODULE MCAlgorithms ----------------------------
(***************************************************************************)
(* The pure algorithms of the library and of its tools, called one after   *)
(* another with every argument of small sets.  call holds the function     *)
(* that is called and its arguments or, for the two lists of a write       *)
(* transaction, the list and the set it stands for.                        *)
(***************************************************************************)
EXTENDS Troika, DumpLoad, GeoParams, Rkl, Dpl, Scan4seq, Options, NumberKeys

CONSTANTS
    MaxTxn,     \* transaction numbers of meta pages
    MaxText,    \* length of the texts and slices that are converted
    MaxPnl,     \* length of the lists of free pages that are scanned
    MaxSpan,    \* highest page number of a dirty list
    WithSpaces, \* values that begin with a space in the printable format?
    MaxSets,    \* steps in the life of the options of an environment
    SkipOld     \* loading with -N?

VARIABLE call

Idle == [fn |-> "idle"]
Seqs(S, n) == UNION {[1 .. k -> S] : k \in 0 .. n}

-----------------------------------------------------------------------------
(* Arguments.                                                              *)

Metas3 == {s \in [txnid : 0 .. MaxTxn, steady : BOOLEAN] : s.steady => s.txnid >= 1}

SomeBytes == {0, 9, 160, 255}
SomeChars == {10, 49, 61, 65, 122}
Leads == {31, 32, 127, 128, 192, 194, 223, 224, 237, 239, 240, 244, 245}
Trails == {127, 128, 143, 144, 159, 160, 191, 192}

Encodes == [fn : {"encode"}, bytes : Seqs(SomeBytes, MaxText - 1), wrap : {0, 1, 2, 5}]
Decodes == [fn : {"decode"}, text : Seqs(SomeChars, MaxText), spaces : BOOLEAN]
Utf8s == {[fn |-> "utf8", bytes |-> <<c>> \o t] : c \in Leads, t \in Seqs(Trails, 3)}
Params ==
    [fn : {"flags"}, mode : Modes,
     durability : {"robust_synchronous", "half_synchronous_weak_last", "lazy_weak_tail",
                   "whole_fragile"},
     lifo : BOOLEAN, options : SUBSET (DOMAIN OptionFlags \cup {"nested_transactions"})]

\* Words of eight bits: four for the exponent, three for the mantissa.
Numbers == [fn : {"number"}, word : 0 .. Words - 1]
           \cup [fn : {"integer"}, int : INT_MIN + 1 .. INT_MAX]

\* globals of a 64-bit and of a 32-bit build, scaled: pages of 2 to 16 bytes.
Wide == [sys_pagesize |-> 4, granularity |-> 8, MIN_PAGESIZE |-> 2, MAX_PAGESIZE |-> 16,
         MAX_PAGES |-> 40, mmap_limit |-> 640, reasonable |-> 250, MAX_MAPSIZE32 |-> 254,
         INTPTR_MAX |-> 2047, INT_MAX |-> 1023, WORDBITS |-> 8, upper_unit |-> 16,
         megabyte |-> 32, grow_parts |-> 5, grow_ratio |-> 4, grow_min |-> 8,
         grow_steps |-> 16, grow_limit |-> 64]
Narrow == [Wide EXCEPT !.mmap_limit = 254, !.WORDBITS = 4, !.granularity = 16,
                       !.reasonable = 127]
Big == [Narrow EXCEPT !.sys_pagesize = 16, !.granularity = 16]

Geometries ==
    [fn : {"geometry"}, g : {Wide, Narrow, Big}, lower : {-1, 0, 6, 25, 100, 2047},
     now : {-1, 0, 30, 127, 2046, 2047}, upper : {-1, 0, 9, 127, 253, 640, 2047},
     grow : {-1, 0, 3, 40}, shrink : {-1, 0, 20}, ps : {-1, 0, 3, 4, 16, 1023}]
Regeometries ==
    [fn : {"regeometry"}, g : {Wide, Big}, ps : {4, 8}, old : {-1, 100, 300}, used : {3, 7, 11},
     lower : {-1, 0, 25, 100}, now : {-1, 30, 127}, upper : {-1, 60, 253, 640},
     grow : {-1, 0, 3}, shrink : {-1, 20}]
Packs == [fn : {"pack"}, block : 0 .. 511]

\* A list of len free pages with one run of them: step 1 inside of it, else 2.
Scans ==
    {s \in [fn : {"scan"}, len : 2 .. MaxPnl, from : 1 .. MaxPnl, run : 1 .. 4, seq : 1 .. 4] :
        s.from < s.len /\ s.seq < s.len}
Pnl(s) ==
    LET step(i) == IF i \in s.from .. s.from + s.run - 1 THEN 1 ELSE 2
    IN  [i \in 1 .. s.len |-> 100 - Cardinality(1 .. i)
            - Cardinality({j \in 1 .. i - 1 : step(j) = 2})]

\* Databases of the tools: the main table, or tables "a" and "b".
Keys2 == {<<65>>, <<92, 10>>}
Values2 == {<<>>, <<92, 65>>} \cup IF WithSpaces THEN {<<32, 65>>} ELSE {}
Tables ==
    {t \in [dup : BOOLEAN, seq : {0, 2}, recs : SUBSET (Keys2 \X Values2)] :
        t.dup \/ \A r, s \in t.recs : r[1] = s[1] => r = s}
SmallTables ==
    {[dup |-> FALSE, seq |-> 0, recs |-> {<<<<65>>, <<>>>>}],
     [dup |-> TRUE, seq |-> 3, recs |-> {<<<<65>>, <<>>>>, <<<<65>>, <<66>>>>}]}
Databases ==
    {[n \in {MAIN} |-> t] : t \in Tables}
    \cup {[n \in {MAIN, "a", "b"} |-> CASE n = MAIN -> NoTable [] n = "a" -> t [] n = "b" -> u]
            : t \in Tables, u \in SmallTables}
LoadOptions(noover) ==
    [noover : noover, purge : {FALSE}, rescue : {FALSE}, batch : {0, 1}]
Loads ==
    IF SkipOld THEN {}
    ELSE [fn : {"load"}, db : Databases, canary : {0, 7}, print : BOOLEAN,
          concise : BOOLEAN, o : LoadOptions({FALSE})]
OldTables == {t \in Tables : ~t.dup /\ t.seq = 0}
Reloads ==
    [fn : {"reload"}, old : OldTables, new : OldTables,
     o : LoadOptions(IF SkipOld THEN {TRUE} ELSE {FALSE})]

-----------------------------------------------------------------------------
(* Calls.                                                                  *)

Init == call = Idle

CallMeta ==
    /\ call = Idle
    /\ \E t \in [Metas -> Metas3] : call' = [fn |-> "troika", t |-> t]
CallText ==
    /\ call = Idle
    /\ \/ \E c \in Encodes : call' = c
       \/ \E c \in Decodes : call' = c
       \/ \E c \in Utf8s : call' = c
       \/ \E c \in Params : call' = c
       \/ \E c \in Numbers : call' = c
CallGeometry ==
    /\ call = Idle
    /\ \/ \E c \in Geometries : call' = c
       \/ \E c \in Regeometries : call' = c
       \/ \E c \in Packs : call' = c
CallScan == call = Idle /\ \E c \in Scans : call' = c
CallLoad ==
    /\ call = Idle
    /\ \/ \E c \in Loads : call' = c
       \/ \E c \in Reloads : call' = c

\* A set of transaction numbers, built and emptied number by number.
NewIds == call = Idle /\ call' = [fn |-> "rkl", r |-> NewRkl, ids |-> {}]
PushId ==
    /\ call.fn = "rkl"
    /\ \E id \in 1 .. MAX_TXNID - 1 :
        /\ id \notin call.ids
        /\ call' = [call EXCEPT !.r = rkl_push(call.r, id).r, !.ids = @ \cup {id}]
PopId ==
    /\ call.fn = "rkl" /\ call.ids # {}
    /\ \E highest \in BOOLEAN :
        LET out == rkl_pop(call.r, highest)
        IN  call' = [call EXCEPT !.r = out.r, !.ids = @ \ {out.id}]
MergeIds ==
    /\ call.fn = "rkl" /\ Cardinality(call.ids) <= 3
    /\ \E more \in SUBSET (1 .. MAX_TXNID - 1) :
        /\ more \cap call.ids = {} /\ Cardinality(more) = 3
        /\ LET src == FoldSet(LAMBDA id, r : rkl_push(r, id).r, NewRkl, more)
           IN  call' = [call EXCEPT !.r = rkl_merge(src, call.r).r, !.ids = @ \cup more]

\* The dirty list of a transaction; page_dirty takes a place of dirtyroom.
Npages(p) == IF p % 3 = 0 THEN 2 ELSE 1
Taken(pages) == pages \cup {p + 1 : p \in {q \in pages : Npages(q) = 2}}
NewDirty == call = Idle /\ call' = [fn |-> "dpl", dl |-> NewDpl, pages |-> {}]
DirtyPage ==
    /\ call.fn = "dpl"
    /\ \E p \in 3 .. MaxSpan :
        /\ Taken({p}) \cap Taken(call.pages) = {}
        /\ call' = [call EXCEPT !.dl = [txn_dpl_append(@, [pgno |-> p, npages |-> Npages(p)])
                                          EXCEPT !.room = @ - 1],
                                !.pages = @ \cup {p}]
CleanPage ==
    /\ call.fn = "dpl"
    /\ \E p \in call.pages :
        LET found == txn_dpl_search(call.dl, p)
        IN  call' = [call EXCEPT !.dl = [txn_dpl_remove_ex(found.dl, found.at)
                                           EXCEPT !.room = @ + 1],
                                 !.pages = @ \ {p}]
SiftPages ==
    /\ call.fn = "dpl"
    /\ \E gone \in SUBSET (3 .. MaxSpan) :
        /\ gone # {} /\ Cardinality(gone) <= 2
        /\ call' = [call EXCEPT !.dl = txn_dpl_sift(@, SetToSortSeq(gone, <)),
                                !.pages = @ \ gone]

\* The options of an environment: of a small build, set one after another, while
\* write transactions come and go and the file is resized.
Build ==
    [UINT32_MAX |-> 1023, INT_MAX |-> 511, SIZE_MAX |-> 600000, PAGELIST_LIMIT |-> 700,
     MAX_DBI |-> 300, READERS_LIMIT |-> 320, MAX_IO_BYTES |-> 8192, PNL_INITIAL |-> 160,
     least_dp |-> 128, period |-> 777, presync |-> 4096, presync_max |-> 65536,
     mmap_limit |-> 256000, timeframe |-> 64, overhead |-> 4, granulate |-> 32]
Closed0 ==
    [ps |-> 256, os |-> 512, now |-> 0, upper |-> 0, ram |-> 300, active |-> FALSE,
     rdonly |-> FALSE, mapped |-> FALSE, lck |-> FALSE, writemap |-> FALSE, txn |-> "none"]
Opened ==
    [Closed0 EXCEPT !.now = 25600, !.upper = 102400, !.active = TRUE, !.mapped = TRUE, !.lck = TRUE]
Environments ==
    {Closed0, Opened, [Opened EXCEPT !.rdonly = TRUE],
     [Opened EXCEPT !.writemap = TRUE, !.ps = 4096, !.upper = 40960, !.now = 40960]}
Sizes == {<<25600, 51200>>, <<102400, 204800>>}

Created(e) == env_options_adjust_dp_limit(Build, Closed0, env_options_init(Build, e))
FirstOptions(e) ==
    IF e.active /\ ~e.rdonly THEN env_options_adjust_defaults(Build, e, Created(e)) ELSE Created(e)

Coupled ==
    {{"txn_dp_limit", "txn_dp_initial"}, {"rp_augment_limit", "gc_time_limit"},
     {"subpage_limit", "subpage_room_threshold", "subpage_reserve_prereq", "subpage_reserve_limit"}}
Next2(option) == UNION {s \in Coupled : option \in s}
Tried(option) ==
    LET lo == Bounds(Build)[option][1]
        hi == Bounds(Build)[option][2]
    IN  {v \in {Standard, lo - 1, lo, lo + 1, 3, 150, (lo + hi) \div 2, hi, hi + 1} : v >= -1}

NewOptions ==
    /\ call = Idle
    /\ \E e \in Environments :
        call' = [fn |-> "options", e |-> e, o |-> FirstOptions(e), was |-> FirstOptions(e),
                 rc |-> "SUCCESS", set |-> <<>>, may |-> AllOptions, room |-> 0, n |-> 0]
SetOption ==
    /\ call.fn = "options" /\ call.n < MaxSets
    /\ \E option \in call.may : \E v \in Tried(option) :
        /\ ~Waits(call.e, option)
        /\ LET z == mdbx_env_set_option(Build, call.e, call.o, option, v)
           IN  call' = [call EXCEPT !.was = call.o, !.o = z.o, !.rc = z.rc,
                                    !.set = <<option, v>>, !.may = Next2(option), !.n = @ + 1]
Still(e, o) == [call EXCEPT !.e = e, !.o = o, !.was = o, !.rc = "SUCCESS", !.set = <<>>, !.n = @ + 1]
BeginWriting ==
    /\ call.fn = "options" /\ call.n < MaxSets
    /\ call.e.active /\ ~call.e.rdonly /\ call.e.txn = "none"
    /\ \E who \in {"own", "other"} :
        LET o == IF call.o.need_adjust
                 THEN env_options_adjust_dp_limit(Build, call.e, call.o) ELSE call.o
        IN  call' = [Still([call.e EXCEPT !.txn = who], o) EXCEPT !.room = o.txn_dp_limit]
EndWriting ==
    /\ call.fn = "options" /\ call.n < MaxSets /\ call.e.txn # "none"
    /\ call' = Still([call.e EXCEPT !.txn = "none"], call.o)
Resize ==
    /\ call.fn = "options" /\ call.n < MaxSets /\ call.e.active
    /\ \E s \in Sizes :
        LET e == [call.e EXCEPT !.now = s[1], !.upper = s[2]]
        IN  call' = Still(e, env_options_adjust_defaults(Build, e, call.o))

Return == call # Idle /\ call' = Idle

Next ==
    \/ CallMeta \/ CallText \/ CallGeometry \/ CallScan \/ CallLoad
    \/ NewIds \/ PushId \/ PopId \/ MergeIds
    \/ NewDirty \/ DirtyPage \/ CleanPage \/ SiftPages
    \/ NewOptions \/ SetOption \/ BeginWriting \/ EndWriting \/ Resize
    \/ Return

Spec == Init /\ [][Next]_call

-----------------------------------------------------------------------------
(* Properties.                                                             *)

\* troika_fsm_map holds what meta_cmp2pack computes.
TableInv == call.fn = "troika" => TableAgrees(call.t)

\* Every encoder's text is decoded to the same bytes, is as long as
\* envisage_result_length says at most, and is what output() prints; the limbs
\* of Base58 stay within its buffer.
EncodersSound ==
    LET b == call.bytes
        w == call.wrap
        n == Len(b)
    IN  /\ \A up \in BOOLEAN :
            /\ FromHex(ToHex(b, up, w), w > 0) = Ok(b)
            /\ ToHex(b, up, w) = ToHexOutput(b, up, w)
        /\ Len(ToHex(b, TRUE, w)) <= Wrapped(2 * n, w)
        /\ FromBase58(ToBase58(b, w), w > 0) = Ok(b)
        /\ ToBase58(b, w) = ToBase58Output(b, w)
        /\ Len(ToBase58(b, w)) <= Wrapped((n * 11 + 7) \div 8, w)
        /\ Len(b58_limbs(SubSeq(b, Zeros(b) + 1, n))) <= b58_buffer(n - Zeros(b), 11, 8, 3)
        /\ FromBase64(ToBase64(b, w), w > 0) = Ok(b)
        /\ ToBase64(b, w) = ToBase64Output(b, w)
        /\ Len(ToBase64(b, w)) <= Wrapped(((n + 2) \div 3) * 4, w)

\* A decoder throws for exactly the texts is_erroneous() refuses, and never
\* writes more than envisage_result_length.
DecodersSound ==
    LET t == call.text
        n == Len(t)
        s == call.spaces
        bytes(r, most) == r.ok => Len(r.bytes) <= most
    IN  /\ (\E i \in DOMAIN t : ~isspace(t[i]))
           => /\ HexErroneous(t, s) = ~FromHex(t, s).ok
              /\ Base64Erroneous(t, s) = ~FromBase64(t, s).ok
        /\ Base58Erroneous(t, s) = ~FromBase58(t, s).ok
        /\ bytes(FromHex(t, s), n \div 2)
        /\ bytes(FromBase58(t, s), n)
        /\ bytes(FromBase64(t, s), ((n + 3) \div 4) * 3)

\* UTF-8 by its arithmetic: the shortest form of a code point.
Utf8(cp) ==
    CASE cp < 128 -> <<cp>>
      [] cp \in 128 .. 2047 -> <<192 + cp \div 64, 128 + (cp % 64)>>
      [] cp \in 2048 .. 65535 ->
            <<224 + cp \div 4096, 128 + ((cp \div 64) % 64), 128 + (cp % 64)>>
      [] OTHER -> <<240 + cp \div 262144, 128 + ((cp \div 4096) % 64),
                    128 + ((cp \div 64) % 64), 128 + (cp % 64)>>
CodePoint(s) ==
    LET low(k) == s[k] % 64
    IN  CASE Len(s) = 1 -> s[1]
          [] Len(s) = 2 -> (s[1] % 32) * 64 + low(2)
          [] Len(s) = 3 -> (s[1] % 16) * 4096 + low(2) * 64 + low(3)
          [] Len(s) = 4 -> (s[1] % 8) * 262144 + low(2) * 4096 + low(3) * 64 + low(4)
RECURSIVE IsText(_)
IsText(s) ==
    \/ s = <<>>
    \/ \E n \in 1 .. 4 :
        /\ n <= Len(s)
        /\ LET cp == CodePoint(SubSeq(s, 1, n))
           IN  /\ Utf8(cp) = SubSeq(s, 1, n)
               /\ cp \in 32 .. 126 \/ cp \in 128 .. 55295 \/ cp \in 57344 .. 1114111
        /\ IsText(SubSeq(s, n + 1, Len(s)))

\* The flags an environment is opened with give its parameters back.
FlagsSound ==
    LET p == call
        q == params_from_flags(make_flags(p))
        plain == {"no_sticky_threads", "nested_transactions"}
        nested == "nested_transactions" \in p.options
    IN  /\ q.mode = IF p.mode = "write_mapped_io" /\ nested THEN "write_file_io" ELSE p.mode
        /\ p.mode # "readonly" => q.durability = p.durability /\ q.lifo = p.lifo
        /\ q.options \ plain = p.options \ plain

\* What a floating-point number stands for, in units of the smallest one.
Finite(f) == (f % bias) \div IMPLICIT_LEAD < EXPONENTA_MAX
Magnitude(f) ==
    LET exponent == (f % bias) \div IMPLICIT_LEAD
        mantissa == f % IMPLICIT_LEAD
    IN  IF exponent = 0 THEN mantissa ELSE (mantissa + IMPLICIT_LEAD) * 2 ^ (exponent - 1)
Meant(f) == IF f >= bias THEN -Magnitude(f) ELSE Magnitude(f)
One == 2 ^ (EXPONENTA_BIAS + MantissaSize - 1)

\* The keys of numbers are in the order of the numbers and give them back; as
\* an integer, a key gives its number without the fraction, within the range
\* of integers. The key of +0 is left out: it gives INT_MAX.
Clipped(k) ==
    LET f == key2double(k)
        v == Magnitude(f) \div One
    IN  IF f >= bias THEN Max({-v, INT_MIN}) ELSE Min({v, INT_MAX})
NumbersSound ==
    LET f == call.word
    IN  /\ key2double(double2key(f)) = f /\ double2key(key2double(f)) = f
        /\ \A g \in 0 .. Words - 1 :
            Finite(f) /\ Finite(g) /\ Meant(f) < Meant(g) => double2key(f) < double2key(g)
        /\ f # bias /\ Finite(key2double(f)) => mdbx_jsonInteger_from_key(f) = Clipped(f)

\* The key of an integer is that of the nearest floating-point number, of the
\* even one when there are two; integers of the range of RFC 7159 come back.
Nearest(i) ==
    LET far(f) == IF Meant(f) > i * One THEN Meant(f) - i * One ELSE i * One - Meant(f)
        finite == {f \in 0 .. Words - 1 : Finite(f) /\ (f >= bias) = (i < 0)}
        near == {f \in finite : \A g \in finite : far(f) <= far(g)}
    IN  CHOOSE f \in near : f % 2 = 0 \/ Cardinality(near) = 1
IntegersSound ==
    LET i == call.int
        k == mdbx_key_from_jsonInteger(i)
    IN  /\ k = double2key(Nearest(i))
        /\ i # 0 /\ i \in -MANTISSA_AMAX .. MANTISSA_AMAX => mdbx_jsonInteger_from_key(k) = i

\* What is turned into text, flags or keys is turned back the same.
TextSound ==
    CASE call.fn = "encode" -> EncodersSound
      [] call.fn = "decode" -> DecodersSound
      [] call.fn = "utf8" -> is_printable(call.bytes, FALSE) = IsText(call.bytes)
      [] call.fn = "flags" -> FlagsSound
      [] call.fn = "number" -> NumbersSound
      [] call.fn = "integer" -> IntegersSound
      [] OTHER -> TRUE

-----------------------------------------------------------------------------
\* What mdbx_env_set_geometry ensures at its end (ENSURE_OBJ).
Ensured(g, a) ==
    LET unit(v) == v % a.ps = 0 /\ v % g.sys_pagesize = 0
    IN  /\ a.lower >= MIN_MAPSIZE(g) /\ a.lower \div a.ps >= MIN_PAGENO
        /\ a.upper <= MAX_MAPSIZE(g) /\ a.upper \div a.ps <= g.MAX_PAGES
        /\ a.upper <= g.mmap_limit
        /\ a.now \in a.lower .. a.upper
        /\ \A v \in {a.lower, a.now, a.upper, a.grow, a.shrink} : unit(v)

Asked(a) == [lower |-> a.lower, now |-> a.now, upper |-> a.upper, grow |-> a.grow,
             shrink |-> a.shrink, ps |-> a.ps]
Default == [lower |-> -1, now |-> -1, upper |-> -1, grow |-> -1, shrink |-> -1, ps |-> -1]

\* The same geometry, of which only the current size was rounded up once more.
Kept(g, old, new) ==
    /\ new.rc = "SUCCESS"
    /\ new.now \in old.now .. old.now + g.granularity - 1
    /\ [new EXCEPT !.now = old.now] = old

\* A geometry that is accepted satisfies what the code ensures, is kept when it
\* comes back from a dump, and is kept by a call that leaves out everything.
ClosedGeo(g, geo) ==
    /\ Ensured(g, geo)
    /\ Kept(g, geo, Packed(set_geometry_closed(g, Asked(geo))))
    /\ Kept(g, geo, Packed(set_geometry_open(g, Default, NewGeo(geo, 3), geo.ps, 3)))
Closed(g, out) == out.rc = "SUCCESS" => ClosedGeo(g, Packed(out))
ClosedSound == Closed(call.g, set_geometry_closed(call.g, Asked(call)))

\* The same for an open environment, of which nothing in use is cut off.
OpenGeo(g, geo, used) ==
    /\ geo.now >= used /\ geo.upper >= used
    /\ geo.grow_pv = pages2pv(pv2pages(geo.grow_pv))
    /\ geo.shrink_pv = pages2pv(pv2pages(geo.shrink_pv))
Open(g, used, out) ==
    out.rc = "SUCCESS" => Ensured(g, Packed(out)) /\ OpenGeo(g, NewGeo(out, used), used)
Reopened(c, built) ==
    built.rc = "SUCCESS" /\ built.now >= c.used * c.ps
    => Open(c.g, c.used, set_geometry_open(c.g, [Asked(c) EXCEPT !.ps = -1],
                                           NewGeo(built, c.used), c.ps, c.used))
OpenSound ==
    Reopened(call, set_geometry_closed(call.g,
                        [Default EXCEPT !.upper = call.old, !.ps = call.ps]))

\* Packing rounds a number of pages up, by less than 1/16 and never twice.
PackSound ==
    \A k \in call.block * 256 .. call.block * 256 + 255 :
        /\ k < 65536 => pv2pages(pages2pv(pv2pages(k))) = pv2pages(k)
        /\ pv2pages(pages2pv(k)) \in k .. k + k \div 16

\* What follows from the options is in order (the assertions of
\* recalculate_subpage_thresholds and recalculate_merge_thresholds).
ThresholdsSound ==
    LET t == Thresholds(call.e, call.o)
        merge == merge_threshold(call.e, call.o)
        space == page_space(call.e)
    IN  /\ t.limit + 8 <= leaf_nodemax(call.e)
        /\ t.reserve <= t.limit
        /\ t.room + t.reserve <= t.prereq
        /\ merge >= space \div 2 /\ merge <= (space * 63) \div 64

\* The limit of dirty pages is one a file that may be written has room for, unless
\* the next write transaction is still to adjust it, and it stays what it was while a write transaction counts against it (its dirtyroom and the length
\* of its dirty list add up to the limit: dpl_check and the assertions of a
\* commit), whoever sets it or resizes the file.
LimitSound ==
    /\ call.o.txn_dp_limit >= Build.least_dp
    /\ call.e.txn # "none" => call.o.txn_dp_limit = call.room
    /\ call.e.txn = "none" /\ ~call.e.rdonly /\ ~call.o.need_adjust =>
        call.o.txn_dp_limit <= Greater(Build.least_dp, env_max_pgno(Build, call.e) - 3)
    /\ call.o.shadow_reserve_len <= call.o.dp_reserve_limit

\* A call that is refused changes nothing.  One that is not is told back by
\* mdbx_env_get_option: a number of bytes rounded up to whole pages, a time up
\* to 1/65536 seconds less, a limit of pages as far as the file goes.
ReadBack(option, v, got) ==
    LET unit == Greater(call.e.ps, call.e.os)
        most == env_max_pgno(Build, call.e)
    IN  CASE option = "sync_bytes" ->
                CeilTo(v, call.e.ps) \div call.e.ps <= Build.UINT32_MAX => got = CeilTo(v, call.e.ps)
          [] option \in {"sync_period", "gc_time_limit"} -> got \in {v - 1, v}
          [] option = "txn_dp_limit" -> got = Greater(Lesser(v, most - 3), Build.least_dp)
          [] option = "txn_dp_initial" ->
                got = IF v > most /\ call.set[2] # Standard
                      THEN Greater(most, Build.least_dp) ELSE v
          [] option = "presync_threshold" -> got = Greater(CeilTo(v, unit), call.e.ps)
          [] OTHER -> got = v
AnswersSound ==
    /\ call.rc # "SUCCESS" => call.o = call.was
    /\ call.set # <<>> /\ call.rc = "SUCCESS" =>
        LET option == call.set[1]
            v == call.set[2]
            given == IF v = Standard /\ option \in DOMAIN Defaults(Build) THEN Defaults(Build)[option]
                     ELSE v
        IN  given # Standard /\ Readable(call.e, option)
            => ReadBack(option, given, mdbx_env_get_option(call.e, call.o, option))

OptionsSound == ThresholdsSound /\ LimitSound /\ AnswersSound

\* The sizes of a database are in order whatever a caller asks for.
SettingsSound ==
    CASE call.fn = "geometry" -> ClosedSound
      [] call.fn = "regeometry" -> OpenSound
      [] call.fn = "pack" -> PackSound
      [] call.fn = "options" -> OptionsSound
      [] OTHER -> TRUE

-----------------------------------------------------------------------------
\* A walk of the iterator: the numbers it returns, in order.
RECURSIVE Walk(_, _, _)
Walk(r, it, reverse) ==
    LET next == rkl_turn(r, it, reverse)
    IN  IF next.id = 0 THEN <<>> ELSE <<next.id>> \o Walk(r, next.it, reverse)

\* The holes the iterator finds from its end down to the first one.
RECURSIVE Holes(_, _, _)
Holes(r, it, reverse) ==
    LET h == rkl_hole(r, it, reverse)
    IN  IF h.begin = 1 THEN {<<h.begin, h.end>>}
        ELSE {<<h.begin, h.end>>} \cup Holes(r, h.it, reverse)
Gaps(ids) ==
    {h \in (1 .. MAX_TXNID) \X (1 .. MAX_TXNID) :
        /\ h[1] < h[2] /\ \A k \in h[1] .. h[2] - 1 : k \notin ids
        /\ h[1] = 1 \/ h[1] - 1 \in ids
        /\ h[2] = MAX_TXNID \/ h[2] \in ids}

\* The set holds exactly the numbers pushed and not yet popped, and the
\* iterator meets all of them in order and every hole between them.
RklSound ==
    LET r == call.r
        ids == call.ids
        up == SelectSeq([k \in 1 .. MAX_TXNID |-> k], LAMBDA k : k \in ids)
    IN  /\ rkl_check(r) /\ rkl_len(r) = Cardinality(ids)
        /\ \A k \in 1 .. MAX_TXNID - 1 : rkl_contain(r, k) = (k \in ids)
        /\ ids # {} => rkl_lowest(r) = Min(ids) /\ rkl_highest(r) = Max(ids)
        /\ Walk(r, rkl_iterator(r, FALSE), FALSE) = up
        /\ Walk(r, rkl_iterator(r, TRUE), TRUE) = Reverse(up)
        /\ \A k \in ids : rkl_turn(r, rkl_find(r, k), FALSE).id = k
        /\ {h \in Holes(r, rkl_iterator(r, TRUE), TRUE) : h[1] < h[2]} = Gaps(ids)

\* The dirty list holds exactly the pages dirtied and not yet removed, its
\* counters agree, and the search finds every page there is and no other.
DplSound ==
    LET dl == call.dl
        found(p) == LET s == txn_dpl_search(dl, p)
                    IN  s.at <= Len(s.dl.items) /\ s.dl.items[s.at].pgno = p
    IN  /\ txn_dpl_check(dl)
        /\ {dl.items[i].pgno : i \in DOMAIN dl.items} = call.pages
        /\ Len(dl.items) = Cardinality(call.pages) /\ dl.room + Len(dl.items) = 0
        /\ \A p \in 3 .. MaxSpan : /\ found(p) = (p \in call.pages)
                                   /\ debug_txn_dpl_find(dl, p) = (p \in call.pages)

\* Every form of scan4seq returns what the plain loop over the list returns,
\* whatever lies in memory below the list.
ScanSound ==
    LET pnl == Pnl(call)
        want == scan4range_checker(pnl, call.seq, Len(pnl))
    IN  /\ scan4seq_fallback(pnl, call.seq) = want
        /\ \A safe \in BOOLEAN, junk \in {0, 100} :
            /\ scan4seq_sse2(pnl, call.seq, safe, junk) = want
            /\ scan4seq_avx2(pnl, call.seq, safe, junk) = want
            /\ scan4seq_avx512bw(pnl, call.seq, safe, junk) = want
            /\ \A word \in {4, 8} : scan4seq_neon(pnl, call.seq, safe, junk, word) = want

\* The lists of a write transaction hold and find what was put into them.
ListsSound ==
    CASE call.fn = "rkl" -> RklSound
      [] call.fn = "dpl" -> DplSound
      [] call.fn = "scan" -> ScanSound
      [] OTHER -> TRUE

-----------------------------------------------------------------------------
\* What one record set gives over another.
Over(new, old) == new \cup {r \in old : \A s \in new : s[1] # r[1]}

\* A database that was dumped is loaded as it was, table by table, with its
\* canary, in either format and with any size of batches; loading over a table
\* replaces the records whose keys the dump has and keeps the others.
DumpLoads ==
    /\ call.fn = "load" =>
        LET main == [n \in {MAIN} |-> NoTable]
            all == load(dump(call.db, call.canary,
                             [all |-> DOMAIN call.db # {MAIN}, table |-> MAIN,
                              print |-> call.print, concise |-> call.concise]),
                        call.o, main)
        IN  all = [rc |-> "SUCCESS", db |-> call.db, canary |-> call.canary]
    /\ call.fn = "reload" =>
        LET opts == [all |-> FALSE, table |-> MAIN, print |-> TRUE, concise |-> FALSE]
            lines == dump([n \in {MAIN} |-> call.new], 0, opts)
        IN  load(lines, call.o, [n \in {MAIN} |-> call.old]).db[MAIN].recs
                = Over(call.new.recs, call.old.recs)

\* mdbx_load(1), of -N: "Don't overwrite existing records when loading into an
\* already existing table; just skip them."  The others are loaded.
SkipsOnlyOld ==
    call.fn = "reload" =>
        LET opts == [all |-> FALSE, table |-> MAIN, print |-> TRUE, concise |-> FALSE]
            lines == dump([n \in {MAIN} |-> call.new], 0, opts)
        IN  load(lines, call.o, [n \in {MAIN} |-> call.old]).db[MAIN].recs
                = Over(call.old.recs, call.new.recs)
=============================================================================

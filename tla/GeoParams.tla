----------------------------- MODULE GeoParams -----------------------------
(***************************************************************************)
(* The arithmetic of mdbx_env_set_geometry: the page size and the sizes in *)
(* bytes that are chosen for an environment from the arguments of a call,  *)
(* any of which may be a default (negative), a minimum (zero) or a maximum *)
(* (INTPTR_MAX), and the 16-bit packing of the growth step and the shrink  *)
(* threshold.                                                              *)
(*                                                                         *)
(* g stands for `globals' and for the limits of a build, which TLC gets    *)
(* scaled down: the system's page and allocation granularity, the bounds   *)
(* of a page size and of a page number, mmap_limit, reasonable_db_maxsize, *)
(* INTPTR_MAX and the constants of the growth step.                        *)
(***************************************************************************)
EXTENDS Integers, FiniteSetsExt

MIN_PAGENO == 3
MIN_MAPSIZE(g) == g.MIN_PAGESIZE * MIN_PAGENO
MAX_MAPSIZE(g) == g.MAX_PAGES * g.MAX_PAGESIZE

\* ceil_powerof2 of a size_t, stored into an intptr_t again.
Ceil(g, value, unit) ==
    LET up == ((value + unit - 1) \div unit) * unit
    IN  IF up > g.INTPTR_MAX THEN up - 2 * (g.INTPTR_MAX + 1) ELSE up

Powers == {2 ^ k : k \in 0 .. 16}
is_powerof2(v) == v \in Powers
AtLeast(v, low) == IF v < low THEN low ELSE v
AtMost(v, high) == IF v > high THEN high ELSE v

Einval == [rc |-> "EINVAL"]
TooLarge == [rc |-> "TOO_LARGE"]
MapFull == [rc |-> "MAP_FULL"]

-----------------------------------------------------------------------------
(* Packed growth step and shrink threshold.                                *)

me2v(m, e) == 32768 + (m + 1) * 2 ^ (e + 8)

v2me(v, e) ==
    LET m == (v - 32768 + 2 ^ (e + 8) - 1) \div 2 ^ (e + 8)
    IN  32769 + e * 4096 + 2 * (IF m > 0 THEN m - 1 ELSE m)

pv2pages(pv) ==
    IF pv < 32768 \/ pv % 2 = 0 THEN pv
    ELSE IF pv = 65535 THEN 65536
    ELSE me2v((pv \div 2) % 2048, (pv \div 4096) % 8)

pages2pv(pages) ==
    LET fits == {e \in 0 .. 6 : pages <= me2v(2047, e)}
    IN  IF pages < 32769 \/ (pages < 65536 /\ pages % 2 = 0) THEN pages
        ELSE IF fits # {} THEN v2me(pages, Min(fits))
        ELSE IF pages < me2v(2046, 7) THEN v2me(pages, 7) ELSE 65533

-----------------------------------------------------------------------------
(* An environment that is not mapped yet.                                  *)

\* The page size doubles until the largest size asked for fits.
RECURSIVE DoublePagesize(_, _, _)
DoublePagesize(g, top, ps) ==
    IF top > ps * g.MAX_PAGES /\ ps < g.MAX_PAGESIZE
    THEN DoublePagesize(g, top, 2 * ps) ELSE ps

choose_pagesize(g, a) ==
    LET asked == Max({a.now, a.lower, a.upper})
        top == IF asked < 0 THEN g.reasonable
               ELSE IF asked = 0 THEN MIN_MAPSIZE(g) ELSE AtMost(asked, g.mmap_limit)
    IN  IF a.ps >= g.INT_MAX THEN g.MAX_PAGESIZE
        ELSE IF a.ps = 0 THEN g.MIN_PAGESIZE
        ELSE IF a.ps > 0 THEN a.ps
        ELSE DoublePagesize(g, top, AtMost(g.sys_pagesize, g.MAX_PAGESIZE))

-----------------------------------------------------------------------------
(* The sizes, step by step.                                                *)

Reasonable(g, ps) == AtMost(g.reasonable, ps * g.MAX_PAGES)

size_lower_(g, a) ==
    IF a.lower >= g.INTPTR_MAX THEN Reasonable(g, a.ps)
    ELSE IF a.lower > 0 THEN a.lower
    ELSE LET low == IF a.lower = 0 THEN MIN_MAPSIZE(g) ELSE a.ps * g.WORDBITS
         IN  IF low \div a.ps < MIN_PAGENO THEN MIN_PAGENO * a.ps ELSE low

size_now_(g, a) == IF a.now >= g.INTPTR_MAX THEN Reasonable(g, a.ps) ELSE a.now

\* lower and now are already chosen.
size_upper_(g, a) ==
    LET twice == IF a.now < g.mmap_limit \div 4 THEN 2 * a.now
                                                ELSE a.now + a.now \div 2
        guess == IF (a.grow = 0 \/ a.upper = 0) /\ a.now >= a.lower THEN a.now
                 ELSE IF a.now <= 0 \/ a.now >= g.reasonable \div 2 THEN g.reasonable
                 ELSE IF /\ a.now >= g.MAX_MAPSIZE32 \div 2
                         /\ a.now <= (g.MAX_MAPSIZE32 \div 4) * 3
                 THEN g.MAX_MAPSIZE32
                 ELSE Ceil(g, twice, g.upper_unit)
        wanted == IF a.upper <= 0 THEN guess ELSE g.reasonable
    IN  IF a.upper > 0 /\ a.upper < g.INTPTR_MAX THEN a.upper
        ELSE AtMost(IF wanted \div a.ps > g.MAX_PAGES THEN a.ps * g.MAX_PAGES
                                                      ELSE wanted, g.mmap_limit)

\* The checks of the chosen sizes: a refusal, or the sizes with a lower bound
\* of at least MIN_PAGENO pages.
check_sizes(g, a) ==
    LET now == IF a.now > 0 THEN a.now ELSE a.lower
        few == a.lower \div a.ps < MIN_PAGENO
        lower == IF few THEN a.ps * MIN_PAGENO ELSE a.lower
    IN  IF a.lower < MIN_MAPSIZE(g) \/ a.lower > a.upper \/ lower > a.upper
        THEN Einval
        ELSE IF a.upper > g.mmap_limit \/ a.upper \div a.ps > g.MAX_PAGES
        THEN TooLarge
        ELSE [a EXCEPT !.lower = lower,
                       !.now = IF few THEN AtLeast(now, lower) ELSE now]

unit_ps(g, a) == AtLeast(g.sys_pagesize, a.ps)
unit_ag(g, a) ==
    IF g.granularity > unit_ps(g, a) /\ (a.grow < 0 \/ a.grow >= g.granularity)
    THEN g.granularity ELSE unit_ps(g, a)

\* The upper bound is lowered by a unit until it is within the limits.
RECURSIVE lower_upper(_, _)
lower_upper(g, a) ==
    IF a.upper <= g.mmap_limit /\ a.upper \div a.ps <= g.MAX_PAGES THEN a
    ELSE IF \/ a.upper < unit_ag(g, a) + MIN_MAPSIZE(g)
            \/ a.upper < a.ps * (MIN_PAGENO + 1)
    THEN Einval
    ELSE LET upper == a.upper - unit_ag(g, a)
         IN  lower_upper(g, [a EXCEPT !.upper = upper, !.lower = AtMost(@, upper)])

\* Mutant: the current size is not brought back under the lowered upper bound.
round_sizesLoose(g, a) ==
    LET fit == lower_upper(g, [a EXCEPT !.lower = Ceil(g, @, unit_ps(g, a)),
                                        !.upper = Ceil(g, @, unit_ag(g, a)),
                                        !.now = Ceil(g, @, unit_ag(g, a))])
    IN  IF fit.rc # "SUCCESS" THEN fit ELSE [fit EXCEPT !.now = AtLeast(@, fit.lower)]

round_sizes(g, a) ==
    LET fit == lower_upper(g, [a EXCEPT !.lower = Ceil(g, @, unit_ps(g, a)),
                                        !.upper = Ceil(g, @, unit_ag(g, a)),
                                        !.now = Ceil(g, @, unit_ag(g, a))])
    IN  IF fit.rc # "SUCCESS" THEN fit
        ELSE [fit EXCEPT !.now = AtMost(AtLeast(@, fit.lower), fit.upper)]

\* The default growth step is a part of the range, kept within bounds.
default_growth(g, a, lower_default) ==
    LET range == a.upper - a.lower
        part == range \div g.grow_parts
        base == IF ~lower_default /\ part > a.lower /\ a.lower < g.megabyte
                THEN a.lower
                ELSE IF part \div a.lower > g.grow_ratio THEN a.lower * g.grow_ratio
                ELSE part
        step == AtLeast(base, g.grow_min)
    IN  AtMost(IF range \div step > g.grow_steps THEN range \div g.grow_steps ELSE step,
               g.grow_limit)

round_steps(g, a, lower_default) ==
    LET asked == IF a.grow < 0 THEN default_growth(g, a, lower_default) ELSE a.grow
        grow == Ceil(g, IF asked = 0 /\ a.shrink > 0 THEN 1 ELSE asked, unit_ag(g, a))
        shrink == IF a.shrink < 0 THEN 2 * grow ELSE a.shrink
    IN  [a EXCEPT !.grow = grow, !.shrink = Ceil(g, shrink, unit_ag(g, a))]

\* From the choice of the page size on: the geometry in bytes, or a refusal.
normalise(g, a) ==
    LET b == [a EXCEPT !.lower = size_lower_(g, a), !.now = size_now_(g, a)]
        c == check_sizes(g, [b EXCEPT !.upper = size_upper_(g, b)])
        d == round_sizes(g, c)
    IN  IF \/ ~is_powerof2(a.ps) \/ a.ps \notin g.MIN_PAGESIZE .. g.MAX_PAGESIZE
        THEN Einval
        ELSE IF c.rc # "SUCCESS" THEN c
        ELSE IF d.rc # "SUCCESS" THEN d
        ELSE round_steps(g, d, a.lower < 0)

\* The branch for a closed environment: geo_in_bytes.
set_geometry_closed(g, a) ==
    normalise(g, [lower |-> a.lower, now |-> a.now, upper |-> a.upper, grow |-> a.grow,
                  shrink |-> a.shrink, ps |-> choose_pagesize(g, a), rc |-> "SUCCESS"])

\* geo_in_bytes.grow and .shrink, through the packed form.
Packed(a) ==
    [a EXCEPT !.grow = pv2pages(pages2pv(@ \div a.ps)) * a.ps,
              !.shrink = pv2pages(pages2pv(@ \div a.ps)) * a.ps]

\* The branch for an open one: what the caller leaves out comes from the
\* geometry of the transaction or of the head, in pages; largest is
\* mvcc_snapshot_largest.
set_geometry_open(g, a, geo, ps, largest) ==
    LET os(pages) == Ceil(g, pages * ps, g.sys_pagesize)
        ask(value, old) == IF value < 0 THEN old ELSE value
        page == IF a.ps <= 0 \/ a.ps >= g.INT_MAX THEN ps ELSE a.ps
        upper == ask(a.upper, os(geo.upper))
    IN  IF page # ps THEN Einval
        ELSE IF upper < os(largest) \/ os(largest) > g.mmap_limit THEN MapFull
        ELSE normalise(g, [lower |-> ask(a.lower, geo.lower * ps),
                           now |-> AtLeast(ask(a.now, os(geo.now)), os(largest)),
                           upper |-> upper,
                           grow |-> ask(a.grow, pv2pages(geo.grow_pv) * ps),
                           shrink |-> ask(a.shrink, pv2pages(geo.shrink_pv) * ps),
                           ps |-> ps, rc |-> "SUCCESS"])

\* new_geo.
NewGeo(a, first) ==
    [lower |-> a.lower \div a.ps, now |-> a.now \div a.ps, upper |-> a.upper \div a.ps,
     grow_pv |-> pages2pv(a.grow \div a.ps), shrink_pv |-> pages2pv(a.shrink \div a.ps),
     first |-> first]
=============================================================================

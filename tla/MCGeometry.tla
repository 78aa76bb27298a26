----------------------------- MODULE MCGeometry -----------------------------
\* Instances of Geometry: files of at most eight pages, two to a page of the
\* system, and the plans that tell its runs apart.
EXTENDS Geometry, TLC

CONSTANTS p1, p2

Symmetric == Permutations(Procs)

Calm == [init |-> <<3, 4>>,
         geo |-> [lower |-> 2, upper |-> 8, grow |-> 2, shrink |-> 2],
         asked |-> {}, given |-> {}, steps |-> {4}, txns |-> 4,
         alone |-> FALSE, inside |-> FALSE, below |-> TRUE, weak |-> FALSE,
         kill |-> FALSE, power |-> FALSE, busy |-> FALSE]

Geo(lower, now, upper, grow, shrink) ==
    [lower |-> lower, now |-> now, upper |-> upper, grow |-> grow, shrink |-> shrink]

\* No geometry is asked for; everything may die at any time.
Dying == [Calm EXCEPT !.weak = TRUE, !.kill = TRUE, !.power = TRUE]

\* Geometries are set between transactions and by the first opener, every
\* commit is steady, the system restarts.
Asking == [Calm EXCEPT !.power = TRUE, !.busy = TRUE,
           !.asked = {Geo(2, 4, 6, 2, 2), Geo(4, 0, 8, 2, 0)},
           !.given = {Geo(2, 8, 8, 0, 4)}]

\* Readers and writers only, with boundaries hit exactly.
Crowded == [Calm EXCEPT !.steps = {1, 4}, !.txns = 3]

\* One process: geometries also set within a write transaction, which does
\* not give back pages of the head; the mapping may be stuck.
Inside == [Calm EXCEPT !.alone = TRUE, !.inside = TRUE, !.below = FALSE, !.kill = TRUE,
                       !.power = TRUE, !.busy = TRUE,
                       !.asked = {Geo(2, 4, 6, 2, 2), Geo(4, 0, 8, 2, 0)}]

ThePlans == {Dying, Asking, Crowded, Inside}

\* Plans outside of these, each with one step too many: Openable fails for
\* Refunded (a geometry is set below the pages of the head before the process
\* dies) and Unsynced (while the head is weak), Backed for Aborted (within a
\* transaction that is aborted while another process goes on), Stale (by a
\* process whose idea of the file is older than a cut) and Killed (by a
\* process that dies before the meta page is written).
Aborted == {[Inside EXCEPT !.alone = FALSE, !.kill = FALSE, !.power = FALSE, !.busy = FALSE]}
Refunded == {[Inside EXCEPT !.below = TRUE]}
Unsynced == {[Asking EXCEPT !.weak = TRUE]}
Stale == {[Calm EXCEPT !.asked = {Geo(2, 8, 8, 2, 2)}]}
Killed == {[Calm EXCEPT !.asked = {Geo(2, 4, 6, 2, 2)}, !.kill = TRUE]}
=============================================================================

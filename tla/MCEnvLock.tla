----------------------------- MODULE MCEnvLock -----------------------------
(* Instances of EnvLock: two handles in one process and one in another.    *)
EXTENDS EnvLock, TLC

MCProcOf == "a" :> "p1" @@ "b" :> "p1" @@ "c" :> "p2"
Durable == [rdonly |-> FALSE, excl |-> FALSE, lazy |-> FALSE]
Lazy == [Durable EXCEPT !.lazy = TRUE]
ReadOnly == [Durable EXCEPT !.rdonly = TRUE]
Exclusive == [Durable EXCEPT !.excl = TRUE]

Mixed == "a" :> {Lazy} @@ "b" :> {ReadOnly} @@ "c" :> {Lazy, Durable, Exclusive}
OneEach == [Mixed EXCEPT !["b"] = {}]
Agreed == "a" :> {Lazy} @@ "b" :> {ReadOnly} @@ "c" :> {Lazy}

\* OFD locks and handles that may not get along, one in each process and a
\* deleter, or two in one process and the other process killed; POSIX locks
\* and MDBX_DBG_LEGACY_MULTIOPEN with handles of which none is refused.
OfdDelete == [ofd |-> TRUE, legacy |-> FALSE, modes |-> OneEach, mortal |-> {}, deleters |-> {"d"}]
OfdKill == [ofd |-> TRUE, legacy |-> FALSE, modes |-> Mixed, mortal |-> {"p2"}, deleters |-> {}]
Legacy == [ofd |-> FALSE, legacy |-> TRUE, modes |-> Agreed, mortal |-> {"p2"}, deleters |-> {}]
AllSettings == {OfdDelete, OfdKill, Legacy}

\* Where the code falls short of its comments: a handle closed without a
\* sync, and two handles of one process next to a deleter.
Unsynced == {[OfdKill EXCEPT !.mortal = {}, !.modes = Agreed]}
TwoAndDeleter == {[OfdDelete EXCEPT !.modes = Mixed]}
=============================================================================

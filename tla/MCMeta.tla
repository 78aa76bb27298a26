------------------------------- MODULE MCMeta -------------------------------
(***************************************************************************)
(* Instances of Meta for TLC.                                              *)
(***************************************************************************)
EXTENDS Meta

\* The modes of an environment: durable, MDBX_NOMETASYNC, MDBX_SAFE_NOSYNC and
\* MDBX_UTTERLY_NOSYNC, as combine_durability_flags completes them.
Durable == {}
NoMetaSync == {"NOMETASYNC"}
SafeNoSync == {"NOMETASYNC", "SAFE_NOSYNC"}
Utterly == {"NOMETASYNC", "SAFE_NOSYNC", "UTTERLY"}
Map(mode) == mode \cup {"WRITEMAP"}

AllModes ==
    LET modes == {Durable, NoMetaSync, SafeNoSync, Utterly}
    IN  modes \cup {Map(mode) : mode \in modes}

\* What a write transaction may add to the flags of its environment.
WeakTxns(modes) ==
    [flags \in modes |->
        {{}, {"SAFE_NOSYNC"}}
        \cup IF "WRITEMAP" \in flags THEN {} ELSE {{"NOMETASYNC"}}]
NoFlags(modes) == [flags \in modes |-> {{}}]

\* Durable environments with weak transactions on a system that crashes.
CrashPlan ==
    LET modes == {Durable, Map(Durable)} IN
    [flags |-> modes, txns |-> WeakTxns(modes), top |-> 6, gens |-> 3,
     boots |-> 2, kills |-> {Durable}, io |-> FALSE]

\* Every mode, processes are killed and writes fail.
KillPlan ==
    [flags |-> AllModes, txns |-> NoFlags(AllModes), top |-> 5, gens |-> 2,
     boots |-> 0, kills |-> AllModes, io |-> TRUE]

BothPlans == [crash |-> CrashPlan, kill |-> KillPlan]
=============================================================================

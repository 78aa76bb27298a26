--------------------------- MODULE EnvLockProofs ---------------------------
(***************************************************************************)
(* Proofs about EnvLock with OFD locks, for any number of processes,       *)
(* handles, deleters and files.                                            *)
(*                                                                         *)
(* The argument.  Locks of two owners on one byte are both for reading.    *)
(* From lck_seize to the end of its use a handle holds the first byte of   *)
(* its lck file, for writing while it initialises the region, and whoever  *)
(* empties the file holds all of its bytes for writing.  So the region is  *)
(* neither initialised nor emptied under a user, and what a user found in  *)
(* it (the signature, the mutexes, the mode, its reader slots) stays.      *)
(***************************************************************************)
EXTENDS EnvLock, TLAPS

Pcs == {"closed", "opened", "enter", "try", "shared", "dxb", "retry", "again", "against",
        "register", "map", "mutex", "mode", "setup", "narrow", "downgrade", "sweep", "active",
        "closing", "lckall", "dxball", "truncate", "closedxb", "closelck", "restoredxb",
        "restorelck", "restorepid", "remove"}

Flags == [rdonly : BOOLEAN, excl : BOOLEAN, lazy : BOOLEAN]

EnvType == [pc : Pcs, dxb : 0 .. MaxFiles, lck : 0 .. MaxFiles, excl : BOOLEAN, mapped : BOOLEAN,
            ready : BOOLEAN, listed : BOOLEAN, rpid : BOOLEAN, heir : Envs \cup {Nobody},
            flags : Flags]

LckType == [full : BOOLEAN, magic : BOOLEAN, mutex : {"raw", "live", "dead"}, unsynced : BOOLEAN,
            envmode : {"ro", "lazy", "durable"}, readers : SUBSET Procs]

\* The types of what the proofs look at, and the files a handle has opened.
TypeOK ==
    /\ locking \in Settings
    /\ dir \in [Kinds -> 0 .. MaxFiles] /\ made \in [Kinds -> 0 .. MaxFiles]
    /\ lck \in [Inodes -> LckType]
    /\ env \in [Envs -> EnvType]
    /\ \A e \in Envs : env[e].pc \notin {"closed", "opened"} => env[e].lck \in Inodes

Rec(kind, ino, byte, own, type) ==
    [kind |-> kind, ino |-> ino, byte |-> byte, own |-> own, type |-> type]

\* The handle holds a byte of its lck file, of its data file.
OnLck(e, byte, type) == Rec("lck", env[e].lck, byte, e, type) \in locks
OnDxb(e, byte, type) == Rec("dxb", env[e].dxb, byte, e, type) \in locks

\* What fcntl() keeps: no two owners hold a byte unless both read.
Compatible(ls) ==
    \A l, m \in ls : l.kind = m.kind /\ l.ino = m.ino /\ l.byte = m.byte /\ l.own # m.own
                       => l.type = "r" /\ m.type = "r"

\* From the first successful lock in lck_seize to its close a handle is a
\* member of the domain of its lck file.
Seized == {"register", "map", "mutex", "mode", "setup", "narrow", "downgrade", "sweep", "active"}

\* The region has been mapped, and found or made valid.
Member == Seized \ {"register", "map"}

Holds(e) ==
    /\ env[e].pc = "dxb" => OnLck(e, First, "w")
    /\ env[e].pc \in {"again", "against"} => OnLck(e, First, "r")
    /\ env[e].pc \in Seized =>
          IF env[e].excl /\ env[e].pc # "active" THEN OnLck(e, First, "w") ELSE OnLck(e, First, "r")
    /\ env[e].pc \in {"dxball", "truncate"} => \A b \in Bytes : OnLck(e, b, "w")
    /\ env[e].pc \in {"mutex", "narrow", "downgrade"} => env[e].excl
    /\ env[e].pc = "sweep" => ~env[e].excl
    /\ env[e].pc \in Seized \ {"register"} => env[e].listed
    /\ env[e].pc \in Member => env[e].mapped
    /\ env[e].pc \in Member => lck[env[e].lck].full /\ lck[env[e].lck].magic
    /\ env[e].pc = "active" /\ env[e].rpid =>
          OnLck(e, ProcOf[e], "w") /\ ProcOf[e] \in lck[env[e].lck].readers
    /\ env[e].rpid => env[e].pc \in {"active", "closing"}
    /\ env[e].pc \notin {"restoredxb", "restorelck", "restorepid"}

\* The inductive invariant.
LockInv == Compatible(locks) /\ \A e \in Envs : Holds(e)
EnvInv == TypeOK /\ (locking.ofd => LockInv)

-----------------------------------------------------------------------------
(* Two more invariants, each for the behaviours it is true of               *)

\* Names are never taken from a file.
NoDeletions == locking.ofd /\ locking.deleters = {}

Undeleted == \A d \in Deleters : d \in locking.deleters \/ del[d].pc = "start"

\* Every handle has opened the data file and the lck file of that name.
Named(e) ==
    /\ env[e].pc # "closed" => env[e].dxb = dir.dxb /\ dir.dxb # 0
    /\ env[e].pc \notin {"closed", "opened"} => env[e].lck = dir.lck /\ dir.lck # 0

\* Nobody is killed or deletes, and everybody who closes syncs.
Calm == NoDeletions /\ locking.mortal = {} /\ DontSync = {}

\* The mutexes of a region that looks initialised work, unless its only user
\* is on the way from one to the other.
MutexesWork ==
    \A i \in Inodes : lck[i].full =>
        lck[i].mutex = "live" \/ \E e \in Envs : env[e].lck = i /\ env[e].pc \in {"mutex", "truncate"}

\* An unsynced region has a user who will sync.
SyncPending ==
    \A i \in Inodes : lck[i].unsynced =>
        \E e \in Envs : env[e].lck = i /\ env[e].pc = "active" /\ ~env[e].flags.rdonly

\* No handle is opened with MDBX_EXCLUSIVE and MDBX_RDONLY at once: such a one
\* has only read locks on the data file, which keep no other reader out.
Sharing == NoDeletions /\ \A e \in Envs : \A f \in locking.modes[e] : ~(f.excl /\ f.rdonly)

Modes(e) ==
    /\ env[e].pc # "closed" => ~(env[e].flags.excl /\ env[e].flags.rdonly)
    /\ env[e].pc \in Seized \ {"register"} /\ env[e].flags.excl => env[e].excl
    /\ env[e].pc \in Seized => OnDxb(e, ProcOf[e], Share(e))
    /\ env[e].pc \in Seized /\ env[e].excl
         /\ (env[e].flags.excl \/ env[e].pc \notin {"downgrade", "active"}) =>
          \A b \in Bytes : OnDxb(e, b, Share(e))
    /\ env[e].pc \in {"setup", "downgrade", "sweep", "active"} /\ ~env[e].flags.rdonly =>
          (env[e].excl /\ env[e].pc = "setup") \/ ModeOf(env[e].flags) = lck[env[e].lck].envmode

NameInv == NoDeletions => Undeleted /\ \A e \in Envs : Named(e)
CalmInv == Calm => MutexesWork /\ SyncPending
ShareInv == Sharing => \A e \in Envs : Modes(e)

-----------------------------------------------------------------------------
(* Types                                                                    *)

\* A step of a handle writes its own record and no other.
Mine(e) == env' \in [Envs -> EnvType] /\ \A n \in Envs \ {e} : env'[n] = env[n]

\* Whatever holds in the model of the constants.
LEMMA Naming ==
    ASSUME NEW e \in Envs
    PROVE  /\ ProcOf[e] \in Procs /\ e # Nobody /\ e \notin Procs /\ e \notin Deleters
           /\ ProcOf[e] # First /\ {First, ProcOf[e]} \subseteq Bytes
           /\ \A s \in Settings : s.modes[e] \subseteq Flags
  BY EnvLockAssumption DEF Bytes, Flags

\* The inodes are small natural numbers.
LEMMA Sizes == MaxFiles \in Nat /\ Inodes \subseteq 0 .. MaxFiles /\ 0 \in 0 .. MaxFiles
  BY EnvLockAssumption DEF Inodes

\* A handle with another record of the right type.
LEMMA SetType ==
    ASSUME TypeOK, NEW e \in Envs, NEW r \in EnvType, env' = [env EXCEPT ![e] = r]
    PROVE  Mine(e) /\ env'[e] = r
  BY DEF TypeOK, Mine

\* Moving on to another step of a call keeps the types.
LEMMA GotoType ==
    ASSUME TypeOK, NEW e \in Envs, NEW pc \in Pcs, Goto(e, pc)
    PROVE  /\ Mine(e) /\ env'[e] = [env[e] EXCEPT !.pc = pc]
           /\ env'[e].pc = pc /\ env'[e].lck = env[e].lck
  BY DEF TypeOK, Goto, Mine, EnvType

\* A step of one handle that leaves the shared state well typed keeps the
\* types.
LEMMA TypeStep ==
    ASSUME TypeOK, NEW e \in Envs, Mine(e), locking' = locking,
           dir' \in [Kinds -> 0 .. MaxFiles], made' \in [Kinds -> 0 .. MaxFiles],
           lck' \in [Inodes -> LckType],
           env'[e].pc \notin {"closed", "opened"} => env'[e].lck \in Inodes
    PROVE  TypeOK'
  BY DEF TypeOK, Mine

\* Opening or creating a file yields an inode.
LEMMA OpenFileType ==
    ASSUME TypeOK, NEW kind \in Kinds, OpenFile(kind)
    PROVE  /\ dir' \in [Kinds -> 0 .. MaxFiles] /\ made' \in [Kinds -> 0 .. MaxFiles]
           /\ OpenedFile(kind) \in Inodes /\ dir'[kind] = OpenedFile(kind)
           /\ \A k \in Kinds \ {kind} : dir'[k] = dir[k]
           /\ dir[kind] # 0 => dir' = dir
  BY EnvLockAssumption DEF TypeOK, OpenFile, OpenedFile, Inodes, Kinds, files

\* The calls of mdbx_env_open keep the types.
LEMMA OpeningType ==
    ASSUME TypeOK, NEW e \in Envs, Opening(e)
    PROVE  TypeOK' /\ Mine(e)
PROOF
  <1>0. /\ env[e] \in EnvType
        /\ env[e].pc \notin {"closed", "opened"} => env[e].lck \in Inodes
        /\ dir \in [Kinds -> 0 .. MaxFiles] /\ made \in [Kinds -> 0 .. MaxFiles]
        /\ lck \in [Inodes -> LckType]
    BY DEF TypeOK
  <1>1. CASE OpenLck(e)
    <2>1. /\ dir' \in [Kinds -> 0 .. MaxFiles] /\ made' \in [Kinds -> 0 .. MaxFiles]
          /\ OpenedFile("lck") \in Inodes
      BY <1>1, OpenFileType DEF OpenLck, Kinds
    <2> DEFINE r == [env[e] EXCEPT !.lck = OpenedFile("lck"), !.pc = "enter"]
    <2>2. env' = [env EXCEPT ![e] = r]
      BY <1>1 DEF OpenLck, TypeOK
    <2>3. r \in EnvType /\ r.lck \in Inodes
      BY <1>0, <2>1, Sizes DEF EnvType, Pcs
    <2>4. Mine(e) /\ env'[e].lck \in Inodes
      BY <2>2, <2>3, SetType
    <2> QED BY <1>0, <1>1, <2>1, <2>4, TypeStep DEF OpenLck, rest
  <1>2. CASE Enter(e) \/ TryExclusive(e) \/ TakeShared(e) \/ UnlockBeforeRetry(e)
             \/ RetryExclusive(e) \/ Downgrade(e)
    <2>1. /\ env[e].pc \notin {"closed", "opened"}
          /\ \E pc \in Pcs : Goto(e, pc)
          /\ UNCHANGED <<locking, dir, made, lck>>
      BY <1>2 DEF Enter, TryExclusive, TakeShared, UnlockBeforeRetry, RetryExclusive, Downgrade,
                  SetupFails, Pcs, rest, files
    <2> QED BY <1>0, <2>1, GotoType, TypeStep
  <1>3. CASE DxbExclusive(e) \/ LockAgainst(e)
    <2>1. /\ env[e].pc \notin {"closed", "opened"} /\ UNCHANGED <<locking, dir, made, lck>>
          /\ \/ Goto(e, "closing") \/ Goto(e, "shared")
             \/ env' = [env EXCEPT ![e].excl = TRUE, ![e].pc = "register"]
             \/ env' = [env EXCEPT ![e].excl = FALSE, ![e].pc = "register"]
      BY <1>3 DEF DxbExclusive, LockAgainst, SetupFails, rest, files
    <2>2. CASE \E pc \in Pcs : Goto(e, pc)
      BY <1>0, <2>1, <2>2, GotoType, TypeStep
    <2>3. ASSUME NEW x \in BOOLEAN, env' = [env EXCEPT ![e].excl = x, ![e].pc = "register"]
          PROVE  Mine(e) /\ env'[e].lck = env[e].lck
      <3> DEFINE r == [env[e] EXCEPT !.excl = x, !.pc = "register"]
      <3>1. env' = [env EXCEPT ![e] = r]
        BY <2>3 DEF TypeOK
      <3>2. r \in EnvType /\ r.lck = env[e].lck
        BY <1>0 DEF EnvType, Pcs
      <3> QED BY <3>1, <3>2, SetType
    <2> QED BY <1>0, <2>1, <2>2, <2>3, TypeStep DEF Pcs
  <1>4. CASE Register(e)
    <2>1. PICK x \in BOOLEAN, pc \in {"closing", "map"} :
             env' = [env EXCEPT ![e].listed = TRUE, ![e].excl = x, ![e].pc = pc]
      BY <1>0, <1>4 DEF Register, EnvType
    <2> DEFINE r == [env[e] EXCEPT !.listed = TRUE, !.excl = x, !.pc = pc]
    <2>2. env' = [env EXCEPT ![e] = r]
      BY <2>1 DEF TypeOK
    <2>3. r \in EnvType /\ r.lck = env[e].lck
      BY <1>0 DEF EnvType, Pcs
    <2>4. Mine(e) /\ env'[e].lck \in Inodes
      BY <1>0, <1>4, <2>2, <2>3, SetType DEF Register
    <2> QED BY <1>0, <1>4, <2>4, TypeStep DEF Register, rest, files
  <1>5. CASE MapExclusive(e)
    <2>1. lck' \in [Inodes -> LckType]
      BY <1>0, <1>5 DEF MapExclusive, EmptyLck, LckType
    <2> DEFINE r == [env[e] EXCEPT !.mapped = TRUE, !.pc = "mutex"]
    <2>2. env' = [env EXCEPT ![e] = r]
      BY <1>5 DEF TypeOK, MapExclusive
    <2>3. r \in EnvType /\ r.lck = env[e].lck
      BY <1>0 DEF EnvType, Pcs
    <2>4. Mine(e) /\ env'[e].lck \in Inodes
      BY <1>0, <1>5, <2>2, <2>3, SetType DEF MapExclusive
    <2> QED BY <1>0, <1>5, <2>1, <2>4, TypeStep DEF MapExclusive, rest, files
  <1>6. CASE InitMutexes(e)
    <2>1. lck' \in [Inodes -> LckType]
      BY <1>0, <1>6 DEF InitMutexes, LckType
    <2> DEFINE r == [env[e] EXCEPT !.ready = TRUE, !.pc = "mode"]
    <2>2. env' = [env EXCEPT ![e] = r]
      BY <1>6 DEF TypeOK, InitMutexes
    <2>3. r \in EnvType /\ r.lck = env[e].lck
      BY <1>0 DEF EnvType, Pcs
    <2>4. Mine(e) /\ env'[e].lck \in Inodes
      BY <1>0, <1>6, <2>2, <2>3, SetType DEF InitMutexes
    <2> QED BY <1>0, <1>6, <2>1, <2>4, TypeStep DEF InitMutexes, rest, files
  <1>7. CASE MapShared(e)
    <2>1. PICK m \in BOOLEAN, y \in BOOLEAN, pc \in {"closing", "mode"} :
             env' = [env EXCEPT ![e].mapped = m, ![e].ready = y, ![e].pc = pc]
      BY <1>0, <1>7 DEF MapShared, LckType
    <2> DEFINE r == [env[e] EXCEPT !.mapped = m, !.ready = y, !.pc = pc]
    <2>2. env' = [env EXCEPT ![e] = r]
      BY <2>1 DEF TypeOK
    <2>3. r \in EnvType /\ r.lck = env[e].lck
      BY <1>0 DEF EnvType, Pcs
    <2>4. Mine(e) /\ env'[e].lck \in Inodes
      BY <1>0, <1>7, <2>2, <2>3, SetType DEF MapShared
    <2> QED BY <1>0, <1>7, <2>4, TypeStep DEF MapShared, rest, files
  <1>8. CASE CheckMode(e) \/ DxbSetup(e) \/ Narrow(e)
             \/ (env[e].pc = "sweep" /\ mvcc_cleanup_dead(e))
    <2>1. /\ env[e].pc \notin {"closed", "opened"} /\ UNCHANGED <<locking, dir, made>>
          /\ \E pc \in Pcs : Goto(e, pc)
      BY <1>8 DEF CheckMode, DxbSetup, Narrow, mvcc_cleanup_dead, Pcs, rest, files
    <2>2. ModeOf(env[e].flags) \in {"ro", "lazy", "durable"}
      BY DEF ModeOf
    <2>3. lck' \in [Inodes -> LckType]
      BY <1>0, <1>8, <2>2 DEF CheckMode, DxbSetup, Narrow, mvcc_cleanup_dead, LckType, rest, files
    <2> QED BY <1>0, <2>1, <2>3, GotoType, TypeStep
  <1> QED BY <1>1, <1>2, <1>3, <1>4, <1>5, <1>6, <1>7, <1>8 DEF Opening

\* So do those of mdbx_env_close_ex.
LEMMA ClosingType ==
    ASSUME TypeOK, NEW e \in Envs, Closing(e)
    PROVE  TypeOK' /\ Mine(e)
PROOF
  <1>0. /\ env[e] \in EnvType
        /\ env[e].pc \notin {"closed", "opened"} => env[e].lck \in Inodes
        /\ dir \in [Kinds -> 0 .. MaxFiles] /\ made \in [Kinds -> 0 .. MaxFiles]
        /\ lck \in [Inodes -> LckType]
    BY DEF TypeOK
  <1>1. CASE rthc_drown(e)
    <2>1. PICK h \in Envs \cup {Nobody}, pc \in {"lckall", "closedxb"} :
             env' = [env EXCEPT ![e].heir = h, ![e].rpid = FALSE, ![e].pc = pc]
      BY <1>1 DEF rthc_drown, Neighbours
    <2>2. lck' \in [Inodes -> LckType]
      BY <1>0, <1>1 DEF rthc_drown, LckType
    <2> DEFINE r == [env[e] EXCEPT !.heir = h, !.rpid = FALSE, !.pc = pc]
    <2>3. env' = [env EXCEPT ![e] = r]
      BY <2>1 DEF TypeOK
    <2>4. r \in EnvType /\ r.lck = env[e].lck
      BY <1>0 DEF EnvType, Pcs
    <2>5. Mine(e) /\ env'[e].lck \in Inodes
      BY <1>0, <1>1, <2>3, <2>4, SetType DEF rthc_drown
    <2> QED BY <1>0, <1>1, <2>2, <2>5, TypeStep DEF rthc_drown, rest, files
  <1>2. CASE SeizeLck(e) \/ CloseDxb(e) \/ RestoreDxb(e) \/ CloseLck(e) \/ RestoreLck(e) \/ RestorePid(e)
    <2>1. /\ env[e].pc \notin {"closed", "opened"} /\ UNCHANGED <<locking, dir, made, lck>>
          /\ \E pc \in Pcs : Goto(e, pc)
      BY <1>2 DEF SeizeLck, CloseDxb, RestoreDxb, CloseLck, RestoreLck, RestorePid, Pcs, rest, files
    <2> QED BY <1>0, <2>1, GotoType, TypeStep
  <1>3. CASE DestroyMutexes(e)
    <2>1. /\ env[e].pc \notin {"closed", "opened"} /\ UNCHANGED <<locking, dir, made>>
          /\ \E pc \in Pcs : Goto(e, pc)
      BY <1>3 DEF DestroyMutexes, Pcs, rest, files
    <2>2. lck' \in [Inodes -> LckType]
      BY <1>0, <1>3 DEF DestroyMutexes, LckType
    <2> QED BY <1>0, <2>1, <2>2, GotoType, TypeStep
  <1>4. CASE Truncate(e)
    <2>1. lck' \in [Inodes -> LckType]
      BY <1>0, <1>4 DEF Truncate, LckType, EmptyLck
    <2> DEFINE r == [env[e] EXCEPT !.mapped = FALSE, !.ready = FALSE, !.pc = "closedxb"]
    <2>2. env' = [env EXCEPT ![e] = r]
      BY <1>4 DEF TypeOK, Truncate
    <2>3. r \in EnvType /\ r.lck = env[e].lck
      BY <1>0 DEF EnvType, Pcs
    <2>4. Mine(e) /\ env'[e].lck \in Inodes
      BY <1>0, <1>4, <2>2, <2>3, SetType DEF Truncate
    <2> QED BY <1>0, <1>4, <2>1, <2>4, TypeStep DEF Truncate, rest, files
  <1>5. CASE rthc_remove(e)
    <2>1. ClosedEnv \in EnvType /\ ClosedEnv.pc = "closed"
      BY Sizes DEF ClosedEnv, EnvType, Flags, Pcs
    <2>2. Mine(e) /\ env'[e].pc = "closed"
      BY <1>5, <2>1, SetType DEF rthc_remove
    <2> QED BY <1>0, <1>5, <2>2, TypeStep DEF rthc_remove, rest, files
  <1> QED BY <1>1, <1>2, <1>3, <1>4, <1>5 DEF Closing

\* And what an open environment does, mdbx_env_open of a closed one included.
LEMMA UsingType ==
    ASSUME TypeOK, NEW e \in Envs, Using(e)
    PROVE  TypeOK' /\ Mine(e)
PROOF
  <1>0. /\ env[e] \in EnvType
        /\ env[e].pc \notin {"closed", "opened"} => env[e].lck \in Inodes
        /\ dir \in [Kinds -> 0 .. MaxFiles] /\ made \in [Kinds -> 0 .. MaxFiles]
        /\ lck \in [Inodes -> LckType]
    BY DEF TypeOK
  <1>1. ASSUME NEW f \in locking.modes[e], Open(e, f) PROVE TypeOK' /\ Mine(e)
    <2>1. /\ dir' \in [Kinds -> 0 .. MaxFiles] /\ made' \in [Kinds -> 0 .. MaxFiles]
          /\ OpenedFile("dxb") \in Inodes
      BY <1>1, OpenFileType DEF Open, Kinds
    <2>2. f \in Flags
      BY Naming DEF TypeOK
    <2> DEFINE r == [ClosedEnv EXCEPT !.pc = "opened", !.flags = f, !.dxb = OpenedFile("dxb")]
    <2>3. r \in EnvType /\ r.pc = "opened"
      BY <2>1, <2>2, Sizes DEF ClosedEnv, EnvType, Pcs
    <2>4. Mine(e) /\ env'[e].pc = "opened"
      BY <1>1, <2>3, SetType DEF Open
    <2> QED BY <1>0, <1>1, <2>1, <2>4, TypeStep DEF Open
  <1>2. CASE env[e].pc = "active" /\ mvcc_cleanup_dead(e)
    <2>1. lck' \in [Inodes -> LckType]
      <3> DEFINE i == env[e].lck
      <3>1. i \in Inodes /\ lck[i] \in LckType
        BY <1>0, <1>2
      <3>2. [lck[i] EXCEPT !.readers = @ \ Stale(e)] \in LckType
        BY <3>1 DEF LckType
      <3> QED BY <1>0, <1>2, <3>2 DEF mvcc_cleanup_dead
    <2>2. \E pc \in Pcs : Goto(e, pc)
      BY <1>2 DEF mvcc_cleanup_dead, Pcs
    <2> QED BY <1>0, <1>2, <2>1, <2>2, GotoType, TypeStep DEF mvcc_cleanup_dead, rest, files
  <1>3. CASE mvcc_bind_slot(e)
    <2>0. ProcOf[e] \in Procs
      BY Naming
    <2>1. lck' \in [Inodes -> LckType]
      <3> DEFINE i == env[e].lck
      <3>1. i \in Inodes /\ lck[i] \in LckType
        BY <1>0, <1>3 DEF mvcc_bind_slot
      <3>2. [lck[i] EXCEPT !.readers = @ \cup {ProcOf[e]}] \in LckType
        BY <3>1, <2>0 DEF LckType
      <3> QED BY <1>0, <1>3, <3>2 DEF mvcc_bind_slot
    <2> DEFINE r == [env[e] EXCEPT !.rpid = TRUE]
    <2>2. env' = [env EXCEPT ![e] = r]
      BY <1>3 DEF TypeOK, mvcc_bind_slot
    <2>3. r \in EnvType /\ r.lck = env[e].lck
      BY <1>0 DEF EnvType
    <2>4. Mine(e) /\ env'[e].lck \in Inodes
      BY <1>0, <1>3, <2>2, <2>3, SetType DEF mvcc_bind_slot
    <2> QED BY <1>0, <1>3, <2>1, <2>4, TypeStep DEF mvcc_bind_slot, rest, files
  <1>4. CASE LazyCommit(e)
    <2>1. lck' \in [Inodes -> LckType]
      <3> DEFINE i == env[e].lck
      <3>1. i \in Inodes /\ lck[i] \in LckType
        BY <1>0, <1>4 DEF LazyCommit
      <3>2. [lck[i] EXCEPT !.unsynced = TRUE] \in LckType
        BY <3>1 DEF LckType
      <3> QED BY <1>0, <1>4, <3>2 DEF LazyCommit
    <2>2. Mine(e) /\ env' = env
      BY <1>4 DEF LazyCommit, TypeOK, Mine
    <2> QED BY <1>0, <1>4, <2>1, <2>2, TypeStep DEF LazyCommit, rest, files
  <1>5. ASSUME NEW synced \in BOOLEAN, Close(e, synced) PROVE TypeOK' /\ Mine(e)
    <2>1. lck' \in [Inodes -> LckType]
      <3> DEFINE i == env[e].lck
      <3>1. i \in Inodes /\ lck[i] \in LckType
        BY <1>0, <1>5 DEF Close
      <3>2. [lck[i] EXCEPT !.unsynced = FALSE] \in LckType
        BY <3>1 DEF LckType
      <3> QED BY <1>0, <1>5, <3>2 DEF Close
    <2>2. \E pc \in Pcs : Goto(e, pc)
      BY <1>5 DEF Close, Pcs
    <2> QED BY <1>0, <1>5, <2>1, <2>2, GotoType, TypeStep DEF Close, rest, files
  <1> QED BY <1>1, <1>2, <1>3, <1>4, <1>5 DEF Using

\* mdbx_env_delete and a killed process touch no more than the names and the
\* handles of the process.
LEMMA OtherType ==
    ASSUME TypeOK, (\E d \in Deleters : mdbx_env_delete(d)) \/ (\E p \in Procs : Kill(p))
    PROVE  /\ TypeOK' /\ lck' = lck /\ locking' = locking
           /\ \A e \in Envs : env'[e] \in {env[e], ClosedEnv}
PROOF
  <1>0. ClosedEnv \in EnvType /\ ClosedEnv.pc = "closed"
    BY Sizes DEF ClosedEnv, EnvType, Flags, Pcs
  <1>1. ASSUME NEW d \in Deleters, mdbx_env_delete(d)
        PROVE  UNCHANGED <<locking, made, lck, env>> /\ dir' \in [Kinds -> 0 .. MaxFiles]
    BY <1>1, Sizes DEF mdbx_env_delete, DelOpenDxb, DelOpenLck, DelLock, DelUnlink, DelClose,
            OtherThanDel, TypeOK, Kinds
  <1>2. ASSUME NEW p \in Procs, Kill(p)
        PROVE  /\ UNCHANGED <<locking, dir, made, lck>>
               /\ env' \in [Envs -> EnvType] /\ \A e \in Envs : env'[e] \in {env[e], ClosedEnv}
    BY <1>0, <1>2 DEF Kill, TypeOK
  <1> QED BY <1>0, <1>1, <1>2 DEF TypeOK

-----------------------------------------------------------------------------
(* Record locks                                                             *)

\* F_UNLCK takes the records of its owner on those bytes, and no others.
LEMMA UnlockedFacts ==
    ASSUME NEW ls, NEW own, NEW kind, NEW ino, NEW bytes, Compatible(ls)
    PROVE  LET us == Unlocked(ls, own, kind, ino, bytes)
           IN  /\ Compatible(us) /\ us \subseteq ls
               /\ \A l \in ls : (l.own # own \/ ~On(l, kind, ino, bytes)) => l \in us
  BY DEF Unlocked, Compatible

\* F_SETLK that does not meet a conflicting record keeps the records
\* compatible: it adds its own and replaces only those of its owner.
LEMMA LockedFacts ==
    ASSUME NEW ls, NEW own, NEW kind, NEW ino, NEW bytes, NEW type, Compatible(ls),
           \A l \in ls : (On(l, kind, ino, bytes) /\ l.own # own) => (type = "r" /\ l.type = "r")
    PROVE  LET us == Locked(ls, own, kind, ino, bytes, type)
           IN  /\ Compatible(us)
               /\ \A l \in ls : (l.own # own \/ ~On(l, kind, ino, bytes)) => l \in us
               /\ \A b \in bytes : Rec(kind, ino, b, own, type) \in us
PROOF
  <1> DEFINE us == Locked(ls, own, kind, ino, bytes, type)
             new == {[kind |-> kind, ino |-> ino, byte |-> b, own |-> own, type |-> type] : b \in bytes}
  <1>1. us = Unlocked(ls, own, kind, ino, bytes) \cup new
    BY DEF Locked
  <1>2. \A l \in new : On(l, kind, ino, bytes) /\ l.own = own /\ l.type = type
    BY DEF On
  <1>3. \A l \in us \ new : l \in ls
    BY <1>1 DEF Unlocked
  <1>4. ASSUME NEW l \in new, NEW m \in us, l.kind = m.kind, l.ino = m.ino, l.byte = m.byte, l.own # m.own
        PROVE  l.type = "r" /\ m.type = "r"
    <2>1. m \in ls /\ On(m, kind, ino, bytes) /\ m.own # own
      BY <1>2, <1>3, <1>4 DEF On
    <2> QED BY <1>2, <2>1
  <1>5. Compatible(us)
    <2> SUFFICES ASSUME NEW l \in us, NEW m \in us, l.kind = m.kind, l.ino = m.ino,
                        l.byte = m.byte, l.own # m.own
                 PROVE  l.type = "r" /\ m.type = "r"
      BY DEF Compatible
    <2>1. CASE l \in new
      BY <1>4, <2>1
    <2>2. CASE m \in new
      BY <1>4, <2>2
    <2>3. CASE l \notin new /\ m \notin new
      BY <1>3, <2>3 DEF Compatible
    <2> QED BY <2>1, <2>2, <2>3
  <1>6. \A l \in ls : (l.own # own \/ ~On(l, kind, ino, bytes)) => l \in us
    BY <1>1 DEF Unlocked
  <1>7. \A b \in bytes : Rec(kind, ino, b, own, type) \in us
    BY <1>1 DEF Rec
  <1> QED BY <1>5, <1>6, <1>7

\* The same for the locks there are, with an OFD lock as the owner.
LEMMA LockTaken ==
    ASSUME NEW e \in Envs, locking.ofd, Compatible(locks), NEW kind, NEW ino, NEW bytes, NEW type,
           CanLock(Owner(e), kind, ino, bytes, type),
           locks' = Locked(locks, Owner(e), kind, ino, bytes, type)
    PROVE  /\ Compatible(locks')
           /\ \A l \in locks : (l.own # e \/ ~On(l, kind, ino, bytes)) => l \in locks'
           /\ \A b \in bytes : Rec(kind, ino, b, e, type) \in locks'
  <1>1. Owner(e) = e
    BY DEF Owner
  <1> QED BY <1>1, LockedFacts DEF CanLock

\* Giving up a lock touches no record of others and none on other bytes.
LEMMA LockDropped ==
    ASSUME NEW e \in Envs, locking.ofd, Compatible(locks), NEW kind, NEW ino, NEW bytes,
           locks' = Unlocked(locks, Owner(e), kind, ino, bytes)
    PROVE  /\ Compatible(locks')
           /\ \A l \in locks : (l.own # e \/ ~On(l, kind, ino, bytes)) => l \in locks'
  <1>1. Owner(e) = e
    BY DEF Owner
  <1> QED BY <1>1, UnlockedFacts

\* Two owners of one byte, one of them for writing, there are not.
LEMMA TwoOwners ==
    ASSUME Compatible(locks), NEW e, NEW n, e # n, NEW kind, NEW ino, NEW byte, NEW type,
           Rec(kind, ino, byte, e, "w") \in locks, Rec(kind, ino, byte, n, type) \in locks
    PROVE  FALSE
  <1>1. Rec(kind, ino, byte, e, "w").own = e /\ Rec(kind, ino, byte, n, type).own = n
    BY DEF Rec
  <1>2. Rec(kind, ino, byte, e, "w").type = "w"
    BY DEF Rec
  <1> QED BY <1>1, <1>2 DEF Compatible, Rec

-----------------------------------------------------------------------------
(* Who holds what                                                           *)

\* A handle keeps what it has when its own record and locks are left alone and
\* what it found in the region stays.
LEMMA HoldsKept ==
    ASSUME NEW n \in Envs, Holds(n), env'[n] = env[n],
           \A l \in locks : l.own = n => l \in locks',
           env[n].pc \in Member => lck'[env[n].lck].full /\ lck'[env[n].lck].magic,
           env[n].pc = "active" /\ env[n].rpid => ProcOf[n] \in lck'[env[n].lck].readers
    PROVE  Holds(n)'
  <1>1. \A k, i, b, t : Rec(k, i, b, n, t) \in locks => Rec(k, i, b, n, t) \in locks'
    BY DEF Rec
  <1> QED BY <1>1 DEF Holds, OnLck

\* A step of one handle that leaves the region to the others as it was.
LEMMA LockStep ==
    ASSUME TypeOK, LockInv, NEW e \in Envs, Mine(e), Compatible(locks'), Holds(e)',
           \A l \in locks : l.own # e => l \in locks',
           \A n \in Envs \ {e} :
              /\ env[n].pc \in Member => lck'[env[n].lck].full /\ lck'[env[n].lck].magic
              /\ env[n].pc = "active" /\ env[n].rpid => ProcOf[n] \in lck'[env[n].lck].readers
    PROVE  LockInv'
  <1>1. ASSUME NEW n \in Envs \ {e} PROVE Holds(n)'
    BY <1>1, HoldsKept DEF LockInv, Mine
  <1> QED BY <1>1 DEF LockInv

\* ... because it writes nothing into it.
LEMMA LockStepSame ==
    ASSUME TypeOK, LockInv, NEW e \in Envs, Mine(e), Compatible(locks'), Holds(e)',
           \A l \in locks : l.own # e => l \in locks', lck' = lck
    PROVE  LockInv'
  <1>1. \A n \in Envs : Holds(n)
    BY DEF LockInv
  <1> QED BY <1>1, LockStep DEF Holds

\* What a step to another place of the code leaves alone.
Moved(e, pc) ==
    /\ Mine(e) /\ env'[e].pc = pc
    /\ env'[e].lck = env[e].lck /\ env'[e].dxb = env[e].dxb /\ env'[e].excl = env[e].excl
    /\ env'[e].listed = env[e].listed /\ env'[e].mapped = env[e].mapped
    /\ env'[e].rpid = env[e].rpid /\ env'[e].flags = env[e].flags

\* A handle that only moves on keeps its other fields.
LEMMA GotoMoves ==
    ASSUME TypeOK, NEW e \in Envs, NEW pc \in Pcs, Goto(e, pc)
    PROVE  Moved(e, pc)
  <1>1. env[e] \in EnvType
    BY DEF TypeOK
  <1>2. Mine(e) /\ env'[e] = [env[e] EXCEPT !.pc = pc]
    BY GotoType
  <1>3. \A r \in EnvType : LET s == [r EXCEPT !.pc = pc]
                           IN  /\ s.pc = pc /\ s.lck = r.lck /\ s.dxb = r.dxb /\ s.excl = r.excl
                               /\ s.listed = r.listed /\ s.mapped = r.mapped
                               /\ s.rpid = r.rpid /\ s.flags = r.flags
    BY DEF EnvType
  <1> QED BY <1>1, <1>2, <1>3 DEF Moved

\* What lck_setup_locked and bind_slot set beside the place of the code.
LEMMA FieldsSet ==
    ASSUME NEW r \in EnvType, NEW x, NEW pc
    PROVE  /\ LET s == [r EXCEPT !.excl = x, !.pc = pc]
              IN  /\ s.pc = pc /\ s.lck = r.lck /\ s.dxb = r.dxb /\ s.excl = x /\ s.listed = r.listed
                  /\ s.mapped = r.mapped /\ s.rpid = r.rpid /\ s.flags = r.flags
           /\ LET s == [r EXCEPT !.listed = TRUE, !.excl = x, !.pc = pc]
              IN  /\ s.pc = pc /\ s.lck = r.lck /\ s.dxb = r.dxb /\ s.excl = x /\ s.listed
                  /\ s.mapped = r.mapped /\ s.rpid = r.rpid /\ s.flags = r.flags
  BY DEF EnvType

\* Setting a mark of a handle keeps its other fields.
LEMMA MarksSet ==
    ASSUME NEW r \in EnvType, NEW pc
    PROVE  /\ LET s == [r EXCEPT !.mapped = TRUE, !.pc = pc]
              IN  /\ s.pc = pc /\ s.lck = r.lck /\ s.dxb = r.dxb /\ s.excl = r.excl
                  /\ s.listed = r.listed /\ s.mapped /\ s.rpid = r.rpid /\ s.flags = r.flags
           /\ LET s == [r EXCEPT !.ready = TRUE, !.pc = pc]
              IN  /\ s.pc = pc /\ s.lck = r.lck /\ s.dxb = r.dxb /\ s.excl = r.excl
                  /\ s.listed = r.listed /\ s.mapped = r.mapped /\ s.rpid = r.rpid /\ s.flags = r.flags
           /\ LET s == [r EXCEPT !.rpid = TRUE]
              IN  /\ s.pc = r.pc /\ s.lck = r.lck /\ s.dxb = r.dxb /\ s.excl = r.excl
                  /\ s.listed = r.listed /\ s.mapped = r.mapped /\ s.rpid /\ s.flags = r.flags
  BY DEF EnvType

\* lck_seize: every record it leaves is one its next step relies on.
LEMMA SeizeStep ==
    ASSUME TypeOK, LockInv, locking.ofd, NEW e \in Envs,
           TryExclusive(e) \/ DxbExclusive(e) \/ TakeShared(e) \/ UnlockBeforeRetry(e)
             \/ RetryExclusive(e) \/ LockAgainst(e)
    PROVE  LockInv'
PROOF
  <1>0. Holds(e) /\ Compatible(locks) /\ Mine(e) /\ env[e] \in EnvType
    BY OpeningType DEF LockInv, Opening, TypeOK
  <1> DEFINE i == env[e].lck
             j == env[e].dxb
  <1>1. CASE TryExclusive(e)
    <2>1. lck' = lck
      BY <1>1 DEF TryExclusive, SetupFails, files
    <2>2. CASE CanLock(Owner(e), "lck", i, {First}, "w")
      <3>1. locks' = Locked(locks, Owner(e), "lck", i, {First}, "w")
        BY <1>1, <2>2 DEF TryExclusive
      <3>2. /\ Compatible(locks') /\ \A l \in locks : l.own # e => l \in locks'
            /\ Rec("lck", i, First, e, "w") \in locks'
        BY <1>0, <2>2, <3>1, LockTaken
      <3>3. Moved(e, "closing") \/ Moved(e, "dxb")
        BY <1>1, <2>2, GotoMoves DEF TryExclusive, SetupFails, Pcs
      <3>4. Holds(e)'
        BY <1>0, <1>1, <3>2, <3>3 DEF Holds, Moved, Seized, Member, OnLck, TryExclusive
      <3> QED BY <1>0, <2>1, <3>2, <3>4, LockStepSame
    <2>3. CASE ~CanLock(Owner(e), "lck", i, {First}, "w")
      <3>1. Moved(e, "shared") /\ locks' = locks
        BY <1>1, <2>3, GotoMoves DEF TryExclusive, Pcs
      <3>2. Holds(e)'
        BY <1>0, <1>1, <3>1 DEF Holds, Moved, Seized, Member, OnLck, TryExclusive
      <3> QED BY <1>0, <2>1, <3>1, <3>2, LockStepSame
    <2> QED BY <2>2, <2>3
  <1>2. CASE DxbExclusive(e)
    <2>1. lck' = lck /\ env[e].pc = "dxb" /\ OnLck(e, First, "w") /\ ~env[e].rpid
      BY <1>0, <1>2 DEF DxbExclusive, SetupFails, files, Holds
    <2>2. CASE CanLock(Owner(e), "dxb", j, Bytes, Share(e))
      <3>1. locks' = Locked(locks, Owner(e), "dxb", j, Bytes, Share(e))
        BY <1>2, <2>2 DEF DxbExclusive
      <3>2. /\ Compatible(locks')
            /\ \A l \in locks : (l.own # e \/ ~On(l, "dxb", j, Bytes)) => l \in locks'
        BY <1>0, <2>2, <3>1, LockTaken
      <3>3. Rec("lck", i, First, e, "w") \in locks'
        BY <2>1, <3>2 DEF OnLck, Rec, On
      <3>4. env'[e] = [env[e] EXCEPT !.excl = TRUE, !.pc = "register"]
        BY <1>2, <2>2 DEF DxbExclusive, TypeOK
      <3>5. env'[e].pc = "register" /\ env'[e].lck = i /\ env'[e].excl /\ env'[e].rpid = env[e].rpid
        BY <1>0, <3>4, FieldsSet
      <3>6. Holds(e)'
        BY <2>1, <3>3, <3>5 DEF Holds, Seized, Member, OnLck
      <3> QED BY <1>0, <2>1, <3>2, <3>6, LockStepSame
    <2>3. CASE ~CanLock(Owner(e), "dxb", j, Bytes, Share(e))
      <3>1. (Moved(e, "closing") \/ Moved(e, "shared")) /\ locks' = locks
        BY <1>2, <2>3, GotoMoves DEF DxbExclusive, SetupFails, Pcs
      <3>2. Holds(e)'
        BY <2>1, <3>1 DEF Holds, Moved, Seized, Member, OnLck
      <3> QED BY <1>0, <2>1, <3>1, <3>2, LockStepSame
    <2> QED BY <2>2, <2>3
  <1>3. CASE TakeShared(e)
    <2>1. /\ lck' = lck /\ env[e].pc = "shared" /\ ~env[e].rpid
          /\ CanLock(Owner(e), "lck", i, {First}, "r")
          /\ locks' = Locked(locks, Owner(e), "lck", i, {First}, "r")
      BY <1>0, <1>3 DEF TakeShared, SetupFails, files, Holds
    <2>2. /\ Compatible(locks') /\ \A l \in locks : l.own # e => l \in locks'
          /\ Rec("lck", i, First, e, "r") \in locks'
      BY <1>0, <2>1, LockTaken
    <2>3. Moved(e, "closing") \/ Moved(e, "retry") \/ Moved(e, "again")
      BY <1>3, GotoMoves DEF TakeShared, SetupFails, Pcs
    <2>4. Holds(e)'
      BY <2>1, <2>2, <2>3 DEF Holds, Moved, Seized, Member, OnLck
    <2> QED BY <1>0, <2>1, <2>2, <2>4, LockStepSame
  <1>4. CASE UnlockBeforeRetry(e)
    <2>1. /\ lck' = lck /\ Moved(e, "try") /\ ~env[e].rpid
          /\ locks' = Unlocked(locks, Owner(e), "lck", i, {First})
      BY <1>0, <1>4, GotoMoves DEF UnlockBeforeRetry, files, Holds, Pcs
    <2>2. Compatible(locks') /\ \A l \in locks : l.own # e => l \in locks'
      BY <1>0, <2>1, LockDropped
    <2>3. Holds(e)'
      BY <2>1 DEF Holds, Moved, Seized, Member
    <2> QED BY <1>0, <2>1, <2>2, <2>3, LockStepSame
  <1>5. CASE RetryExclusive(e)
    <2>1. lck' = lck /\ env[e].pc = "again" /\ OnLck(e, First, "r") /\ ~env[e].rpid
      BY <1>0, <1>5 DEF RetryExclusive, files, Holds
    <2>2. CASE CanLock(Owner(e), "lck", i, {First}, "w")
      <3>1. locks' = Locked(locks, Owner(e), "lck", i, {First}, "w") /\ Moved(e, "dxb")
        BY <1>5, <2>2, GotoMoves DEF RetryExclusive, Pcs
      <3>2. /\ Compatible(locks') /\ \A l \in locks : l.own # e => l \in locks'
            /\ Rec("lck", i, First, e, "w") \in locks'
        BY <1>0, <2>2, <3>1, LockTaken
      <3>3. Holds(e)'
        BY <2>1, <3>1, <3>2 DEF Holds, Moved, Seized, Member, OnLck
      <3> QED BY <1>0, <2>1, <3>2, <3>3, LockStepSame
    <2>3. CASE ~CanLock(Owner(e), "lck", i, {First}, "w")
      <3>1. Moved(e, "against") /\ locks' = locks
        BY <1>5, <2>3, GotoMoves DEF RetryExclusive, Pcs
      <3>2. Holds(e)'
        BY <2>1, <3>1 DEF Holds, Moved, Seized, Member, OnLck
      <3> QED BY <1>0, <2>1, <3>1, <3>2, LockStepSame
    <2> QED BY <2>2, <2>3
  <1>6. CASE LockAgainst(e)
    <2>1. lck' = lck /\ env[e].pc = "against" /\ OnLck(e, First, "r") /\ ~env[e].rpid
      BY <1>0, <1>6 DEF LockAgainst, SetupFails, files, Holds
    <2>2. CASE CanLock(Owner(e), "dxb", j, {ProcOf[e]}, Share(e))
      <3>1. locks' = Locked(locks, Owner(e), "dxb", j, {ProcOf[e]}, Share(e))
        BY <1>6, <2>2 DEF LockAgainst
      <3>2. /\ Compatible(locks')
            /\ \A l \in locks : (l.own # e \/ ~On(l, "dxb", j, {ProcOf[e]})) => l \in locks'
        BY <1>0, <2>2, <3>1, LockTaken
      <3>3. Rec("lck", i, First, e, "r") \in locks'
        BY <2>1, <3>2 DEF OnLck, Rec, On
      <3>4. env'[e] = [env[e] EXCEPT !.excl = FALSE, !.pc = "register"]
        BY <1>6, <2>2 DEF LockAgainst, TypeOK
      <3>5. env'[e].pc = "register" /\ env'[e].lck = i /\ ~env'[e].excl /\ env'[e].rpid = env[e].rpid
        BY <1>0, <3>4, FieldsSet
      <3>6. Holds(e)'
        BY <2>1, <3>3, <3>5 DEF Holds, Seized, Member, OnLck
      <3> QED BY <1>0, <2>1, <3>2, <3>6, LockStepSame
    <2>3. CASE ~CanLock(Owner(e), "dxb", j, {ProcOf[e]}, Share(e))
      <3>1. Moved(e, "closing") /\ locks' = locks
        BY <1>6, <2>3, GotoMoves DEF LockAgainst, SetupFails, Pcs
      <3>2. Holds(e)'
        BY <2>1, <3>1 DEF Holds, Moved, Seized, Member, OnLck
      <3> QED BY <1>0, <2>1, <3>1, <3>2, LockStepSame
    <2> QED BY <2>2, <2>3
  <1> QED BY <1>1, <1>2, <1>3, <1>4, <1>5, <1>6

\* lck_downgrade keeps the first byte of the lck file, for reading, and what
\* the handle has elsewhere in the lck file.
LEMMA LckDowngradedFacts ==
    ASSUME NEW e \in Envs, locking.ofd, NEW ls, Compatible(ls),
           Rec("lck", env[e].lck, First, e, "w") \in ls
    PROVE  LET us == LckDowngraded(ls, e)
           IN  /\ Compatible(us) /\ Rec("lck", env[e].lck, First, e, "r") \in us
               /\ \A l \in ls : (l.own # e \/ ~On(l, "lck", env[e].lck, {First})) => l \in us
PROOF
  <1>1. Owner(e) = e
    BY DEF Owner
  <1>2. \A l \in ls : (On(l, "lck", env[e].lck, {First}) /\ l.own # e) => l.type = "r"
    <2> SUFFICES ASSUME NEW l \in ls, On(l, "lck", env[e].lck, {First}), l.own # e
                 PROVE  l.type = "r"
      OBVIOUS
    <2>1. /\ Rec("lck", env[e].lck, First, e, "w").kind = "lck"
          /\ Rec("lck", env[e].lck, First, e, "w").ino = env[e].lck
          /\ Rec("lck", env[e].lck, First, e, "w").byte = First
          /\ Rec("lck", env[e].lck, First, e, "w").own = e
      BY DEF Rec
    <2> QED BY <2>1 DEF Compatible, On
  <1> QED BY <1>1, <1>2, LockedFacts DEF LckDowngraded

\* ... and on the data file it takes nothing from the lck file.
LEMMA DxbDowngradedFacts ==
    ASSUME NEW e \in Envs, locking.ofd, NEW ls, Compatible(ls)
    PROVE  LET us == DxbDowngraded(ls, e)
           IN  /\ Compatible(us) /\ us \subseteq ls
               /\ \A l \in ls : (l.own # e \/ l.kind = "lck") => l \in us
               /\ env[e].flags.excl => us = ls
               /\ Rec("dxb", env[e].dxb, ProcOf[e], e, Share(e)) \in ls =>
                     Rec("dxb", env[e].dxb, ProcOf[e], e, Share(e)) \in us
PROOF
  <1>1. Owner(e) = e
    BY DEF Owner
  <1> DEFINE bs == Bytes \ {ProcOf[e]}
             us == Unlocked(ls, e, "dxb", env[e].dxb, bs)
  <1>2. /\ Compatible(us) /\ us \subseteq ls
        /\ \A l \in ls : (l.own # e \/ ~On(l, "dxb", env[e].dxb, bs)) => l \in us
    BY UnlockedFacts
  <1>3. \A l \in ls : l.kind = "lck" \/ l.byte = ProcOf[e] => ~On(l, "dxb", env[e].dxb, bs)
    BY DEF On
  <1>4. Rec("dxb", env[e].dxb, ProcOf[e], e, Share(e)).byte = ProcOf[e]
    BY DEF Rec
  <1> QED BY <1>1, <1>2, <1>3, <1>4 DEF DxbDowngraded

\* rthc_register and rthc_uniq_check.
LEMMA RegisterStep ==
    ASSUME TypeOK, LockInv, locking.ofd, NEW e \in Envs, Register(e)
    PROVE  LockInv'
PROOF
  <1>0. Holds(e) /\ Compatible(locks) /\ Mine(e) /\ env[e] \in EnvType
    BY OpeningType DEF LockInv, Opening, TypeOK
  <1> DEFINE joins == Neighbours(e) # {}
  <1>1. PICK x \in BOOLEAN, pc \in {"closing", "map"} :
           /\ env' = [env EXCEPT ![e].listed = TRUE, ![e].excl = x, ![e].pc = pc]
           /\ x = (env[e].excl /\ ~joins)
           /\ locks' # locks => /\ joins /\ env[e].excl
                                /\ locks' = LckDowngraded(DxbDowngraded(locks, e), e)
           /\ (pc = "map" /\ joins /\ env[e].excl) => locks' = LckDowngraded(DxbDowngraded(locks, e), e)
    BY <1>0 DEF Register, EnvType
  <1>2. env'[e] = [env[e] EXCEPT !.listed = TRUE, !.excl = x, !.pc = pc]
    BY <1>1 DEF TypeOK
  <1>3. /\ env'[e].pc = pc /\ env'[e].lck = env[e].lck /\ env'[e].excl = x
        /\ env'[e].rpid = env[e].rpid /\ env'[e].listed
    BY <1>0, <1>2, FieldsSet
  <1>4. lck' = lck /\ env[e].pc = "register" /\ ~env[e].rpid
    BY <1>0 DEF Register, files, Holds
  <1>5. CASE locks' = LckDowngraded(DxbDowngraded(locks, e), e) /\ env[e].excl /\ ~x
    <2>1. Rec("lck", env[e].lck, First, e, "w") \in locks
      BY <1>0, <1>4, <1>5 DEF Holds, OnLck, Seized
    <2>2. Rec("lck", env[e].lck, First, e, "w") \in DxbDowngraded(locks, e)
      <3>1. Rec("lck", env[e].lck, First, e, "w").kind = "lck"
        BY DEF Rec
      <3> QED BY <1>0, <2>1, <3>1, DxbDowngradedFacts
    <2>3. /\ Compatible(locks') /\ \A l \in locks : l.own # e => l \in locks'
          /\ Rec("lck", env[e].lck, First, e, "r") \in locks'
      BY <1>0, <1>5, <2>2, DxbDowngradedFacts, LckDowngradedFacts
    <2>4. Holds(e)'
      BY <1>3, <1>4, <1>5, <2>3 DEF Holds, OnLck, Seized, Member
    <2> QED BY <1>0, <1>4, <2>3, <2>4, LockStepSame
  <1>6. CASE locks' = locks /\ ((pc = "map" /\ env[e].excl) => x)
    <2>1. Holds(e)'
      BY <1>0, <1>1, <1>3, <1>4, <1>6 DEF Holds, OnLck, Seized, Member
    <2> QED BY <1>0, <1>4, <1>6, <2>1, LockStepSame
  <1> QED BY <1>1, <1>5, <1>6

\* The first byte for writing keeps every other member out of the region.
LEMMA NoOtherMember ==
    ASSUME LockInv, NEW e \in Envs, NEW n \in Envs, e # n, env[n].lck = env[e].lck,
           OnLck(e, First, "w"), env[n].pc \in Seized
    PROVE  FALSE
  <1>1. Compatible(locks) /\ Holds(n)
    BY DEF LockInv
  <1>2. OnLck(n, First, "w") \/ OnLck(n, First, "r")
    BY <1>1 DEF Holds
  <1> QED BY <1>1, <1>2, TwoOwners DEF OnLck

\* The region is cleared by its only member.
LEMMA MapExclusiveStep ==
    ASSUME TypeOK, LockInv, locking.ofd, NEW e \in Envs, MapExclusive(e)
    PROVE  LockInv'
PROOF
  <1>0. /\ Holds(e) /\ Compatible(locks) /\ Mine(e) /\ env[e] \in EnvType /\ locks' = locks
        /\ env[e].lck \in Inodes /\ env[e].pc = "map" /\ env[e].excl
    BY OpeningType DEF LockInv, Opening, TypeOK, MapExclusive
  <1>1. OnLck(e, First, "w") /\ env[e].listed /\ ~env[e].rpid
    BY <1>0 DEF Holds, Seized
  <1>2. env'[e] = [env[e] EXCEPT !.mapped = TRUE, !.pc = "mutex"]
    BY DEF TypeOK, MapExclusive
  <1>3. /\ env'[e].pc = "mutex" /\ env'[e].lck = env[e].lck /\ env'[e].excl = env[e].excl
        /\ env'[e].rpid = env[e].rpid /\ env'[e].listed = env[e].listed /\ env'[e].mapped
    <2>1. env[e] \in EnvType
      BY DEF TypeOK
    <2> QED BY <1>2, <2>1, MarksSet
  <1>4. /\ lck'[env[e].lck].full /\ lck'[env[e].lck].magic
        /\ \A i \in Inodes : i # env[e].lck => lck'[i] = lck[i]
    <2> DEFINE r == [EmptyLck EXCEPT !.full = TRUE, !.magic = TRUE]
    <2>1. r.full /\ r.magic
      BY DEF EmptyLck
    <2>2. lck'[env[e].lck] = r /\ \A i \in Inodes : i # env[e].lck => lck'[i] = lck[i]
      BY <1>0 DEF MapExclusive, TypeOK
    <2> QED BY <2>1, <2>2
  <1>5. Holds(e)'
    BY <1>0, <1>1, <1>3, <1>4 DEF Holds, OnLck, Seized, Member
  <1>6. ASSUME NEW n \in Envs \ {e}, env[n].pc \in Seized
        PROVE  lck'[env[n].lck] = lck[env[n].lck]
    <2>1. env[n].lck \in Inodes
      BY <1>6 DEF TypeOK, Seized
    <2> QED BY <1>1, <1>4, <1>6, <2>1, NoOtherMember
  <1>7. \A n \in Envs : Holds(n)
    BY DEF LockInv
  <1>8. \A n \in Envs \ {e} :
           /\ env[n].pc \in Member => lck'[env[n].lck].full /\ lck'[env[n].lck].magic
           /\ env[n].pc = "active" /\ env[n].rpid => ProcOf[n] \in lck'[env[n].lck].readers
    BY <1>6, <1>7 DEF Holds, Member, Seized
  <1> QED BY <1>0, <1>5, <1>8, LockStep

\* What leaves size, signature and reader slots of the regions alone.
RegionsKept ==
    \A i \in Inodes : /\ lck'[i].full = lck[i].full /\ lck'[i].magic = lck[i].magic
                      /\ lck'[i].readers = lck[i].readers

\* A handle whose own records stay still holds what it held.
LEMMA LockStepKept ==
    ASSUME TypeOK, LockInv, NEW e \in Envs, Mine(e), Compatible(locks'), Holds(e)',
           \A l \in locks : l.own # e => l \in locks', RegionsKept
    PROVE  LockInv'
  <1>1. \A n \in Envs : Holds(n)
    BY DEF LockInv
  <1>2. \A n \in Envs : env[n].pc \in Member => env[n].lck \in Inodes
    BY DEF TypeOK, Member, Seized
  <1>3. "active" \in Member
    BY DEF Member, Seized
  <1>4. \A n \in Envs \ {e} :
           /\ env[n].pc \in Member => lck'[env[n].lck].full /\ lck'[env[n].lck].magic
           /\ env[n].pc = "active" /\ env[n].rpid => ProcOf[n] \in lck'[env[n].lck].readers
    BY <1>1, <1>2, <1>3 DEF Holds, RegionsKept
  <1> QED BY <1>4, LockStep

\* The rest of env_open up to the downgrade of the lck file.
LEMMA SetupStep ==
    ASSUME TypeOK, LockInv, locking.ofd, NEW e \in Envs,
           InitMutexes(e) \/ MapShared(e) \/ CheckMode(e) \/ DxbSetup(e) \/ Narrow(e) \/ Downgrade(e)
    PROVE  LockInv'
PROOF
  <1>0. /\ Holds(e) /\ Compatible(locks) /\ Mine(e) /\ env[e] \in EnvType
        /\ env[e].pc \notin {"closed", "opened"} => env[e].lck \in Inodes
    BY OpeningType DEF LockInv, Opening, TypeOK
  <1>1. CASE InitMutexes(e)
    <2>1. RegionsKept /\ locks' = locks
      BY <1>1 DEF InitMutexes, RegionsKept, TypeOK, LckType
    <2>2. env'[e] = [env[e] EXCEPT !.ready = TRUE, !.pc = "mode"]
      BY <1>1 DEF TypeOK, InitMutexes
    <2>3. /\ env'[e].pc = "mode" /\ env'[e].lck = env[e].lck /\ env'[e].excl = env[e].excl
          /\ env'[e].rpid = env[e].rpid /\ env'[e].listed = env[e].listed
          /\ env'[e].mapped = env[e].mapped
      BY <1>0, <2>2, MarksSet
    <2>4. env[e].pc = "mutex" /\ env[e].lck \in Inodes
      BY <1>0, <1>1 DEF InitMutexes
    <2>5. Holds(e)'
      BY <1>0, <2>1, <2>3, <2>4 DEF Holds, OnLck, Seized, Member, RegionsKept
    <2> QED BY <1>0, <2>1, <2>5, LockStepKept
  <1>2. CASE MapShared(e)
    <2>1. /\ lck' = lck /\ locks' = locks /\ env[e].pc = "map" /\ ~env[e].excl
          /\ env[e].lck \in Inodes
      BY <1>0, <1>2 DEF MapShared, files
    <2>2. PICK m \in BOOLEAN, y \in BOOLEAN, pc \in {"mode", "closing"} :
             /\ env'[e] = [env[e] EXCEPT !.mapped = m, !.ready = y, !.pc = pc]
             /\ pc = "mode" => m /\ lck[env[e].lck].full /\ lck[env[e].lck].magic
      BY <1>2, <2>1 DEF MapShared, TypeOK, LckType
    <2>3. /\ env'[e].pc = pc /\ env'[e].lck = env[e].lck /\ env'[e].excl = env[e].excl
          /\ env'[e].rpid = env[e].rpid /\ env'[e].listed = env[e].listed /\ env'[e].mapped = m
      BY <1>0, <2>2 DEF EnvType
    <2>4. Holds(e)'
      BY <1>0, <2>1, <2>2, <2>3 DEF Holds, OnLck, Seized, Member
    <2> QED BY <1>0, <2>1, <2>4, LockStepSame
  <1>3. CASE CheckMode(e)
    <2>1. RegionsKept /\ locks' = locks /\ env[e].pc = "mode" /\ env[e].lck \in Inodes
      BY <1>0, <1>3 DEF CheckMode, RegionsKept, TypeOK, LckType
    <2>2. Moved(e, "closing") \/ Moved(e, "setup")
      BY <1>3, GotoMoves DEF CheckMode, Pcs
    <2>3. Holds(e)'
      BY <1>0, <2>1, <2>2 DEF Holds, Moved, OnLck, Seized, Member, RegionsKept
    <2> QED BY <1>0, <2>1, <2>3, LockStepKept
  <1>4. CASE DxbSetup(e)
    <2>1. lck' = lck /\ locks' = locks /\ env[e].pc = "setup"
      BY <1>4 DEF DxbSetup
    <2>2. Moved(e, "closing") \/ Moved(e, IF env[e].excl THEN "narrow" ELSE "sweep")
      BY <1>4, GotoMoves DEF DxbSetup, Pcs
    <2>3. Holds(e)'
      BY <1>0, <2>1, <2>2 DEF Holds, Moved, OnLck, Seized, Member
    <2> QED BY <1>0, <2>1, <2>3, LockStepSame
  <1>5. CASE Narrow(e)
    <2>1. /\ RegionsKept /\ env[e].pc = "narrow" /\ env[e].lck \in Inodes
          /\ locks' = DxbDowngraded(locks, e)
      BY <1>0, <1>5 DEF Narrow, RegionsKept, TypeOK, LckType
    <2>2. Moved(e, "downgrade")
      BY <1>5, GotoMoves DEF Narrow, Pcs
    <2>3. OnLck(e, First, "w") /\ env[e].excl
      BY <1>0, <2>1 DEF Holds, Seized
    <2>4. /\ Compatible(locks') /\ \A l \in locks : l.own # e => l \in locks'
          /\ \A l \in locks : l.kind = "lck" => l \in locks'
      BY <1>0, <2>1, DxbDowngradedFacts
    <2>5. Rec("lck", env[e].lck, First, e, "w") \in locks'
      BY <2>3, <2>4 DEF OnLck, Rec
    <2>6. Holds(e)'
      BY <1>0, <2>1, <2>2, <2>3, <2>5 DEF Holds, Moved, OnLck, Seized, Member, RegionsKept
    <2> QED BY <1>0, <2>1, <2>4, <2>6, LockStepKept
  <1>6. CASE Downgrade(e)
    <2>1. /\ lck' = lck /\ env[e].pc = "downgrade" /\ locks' = LckDowngraded(locks, e)
          /\ Moved(e, "active")
      BY <1>6, GotoMoves DEF Downgrade, Pcs, files
    <2>2. OnLck(e, First, "w") /\ ~env[e].rpid
      BY <1>0, <2>1 DEF Holds, Seized
    <2>3. /\ Compatible(locks') /\ \A l \in locks : l.own # e => l \in locks'
          /\ Rec("lck", env[e].lck, First, e, "r") \in locks'
      BY <1>0, <2>1, <2>2, LckDowngradedFacts DEF OnLck
    <2>4. Holds(e)'
      BY <1>0, <2>1, <2>2, <2>3 DEF Holds, Moved, OnLck, Seized, Member
    <2> QED BY <1>0, <2>1, <2>3, <2>4, LockStepSame
  <1> QED BY <1>1, <1>2, <1>3, <1>4, <1>5, <1>6

\* mvcc_cleanup_dead spares whoever holds the byte of its pid, and the readers
\* of the caller's own process.
LEMMA CleanupStep ==
    ASSUME TypeOK, LockInv, locking.ofd, NEW e \in Envs, Mine(e), mvcc_cleanup_dead(e)
    PROVE  LockInv'
PROOF
  <1> DEFINE i == env[e].lck
  <1>0. /\ Holds(e) /\ Compatible(locks) /\ env[e] \in EnvType /\ locks' = locks
        /\ env[e].pc \in {"sweep", "active"} /\ i \in Inodes
    BY DEF LockInv, TypeOK, mvcc_cleanup_dead
  <1>1. Moved(e, "active") \/ Moved(e, "closing")
    BY GotoMoves DEF mvcc_cleanup_dead, Pcs
  <1>2. /\ \A k \in Inodes : lck'[k].full = lck[k].full /\ lck'[k].magic = lck[k].magic
        /\ \A k \in Inodes : k # i => lck'[k] = lck[k]
        /\ \A p \in lck[i].readers : p \in lck'[i].readers \/ p \in Stale(e)
    <2>1. \A r \in LckType : \A x : LET s == [r EXCEPT !.readers = @ \ x]
                                IN  s.full = r.full /\ s.magic = r.magic /\ s.readers = r.readers \ x
      BY DEF LckType
    <2>2. lck[i] \in LckType /\ lck \in [Inodes -> LckType]
      BY <1>0 DEF TypeOK
    <2>3. lck' = lck \/ lck' = [lck EXCEPT ![i] = [lck[i] EXCEPT !.readers = @ \ Stale(e)]]
      BY <2>2 DEF mvcc_cleanup_dead
    <2> DEFINE s == [lck[i] EXCEPT !.readers = @ \ Stale(e)]
    <2>4. s.full = lck[i].full /\ s.magic = lck[i].magic /\ s.readers = lck[i].readers \ Stale(e)
      BY <2>1, <2>2
    <2> HIDE DEF s
    <2>5. CASE lck' = [lck EXCEPT ![i] = s]
      BY <1>0, <2>2, <2>4, <2>5
    <2> QED BY <2>3, <2>5 DEF s
  <1>3. ASSUME NEW n \in Envs, env[n].pc = "active", env[n].rpid
        PROVE  ProcOf[n] \in lck'[env[n].lck].readers
    <2>1. Holds(n) /\ env[n].lck \in Inodes
      BY <1>3 DEF LockInv, TypeOK
    <2>2. OnLck(n, ProcOf[n], "w") /\ ProcOf[n] \in lck[env[n].lck].readers
      BY <1>3, <2>1 DEF Holds
    <2>3. CASE env[n].lck = i
      <3>1. SUFFICES ASSUME ProcOf[n] \in Stale(e) PROVE FALSE
        BY <1>2, <2>2, <2>3
      <3>2. ProcOf[n] # ProcOf[e] /\ CanLock(Owner(e), "lck", i, {ProcOf[n]}, "w")
        BY <3>1 DEF Stale
      <3>3. Owner(e) = e /\ n # e
        BY <3>2 DEF Owner
      <3> QED BY <2>2, <2>3, <3>2, <3>3 DEF CanLock, On, OnLck, Rec
    <2>4. CASE env[n].lck # i
      BY <1>2, <2>1, <2>2, <2>4
    <2> QED BY <2>3, <2>4
  <1>4. \A n \in Envs : env[n].pc \in Member => lck'[env[n].lck].full /\ lck'[env[n].lck].magic
    <2>1. \A n \in Envs : Holds(n) /\ (env[n].pc \in Member => env[n].lck \in Inodes)
      BY DEF LockInv, TypeOK, Member, Seized
    <2> QED BY <1>2, <2>1 DEF Holds
  <1>5. Holds(e)'
    BY <1>0, <1>1, <1>3, <1>4 DEF Holds, Moved, OnLck, Seized, Member
  <1> QED BY <1>0, <1>3, <1>4, <1>5, LockStep

\* bind_slot registers the pid before the slot gets it.
LEMMA BindStep ==
    ASSUME TypeOK, LockInv, locking.ofd, NEW e \in Envs, mvcc_bind_slot(e)
    PROVE  LockInv'
PROOF
  <1> DEFINE i == env[e].lck
             p == ProcOf[e]
  <1>0. /\ Holds(e) /\ Compatible(locks) /\ Mine(e)
        /\ env[e].pc = "active" /\ i \in Inodes
        /\ CanLock(Owner(e), "lck", i, {p}, "w")
        /\ locks' = Locked(locks, Owner(e), "lck", i, {p}, "w")
    BY UsingType DEF LockInv, TypeOK, mvcc_bind_slot, Using
  <1>1. /\ Compatible(locks') /\ Rec("lck", i, p, e, "w") \in locks'
        /\ \A l \in locks : (l.own # e \/ ~On(l, "lck", i, {p})) => l \in locks'
    BY <1>0, LockTaken
  <1>2. p # First
    BY Naming
  <1>3. \A t : Rec("lck", i, First, e, t) \in locks => Rec("lck", i, First, e, t) \in locks'
    BY <1>1, <1>2 DEF On, Rec
  <1>4. /\ env'[e].pc = env[e].pc /\ env'[e].lck = env[e].lck /\ env'[e].excl = env[e].excl
        /\ env'[e].listed = env[e].listed /\ env'[e].mapped = env[e].mapped
    <2>1. env[e] \in EnvType /\ env'[e] = [env[e] EXCEPT !.rpid = TRUE]
      BY DEF TypeOK, mvcc_bind_slot
    <2> QED BY <2>1, MarksSet
  <1>5. /\ \A k \in Inodes : lck'[k].full = lck[k].full /\ lck'[k].magic = lck[k].magic
        /\ \A k \in Inodes : k # i => lck'[k] = lck[k]
        /\ lck'[i].readers = lck[i].readers \cup {p}
    <2>1. \A r \in LckType : \A x : LET s == [r EXCEPT !.readers = @ \cup x]
                                IN  s.full = r.full /\ s.magic = r.magic /\ s.readers = r.readers \cup x
      BY DEF LckType
    <2>2. lck[i] \in LckType /\ lck \in [Inodes -> LckType]
      BY <1>0 DEF TypeOK
    <2>3. lck' = [lck EXCEPT ![i] = [lck[i] EXCEPT !.readers = @ \cup {p}]]
      BY DEF mvcc_bind_slot
    <2> QED BY <1>0, <2>1, <2>2, <2>3
  <1>6. \A n \in Envs :
           /\ env[n].pc \in Member => lck'[env[n].lck].full /\ lck'[env[n].lck].magic
           /\ n # e /\ env[n].pc = "active" /\ env[n].rpid => ProcOf[n] \in lck'[env[n].lck].readers
    <2>1. /\ \A n \in Envs : Holds(n) /\ (env[n].pc \in Member => env[n].lck \in Inodes)
          /\ "active" \in Member
      BY DEF LockInv, TypeOK, Member, Seized
    <2> QED BY <1>5, <2>1 DEF Holds
  <1>7. Holds(e)'
    BY <1>0, <1>1, <1>3, <1>4, <1>5, <1>6 DEF Holds, OnLck, Seized, Member
  <1> QED BY <1>0, <1>1, <1>6, <1>7, LockStep

\* Opening, committing and leaving.
LEMMA QuietStep ==
    ASSUME TypeOK, LockInv, locking.ofd, NEW e \in Envs,
           \/ OpenLck(e) \/ Enter(e) \/ LazyCommit(e) \/ \E synced \in BOOLEAN : Close(e, synced)
           \/ \E f \in locking.modes[e] : Open(e, f)
    PROVE  LockInv'
PROOF
  <1>0. Holds(e) /\ Compatible(locks) /\ Mine(e) /\ env[e] \in EnvType /\ locks' = locks
    BY OpeningType, UsingType
       DEF LockInv, TypeOK, Opening, Using, OpenLck, Enter, LazyCommit, Close, Open, rest
  <1>1. ASSUME NEW f \in locking.modes[e], Open(e, f) PROVE LockInv'
    <2>1. lck' = lck /\ env'[e].pc = "opened" /\ ~env'[e].rpid
      BY <1>1 DEF Open, TypeOK, ClosedEnv
    <2>2. Holds(e)'
      BY <2>1 DEF Holds, Seized, Member
    <2> QED BY <1>0, <2>1, <2>2, LockStepSame
  <1>2. CASE OpenLck(e)
    <2>1. lck' = lck /\ env[e].pc = "opened" /\ env'[e] = [env[e] EXCEPT !.lck = OpenedFile("lck"), !.pc = "enter"]
      BY <1>2 DEF OpenLck, TypeOK
    <2>2. env'[e].pc = "enter" /\ env'[e].rpid = env[e].rpid
      BY <1>0, <2>1 DEF EnvType
    <2>3. Holds(e)'
      BY <1>0, <2>1, <2>2 DEF Holds, Seized, Member
    <2> QED BY <1>0, <2>1, <2>3, LockStepSame
  <1>3. CASE Enter(e)
    <2>1. lck' = lck /\ env[e].pc = "enter" /\ Moved(e, "try")
      BY <1>3, GotoMoves DEF Enter, Pcs
    <2>2. Holds(e)'
      BY <1>0, <2>1 DEF Holds, Moved, Seized, Member
    <2> QED BY <1>0, <2>1, <2>2, LockStepSame
  <1>4. ASSUME LazyCommit(e) \/ \E synced \in BOOLEAN : Close(e, synced) PROVE RegionsKept
    <2>1. \A r \in LckType, x \in BOOLEAN :
             LET s == [r EXCEPT !.unsynced = x]
             IN  s.full = r.full /\ s.magic = r.magic /\ s.readers = r.readers
      BY DEF LckType
    <2>2. env[e].lck \in Inodes /\ lck \in [Inodes -> LckType]
      BY <1>4 DEF TypeOK, LazyCommit, Close
    <2>3. lck' = lck \/ \E x \in BOOLEAN : lck' = [lck EXCEPT ![env[e].lck] = [lck[env[e].lck] EXCEPT !.unsynced = x]]
      BY <1>4 DEF LazyCommit, Close
    <2>4. ASSUME NEW x \in BOOLEAN,
                 lck' = [lck EXCEPT ![env[e].lck] = [lck[env[e].lck] EXCEPT !.unsynced = x]]
          PROVE  RegionsKept
      <3> DEFINE s == [lck[env[e].lck] EXCEPT !.unsynced = x]
      <3>1. /\ s.full = lck[env[e].lck].full /\ s.magic = lck[env[e].lck].magic
            /\ s.readers = lck[env[e].lck].readers
        BY <2>1, <2>2
      <3> HIDE DEF s
      <3>2. lck' = [lck EXCEPT ![env[e].lck] = s]
        BY <2>4 DEF s
      <3> QED BY <2>2, <3>1, <3>2 DEF RegionsKept
    <2> QED BY <2>3, <2>4 DEF RegionsKept
  <1>5. CASE LazyCommit(e)
    <2>1. env' = env
      BY <1>5 DEF LazyCommit
    <2>2. env[e].pc = "active" /\ env[e].lck \in Inodes
      BY <1>5 DEF LazyCommit, TypeOK
    <2>3. Holds(e)'
      BY <1>0, <1>4, <1>5, <2>1, <2>2 DEF Holds, OnLck, RegionsKept, Seized, Member
    <2> QED BY <1>0, <1>4, <1>5, <2>3, LockStepKept
  <1>6. ASSUME NEW synced \in BOOLEAN, Close(e, synced) PROVE LockInv'
    <2>1. Moved(e, "closing")
      BY <1>6, GotoMoves DEF Close, Pcs
    <2>2. Holds(e)'
      BY <2>1 DEF Holds, Moved, Seized, Member
    <2> QED BY <1>0, <1>4, <1>6, <2>2, LockStepKept
  <1> QED BY <1>1, <1>2, <1>3, <1>5, <1>6

\* rthc_drown clears the reader slots of its process only when no other handle
\* of the process is a member of the domain.
LEMMA DrownStep ==
    ASSUME TypeOK, LockInv, locking.ofd, NEW e \in Envs, rthc_drown(e)
    PROVE  LockInv'
PROOF
  <1> DEFINE i == env[e].lck
             alone == env[e].mapped /\ Neighbours(e) = {}
  <1>0. /\ Holds(e) /\ Compatible(locks) /\ Mine(e) /\ env[e].pc = "closing" /\ i \in Inodes
        /\ lck \in [Inodes -> LckType]
    BY ClosingType DEF LockInv, TypeOK, rthc_drown, Closing
  <1>1. /\ Compatible(locks') /\ \A l \in locks : l.own # e => l \in locks'
    <2>1. CASE locks' = locks
      BY <1>0, <2>1
    <2>2. CASE locks' = Unlocked(locks, Owner(e), "lck", i, {ProcOf[e]})
      BY <1>0, <2>2, LockDropped
    <2> QED BY <2>1, <2>2 DEF rthc_drown
  <1>2. PICK h \in Envs \cup {Nobody}, pc \in {"lckall", "closedxb"} :
           env'[e] = [env[e] EXCEPT !.heir = h, !.rpid = FALSE, !.pc = pc]
    <2>1. \E h \in Envs \cup {Nobody}, pc \in {"lckall", "closedxb"} :
             env' = [env EXCEPT ![e].heir = h, ![e].rpid = FALSE, ![e].pc = pc]
      BY DEF rthc_drown, Neighbours
    <2> QED BY <2>1 DEF TypeOK
  <1>3. env'[e].pc = pc /\ ~env'[e].rpid
    <2>1. env[e] \in EnvType
      BY DEF TypeOK
    <2>2. \A r \in EnvType : LET s == [r EXCEPT !.heir = h, !.rpid = FALSE, !.pc = pc]
                             IN  s.pc = pc /\ ~s.rpid
      BY DEF EnvType
    <2> QED BY <1>2, <2>1, <2>2
  <1>4. Holds(e)'
    BY <1>3 DEF Holds, Seized, Member
  <1>5. /\ \A k \in Inodes : lck'[k].full = lck[k].full /\ lck'[k].magic = lck[k].magic
        /\ \A k \in Inodes : k # i => lck'[k] = lck[k]
        /\ lck'[i].readers = lck[i].readers \/ (alone /\ lck'[i].readers = lck[i].readers \ {ProcOf[e]})
    <2> DEFINE s == [lck[i] EXCEPT !.readers = @ \ {ProcOf[e]}]
    <2>1. \A r \in LckType : \A x : LET t == [r EXCEPT !.readers = @ \ x]
                                IN  t.full = r.full /\ t.magic = r.magic /\ t.readers = r.readers \ x
      BY DEF LckType
    <2>2. s.full = lck[i].full /\ s.magic = lck[i].magic /\ s.readers = lck[i].readers \ {ProcOf[e]}
      BY <1>0, <2>1
    <2>3. lck' = lck \/ (alone /\ lck' = [lck EXCEPT ![i] = s])
      BY DEF rthc_drown
    <2> HIDE DEF s, alone
    <2> QED BY <1>0, <2>2, <2>3
  <1>6. ASSUME NEW n \in Envs \ {e}, env[n].pc = "active", env[n].rpid
        PROVE  ProcOf[n] \in lck'[env[n].lck].readers
    <2>1. Holds(n) /\ env[n].lck \in Inodes
      BY <1>6 DEF LockInv, TypeOK
    <2>2. /\ ProcOf[n] \in lck[env[n].lck].readers /\ env[n].listed /\ env[n].mapped
          /\ lck[env[n].lck].full
      BY <1>6, <2>1 DEF Holds, Member, Seized
    <2>3. (ProcOf[n] = ProcOf[e] /\ env[n].lck = i) => n \in Neighbours(e)
      BY <2>2 DEF Neighbours
    <2> QED BY <1>5, <2>1, <2>2, <2>3
  <1>7. \A n \in Envs : env[n].pc \in Member => lck'[env[n].lck].full /\ lck'[env[n].lck].magic
    <2>1. \A n \in Envs : Holds(n) /\ (env[n].pc \in Member => env[n].lck \in Inodes)
      BY DEF LockInv, TypeOK, Member, Seized
    <2> QED BY <1>5, <2>1 DEF Holds
  <1> QED BY <1>0, <1>1, <1>4, <1>6, <1>7, LockStep

\* lck_destroy empties the region only under the locks of all of its bytes.
LEMMA DestroyStep ==
    ASSUME TypeOK, LockInv, locking.ofd, NEW e \in Envs,
           SeizeLck(e) \/ DestroyMutexes(e) \/ Truncate(e)
    PROVE  LockInv'
PROOF
  <1> DEFINE i == env[e].lck
  <1>0. Holds(e) /\ Compatible(locks) /\ Mine(e)
    BY ClosingType DEF LockInv, Closing
  <1>1. CASE SeizeLck(e)
    <2>1. lck' = lck /\ env[e].pc = "lckall" /\ ~env[e].rpid
      BY <1>0, <1>1 DEF SeizeLck, Holds
    <2>2. CASE CanLock(Owner(e), "lck", i, Bytes, "w")
      <3>1. locks' = Locked(locks, Owner(e), "lck", i, Bytes, "w")
        BY <1>1, <2>2 DEF SeizeLck
      <3>2. /\ Compatible(locks') /\ \A l \in locks : l.own # e => l \in locks'
            /\ \A b \in Bytes : Rec("lck", i, b, e, "w") \in locks'
        BY <1>0, <2>2, <3>1, LockTaken
      <3>3. Moved(e, "dxball") \/ Moved(e, "closedxb")
        BY <1>1, <2>2, GotoMoves DEF SeizeLck, Pcs
      <3>4. Holds(e)'
        BY <2>1, <3>2, <3>3 DEF Holds, Moved, OnLck, Seized, Member
      <3> QED BY <1>0, <2>1, <3>2, <3>4, LockStepSame
    <2>3. CASE ~CanLock(Owner(e), "lck", i, Bytes, "w")
      <3>1. locks' = locks /\ Moved(e, "closedxb")
        BY <1>1, <2>3, GotoMoves DEF SeizeLck, Pcs
      <3>2. Holds(e)'
        BY <2>1, <3>1 DEF Holds, Moved, Seized, Member
      <3> QED BY <1>0, <2>1, <3>1, <3>2, LockStepSame
    <2> QED BY <2>2, <2>3
  <1>2. CASE DestroyMutexes(e)
    <2>1. env[e].pc = "dxball" /\ ~env[e].rpid /\ i \in Inodes /\ \A b \in Bytes : OnLck(e, b, "w")
      BY <1>0, <1>2 DEF DestroyMutexes, Holds, TypeOK
    <2>2. RegionsKept
      BY <1>2, <2>1 DEF DestroyMutexes, RegionsKept, TypeOK, LckType
    <2>3. CASE CanLock(Owner(e), "dxb", env[e].dxb, Bytes, Share(e))
      <3>1. locks' = Locked(locks, Owner(e), "dxb", env[e].dxb, Bytes, Share(e)) /\ Moved(e, "truncate")
        BY <1>2, <2>3, GotoMoves DEF DestroyMutexes, Pcs
      <3>2. /\ Compatible(locks')
            /\ \A l \in locks : (l.own # e \/ ~On(l, "dxb", env[e].dxb, Bytes)) => l \in locks'
        BY <1>0, <2>3, <3>1, LockTaken
      <3>3. \A b \in Bytes : Rec("lck", i, b, e, "w") \in locks'
        BY <2>1, <3>2 DEF OnLck, Rec, On
      <3>4. Holds(e)'
        BY <2>1, <3>1, <3>3 DEF Holds, Moved, OnLck, Seized, Member
      <3> QED BY <1>0, <2>2, <3>2, <3>4, LockStepKept
    <2>4. CASE ~CanLock(Owner(e), "dxb", env[e].dxb, Bytes, Share(e))
      <3>1. locks' = locks /\ Moved(e, "closedxb")
        BY <1>2, <2>4, GotoMoves DEF DestroyMutexes, Pcs
      <3>2. Holds(e)'
        BY <2>1, <3>1 DEF Holds, Moved, Seized, Member
      <3> QED BY <1>0, <2>2, <3>1, <3>2, LockStepKept
    <2> QED BY <2>3, <2>4
  <1>3. CASE Truncate(e)
    <2>1. /\ env[e].pc = "truncate" /\ ~env[e].rpid /\ i \in Inodes /\ OnLck(e, First, "w")
          /\ locks' = locks
      BY <1>0, <1>3 DEF Truncate, Holds, TypeOK, Bytes
    <2>2. env'[e].pc = "closedxb" /\ env'[e].rpid = env[e].rpid
      <3>1. env[e] \in EnvType /\ env'[e] = [env[e] EXCEPT !.mapped = FALSE, !.ready = FALSE, !.pc = "closedxb"]
        BY <1>3 DEF Truncate, TypeOK
      <3> QED BY <3>1 DEF EnvType
    <2>3. Holds(e)'
      BY <2>1, <2>2 DEF Holds, Seized, Member
    <2>4. \A k \in Inodes : k # i => lck'[k] = lck[k]
      BY <1>3, <2>1 DEF Truncate, TypeOK
    <2>5. ASSUME NEW n \in Envs \ {e}, env[n].pc \in Seized
          PROVE  lck'[env[n].lck] = lck[env[n].lck]
      <3>1. env[n].lck \in Inodes
        BY <2>5 DEF TypeOK, Seized
      <3> QED BY <2>1, <2>4, <2>5, <3>1, NoOtherMember
    <2>6. \A n \in Envs : Holds(n)
      BY DEF LockInv
    <2>7. \A n \in Envs \ {e} :
             /\ env[n].pc \in Member => lck'[env[n].lck].full /\ lck'[env[n].lck].magic
             /\ env[n].pc = "active" /\ env[n].rpid => ProcOf[n] \in lck'[env[n].lck].readers
      BY <2>5, <2>6 DEF Holds, Member, Seized
    <2> QED BY <1>0, <2>1, <2>3, <2>7, LockStep
  <1> QED BY <1>1, <1>2, <1>3

\* The end of env_close; an OFD lock is never restored.
LEMMA CloseStep ==
    ASSUME TypeOK, LockInv, locking.ofd, NEW e \in Envs,
           \/ CloseDxb(e) \/ RestoreDxb(e) \/ CloseLck(e) \/ RestoreLck(e) \/ RestorePid(e)
           \/ rthc_remove(e)
    PROVE  LockInv'
PROOF
  <1>0. Holds(e) /\ Compatible(locks) /\ Mine(e)
    BY ClosingType DEF LockInv, Closing
  <1>1. ~Restores(e) /\ env[e].pc \notin {"restoredxb", "restorelck", "restorepid"}
    BY <1>0 DEF Restores, Holds
  <1>2. CASE CloseDxb(e)
    <2>1. lck' = lck /\ Moved(e, "closelck") /\ ~env[e].rpid
          /\ locks' = Unlocked(locks, Owner(e), "dxb", env[e].dxb, Bytes)
      BY <1>0, <1>1, <1>2, GotoMoves DEF CloseDxb, AfterClose, Holds, Pcs
    <2>2. Compatible(locks') /\ \A l \in locks : l.own # e => l \in locks'
      BY <1>0, <2>1, LockDropped
    <2>3. Holds(e)'
      BY <2>1 DEF Holds, Moved, Seized, Member
    <2> QED BY <1>0, <2>1, <2>2, <2>3, LockStepSame
  <1>3. CASE CloseLck(e)
    <2>1. locks' = locks \/ locks' = Unlocked(locks, Owner(e), "lck", env[e].lck, Bytes)
      BY <1>3 DEF CloseLck, AfterClose
    <2>2. lck' = lck /\ Moved(e, "remove") /\ ~env[e].rpid
      BY <1>0, <1>1, <1>3, GotoMoves DEF CloseLck, Holds, Pcs
    <2>3. Compatible(locks') /\ \A l \in locks : l.own # e => l \in locks'
      BY <1>0, <2>1, LockDropped
    <2>4. Holds(e)'
      BY <2>2 DEF Holds, Moved, Seized, Member
    <2> QED BY <1>0, <2>2, <2>3, <2>4, LockStepSame
  <1>4. CASE rthc_remove(e)
    <2>1. lck' = lck /\ locks' = locks /\ env'[e].pc = "closed" /\ ~env'[e].rpid
      BY <1>4 DEF rthc_remove, TypeOK, ClosedEnv
    <2>2. Holds(e)'
      BY <2>1 DEF Holds, Seized, Member
    <2> QED BY <1>0, <2>1, <2>2, LockStepSame
  <1> QED BY <1>1, <1>2, <1>3, <1>4 DEF RestoreDxb, RestoreLck, RestorePid

\* mdbx_env_delete locks for itself, and a killed process drops only its own.
LEMMA OtherStep ==
    ASSUME TypeOK, LockInv, (\E d \in Deleters : mdbx_env_delete(d)) \/ (\E p \in Procs : Kill(p))
    PROVE  LockInv'
PROOF
  <1>0. Compatible(locks) /\ (\A n \in Envs : Holds(n)) /\ lck' = lck
    BY OtherType DEF LockInv
  <1>1. ASSUME NEW d \in Deleters, mdbx_env_delete(d) PROVE LockInv'
    <2>1. d \notin Envs
      BY EnvLockAssumption
    <2>2. Compatible(locks') /\ \A l \in locks : l.own # d => l \in locks'
      <3>1. ASSUME NEW kind, NEW here, NEW next, DelLock(d, kind, here, next)
            PROVE  Compatible(locks') /\ \A l \in locks : l.own # d => l \in locks'
        <4>1. CASE locks' = locks
          BY <1>0, <4>1
        <4>2. CASE locks' = Locked(locks, d, kind, del[d][kind], Bytes, "w")
                   /\ CanLock(d, kind, del[d][kind], Bytes, "w")
          BY <1>0, <4>2, LockedFacts DEF CanLock
        <4> QED BY <3>1, <4>1, <4>2 DEF DelLock
      <3>2. CASE DelClose(d)
        BY <1>0, <3>2 DEF DelClose, Compatible
      <3>3. CASE locks' = locks
        BY <1>0, <3>3
      <3> QED BY <1>1, <3>1, <3>2, <3>3 DEF mdbx_env_delete, DelOpenDxb, DelOpenLck, DelUnlink
    <2>3. env' = env
      BY <1>1 DEF mdbx_env_delete, DelOpenDxb, DelOpenLck, DelLock, DelUnlink, DelClose, OtherThanDel
    <2>4. ASSUME NEW n \in Envs PROVE Holds(n)'
      <3>1. Holds(n) /\ \A l \in locks : l.own = n => l \in locks'
        BY <1>0, <2>1, <2>2
      <3> QED BY <1>0, <2>3, <3>1, HoldsKept DEF Holds
    <2> QED BY <2>2, <2>4 DEF LockInv
  <1>2. ASSUME NEW p \in Procs, Kill(p) PROVE LockInv'
    <2>1. /\ locks' = {l \in locks : l.own # p /\ ~(l.own \in Envs /\ ProcOf[l.own] = p)}
          /\ \A n \in Envs : env'[n] = IF ProcOf[n] = p THEN ClosedEnv ELSE env[n]
      BY <1>2 DEF Kill
    <2>2. Compatible(locks')
      BY <1>0, <2>1 DEF Compatible
    <2>3. ASSUME NEW n \in Envs PROVE Holds(n)'
      <3>1. CASE ProcOf[n] = p
        <4>1. env'[n].pc = "closed" /\ ~env'[n].rpid
          BY <2>1, <3>1 DEF ClosedEnv
        <4> QED BY <4>1 DEF Holds, Seized, Member
      <3>2. CASE ProcOf[n] # p
        <4>1. n # p
          BY Naming
        <4>2. Holds(n) /\ env'[n] = env[n] /\ \A l \in locks : l.own = n => l \in locks'
          BY <1>0, <2>1, <3>2, <4>1
        <4> QED BY <1>0, <4>2, HoldsKept DEF Holds
      <3> QED BY <3>1, <3>2
    <2> QED BY <2>2, <2>3 DEF LockInv
  <1> QED BY <1>1, <1>2

-----------------------------------------------------------------------------
(* The invariant, and the readers that are spared                           *)

\* No lock is held at the start.
LEMMA InitLocks == Init => EnvInv
PROOF
  <1> SUFFICES ASSUME Init PROVE EnvInv
    OBVIOUS
  <1>1. TypeOK
    <2>1. EmptyLck \in LckType
      BY DEF EmptyLck, LckType
    <2>2. ClosedEnv \in EnvType /\ ClosedEnv.pc = "closed"
      BY Sizes DEF ClosedEnv, EnvType, Flags, Pcs
    <2>3. 1 \in 0 .. MaxFiles
      BY EnvLockAssumption
    <2> QED BY <2>1, <2>2, <2>3, Sizes DEF Init, TypeOK
  <1>2. LockInv
    <2>1. \A e \in Envs : env[e].pc = "closed" /\ ~env[e].rpid
      BY DEF Init, ClosedEnv
    <2>2. \A e \in Envs : Holds(e)
      BY <2>1 DEF Holds, Seized, Member
    <2> QED BY <2>2 DEF Init, LockInv, Compatible
  <1> QED BY <1>1, <1>2 DEF EnvInv

\* The setting a behaviour starts with is the one it keeps.
LEMMA SettingStays ==
    ASSUME Next
    PROVE  locking' = locking
PROOF
  <1>1. ASSUME NEW e \in Envs, Opening(e) PROVE locking' = locking
    BY <1>1 DEF Opening, OpenLck, Enter, TryExclusive, DxbExclusive, TakeShared, UnlockBeforeRetry,
                RetryExclusive, LockAgainst, Register, MapExclusive, InitMutexes, MapShared, CheckMode,
                DxbSetup, Narrow, Downgrade, mvcc_cleanup_dead, SetupFails, rest
  <1>2. ASSUME NEW e \in Envs, Closing(e) PROVE locking' = locking
    BY <1>2 DEF Closing, rthc_drown, SeizeLck, DestroyMutexes, Truncate, CloseDxb, RestoreDxb, CloseLck,
                RestoreLck, RestorePid, rthc_remove, rest
  <1>3. ASSUME NEW e \in Envs, Using(e) PROVE locking' = locking
    BY <1>3 DEF Using, Open, mvcc_cleanup_dead, mvcc_bind_slot, LazyCommit, Close, rest
  <1>4. ASSUME (\E d \in Deleters : mdbx_env_delete(d)) \/ (\E p \in Procs : Kill(p))
        PROVE  locking' = locking
    BY <1>4 DEF mdbx_env_delete, DelOpenDxb, DelOpenLck, DelLock, DelUnlink, DelClose, OtherThanDel, Kill
  <1> QED BY <1>1, <1>2, <1>3, <1>4 DEF Next

\* Every step keeps types and locks.
LEMMA NextLocks == EnvInv /\ [Next]_vars => EnvInv'
PROOF
  <1> SUFFICES ASSUME EnvInv, [Next]_vars PROVE EnvInv'
    OBVIOUS
  <1>1. TypeOK /\ (locking.ofd => LockInv)
    BY DEF EnvInv
  <1>2. ASSUME NEW e \in Envs, Opening(e) PROVE TypeOK' /\ (locking.ofd => LockInv')
    <2>1. TypeOK' /\ Mine(e)
      BY <1>1, <1>2, OpeningType
    <2> QED BY <1>1, <1>2, <2>1, SeizeStep, RegisterStep, MapExclusiveStep, SetupStep, CleanupStep,
               QuietStep DEF Opening
  <1>3. ASSUME NEW e \in Envs, Closing(e) PROVE TypeOK' /\ (locking.ofd => LockInv')
    <2>1. TypeOK'
      BY <1>1, <1>3, ClosingType
    <2> QED BY <1>1, <1>3, <2>1, DrownStep, DestroyStep, CloseStep DEF Closing
  <1>4. ASSUME NEW e \in Envs, Using(e) PROVE TypeOK' /\ (locking.ofd => LockInv')
    <2>1. TypeOK' /\ Mine(e)
      BY <1>1, <1>4, UsingType
    <2> QED BY <1>1, <1>4, <2>1, CleanupStep, BindStep, QuietStep DEF Using
  <1>5. ASSUME (\E d \in Deleters : mdbx_env_delete(d)) \/ (\E p \in Procs : Kill(p))
        PROVE  TypeOK' /\ (locking.ofd => LockInv')
    BY <1>1, <1>5, OtherType, OtherStep
  <1>6. ASSUME UNCHANGED vars PROVE TypeOK' /\ (locking.ofd => LockInv')
    <2>1. TypeOK'
      BY <1>1, <1>6 DEF vars, TypeOK
    <2>2. ASSUME locking.ofd PROVE LockInv'
      <3>1. LockInv /\ env' = env /\ locks' = locks /\ lck' = lck
        BY <1>1, <1>6, <2>2 DEF vars
      <3> QED BY <3>1 DEF LockInv, Compatible, Holds, OnLck
    <2> QED BY <2>1, <2>2
  <1>7. locking' = locking
    BY SettingStays DEF vars
  <1> QED BY <1>2, <1>3, <1>4, <1>5, <1>6, <1>7 DEF Next, EnvInv

\* The locks, and what their holders rely on, in every reachable state.
THEOREM Invariance == Spec => []EnvInv
  BY InitLocks, NextLocks, PTL DEF Spec

\* With OFD locks the slots of a registered process are never cleared by
\* another one, nor by a handle of the same process that is being closed,
\* whoever is killed, deletes or fails.
THEOREM ReadersSafety == Spec => []ReadersSpared
PROOF
  <1>1. EnvInv => ReadersSpared
    BY DEF EnvInv, LockInv, Holds, ReadersSpared
  <1> QED BY <1>1, Invariance, PTL

-----------------------------------------------------------------------------
(* The files of a handle                                                    *)

\* A handle keeps its files and its flags from its opening to its close.
SameFiles(e) ==
    /\ env'[e].dxb = env[e].dxb /\ env'[e].flags = env[e].flags
    /\ env[e].pc # "opened" => env'[e].lck = env[e].lck

\* While a handle is opened it keeps the files it opened, the data file first.
LEMMA OpeningFiles ==
    ASSUME TypeOK, NEW e \in Envs, Opening(e)
    PROVE  /\ SameFiles(e) /\ env[e].pc # "closed" /\ env'[e].pc \notin {"closed", "opened"}
           /\ env[e].pc = "opened" => OpenLck(e) /\ env'[e].lck = OpenedFile("lck")
           /\ env[e].pc # "opened" => UNCHANGED <<dir, made>>
PROOF
  <1>0. env[e] \in EnvType
    BY DEF TypeOK
  <1>1. CASE OpenLck(e)
    <2>1. env[e].pc = "opened" /\ env'[e] = [env[e] EXCEPT !.lck = OpenedFile("lck"), !.pc = "enter"]
      BY <1>1 DEF OpenLck, TypeOK
    <2> QED BY <1>0, <1>1, <2>1 DEF EnvType, SameFiles
  <1>2. CASE \/ Enter(e) \/ TryExclusive(e) \/ TakeShared(e) \/ UnlockBeforeRetry(e)
             \/ RetryExclusive(e) \/ Downgrade(e) \/ CheckMode(e) \/ DxbSetup(e) \/ Narrow(e)
             \/ (env[e].pc = "sweep" /\ mvcc_cleanup_dead(e))
    <2>1. \E pc \in Pcs \ {"closed", "opened"} : Goto(e, pc)
      BY <1>2 DEF Enter, TryExclusive, TakeShared, UnlockBeforeRetry, RetryExclusive, Downgrade,
                  SetupFails, CheckMode, DxbSetup, Narrow, mvcc_cleanup_dead, Pcs
    <2>2. env[e].pc \notin {"closed", "opened"} /\ UNCHANGED <<dir, made>>
      BY <1>2 DEF Enter, TryExclusive, TakeShared, UnlockBeforeRetry, RetryExclusive, Downgrade,
                  SetupFails, CheckMode, DxbSetup, Narrow, mvcc_cleanup_dead, files
    <2> QED BY <2>1, <2>2, GotoMoves DEF Moved, SameFiles
  <1>3. CASE DxbExclusive(e) \/ LockAgainst(e)
    <2>1. /\ env[e].pc \notin {"closed", "opened"} /\ UNCHANGED <<dir, made>>
          /\ \/ Goto(e, "closing") \/ Goto(e, "shared")
             \/ env' = [env EXCEPT ![e].excl = TRUE, ![e].pc = "register"]
             \/ env' = [env EXCEPT ![e].excl = FALSE, ![e].pc = "register"]
      BY <1>3 DEF DxbExclusive, LockAgainst, SetupFails, files
    <2>2. CASE \E pc \in {"closing", "shared"} : Goto(e, pc)
      BY <2>1, <2>2, GotoMoves DEF Moved, SameFiles, Pcs
    <2>3. ASSUME NEW x \in BOOLEAN, env' = [env EXCEPT ![e].excl = x, ![e].pc = "register"]
          PROVE  SameFiles(e) /\ env'[e].pc = "register"
      <3>1. env'[e] = [env[e] EXCEPT !.excl = x, !.pc = "register"]
        BY <2>3 DEF TypeOK
      <3> QED BY <1>0, <3>1, FieldsSet DEF SameFiles
    <2> QED BY <2>1, <2>2, <2>3
  <1>4. CASE Register(e)
    <2>1. PICK x \in BOOLEAN, pc \in {"closing", "map"} :
             env' = [env EXCEPT ![e].listed = TRUE, ![e].excl = x, ![e].pc = pc]
      BY <1>0, <1>4 DEF Register, EnvType
    <2>2. env'[e] = [env[e] EXCEPT !.listed = TRUE, !.excl = x, !.pc = pc]
      BY <2>1 DEF TypeOK
    <2>3. env[e].pc = "register" /\ UNCHANGED <<dir, made>>
      BY <1>4 DEF Register, files
    <2> QED BY <1>0, <2>2, <2>3, FieldsSet DEF SameFiles
  <1>5. CASE MapExclusive(e)
    <2>1. env'[e] = [env[e] EXCEPT !.mapped = TRUE, !.pc = "mutex"] /\ env[e].pc = "map"
          /\ UNCHANGED <<dir, made>>
      BY <1>5 DEF TypeOK, MapExclusive, files
    <2> QED BY <1>0, <2>1, MarksSet DEF SameFiles
  <1>6. CASE InitMutexes(e)
    <2>1. env'[e] = [env[e] EXCEPT !.ready = TRUE, !.pc = "mode"] /\ env[e].pc = "mutex"
          /\ UNCHANGED <<dir, made>>
      BY <1>6 DEF TypeOK, InitMutexes, files
    <2> QED BY <1>0, <2>1, MarksSet DEF SameFiles
  <1>7. CASE MapShared(e)
    <2>1. PICK m \in BOOLEAN, y \in BOOLEAN, pc \in {"closing", "mode"} :
             env' = [env EXCEPT ![e].mapped = m, ![e].ready = y, ![e].pc = pc]
      <3>1. env[e].lck \in Inodes /\ lck \in [Inodes -> LckType]
        BY <1>7 DEF MapShared, TypeOK
      <3> QED BY <1>7, <3>1 DEF MapShared, LckType
    <2>2. env'[e] = [env[e] EXCEPT !.mapped = m, !.ready = y, !.pc = pc]
      BY <2>1 DEF TypeOK
    <2>3. env[e].pc = "map" /\ UNCHANGED <<dir, made>>
      BY <1>7 DEF MapShared, files
    <2> QED BY <1>0, <2>2, <2>3 DEF SameFiles, EnvType
  <1> QED BY <1>1, <1>2, <1>3, <1>4, <1>5, <1>6, <1>7 DEF Opening

\* While a handle is closed it keeps its files until it is closed.
LEMMA ClosingFiles ==
    ASSUME TypeOK, NEW e \in Envs, Closing(e)
    PROVE  /\ UNCHANGED <<dir, made>> /\ env[e].pc \notin {"closed", "opened"}
           /\ env'[e].pc = "closed" \/ (SameFiles(e) /\ env'[e].pc # "opened")
PROOF
  <1>0. env[e] \in EnvType
    BY DEF TypeOK
  <1>1. CASE rthc_drown(e)
    <2>1. PICK h \in Envs \cup {Nobody}, pc \in {"lckall", "closedxb"} :
             env' = [env EXCEPT ![e].heir = h, ![e].rpid = FALSE, ![e].pc = pc]
      BY <1>1 DEF rthc_drown, Neighbours
    <2>2. env'[e] = [env[e] EXCEPT !.heir = h, !.rpid = FALSE, !.pc = pc]
      BY <2>1 DEF TypeOK
    <2>3. env[e].pc = "closing" /\ UNCHANGED <<dir, made>>
      BY <1>1 DEF rthc_drown, files
    <2> QED BY <1>0, <2>2, <2>3 DEF SameFiles, EnvType
  <1>2. CASE \/ SeizeLck(e) \/ DestroyMutexes(e) \/ CloseDxb(e) \/ RestoreDxb(e) \/ CloseLck(e)
             \/ RestoreLck(e) \/ RestorePid(e)
    <2>1. \E pc \in Pcs \ {"closed", "opened"} : Goto(e, pc)
      BY <1>2 DEF SeizeLck, DestroyMutexes, CloseDxb, RestoreDxb, CloseLck, RestoreLck, RestorePid, Pcs
    <2>2. env[e].pc \notin {"closed", "opened"} /\ UNCHANGED <<dir, made>>
      BY <1>2 DEF SeizeLck, DestroyMutexes, CloseDxb, RestoreDxb, CloseLck, RestoreLck, RestorePid, files
    <2> QED BY <2>1, <2>2, GotoMoves DEF Moved, SameFiles
  <1>3. CASE Truncate(e)
    <2>1. /\ env'[e] = [env[e] EXCEPT !.mapped = FALSE, !.ready = FALSE, !.pc = "closedxb"]
          /\ env[e].pc = "truncate" /\ UNCHANGED <<dir, made>>
      BY <1>3 DEF TypeOK, Truncate, files
    <2> QED BY <1>0, <2>1 DEF SameFiles, EnvType
  <1>4. CASE rthc_remove(e)
    BY <1>4 DEF rthc_remove, TypeOK, ClosedEnv, files
  <1> QED BY <1>1, <1>2, <1>3, <1>4 DEF Closing

\* A handle in use keeps its files.
LEMMA UsingFiles ==
    ASSUME TypeOK, NEW e \in Envs, Using(e), ~\E f \in locking.modes[e] : Open(e, f)
    PROVE  UNCHANGED <<dir, made>> /\ SameFiles(e) /\ env[e].pc = "active" /\ env'[e].pc \in {"active", "closing"}
PROOF
  <1>0. env[e] \in EnvType
    BY DEF TypeOK
  <1>1. CASE (env[e].pc = "active" /\ mvcc_cleanup_dead(e)) \/ \E synced \in BOOLEAN : Close(e, synced)
    <2>1. Goto(e, "active") \/ Goto(e, "closing")
      BY <1>1 DEF mvcc_cleanup_dead, Close
    <2>2. env[e].pc = "active" /\ UNCHANGED <<dir, made>>
      BY <1>1 DEF mvcc_cleanup_dead, Close, files
    <2> QED BY <2>1, <2>2, GotoMoves DEF Moved, SameFiles, Pcs
  <1>2. CASE mvcc_bind_slot(e)
    <2>1. env'[e] = [env[e] EXCEPT !.rpid = TRUE] /\ env[e].pc = "active" /\ UNCHANGED <<dir, made>>
      BY <1>2 DEF TypeOK, mvcc_bind_slot, files
    <2> QED BY <1>0, <2>1, MarksSet DEF SameFiles
  <1>3. CASE LazyCommit(e)
    BY <1>3 DEF LazyCommit, SameFiles, files
  <1> QED BY <1>1, <1>2, <1>3 DEF Using

\* Without deletions a name stands for one file, and so all handles share it.
LEMMA NameStep ==
    ASSUME TypeOK, NoDeletions, Undeleted, \A n \in Envs : Named(n), Next
    PROVE  Undeleted' /\ \A n \in Envs : Named(n)'
PROOF
  <1>0. "dxb" \in Kinds /\ "lck" \in Kinds /\ locking' = locking
    BY SettingStays DEF Kinds
  <1>1. ASSUME NEW d \in Deleters, mdbx_env_delete(d) PROVE FALSE
    <2>1. del[d].pc = "start" /\ d \notin locking.deleters
      BY DEF Undeleted, NoDeletions
    <2> QED BY <1>1, <2>1 DEF mdbx_env_delete, DelOpenDxb, DelOpenLck, DelLock, DelUnlink, DelClose
  <1>2. ASSUME NEW p \in Procs, Kill(p) PROVE Undeleted' /\ \A n \in Envs : Named(n)'
    <2>1. /\ dir' = dir /\ del' = del
          /\ \A n \in Envs : env'[n] = env[n] \/ env'[n].pc = "closed"
      BY <1>2 DEF Kill, ClosedEnv
    <2> QED BY <1>0, <2>1 DEF Undeleted, Named
  <1>3. ASSUME NEW e \in Envs, \A k \in Kinds : dir[k] # 0 => dir'[k] = dir[k], Mine(e), Named(e)'
        PROVE  \A n \in Envs : Named(n)'
    BY <1>0, <1>3 DEF Named, Mine
  <1>4. ASSUME NEW e \in Envs, Opening(e) PROVE Undeleted' /\ \A n \in Envs : Named(n)'
    <2>1. Mine(e) /\ SameFiles(e) /\ env[e].pc # "closed" /\ Named(e) /\ del' = del
      BY <1>4, OpeningType, OpeningFiles
         DEF Opening, OpenLck, Enter, TryExclusive, DxbExclusive, TakeShared, UnlockBeforeRetry,
             RetryExclusive, LockAgainst, Register, MapExclusive, InitMutexes, MapShared, CheckMode,
             DxbSetup, Narrow, Downgrade, mvcc_cleanup_dead, SetupFails, rest
    <2>2. CASE env[e].pc = "opened"
      <3>1. OpenFile("lck") /\ env'[e].lck = OpenedFile("lck")
        BY <1>4, <2>2, OpeningFiles DEF OpenLck
      <3>2. /\ dir'["lck"] = OpenedFile("lck") /\ dir'["dxb"] = dir["dxb"] /\ OpenedFile("lck") # 0
            /\ dir["lck"] # 0 => dir' = dir
        BY <1>0, <3>1, OpenFileType DEF Kinds, Inodes
      <3>3. Named(e)'
        BY <2>1, <2>2, <3>1, <3>2 DEF Named, SameFiles
      <3>4. \A k \in Kinds : dir[k] # 0 => dir'[k] = dir[k]
        BY <3>2 DEF Kinds
      <3> QED BY <1>0, <1>3, <2>1, <3>3, <3>4 DEF Undeleted
    <2>3. CASE env[e].pc # "opened"
      <3>1. dir' = dir
        BY <1>4, <2>3, OpeningFiles
      <3> QED BY <1>0, <1>3, <2>1, <2>3, <3>1 DEF Undeleted, Named, SameFiles
    <2> QED BY <2>2, <2>3
  <1>5. ASSUME NEW e \in Envs, Closing(e) PROVE Undeleted' /\ \A n \in Envs : Named(n)'
    <2>1. Mine(e) /\ dir' = dir /\ Named(e)
      BY <1>5, ClosingType, ClosingFiles
    <2>2. del' = del
      BY <1>5 DEF Closing, rthc_drown, SeizeLck, DestroyMutexes, Truncate, CloseDxb, RestoreDxb,
                  CloseLck, RestoreLck, RestorePid, rthc_remove, rest
    <2>3. Named(e)'
      BY <1>5, <2>1, ClosingFiles DEF Named, SameFiles
    <2> QED BY <1>0, <1>3, <2>1, <2>2, <2>3 DEF Undeleted
  <1>6. ASSUME NEW e \in Envs, Using(e) PROVE Undeleted' /\ \A n \in Envs : Named(n)'
    <2>1. Mine(e) /\ Named(e) /\ del' = del
      BY <1>6, UsingType DEF Using, Open, mvcc_cleanup_dead, mvcc_bind_slot, LazyCommit, Close, rest
    <2>2. ASSUME NEW f \in locking.modes[e], Open(e, f) PROVE \A n \in Envs : Named(n)'
      <3>1. OpenFile("dxb") /\ env'[e].pc = "opened" /\ env'[e].dxb = OpenedFile("dxb")
        BY <2>2 DEF Open, TypeOK, ClosedEnv
      <3>2. /\ dir'["dxb"] = OpenedFile("dxb") /\ dir'["lck"] = dir["lck"] /\ OpenedFile("dxb") # 0
            /\ dir["dxb"] # 0 => dir' = dir
        BY <1>0, <3>1, OpenFileType DEF Kinds, Inodes
      <3>3. Named(e)'
        BY <3>1, <3>2 DEF Named
      <3>4. \A k \in Kinds : dir[k] # 0 => dir'[k] = dir[k]
        BY <3>2 DEF Kinds
      <3> QED BY <1>3, <2>1, <3>3, <3>4
    <2>3. ASSUME ~\E f \in locking.modes[e] : Open(e, f) PROVE \A n \in Envs : Named(n)'
      <3>1. dir' = dir /\ Named(e)'
        BY <1>6, <2>1, <2>3, UsingFiles DEF Named, SameFiles
      <3> QED BY <1>3, <2>1, <3>1
    <2> QED BY <1>0, <2>1, <2>2, <2>3 DEF Undeleted
  <1> QED BY <1>1, <1>2, <1>4, <1>5, <1>6 DEF Next

-----------------------------------------------------------------------------
(* An initialised region has live mutexes                                   *)

\* What the steps that write the mode or the reader slots leave alone.
LEMMA RegionWrites ==
    ASSUME TypeOK, NEW e \in Envs,
           CheckMode(e) \/ Narrow(e) \/ mvcc_cleanup_dead(e) \/ mvcc_bind_slot(e) \/ rthc_drown(e)
    PROVE  \A i \in Inodes :
              /\ lck'[i].full = lck[i].full /\ lck'[i].mutex = lck[i].mutex
              /\ lck'[i].unsynced = lck[i].unsynced
              /\ CheckMode(e) \/ Narrow(e) \/ lck'[i].envmode = lck[i].envmode
PROOF
  <1> DEFINE j == env[e].lck
  <1>1. j \in Inodes /\ lck \in [Inodes -> LckType] /\ lck[j] \in LckType
    BY DEF TypeOK, CheckMode, Narrow, mvcc_cleanup_dead, mvcc_bind_slot, rthc_drown
  <1>2. \A x : LET s == [lck[j] EXCEPT !.envmode = x]
               IN  s.full = lck[j].full /\ s.mutex = lck[j].mutex /\ s.unsynced = lck[j].unsynced
    BY <1>1 DEF LckType
  <1>3. \A x : LET s == [lck[j] EXCEPT !.readers = x]
               IN  /\ s.full = lck[j].full /\ s.mutex = lck[j].mutex /\ s.unsynced = lck[j].unsynced
                   /\ s.envmode = lck[j].envmode
    BY <1>1 DEF LckType
  <1>4. CASE CheckMode(e) \/ Narrow(e)
    <2>1. lck' = lck \/ \E x : lck' = [lck EXCEPT ![j] = [lck[j] EXCEPT !.envmode = x]]
      BY <1>4 DEF CheckMode, Narrow
    <2>2. ASSUME NEW x, lck' = [lck EXCEPT ![j] = [lck[j] EXCEPT !.envmode = x]]
          PROVE  \A i \in Inodes : /\ lck'[i].full = lck[i].full /\ lck'[i].mutex = lck[i].mutex
                                   /\ lck'[i].unsynced = lck[i].unsynced
      <3> DEFINE s == [lck[j] EXCEPT !.envmode = x]
      <3>1. s.full = lck[j].full /\ s.mutex = lck[j].mutex /\ s.unsynced = lck[j].unsynced
        BY <1>2
      <3>2. lck' = [lck EXCEPT ![j] = s]
        BY <2>2
      <3> HIDE DEF s
      <3> QED BY <1>1, <3>1, <3>2
    <2> QED BY <1>4, <2>1, <2>2
  <1>5. CASE mvcc_cleanup_dead(e) \/ mvcc_bind_slot(e) \/ rthc_drown(e)
    <2>1. lck' = lck \/ \E x : lck' = [lck EXCEPT ![j] = [lck[j] EXCEPT !.readers = x]]
      <3>1. CASE mvcc_cleanup_dead(e)
        BY <3>1 DEF mvcc_cleanup_dead
      <3>2. CASE mvcc_bind_slot(e)
        BY <3>2 DEF mvcc_bind_slot
      <3>3. CASE rthc_drown(e)
        BY <3>3 DEF rthc_drown
      <3> QED BY <1>5, <3>1, <3>2, <3>3
    <2>2. ASSUME NEW x, lck' = [lck EXCEPT ![j] = [lck[j] EXCEPT !.readers = x]]
          PROVE  \A i \in Inodes : /\ lck'[i].full = lck[i].full /\ lck'[i].mutex = lck[i].mutex
                                   /\ lck'[i].unsynced = lck[i].unsynced
                                   /\ lck'[i].envmode = lck[i].envmode
      <3> DEFINE s == [lck[j] EXCEPT !.readers = x]
      <3>1. /\ s.full = lck[j].full /\ s.mutex = lck[j].mutex /\ s.unsynced = lck[j].unsynced
            /\ s.envmode = lck[j].envmode
        BY <1>3
      <3>2. lck' = [lck EXCEPT ![j] = s]
        BY <2>2
      <3> HIDE DEF s
      <3> QED BY <1>1, <3>1, <3>2
    <2> QED BY <2>1, <2>2
  <1> QED BY <1>4, <1>5

\* A step that leaves every region as it was keeps the mutexes working.
LEMMA MutexKept ==
    ASSUME MutexesWork, NEW e \in Envs, Mine(e), env[e].pc \notin {"mutex", "truncate"},
           \A i \in Inodes : lck'[i].full = lck[i].full /\ lck'[i].mutex = lck[i].mutex
    PROVE  MutexesWork'
  BY DEF MutexesWork, Mine

\* A step that adds nothing unsynced keeps somebody to sync the rest.
LEMMA UnsyncedKept ==
    ASSUME SyncPending, NEW e \in Envs, Mine(e),
           env[e].pc = "active" => env'[e].pc = "active" /\ SameFiles(e),
           \A i \in Inodes : lck'[i].unsynced => lck[i].unsynced
    PROVE  SyncPending'
  BY DEF SyncPending, Mine, SameFiles

\* The mutexes under an open environment work: who initialises or destroys
\* them is alone.
LEMMA ActiveLive ==
    ASSUME TypeOK, LockInv, MutexesWork, NEW e \in Envs, env[e].pc = "active"
    PROVE  lck[env[e].lck].full /\ lck[env[e].lck].magic /\ lck[env[e].lck].mutex = "live"
PROOF
  <1>1. /\ lck[env[e].lck].full /\ lck[env[e].lck].magic /\ env[e].lck \in Inodes
        /\ env[e].pc \in Seized
    BY DEF LockInv, Holds, Member, Seized, TypeOK
  <1>2. ASSUME NEW n \in Envs, env[n].lck = env[e].lck, env[n].pc \in {"mutex", "truncate"}
        PROVE  FALSE
    <2>1. Holds(n) /\ n # e /\ First \in Bytes
      BY <1>2 DEF LockInv, Bytes
    <2>2. OnLck(n, First, "w")
      BY <1>2, <2>1 DEF Holds, Seized
    <2> QED BY <1>1, <1>2, <2>1, <2>2, NoOtherMember
  <1> QED BY <1>1, <1>2 DEF MutexesWork

\* lck_destroy finds no unsynced pages: their owner would still be a user.
LEMMA NothingUnsynced ==
    ASSUME TypeOK, LockInv, SyncPending, NEW e \in Envs, env[e].pc = "truncate"
    PROVE  ~lck[env[e].lck].unsynced
PROOF
  <1>1. SUFFICES ASSUME lck[env[e].lck].unsynced PROVE FALSE
    OBVIOUS
  <1>2. env[e].lck \in Inodes
    BY DEF TypeOK
  <1>3. PICK n \in Envs : env[n].lck = env[e].lck /\ env[n].pc = "active"
    BY <1>1, <1>2 DEF SyncPending
  <1>4. OnLck(e, First, "w") /\ n # e /\ env[n].pc \in Seized
    BY <1>3 DEF LockInv, Holds, Bytes, Seized
  <1> QED BY <1>3, <1>4, NoOtherMember

\* Where all is calm every step keeps mutexes working and somebody to sync.
LEMMA CalmStep ==
    ASSUME TypeOK, LockInv, Calm, \A n \in Envs : Named(n), Undeleted, MutexesWork, SyncPending, Next
    PROVE  MutexesWork' /\ SyncPending'
PROOF
  <1> DEFINE Untouched == \A i \in Inodes : lck'[i].full = lck[i].full /\ lck'[i].mutex = lck[i].mutex
                                              /\ lck'[i].unsynced = lck[i].unsynced
  <1>1. ASSUME NEW d \in Deleters, mdbx_env_delete(d) PROVE FALSE
    <2>1. del[d].pc = "start" /\ d \notin locking.deleters
      BY DEF Undeleted, Calm, NoDeletions
    <2> QED BY <1>1, <2>1 DEF mdbx_env_delete, DelOpenDxb, DelOpenLck, DelLock, DelUnlink, DelClose
  <1>2. ASSUME NEW p \in Procs, Kill(p) PROVE FALSE
    BY <1>2 DEF Kill, Calm
  <1>3. ASSUME NEW e \in Envs, Mine(e), env[e].pc \notin {"mutex", "truncate", "active"}, Untouched
        PROVE  MutexesWork' /\ SyncPending'
    BY <1>3, MutexKept, UnsyncedKept
  <1>4. ASSUME NEW e \in Envs, MapExclusive(e) PROVE MutexesWork' /\ SyncPending'
    <2> DEFINE r == [EmptyLck EXCEPT !.full = TRUE, !.magic = TRUE]
    <2>1. Mine(e) /\ SameFiles(e) /\ env[e].pc = "map" /\ env[e].lck \in Inodes
      BY <1>4, OpeningType, OpeningFiles DEF Opening, MapExclusive, TypeOK
    <2>2. env'[e].pc = "mutex" /\ env'[e].lck = env[e].lck
      <3>1. env[e] \in EnvType /\ env'[e] = [env[e] EXCEPT !.mapped = TRUE, !.pc = "mutex"]
        BY <1>4 DEF TypeOK, MapExclusive
      <3> QED BY <3>1, MarksSet
    <2>3. ~r.unsynced
      BY DEF EmptyLck
    <2>4. lck'[env[e].lck] = r /\ \A i \in Inodes : i # env[e].lck => lck'[i] = lck[i]
      BY <1>4, <2>1 DEF MapExclusive, TypeOK
    <2> HIDE DEF r
    <2>5. MutexesWork'
      BY <2>1, <2>2, <2>4 DEF MutexesWork, Mine
    <2>6. \A i \in Inodes : lck'[i].unsynced => lck[i].unsynced
      BY <2>3, <2>4
    <2> QED BY <2>1, <2>5, <2>6, UnsyncedKept
  <1>5. ASSUME NEW e \in Envs, InitMutexes(e) PROVE MutexesWork' /\ SyncPending'
    <2>1. Mine(e) /\ env[e].pc = "mutex" /\ env[e].lck \in Inodes
      BY <1>5, OpeningType DEF Opening, InitMutexes, TypeOK
    <2>2. /\ lck'[env[e].lck].mutex = "live"
          /\ \A i \in Inodes : i # env[e].lck => lck'[i] = lck[i]
          /\ \A i \in Inodes : lck'[i].unsynced = lck[i].unsynced
      BY <1>5, <2>1 DEF InitMutexes, TypeOK, LckType
    <2>3. MutexesWork'
      BY <2>1, <2>2 DEF MutexesWork, Mine
    <2> QED BY <2>1, <2>2, <2>3, UnsyncedKept
  <1>6. ASSUME NEW e \in Envs, DestroyMutexes(e) PROVE MutexesWork' /\ SyncPending'
    <2>1. Mine(e) /\ env[e].pc = "dxball" /\ env[e].lck \in Inodes
      BY <1>6, ClosingType DEF Closing, DestroyMutexes, TypeOK
    <2>2. CASE lck' = lck
      BY <1>3, <2>1, <2>2
    <2>3. CASE lck' = [lck EXCEPT ![env[e].lck].mutex = "dead"] /\ Goto(e, "truncate")
      <3>1. Moved(e, "truncate")
        BY <2>3, GotoMoves DEF Pcs
      <3>2. /\ \A i \in Inodes : i # env[e].lck => lck'[i] = lck[i]
            /\ \A i \in Inodes : lck'[i].unsynced = lck[i].unsynced
        BY <2>1, <2>3 DEF TypeOK, LckType
      <3>3. MutexesWork'
        BY <2>1, <3>1, <3>2 DEF MutexesWork, Mine, Moved
      <3> QED BY <2>1, <3>2, <3>3, UnsyncedKept
    <2> QED BY <1>6, <2>2, <2>3 DEF DestroyMutexes
  <1>7. ASSUME NEW e \in Envs, Truncate(e) PROVE MutexesWork' /\ SyncPending'
    <2>1. Mine(e) /\ env[e].pc = "truncate" /\ env[e].lck \in Inodes /\ ~lck[env[e].lck].unsynced
      BY <1>7, ClosingType, NothingUnsynced DEF Closing, Truncate, TypeOK
    <2>2. /\ lck'[env[e].lck] = EmptyLck
          /\ \A i \in Inodes : i # env[e].lck => lck'[i] = lck[i]
      BY <1>7, <2>1 DEF Truncate, TypeOK
    <2>3. ~EmptyLck.full /\ ~EmptyLck.unsynced
      BY DEF EmptyLck
    <2>4. MutexesWork'
      BY <2>1, <2>2, <2>3 DEF MutexesWork, Mine
    <2>5. \A i \in Inodes : lck'[i].unsynced => lck[i].unsynced
      BY <2>2, <2>3
    <2> QED BY <2>1, <2>4, <2>5, UnsyncedKept
  <1>8. ASSUME NEW e \in Envs, Opening(e) PROVE MutexesWork' /\ SyncPending'
    <2>1. Mine(e)
      BY <1>8, OpeningType
    <2>2. CASE CheckMode(e) \/ Narrow(e) \/ (env[e].pc = "sweep" /\ mvcc_cleanup_dead(e))
      <3>1. env[e].pc \notin {"mutex", "truncate", "active"}
        BY <2>2 DEF CheckMode, Narrow
      <3> QED BY <1>3, <2>1, <2>2, <3>1, RegionWrites
    <2>3. CASE \/ OpenLck(e) \/ Enter(e) \/ TryExclusive(e) \/ DxbExclusive(e) \/ TakeShared(e)
               \/ UnlockBeforeRetry(e) \/ RetryExclusive(e) \/ LockAgainst(e) \/ Register(e)
               \/ MapShared(e) \/ DxbSetup(e) \/ Downgrade(e)
      <3>1. lck' = lck /\ env[e].pc \notin {"mutex", "truncate", "active"}
        BY <2>3 DEF OpenLck, Enter, TryExclusive, DxbExclusive, TakeShared, UnlockBeforeRetry,
                    RetryExclusive, LockAgainst, Register, MapShared, DxbSetup, Downgrade,
                    SetupFails, files
      <3> QED BY <1>3, <2>1, <3>1
    <2> QED BY <1>4, <1>5, <1>8, <2>2, <2>3 DEF Opening
  <1>9. ASSUME NEW e \in Envs, Closing(e) PROVE MutexesWork' /\ SyncPending'
    <2>1. Mine(e)
      BY <1>9, ClosingType
    <2>2. CASE rthc_drown(e)
      <3>1. env[e].pc = "closing"
        BY <2>2 DEF rthc_drown
      <3> QED BY <1>3, <2>1, <2>2, <3>1, RegionWrites
    <2>3. CASE SeizeLck(e) \/ CloseDxb(e) \/ RestoreDxb(e) \/ CloseLck(e) \/ RestoreLck(e)
                 \/ RestorePid(e) \/ rthc_remove(e)
      <3>1. lck' = lck /\ env[e].pc \notin {"mutex", "truncate", "active"}
        BY <2>3 DEF SeizeLck, CloseDxb, RestoreDxb, CloseLck, RestoreLck, RestorePid, rthc_remove
      <3> QED BY <1>3, <2>1, <3>1
    <2> QED BY <1>6, <1>7, <1>9, <2>2, <2>3 DEF Closing
  <1>10. ASSUME NEW e \in Envs, Using(e) PROVE MutexesWork' /\ SyncPending'
    <2>1. Mine(e)
      BY <1>10, UsingType
    <2>2. ASSUME NEW f \in locking.modes[e], Open(e, f) PROVE MutexesWork' /\ SyncPending'
      <3>1. lck' = lck /\ env[e].pc = "closed"
        BY <2>2 DEF Open
      <3> QED BY <1>3, <2>1, <3>1
    <2>3. ASSUME ~\E f \in locking.modes[e] : Open(e, f)
          PROVE  /\ env[e].pc = "active" /\ env[e].lck \in Inodes /\ SameFiles(e)
                 /\ lck[env[e].lck] \in LckType /\ lck \in [Inodes -> LckType]
                 /\ lck[env[e].lck].mutex = "live"
      BY <1>10, <2>3, UsingFiles, ActiveLive DEF TypeOK
    <2>4. CASE (env[e].pc = "active" /\ mvcc_cleanup_dead(e)) \/ mvcc_bind_slot(e)
      <3>1. env[e].pc = "active"
        BY <2>4 DEF mvcc_bind_slot
      <3>2. lck[env[e].lck].mutex = "live" /\ ~\E f \in locking.modes[e] : Open(e, f)
        BY <3>1, ActiveLive DEF Open
      <3>3. CASE mvcc_cleanup_dead(e)
        <4>1. env'[e].pc = "active"
          BY <3>2, <3>3, GotoMoves DEF mvcc_cleanup_dead, Moved, Pcs
        <4> QED BY <2>1, <2>3, <3>1, <3>2, <3>3, <4>1, RegionWrites, MutexKept, UnsyncedKept
      <3>4. CASE mvcc_bind_slot(e)
        <4>1. env'[e].pc = "active"
          <5>1. env[e] \in EnvType /\ env'[e] = [env[e] EXCEPT !.rpid = TRUE]
            BY <3>4 DEF TypeOK, mvcc_bind_slot
          <5> QED BY <3>1, <5>1, MarksSet
        <4> QED BY <2>1, <2>3, <3>1, <3>2, <3>4, <4>1, RegionWrites, MutexKept, UnsyncedKept
      <3> QED BY <2>4, <3>3, <3>4
    <2>5. CASE LazyCommit(e)
      <3>1. env[e].pc = "active" /\ ~env[e].flags.rdonly /\ env' = env /\ env[e].lck \in Inodes
        BY <2>5 DEF LazyCommit, TypeOK
      <3>2. /\ \A i \in Inodes : lck'[i].full = lck[i].full /\ lck'[i].mutex = lck[i].mutex
            /\ \A i \in Inodes : i # env[e].lck => lck'[i] = lck[i]
        <4> DEFINE s == [lck[env[e].lck] EXCEPT !.unsynced = TRUE]
        <4>1. s.full = lck[env[e].lck].full /\ s.mutex = lck[env[e].lck].mutex
          BY <3>1 DEF TypeOK, LckType
        <4>2. lck' = [lck EXCEPT ![env[e].lck] = s]
          BY <2>5 DEF LazyCommit
        <4> HIDE DEF s
        <4> QED BY <3>1, <4>1, <4>2 DEF TypeOK
      <3>3. SyncPending'
        BY <3>1, <3>2 DEF SyncPending
      <3> QED BY <2>1, <3>1, <3>2, <3>3, MutexKept
    <2>6. ASSUME NEW synced \in BOOLEAN, Close(e, synced) PROVE MutexesWork' /\ SyncPending'
      <3>1. env[e].pc = "active" /\ env[e].lck \in Inodes /\ lck[env[e].lck].mutex = "live"
        BY <2>6, ActiveLive DEF Close, TypeOK
      <3>2. CASE synced
        <4> DEFINE s == [lck[env[e].lck] EXCEPT !.unsynced = FALSE]
        <4>1. s.full = lck[env[e].lck].full /\ s.mutex = lck[env[e].lck].mutex /\ ~s.unsynced
          BY <3>1 DEF TypeOK, LckType
        <4>2. lck' = [lck EXCEPT ![env[e].lck] = s]
          BY <2>6, <3>2 DEF Close
        <4> HIDE DEF s
        <4>3. /\ \A i \in Inodes : lck'[i].full = lck[i].full /\ lck'[i].mutex = lck[i].mutex
              /\ \A i \in Inodes : i # env[e].lck => lck'[i] = lck[i]
              /\ ~lck'[env[e].lck].unsynced
          BY <3>1, <4>1, <4>2 DEF TypeOK
        <4>4. SyncPending'
          BY <2>1, <4>3 DEF SyncPending, Mine
        <4> QED BY <2>1, <3>1, <4>3, <4>4, MutexKept
      <3>3. CASE ~synced
        <4>1. lck' = lck /\ env[e].flags.rdonly
          BY <2>6, <3>1, <3>3 DEF Close, Calm, Named
        <4>2. SyncPending'
          BY <2>1, <4>1 DEF SyncPending, Mine
        <4> QED BY <2>1, <3>1, <4>1, <4>2, MutexKept
      <3> QED BY <3>2, <3>3
    <2> QED BY <1>10, <2>2, <2>4, <2>5, <2>6 DEF Using
  <1> QED BY <1>1, <1>2, <1>8, <1>9, <1>10 DEF Next

-----------------------------------------------------------------------------
(* Who shares a domain, and in which mode                                   *)

\* What a handle knows of its modes stays while its record, its locks on the
\* data file and the published mode stay.
LEMMA ModesKept ==
    ASSUME NEW n \in Envs, Modes(n), env'[n] = env[n],
           \A l \in locks : l.own = n => l \in locks',
           env[n].pc \in {"setup", "downgrade", "sweep", "active"} /\ ~env[n].flags.rdonly =>
              \/ env[n].excl /\ env[n].pc = "setup"
              \/ lck'[env[n].lck].envmode = lck[env[n].lck].envmode
    PROVE  Modes(n)'
PROOF
  <1>1. \A i, b, t : Rec("dxb", i, b, n, t) \in locks => Rec("dxb", i, b, n, t) \in locks'
    BY DEF Rec
  <1>2. Share(n)' = Share(n)
    BY DEF Share
  <1> QED BY <1>1, <1>2 DEF Modes, OnDxb

\* A step that leads out of the domain, or does not lead into it.
LEMMA ModesOut ==
    ASSUME NEW e \in Envs, Modes(e), SameFiles(e), env[e].pc # "closed", env'[e].pc \notin Seized
    PROVE  Modes(e)'
  BY DEF Modes, SameFiles, Seized

\* A step within the domain that keeps the locks on the data file.
LEMMA ModesWithin ==
    ASSUME NEW e \in Envs, Modes(e), SameFiles(e), env[e].pc \in Seized \ {"register"},
           env'[e].pc \in Seized \ {"register"}, env'[e].excl = env[e].excl,
           \A i, b, t : Rec("dxb", i, b, e, t) \in locks => Rec("dxb", i, b, e, t) \in locks',
           env[e].pc \in {"downgrade", "active"} => env'[e].pc \in {"downgrade", "active"},
           env'[e].pc \in {"setup", "downgrade", "sweep", "active"} /\ ~env[e].flags.rdonly =>
              \/ env[e].excl /\ env'[e].pc = "setup"
              \/ ModeOf(env[e].flags) = lck'[env[e].lck].envmode
    PROVE  Modes(e)'
PROOF
  <1>1. Share(e)' = Share(e)
    BY DEF Share, SameFiles
  <1>2. /\ env'[e].lck = env[e].lck /\ env'[e].dxb = env[e].dxb /\ env'[e].flags = env[e].flags
        /\ env[e].pc # "closed" /\ env[e].pc \in Seized /\ env'[e].pc \in Seized
    BY DEF Seized, SameFiles
  <1>3. ~(env[e].flags.excl /\ env[e].flags.rdonly) /\ (env[e].flags.excl => env[e].excl)
    BY <1>2 DEF Modes
  <1>4. OnDxb(e, ProcOf[e], Share(e))'
    BY <1>1, <1>2 DEF Modes, OnDxb
  <1>5. env[e].excl /\ (env[e].flags.excl \/ env'[e].pc \notin {"downgrade", "active"})
          => \A b \in Bytes : OnDxb(e, b, Share(e))'
    BY <1>1, <1>2 DEF Modes, OnDxb
  <1> QED BY <1>2, <1>3, <1>4, <1>5 DEF Modes

\* The modes a writer publishes are not that of a read-only environment.
LEMMA WriterMode ==
    ASSUME NEW f, NEW g
    PROVE  /\ ~f.rdonly => ModeOf(f) # "ro"
           /\ (~f.rdonly /\ ~g.rdonly /\ ModeOf(f) = ModeOf(g)) => (f.lazy <=> g.lazy)
  BY DEF ModeOf

\* A step of one handle that takes no lock of others keeps what the others
\* share.
LEMMA ShareOthers ==
    ASSUME NEW e \in Envs, Mine(e), \A n \in Envs : Modes(n), Modes(e)',
           \A l \in locks : l.own # e => l \in locks',
           \A n \in Envs \ {e} :
             env[n].pc \in {"setup", "downgrade", "sweep", "active"} /\ ~env[n].flags.rdonly =>
              \/ env[n].excl /\ env[n].pc = "setup"
              \/ lck'[env[n].lck].envmode = lck[env[n].lck].envmode
    PROVE  \A n \in Envs : Modes(n)'
  <1>1. ASSUME NEW n \in Envs \ {e} PROVE Modes(n)'
    BY <1>1, ModesKept DEF Mine
  <1> QED BY <1>1

\* lck_seize ends with the locks on the data file that its caller may have.
LEMMA ShareSeize ==
    ASSUME TypeOK, LockInv, Sharing, \A n \in Envs : Modes(n), NEW e \in Envs,
           DxbExclusive(e) \/ LockAgainst(e) \/ Register(e)
    PROVE  Modes(e)' /\ \A l \in locks : l.own # e => l \in locks'
PROOF
  <1>0. /\ env[e] \in EnvType /\ SameFiles(e) /\ Modes(e) /\ Compatible(locks) /\ locking.ofd
        /\ Mine(e) /\ Holds(e)
    BY OpeningFiles, OpeningType DEF TypeOK, Opening, LockInv, Sharing, NoDeletions
  <1>1. Share(e)' = Share(e)
    BY <1>0 DEF Share, SameFiles
  <1>2. CASE DxbExclusive(e)
    <2>1. CASE CanLock(Owner(e), "dxb", env[e].dxb, Bytes, Share(e))
      <3>1. locks' = Locked(locks, Owner(e), "dxb", env[e].dxb, Bytes, Share(e)) /\ env[e].pc = "dxb"
        BY <1>2, <2>1 DEF DxbExclusive
      <3>2. /\ \A l \in locks : l.own # e => l \in locks'
            /\ \A b \in Bytes : Rec("dxb", env[e].dxb, b, e, Share(e)) \in locks'
        BY <1>0, <2>1, <3>1, LockTaken
      <3>3. env'[e].pc = "register"
        <4>1. env'[e] = [env[e] EXCEPT !.excl = TRUE, !.pc = "register"]
          BY <1>2, <2>1 DEF DxbExclusive, TypeOK
        <4> QED BY <1>0, <4>1, FieldsSet
      <3>4. ProcOf[e] \in Bytes
        BY Naming
      <3> QED BY <1>0, <1>1, <3>1, <3>2, <3>3, <3>4 DEF Modes, OnDxb, SameFiles
    <2>2. CASE ~CanLock(Owner(e), "dxb", env[e].dxb, Bytes, Share(e))
      <3>1. locks' = locks /\ (Goto(e, "closing") \/ Goto(e, "shared")) /\ env[e].pc = "dxb"
        BY <1>2, <2>2 DEF DxbExclusive, SetupFails
      <3>2. env'[e].pc \notin Seized
        BY <3>1, GotoMoves DEF Moved, Pcs, Seized
      <3> QED BY <1>0, <3>1, <3>2, ModesOut
    <2> QED BY <2>1, <2>2
  <1>3. CASE LockAgainst(e)
    <2>1. CASE CanLock(Owner(e), "dxb", env[e].dxb, {ProcOf[e]}, Share(e))
      <3>1. locks' = Locked(locks, Owner(e), "dxb", env[e].dxb, {ProcOf[e]}, Share(e)) /\ env[e].pc = "against"
        BY <1>3, <2>1 DEF LockAgainst
      <3>2. /\ \A l \in locks : l.own # e => l \in locks'
            /\ \A b \in {ProcOf[e]} : Rec("dxb", env[e].dxb, b, e, Share(e)) \in locks'
        BY <1>0, <2>1, <3>1, LockTaken
      <3>3. env'[e].pc = "register" /\ ~env'[e].excl
        <4>1. env'[e] = [env[e] EXCEPT !.excl = FALSE, !.pc = "register"]
          BY <1>3, <2>1 DEF LockAgainst, TypeOK
        <4> QED BY <1>0, <4>1, FieldsSet
      <3> QED BY <1>0, <1>1, <3>1, <3>2, <3>3 DEF Modes, OnDxb, SameFiles
    <2>2. CASE ~CanLock(Owner(e), "dxb", env[e].dxb, {ProcOf[e]}, Share(e))
      <3>1. locks' = locks /\ Goto(e, "closing") /\ env[e].pc = "against"
        BY <1>3, <2>2 DEF LockAgainst, SetupFails
      <3>2. env'[e].pc \notin Seized
        BY <3>1, GotoMoves DEF Moved, Pcs, Seized
      <3> QED BY <1>0, <3>1, <3>2, ModesOut
    <2> QED BY <2>1, <2>2
  <1>4. CASE Register(e)
    <2> DEFINE joins == Neighbours(e) # {}
    <2>1. PICK x \in BOOLEAN, pc \in {"closing", "map"} :
             /\ env' = [env EXCEPT ![e].listed = TRUE, ![e].excl = x, ![e].pc = pc]
             /\ x = (env[e].excl /\ ~joins)
             /\ pc = "map" /\ env[e].flags.excl => x /\ locks' = locks
             /\ pc = "closing" => locks' = locks
             /\ locks' = locks \/ (~x /\ locks' = LckDowngraded(DxbDowngraded(locks, e), e) /\ env[e].excl)
      BY <1>0, <1>4 DEF Register, EnvType
    <2>2. env'[e].pc = pc /\ env'[e].excl = x /\ env[e].pc = "register"
      <3>1. env'[e] = [env[e] EXCEPT !.listed = TRUE, !.excl = x, !.pc = pc]
        BY <2>1 DEF TypeOK
      <3>2. env[e].pc = "register"
        BY <1>4 DEF Register
      <3> QED BY <1>0, <3>1, <3>2, FieldsSet
    <2>3. OnDxb(e, ProcOf[e], Share(e)) /\ (env[e].excl => \A b \in Bytes : OnDxb(e, b, Share(e)))
      BY <1>0, <2>2 DEF Modes, Seized
    <2>4. CASE locks' = locks
      <3>1. CASE pc = "closing"
        <4>1. env'[e].pc \notin Seized
          BY <2>2, <3>1 DEF Seized
        <4> QED BY <1>0, <2>2, <2>4, <4>1, ModesOut
      <3>2. CASE pc = "map"
        <4>1. env[e].flags.excl => env'[e].excl
          BY <2>1, <2>2, <3>2
        <4>2. env'[e].excl => env[e].excl
          BY <2>1, <2>2
        <4> QED BY <1>0, <1>1, <2>2, <2>3, <2>4, <3>2, <4>1, <4>2 DEF Modes, OnDxb, SameFiles
      <3> QED BY <3>1, <3>2
    <2>5. CASE locks' # locks
      <3>1. /\ ~x /\ env[e].excl /\ pc = "map" /\ ~env[e].flags.excl
            /\ locks' = LckDowngraded(DxbDowngraded(locks, e), e)
        BY <2>1, <2>5
      <3>2. Rec("lck", env[e].lck, First, e, "w") \in locks
        BY <1>0, <2>2, <3>1 DEF Holds, OnLck, Seized
      <3>3. Rec("lck", env[e].lck, First, e, "w") \in DxbDowngraded(locks, e)
        <4>1. Rec("lck", env[e].lck, First, e, "w").kind = "lck"
          BY DEF Rec
        <4> QED BY <1>0, <3>2, <4>1, DxbDowngradedFacts
      <3>4. \A l \in locks : l.own # e => l \in locks'
        BY <1>0, <3>1, <3>3, DxbDowngradedFacts, LckDowngradedFacts
      <3>5. Rec("dxb", env[e].dxb, ProcOf[e], e, Share(e)) \in locks'
        <4>1. ~On(Rec("dxb", env[e].dxb, ProcOf[e], e, Share(e)), "lck", env[e].lck, {First})
          BY DEF On, Rec
        <4>2. Rec("dxb", env[e].dxb, ProcOf[e], e, Share(e)) \in DxbDowngraded(locks, e)
          BY <1>0, <2>3, DxbDowngradedFacts DEF OnDxb
        <4> QED BY <1>0, <3>1, <3>3, <4>1, <4>2, DxbDowngradedFacts, LckDowngradedFacts
      <3> QED BY <1>0, <1>1, <2>2, <3>1, <3>4, <3>5 DEF Modes, OnDxb, SameFiles
    <2> QED BY <2>4, <2>5
  <1> QED BY <1>2, <1>3, <1>4

\* The rest of env_open: the mode is compared by whoever joins and published
\* by whoever is alone.
LEMMA ShareSetup ==
    ASSUME TypeOK, LockInv, Sharing, \A n \in Envs : Modes(n), NEW e \in Envs,
           \/ MapExclusive(e) \/ InitMutexes(e) \/ MapShared(e) \/ CheckMode(e) \/ DxbSetup(e)
           \/ Narrow(e) \/ Downgrade(e)
    PROVE  Modes(e)' /\ \A l \in locks : l.own # e => l \in locks'
PROOF
  <1>0. /\ env[e] \in EnvType /\ SameFiles(e) /\ Modes(e) /\ Compatible(locks) /\ locking.ofd /\ Holds(e)
        /\ env[e].pc # "closed" /\ lck \in [Inodes -> LckType]
        /\ env[e].pc \notin {"closed", "opened"} => env[e].lck \in Inodes
    BY OpeningFiles DEF TypeOK, Opening, LockInv, Sharing, NoDeletions
  <1>1. CASE MapExclusive(e) \/ InitMutexes(e)
    <2>1. locks' = locks /\ env[e].pc \in {"map", "mutex"} /\ env[e].excl
      BY <1>0, <1>1 DEF MapExclusive, InitMutexes, Holds
    <2>2. env'[e].pc \in {"mutex", "mode"} /\ env'[e].excl = env[e].excl
      <3>1. env'[e] = [env[e] EXCEPT !.mapped = TRUE, !.pc = "mutex"]
            \/ env'[e] = [env[e] EXCEPT !.ready = TRUE, !.pc = "mode"]
        BY <1>1 DEF TypeOK, MapExclusive, InitMutexes
      <3>2. \A r \in EnvType : /\ LET s == [r EXCEPT !.mapped = TRUE, !.pc = "mutex"]
                                  IN  s.pc = "mutex" /\ s.excl = r.excl
                               /\ LET s == [r EXCEPT !.ready = TRUE, !.pc = "mode"]
                                  IN  s.pc = "mode" /\ s.excl = r.excl
        BY DEF EnvType
      <3>3. env[e] \in EnvType
        BY DEF TypeOK
      <3> QED BY <3>1, <3>2, <3>3
    <2>3. env[e].pc \in Seized \ {"register"} /\ env'[e].pc \in Seized \ {"register"}
      BY <2>1, <2>2 DEF Seized
    <2> QED BY <1>0, <2>1, <2>2, <2>3, ModesWithin
  <1>2. CASE MapShared(e)
    <2>1. locks' = locks /\ env[e].pc = "map"
      BY <1>2 DEF MapShared
    <2>2. env'[e].pc \in {"mode", "closing"} /\ env'[e].excl = env[e].excl
      <3>1. env[e].lck \in Inodes
        BY <1>0, <2>1
      <3>2. PICK m \in BOOLEAN, y \in BOOLEAN, pc \in {"mode", "closing"} :
               env' = [env EXCEPT ![e].mapped = m, ![e].ready = y, ![e].pc = pc]
        BY <1>0, <1>2, <3>1 DEF MapShared, LckType
      <3>3. env'[e] = [env[e] EXCEPT !.mapped = m, !.ready = y, !.pc = pc]
        BY <3>2 DEF TypeOK
      <3>4. \A r \in EnvType : LET s == [r EXCEPT !.mapped = m, !.ready = y, !.pc = pc]
                               IN  s.pc = pc /\ s.excl = r.excl
        BY DEF EnvType
      <3> QED BY <1>0, <3>3, <3>4
    <2>3. CASE env'[e].pc = "closing"
      <3>1. env'[e].pc \notin Seized
        BY <2>3 DEF Seized
      <3> QED BY <1>0, <2>1, <3>1, ModesOut
    <2>4. CASE env'[e].pc = "mode"
      <3>1. env[e].pc \in Seized \ {"register"} /\ env'[e].pc \in Seized \ {"register"}
        BY <2>1, <2>4 DEF Seized
      <3> QED BY <1>0, <2>1, <2>2, <2>4, <3>1, ModesWithin
    <2> QED BY <2>2, <2>3, <2>4
  <1>3. CASE CheckMode(e)
    <2> DEFINE mine == ModeOf(env[e].flags)
               snap == lck[env[e].lck].envmode
    <2>1. locks' = locks /\ env[e].pc = "mode" /\ env[e].lck \in Inodes
      BY <1>0, <1>3 DEF CheckMode
    <2>2. Moved(e, "closing") \/ Moved(e, "setup")
      BY <1>3, GotoMoves DEF CheckMode, Pcs
    <2>3. CASE env'[e].pc = "closing"
      <3>1. env'[e].pc \notin Seized
        BY <2>3 DEF Seized
      <3> QED BY <1>0, <2>1, <3>1, ModesOut
    <2>4. CASE env'[e].pc = "setup"
      <3>1. ~(~env[e].excl /\ mine # "ro" /\ snap \notin {"ro", mine})
        <4>1. SUFFICES ASSUME ~env[e].excl /\ mine # "ro" /\ snap \notin {"ro", mine} PROVE FALSE
          OBVIOUS
        <4>2. Goto(e, "closing")
          BY <1>3, <4>1 DEF CheckMode
        <4> QED BY <2>4, <4>2, GotoMoves DEF Moved, Pcs
      <3>2. ~env[e].flags.rdonly => env[e].excl \/ mine = lck'[env[e].lck].envmode
        <4>1. SUFFICES ASSUME ~env[e].flags.rdonly, ~env[e].excl PROVE mine = lck'[env[e].lck].envmode
          OBVIOUS
        <4>2. mine # "ro"
          BY <4>1, WriterMode
        <4>3. CASE snap = "ro"
          <5>1. lck' = [lck EXCEPT ![env[e].lck].envmode = mine]
            BY <1>3, <4>1, <4>2, <4>3 DEF CheckMode
          <5> QED BY <1>0, <2>1, <5>1 DEF LckType
        <4>4. CASE snap = mine
          <5>1. lck' = lck
            BY <1>3, <4>2, <4>4 DEF CheckMode
          <5> QED BY <4>4, <5>1
        <4> QED BY <3>1, <4>1, <4>2, <4>3, <4>4
      <3>3. env[e].pc \in Seized \ {"register"} /\ env'[e].pc \in Seized \ {"register"}
        BY <2>1, <2>4 DEF Seized
      <3>4. env'[e].excl = env[e].excl
        BY <2>2 DEF Moved
      <3> QED BY <1>0, <2>1, <2>4, <3>2, <3>3, <3>4, ModesWithin
    <2> QED BY <2>2, <2>3, <2>4 DEF Moved
  <1>4. CASE DxbSetup(e)
    <2>1. locks' = locks /\ env[e].pc = "setup" /\ lck' = lck
      BY <1>4 DEF DxbSetup
    <2>2. Moved(e, "closing") \/ Moved(e, IF env[e].excl THEN "narrow" ELSE "sweep")
      BY <1>4, GotoMoves DEF DxbSetup, Pcs
    <2>3. CASE env'[e].pc = "closing"
      <3>1. env'[e].pc \notin Seized
        BY <2>3 DEF Seized
      <3> QED BY <1>0, <2>1, <3>1, ModesOut
    <2>4. CASE env'[e].pc # "closing"
      <3>1. env'[e].pc = (IF env[e].excl THEN "narrow" ELSE "sweep") /\ env'[e].excl = env[e].excl
        BY <2>2, <2>4 DEF Moved
      <3>2. env[e].pc \in Seized \ {"register"} /\ env'[e].pc \in Seized \ {"register"}
        BY <2>1, <3>1 DEF Seized
      <3>3. ~env[e].flags.rdonly /\ env'[e].pc = "sweep" => ModeOf(env[e].flags) = lck'[env[e].lck].envmode
        BY <1>0, <2>1, <3>1 DEF Modes
      <3>4. env'[e].pc \notin {"setup", "downgrade", "active"}
        BY <3>1
      <3> QED BY <1>0, <2>1, <3>1, <3>2, <3>3, <3>4, ModesWithin
    <2> QED BY <2>3, <2>4
  <1>5. CASE Narrow(e)
    <2>1. locks' = DxbDowngraded(locks, e) /\ env[e].pc = "narrow" /\ env[e].lck \in Inodes /\ env[e].excl
      BY <1>0, <1>5 DEF Narrow, Holds
    <2>2. env'[e].pc = "downgrade" /\ env'[e].excl = env[e].excl
      BY <1>5, GotoMoves DEF Narrow, Moved, Pcs
    <2>3. lck'[env[e].lck].envmode = ModeOf(env[e].flags)
      BY <1>0, <1>5, <2>1 DEF Narrow, LckType
    <2>4. /\ \A l \in locks : l.own # e => l \in locks'
          /\ env[e].flags.excl => locks' = locks
          /\ Rec("dxb", env[e].dxb, ProcOf[e], e, Share(e)) \in locks =>
                Rec("dxb", env[e].dxb, ProcOf[e], e, Share(e)) \in locks'
      BY <1>0, <2>1, DxbDowngradedFacts
    <2>5. /\ ~(env[e].flags.excl /\ env[e].flags.rdonly) /\ OnDxb(e, ProcOf[e], Share(e))
          /\ \A b \in Bytes : OnDxb(e, b, Share(e))
      BY <1>0, <2>1 DEF Modes, Seized
    <2>6. Share(e)' = Share(e)
      BY <1>0 DEF Share, SameFiles
    <2> QED BY <1>0, <2>1, <2>2, <2>3, <2>4, <2>5, <2>6 DEF Modes, OnDxb, SameFiles
  <1>6. CASE Downgrade(e)
    <2>1. locks' = LckDowngraded(locks, e) /\ env[e].pc = "downgrade" /\ lck' = lck
      BY <1>6 DEF Downgrade, files
    <2>2. env'[e].pc = "active" /\ env'[e].excl = env[e].excl
      BY <1>6, GotoMoves DEF Downgrade, Moved, Pcs
    <2>3. Rec("lck", env[e].lck, First, e, "w") \in locks
      BY <1>0, <2>1 DEF Holds, OnLck, Seized
    <2>4. \A l \in locks : (l.own # e \/ ~On(l, "lck", env[e].lck, {First})) => l \in locks'
      BY <1>0, <2>1, <2>3, LckDowngradedFacts
    <2>5. \A i, b, t : Rec("dxb", i, b, e, t) \in locks => Rec("dxb", i, b, e, t) \in locks'
      BY <2>4 DEF On, Rec
    <2>6. env[e].pc \in Seized \ {"register"} /\ env'[e].pc \in Seized \ {"register"}
      BY <2>1, <2>2 DEF Seized
    <2>7. ~env[e].flags.rdonly => ModeOf(env[e].flags) = lck'[env[e].lck].envmode
      BY <1>0, <2>1 DEF Modes
    <2> QED BY <1>0, <2>1, <2>2, <2>4, <2>5, <2>6, <2>7, ModesWithin
  <1> QED BY <1>1, <1>2, <1>3, <1>4, <1>5, <1>6

\* A published mode changes only while nobody else relies on it, or from that
\* of a domain without writers.
LEMMA ModeStays ==
    ASSUME TypeOK, LockInv, \A n \in Envs : Modes(n), NEW e \in Envs, NEW n \in Envs \ {e},
           MapExclusive(e) \/ CheckMode(e) \/ Narrow(e) \/ Truncate(e),
           env[n].pc \in {"setup", "downgrade", "sweep", "active"}, ~env[n].flags.rdonly
    PROVE  \/ env[n].excl /\ env[n].pc = "setup"
           \/ lck'[env[n].lck].envmode = lck[env[n].lck].envmode
PROOF
  <1>1. /\ env[n].pc \in Seized /\ env[n].lck \in Inodes /\ lck \in [Inodes -> LckType]
        /\ env[e].lck \in Inodes
    BY DEF TypeOK, Seized, MapExclusive, CheckMode, Narrow, Truncate
  <1>2. CASE env[n].lck # env[e].lck
    <2>1. lck'[env[n].lck] = lck[env[n].lck]
      <3>1. CASE MapExclusive(e)
        BY <1>1, <1>2, <3>1 DEF MapExclusive
      <3>2. CASE CheckMode(e)
        BY <1>1, <1>2, <3>2 DEF CheckMode
      <3>3. CASE Narrow(e)
        BY <1>1, <1>2, <3>3 DEF Narrow
      <3>4. CASE Truncate(e)
        BY <1>1, <1>2, <3>4 DEF Truncate
      <3> QED BY <3>1, <3>2, <3>3, <3>4
    <2> QED BY <2>1
  <1>3. CASE env[n].lck = env[e].lck /\ ~CheckMode(e)
    <2>1. OnLck(e, First, "w")
      <3>1. Holds(e) /\ First \in Bytes
        BY DEF LockInv, Bytes
      <3>2. \/ env[e].pc \in {"map", "narrow"} /\ env[e].excl
            \/ env[e].pc = "truncate"
        BY <1>3, <3>1 DEF MapExclusive, Narrow, Truncate, Holds
      <3> QED BY <3>1, <3>2 DEF Holds, Seized
    <2> QED BY <1>1, <1>3, <2>1, NoOtherMember
  <1>4. CASE env[n].lck = env[e].lck /\ CheckMode(e)
    <2>1. CASE lck' = lck
      BY <2>1
    <2>2. CASE lck' # lck
      <3>1. lck[env[e].lck].envmode = "ro"
        BY <1>4, <2>2 DEF CheckMode
      <3>2. (env[n].excl /\ env[n].pc = "setup") \/ ModeOf(env[n].flags) = lck[env[n].lck].envmode
        BY DEF Modes
      <3> QED BY <1>4, <3>1, <3>2, WriterMode
    <2> QED BY <2>1, <2>2
  <1> QED BY <1>2, <1>3, <1>4

\* Every step keeps the locks on the data file and the published modes in accord.
LEMMA ShareStep ==
    ASSUME TypeOK, LockInv, Sharing, \A n \in Envs : Modes(n), Undeleted, Next
    PROVE  \A n \in Envs : Modes(n)'
PROOF
  <1>0. locking.ofd /\ Compatible(locks) /\ \A n \in Envs : Holds(n)
    BY DEF Sharing, NoDeletions, LockInv
  <1> DEFINE Published(e) ==
               \A n \in Envs \ {e} :
                 env[n].pc \in {"setup", "downgrade", "sweep", "active"} /\ ~env[n].flags.rdonly =>
                  \/ env[n].excl /\ env[n].pc = "setup"
                  \/ lck'[env[n].lck].envmode = lck[env[n].lck].envmode
             OwnOnly(e) == \A l \in locks : l.own # e => l \in locks'
  <1>1. ASSUME NEW d \in Deleters, mdbx_env_delete(d) PROVE FALSE
    <2>1. del[d].pc = "start" /\ d \notin locking.deleters
      BY DEF Undeleted, Sharing, NoDeletions
    <2> QED BY <1>1, <2>1 DEF mdbx_env_delete, DelOpenDxb, DelOpenLck, DelLock, DelUnlink, DelClose
  <1>2. ASSUME NEW p \in Procs, Kill(p) PROVE \A n \in Envs : Modes(n)'
    <2>1. /\ locks' = {l \in locks : l.own # p /\ ~(l.own \in Envs /\ ProcOf[l.own] = p)}
          /\ \A n \in Envs : env'[n] = IF ProcOf[n] = p THEN ClosedEnv ELSE env[n]
          /\ lck' = lck
      BY <1>2 DEF Kill
    <2>2. ASSUME NEW n \in Envs, ProcOf[n] = p PROVE Modes(n)'
      <3>1. env'[n].pc = "closed"
        BY <2>1, <2>2 DEF ClosedEnv
      <3> QED BY <3>1 DEF Modes, Seized
    <2>3. ASSUME NEW n \in Envs, ProcOf[n] # p PROVE Modes(n)'
      <3>1. n # p
        BY Naming
      <3>2. env'[n] = env[n] /\ \A l \in locks : l.own = n => l \in locks'
        BY <2>1, <2>3, <3>1
      <3> QED BY <2>1, <3>2, ModesKept
    <2> QED BY <2>2, <2>3
  <1>3. ASSUME NEW e \in Envs, Opening(e) PROVE \A n \in Envs : Modes(n)'
    <2>1. /\ Mine(e) /\ SameFiles(e) /\ env[e].pc # "closed" /\ Modes(e)
          /\ env[e].pc \notin {"closed", "opened"} => env[e].lck \in Inodes
          /\ lck \in [Inodes -> LckType]
      BY <1>3, OpeningType, OpeningFiles DEF TypeOK
    <2>2. Published(e)
      <3>1. CASE MapExclusive(e) \/ CheckMode(e) \/ Narrow(e)
        BY <3>1, ModeStays
      <3>2. CASE InitMutexes(e)
        <4>1. \A i \in Inodes : lck'[i].envmode = lck[i].envmode
          BY <2>1, <3>2 DEF InitMutexes, LckType
        <4> QED BY <4>1 DEF TypeOK
      <3>3. CASE mvcc_cleanup_dead(e)
        <4>1. \A i \in Inodes : lck'[i].envmode = lck[i].envmode
          BY <3>3, RegionWrites DEF mvcc_cleanup_dead, CheckMode, Narrow
        <4> QED BY <4>1 DEF TypeOK
      <3>4. CASE lck' = lck
        BY <3>4
      <3> QED BY <1>3, <3>1, <3>2, <3>3, <3>4
              DEF Opening, OpenLck, Enter, TryExclusive, DxbExclusive, TakeShared, UnlockBeforeRetry,
                  RetryExclusive, LockAgainst, Register, MapShared, DxbSetup, Downgrade, SetupFails, files
    <2>3. Modes(e)' /\ OwnOnly(e)
      <3>1. CASE DxbExclusive(e) \/ LockAgainst(e) \/ Register(e)
        BY <3>1, ShareSeize
      <3>2. CASE \/ MapExclusive(e) \/ InitMutexes(e) \/ MapShared(e) \/ CheckMode(e) \/ DxbSetup(e)
                 \/ Narrow(e) \/ Downgrade(e)
        BY <3>2, ShareSetup
      <3>3. CASE env[e].pc = "sweep" /\ mvcc_cleanup_dead(e)
        <4>1. locks' = locks /\ env[e].lck \in Inodes
          BY <2>1, <3>3 DEF mvcc_cleanup_dead
        <4>2. Moved(e, "active") \/ Moved(e, "closing")
          BY <3>3, GotoMoves DEF mvcc_cleanup_dead, Pcs
        <4>3. CASE Moved(e, "closing")
          <5>1. env'[e].pc \notin Seized
            BY <4>3 DEF Moved, Seized
          <5> QED BY <2>1, <4>1, <5>1, ModesOut
        <4>4. CASE Moved(e, "active")
          <5>1. env[e].pc \in Seized \ {"register"} /\ env'[e].pc \in Seized \ {"register"}
            BY <3>3, <4>4 DEF Moved, Seized
          <5>2. lck'[env[e].lck].envmode = lck[env[e].lck].envmode
            BY <3>3, <4>1, RegionWrites DEF CheckMode, Narrow
          <5>3. ~env[e].flags.rdonly => ModeOf(env[e].flags) = lck'[env[e].lck].envmode
            BY <2>1, <3>3, <5>2 DEF Modes
          <5>4. env'[e].excl = env[e].excl /\ env'[e].pc = "active"
            BY <4>4 DEF Moved
          <5> QED BY <2>1, <3>3, <4>1, <5>1, <5>3, <5>4, ModesWithin
        <4> QED BY <4>2, <4>3, <4>4
      <3>4. CASE \/ OpenLck(e) \/ Enter(e) \/ TryExclusive(e) \/ TakeShared(e) \/ UnlockBeforeRetry(e)
                 \/ RetryExclusive(e)
        <4>1. env'[e].pc \notin Seized
          <5>1. CASE OpenLck(e)
            <6>1. env'[e] = [env[e] EXCEPT !.lck = OpenedFile("lck"), !.pc = "enter"] /\ env[e] \in EnvType
              BY <5>1 DEF OpenLck, TypeOK
            <6> QED BY <6>1 DEF EnvType, Seized
          <5>2. CASE ~OpenLck(e)
            <6>1. \E pc \in Pcs \ Seized : Goto(e, pc)
              BY <3>4, <5>2 DEF Enter, TryExclusive, TakeShared, UnlockBeforeRetry, RetryExclusive,
                                SetupFails, Pcs, Seized
            <6> QED BY <6>1, GotoMoves DEF Moved
          <5> QED BY <5>1, <5>2
        <4>2. OwnOnly(e)
          <5>1. CASE locks' = locks
            BY <5>1
          <5>2. CASE \E type : /\ locks' = Locked(locks, Owner(e), "lck", env[e].lck, {First}, type)
                               /\ CanLock(Owner(e), "lck", env[e].lck, {First}, type)
            BY <1>0, <5>2, LockTaken
          <5>3. CASE locks' = Unlocked(locks, Owner(e), "lck", env[e].lck, {First})
            BY <1>0, <5>3, LockDropped
          <5> QED BY <3>4, <5>1, <5>2, <5>3 DEF OpenLck, Enter, TryExclusive, TakeShared,
                                                UnlockBeforeRetry, RetryExclusive, rest
        <4> QED BY <2>1, <4>1, <4>2, ModesOut
      <3> QED BY <1>3, <3>1, <3>2, <3>3, <3>4 DEF Opening
    <2> QED BY <2>1, <2>2, <2>3, ShareOthers
  <1>4. ASSUME NEW e \in Envs, Closing(e) PROVE \A n \in Envs : Modes(n)'
    <2>1. /\ Mine(e) /\ env[e].pc \notin {"closed", "opened"} /\ Modes(e) /\ Holds(e)
          /\ env[e].lck \in Inodes /\ lck \in [Inodes -> LckType]
          /\ env'[e].pc = "closed" \/ SameFiles(e)
      BY <1>0, <1>4, ClosingType, ClosingFiles DEF TypeOK
    <2>2. Published(e)
      <3>1. CASE Truncate(e)
        BY <3>1, ModeStays
      <3>2. CASE DestroyMutexes(e)
        <4>1. \A i \in Inodes : lck'[i].envmode = lck[i].envmode
          BY <2>1, <3>2 DEF DestroyMutexes, LckType
        <4> QED BY <4>1 DEF TypeOK
      <3>3. CASE rthc_drown(e)
        <4>1. \A i \in Inodes : lck'[i].envmode = lck[i].envmode
          BY <3>3, RegionWrites DEF rthc_drown, CheckMode, Narrow
        <4> QED BY <4>1 DEF TypeOK
      <3>4. CASE lck' = lck
        BY <3>4
      <3> QED BY <1>4, <3>1, <3>2, <3>3, <3>4
              DEF Closing, SeizeLck, CloseDxb, RestoreDxb, CloseLck, RestoreLck, RestorePid, rthc_remove
    <2>3. env'[e].pc \notin Seized
      <3>1. CASE rthc_drown(e)
        <4>1. PICK h \in Envs \cup {Nobody}, pc \in {"lckall", "closedxb"} :
                 env' = [env EXCEPT ![e].heir = h, ![e].rpid = FALSE, ![e].pc = pc]
          BY <3>1 DEF rthc_drown, Neighbours
        <4>2. env'[e] = [env[e] EXCEPT !.heir = h, !.rpid = FALSE, !.pc = pc] /\ env[e] \in EnvType
          BY <4>1 DEF TypeOK
        <4> QED BY <4>2 DEF EnvType, Seized
      <3>2. CASE Truncate(e)
        <4>1. env'[e] = [env[e] EXCEPT !.mapped = FALSE, !.ready = FALSE, !.pc = "closedxb"] /\ env[e] \in EnvType
          BY <3>2 DEF Truncate, TypeOK
        <4> QED BY <4>1 DEF EnvType, Seized
      <3>3. CASE rthc_remove(e)
        BY <3>3 DEF rthc_remove, TypeOK, ClosedEnv, Seized
      <3>4. CASE \E pc \in Pcs \ Seized : Goto(e, pc)
        BY <3>4, GotoMoves DEF Moved
      <3> QED BY <1>4, <3>1, <3>2, <3>3, <3>4
              DEF Closing, SeizeLck, DestroyMutexes, CloseDxb, RestoreDxb, CloseLck, RestoreLck, RestorePid,
                  Pcs, Seized
    <2>4. OwnOnly(e)
      <3>1. CASE locks' = locks
        BY <3>1
      <3>2. CASE \E kind, bytes, type, ino : /\ locks' = Locked(locks, Owner(e), kind, ino, bytes, type)
                                             /\ CanLock(Owner(e), kind, ino, bytes, type)
        BY <1>0, <3>2, LockTaken
      <3>3. CASE \E kind, bytes, ino : locks' = Unlocked(locks, Owner(e), kind, ino, bytes)
        BY <1>0, <3>3, LockDropped
      <3>4. ~RestoreDxb(e) /\ ~RestoreLck(e) /\ ~RestorePid(e)
        BY <2>1 DEF Holds, RestoreDxb, RestoreLck, RestorePid
      <3> QED BY <1>4, <3>1, <3>2, <3>3, <3>4
              DEF Closing, rthc_drown, SeizeLck, DestroyMutexes, Truncate, CloseDxb, CloseLck, rthc_remove,
                  AfterClose
    <2>5. Modes(e)'
      <3>1. CASE SameFiles(e)
        BY <2>1, <2>3, <3>1, ModesOut
      <3>2. CASE env'[e].pc = "closed"
        BY <3>2 DEF Modes, Seized
      <3> QED BY <2>1, <3>1, <3>2
    <2> QED BY <2>1, <2>2, <2>4, <2>5, ShareOthers
  <1>5. ASSUME NEW e \in Envs, Using(e) PROVE \A n \in Envs : Modes(n)'
    <2>1. Mine(e) /\ Modes(e)
      BY <1>5, UsingType
    <2>2. ASSUME NEW f \in locking.modes[e], Open(e, f) PROVE \A n \in Envs : Modes(n)'
      <3>1. lck' = lck /\ locks' = locks /\ env'[e].pc = "opened" /\ env'[e].flags = f
        BY <2>2 DEF Open, TypeOK, ClosedEnv
      <3>2. Modes(e)'
        BY <3>1 DEF Modes, Seized, Sharing
      <3> QED BY <2>1, <3>1, <3>2, ShareOthers
    <2>3. ASSUME ~\E f \in locking.modes[e] : Open(e, f) PROVE \A n \in Envs : Modes(n)'
      <3>1. /\ SameFiles(e) /\ env[e].pc = "active" /\ env'[e].pc \in {"active", "closing"}
            /\ env[e].lck \in Inodes /\ lck \in [Inodes -> LckType]
        BY <1>5, <2>3, UsingFiles DEF TypeOK
      <3>2. \A i \in Inodes : lck'[i].envmode = lck[i].envmode
        <4>1. CASE mvcc_cleanup_dead(e) \/ mvcc_bind_slot(e)
          BY <3>1, <4>1, RegionWrites DEF CheckMode, Narrow
        <4>2. CASE LazyCommit(e) \/ \E synced \in BOOLEAN : Close(e, synced)
          <5>1. \A x : [lck[env[e].lck] EXCEPT !.unsynced = x].envmode = lck[env[e].lck].envmode
            BY <3>1 DEF LckType
          <5>2. lck' = lck \/ \E x : lck' = [lck EXCEPT ![env[e].lck] = [lck[env[e].lck] EXCEPT !.unsynced = x]]
            BY <4>2 DEF LazyCommit, Close
          <5>3. ASSUME NEW x, lck' = [lck EXCEPT ![env[e].lck] = [lck[env[e].lck] EXCEPT !.unsynced = x]]
                PROVE  \A i \in Inodes : lck'[i].envmode = lck[i].envmode
            <6> DEFINE s == [lck[env[e].lck] EXCEPT !.unsynced = x]
            <6>1. s.envmode = lck[env[e].lck].envmode /\ lck' = [lck EXCEPT ![env[e].lck] = s]
              BY <5>1, <5>3
            <6> HIDE DEF s
            <6> QED BY <3>1, <6>1
          <5> QED BY <5>2, <5>3
        <4> QED BY <1>5, <2>3, <4>1, <4>2 DEF Using
      <3>3. Published(e)
        BY <3>2 DEF TypeOK
      <3>4. \A l \in locks : (l.own # e \/ ~On(l, "lck", env[e].lck, {ProcOf[e]})) => l \in locks'
        <4>1. CASE mvcc_bind_slot(e)
          BY <1>0, <4>1, LockTaken DEF mvcc_bind_slot
        <4>2. CASE ~mvcc_bind_slot(e)
          BY <1>5, <2>3, <4>2 DEF Using, mvcc_cleanup_dead, LazyCommit, Close
        <4> QED BY <4>1, <4>2
      <3>5. \A i, b, t : Rec("dxb", i, b, e, t) \in locks => Rec("dxb", i, b, e, t) \in locks'
        BY <3>4 DEF On, Rec
      <3>6. Modes(e)'
        <4>1. CASE env'[e].pc = "closing"
          <5>1. env'[e].pc \notin Seized
            BY <4>1 DEF Seized
          <5> QED BY <2>1, <3>1, <5>1, ModesOut
        <4>2. CASE env'[e].pc = "active"
          <5>1. env[e].pc \in Seized \ {"register"} /\ env'[e].pc \in Seized \ {"register"}
            BY <3>1, <4>2 DEF Seized
          <5>2. env'[e].excl = env[e].excl
            <6>1. CASE mvcc_bind_slot(e)
              <7>1. env[e] \in EnvType /\ env'[e] = [env[e] EXCEPT !.rpid = TRUE]
                BY <6>1 DEF TypeOK, mvcc_bind_slot
              <7> QED BY <7>1, MarksSet
            <6>2. CASE Goto(e, "active") \/ Goto(e, "closing")
              BY <6>2, GotoMoves DEF Moved, Pcs
            <6>3. CASE env' = env
              BY <6>3
            <6> QED BY <1>5, <2>3, <6>1, <6>2, <6>3 DEF Using, mvcc_cleanup_dead, LazyCommit, Close
          <5>3. ~env[e].flags.rdonly => ModeOf(env[e].flags) = lck'[env[e].lck].envmode
            BY <2>1, <3>1, <3>2 DEF Modes
          <5> QED BY <2>1, <3>1, <3>5, <4>2, <5>1, <5>2, <5>3, ModesWithin
        <4> QED BY <3>1, <4>1, <4>2
      <3> QED BY <2>1, <3>3, <3>4, <3>6, ShareOthers
    <2> QED BY <2>2, <2>3
  <1> QED BY <1>1, <1>2, <1>3, <1>4, <1>5 DEF Next

\* What the files, the mutexes and the modes rest on, in every reachable state.
DomainInv == EnvInv /\ NameInv /\ CalmInv /\ ShareInv

\* The conjunction is an invariant.
LEMMA DomainInvariance == Spec => []DomainInv
PROOF
  <1>1. Init => DomainInv
    <2> SUFFICES ASSUME Init PROVE DomainInv
      OBVIOUS
    <2>1. EnvInv
      BY InitLocks
    <2>2. /\ \A e \in Envs : env[e].pc = "closed"
          /\ \A d \in Deleters : del[d].pc = "start"
          /\ \A i \in Inodes : ~lck[i].full /\ ~lck[i].unsynced
      BY DEF Init, ClosedEnv, IdleDeleter, EmptyLck
    <2>3. Undeleted /\ (\A e \in Envs : Named(e)) /\ MutexesWork /\ SyncPending /\ \A e \in Envs : Modes(e)
      BY <2>2 DEF Undeleted, Named, MutexesWork, SyncPending, Modes, Seized
    <2> QED BY <2>1, <2>3 DEF DomainInv, NameInv, CalmInv, ShareInv
  <1>2. DomainInv /\ [Next]_vars => DomainInv'
    <2> SUFFICES ASSUME DomainInv, [Next]_vars PROVE DomainInv'
      OBVIOUS
    <2>1. EnvInv'
      BY NextLocks DEF DomainInv
    <2>2. CASE Next
      <3>1. locking' = locking /\ TypeOK /\ (locking.ofd => LockInv)
        BY <2>2, SettingStays DEF DomainInv, EnvInv
      <3>2. /\ NoDeletions' = NoDeletions /\ Calm' = Calm /\ Sharing' = Sharing
            /\ Calm => (NoDeletions /\ locking.ofd)
            /\ Sharing => (NoDeletions /\ locking.ofd)
            /\ NoDeletions => locking.ofd
        BY <3>1 DEF NoDeletions, Calm, Sharing
      <3>3. NameInv'
        BY <2>2, <3>1, <3>2, NameStep DEF DomainInv, NameInv
      <3>4. CalmInv'
        BY <2>2, <3>1, <3>2, CalmStep DEF DomainInv, NameInv, CalmInv
      <3>5. ShareInv'
        BY <2>2, <3>1, <3>2, ShareStep DEF DomainInv, NameInv, ShareInv
      <3> QED BY <2>1, <3>3, <3>4, <3>5 DEF DomainInv
    <2>3. CASE UNCHANGED vars
      <3>1. UNCHANGED <<locking, dir, del, env, lck, locks>>
        BY <2>3 DEF vars
      <3>2. NameInv'
        BY <3>1 DEF DomainInv, NameInv, NoDeletions, Undeleted, Named
      <3>3. CalmInv'
        BY <3>1 DEF DomainInv, CalmInv, Calm, NoDeletions, MutexesWork, SyncPending
      <3>4. ShareInv'
        BY <3>1 DEF DomainInv, ShareInv, Sharing, NoDeletions, Modes, OnDxb, Share
      <3> QED BY <2>1, <3>2, <3>3, <3>4 DEF DomainInv
    <2> QED BY <2>2, <2>3
  <1> QED BY <1>1, <1>2, PTL DEF Spec

\* An open environment relies on an initialised region with live mutexes, for
\* any number of processes that open, fail and close with a sync; with kills
\* or without the sync it need not (two handles that join one region at once).
THEOREM ReadySafety == Spec => [](Calm => InUseIsReady)
PROOF
  <1>1. DomainInv => (Calm => InUseIsReady)
    <2> SUFFICES ASSUME DomainInv, Calm PROVE InUseIsReady
      OBVIOUS
    <2>1. TypeOK /\ LockInv /\ MutexesWork
      BY DEF DomainInv, EnvInv, CalmInv, Calm, NoDeletions
    <2> QED BY <2>1, ActiveLive DEF InUseIsReady
  <1> QED BY <1>1, DomainInvariance, PTL

\* The users of a data file share one lck file, MDBX_EXCLUSIVE has it alone and
\* its writers agree on MDBX_SAFE_NOSYNC, kills and failures included; where
\* nobody deletes, and nobody asks for MDBX_EXCLUSIVE with MDBX_RDONLY.
THEOREM DomainSafety == Spec => [](Sharing => OneDomain)
PROOF
  <1>1. DomainInv => (Sharing => OneDomain)
    <2> SUFFICES ASSUME DomainInv, Sharing,
                        NEW e \in Envs, NEW n \in Envs, e # n, env[e].pc = "active",
                        env[n].pc = "active", env[e].dxb = env[n].dxb
                 PROVE  /\ env[e].lck = env[n].lck /\ ~env[e].flags.excl
                        /\ (locking.ofd /\ ~env[e].flags.rdonly /\ ~env[n].flags.rdonly)
                             => env[e].flags.lazy = env[n].flags.lazy
      BY DEF OneDomain
    <2>1. /\ TypeOK /\ LockInv /\ Named(e) /\ Named(n) /\ Modes(e) /\ Modes(n)
      BY DEF DomainInv, EnvInv, NameInv, ShareInv, Sharing, NoDeletions
    <2>2. env[e].lck = env[n].lck
      BY <2>1 DEF Named
    <2>3. ~env[e].flags.excl
      <3>1. SUFFICES ASSUME env[e].flags.excl PROVE FALSE
        OBVIOUS
      <3>2. ~env[e].flags.rdonly /\ \A b \in Bytes : OnDxb(e, b, Share(e))
        BY <2>1, <3>1 DEF Modes, Seized
      <3>3. OnDxb(e, ProcOf[n], "w")
        BY <3>2, Naming DEF Share, Bytes
      <3>4. OnDxb(n, ProcOf[n], Share(n)) /\ Compatible(locks)
        BY <2>1 DEF Modes, Seized, LockInv
      <3> QED BY <3>3, <3>4, TwoOwners DEF OnDxb
    <2>4. ASSUME ~env[e].flags.rdonly, ~env[n].flags.rdonly
          PROVE  env[e].flags.lazy = env[n].flags.lazy
      <3>1. ModeOf(env[e].flags) = ModeOf(env[n].flags)
        BY <2>1, <2>2, <2>4 DEF Modes
      <3>2. env[e].flags \in Flags /\ env[n].flags \in Flags
        BY <2>1 DEF TypeOK, EnvType
      <3> QED BY <2>4, <3>1, <3>2, WriterMode DEF Flags
    <2> QED BY <2>2, <2>3, <2>4
  <1> QED BY <1>1, DomainInvariance, PTL
=============================================================================

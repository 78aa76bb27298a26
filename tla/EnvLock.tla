------------------------------ MODULE EnvLock ------------------------------
(***************************************************************************)
(* How the processes that use one database agree on who initialises and    *)
(* who destroys the shared lock region: mdbx_env_open, mdbx_env_close_ex    *)
(* and mdbx_env_delete over the two files (dxb and lck), their fcntl()     *)
(* record locks, the reader pids of the lock region and the in-process     *)
(* table of environments (rthc).  One action is one system call or one     *)
(* stretch of code between two of them; the rthc mutex is held across      *)
(* lck_setup_locked and across rthc_remove, the waits included.            *)
(***************************************************************************)
EXTENDS Naturals, FiniteSets

CONSTANTS
    Procs,        \* processes; the byte of a file a pid stands for is the pid
    Envs,         \* environment handles
    ProcOf,       \* the process a handle lives in
    Deleters,     \* processes that may call mdbx_env_delete, once each
    Settings,     \* the settings to look at, see below
    OnDisk,       \* whether a database is there at the start: subset of BOOLEAN
    DontSync,     \* handles that may be closed without a sync
    MayFail,      \* handles whose dxb_setup may fail (ENOMEM, ENOSPC, ...)
    MaxOpens,     \* bound: mdbx_env_open calls per handle
    MaxFiles      \* bound: files created under either name

Nobody == "nobody"
First == "first byte"

ASSUME EnvLockAssumption ==
    /\ ProcOf \in [Envs -> Procs]
    /\ Deleters \cap Procs = {} /\ Envs \cap (Procs \cup Deleters) = {}
    /\ Nobody \notin Envs /\ First \notin Procs
    /\ \A s \in Settings :
         /\ s.ofd \in BOOLEAN /\ s.legacy \in BOOLEAN
         /\ s.mortal \subseteq Procs /\ s.deleters \subseteq Deleters
         /\ s.modes \in [Envs -> SUBSET [rdonly : BOOLEAN, excl : BOOLEAN, lazy : BOOLEAN]]
    /\ OnDisk \subseteq BOOLEAN /\ DontSync \cup MayFail \subseteq Envs
    /\ MaxOpens \in Nat /\ MaxFiles \in Nat \ {0}

VARIABLES
    locking,   \* choice_fcntl: OFD or POSIX locks, MDBX_DBG_LEGACY_MULTIOPEN;
               \* the flags each handle may be opened with, who may be killed
               \* and who calls mdbx_env_delete: never changes
    dir,       \* the inode each name stands for, 0 if there is none
    made,      \* inodes created so far, by name
    valid,     \* dxb inodes that hold the meta pages
    lck,       \* content of each lck inode
    locks,     \* the record locks the kernel holds
    rthc,      \* owner of each process' rthc_mutex, or Nobody
    env,       \* the handles
    opens,     \* ghost: mdbx_env_open calls of each handle so far
    del,       \* the deleters
    dead       \* killed processes

vars == <<locking, dir, made, valid, lck, locks, rthc, env, opens, del, dead>>
files == <<dir, made, valid>>
rest == <<locking, opens, del, dead>>

Bytes == {First} \cup Procs
Kinds == {"dxb", "lck"}
Inodes == 1 .. MaxFiles

\* An lck file as ftruncate() and open(O_CREAT) leave it.
EmptyLck == [full |-> FALSE, magic |-> FALSE, mutex |-> "raw", unsynced |-> FALSE,
             envmode |-> "durable", readers |-> {}]

ClosedEnv == [pc |-> "closed", dxb |-> 0, lck |-> 0, excl |-> FALSE, mapped |-> FALSE,
              ready |-> FALSE, listed |-> FALSE, rpid |-> FALSE, heir |-> Nobody,
              flags |-> [rdonly |-> FALSE, excl |-> FALSE, lazy |-> FALSE]]

(***************************************************************************)
(* fcntl(): lck_op, and who owns a lock                                    *)
(***************************************************************************)
\* An OFD lock belongs to the open file, a POSIX lock to the process.
Owner(e) == IF locking.ofd \/ e \notin Envs THEN e ELSE ProcOf[e]

On(l, kind, ino, bytes) == l.kind = kind /\ l.ino = ino /\ l.byte \in bytes

\* F_SETLK would succeed / F_GETLK reports F_UNLCK.
CanLock(own, kind, ino, bytes, type) ==
    \A l \in locks : (On(l, kind, ino, bytes) /\ l.own # own) => (type = "r" /\ l.type = "r")

Unlocked(ls, own, kind, ino, bytes) ==
    {l \in ls : ~(On(l, kind, ino, bytes) /\ l.own = own)}

Locked(ls, own, kind, ino, bytes, type) ==
    Unlocked(ls, own, kind, ino, bytes)
      \cup {[kind |-> kind, ino |-> ino, byte |-> b, own |-> own, type |-> type] : b \in bytes}

\* lck_seize and lck_destroy lock the data file for reading in MDBX_RDONLY.
Share(e) == IF env[e].flags.rdonly THEN "r" ELSE "w"

\* check_fstat: has either file lost its name, is either too short.
Removed(e) == dir.dxb # env[e].dxb \/ dir.lck # env[e].lck
\* Mutant: only the size of the data file is looked at.
TooShortDxb(e) == env[e].dxb \notin valid
TooShort(e) == env[e].dxb \notin valid \/ ~lck[env[e].lck].full

Goto(e, pc) == env' = [env EXCEPT ![e].pc = pc]
Release(e) == rthc' = [rthc EXCEPT ![ProcOf[e]] = Nobody]

\* osal_openfile: the inode under a name, created when the caller may create.
OpenFile(kind) ==
    IF dir[kind] # 0 THEN UNCHANGED files
    ELSE /\ made[kind] < MaxFiles
         /\ made' = [made EXCEPT ![kind] = @ + 1]
         /\ dir' = [dir EXCEPT ![kind] = made[kind] + 1]
         /\ UNCHANGED valid

OpenedFile(kind) == IF dir[kind] # 0 THEN dir[kind] ELSE made[kind] + 1

----------------------------------------------------------------------------
(***************************************************************************)
(* mdbx_env_open                                                           *)
(***************************************************************************)
\* env_open up to lck_setup: a MDBX_RDONLY open does not create the file.
Open(e, f) ==
    /\ env[e].pc = "closed" /\ ProcOf[e] \notin dead /\ opens[e] < MaxOpens
    /\ opens' = [opens EXCEPT ![e] = @ + 1]
    /\ f.rdonly => dir.dxb # 0
    /\ OpenFile("dxb")
    /\ env' = [env EXCEPT ![e] = [ClosedEnv EXCEPT !.pc = "opened", !.flags = f,
                                                   !.dxb = OpenedFile("dxb")]]
    /\ UNCHANGED <<locking, lck, locks, rthc, del, dead>>

\* lck_setup opens the lck file, in every mode with O_CREAT.
OpenLck(e) ==
    /\ env[e].pc = "opened"
    /\ OpenFile("lck")
    /\ env' = [env EXCEPT ![e].lck = OpenedFile("lck"), ![e].pc = "enter"]
    /\ UNCHANGED <<rest, lck, locks, rthc>>

\* rthc_lock() around lck_setup_locked.
Enter(e) ==
    /\ env[e].pc = "enter" /\ rthc[ProcOf[e]] = Nobody
    /\ rthc' = [rthc EXCEPT ![ProcOf[e]] = e]
    /\ Goto(e, "try")
    /\ UNCHANGED <<rest, files, lck, locks>>

\* Mutant: an error path without rthc_unlock().
SetupFailsLocked(e) == Goto(e, "closing") /\ UNCHANGED <<rthc, rest, files, lck>>

\* An error inside lck_setup_locked: rthc_unlock(), then env_open bails out.
SetupFails(e) == Goto(e, "closing") /\ Release(e) /\ UNCHANGED <<rest, files, lck>>

\* lck_seize: "Firstly try to get exclusive locking."
TryExclusive(e) ==
    /\ env[e].pc = "try"
    /\ IF CanLock(Owner(e), "lck", env[e].lck, {First}, "w")
       THEN /\ locks' = Locked(locks, Owner(e), "lck", env[e].lck, {First}, "w")
            /\ IF Removed(e) THEN SetupFails(e)
               ELSE Goto(e, "dxb") /\ UNCHANGED <<rest, files, lck, rthc>>
       ELSE Goto(e, "shared") /\ UNCHANGED <<rest, files, lck, locks, rthc>>

\* continue_dxb_exclusive: the whole data file, or fall back to lck-shared.
DxbExclusive(e) ==
    /\ env[e].pc = "dxb"
    /\ IF CanLock(Owner(e), "dxb", env[e].dxb, Bytes, Share(e))
       THEN /\ locks' = Locked(locks, Owner(e), "dxb", env[e].dxb, Bytes, Share(e))
            /\ env' = [env EXCEPT ![e].excl = TRUE, ![e].pc = "register"]
            /\ UNCHANGED <<rest, files, lck, rthc>>
       ELSE /\ UNCHANGED locks
            /\ IF Removed(e) THEN SetupFails(e)
               ELSE Goto(e, "shared") /\ UNCHANGED <<rest, files, lck, rthc>>

\* "Wait for lck-shared now": F_SETLKW, then check_fstat; a short file sends
\* the caller back to the exclusive attempt, its lock given up first.
TakeShared(e) ==
    /\ env[e].pc = "shared"
    /\ CanLock(Owner(e), "lck", env[e].lck, {First}, "r")
    /\ locks' = Locked(locks, Owner(e), "lck", env[e].lck, {First}, "r")
    /\ IF Removed(e) THEN SetupFails(e)
       ELSE /\ Goto(e, IF TooShort(e) THEN "retry" ELSE "again")
            /\ UNCHANGED <<rest, files, lck, rthc>>

UnlockBeforeRetry(e) ==
    /\ env[e].pc = "retry"
    /\ locks' = Unlocked(locks, Owner(e), "lck", env[e].lck, {First})
    /\ Goto(e, "try")
    /\ UNCHANGED <<rest, files, lck, rthc>>

\* "got shared, retry exclusive"
RetryExclusive(e) ==
    /\ env[e].pc = "again"
    /\ IF CanLock(Owner(e), "lck", env[e].lck, {First}, "w")
       THEN locks' = Locked(locks, Owner(e), "lck", env[e].lck, {First}, "w") /\ Goto(e, "dxb")
       ELSE UNCHANGED locks /\ Goto(e, "against")
    /\ UNCHANGED <<rest, files, lck, rthc>>

\* "Lock against another process operating in without-lck or exclusive mode."
LockAgainst(e) ==
    /\ env[e].pc = "against"
    /\ IF CanLock(Owner(e), "dxb", env[e].dxb, {ProcOf[e]}, Share(e))
       THEN /\ locks' = Locked(locks, Owner(e), "dxb", env[e].dxb, {ProcOf[e]}, Share(e))
            /\ env' = [env EXCEPT ![e].excl = FALSE, ![e].pc = "register"]
            /\ UNCHANGED <<rest, files, lck, rthc>>
       ELSE UNCHANGED locks /\ SetupFails(e)

\* rthc_uniq_check: the environments of this process that mapped the same lck.
Neighbours(e) ==
    {n \in Envs \ {e} : /\ ProcOf[n] = ProcOf[e] /\ env[n].listed /\ env[n].mapped
                        /\ env[n].lck = env[e].lck /\ lck[env[e].lck].full}

\* Mutant: whatever MDBX_EXCLUSIVE says.
DxbAlwaysDowngraded(ls, e) ==
    Unlocked(ls, Owner(e), "dxb", env[e].dxb, Bytes \ {ProcOf[e]})

\* lck_downgrade on the data file and then on the lck file.
DxbDowngraded(ls, e) ==
    IF env[e].flags.excl THEN ls
    ELSE Unlocked(ls, Owner(e), "dxb", env[e].dxb, Bytes \ {ProcOf[e]})
LckDowngraded(ls, e) == Locked(ls, Owner(e), "lck", env[e].lck, {First}, "r")

\* rthc_register and rthc_uniq_check; in the legacy mode a second handle of
\* the process joins the first one and so gives up its exclusive lock.
Register(e) ==
    /\ env[e].pc = "register"
    /\ LET joins == Neighbours(e) # {}
           busy == \/ joins /\ (~locking.legacy \/ \E n \in Neighbours(e) : env[n].flags.excl)
                   \/ env[e].flags.excl /\ (joins \/ ~env[e].excl)
       IN  /\ locks' = IF joins /\ ~busy /\ env[e].excl
                       THEN LckDowngraded(DxbDowngraded(locks, e), e) ELSE locks
           /\ env' = [env EXCEPT ![e].listed = TRUE,
                                 ![e].excl = @ /\ ~joins,
                                 ![e].pc = IF busy THEN "closing" ELSE "map"]
           /\ IF busy THEN Release(e) ELSE UNCHANGED rthc
           /\ UNCHANGED <<rest, files, lck>>

\* The rest of lck_setup_locked for the one who holds the exclusive lock:
\* set the length, clear the region, write the signature, then the mutexes.
MapExclusive(e) ==
    /\ env[e].pc = "map" /\ env[e].excl
    /\ lck' = [lck EXCEPT ![env[e].lck] = [EmptyLck EXCEPT !.full = TRUE, !.magic = TRUE]]
    /\ env' = [env EXCEPT ![e].mapped = TRUE, ![e].pc = "mutex"]
    /\ UNCHANGED <<rest, files, locks, rthc>>

InitMutexes(e) ==
    /\ env[e].pc = "mutex"
    /\ lck' = [lck EXCEPT ![env[e].lck].mutex = "live"]
    /\ env' = [env EXCEPT ![e].ready = TRUE, ![e].pc = "mode"]
    /\ Release(e)
    /\ UNCHANGED <<rest, files, locks>>

\* The rest of lck_setup_locked for the others: check size and signature.
MapShared(e) ==
    /\ env[e].pc = "map" /\ ~env[e].excl
    /\ env' = [env EXCEPT ![e].mapped = lck[env[e].lck].full,
                          ![e].ready = lck[env[e].lck].full /\ lck[env[e].lck].magic,
                          ![e].pc = IF lck[env[e].lck].full /\ lck[env[e].lck].magic
                                    THEN "mode" ELSE "closing"]
    /\ Release(e)
    /\ UNCHANGED <<rest, files, lck, locks>>

ModeOf(f) == IF f.rdonly THEN "ro" ELSE IF f.lazy THEN "lazy" ELSE "durable"

\* envmode: the first writer that joins a read-only domain sets the mode (the
\* CAS), a later one must agree on MDBX_SAFE_NOSYNC.
CheckMode(e) ==
    /\ env[e].pc = "mode"
    /\ LET mine == ModeOf(env[e].flags)
           snap == lck[env[e].lck].envmode
           checks == ~env[e].excl /\ mine # "ro"
       IN  /\ lck' = IF checks /\ snap = "ro" THEN [lck EXCEPT ![env[e].lck].envmode = mine] ELSE lck
           /\ Goto(e, IF checks /\ snap \notin {"ro", mine} THEN "closing" ELSE "setup")
    /\ UNCHANGED <<rest, files, locks, rthc>>

\* dxb_setup: the exclusive owner creates the meta pages of a new database.
DxbSetup(e) ==
    /\ env[e].pc = "setup"
    /\ \/ /\ env[e].dxb \in valid \/ (env[e].excl /\ ~env[e].flags.rdonly)
          /\ valid' = valid \cup {env[e].dxb}
          /\ Goto(e, IF env[e].excl THEN "narrow" ELSE "sweep")
       \/ /\ e \in MayFail \/ (env[e].dxb \notin valid /\ ~(env[e].excl /\ ~env[e].flags.rdonly))
          /\ Goto(e, "closing") /\ UNCHANGED valid
    /\ UNCHANGED <<rest, dir, made, lck, locks, rthc>>

\* The end of env_open for the exclusive owner: publish the mode, then
\* lck_downgrade, the data file first and the lck file after it.
Narrow(e) ==
    /\ env[e].pc = "narrow"
    /\ lck' = [lck EXCEPT ![env[e].lck].envmode = ModeOf(env[e].flags)]
    /\ locks' = DxbDowngraded(locks, e)
    /\ Goto(e, "downgrade")
    /\ UNCHANGED <<rest, files, rthc>>

Downgrade(e) ==
    /\ env[e].pc = "downgrade"
    /\ locks' = LckDowngraded(locks, e)
    /\ Goto(e, "active")
    /\ UNCHANGED <<rest, files, lck, rthc>>

\* mvcc_cleanup_dead: clear the pids no other owner holds the byte of.
Stale(e) == {p \in lck[env[e].lck].readers \ {ProcOf[e]} :
                CanLock(Owner(e), "lck", env[e].lck, {p}, "w")}

\* The rdt mutex is only asked for once somebody looks dead.
mvcc_cleanup_dead(e) ==
    /\ env[e].pc \in {"sweep", "active"}
    /\ env[e].pc = "active" => Stale(e) # {} /\ lck[env[e].lck].mutex = "live"
    /\ LET locked == lck[env[e].lck].mutex = "live"
       IN  /\ lck' = IF locked THEN [lck EXCEPT ![env[e].lck].readers = @ \ Stale(e)] ELSE lck
           /\ Goto(e, IF locked \/ Stale(e) = {} THEN "active" ELSE "closing")
    /\ UNCHANGED <<rest, files, locks, rthc>>

----------------------------------------------------------------------------
(***************************************************************************)
(* What an open environment does to the lock region                        *)
(***************************************************************************)
\* Mutant: lck_rpid_set is left out.
BindUnregistered(e) ==
    /\ env[e].pc = "active" /\ lck[env[e].lck].mutex = "live"
    /\ ProcOf[e] \notin lck[env[e].lck].readers \/ ~env[e].rpid
    /\ lck' = [lck EXCEPT ![env[e].lck].readers = @ \cup {ProcOf[e]}]
    /\ env' = [env EXCEPT ![e].rpid = TRUE]
    /\ UNCHANGED <<rest, files, rthc, locks>>

\* The first read transaction: lck_rpid_set, then the slot gets the pid.
mvcc_bind_slot(e) ==
    /\ env[e].pc = "active" /\ lck[env[e].lck].mutex = "live"
    /\ ProcOf[e] \notin lck[env[e].lck].readers \/ ~env[e].rpid
    /\ CanLock(Owner(e), "lck", env[e].lck, {ProcOf[e]}, "w")
    /\ locks' = Locked(locks, Owner(e), "lck", env[e].lck, {ProcOf[e]}, "w")
    /\ lck' = [lck EXCEPT ![env[e].lck].readers = @ \cup {ProcOf[e]}]
    /\ env' = [env EXCEPT ![e].rpid = TRUE]
    /\ UNCHANGED <<rest, files, rthc>>

\* A commit that leaves unsynced_pages behind (MDBX_SAFE_NOSYNC).
LazyCommit(e) ==
    /\ env[e].pc = "active" /\ lck[env[e].lck].mutex = "live"
    /\ env[e].flags.lazy /\ ~env[e].flags.rdonly /\ ~lck[env[e].lck].unsynced
    /\ lck' = [lck EXCEPT ![env[e].lck].unsynced = TRUE]
    /\ UNCHANGED <<rest, files, locks, rthc, env>>

----------------------------------------------------------------------------
(***************************************************************************)
(* mdbx_env_close_ex and env_close                                         *)
(***************************************************************************)
\* mdbx_env_close_ex: env_sync unless dont_sync, MDBX_RDONLY or a deleted
\* file; a sync that fails or finds the writer busy is not repeated.
Close(e, synced) ==
    /\ env[e].pc = "active"
    /\ synced => /\ ~env[e].flags.rdonly /\ dir.dxb = env[e].dxb
                 /\ lck[env[e].lck].mutex = "live"
    /\ ~synced => \/ env[e].flags.rdonly \/ dir.dxb # env[e].dxb \/ e \in DontSync
                  \/ lck[env[e].lck].mutex # "live"
    /\ lck' = IF synced THEN [lck EXCEPT ![env[e].lck].unsynced = FALSE] ELSE lck
    /\ Goto(e, "closing")
    /\ UNCHANGED <<rest, files, locks, rthc>>

\* rthc_lock(), rthc_remove, rthc_drown: the last user of the region in this
\* process clears its reader slots and gives up its pid byte.
rthc_drown(e) ==
    /\ env[e].pc = "closing" /\ rthc[ProcOf[e]] = Nobody
    /\ rthc' = [rthc EXCEPT ![ProcOf[e]] = e]
    /\ LET alone == env[e].mapped /\ Neighbours(e) = {}
       IN  /\ lck' = IF alone THEN [lck EXCEPT ![env[e].lck].readers = @ \ {ProcOf[e]}] ELSE lck
           /\ locks' = IF alone /\ env[e].rpid
                       THEN Unlocked(locks, Owner(e), "lck", env[e].lck, {ProcOf[e]}) ELSE locks
           /\ \E h \in IF env[e].mapped /\ ~alone THEN Neighbours(e) ELSE {Nobody} :
                env' = [env EXCEPT ![e].heir = h, ![e].rpid = FALSE,
                                   ![e].pc = IF env[e].ready /\ alone THEN "lckall" ELSE "closedxb"]
    /\ UNCHANGED <<rest, files>>

\* lck_destroy: "try get exclusive access", F_WRLCK over the whole lck file.
SeizeLck(e) ==
    /\ env[e].pc = "lckall"
    /\ LET got == CanLock(Owner(e), "lck", env[e].lck, Bytes, "w")
       IN  /\ locks' = IF got THEN Locked(locks, Owner(e), "lck", env[e].lck, Bytes, "w") ELSE locks
           /\ Goto(e, IF got /\ dir.lck = env[e].lck THEN "dxball" ELSE "closedxb")
    /\ UNCHANGED <<rest, files, lck, rthc>>

\* ... and over the data file; then the mutexes are destroyed
DestroyMutexes(e) ==
    /\ env[e].pc = "dxball"
    /\ IF CanLock(Owner(e), "dxb", env[e].dxb, Bytes, Share(e))
       THEN /\ locks' = Locked(locks, Owner(e), "dxb", env[e].dxb, Bytes, Share(e))
            /\ lck' = [lck EXCEPT ![env[e].lck].mutex = "dead"]
            /\ Goto(e, "truncate")
       ELSE UNCHANGED <<locks, lck>> /\ Goto(e, "closedxb")
    /\ UNCHANGED <<rest, files, rthc>>

\* ... and the file is emptied, unless unsynced_pages must outlive the users.
Truncate(e) ==
    /\ env[e].pc = "truncate"
    /\ lck' = [lck EXCEPT ![env[e].lck] = IF @.unsynced THEN @ ELSE EmptyLck]
    /\ env' = [env EXCEPT ![e].mapped = FALSE, ![e].ready = FALSE, ![e].pc = "closedxb"]
    /\ UNCHANGED <<rest, files, locks, rthc>>

\* close(): an OFD lock goes with its own file, POSIX locks go with any
\* descriptor of the process for that file.
AfterClose(ls, e, kind, ino) == Unlocked(ls, Owner(e), kind, ino, Bytes)

\* Only POSIX locks are restored, and only for a neighbour in the process.
Restores(e) == ~locking.ofd /\ env[e].heir # Nobody

CloseDxb(e) ==
    /\ env[e].pc = "closedxb"
    /\ locks' = AfterClose(locks, e, "dxb", env[e].dxb)
    /\ Goto(e, IF Restores(e) THEN "restoredxb" ELSE "closelck")
    /\ UNCHANGED <<rest, files, lck, rthc>>

\* "restore file-lock" of the neighbour, F_SETLKW.
RestoreDxb(e) ==
    /\ env[e].pc = "restoredxb"
    /\ LET h == env[e].heir
           bytes == IF env[h].flags.excl THEN Bytes ELSE {ProcOf[h]}
       IN  /\ CanLock(Owner(h), "dxb", env[h].dxb, bytes, Share(h))
           /\ locks' = Locked(locks, Owner(h), "dxb", env[h].dxb, bytes, Share(h))
    /\ Goto(e, "closelck")
    /\ UNCHANGED <<rest, files, lck, rthc>>

CloseLck(e) ==
    /\ env[e].pc = "closelck"
    /\ locks' = IF env[e].lck = 0 THEN locks ELSE AfterClose(locks, e, "lck", env[e].lck)
    /\ Goto(e, IF Restores(e) THEN "restorelck" ELSE "remove")
    /\ UNCHANGED <<rest, files, lck, rthc>>

\* "restore file-locks": byte 0 shared, then the pid if it was registered.
RestoreLck(e) ==
    /\ env[e].pc = "restorelck"
    /\ LET h == env[e].heir
       IN  /\ CanLock(Owner(h), "lck", env[h].lck, {First}, "r")
           /\ locks' = Locked(locks, Owner(h), "lck", env[h].lck, {First}, "r")
           /\ Goto(e, IF env[h].rpid THEN "restorepid" ELSE "remove")
    /\ UNCHANGED <<rest, files, lck, rthc>>

RestorePid(e) ==
    /\ env[e].pc = "restorepid"
    /\ LET h == env[e].heir
       IN  locks' = Locked(locks, Owner(h), "lck", env[h].lck, {ProcOf[h]}, "w")
    /\ Goto(e, "remove")
    /\ UNCHANGED <<rest, files, lck, rthc>>

\* The end of rthc_remove and of env_close.
rthc_remove(e) ==
    /\ env[e].pc = "remove"
    /\ env' = [env EXCEPT ![e] = ClosedEnv]
    /\ Release(e)
    /\ UNCHANGED <<rest, files, lck, locks>>

----------------------------------------------------------------------------
(***************************************************************************)
(* mdbx_env_delete with MDBX_ENV_ENSURE_UNUSED or MDBX_ENV_WAIT_FOR_UNUSED *)
(***************************************************************************)
IdleDeleter == [pc |-> "start", wait |-> FALSE, dxb |-> 0, lck |-> 0]
OtherThanDel == <<locking, made, valid, lck, rthc, env, opens, dead>>

DelOpenDxb(d, wait) ==
    /\ del[d].pc = "start" /\ d \in locking.deleters
    /\ del' = [del EXCEPT ![d] = [pc |-> "lck", wait |-> wait, dxb |-> dir.dxb, lck |-> 0]]
    /\ UNCHANGED <<OtherThanDel, dir, locks>>

DelOpenLck(d) ==
    /\ del[d].pc = "lck"
    /\ del' = [del EXCEPT ![d].lck = dir.lck, ![d].pc = "locklck"]
    /\ UNCHANGED <<OtherThanDel, dir, locks>>

\* Mutant: a busy file does not stop the deletion.
DelLockAnyway(d, kind, here, next) ==
    /\ del[d].pc = here
    /\ LET ino == del[d][kind]
           free == ino = 0 \/ CanLock(d, kind, ino, Bytes, "w")
       IN  locks' = IF free /\ ino # 0 THEN Locked(locks, d, kind, ino, Bytes, "w") ELSE locks
    /\ del' = [del EXCEPT ![d].pc = next]
    /\ UNCHANGED <<OtherThanDel, dir>>

\* osal_lockfile, when there is a file to lock; a busy file ends the call
\* unless the caller waits.
DelLock(d, kind, here, next) ==
    /\ del[d].pc = here
    /\ LET ino == del[d][kind]
           free == ino = 0 \/ CanLock(d, kind, ino, Bytes, "w")
       IN  /\ free \/ ~del[d].wait
           /\ locks' = IF free /\ ino # 0 THEN Locked(locks, d, kind, ino, Bytes, "w") ELSE locks
           /\ del' = [del EXCEPT ![d].pc = IF free THEN next ELSE "close"]
    /\ UNCHANGED <<OtherThanDel, dir>>

\* osal_removefile takes the name, whatever it stands for by now.
DelUnlink(d, kind, here, next) ==
    /\ del[d].pc = here
    /\ dir' = [dir EXCEPT ![kind] = 0]
    /\ del' = [del EXCEPT ![d].pc = next]
    /\ UNCHANGED <<OtherThanDel, locks>>

DelClose(d) ==
    /\ del[d].pc = "close"
    /\ locks' = {l \in locks : l.own # d}
    /\ del' = [del EXCEPT ![d].pc = "done"]
    /\ UNCHANGED <<OtherThanDel, dir>>

mdbx_env_delete(d) ==
    \/ \E wait \in BOOLEAN : DelOpenDxb(d, wait)
    \/ DelOpenLck(d)
    \/ DelLock(d, "lck", "locklck", "lockdxb")
    \/ DelLock(d, "dxb", "lockdxb", "unlinkdxb")
    \/ DelUnlink(d, "dxb", "unlinkdxb", "unlinklck")
    \/ DelUnlink(d, "lck", "unlinklck", "close")
    \/ DelClose(d)

\* A killed process: the kernel drops its locks, the robust mutexes recover.
Kill(p) ==
    /\ p \in locking.mortal \ dead
    /\ dead' = dead \cup {p}
    /\ env' = [e \in Envs |-> IF ProcOf[e] = p THEN ClosedEnv ELSE env[e]]
    /\ locks' = {l \in locks : l.own # p /\ ~(l.own \in Envs /\ ProcOf[l.own] = p)}
    /\ rthc' = [rthc EXCEPT ![p] = Nobody]
    /\ UNCHANGED <<locking, dir, made, valid, lck, opens, del>>

----------------------------------------------------------------------------
Opening(e) ==
    \/ OpenLck(e) \/ Enter(e) \/ TryExclusive(e) \/ DxbExclusive(e) \/ TakeShared(e)
    \/ UnlockBeforeRetry(e) \/ RetryExclusive(e) \/ LockAgainst(e) \/ Register(e)
    \/ MapExclusive(e) \/ InitMutexes(e) \/ MapShared(e) \/ CheckMode(e) \/ DxbSetup(e)
    \/ Narrow(e) \/ Downgrade(e) \/ (env[e].pc = "sweep" /\ mvcc_cleanup_dead(e))

Closing(e) ==
    \/ rthc_drown(e) \/ SeizeLck(e) \/ DestroyMutexes(e) \/ Truncate(e) \/ CloseDxb(e)
    \/ RestoreDxb(e) \/ CloseLck(e) \/ RestoreLck(e) \/ RestorePid(e) \/ rthc_remove(e)

Using(e) ==
    \/ \E f \in locking.modes[e] : Open(e, f)
    \/ (env[e].pc = "active" /\ mvcc_cleanup_dead(e))
    \/ mvcc_bind_slot(e) \/ LazyCommit(e)
    \/ \E synced \in BOOLEAN : Close(e, synced)

Init ==
    /\ locking \in Settings
    /\ \E there \in OnDisk :
         /\ dir = [k \in Kinds |-> IF there THEN 1 ELSE 0]
         /\ made = [k \in Kinds |-> IF there THEN 1 ELSE 0]
         /\ valid = IF there THEN {1} ELSE {}
    /\ lck = [i \in Inodes |-> EmptyLck]
    /\ locks = {}
    /\ rthc = [p \in Procs |-> Nobody]
    /\ env = [e \in Envs |-> ClosedEnv]
    /\ opens = [e \in Envs |-> 0]
    /\ del = [d \in Deleters |-> IdleDeleter]
    /\ dead = {}

Next ==
    \/ \E e \in Envs : Opening(e) \/ Closing(e) \/ Using(e)
    \/ \E d \in Deleters : mdbx_env_delete(d)
    \/ \E p \in Procs : Kill(p)

Spec == Init /\ [][Next]_vars
----------------------------------------------------------------------------
\* An environment in operation relies on an lck file that is initialised,
\* whose mutexes are alive and that nobody emptied: lck_destroy by one process
\* never meets lck_seize by another (the size test of check_fstat).
InUseIsReady ==
    \A e \in Envs : env[e].pc = "active" =>
        lck[env[e].lck].full /\ lck[env[e].lck].magic /\ lck[env[e].lck].mutex = "live"

\* All users of one data file use one lck file, and a handle opened with
\* MDBX_EXCLUSIVE is its only user.  Writers agree on MDBX_SAFE_NOSYNC, as
\* unsynced pages are synced by whichever of them comes first (with OFD locks;
\* with POSIX locks a second handle of a process gives up the locks of a first
\* one that has not published its mode yet).
OneDomain ==
    \A e, n \in Envs :
        (e # n /\ env[e].pc = "active" /\ env[n].pc = "active" /\ env[e].dxb = env[n].dxb)
          => /\ env[e].lck = env[n].lck /\ ~env[e].flags.excl
             /\ (locking.ofd /\ ~env[e].flags.rdonly /\ ~env[n].flags.rdonly)
                  => env[e].flags.lazy = env[n].flags.lazy

\* mvcc_cleanup_dead of one process never clears the reader slot of another
\* that is alive and registered (with OFD locks; POSIX locks have a window
\* while a neighbour is being closed).
ReadersSpared ==
    \A e \in Envs : (locking.ofd /\ env[e].pc = "active" /\ env[e].rpid)
        => ProcOf[e] \in lck[env[e].lck].readers

\* mdbx_env_delete in its two checking modes removes no file of an
\* environment in operation ("not being used by other processes").
DeletedIsUnused ==
    [][\A e \in Envs : \A k \in Kinds :
         (env[e].pc = "active" /\ dir[k] = env[e][k]) => dir'[k] = dir[k]]_vars

\* A call that waits, for rthc_mutex or for a record lock.
Blocked(e) ==
    \/ env[e].pc \in {"enter", "closing"} /\ rthc[ProcOf[e]] # Nobody
    \/ env[e].pc = "shared" /\ ~CanLock(Owner(e), "lck", env[e].lck, {First}, "r")
    \/ env[e].pc = "restoredxb" /\ ~ENABLED RestoreDxb(e)
    \/ env[e].pc = "restorelck" /\ ~ENABLED RestoreLck(e)

DelBlocked(d) ==
    /\ del[d].wait
    /\ \/ del[d].pc = "locklck" /\ ~ENABLED DelLock(d, "lck", "locklck", "lockdxb")
       \/ del[d].pc = "lockdxb" /\ ~ENABLED DelLock(d, "dxb", "lockdxb", "unlinkdxb")

\* Nobody waits in a circle: while a call is under way or an environment is
\* open, some call can go on or some open environment can be closed.
NoHang ==
    (\E e \in Envs : env[e].pc # "closed")
      => \/ \E e \in Envs : env[e].pc # "closed" /\ ~Blocked(e)
         \/ \E d \in Deleters : del[d].pc \notin {"start", "done"} /\ ~DelBlocked(d)
=============================================================================

------------------------------ MODULE RunLock ------------------------------
(***************************************************************************)
(* The fingerprinted run-lock of src/utils/run_lock.py: acquire(),         *)
(* read_lock(), lock_pid_is_live() and release(), run by processes that    *)
(* share one lock path, crash anywhere and have their PIDs reissued.       *)
(*                                                                         *)
(* A process is identified by its PID and by the start time `ps` reports,  *)
(* here the number of processes that have used the PID so far.  A lock     *)
(* file is an inode: unlinking the path does not stop its creator from     *)
(* writing to it, so the file remembers which process created it.          *)
(***************************************************************************)
EXTENDS Naturals

CONSTANTS
    Pid,        \* the PIDs the operating system hands out
    NoPid,      \* the PID field of a file or holder that is not there
    MaxLives,   \* bound: how many processes may use one PID
    Overlap,    \* may a launch begin while another is inside acquire()?
    Faults      \* which best-effort calls may fail

ASSUME PidAssumption == NoPid \notin Pid
ASSUME LivesAssumption == MaxLives \in Nat
ASSUME OverlapAssumption == Overlap \in BOOLEAN
ASSUME FaultsAssumption == Faults \subseteq {"ps", "create", "write", "unlink"}

VARIABLES
    life,       \* start-time fingerprint of the process that last had the PID
    pc,         \* where that process is; "none" when the PID is free
    attempt,    \* the loop variable of acquire()
    mine,       \* the fingerprint the process will record, or Unknown
    holder,     \* what read_lock() last returned to the process
    lock,       \* the file at the lock path, or NoFile
    excuse      \* history: a cause to refuse p: held at launch, ps, unlink

vars == <<life, pc, attempt, mine, holder, lock, excuse>>

Unknown == 0
Nobody == [pid |-> NoPid, start |-> Unknown]
NoFile == [pid |-> NoPid, born |-> 0, written |-> FALSE, start |-> Unknown]

(* The steps of acquire(), in order. *)
Acquire == {"create", "write", "read", "probe", "compare", "stale"}
PC == Acquire \cup {"none", "other", "held", "refused", "failed"}

File == [pid : Pid, born : Nat, written : BOOLEAN, start : Nat]
Holder == [pid : Pid \cup {NoPid}, start : Nat]

TypeOK ==
    /\ life \in [Pid -> Nat]
    /\ pc \in [Pid -> PC]
    /\ attempt \in [Pid -> {1, 2}]
    /\ mine \in [Pid -> Nat]
    /\ holder \in [Pid -> Holder]
    /\ lock \in File \cup {NoFile}
    /\ excuse \in [Pid -> BOOLEAN]

Acquiring(p) == pc[p] \in Acquire
Holding(p) == pc[p] = "held"
Exists(p) == pc[p] # "none"

(* p's own inode is still the one the path names. *)
IsMine(p) == lock.pid = p /\ lock.born = life[p]

(* What `ps -o lstart=` may print for PID q: nothing when the PID is free. *)
StartTimes(q) ==
    (IF Exists(q) THEN {life[q]} ELSE {Unknown})
        \cup (IF "ps" \in Faults THEN {Unknown} ELSE {})

Goto(p, label) == pc' = [pc EXCEPT ![p] = label]

(* The process is gone and its memory with it. *)
Vanish(p) ==
    /\ Goto(p, "none")
    /\ attempt' = [attempt EXCEPT ![p] = 1]
    /\ mine' = [mine EXCEPT ![p] = Unknown]
    /\ holder' = [holder EXCEPT ![p] = Nobody]
    /\ excuse' = [excuse EXCEPT ![p] = FALSE]

Init ==
    /\ life = [p \in Pid |-> 0]
    /\ pc = [p \in Pid |-> "none"]
    /\ attempt = [p \in Pid |-> 1]
    /\ mine = [p \in Pid |-> Unknown]
    /\ holder = [p \in Pid |-> Nobody]
    /\ lock = NoFile
    /\ excuse = [p \in Pid |-> FALSE]

(* A process with PID p enters acquire() and fingerprints itself for the   *)
(* body it is going to write.                                              *)
Launch(p) ==
    /\ ~Exists(p)
    /\ life[p] < MaxLives
    /\ Overlap \/ \A q \in Pid : ~Acquiring(q)
    /\ life' = [life EXCEPT ![p] = @ + 1]
    /\ Goto(p, "create")
    /\ \E fp \in {life[p] + 1} \cup (IF "ps" \in Faults THEN {Unknown} ELSE {}) :
           mine' = [mine EXCEPT ![p] = fp]
    /\ excuse' = [excuse EXCEPT ![p] = \E q \in Pid : Holding(q)]
    /\ UNCHANGED <<attempt, holder, lock>>

(* The operating system reissues PID p to an unrelated process. *)
Recycle(p) ==
    /\ ~Exists(p)
    /\ life[p] < MaxLives
    /\ life' = [life EXCEPT ![p] = @ + 1]
    /\ Goto(p, "other")
    /\ UNCHANGED <<attempt, mine, holder, lock, excuse>>

(* Mutant: the clean-up handler is registered before the lock is taken, so *)
(* a refused process unlinks the path when it exits.                       *)
Die_UnlinksOnRefusal(p) ==
    /\ Exists(p)
    /\ lock' = IF pc[p] = "refused" THEN NoFile ELSE lock
    /\ Vanish(p)
    /\ UNCHANGED life

(* The process is killed, or exits after a refusal: no release() runs. *)
Die(p) ==
    /\ Exists(p)
    /\ Vanish(p)
    /\ UNCHANGED <<life, lock>>

(* Mutant: O_CREAT without O_EXCL truncates the file that is there. *)
CreateNew_NoExcl(p) ==
    /\ pc[p] = "create"
    /\ lock' = [pid |-> p, born |-> life[p], written |-> FALSE, start |-> Unknown]
    /\ Goto(p, "write")
    /\ UNCHANGED <<life, attempt, mine, holder, excuse>>

(* os.open(O_CREAT | O_EXCL) succeeds: an empty file, the body unwritten. *)
CreateNew(p) ==
    /\ pc[p] = "create"
    /\ lock = NoFile
    /\ lock' = [pid |-> p, born |-> life[p], written |-> FALSE, start |-> Unknown]
    /\ Goto(p, "write")
    /\ UNCHANGED <<life, attempt, mine, holder, excuse>>

CreateExists(p) ==
    /\ pc[p] = "create"
    /\ lock # NoFile
    /\ Goto(p, "read")
    /\ UNCHANGED <<life, attempt, mine, holder, lock, excuse>>

(* OSError on the create or on the write leaves acquire() altogether; the  *)
(* file, if it was created, stays behind empty.                            *)
CreateFails(p) ==
    /\ "create" \in Faults
    /\ pc[p] = "create"
    /\ Goto(p, "failed")
    /\ UNCHANGED <<life, attempt, mine, holder, lock, excuse>>

WriteFails(p) ==
    /\ "write" \in Faults
    /\ pc[p] = "write"
    /\ Goto(p, "failed")
    /\ UNCHANGED <<life, attempt, mine, holder, lock, excuse>>

(* The body reaches the inode p created, which the path may name no more. *)
Write(p) ==
    /\ pc[p] = "write"
    /\ lock' = IF IsMine(p)
               THEN [lock EXCEPT !.written = TRUE, !.start = mine[p]]
               ELSE lock
    /\ Goto(p, "held")
    /\ UNCHANGED <<life, attempt, mine, holder, excuse>>

(* read_lock(): a missing or unparseable file has no holder. *)
Read(p) ==
    /\ pc[p] = "read"
    /\ \/ /\ ~lock.written
          /\ holder' = [holder EXCEPT ![p] = Nobody]
          /\ Goto(p, "stale")
       \/ /\ lock.written
          /\ holder' = [holder EXCEPT ![p] = [pid |-> lock.pid, start |-> lock.start]]
          /\ Goto(p, "probe")
    /\ UNCHANGED <<life, attempt, mine, lock, excuse>>

(* Mutant: the PID alone is taken for identity. *)
Probe_PidOnly(p) ==
    /\ pc[p] = "probe"
    /\ Goto(p, IF Exists(holder[p].pid) THEN "refused" ELSE "stale")
    /\ UNCHANGED <<life, attempt, mine, holder, lock, excuse>>

(* os.kill(pid, 0), then the early return on an empty recorded start. *)
Probe(p) ==
    /\ pc[p] = "probe"
    /\ Goto(p, IF ~Exists(holder[p].pid) THEN "stale"
               ELSE IF holder[p].start = Unknown THEN "refused" ELSE "compare")
    /\ UNCHANGED <<life, attempt, mine, holder, lock, excuse>>

(* The recorded start time against what ps says now: unknown counts live. *)
Compare(p) ==
    /\ pc[p] = "compare"
    /\ \E now \in StartTimes(holder[p].pid) :
          /\ Goto(p, IF now \in {Unknown, holder[p].start} THEN "refused" ELSE "stale")
          /\ excuse' = [excuse EXCEPT ![p] = @ \/ now = Unknown]
    /\ UNCHANGED <<life, attempt, mine, holder, lock>>

(* The second stale verdict is treated as a live holder ... *)
GiveUp(p) ==
    /\ pc[p] = "stale"
    /\ attempt[p] = 2
    /\ Goto(p, "refused")
    /\ UNCHANGED <<life, attempt, mine, holder, lock, excuse>>

(* Mutants: the loop retries for ever; a file without a holder, as a       *)
(* writer that died before its write leaves it, is nobody's to remove.     *)
Reclaim_Forever(p) ==
    /\ pc[p] = "stale"
    /\ lock' = NoFile \/ ("unlink" \in Faults /\ lock' = lock)
    /\ Goto(p, "create")
    /\ UNCHANGED <<life, attempt, mine, holder, excuse>>

Reclaim_KeepsEmpty(p) ==
    /\ pc[p] = "stale"
    /\ attempt[p] = 1
    /\ attempt' = [attempt EXCEPT ![p] = 2]
    /\ IF holder[p] = Nobody
       THEN UNCHANGED <<lock, excuse>>
       ELSE /\ lock' = NoFile \/ ("unlink" \in Faults /\ lock' = lock)
            /\ excuse' = [excuse EXCEPT ![p] = @ \/ lock' # NoFile]
    /\ Goto(p, "create")
    /\ UNCHANGED <<life, mine, holder>>

(* ... the first one unlinks the path, whatever file it names by now. *)
Reclaim(p) ==
    /\ pc[p] = "stale"
    /\ attempt[p] = 1
    /\ attempt' = [attempt EXCEPT ![p] = 2]
    /\ lock' = NoFile \/ ("unlink" \in Faults /\ lock' = lock)
    /\ excuse' = [excuse EXCEPT ![p] = @ \/ lock' # NoFile]
    /\ Goto(p, "create")
    /\ UNCHANGED <<life, mine, holder>>

(* release(), in a finally or an atexit of a process that exits cleanly. *)
Release(p) ==
    /\ pc[p] = "held"
    /\ lock' = NoFile
    /\ Vanish(p)
    /\ UNCHANGED life

(* One step of p's own code inside acquire(). *)
Step(p) ==
    \/ CreateNew(p) \/ CreateExists(p) \/ CreateFails(p)
    \/ Write(p) \/ WriteFails(p)
    \/ Read(p) \/ Probe(p) \/ Compare(p)
    \/ GiveUp(p) \/ Reclaim(p)

Next == \E p \in Pid : Launch(p) \/ Recycle(p) \/ Die(p) \/ Step(p) \/ Release(p)

Spec == Init /\ [][Next]_vars

(* acquire() waits for nobody: a process that is scheduled runs it to the  *)
(* end.                                                                    *)
FairSpec == Spec /\ \A p \in Pid : WF_vars(Step(p))

----------------------------------------------------------------------------
(* "One process per lockfile": two processes never both return None from   *)
(* acquire() and keep the lock (run_lock.py:3, :113-116).                  *)
MutualExclusion ==
    \A p, q \in Pid : Holding(p) /\ Holding(q) => p = q

(* While a process holds the lock, the path names the file that process    *)
(* created, and the body identifies it: nobody has unlinked or replaced it *)
(* under the holder, so the next launch can see whom to refuse for.        *)
HolderOwnsFile ==
    \A p \in Pid :
        Holding(p) => IsMine(p) /\ lock.written /\ lock.start \in {Unknown, life[p]}

(* A crash can leave a lock behind, complete or still empty, and the PID   *)
(* in it can be reissued: the next launch reclaims such a lock             *)
(* (run_lock.py:12-18).  When launches do not overlap, acquire() refuses,  *)
(* by whichever of its returns, only for a cause: somebody held the lock   *)
(* when the process started; the stale file could not be unlinked; or a    *)
(* start time is unknown, the recorded one of a PID in use, or the one ps  *)
(* should tell now, as when the process exited between os.kill and ps.     *)
RefusedForCause ==
    [][\A p \in Pid :
          pc[p] # "refused" /\ pc'[p] = "refused"
              => \/ excuse'[p]
                 \/ pc[p] = "probe" /\ holder[p].start = Unknown]_vars

(* The lock is the service of LockService: its owner is the process that   *)
(* holds it, by PID and start time, so that no step hands the lock from    *)
(* one process to another, two that use the same PID included, and none    *)
(* grants it while it is held.                                             *)
Service == INSTANCE LockService
    WITH Client <- Pid \X (0 .. MaxLives),
         owner <- {<<p, life[p]>> : p \in {q \in Pid : Holding(q)}}

ImplementsService == Service!Spec

(* acquire() always comes to a verdict: its retry loop cannot spin, even   *)
(* when the stale file cannot be unlinked.                                 *)
AcquireDecides ==
    \A p \in Pid : Acquiring(p) ~> ~Acquiring(p)
=============================================================================

---------------------------- MODULE RunLockProof ----------------------------
(***************************************************************************)
(* RunLock, for every set of PIDs, every number of reissues and every set  *)
(* of faults: types, and -- when launches do not overlap -- that the lock  *)
(* is exclusive and stays under its holder, implements LockService, and    *)
(* is refused only for a cause.                                            *)
(***************************************************************************)
EXTENDS RunLock, TLAPS

(* Launches that do not overlap leave one process inside acquire(). *)
OneAcquirer ==
    \A p, q \in Pid : Acquiring(p) /\ Acquiring(q) => p = q

(* Between create and write the path names the writer's own empty file. *)
WriterOwnsFile ==
    \A p \in Pid : pc[p] = "write" => IsMine(p) /\ ~lock.written

(* The fingerprint an acquirer is about to record is its own, or none. *)
FingerprintIsOwn ==
    \A p \in Pid : Acquiring(p) => mine[p] \in {Unknown, life[p]}

(* What an acquirer has read identifies any process that holds the lock. *)
ReadIdentifiesHolder ==
    \A p, q \in Pid :
        pc[q] \in {"probe", "compare"} /\ Holding(p)
            => holder[q].pid = p /\ holder[q].start \in {Unknown, life[p]}

(* Only a recorded fingerprint is compared. *)
ComparesKnown ==
    \A q \in Pid : pc[q] = "compare" => holder[q].start # Unknown

(* A stale verdict means that nobody holds the lock. *)
StaleMeansFree ==
    \A p, q \in Pid : pc[q] = "stale" => ~Holding(p)

IInv ==
    /\ TypeOK
    /\ OneAcquirer
    /\ HolderOwnsFile
    /\ WriterOwnsFile
    /\ FingerprintIsOwn
    /\ ReadIdentifiesHolder
    /\ ComparesKnown
    /\ StaleMeansFree

----------------------------------------------------------------------------
(* The initial state is well typed. *)
LEMMA TypeInit == Init => TypeOK
BY DEF Init, TypeOK, PC, NoFile, Nobody, Holder, Unknown

(* Every action of RunLock respects the types. *)
LEMMA TypeStep ==
  ASSUME TypeOK, [Next]_vars
  PROVE  TypeOK'
<1> USE DEF TypeOK, PC, Acquire, Goto, Vanish
<1>1. ASSUME NEW p \in Pid, Launch(p) PROVE TypeOK'
  BY <1>1 DEF Launch, Unknown
<1>2. ASSUME NEW p \in Pid, Recycle(p) PROVE TypeOK'
  BY <1>2 DEF Recycle
<1>3. ASSUME NEW p \in Pid, Die(p) PROVE TypeOK'
  BY <1>3 DEF Die, Unknown, Nobody, Holder
<1>4. ASSUME NEW p \in Pid, CreateNew(p) PROVE TypeOK'
  BY <1>4 DEF CreateNew, File, Unknown
<1>5. ASSUME NEW p \in Pid, CreateExists(p) \/ CreateFails(p) \/ WriteFails(p) PROVE TypeOK'
  BY <1>5 DEF CreateExists, CreateFails, WriteFails
<1>6. ASSUME NEW p \in Pid, Write(p) PROVE TypeOK'
  BY <1>6, PidAssumption DEF Write, File, IsMine, NoFile
<1>7. ASSUME NEW p \in Pid, Read(p) PROVE TypeOK'
  BY <1>7 DEF Read, File, NoFile, Holder, Nobody, Unknown
<1>8. ASSUME NEW p \in Pid, Probe(p) PROVE TypeOK'
  BY <1>8 DEF Probe
<1>9. ASSUME NEW p \in Pid, Compare(p) PROVE TypeOK'
  BY <1>9 DEF Compare
<1>10. ASSUME NEW p \in Pid, GiveUp(p) PROVE TypeOK'
  BY <1>10 DEF GiveUp
<1>11. ASSUME NEW p \in Pid, Reclaim(p) PROVE TypeOK'
  BY <1>11 DEF Reclaim
<1>12. ASSUME NEW p \in Pid, Release(p) PROVE TypeOK'
  BY <1>12 DEF Release, Unknown, Nobody, Holder
<1>13. CASE UNCHANGED vars
  BY <1>13 DEF vars
<1> QED
  BY <1>1, <1>2, <1>3, <1>4, <1>5, <1>6, <1>7, <1>8, <1>9, <1>10, <1>11,
     <1>12, <1>13 DEF Next, Step

(* Every reachable state is well typed, whatever overlaps and fails. *)
THEOREM TypeCorrect == Spec => []TypeOK
<1>1. Init => TypeOK
  BY TypeInit
<1>2. TypeOK /\ [Next]_vars => TypeOK'
  BY TypeStep
<1> QED
  BY <1>1, <1>2, PTL DEF Spec

(* Serial launches keep the strengthened invariant, one step per action. *)
LEMMA SerialStep ==
  ASSUME IInv, Overlap = FALSE, [Next]_vars
  PROVE  IInv'
<1> USE DEF IInv
<1>t. TypeOK'
  BY TypeStep
<1>1. ASSUME NEW p \in Pid, Launch(p) PROVE IInv'
  <2> USE <1>1 DEF Launch, Goto
  <2>1. /\ pc[p] = "none" /\ pc' = [pc EXCEPT ![p] = "create"]
        /\ life' = [life EXCEPT ![p] = @ + 1]
        /\ lock' = lock /\ holder' = holder
        /\ mine'[p] \in {Unknown, life'[p]}
        /\ \A q \in Pid \ {p} : mine'[q] = mine[q]
        /\ \A q \in Pid : ~Acquiring(q)
    BY DEF TypeOK, Exists
  <2> QED
    BY <1>t, <2>1 DEF TypeOK, OneAcquirer, Acquiring, Acquire, Holding,
       HolderOwnsFile, WriterOwnsFile, IsMine, FingerprintIsOwn,
       ReadIdentifiesHolder, ComparesKnown, StaleMeansFree
<1>2. ASSUME NEW p \in Pid, Recycle(p) PROVE IInv'
  <2>1. /\ pc[p] = "none" /\ pc' = [pc EXCEPT ![p] = "other"]
        /\ life' = [life EXCEPT ![p] = @ + 1]
        /\ UNCHANGED <<lock, holder, mine>>
    BY <1>2 DEF Recycle, Goto, Exists
  <2> QED
    BY <1>t, <2>1 DEF TypeOK, OneAcquirer, Acquiring, Acquire, Holding,
       HolderOwnsFile, WriterOwnsFile, IsMine, FingerprintIsOwn,
       ReadIdentifiesHolder, ComparesKnown, StaleMeansFree
<1>3. ASSUME NEW p \in Pid, Die(p) PROVE IInv'
  <2>1. /\ pc' = [pc EXCEPT ![p] = "none"]
        /\ UNCHANGED <<life, lock>>
        /\ \A q \in Pid \ {p} : mine'[q] = mine[q] /\ holder'[q] = holder[q]
    BY <1>3 DEF Die, Vanish, Goto, TypeOK
  <2> QED
    BY <1>t, <2>1 DEF TypeOK, OneAcquirer, Acquiring, Acquire, Holding,
       HolderOwnsFile, WriterOwnsFile, IsMine, FingerprintIsOwn,
       ReadIdentifiesHolder, ComparesKnown, StaleMeansFree
<1>4. ASSUME NEW p \in Pid, CreateNew(p) PROVE IInv'
  <2>1. /\ pc[p] = "create" /\ pc' = [pc EXCEPT ![p] = "write"]
        /\ lock' = [pid |-> p, born |-> life[p], written |-> FALSE, start |-> Unknown]
        /\ UNCHANGED <<life, mine, holder>>
    BY <1>4 DEF CreateNew, Goto
  <2>2. \A q \in Pid : ~Holding(q)
    BY <1>4, PidAssumption DEF CreateNew, HolderOwnsFile, IsMine, NoFile
  <2> QED
    BY <1>t, <2>1, <2>2 DEF TypeOK, OneAcquirer, Acquiring, Acquire, Holding,
       HolderOwnsFile, WriterOwnsFile, IsMine, FingerprintIsOwn,
       ReadIdentifiesHolder, ComparesKnown, StaleMeansFree
<1>5. ASSUME NEW p \in Pid, CreateExists(p) \/ CreateFails(p) \/ WriteFails(p) PROVE IInv'
  <2>1. /\ Acquiring(p)
        /\ pc' = [pc EXCEPT ![p] = "read"] \/ pc' = [pc EXCEPT ![p] = "failed"]
        /\ UNCHANGED <<life, lock, mine, holder>>
    BY <1>5 DEF CreateExists, CreateFails, WriteFails, Goto, Acquiring, Acquire
  <2> QED
    BY <1>t, <2>1 DEF TypeOK, OneAcquirer, Acquiring, Acquire, Holding,
       HolderOwnsFile, WriterOwnsFile, IsMine, FingerprintIsOwn,
       ReadIdentifiesHolder, ComparesKnown, StaleMeansFree
<1>6. ASSUME NEW p \in Pid, Write(p) PROVE IInv'
  <2>1. /\ pc[p] = "write" /\ pc' = [pc EXCEPT ![p] = "held"]
        /\ lock' = [lock EXCEPT !.written = TRUE, !.start = mine[p]]
        /\ UNCHANGED <<life, mine, holder>>
    BY <1>6 DEF Write, Goto, WriterOwnsFile
  <2>2. lock \in File /\ IsMine(p) /\ mine[p] \in {Unknown, life[p]}
    BY <2>1, PidAssumption DEF WriterOwnsFile, FingerprintIsOwn, TypeOK, IsMine,
       NoFile, Acquiring, Acquire
  <2>3. lock'.pid = p /\ lock'.born = life[p] /\ lock'.written /\ lock'.start = mine[p]
    BY <2>1, <2>2 DEF File, IsMine
  <2>4. \A q \in Pid \ {p} : ~Holding(q) /\ ~Acquiring(q)
    BY <2>1, <2>2 DEF HolderOwnsFile, IsMine, OneAcquirer, Acquiring, Acquire
  <2>5. \A q \in Pid \ {p} : ~(Holding(q)') /\ ~(Acquiring(q)')
    BY <2>1, <2>4 DEF Holding, Acquiring, TypeOK
  <2>6. pc'[p] = "held"
    BY <2>1 DEF TypeOK
  <2> QED
    BY <1>t, <2>1, <2>2, <2>3, <2>5, <2>6 DEF OneAcquirer, Acquiring, Acquire,
       Holding, HolderOwnsFile, WriterOwnsFile, IsMine, FingerprintIsOwn,
       ReadIdentifiesHolder, ComparesKnown, StaleMeansFree
<1>7. ASSUME NEW p \in Pid, Read(p) PROVE IInv'
  <2>1. /\ Acquiring(p) /\ UNCHANGED <<life, lock, mine>>
        /\ \A q \in Pid \ {p} : pc'[q] = pc[q] /\ holder'[q] = holder[q]
    BY <1>7 DEF Read, Goto, TypeOK, Acquiring, Acquire
  <2>2. CASE pc'[p] = "stale" /\ ~lock.written
    BY <1>t, <2>1, <2>2 DEF OneAcquirer, Acquiring, Acquire, Holding,
       HolderOwnsFile, WriterOwnsFile, IsMine, FingerprintIsOwn,
       ReadIdentifiesHolder, ComparesKnown, StaleMeansFree
  <2>3. CASE /\ pc'[p] = "probe"
             /\ holder'[p] = [pid |-> lock.pid, start |-> lock.start]
    BY <1>t, <2>1, <2>3 DEF OneAcquirer, Acquiring, Acquire, Holding,
       HolderOwnsFile, WriterOwnsFile, IsMine, FingerprintIsOwn,
       ReadIdentifiesHolder, ComparesKnown, StaleMeansFree
  <2> QED
    BY <1>7, <2>2, <2>3 DEF Read, Goto, TypeOK
<1>8. ASSUME NEW p \in Pid, Probe(p) PROVE IInv'
  <2>1. /\ pc[p] = "probe" /\ UNCHANGED <<life, lock, mine, holder>>
        /\ \A q \in Pid \ {p} : pc'[q] = pc[q]
        /\ \/ pc'[p] = "stale" /\ ~Exists(holder[p].pid)
           \/ pc'[p] = "compare" /\ holder[p].start # Unknown
           \/ pc'[p] = "refused"
    BY <1>8 DEF Probe, Goto, TypeOK
  <2> QED
    BY <1>t, <2>1 DEF OneAcquirer, Acquiring, Acquire, Holding, Exists,
       HolderOwnsFile, WriterOwnsFile, IsMine, FingerprintIsOwn,
       ReadIdentifiesHolder, ComparesKnown, StaleMeansFree
<1>9. ASSUME NEW p \in Pid, Compare(p) PROVE IInv'
  <2>1. /\ pc[p] = "compare" /\ UNCHANGED <<life, lock, mine, holder>>
        /\ \A q \in Pid \ {p} : pc'[q] = pc[q]
    BY <1>9 DEF Compare, Goto, TypeOK
  <2>2. pc'[p] = "refused" \/ (pc'[p] = "stale" /\ \A q \in Pid : ~Holding(q))
    <3>1. PICK now \in StartTimes(holder[p].pid) :
             pc' = [pc EXCEPT ![p] = IF now \in {Unknown, holder[p].start}
                                    THEN "refused" ELSE "stale"]
      BY <1>9 DEF Compare, Goto
    <3>2. ASSUME NEW q \in Pid, Holding(q) PROVE now \in {Unknown, holder[p].start}
      BY <2>1, <3>2 DEF ReadIdentifiesHolder, ComparesKnown, StartTimes, Exists, Holding
    <3> QED
      BY <3>1, <3>2 DEF TypeOK
  <2> QED
    BY <1>t, <2>1, <2>2 DEF OneAcquirer, Acquiring, Acquire, Holding,
       HolderOwnsFile, WriterOwnsFile, IsMine, FingerprintIsOwn,
       ReadIdentifiesHolder, ComparesKnown, StaleMeansFree
<1>10. ASSUME NEW p \in Pid, GiveUp(p) PROVE IInv'
  <2>1. /\ pc' = [pc EXCEPT ![p] = "refused"] /\ UNCHANGED <<life, lock, mine, holder>>
    BY <1>10 DEF GiveUp, Goto
  <2> QED
    BY <1>t, <2>1 DEF TypeOK, OneAcquirer, Acquiring, Acquire, Holding,
       HolderOwnsFile, WriterOwnsFile, IsMine, FingerprintIsOwn,
       ReadIdentifiesHolder, ComparesKnown, StaleMeansFree
<1>11. ASSUME NEW p \in Pid, Reclaim(p) PROVE IInv'
  <2>1. /\ pc[p] = "stale" /\ pc' = [pc EXCEPT ![p] = "create"]
        /\ UNCHANGED <<life, mine, holder>>
    BY <1>11 DEF Reclaim, Goto
  <2>2. \A q \in Pid : ~Holding(q) /\ pc[q] # "write"
    BY <2>1 DEF StaleMeansFree, OneAcquirer, Acquiring, Acquire
  <2> QED
    BY <1>t, <2>1, <2>2 DEF TypeOK, OneAcquirer, Acquiring, Acquire, Holding,
       HolderOwnsFile, WriterOwnsFile, IsMine, FingerprintIsOwn,
       ReadIdentifiesHolder, ComparesKnown, StaleMeansFree
<1>12. ASSUME NEW p \in Pid, Release(p) PROVE IInv'
  <2>1. /\ Holding(p) /\ pc' = [pc EXCEPT ![p] = "none"] /\ life' = life
        /\ \A q \in Pid \ {p} : mine'[q] = mine[q] /\ holder'[q] = holder[q]
    BY <1>12 DEF Release, Vanish, Goto, TypeOK, Holding
  <2>2. \A q \in Pid \ {p} : ~Holding(q) /\ pc[q] # "write"
    BY <2>1 DEF HolderOwnsFile, WriterOwnsFile, IsMine
  <2> QED
    BY <1>t, <2>1, <2>2 DEF TypeOK, OneAcquirer, Acquiring, Acquire, Holding,
       HolderOwnsFile, WriterOwnsFile, IsMine, FingerprintIsOwn,
       ReadIdentifiesHolder, ComparesKnown, StaleMeansFree
<1>13. CASE UNCHANGED vars
  BY <1>t, <1>13 DEF vars, OneAcquirer, Acquiring, Holding, HolderOwnsFile,
     WriterOwnsFile, IsMine, FingerprintIsOwn, ReadIdentifiesHolder,
     ComparesKnown, StaleMeansFree
<1> QED
  BY <1>1, <1>2, <1>3, <1>4, <1>5, <1>6, <1>7, <1>8, <1>9, <1>10, <1>11,
     <1>12, <1>13 DEF Next, Step

(* Launches that do not overlap never put two processes in possession of   *)
(* the lock, and never take the file from under its holder: through any    *)
(* crashes, PID reuse, failing ps, create, write or unlink.                *)
THEOREM SerialExclusion ==
  ASSUME Overlap = FALSE
  PROVE  Spec => [](MutualExclusion /\ HolderOwnsFile)
<1>1. Init => IInv
  BY TypeInit DEF Init, IInv, OneAcquirer, HolderOwnsFile, WriterOwnsFile,
     FingerprintIsOwn, ReadIdentifiesHolder, ComparesKnown, StaleMeansFree,
     Acquiring, Acquire, Holding
<1>2. IInv /\ [Next]_vars => IInv'
  BY SerialStep
<1>3. IInv => MutualExclusion /\ HolderOwnsFile
  BY DEF IInv, HolderOwnsFile, MutualExclusion, IsMine
<1> QED
  BY <1>1, <1>2, <1>3, PTL DEF Spec

(* The half of it about the file: the path names the holder's own complete *)
(* file for as long as it holds the lock.                                  *)
THEOREM HolderKeepsFile ==
  ASSUME Overlap = FALSE
  PROVE  Spec => []HolderOwnsFile
  BY SerialExclusion, PTL

----------------------------------------------------------------------------
(* The owner in the sense of LockService.                                  *)
Owner == {<<p, life[p]>> : p \in {q \in Pid : Holding(q)}}

(* A process's start time is one of those the bound allows.                *)
LivesBounded == life \in [Pid -> 0 .. MaxLives]

LEMMA LivesStep ==
  ASSUME TypeOK, LivesBounded, [Next]_vars
  PROVE  LivesBounded'
<1>1. ASSUME NEW p \in Pid, Launch(p) \/ Recycle(p) PROVE LivesBounded'
  <2>1. life[p] + 1 \in 0 .. MaxLives
    BY <1>1, LivesAssumption DEF Launch, Recycle, LivesBounded
  <2> QED
    BY <1>1, <2>1 DEF Launch, Recycle, LivesBounded
<1>2. ASSUME NEW p \in Pid, Die(p) \/ Release(p) \/ Step(p) PROVE LivesBounded'
  BY <1>2 DEF Die, Release, Step, CreateNew, CreateExists, CreateFails, Write,
     WriteFails, Read, Probe, Compare, GiveUp, Reclaim, LivesBounded
<1>3. CASE UNCHANGED vars
  BY <1>3 DEF vars, LivesBounded
<1> QED
  BY <1>1, <1>2, <1>3 DEF Next

(* Whoever holds the lock goes on holding it in the same life.             *)
LEMMA SameOwner ==
  ASSUME \A q \in Pid : Holding(q)' <=> Holding(q),
         \A q \in Pid : Holding(q) => life'[q] = life[q]
  PROVE  Owner' = Owner
BY DEF Owner

(* Each step is a grant, a yield or a stutter of the service.              *)
LEMMA ServiceStep ==
  ASSUME IInv, LivesBounded, [Next]_vars
  PROVE  [Service!Next]_Owner
<1> USE DEF IInv
<1>1. ASSUME NEW p \in Pid, Launch(p) \/ Recycle(p) PROVE Owner' = Owner
  <2>1. ~Holding(p) /\ ~(Holding(p)') /\ \A q \in Pid \ {p} : pc'[q] = pc[q] /\ life'[q] = life[q]
    BY <1>1 DEF Launch, Recycle, Goto, Exists, Holding, TypeOK
  <2> QED
    BY <2>1, SameOwner DEF Holding
<1>2. ASSUME NEW p \in Pid, Write(p) PROVE Service!Grant(<<p, life[p]>>)
  <2>1. pc[p] = "write" /\ IsMine(p) /\ life' = life /\ pc' = [pc EXCEPT ![p] = "held"]
    BY <1>2 DEF Write, Goto, WriterOwnsFile
  <2>2. \A q \in Pid : ~Holding(q)
    BY <2>1 DEF HolderOwnsFile, IsMine, Holding
  <2>3. \A q \in Pid : Holding(q)' <=> q = p
    BY <2>1, <2>2 DEF Holding, TypeOK
  <2>4. Owner = {} /\ Owner' = {<<p, life[p]>>}
    BY <2>1, <2>2, <2>3 DEF Owner
  <2> QED
    BY <2>4 DEF Service!Grant, Owner
<1>3. ASSUME NEW p \in Pid, Die(p) \/ Release(p), Holding(p)
      PROVE  Service!Yield(<<p, life[p]>>)
  <2>1. life' = life /\ pc' = [pc EXCEPT ![p] = "none"]
    BY <1>3 DEF Die, Release, Vanish, Goto
  <2>2. \A q \in Pid : Holding(q) <=> q = p
    BY <1>3 DEF HolderOwnsFile, IsMine
  <2>3. \A q \in Pid : ~(Holding(q)')
    BY <2>1, <2>2 DEF Holding, TypeOK
  <2>4. Owner = {<<p, life[p]>>} /\ Owner' = {}
    BY <2>2, <2>3 DEF Owner
  <2> QED
    BY <2>4 DEF Service!Yield, Owner
<1>4. ASSUME NEW p \in Pid, Die(p), ~Holding(p) PROVE Owner' = Owner
  <2>1. life' = life /\ pc' = [pc EXCEPT ![p] = "none"]
    BY <1>4 DEF Die, Vanish, Goto
  <2> QED
    BY <1>4, <2>1, SameOwner DEF Holding, TypeOK
<1>5. ASSUME NEW p \in Pid, Step(p), ~Write(p) PROVE Owner' = Owner
  <2>1. /\ life' = life /\ ~Holding(p) /\ ~(Holding(p)')
        /\ \A q \in Pid \ {p} : pc'[q] = pc[q]
    BY <1>5 DEF Step, CreateNew, CreateExists, CreateFails, WriteFails, Read,
       Probe, Compare, GiveUp, Reclaim, Goto, Holding, TypeOK
  <2> QED
    BY <2>1, SameOwner DEF Holding
<1>6. CASE UNCHANGED vars
  BY <1>6, SameOwner DEF vars, Holding
<1>7. ASSUME NEW p \in Pid PROVE <<p, life[p]>> \in Pid \X (0 .. MaxLives)
  BY DEF LivesBounded
<1>8. ASSUME NEW p \in Pid, Write(p) \/ ((Die(p) \/ Release(p)) /\ Holding(p))
      PROVE  Service!Next
  <2>1. Service!Grant(<<p, life[p]>>) \/ Service!Yield(<<p, life[p]>>)
    BY <1>2, <1>3, <1>8
  <2>2. <<p, life[p]>> \in Pid \X (0 .. MaxLives)
    BY <1>7
  <2> QED
    BY <2>1, <2>2 DEF Service!Next, Service!Grant, Service!Yield
<1>9. ASSUME NEW p \in Pid, Release(p) PROVE Holding(p)
  BY <1>9 DEF Release, Holding
<1> QED
  BY <1>1, <1>4, <1>5, <1>6, <1>8, <1>9 DEF Next, Step

(* The lock, with launches that do not overlap, implements the service its *)
(* callers rely on.                                                        *)
THEOREM ImplementsLockService ==
  ASSUME Overlap = FALSE
  PROVE  Spec => ImplementsService
<1>1. Init => IInv /\ LivesBounded
  BY TypeInit, LivesAssumption DEF Init, IInv, OneAcquirer, HolderOwnsFile,
     WriterOwnsFile, FingerprintIsOwn, ReadIdentifiesHolder, ComparesKnown,
     StaleMeansFree, Acquiring, Acquire, Holding, LivesBounded
<1>2. IInv /\ LivesBounded /\ [Next]_vars => (IInv /\ LivesBounded)'
  BY SerialStep, LivesStep DEF IInv
<1>3. Init => Service!Init
  BY DEF Init, Service!Init, Holding
<1>4. IInv /\ LivesBounded /\ [Next]_vars => [Service!Next]_Owner
  BY ServiceStep
<1> QED
  BY <1>1, <1>2, <1>3, <1>4, PTL DEF Spec, ImplementsService, Service!Spec, Owner

----------------------------------------------------------------------------
(* The file at the path is no younger than the process its PID names now,  *)
(* and a recorded start time is its creator's.                             *)
LockIsDated ==
    lock # NoFile => /\ lock.pid \in Pid
                     /\ lock.born <= life[lock.pid]
                     /\ lock.start \in {Unknown, lock.born}

(* A complete file whose creator still lives is the file of a holder. *)
WrittenByHolder ==
    lock # NoFile /\ lock.written /\ life[lock.pid] = lock.born /\ Exists(lock.pid)
        => Holding(lock.pid)

(* What a challenger has read is as old. *)
ReadIsDated ==
    \A q \in Pid : pc[q] \in {"probe", "compare"}
        => holder[q].pid \in Pid /\ holder[q].start <= life[holder[q].pid]

(* Whoever holds the lock while a challenger runs held it at its launch. *)
HeldIsExcused ==
    \A q, r \in Pid : Acquiring(q) /\ Holding(r) => excuse[q]

(* If the process a challenger has read about still lives, it was a holder *)
(* at the challenger's launch.                                             *)
LiveIsExcused ==
    \A q \in Pid :
        /\ pc[q] \in {"probe", "compare"}
        /\ holder[q].start # Unknown
        /\ Exists(holder[q].pid)
        /\ life[holder[q].pid] = holder[q].start
        => excuse[q]

StaleInv ==
    LockIsDated /\ WrittenByHolder /\ ReadIsDated /\ HeldIsExcused /\ LiveIsExcused

LEMMA StaleStep ==
  ASSUME IInv, StaleInv, Overlap = FALSE, [Next]_vars
  PROVE  StaleInv'
<1> USE DEF IInv, StaleInv
<1>f. lock # NoFile => lock \in File
  BY DEF TypeOK
<1>1. ASSUME NEW p \in Pid, Launch(p) PROVE StaleInv'
  <2>1. /\ pc[p] = "none" /\ pc' = [pc EXCEPT ![p] = "create"]
        /\ life' = [life EXCEPT ![p] = @ + 1]
        /\ lock' = lock /\ holder' = holder
        /\ excuse' = [excuse EXCEPT ![p] = \E q \in Pid : Holding(q)]
        /\ \A q \in Pid : ~Acquiring(q)
    BY <1>1 DEF Launch, Goto, Exists
  <2>2. LockIsDated' /\ WrittenByHolder'
    BY <1>f, <2>1 DEF LockIsDated, WrittenByHolder, TypeOK, File, Exists, Holding
  <2>3. ReadIsDated' /\ LiveIsExcused'
    BY <2>1 DEF ReadIsDated, LiveIsExcused, Acquiring, Acquire, TypeOK
  <2>4. ASSUME NEW q \in Pid, NEW r \in Pid, Acquiring(q)', Holding(r)' PROVE excuse'[q]
    <3>1. q = p /\ Holding(r)
      BY <2>1, <2>4 DEF Acquiring, Acquire, Holding, TypeOK
    <3> QED
      BY <2>1, <3>1 DEF TypeOK
  <2> QED
    BY <2>2, <2>3, <2>4 DEF HeldIsExcused
<1>2. ASSUME NEW p \in Pid, Recycle(p) PROVE StaleInv'
  <2>1. /\ pc[p] = "none" /\ pc' = [pc EXCEPT ![p] = "other"]
        /\ life' = [life EXCEPT ![p] = @ + 1]
        /\ UNCHANGED <<lock, holder, excuse>>
    BY <1>2 DEF Recycle, Goto, Exists
  <2>2. LockIsDated' /\ WrittenByHolder'
    BY <1>f, <2>1 DEF LockIsDated, WrittenByHolder, TypeOK, File, Exists, Holding
  <2>3. ReadIsDated' /\ HeldIsExcused'
    BY <2>1 DEF ReadIsDated, HeldIsExcused, Acquiring, Acquire, Holding, TypeOK, Holder
  <2>4. LiveIsExcused'
    BY <2>1 DEF LiveIsExcused, ReadIsDated, Exists, TypeOK, Holder
  <2> QED
    BY <2>2, <2>3, <2>4
<1>3. ASSUME NEW p \in Pid, Die(p) \/ Release(p) PROVE StaleInv'
  <2>1. /\ pc' = [pc EXCEPT ![p] = "none"] /\ life' = life
        /\ lock' = lock \/ lock' = NoFile
        /\ \A q \in Pid \ {p} : holder'[q] = holder[q] /\ excuse'[q] = excuse[q]
    BY <1>3 DEF Die, Release, Vanish, Goto, TypeOK
  <2> QED
    BY <2>1 DEF LockIsDated, WrittenByHolder, ReadIsDated, HeldIsExcused, LiveIsExcused,
       Acquiring, Acquire, Holding, Exists, TypeOK
<1>4. ASSUME NEW p \in Pid, CreateNew(p) PROVE StaleInv'
  <2>1. /\ pc[p] = "create" /\ pc' = [pc EXCEPT ![p] = "write"]
        /\ lock' = [pid |-> p, born |-> life[p], written |-> FALSE, start |-> Unknown]
        /\ UNCHANGED <<life, holder, excuse>>
    BY <1>4 DEF CreateNew, Goto
  <2>2. LockIsDated' /\ WrittenByHolder'
    BY <2>1 DEF LockIsDated, WrittenByHolder, TypeOK
  <2> QED
    BY <2>1, <2>2 DEF ReadIsDated, HeldIsExcused, LiveIsExcused, Acquiring, Acquire,
       Holding, Exists, TypeOK
<1>5. ASSUME NEW p \in Pid, CreateExists(p) \/ CreateFails(p) \/ WriteFails(p) \/ GiveUp(p)
      PROVE  StaleInv'
  <2>1. /\ Acquiring(p)
        /\ pc' = [pc EXCEPT ![p] = "read"] \/ pc' = [pc EXCEPT ![p] = "failed"]
              \/ pc' = [pc EXCEPT ![p] = "refused"]
        /\ UNCHANGED <<life, lock, holder, excuse>>
    BY <1>5 DEF CreateExists, CreateFails, WriteFails, GiveUp, Goto, Acquiring, Acquire
  <2> QED
    BY <2>1 DEF LockIsDated, WrittenByHolder, ReadIsDated, HeldIsExcused, LiveIsExcused,
       Acquiring, Acquire, Holding, Exists, TypeOK
<1>6. ASSUME NEW p \in Pid, Write(p) PROVE StaleInv'
  <2>1. /\ pc[p] = "write" /\ pc' = [pc EXCEPT ![p] = "held"]
        /\ lock' = [lock EXCEPT !.written = TRUE, !.start = mine[p]]
        /\ UNCHANGED <<life, holder, excuse>>
    BY <1>6 DEF Write, Goto, WriterOwnsFile
  <2>2. lock \in File /\ IsMine(p) /\ mine[p] \in {Unknown, life[p]}
    BY <2>1, PidAssumption DEF WriterOwnsFile, FingerprintIsOwn, TypeOK, IsMine,
       NoFile, Acquiring, Acquire
  <2>3. lock'.pid = p /\ lock'.born = life[p] /\ lock'.start = mine[p]
    BY <2>1, <2>2 DEF File, IsMine
  <2>4. pc'[p] = "held" /\ \A q \in Pid \ {p} : ~Acquiring(q) /\ pc'[q] = pc[q]
    BY <2>1 DEF OneAcquirer, Acquiring, Acquire, TypeOK
  <2>5. LockIsDated' /\ WrittenByHolder'
    BY <2>1, <2>2, <2>3, <2>4 DEF LockIsDated, WrittenByHolder, Holding, TypeOK
  <2>6. \A q \in Pid : ~(Acquiring(q)')
    BY <2>4 DEF Acquiring, Acquire
  <2> QED
    BY <2>5, <2>6 DEF ReadIsDated, HeldIsExcused, LiveIsExcused, Acquiring, Acquire
<1>7. ASSUME NEW p \in Pid, Read(p) PROVE StaleInv'
  <2>1. /\ pc[p] = "read" /\ UNCHANGED <<life, lock, excuse>>
        /\ \A q \in Pid \ {p} : pc'[q] = pc[q] /\ holder'[q] = holder[q]
    BY <1>7 DEF Read, Goto, TypeOK
  <2>2. \/ pc'[p] = "stale"
        \/ /\ pc'[p] = "probe" /\ lock.written
           /\ holder'[p] = [pid |-> lock.pid, start |-> lock.start]
    BY <1>7 DEF Read, Goto, TypeOK
  <2>3. lock.written => lock # NoFile
    BY DEF NoFile
  <2>4. LockIsDated' /\ WrittenByHolder' /\ HeldIsExcused'
    BY <2>1, <2>2 DEF LockIsDated, WrittenByHolder, HeldIsExcused, Acquiring, Acquire,
       Holding, Exists
  <2>5. CASE pc'[p] = "stale"
    BY <2>1, <2>4, <2>5 DEF ReadIsDated, LiveIsExcused, Exists
  <2>6. CASE /\ pc'[p] = "probe" /\ lock.written
             /\ holder'[p] = [pid |-> lock.pid, start |-> lock.start]
    <3>1. /\ lock # NoFile /\ lock \in File
          /\ holder'[p].pid = lock.pid /\ holder'[p].start = lock.start
      BY <1>f, <2>3, <2>6
    <3>2. holder'[p].pid \in Pid /\ holder'[p].start <= life[holder'[p].pid]
      BY <3>1 DEF LockIsDated, File, TypeOK, Unknown
    <3>3. ASSUME lock.start # Unknown, Exists(lock.pid), life[lock.pid] = lock.start
          PROVE  excuse[p]
      <4>1. Holding(lock.pid) /\ lock.pid \in Pid
        BY <3>1, <3>3, <2>6 DEF LockIsDated, WrittenByHolder
      <4> QED
        BY <2>1, <4>1 DEF HeldIsExcused, Acquiring, Acquire
    <3>4. Exists(lock.pid)' <=> Exists(lock.pid)
      BY <2>1, <2>6, <3>1 DEF Exists, LockIsDated
    <3>5. ReadIsDated'
      BY <2>1, <3>2 DEF ReadIsDated
    <3>6. ASSUME NEW q \in Pid, pc'[q] \in {"probe", "compare"}, holder'[q].start # Unknown,
                 pc'[holder'[q].pid] # "none", life'[holder'[q].pid] = holder'[q].start
          PROVE  excuse'[q]
      <4>1. CASE q = p
        BY <2>1, <3>1, <3>3, <3>4, <3>6, <4>1 DEF Exists
      <4>2. CASE q # p
        <5>1. pc'[q] = pc[q] /\ holder'[q] = holder[q] /\ holder[q].pid \in Pid
          BY <2>1, <3>6, <4>2 DEF ReadIsDated
        <5>2. Exists(holder[q].pid)
          BY <2>1, <3>6, <5>1 DEF Exists
        <5> QED
          BY <2>1, <3>6, <5>1, <5>2 DEF LiveIsExcused
      <4> QED
        BY <4>1, <4>2
    <3>7. LiveIsExcused'
      BY <3>6 DEF LiveIsExcused, Exists
    <3> QED
      BY <2>4, <3>5, <3>7
  <2> QED
    BY <2>2, <2>5, <2>6
<1>8. ASSUME NEW p \in Pid, Probe(p) \/ Compare(p) PROVE StaleInv'
  <2>1. /\ pc[p] \in {"probe", "compare"} /\ UNCHANGED <<life, lock, holder>>
        /\ \A q \in Pid \ {p} : pc'[q] = pc[q]
        /\ pc'[p] \in {"stale", "refused", "compare"}
        /\ \A q \in Pid : excuse[q] => excuse'[q]
    BY <1>8 DEF Probe, Compare, Goto, TypeOK
  <2>2. \A q \in Pid : Exists(q)' <=> Exists(q)
    BY <2>1 DEF Exists
  <2>3. LockIsDated' /\ WrittenByHolder'
    BY <2>1, <2>2 DEF LockIsDated, WrittenByHolder, Holding
  <2> QED
    BY <2>1, <2>2, <2>3 DEF ReadIsDated, HeldIsExcused, LiveIsExcused, Acquiring,
       Acquire, Holding
<1>9. ASSUME NEW p \in Pid, Reclaim(p) PROVE StaleInv'
  <2>1. /\ pc[p] = "stale" /\ pc' = [pc EXCEPT ![p] = "create"]
        /\ UNCHANGED <<life, holder>>
        /\ lock' = lock \/ lock' = NoFile
        /\ \A q \in Pid : excuse[q] => excuse'[q]
    BY <1>9 DEF Reclaim, Goto, TypeOK
  <2> QED
    BY <2>1 DEF LockIsDated, WrittenByHolder, ReadIsDated, HeldIsExcused, LiveIsExcused,
       Acquiring, Acquire, Holding, Exists, TypeOK
<1>10. CASE UNCHANGED vars
  BY <1>10 DEF vars, LockIsDated, WrittenByHolder, ReadIsDated, HeldIsExcused,
     LiveIsExcused, Acquiring, Holding, Exists
<1> QED
  BY <1>1, <1>2, <1>3, <1>4, <1>5, <1>6, <1>7, <1>8, <1>9, <1>10 DEF Next, Step

(* An acquirer in its second round that has no cause to be refused has     *)
(* unlinked the stale file itself: the path is free for its create, or it  *)
(* has created its own file already.                                       *)
SecondRoundIsFree ==
    \A p \in Pid :
        /\ pc[p] \in {"none", "other"} => attempt[p] = 1
        /\ Acquiring(p) /\ attempt[p] = 2 /\ ~excuse[p]
              => pc[p] = "write" \/ (pc[p] = "create" /\ lock = NoFile)

LEMMA SecondRoundStep ==
  ASSUME IInv, SecondRoundIsFree, Overlap = FALSE, [Next]_vars
  PROVE  SecondRoundIsFree'
<1> USE DEF IInv
<1>1. ASSUME NEW p \in Pid, Launch(p) PROVE SecondRoundIsFree'
  <2>1. /\ pc[p] = "none" /\ pc' = [pc EXCEPT ![p] = "create"]
        /\ attempt' = attempt
        /\ \A q \in Pid : ~Acquiring(q)
    BY <1>1 DEF Launch, Goto, Exists
  <2> QED
    BY <2>1 DEF SecondRoundIsFree, Acquiring, Acquire, TypeOK
<1>2. ASSUME NEW p \in Pid, Recycle(p) PROVE SecondRoundIsFree'
  <2>1. /\ pc[p] = "none" /\ pc' = [pc EXCEPT ![p] = "other"]
        /\ UNCHANGED <<attempt, lock, excuse>>
    BY <1>2 DEF Recycle, Goto, Exists
  <2> QED
    BY <2>1 DEF SecondRoundIsFree, Acquiring, Acquire, TypeOK
<1>3. ASSUME NEW p \in Pid, Die(p) \/ Release(p) PROVE SecondRoundIsFree'
  <2>1. /\ pc' = [pc EXCEPT ![p] = "none"] /\ attempt' = [attempt EXCEPT ![p] = 1]
        /\ lock' = lock \/ lock' = NoFile
        /\ \A q \in Pid \ {p} : excuse'[q] = excuse[q]
    BY <1>3 DEF Die, Release, Vanish, Goto, TypeOK
  <2> QED
    BY <2>1 DEF SecondRoundIsFree, Acquiring, Acquire, TypeOK
<1>4. ASSUME NEW p \in Pid, CreateNew(p) \/ Write(p) PROVE SecondRoundIsFree'
  <2>1. /\ Acquiring(p) /\ UNCHANGED <<attempt, excuse>>
        /\ pc' = [pc EXCEPT ![p] = "write"] \/ pc' = [pc EXCEPT ![p] = "held"]
    BY <1>4 DEF CreateNew, Write, Goto, Acquiring, Acquire
  <2>2. \A q \in Pid \ {p} : ~Acquiring(q)
    BY <2>1 DEF OneAcquirer
  <2> QED
    BY <2>1, <2>2 DEF SecondRoundIsFree, Acquiring, Acquire, TypeOK
<1>5. ASSUME NEW p \in Pid, CreateExists(p) \/ CreateFails(p) \/ WriteFails(p) \/ GiveUp(p)
      PROVE  SecondRoundIsFree'
  <2>1. /\ UNCHANGED <<attempt, excuse, lock>>
        /\ \/ pc[p] = "create" /\ lock # NoFile /\ pc' = [pc EXCEPT ![p] = "read"]
           \/ pc' = [pc EXCEPT ![p] = "failed"]
           \/ pc' = [pc EXCEPT ![p] = "refused"]
    BY <1>5 DEF CreateExists, CreateFails, WriteFails, GiveUp, Goto
  <2> QED
    BY <2>1 DEF SecondRoundIsFree, Acquiring, Acquire, TypeOK
<1>6. ASSUME NEW p \in Pid, Read(p) \/ Probe(p) \/ Compare(p) PROVE SecondRoundIsFree'
  <2>1. /\ pc[p] \in {"read", "probe", "compare"} /\ UNCHANGED <<attempt, lock>>
        /\ \A q \in Pid \ {p} : pc'[q] = pc[q]
        /\ pc'[p] \in {"probe", "compare", "stale", "refused"}
        /\ \A q \in Pid : excuse[q] => excuse'[q]
    BY <1>6 DEF Read, Probe, Compare, Goto, TypeOK
  <2> QED
    BY <2>1 DEF SecondRoundIsFree, Acquiring, Acquire
<1>7. ASSUME NEW p \in Pid, Reclaim(p) PROVE SecondRoundIsFree'
  <2>1. /\ pc[p] = "stale" /\ pc' = [pc EXCEPT ![p] = "create"]
        /\ attempt' = [attempt EXCEPT ![p] = 2]
        /\ excuse' = [excuse EXCEPT ![p] = @ \/ lock' # NoFile]
    BY <1>7 DEF Reclaim, Goto
  <2>2. \A q \in Pid \ {p} : ~Acquiring(q)
    BY <2>1 DEF OneAcquirer, Acquiring, Acquire
  <2>3. pc'[p] = "create" /\ (~excuse'[p] => lock' = NoFile)
    BY <2>1 DEF TypeOK
  <2> QED
    BY <2>1, <2>2, <2>3 DEF SecondRoundIsFree, Acquiring, Acquire, TypeOK
<1>8. CASE UNCHANGED vars
  BY <1>8 DEF vars, SecondRoundIsFree, Acquiring
<1> QED
  BY <1>1, <1>2, <1>3, <1>4, <1>5, <1>6, <1>7, <1>8 DEF Next, Step

(* A verdict against p comes from one of three places.                     *)
LEMMA RefusingSteps ==
  ASSUME TypeOK, Next, NEW p \in Pid, pc[p] # "refused", pc'[p] = "refused"
  PROVE  Probe(p) \/ Compare(p) \/ GiveUp(p)
<1>1. PICK q \in Pid : Launch(q) \/ Recycle(q) \/ Die(q) \/ Step(q) \/ Release(q)
  BY DEF Next
<1> QED
  BY <1>1 DEF TypeOK, Launch, Recycle, Die, Vanish, Release, Step, CreateNew,
     CreateExists, CreateFails, Write, WriteFails, Read, Probe, Compare, GiveUp,
     Reclaim, Goto

(* The lock of a dead process is reclaimed, complete or empty, and whoever *)
(* uses its PID now: with launches that do not overlap, acquire() refuses  *)
(* only if somebody held the lock when the process started, a start time   *)
(* is unknown, or the stale file could not be unlinked.                    *)
THEOREM StaleLocksAreReclaimed ==
  ASSUME Overlap = FALSE
  PROVE  Spec => RefusedForCause
<1> DEFINE Inv == IInv /\ StaleInv /\ SecondRoundIsFree
<1>1. Init => Inv
  BY TypeInit DEF Init, IInv, OneAcquirer, HolderOwnsFile, WriterOwnsFile,
     FingerprintIsOwn, ReadIdentifiesHolder, ComparesKnown, StaleMeansFree,
     Acquiring, Acquire, Holding, StaleInv, LockIsDated, WrittenByHolder,
     ReadIsDated, HeldIsExcused, LiveIsExcused, SecondRoundIsFree
<1>2. Inv /\ [Next]_vars => Inv'
  BY SerialStep, StaleStep, SecondRoundStep
<1>3. Inv /\ [Next]_vars
        => [\A p \in Pid : pc[p] # "refused" /\ pc'[p] = "refused"
                => \/ excuse'[p]
                   \/ pc[p] = "probe" /\ holder[p].start = Unknown]_vars
  <2> SUFFICES ASSUME Inv, Next, NEW p \in Pid,
                      pc[p] # "refused", pc'[p] = "refused",
                      ~(pc[p] = "probe" /\ holder[p].start = Unknown)
               PROVE  excuse'[p]
    OBVIOUS
  <2>1. Probe(p) \/ Compare(p) \/ GiveUp(p)
    BY RefusingSteps DEF IInv
  <2>2. ~Probe(p)
    BY DEF Probe, Goto, IInv, TypeOK
  <2>3. CASE Compare(p)
    <3>1. PICK now \in StartTimes(holder[p].pid) :
             /\ pc' = [pc EXCEPT ![p] = IF now \in {Unknown, holder[p].start}
                                        THEN "refused" ELSE "stale"]
             /\ excuse' = [excuse EXCEPT ![p] = @ \/ now = Unknown]
      BY <2>3 DEF Compare, Goto
    <3>2. excuse'[p] <=> excuse[p] \/ now = Unknown
      BY <3>1 DEF IInv, TypeOK
    <3>3. now \in {Unknown, holder[p].start}
      BY <3>1 DEF IInv, TypeOK
    <3>4. CASE now = holder[p].start /\ now # Unknown
      <4>1. Exists(holder[p].pid) /\ life[holder[p].pid] = holder[p].start
        BY <3>4 DEF StartTimes
      <4> QED
        BY <2>3, <3>2, <3>4, <4>1 DEF StaleInv, LiveIsExcused, Compare
    <3> QED
      BY <3>2, <3>3, <3>4
  <2>4. CASE GiveUp(p)
    BY <2>4 DEF GiveUp, SecondRoundIsFree, Acquiring, Acquire
  <2> QED
    BY <2>1, <2>2, <2>3, <2>4
<1> QED
  BY <1>1, <1>2, <1>3, PTL DEF Spec, RefusedForCause
=============================================================================

-------------------------- MODULE RunLockCliProof --------------------------
(***************************************************************************)
(* Proofs about the command-line wrapper of the run lock.  A step of the   *)
(* wrapper is a step of RunLock or leaves its variables alone, so that     *)
(* what RunLockProof shows of the lock carries over.                       *)
(***************************************************************************)
EXTENDS RunLockCli, RunLockProof

(* A command belongs to a process that has existed, and while that process *)
(* lives and its command runs it is in the "held" state.                   *)
StartedInThePast == \A s \in started : s[2] <= life[s[1]]
RunnerHolds == \A p \in Pid : Self(p) \in Running /\ Exists(p) => Holding(p)

CliInv == CliTypeOK /\ StartedInThePast /\ RunnerHolds

LEMMA CliStepIsLockStep == [CliNext]_cliVars => [Next]_vars
  BY DEF CliNext, cliVars, RunCommand, CommandExits, CliRelease, Next

LEMMA InitCliInv == CliInit => CliInv
  BY TypeInit DEF CliInit, CliInv, CliTypeOK, StartedInThePast, RunnerHolds, Running

LEMMA StepCliInv == CliInv /\ [CliNext]_cliVars => CliInv'
<1> SUFFICES ASSUME CliInv, [CliNext]_cliVars PROVE CliInv'
  OBVIOUS
<1> USE DEF CliInv
<1>t. TypeOK /\ TypeOK'
  BY TypeStep, CliStepIsLockStep DEF CliTypeOK
<1>1. ASSUME NEW p \in Pid, RunCommand(p) PROVE CliInv'
  <2>1. /\ started' = started \cup {Self(p)} /\ ended' = ended
        /\ life' = life /\ pc' = pc /\ Holding(p)
    BY <1>1 DEF RunCommand, vars
  <2>2. CliTypeOK'
    BY <1>t, <2>1 DEF CliTypeOK, TypeOK, Self
  <2>3. StartedInThePast'
    BY <1>t, <2>1 DEF StartedInThePast, Self, TypeOK
  <2>4. ASSUME NEW q \in Pid, Self(q)' \in Running', Exists(q)' PROVE Holding(q)'
    <3>1. Self(q) \in Running \/ q = p
      BY <2>1, <2>4 DEF Self, Running
    <3> QED
      BY <2>1, <2>4, <3>1 DEF RunnerHolds, Exists, Holding
  <2> QED
    BY <2>2, <2>3, <2>4 DEF RunnerHolds
<1>2. CASE CommandExits
  <2>1. /\ UNCHANGED <<life, pc, started>>
        /\ \E w \in Running : ended' = ended \cup {w}
    BY <1>2 DEF CommandExits, vars
  <2> QED
    BY <1>t, <2>1 DEF CliTypeOK, StartedInThePast, RunnerHolds, Running, Self, Exists, Holding
<1>3. ASSUME NEW p \in Pid, CliRelease(p) \/ ((Die(p) \/ Step(p)) /\ UNCHANGED <<started, ended>>)
      PROVE  CliInv'
  <2>1. UNCHANGED <<started, ended, life>>
    BY <1>3 DEF CliRelease, Release, Die, Step, CreateNew, CreateExists, CreateFails, Write,
       WriteFails, Read, Probe, Compare, GiveUp, Reclaim
  <2>2. /\ \A q \in Pid \ {p} : pc'[q] = pc[q]
        /\ \/ pc'[p] = "none"
           \/ ~Holding(p) /\ Exists(p)
    BY <1>3, <1>t DEF CliRelease, Release, Die, Vanish, Step, CreateNew, CreateExists,
       CreateFails, Write, WriteFails, Read, Probe, Compare, GiveUp, Reclaim, Goto,
       TypeOK, Holding, Exists
  <2>3. CliTypeOK' /\ StartedInThePast'
    BY <1>t, <2>1 DEF CliTypeOK, StartedInThePast
  <2>4. ASSUME NEW q \in Pid, Self(q)' \in Running', Exists(q)' PROVE Holding(q)'
    BY <2>1, <2>2, <2>4 DEF RunnerHolds, Self, Running, Exists, Holding
  <2> QED
    BY <2>3, <2>4 DEF RunnerHolds
<1>4. ASSUME NEW p \in Pid, Launch(p) \/ Recycle(p), UNCHANGED <<started, ended>> PROVE CliInv'
  <2>1. life' = [life EXCEPT ![p] = @ + 1] /\ \A q \in Pid \ {p} : pc'[q] = pc[q]
    BY <1>4, <1>t DEF Launch, Recycle, Goto, TypeOK
  <2>2. CliTypeOK'
    BY <1>t, <1>4 DEF CliTypeOK
  <2>3. StartedInThePast'
    <3> SUFFICES ASSUME NEW s \in started PROVE s[2] <= life'[s[1]]
      BY <1>4 DEF StartedInThePast
    <3>1. s[1] \in Pid /\ s[2] \in Nat /\ s[2] <= life[s[1]]
      BY DEF CliTypeOK, StartedInThePast
    <3> QED
      BY <1>t, <2>1, <3>1 DEF TypeOK
  <2>4. ASSUME NEW q \in Pid, Self(q)' \in Running', Exists(q)' PROVE Holding(q)'
    <3>1. q # p
      <4> SUFFICES ASSUME q = p PROVE FALSE
        OBVIOUS
      <4>1. <<p, life[p] + 1>> \in started /\ life[p] \in Nat
        BY <1>t, <1>4, <2>1, <2>4 DEF Self, Running, TypeOK
      <4> QED
        BY <4>1 DEF StartedInThePast
    <3> QED
      BY <1>t, <1>4, <2>1, <2>4, <3>1 DEF RunnerHolds, Self, Running, Exists, Holding, TypeOK
  <2> QED
    BY <2>2, <2>3, <2>4 DEF RunnerHolds
<1>5. CASE UNCHANGED cliVars
  BY <1>5, <1>t DEF cliVars, vars, CliTypeOK, StartedInThePast, RunnerHolds, Running, Self,
     Exists, Holding
<1> QED
  BY <1>1, <1>2, <1>3, <1>4, <1>5 DEF CliNext

(* The type invariant of the wrapper and the lock under it. *)
THEOREM CliTypeCorrect == CliSpec => []CliTypeOK
<1>1. CliInv => CliTypeOK
  BY DEF CliInv
<1> QED
  BY <1>1, InitCliInv, StepCliInv, PTL DEF CliSpec

(* If launches do not overlap inside acquire(), the command of a living    *)
(* wrapper always runs under the lock file that its wrapper wrote.         *)
THEOREM CommandsAreCovered ==
  ASSUME Overlap = FALSE
  PROVE  CliSpec => []CommandIsCovered
<1>1. CliInit => IInv
  BY TypeInit DEF CliInit, Init, IInv, OneAcquirer, HolderOwnsFile, WriterOwnsFile,
     FingerprintIsOwn, ReadIdentifiesHolder, ComparesKnown, StaleMeansFree,
     Acquiring, Acquire, Holding
<1>2. IInv /\ [CliNext]_cliVars => IInv'
  BY SerialStep, CliStepIsLockStep
<1>3. IInv /\ CliInv => CommandIsCovered
  BY DEF IInv, CliInv, RunnerHolds, HolderOwnsFile, CommandIsCovered
<1> QED
  BY <1>1, <1>2, <1>3, InitCliInv, StepCliInv, PTL DEF CliSpec
=============================================================================

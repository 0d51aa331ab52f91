-------------------------- MODULE CheckpointsProof --------------------------
(***************************************************************************)
(* Proofs about Checkpoints, for every save interval, failure limit,       *)
(* restart budget, rotation, run length and combination of faults.         *)
(***************************************************************************)
EXTENDS Checkpoints, Integers, FiniteSetTheorems, TLAPS

(* A trainer that has been set up has not reached the failure limit, and a *)
(* launch that runs has not used up its restarts.                          *)
WithinLimits ==
    /\ sup \notin {"idle", "starting", "aborted"} => fails < FailureLimit
    /\ Running => attempt <= MaxRestarts

IInv ==
    /\ TypeOK
    /\ WithinLimits

(* An iteration number or a counter that moves on stays a number.          *)
LEMMA Constants ==
    /\ SaveEvery \in Nat \ {0} /\ FailureLimit \in Nat \ {0}
    /\ MaxRestarts \in Nat /\ Keep \in Nat /\ Iters \in Nat
  BY SaveEveryAssumption, LimitAssumption, RestartsAssumption, KeepAssumption,
     ItersAssumption

(* Rotation only ever removes files. *)
LEMMA RotateRemoves == \A S : Rotate(S) \subseteq S
  BY DEF Rotate

LEMMA NoAgentIsAgent == NoAgent \in Agent
  BY DEF NoAgent, FreshAgent, NoSnapshot, Snapshot, Agent

(* What a launcher process forgets leaves well-typed variables behind.    *)
LEMMA ForgetTypes ==
    ASSUME Forget
    PROVE  /\ net' \in Agent
           /\ offset' \in Nat /\ it' \in Nat
           /\ fails' \in 0 .. FailureLimit
           /\ todo' \subseteq Ckpt
           /\ skipped' \in Nat /\ missed' \in Nat /\ reached' \in Nat
           /\ begun' \in BOOLEAN /\ earned' \in BOOLEAN
  <1>1. net' \in Agent
    BY NoAgentIsAgent DEF Forget
  <1>2. fails' \in 0 .. FailureLimit
    BY Constants DEF Forget
  <1>3. todo' \subseteq Ckpt
    BY DEF Forget
  <1> QED
    BY <1>1, <1>2, <1>3 DEF Forget

LEMMA InitIInv == Init => IInv
  <1> SUFFICES ASSUME Init PROVE IInv
    OBVIOUS
  <1>1. net \in Agent
    BY NoAgentIsAgent DEF Init
  <1>2. attempt \in 0 .. MaxRestarts + 1 /\ fails \in 0 .. FailureLimit
    BY Constants DEF Init
  <1>3. disk \subseteq Ckpt /\ aside \subseteq Ckpt /\ corrupt \subseteq Ckpt
        /\ todo \subseteq Ckpt
    BY DEF Init
  <1>4. WithinLimits
    BY DEF Init, WithinLimits, Running
  <1> QED
    BY <1>1, <1>2, <1>3, <1>4 DEF Init, IInv, TypeOK, Sup

(* The supervisor's reaction to an exception keeps within the budget.      *)
LEMMA RestartWithinLimits ==
    ASSUME IInv, Running, Restart
    PROVE  /\ attempt' \in 0 .. MaxRestarts + 1
           /\ sup' \in {"starting", "aborted"}
           /\ todo' \subseteq Ckpt
           /\ reached' \in Nat
           /\ WithinLimits'
  <1>1. attempt \in 0 .. MaxRestarts
    BY Constants DEF IInv, TypeOK, WithinLimits
  <1>2. attempt' \in 0 .. MaxRestarts + 1 /\ sup' \in {"starting", "aborted"}
    BY <1>1, Constants DEF Restart
  <1>3. reached' \in Nat
    BY DEF Restart, IInv, TypeOK, Label
  <1>4. WithinLimits'
    BY <1>1, Constants DEF Restart, WithinLimits, Running
  <1> QED
    BY <1>2, <1>3, <1>4 DEF Restart, IInv, TypeOK

(* A snapshot is of the run the network beside it descends from.           *)
SameRun(x) == x.best # NoSnapshot => x.best.run = x.run

(* A copy of a network is a snapshot. *)
LEMMA CopyIsSnapshot ==
    \A r \in Nat, x \in BOOLEAN : [run |-> r, sick |-> x] \in Snapshot
  BY DEF Snapshot

(* What training does to the agent leaves an agent, of the same run if the *)
(* snapshot it may roll back to is.                                        *)
LEMMA AgentSteps ==
    ASSUME IInv, Diverge \/ TakeSnapshot \/ Rollback
    PROVE  /\ net' \in Agent
           /\ SameRun(net) => net'.run = net.run /\ SameRun(net')
  <1>0. net \in Agent
    BY DEF IInv, TypeOK
  <1>1. CASE Diverge
    <2>1. PICK part \in Parts : net' = [net EXCEPT !.sick = @ \cup {part}]
      BY <1>1 DEF Diverge
    <2> QED
      BY <1>0, <2>1 DEF Agent, SameRun
  <1>2. CASE TakeSnapshot
    <2>1. [run |-> net.run, sick |-> "net" \in net.sick] \in Snapshot
      <3>1. net.run \in Nat /\ ("net" \in net.sick) \in BOOLEAN
        BY <1>0 DEF Agent
      <3> QED
        BY <3>1, CopyIsSnapshot, Zenon
    <2> QED
      BY <1>0, <1>2, <2>1 DEF TakeSnapshot, Agent, SameRun
  <1>3. CASE Rollback
    <2>1. PICK b \in {net.best} \cup (IF Ladder THEN ModeCopies ELSE {}) :
             /\ b # NoSnapshot
             /\ net' = [net EXCEPT !.run = b.run,
                                   !.sick = (@ \ {"net", "adam"})
                                               \cup (IF b.sick THEN {"net"} ELSE {})]
      BY <1>3 DEF Rollback
    <2>6. b \in Snapshot /\ (b = net.best \/ b.run = net.run)
      <3>1. CASE b = net.best
        BY <1>0, <3>1 DEF Agent
      <3>2. CASE b \in ModeCopies
        <4>1. PICK s \in {FALSE, "net" \in net.sick} : b = [run |-> net.run, sick |-> s]
          BY <3>2 DEF ModeCopies
        <4>2. net.run \in Nat
          BY <1>0 DEF Agent
        <4>3. s \in BOOLEAN
          <5>1. ("net" \in net.sick) \in BOOLEAN
            OBVIOUS
          <5>2. s = FALSE \/ s = ("net" \in net.sick)
            BY <4>1
          <5> QED
            BY <5>1, <5>2
        <4>4. [run |-> net.run, sick |-> s] \in Snapshot
          BY <4>2, <4>3, CopyIsSnapshot, Zenon
        <4> QED
          BY <4>1, <4>4
      <3> QED
        BY <2>1, <3>1, <3>2
    <2>2. b \in Snapshot
      BY <2>6
    <2>3. net'.run = b.run /\ net'.best = net.best
      BY <1>0, <2>1 DEF Agent
    <2>4. net'.sick \subseteq Parts
      BY <1>0, <2>1 DEF Agent, Parts
    <2>5. net' \in Agent
      BY <1>0, <2>1, <2>2, <2>4 DEF Agent, Snapshot
    <2> QED
      BY <2>1, <2>3, <2>5, <2>6 DEF SameRun
  <1> QED
    BY <1>1, <1>2, <1>3

(* Every step of the program, and everything that befalls it, keeps the    *)
(* types and the limits.                                                   *)
LEMMA StepIInv == IInv /\ [Next]_vars => IInv'
  <1> SUFFICES ASSUME IInv, [Next]_vars PROVE IInv'
    OBVIOUS
  <1> USE Constants, NoAgentIsAgent
  <1>1. CASE \E fresh \in BOOLEAN : Launch(fresh)
    <2> PICK fresh \in BOOLEAN : Launch(fresh)
      BY <1>1
    <2>1. TypeOK'
      BY ForgetTypes DEF Launch, files, IInv, TypeOK, Sup
    <2>2. fails' = 0 /\ attempt' = 0
      BY DEF Launch, Forget
    <2> QED
      BY <2>1, <2>2 DEF IInv, WithinLimits
  <1>2. CASE Build
    <2>1. FreshAgent(launch) \in Agent
      BY DEF FreshAgent, NoSnapshot, Snapshot, IInv, TypeOK, Agent
    <2>2. sup' \in Sup
      BY <1>2 DEF Build, Sup
    <2>3. net' \in Agent
      BY <1>2, <2>1 DEF Build, NoSnapshot, Snapshot, Agent, IInv, TypeOK
    <2>4. fails' \in 0 .. FailureLimit /\ offset' \in Nat /\ it' \in Nat
      BY <1>2 DEF Build
    <2>5. TypeOK'
      BY <1>2, <2>2, <2>3, <2>4 DEF Build, files, IInv, TypeOK
    <2> QED
      BY <1>2, <2>5 DEF Build, IInv, WithinLimits, Running
  <1>3. CASE Relocate
    <2>1. TypeOK'
      BY <1>3 DEF Relocate, trainer, history, IInv, TypeOK
    <2> QED
      BY <1>3, <2>1 DEF Relocate, trainer, history, IInv, WithinLimits, Running
  <1>4. CASE EndRelocation
    <2>1. TypeOK'
      BY <1>4 DEF EndRelocation, BeginTraining, files, IInv, TypeOK, Sup
    <2> QED
      BY <1>4, <2>1 DEF EndRelocation, BeginTraining, IInv, WithinLimits, Running
  <1>5. CASE Load
    <2> PICK f \in Newest(todo) :
               net' = Loaded(f) /\ BeginTraining(f.num)
      BY <1>5 DEF Load
    <2>1. f \in Ckpt
      BY DEF Newest, IInv, TypeOK
    <2>2. net' \in Agent /\ f.num \in Nat
      BY <2>1 DEF Ckpt, Agent, Loaded, IInv, TypeOK
    <2>3. TypeOK'
      BY <1>5, <2>2 DEF Load, BeginTraining, files, IInv, TypeOK, Sup
    <2> QED
      BY <1>5, <2>3 DEF Load, BeginTraining, IInv, WithinLimits, Running
  <1>6. CASE Quarantine
    <2>1. TypeOK'
      BY <1>6 DEF Quarantine, Newest, Without, Named, trainer, history, IInv, TypeOK
    <2> QED
      BY <1>6, <2>1 DEF Quarantine, trainer, history, IInv, WithinLimits, Running
  <1>7. CASE LoadNothing
    <2>1. TypeOK'
      BY <1>7 DEF LoadNothing, BeginTraining, files, IInv, TypeOK, Sup
    <2> QED
      BY <1>7, <2>1 DEF LoadNothing, BeginTraining, IInv, WithinLimits, Running
  <1>8. CASE Diverge \/ TakeSnapshot \/ Rollback
    <2>1. net' \in Agent
      BY <1>8, AgentSteps
    <2>2. UNCHANGED <<files, sup, attempt, noResume, launch, offset, it, fails, todo, history>>
      BY <1>8 DEF Diverge, TakeSnapshot, Rollback
    <2> QED
      BY <2>1, <2>2 DEF files, history, IInv, TypeOK, WithinLimits, Running
  <1>9. CASE EndIteration
    BY <1>9 DEF EndIteration, files, IInv, TypeOK, WithinLimits, Running
  <1>10. CASE BeginSave
    BY <1>10 DEF BeginSave, files, trainer, history, IInv, TypeOK, WithinLimits, Running, Sup
  <1>11. CASE EndSave
    <2>1. PICK synced \in BOOLEAN :
             disk' = Rotate(Without(disk, Label)
                       \cup {[num |-> Label, run |-> net.run, sick |-> net.sick, best |-> net.best,
                              torn |-> FALSE, synced |-> synced, at |-> clock]})
      BY <1>11 DEF EndSave
    <2>2. [num |-> Label, run |-> net.run, sick |-> net.sick, best |-> net.best,
           torn |-> FALSE, synced |-> synced, at |-> clock] \in Ckpt
      BY DEF IInv, TypeOK, Ckpt, Agent, Label
    <2>3. disk' \subseteq Ckpt
      BY <2>1, <2>2, RotateRemoves DEF IInv, TypeOK, Without
    <2>4. TypeOK'
      BY <1>11, <2>3 DEF EndSave, IInv, TypeOK, Sup
    <2> QED
      BY <1>11, <2>4 DEF EndSave, IInv, WithinLimits, Running
  <1>12. CASE FailSave
    <2>1. fails \in 0 .. FailureLimit /\ fails < FailureLimit /\ Running
      BY <1>12 DEF FailSave, IInv, TypeOK, WithinLimits, Running
    <2>2. fails' \in 0 .. FailureLimit /\ missed' \in Nat /\ skipped' \in Nat
      BY <1>12, <2>1 DEF FailSave, IInv, TypeOK
    <2>3. CASE fails + 1 < FailureLimit
      <3>1. TypeOK'
        BY <1>12, <2>1, <2>2, <2>3 DEF FailSave, files, IInv, TypeOK, Sup
      <3> QED
        BY <1>12, <2>1, <2>3, <3>1 DEF FailSave, IInv, WithinLimits, Running
    <2>4. CASE ~(fails + 1 < FailureLimit)
      <3>1. Restart /\ UNCHANGED it
        BY <1>12, <2>4 DEF FailSave
      <3>2. TypeOK'
        BY <1>12, <2>1, <2>2, <3>1, RestartWithinLimits DEF FailSave, files, IInv, TypeOK, Sup
      <3> QED
        BY <2>1, <3>1, <3>2, RestartWithinLimits DEF IInv
    <2> QED
      BY <2>3, <2>4
  <1>13. CASE Crash
    <2>1. TypeOK'
      BY <1>13, RestartWithinLimits DEF Crash, files, trainer, IInv, TypeOK, Sup
    <2> QED
      BY <1>13, <2>1, RestartWithinLimits DEF Crash, IInv
  <1>14. CASE Stop \/ Finish
    <2>1. TypeOK'
      BY <1>14, ForgetTypes DEF Stop, Finish, files, IInv, TypeOK, Sup
    <2> QED
      BY <1>14, <2>1 DEF Stop, Finish, IInv, WithinLimits, Running
  <1>15. CASE PowerLoss
    <2>1. \A f \in Ckpt : [f EXCEPT !.torn = TRUE] \in Ckpt
      BY DEF Ckpt
    <2>2. disk' \subseteq Ckpt
      BY <1>15, <2>1 DEF PowerLoss, IInv, TypeOK
    <2>3. TypeOK'
      BY <1>15, <2>2, ForgetTypes DEF PowerLoss, IInv, TypeOK, Sup
    <2> QED
      BY <1>15, <2>3 DEF PowerLoss, IInv, WithinLimits, Running
  <1>16. CASE UNCHANGED vars
    BY <1>16 DEF vars, files, trainer, history, IInv, TypeOK, WithinLimits, Running
  <1> QED
    BY <1>1, <1>2, <1>3, <1>4, <1>5, <1>6, <1>7, <1>8, <1>9, <1>10, <1>11, <1>12,
       <1>13, <1>14, <1>15, <1>16 DEF Next, Progress

(* Type correctness: with it, the restart budget and the failure limit are *)
(* never exceeded.                                                         *)
THEOREM TypeCorrect == Spec => []TypeOK
  <1>1. IInv => TypeOK
    BY DEF IInv
  <1> QED
    BY <1>1, InitIInv, StepIInv, PTL DEF Spec

----------------------------------------------------------------------------
(* In memory and in every file snapshots are of the network's own run; and *)
(* a relaunch has none until it loads one.                                 *)
Lineage ==
    /\ sup \in {"relocating", "scanning"} => net.best = NoSnapshot
    /\ SameRun(net)
    /\ \A f \in disk \cup todo : SameRun(f)

LEMMA InitLineage == Init => Lineage
  BY DEF Init, Lineage, SameRun, NoAgent, FreshAgent

(* The agent a relaunch begins with. *)
LEMMA BuiltAgent ==
    ASSUME IInv, Build
    PROVE  /\ net'.best = NoSnapshot
           /\ net # NoAgent => net'.run = net.run
           /\ net = NoAgent => net'.run = launch
  BY DEF Build, FreshAgent, NoSnapshot, Agent, IInv, TypeOK

(* What a save puts beside the files that stay. *)
LEMMA SavedFile ==
    ASSUME IInv, EndSave, NEW f \in disk'
    PROVE  f \in disk \/ (f.run = net.run /\ f.sick = net.sick /\ f.best = net.best)
  BY RotateRemoves DEF EndSave, Without

LEMMA StepLineage == IInv /\ Lineage /\ [Next]_vars => Lineage'
  <1> SUFFICES ASSUME IInv, Lineage, [Next]_vars PROVE Lineage'
    OBVIOUS
  <1> USE DEF Lineage
  <1>1. CASE \E fresh \in BOOLEAN : Launch(fresh)
    BY <1>1 DEF Launch, Forget, files, SameRun, NoAgent, FreshAgent
  <1>2. CASE Build
    BY <1>2, BuiltAgent DEF Build, files, SameRun
  <1>3. CASE Relocate \/ EndRelocation \/ LoadNothing
    BY <1>3 DEF Relocate, EndRelocation, LoadNothing, BeginTraining, files, trainer
  <1>4. CASE Load
    <2> PICK f \in todo : net' = Loaded(f)
      BY <1>4 DEF Load, Newest
    <2>1. net.best = NoSnapshot /\ SameRun(f)
      BY <1>4 DEF Load
    <2>2. SameRun(net')
      BY <2>1 DEF Loaded, SameRun
    <2> QED
      BY <1>4, <2>2 DEF Load, BeginTraining, files
  <1>5. CASE Quarantine
    BY <1>5 DEF Quarantine, trainer
  <1>6. CASE Diverge \/ TakeSnapshot \/ Rollback
    <2>1. UNCHANGED <<disk, todo, sup>> /\ sup = "training"
      BY <1>6 DEF Diverge, TakeSnapshot, Rollback, files
    <2> QED
      BY <1>6, <2>1, AgentSteps
  <1>7. CASE EndIteration \/ BeginSave
    BY <1>7 DEF EndIteration, BeginSave, files, trainer
  <1>8. CASE EndSave
    <2>1. UNCHANGED <<net, todo>> /\ sup' = "training"
      BY <1>8 DEF EndSave
    <2>2. \A f \in disk' : SameRun(f)
      BY <1>8, SavedFile DEF SameRun
    <2> QED
      BY <2>1, <2>2
  <1>9. CASE FailSave
    BY <1>9 DEF FailSave, Restart, files
  <1>10. CASE Crash
    BY <1>10 DEF Crash, Restart, files, trainer
  <1>11. CASE Stop \/ Finish
    BY <1>11 DEF Stop, Finish, Forget, files, SameRun, NoAgent, FreshAgent
  <1>12. CASE PowerLoss
    <2>1. PICK hit \in SUBSET disk :
             disk' = (disk \ hit) \cup {[f EXCEPT !.torn = TRUE] : f \in hit}
      BY <1>12 DEF PowerLoss
    <2>2. \A f \in disk : SameRun([f EXCEPT !.torn = TRUE])
      BY DEF IInv, TypeOK, Ckpt, SameRun
    <2>3. net' = NoAgent /\ todo' = {} /\ sup' = "idle"
      BY <1>12 DEF PowerLoss, Forget
    <2> QED
      BY <2>1, <2>2, <2>3 DEF SameRun, NoAgent, FreshAgent
  <1>13. CASE UNCHANGED vars
    BY <1>13 DEF vars, files, trainer
  <1> QED
    BY <1>1, <1>2, <1>3, <1>4, <1>5, <1>6, <1>7, <1>8, <1>9, <1>10, <1>11, <1>12,
       <1>13 DEF Next, Progress

----------------------------------------------------------------------------
Sound(f) == f.sick \cap Guarded = {} /\ ~f.best.sick

(* Besides the files on disk: those a scan has yet to visit are healthy,   *)
(* so is an agent that has passed the poison guard, and a snapshot holds a *)
(* NaN only as long as the network beside it does: then no save passes.    *)
Healthy ==
    /\ ResumePointIsHealthy
    /\ \A f \in todo : Sound(f)
    /\ sup = "saving" => net.sick \cap Guarded = {}
    /\ net.best.sick => "net" \in net.sick

LEMMA InitHealthy == Init => Healthy
  BY DEF Init, Healthy, ResumePointIsHealthy, NoAgent, FreshAgent, NoSnapshot

(* Training parts the snapshot from the network in no way that heals it.   *)
LEMMA SnapshotIsNoBetter ==
    ASSUME IInv, ~Ladder, net.best.sick => "net" \in net.sick,
           Diverge \/ TakeSnapshot \/ Rollback
    PROVE  net'.best.sick => "net" \in net'.sick
  <1>0. net \in Agent
    BY DEF IInv, TypeOK
  <1>1. CASE Diverge
    <2>1. PICK part \in Parts : net' = [net EXCEPT !.sick = @ \cup {part}]
      BY <1>1 DEF Diverge
    <2> QED
      BY <1>0, <2>1 DEF Agent
  <1>2. CASE TakeSnapshot
    BY <1>0, <1>2 DEF TakeSnapshot, Agent
  <1>3. CASE Rollback
    <2>1. net' = [net EXCEPT !.run = net.best.run,
                             !.sick = (@ \ {"net", "adam"})
                                         \cup (IF net.best.sick THEN {"net"} ELSE {})]
      BY <1>3 DEF Rollback
    <2> QED
      BY <1>0, <2>1 DEF Agent
  <1> QED
    BY <1>1, <1>2, <1>3

LEMMA StepHealthy == ~Ladder /\ IInv /\ Lineage /\ Healthy /\ [Next]_vars => Healthy'
  <1> SUFFICES ASSUME ~Ladder, IInv, Lineage, Healthy, [Next]_vars PROVE Healthy'
    OBVIOUS
  <1> USE DEF Healthy, ResumePointIsHealthy, Sound
  <1>1. CASE \E fresh \in BOOLEAN : Launch(fresh)
    BY <1>1 DEF Launch, Forget, files, NoAgent, FreshAgent, NoSnapshot
  <1>2. CASE Build
    <2>1. ~net'.best.sick
      BY <1>2, BuiltAgent DEF NoSnapshot
    <2> QED
      BY <1>2, <2>1 DEF Build, files
  <1>3. CASE Relocate
    BY <1>3 DEF Relocate, trainer
  <1>4. CASE EndRelocation \/ LoadNothing
    BY <1>4 DEF EndRelocation, LoadNothing, BeginTraining, files
  <1>5. CASE Load
    <2> PICK f \in todo : net' = Loaded(f)
      BY <1>5 DEF Load, Newest
    <2>1. net.best = NoSnapshot /\ ~f.best.sick
      BY <1>5 DEF Load, Lineage
    <2>2. ~net'.best.sick
      BY <2>1 DEF Loaded, NoSnapshot
    <2> QED
      BY <1>5, <2>2 DEF Load, BeginTraining, files
  <1>6. CASE Quarantine
    BY <1>6 DEF Quarantine, Newest, Without, Named, trainer
  <1>7. CASE Diverge \/ TakeSnapshot \/ Rollback
    <2>1. UNCHANGED <<disk, aside, corrupt, todo, sup>> /\ sup = "training"
      BY <1>7 DEF Diverge, TakeSnapshot, Rollback, files
    <2> QED
      BY <1>7, <2>1, SnapshotIsNoBetter
  <1>8. CASE EndIteration \/ BeginSave
    BY <1>8 DEF EndIteration, BeginSave, files, trainer
  <1>9. CASE EndSave
    <2>1. net.sick \cap Guarded = {} /\ ~net.best.sick
      BY <1>9 DEF EndSave, Guarded
    <2>2. \A f \in disk' : Sound(f)
      BY <1>9, <2>1, SavedFile
    <2> QED
      BY <1>9, <2>2 DEF EndSave
  <1>10. CASE FailSave
    BY <1>10 DEF FailSave, Restart, files
  <1>11. CASE Crash
    BY <1>11 DEF Crash, Restart, files, trainer
  <1>12. CASE Stop \/ Finish
    BY <1>12 DEF Stop, Finish, Forget, files, NoAgent, FreshAgent, NoSnapshot
  <1>13. CASE PowerLoss
    <2>1. PICK hit \in SUBSET disk :
             disk' = (disk \ hit) \cup {[f EXCEPT !.torn = TRUE] : f \in hit}
      BY <1>13 DEF PowerLoss
    <2>2. \A f \in disk : Sound([f EXCEPT !.torn = TRUE])
      BY DEF IInv, TypeOK, Ckpt
    <2>3. \A f \in disk' : Sound(f)
      BY <2>1, <2>2
    <2> QED
      BY <1>13, <2>3 DEF PowerLoss, Forget, NoAgent, FreshAgent, NoSnapshot
  <1>14. CASE UNCHANGED vars
    BY <1>14 DEF vars, files, trainer
  <1> QED
    BY <1>1, <1>2, <1>3, <1>4, <1>5, <1>6, <1>7, <1>8, <1>9, <1>10, <1>11, <1>12,
       <1>13, <1>14 DEF Next, Progress

(* Outside the ladder and consolidation modes no checkpoint a relaunch may *)
(* pick holds a NaN in the network, the RND module or Adam, which the      *)
(* guard of save_iter inspects, nor in the anti-collapse snapshot, which   *)
(* it does not: whatever diverges, is rolled back, crashes and is resumed. *)
(* Of the adversary, the remaining part, nothing of the kind holds.        *)
THEOREM CheckpointsAreHealthy ==
    ~Ladder => (Spec => []ResumePointIsHealthy)
  <1> SUFFICES ASSUME ~Ladder PROVE Spec => []ResumePointIsHealthy
    OBVIOUS
  <1>1. Healthy => ResumePointIsHealthy
    BY DEF Healthy
  <1>2. IInv /\ Lineage /\ Healthy /\ [Next]_vars => Healthy'
    BY StepHealthy
  <1> QED
    BY <1>1, <1>2, InitIInv, StepIInv, InitLineage, StepLineage, InitHealthy, PTL DEF Spec

----------------------------------------------------------------------------
Counting == sup \notin {"idle", "starting", "aborted"}

(* Every crash pays for at most FailureLimit of the saves that failed in a *)
(* row; what the present attempt has added is its own counter.             *)
FailuresArePaid ==
    missed <= FailureLimit * attempt + (IF Counting THEN fails ELSE 0)

LEMMA Products ==
    ASSUME NEW a \in Nat, NEW b \in Nat, a <= b
    PROVE  /\ FailureLimit * a \in Nat
           /\ FailureLimit * (a + 1) = FailureLimit * a + FailureLimit
           /\ FailureLimit * a <= FailureLimit * b
  <1>1. PICK d \in Nat : b = a + d
    <2>1. b - a \in Nat /\ b = a + (b - a)
      OBVIOUS
    <2> QED
      BY <2>1
  <1>2. FailureLimit * b = FailureLimit * a + FailureLimit * d
    BY <1>1, Constants
  <1>3. FailureLimit * d \in Nat /\ FailureLimit * a \in Nat
    BY Constants
  <1> QED
    BY <1>2, <1>3, Constants

LEMMA InitPaid == Init => FailuresArePaid
  BY Constants DEF Init, FailuresArePaid, Counting

(* A crash moves what its attempt has missed to the account of the crash.  *)
LEMMA RestartPays ==
    ASSUME IInv, Restart, Running,
           missed' <= FailureLimit * attempt + FailureLimit
    PROVE  FailuresArePaid'
  <1>1. attempt \in Nat /\ attempt' = attempt + 1 /\ sup' \in {"starting", "aborted"}
    BY Constants DEF IInv, TypeOK, Restart
  <1>2. FailureLimit * attempt' = FailureLimit * attempt + FailureLimit
    BY <1>1, Products
  <1>3. FailureLimit * attempt' \in Nat /\ ~Counting'
    BY <1>1, Constants DEF Counting
  <1>4. FailureLimit * attempt' + 0 = FailureLimit * attempt'
    BY <1>3
  <1> QED
    BY <1>2, <1>3, <1>4 DEF FailuresArePaid

LEMMA StepPaid == IInv /\ FailuresArePaid /\ [Next]_vars => FailuresArePaid'
  <1> SUFFICES ASSUME IInv, FailuresArePaid, [Next]_vars PROVE FailuresArePaid'
    OBVIOUS
  <1>0. /\ attempt \in Nat /\ FailureLimit * attempt \in Nat
        /\ missed \in Nat /\ fails \in 0 .. FailureLimit /\ FailureLimit \in Nat
    BY Constants, Products DEF IInv, TypeOK
  <1>1. CASE \E fresh \in BOOLEAN : Launch(fresh)
    BY <1>1, Constants DEF Launch, Forget, FailuresArePaid, Counting
  <1>2. CASE Build
    BY <1>0, <1>2 DEF Build, FailuresArePaid, Counting
  <1>3. CASE EndRelocation \/ Load \/ LoadNothing \/ Relocate \/ Quarantine
    BY <1>0, <1>3 DEF EndRelocation, Load, LoadNothing, BeginTraining, Relocate,
       Quarantine, trainer, history, FailuresArePaid, Counting
  <1>4. CASE Diverge \/ TakeSnapshot \/ Rollback \/ EndIteration \/ BeginSave
    BY <1>0, <1>4 DEF Diverge, TakeSnapshot, Rollback, EndIteration, BeginSave, trainer, history,
       FailuresArePaid, Counting
  <1>5. CASE EndSave
    BY <1>0, <1>5 DEF EndSave, FailuresArePaid, Counting
  <1>6. CASE FailSave
    <2>1. /\ fails' = fails + 1 /\ missed' = missed + 1
          /\ missed <= FailureLimit * attempt + fails
          /\ fails < FailureLimit
      BY <1>6 DEF FailSave, FailuresArePaid, Counting, IInv, WithinLimits
    <2>2. CASE fails + 1 < FailureLimit
      BY <1>0, <1>6, <2>1, <2>2 DEF FailSave, FailuresArePaid, Counting
    <2>3. CASE ~(fails + 1 < FailureLimit)
      <3>1. Restart /\ Running
        BY <1>6, <2>3 DEF FailSave, Running
      <3>2. missed' <= FailureLimit * attempt + FailureLimit
        BY <1>0, <2>1
      <3> QED
        BY <3>1, <3>2, RestartPays
    <2> QED
      BY <2>2, <2>3
  <1>7. CASE Crash
    <2>1. missed' <= FailureLimit * attempt + FailureLimit
      BY <1>0, <1>7 DEF Crash, FailuresArePaid
    <2> QED
      BY <1>7, <2>1, RestartPays DEF Crash
  <1>8. CASE Stop \/ Finish \/ PowerLoss
    BY <1>0, <1>8 DEF Stop, Finish, PowerLoss, Forget, FailuresArePaid, Counting
  <1>9. CASE UNCHANGED vars
    BY <1>9 DEF vars, trainer, history, FailuresArePaid, Counting
  <1> QED
    BY <1>1, <1>2, <1>3, <1>4, <1>5, <1>6, <1>7, <1>8, <1>9 DEF Next, Progress

(* The failure guard of every attempt and the restart budget together      *)
(* bound how many saves of one launch fail in a row.                       *)
THEOREM FailuresAreBounded == Spec => []SaveFailuresBounded
  <1>1. IInv /\ FailuresArePaid => SaveFailuresBounded
    <2> SUFFICES ASSUME IInv, FailuresArePaid PROVE SaveFailuresBounded
      OBVIOUS
    <2>1. /\ attempt \in Nat /\ attempt <= MaxRestarts + 1 /\ missed \in Nat
          /\ fails \in Nat /\ MaxRestarts \in Nat /\ FailureLimit \in Nat
      BY Constants DEF IInv, TypeOK
    <2>2. CASE ~Counting
      <3>1. FailureLimit * attempt <= FailureLimit * (MaxRestarts + 1)
        BY <2>1, Products
      <3> QED
        BY <2>1, <2>2, <3>1, Products DEF FailuresArePaid, SaveFailuresBounded
    <2>3. CASE Counting
      <3>1. attempt <= MaxRestarts /\ fails < FailureLimit
        BY <2>3 DEF IInv, WithinLimits, Running, Counting
      <3>2. /\ FailureLimit * attempt <= FailureLimit * MaxRestarts
            /\ FailureLimit * (MaxRestarts + 1) = FailureLimit * MaxRestarts + FailureLimit
            /\ FailureLimit * attempt \in Nat /\ FailureLimit * MaxRestarts \in Nat
        BY <2>1, <3>1, Products
      <3> QED
        BY <2>1, <2>3, <3>1, <3>2 DEF FailuresArePaid, SaveFailuresBounded
    <2> QED
      BY <2>2, <2>3
  <1> QED
    BY <1>1, InitIInv, StepIInv, InitPaid, StepPaid, PTL DEF Spec

----------------------------------------------------------------------------
(* What moving the old checkpoints aside is for: from the end of the       *)
(* relocation on, the directory and the agent in memory are this run's.    *)
FreshInv ==
    /\ begun => noResume
    /\ Running => launch # 0
    /\ sup = "starting" /\ attempt = 0 => net = NoAgent
    /\ sup = "relocating" => noResume /\ net.run = launch /\ disk = todo
    /\ sup = "scanning" => todo \subseteq disk
    /\ begun => net.run = launch /\ \A f \in disk : f.run = launch

LEMMA InitFresh == Init => FreshInv
  BY DEF Init, FreshInv, Running

LEMMA StepFresh ==
    "rename" \notin Faults /\ IInv /\ Lineage /\ FreshInv /\ [Next]_vars => FreshInv'
  <1> SUFFICES ASSUME "rename" \notin Faults, IInv, Lineage, FreshInv, [Next]_vars
               PROVE  FreshInv'
    OBVIOUS
  <1> USE DEF FreshInv
  <1>1. CASE \E fresh \in BOOLEAN : Launch(fresh)
    BY <1>1 DEF Launch, Forget, files, Running, IInv, TypeOK
  <1>2. CASE Build
    <2>1. net'.run = IF net = NoAgent THEN launch ELSE net.run
      BY <1>2, BuiltAgent
    <2>2. launch # 0
      BY <1>2 DEF Build, Running
    <2>3. begun => net'.run = launch
      BY <2>1, <2>2 DEF NoAgent, FreshAgent
    <2>4. sup' = "relocating" => noResume /\ net'.run = launch
      BY <1>2, <2>1 DEF Build
    <2> QED
      BY <1>2, <2>2, <2>3, <2>4 DEF Build, files, Running
  <1>3. CASE Relocate
    BY <1>3 DEF Relocate, trainer, history, Running
  <1>4. CASE EndRelocation
    BY <1>4 DEF EndRelocation, BeginTraining, files, Running
  <1>5. CASE Load
    <2> PICK f \in todo : net' = Loaded(f)
      BY <1>5 DEF Load, Newest
    <2>1. begun => net'.run = launch
      BY <1>5 DEF Load, Loaded
    <2> QED
      BY <1>5, <2>1 DEF Load, BeginTraining, files, Running
  <1>6. CASE Quarantine
    BY <1>6 DEF Quarantine, trainer, history, Running
  <1>7. CASE LoadNothing
    BY <1>7 DEF LoadNothing, BeginTraining, files, Running
  <1>8. CASE Diverge \/ TakeSnapshot \/ Rollback
    <2>1. net'.run = net.run
      BY <1>8, AgentSteps DEF Lineage
    <2>2. /\ UNCHANGED <<disk, sup, attempt, noResume, launch, todo, begun>>
          /\ sup = "training"
      BY <1>8 DEF Diverge, TakeSnapshot, Rollback, files, history
    <2> QED
      BY <2>1, <2>2 DEF Running
  <1>9. CASE EndIteration \/ BeginSave
    BY <1>9 DEF EndIteration, BeginSave, files, trainer, history, Running
  <1>10. CASE EndSave
    <2>1. \A f \in disk' : f \in disk \/ f.run = net.run
      BY <1>10, RotateRemoves DEF EndSave, Without
    <2> QED
      BY <1>10, <2>1 DEF EndSave, Running
  <1>11. CASE FailSave
    <2>1. CASE Restart
      BY <1>11, <2>1 DEF FailSave, Restart, files, Running, IInv, TypeOK
    <2>2. CASE sup' = "training" /\ UNCHANGED attempt
      BY <1>11, <2>2 DEF FailSave, files, Running
    <2> QED
      BY <1>11, <2>1, <2>2 DEF FailSave
  <1>12. CASE Crash
    BY <1>12 DEF Crash, Restart, files, trainer, Running, IInv, TypeOK
  <1>13. CASE Stop \/ Finish \/ PowerLoss
    BY <1>13 DEF Stop, Finish, PowerLoss, Forget, files, Running
  <1>14. CASE UNCHANGED vars
    BY <1>14 DEF vars, files, trainer, history, Running
  <1> QED
    BY <1>1, <1>2, <1>3, <1>4, <1>5, <1>6, <1>7, <1>8, <1>9, <1>10, <1>11, <1>12,
       <1>13, <1>14 DEF Next, Progress

(* As long as files can be renamed, a --no-resume launch that has begun to *)
(* train never again trains weights of another run, whatever crashes.      *)
THEOREM FreshRunsStayFresh ==
    "rename" \notin Faults => (Spec => []FreshStaysFresh)
  <1>1. IInv /\ FreshInv => FreshStaysFresh
    BY DEF FreshInv, FreshStaysFresh
  <1> SUFFICES ASSUME "rename" \notin Faults PROVE Spec => []FreshStaysFresh
    OBVIOUS
  <1>2. IInv /\ Lineage /\ FreshInv /\ [Next]_vars => FreshInv'
    BY StepFresh
  <1> QED
    BY <1>1, <1>2, InitIInv, StepIInv, InitLineage, StepLineage, InitFresh, PTL DEF Spec

----------------------------------------------------------------------------
(* What the directory is never robbed of *)

InLoop == sup \in {"training", "saving"}
Intact(S) == {f \in S : ~f.torn}

(* Whoever writes a checkpoint writes beyond what it resumed from: files   *)
(* that open have been moved aside, or are still to be scanned, or have    *)
(* lower numbers than the next one the loop can save.                      *)
Preserved ==
    /\ sup = "relocating" => todo = disk
    /\ sup = "scanning" => Intact(disk) \subseteq todo
    /\ sup = "saving" => AtSavePoint
    /\ InLoop => \A f \in Intact(disk) : f.num <= offset \/ f.num < Label

LEMMA InitPreserved == Init => Preserved
  BY DEF Init, Preserved, InLoop, Intact

LEMMA StepPreserved ==
    /\ Keep = 0 /\ Faults \cap {"load", "rename"} = {}
    /\ IInv /\ Preserved /\ [Next]_vars
    => Preserved'
  <1> SUFFICES ASSUME Keep = 0, "load" \notin Faults, "rename" \notin Faults,
                      IInv, Preserved, [Next]_vars
               PROVE  Preserved'
    OBVIOUS
  <1> USE DEF Preserved, InLoop, Intact, Label, AtSavePoint
  <1>1. CASE \E fresh \in BOOLEAN : Launch(fresh)
    BY <1>1 DEF Launch
  <1>2. CASE Build
    BY <1>2 DEF Build, files
  <1>3. CASE Relocate
    BY <1>3 DEF Relocate
  <1>4. CASE EndRelocation \/ LoadNothing
    BY <1>4 DEF EndRelocation, LoadNothing, BeginTraining, files
  <1>5. CASE Load
    <2>1. PICK f \in Newest(todo) : BeginTraining(f.num)
      BY <1>5 DEF Load
    <2>2. \A g \in Intact(disk) : g.num <= f.num
      BY <1>5, <2>1 DEF Load, Newest
    <2> QED
      BY <1>5, <2>1, <2>2 DEF Load, BeginTraining, files
  <1>6. CASE Quarantine
    BY <1>6 DEF Quarantine, Newest
  <1>7. CASE Diverge \/ TakeSnapshot \/ Rollback \/ BeginSave
    BY <1>7 DEF Diverge, TakeSnapshot, Rollback, BeginSave, files, trainer
  <1>8. CASE EndIteration
    BY <1>8 DEF EndIteration, files, IInv, TypeOK, Ckpt
  <1>9. CASE EndSave
    <2>1. PICK new \in Ckpt : new.num = Label /\ disk' = Without(disk, Label) \cup {new}
      <3>1. PICK synced \in BOOLEAN :
               disk' = Without(disk, Label)
                         \cup {[num |-> Label, run |-> net.run, sick |-> net.sick, best |-> net.best,
                                torn |-> FALSE, synced |-> synced, at |-> clock]}
        BY <1>9 DEF EndSave, Rotate
      <3>2. [num |-> Label, run |-> net.run, sick |-> net.sick, best |-> net.best,
             torn |-> FALSE, synced |-> synced, at |-> clock] \in Ckpt
        BY DEF IInv, TypeOK, Ckpt, Agent
      <3> QED
        BY <3>1, <3>2
    <2>2. sup = "saving" /\ sup' = "training" /\ offset' = offset /\ it' = it + 1
      BY <1>9 DEF EndSave
    <2>3. \A f \in Intact(disk') : f.num <= offset' \/ f.num < offset' + it'
      BY <2>1, <2>2 DEF Without, IInv, TypeOK, Ckpt
    <2> QED
      BY <2>2, <2>3
  <1>10. CASE FailSave
    BY <1>10 DEF FailSave, Restart, files, IInv, TypeOK, Ckpt
  <1>11. CASE Crash
    BY <1>11 DEF Crash, Restart
  <1>12. CASE Stop \/ Finish \/ PowerLoss
    BY <1>12 DEF Stop, Finish, PowerLoss
  <1>13. CASE UNCHANGED vars
    BY <1>13 DEF vars, files, trainer
  <1> QED
    BY <1>1, <1>2, <1>3, <1>4, <1>5, <1>6, <1>7, <1>8, <1>9, <1>10, <1>11, <1>12, <1>13
    DEF Next, Progress

(* The steps that touch the directory. *)
LEMMA DiskSteps ==
    [Next]_vars => \/ UNCHANGED <<disk, aside>>
                   \/ Relocate \/ Quarantine \/ EndSave \/ PowerLoss
  BY DEF Next, Progress, Launch, Build, EndRelocation, Load, LoadNothing, Diverge,
     TakeSnapshot, Rollback, EndIteration, BeginSave, FailSave, Crash, Stop, Finish, files, vars

LEMMA StepSpares ==
    ASSUME Keep = 0, "load" \notin Faults, IInv, Preserved, [Next]_vars,
           NEW f \in disk \cup aside, ~f.torn
    PROVE  \/ f \in disk' \cup aside'
           \/ f \in disk /\ [f EXCEPT !.torn = TRUE] \in disk'
  <1>1. CASE Relocate
    BY <1>1 DEF Relocate
  <1>2. CASE Quarantine
    BY <1>2 DEF Quarantine
  <1>3. CASE EndSave
    <2>1. /\ Without(disk, Label) \subseteq disk' /\ aside' = aside
          /\ sup = "saving"
      BY <1>3 DEF EndSave, Rotate
    <2>2. offset \in Nat /\ it \in Nat /\ it > 0
      BY <2>1 DEF IInv, TypeOK, Preserved, AtSavePoint
    <2>3. f \in disk => f.num \in Nat /\ (f.num <= offset \/ f.num < Label)
      BY <2>1 DEF Preserved, InLoop, Intact, IInv, TypeOK, Ckpt
    <2>4. f \in disk => f.num # Label
      BY <2>2, <2>3 DEF Label
    <2> QED
      BY <2>1, <2>4 DEF Without, Named
  <1>4. CASE PowerLoss
    <2>1. PICK hit \in SUBSET disk :
              disk' = (disk \ hit) \cup {[g EXCEPT !.torn = TRUE] : g \in hit}
      BY <1>4 DEF PowerLoss
    <2> QED
      BY <1>4, <2>1 DEF PowerLoss
  <1> QED
    BY <1>1, <1>2, <1>3, <1>4, DiskSteps

(* Without rotation, as long as files can be read and renamed, no save, no *)
(* relaunch and no fresh start ever destroys a checkpoint that opens, and  *)
(* only a power loss can tear it.                                          *)
THEOREM CheckpointsSurvive ==
    Keep = 0 /\ Faults \cap {"load", "rename"} = {} => (Spec => NoCheckpointDestroyed)
  <1> SUFFICES ASSUME Keep = 0, Faults \cap {"load", "rename"} = {}
               PROVE  Spec => NoCheckpointDestroyed
    OBVIOUS
  <1>1. IInv /\ Preserved /\ [Next]_vars => Preserved'
    BY StepPreserved
  <1>2. IInv /\ Preserved /\ [Next]_vars =>
          [\A f \in disk \cup aside :
              ~f.torn => \/ f \in disk' \cup aside'
                         \/ f \in disk /\ [f EXCEPT !.torn = TRUE] \in disk']_vars
    BY StepSpares
  <1> QED
    BY <1>1, <1>2, InitIInv, StepIInv, InitPreserved, PTL DEF Spec, NoCheckpointDestroyed

----------------------------------------------------------------------------
(* What rotation keeps *)

(* A new file is younger than every other, and the last one that an        *)
(* attempt has saved stays the youngest.                                   *)
Dated ==
    /\ \A f \in disk : f.at < clock
    /\ sup \in {"relocating", "scanning"} => ~earned
    /\ InLoop /\ earned
          => \E f \in disk : f.run = net.run /\ \A g \in disk : g.at <= f.at

LEMMA InitDated == Init => Dated
  BY DEF Init, Dated, InLoop

(* The checkpoint that a save writes survives the rotation it triggers.    *)
LEMMA SaveKeepsNew ==
    ASSUME IInv, \A f \in disk : f.at < clock, EndSave
    PROVE  \E new \in Ckpt :
              /\ new.num = Label /\ new.run = net.run /\ new.at = clock /\ ~new.torn
              /\ new \in disk'
              /\ \A f \in disk' : f = new \/ f \in disk
  <1>1. PICK synced \in BOOLEAN :
           disk' = Rotate(Without(disk, Label)
                     \cup {[num |-> Label, run |-> net.run, sick |-> net.sick, best |-> net.best,
                            torn |-> FALSE, synced |-> synced, at |-> clock]})
    BY DEF EndSave
  <1> DEFINE new == [num |-> Label, run |-> net.run, sick |-> net.sick, best |-> net.best,
                     torn |-> FALSE, synced |-> synced, at |-> clock]
             S == Without(disk, Label) \cup {new}
  <1>2. new \in Ckpt
    BY DEF IInv, TypeOK, Ckpt, Agent, Label
  <1>3. /\ new.num = Label /\ new.run = net.run /\ new.at = clock /\ ~new.torn
        /\ new \in S /\ S \subseteq disk \cup {new}
    BY DEF Without
  <1>4. \A g \in S : g.at <= clock /\ g.at \in Nat
    BY <1>2, <1>3 DEF IInv, TypeOK, Ckpt
  <1>5. disk' = Rotate(S)
    BY <1>1
  <1> HIDE DEF new, S
  <1>6. {g \in S : g.at > new.at} = {}
    <2>1. clock \in Nat
      BY DEF IInv, TypeOK
    <2> QED
      BY <1>3, <1>4, <2>1
  <1>7. Cardinality({g \in S : g.at > new.at}) = 0
    BY <1>6, FS_EmptySet
  <1>8. new \in Rotate(S)
    <2>1. Keep # 0 => 0 < Keep
      BY Constants
    <2> QED
      BY <1>3, <1>7, <2>1 DEF Rotate
  <1> QED
    BY <1>2, <1>3, <1>5, <1>8, RotateRemoves

LEMMA StepDated == IInv /\ Lineage /\ Dated /\ [Next]_vars => Dated'
  <1> SUFFICES ASSUME IInv, Lineage, Dated, [Next]_vars PROVE Dated'
    OBVIOUS
  <1> USE DEF Dated, InLoop
  <1>1. CASE (\E fresh \in BOOLEAN : Launch(fresh)) \/ Build
    BY <1>1 DEF Launch, Build, files
  <1>2. CASE Relocate
    BY <1>2 DEF Relocate, history
  <1>3. CASE EndRelocation \/ Load \/ LoadNothing
    <2>1. UNCHANGED <<files, earned>> /\ sup \in {"relocating", "scanning"}
      BY <1>3 DEF EndRelocation, Load, LoadNothing
    <2>2. ~earned
      BY <2>1
    <2>3. sup' = "training"
      BY <1>3 DEF EndRelocation, Load, LoadNothing, BeginTraining
    <2> QED
      BY <2>1, <2>2, <2>3 DEF files
  <1>4. CASE Quarantine
    BY <1>4 DEF Quarantine, history
  <1>5. CASE Diverge \/ TakeSnapshot \/ Rollback
    <2>1. net'.run = net.run
      BY <1>5, AgentSteps DEF Lineage
    <2>2. UNCHANGED <<disk, clock, sup, earned>>
      BY <1>5 DEF Diverge, TakeSnapshot, Rollback, files, history
    <2> QED
      BY <2>1, <2>2
  <1>6. CASE EndIteration \/ BeginSave
    BY <1>6 DEF EndIteration, BeginSave, files, trainer, history
  <1>7. CASE EndSave
    <2>1. PICK new \in Ckpt : /\ new.run = net.run /\ new.at = clock /\ new \in disk'
                              /\ \A f \in disk' : f = new \/ f \in disk
      BY <1>7, SaveKeepsNew
    <2>2. \A f \in disk' : f.at <= clock /\ f.at \in Nat
      BY <2>1 DEF IInv, TypeOK, Ckpt
    <2>3. net' = net /\ clock' = clock + 1 /\ clock \in Nat /\ sup' = "training"
      BY <1>7 DEF EndSave, IInv, TypeOK
    <2>4. \A f \in disk' : f.at < clock'
      BY <2>2, <2>3
    <2> QED
      BY <2>1, <2>2, <2>3, <2>4
  <1>8. CASE FailSave
    BY <1>8 DEF FailSave, Restart, files
  <1>9. CASE Crash
    BY <1>9 DEF Crash, Restart, files
  <1>10. CASE Stop \/ Finish
    BY <1>10 DEF Stop, Finish, files
  <1>11. CASE PowerLoss
    <2>1. PICK hit \in SUBSET disk :
              disk' = (disk \ hit) \cup {[f EXCEPT !.torn = TRUE] : f \in hit}
      BY <1>11 DEF PowerLoss
    <2>2. \A f \in disk : [f EXCEPT !.torn = TRUE].at = f.at
      BY DEF IInv, TypeOK, Ckpt
    <2> QED
      BY <1>11, <2>1, <2>2 DEF PowerLoss
  <1>12. CASE UNCHANGED vars
    BY <1>12 DEF vars, files, trainer, history
  <1> QED
    BY <1>1, <1>2, <1>3, <1>4, <1>5, <1>6, <1>7, <1>8, <1>9, <1>10, <1>11, <1>12
    DEF Next, Progress

(* However few checkpoints rotation keeps, and whatever older files with   *)
(* higher numbers lie beside them, the last one an attempt has saved is    *)
(* there as long as it trains.                                             *)
THEOREM RotationSparesTheNewest == Spec => []RotationKeepsNewest
  <1>1. Dated => RotationKeepsNewest
    BY DEF Dated, RotationKeepsNewest, InLoop
  <1> QED
    BY <1>1, InitIInv, StepIInv, InitLineage, StepLineage, InitDated, StepDated, PTL DEF Spec

----------------------------------------------------------------------------
(* How far a relaunch falls behind *)

(* The labels the resume scan can return.                                  *)
Points == {0} \cup {f.num : f \in Intact(disk)}

(* What saves cost: the loop is at most one interval, and one more for     *)
(* each save it skipped, beyond a label that can be resumed; and so is     *)
(* where a crash left it, while the relaunch is under way.                 *)
Paced ==
    /\ attempt = 0 => reached = 0
    /\ sup = "relocating" => attempt = 0
    /\ sup \in {"relocating", "scanning"} => it = 0
    /\ sup = "scanning" => Intact(disk) \subseteq todo /\ todo \subseteq disk
    /\ sup = "saving" => AtSavePoint
    /\ sup \in {"starting", "scanning"} =>
          \E k \in Nat : k \in Points /\ reached <= k + SaveEvery * (skipped + 1)
    /\ InLoop =>
          \E a \in Nat : /\ offset + SaveEvery * a \in Points
                         /\ it <= SaveEvery * (a + skipped + 1)

LEMMA Quotient ==
    ASSUME NEW s \in Nat \ {0}, NEW n \in Nat
    PROVE  n \div s \in Nat /\ n = s * (n \div s) + (n % s) /\ n % s \in 0 .. s - 1
  OBVIOUS

(* A multiple of the interval leaves no remainder.                         *)
LEMMA NoRemainder ==
    ASSUME NEW s \in Nat \ {0}, NEW m \in Nat
    PROVE  (s * m) % s = 0
  <1> DEFINE d == (s * m) \div s
             r == (s * m) % s
  <1>1. s * m \in Nat
    OBVIOUS
  <1>2. s * m = s * d + r /\ d \in Nat /\ r \in 0 .. s - 1
    BY <1>1, Quotient
  <1> HIDE DEF d, r
  <1>3. s * (m - d) = r
    BY <1>2
  <1>4. CASE m - d = 0
    BY <1>2, <1>3, <1>4 DEF r
  <1>5. CASE m - d >= 1
    <2>1. PICK k \in Nat : m - d = k + 1
      <3>1. (m - d) - 1 \in Nat /\ m - d = ((m - d) - 1) + 1
        BY <1>2, <1>5
      <3> QED
        BY <3>1
    <2>2. s * (m - d) = s * k + s /\ s * k \in Nat
      BY <2>1
    <2> QED
      BY <1>2, <1>3, <2>2
  <1>6. CASE m - d <= -1
    <2>1. PICK k \in Nat : m - d = -(k + 1)
      <3>1. d - m - 1 \in Nat /\ m - d = -((d - m - 1) + 1)
        BY <1>2, <1>6
      <3> QED
        BY <3>1
    <2>2. s * (m - d) = -(s * k + s) /\ s * k \in Nat
      BY <2>1
    <2> QED
      BY <1>2, <1>3, <2>2
  <1> QED
    BY <1>2, <1>4, <1>5, <1>6

LEMMA Intervals ==
    ASSUME NEW a \in Nat
    PROVE  /\ SaveEvery * a \in Nat /\ SaveEvery \in Nat /\ SaveEvery > 0
           /\ SaveEvery * (a + 1) = SaveEvery * a + SaveEvery
  BY Constants

LEMMA InitPaced == Init => Paced
  BY DEF Init, Paced, InLoop

(* A crash of the loop leaves a label that can be resumed as near.         *)
LEMMA RestartPaced ==
    ASSUME IInv, Restart, NEW k \in Nat, k \in Points, UNCHANGED files, skipped' \in Nat,
           IF InLoop THEN Label <= k + SaveEvery * (skipped' + 1)
                     ELSE reached <= k + SaveEvery * (skipped' + 1)
    PROVE  Paced'
  <1>1. attempt' # 0 /\ sup' \in {"starting", "aborted"}
    BY Constants DEF Restart, IInv, TypeOK
  <1>2. k \in Points'
    BY DEF Points, files, Intact
  <1>3. reached' <= k + SaveEvery * (skipped' + 1)
    BY DEF Restart, InLoop
  <1> QED
    BY <1>1, <1>2, <1>3 DEF Paced, InLoop

(* The resumption point of the loop, as a crash of it sees it.             *)
LEMMA LoopPoint ==
    ASSUME IInv, Paced, InLoop
    PROVE  \E k \in Nat : k \in Points /\ Label <= k + SaveEvery * (skipped + 1)
  <1>1. PICK a \in Nat : /\ offset + SaveEvery * a \in Points
                         /\ it <= SaveEvery * (a + skipped + 1)
    BY DEF Paced
  <1>2. offset \in Nat /\ it \in Nat /\ skipped \in Nat
    BY DEF IInv, TypeOK
  <1>3. offset + SaveEvery * a \in Nat
    BY <1>2, Intervals
  <1>4. SaveEvery * (a + skipped + 1) = SaveEvery * a + SaveEvery * (skipped + 1)
    BY <1>2, Constants
  <1>5. SaveEvery * a \in Nat /\ SaveEvery * (skipped + 1) \in Nat
    BY <1>2, Intervals
  <1>6. offset + it <= (offset + SaveEvery * a) + SaveEvery * (skipped + 1)
    BY <1>1, <1>2, <1>4, <1>5
  <1> QED
    BY <1>1, <1>3, <1>6 DEF Label

(* One iteration more: at a save point it needs the save that was missed.  *)
LEMMA NextIteration ==
    ASSUME IInv, NEW a \in Nat, it <= SaveEvery * (a + skipped + 1)
    PROVE  /\ it + 1 <= SaveEvery * (a + (skipped + 1) + 1)
           /\ ~AtSavePoint => it + 1 <= SaveEvery * (a + skipped + 1)
  <1>1. it \in Nat /\ skipped \in Nat /\ SaveEvery \in Nat \ {0}
    BY Constants DEF IInv, TypeOK
  <1> DEFINE m == a + skipped + 1
  <1>2. m \in Nat /\ m > 0
    BY <1>1
  <1>3. SaveEvery * m \in Nat /\ SaveEvery * (m + 1) = SaveEvery * m + SaveEvery
    BY <1>2, Intervals
  <1>4. it + 1 <= SaveEvery * (a + (skipped + 1) + 1)
    <2>1. a + (skipped + 1) + 1 = m + 1
      BY <1>1
    <2>2. it + 1 <= SaveEvery * (m + 1)
      BY <1>1, <1>3
    <2> QED
      BY <2>1, <2>2
  <1>5. ASSUME ~AtSavePoint PROVE it + 1 <= SaveEvery * m
    <2>1. it = 0 \/ it % SaveEvery # 0
      BY <1>1, <1>5 DEF AtSavePoint
    <2>2. SaveEvery * m # 0
      BY <1>1, <1>2
    <2>3. it # SaveEvery * m
      BY <1>1, <1>2, <2>1, <2>2, NoRemainder
    <2>4. it <= SaveEvery * m
      OBVIOUS
    <2> HIDE DEF m
    <2> QED
      BY <1>1, <1>3, <2>3, <2>4
  <1> QED
    BY <1>4, <1>5

LEMMA StepPaced ==
    "load" \notin Faults /\ IInv /\ Dated /\ Paced /\ [Next]_vars => Paced'
  <1> SUFFICES ASSUME "load" \notin Faults, IInv, Dated, Paced, [Next]_vars
               PROVE  Paced'
    OBVIOUS
  <1>0. /\ offset \in Nat /\ it \in Nat /\ skipped \in Nat /\ reached \in Nat
        /\ attempt \in Nat /\ SaveEvery * 0 = 0 /\ SaveEvery * 1 = SaveEvery
        /\ SaveEvery \in Nat
    BY Constants DEF IInv, TypeOK
  <1>1. CASE \E fresh \in BOOLEAN : Launch(fresh)
    <2>1. sup' = "starting" /\ attempt' = 0 /\ reached' = 0 /\ skipped' = 0
      BY <1>1 DEF Launch, Forget
    <2>2. 0 \in Points' /\ reached' <= 0 + SaveEvery * (skipped' + 1)
      BY <1>0, <2>1 DEF Points
    <2> QED
      BY <2>1, <2>2 DEF Paced, InLoop
  <1>2. CASE Build
    <2>1. /\ sup = "starting" /\ sup' \in {"relocating", "scanning"}
          /\ sup' = "relocating" => attempt = 0
          /\ todo' = disk /\ it' = 0
          /\ UNCHANGED <<disk, attempt, skipped, reached>>
      BY <1>2 DEF Build, files
    <2> QED
      BY <2>1 DEF Paced, InLoop, Points, Intact
  <1>3. CASE Relocate
    BY <1>3 DEF Relocate, trainer, history, Paced, InLoop
  <1>4. CASE EndRelocation \/ LoadNothing
    <2>1. /\ sup' = "training" /\ offset' = 0 /\ it' = 0 /\ skipped' = 0
          /\ UNCHANGED <<attempt, reached>>
      BY <1>4 DEF EndRelocation, LoadNothing, BeginTraining, Paced
    <2>2. offset' + SaveEvery * 0 \in Points' /\ it' <= SaveEvery * (0 + skipped' + 1)
      BY <1>0, <2>1 DEF Points
    <2> QED
      BY <2>1, <2>2 DEF Paced, InLoop
  <1>5. CASE Load
    <2>1. PICK f \in todo : ~f.torn /\ BeginTraining(f.num)
      BY <1>5 DEF Load, Newest
    <2>2. /\ sup' = "training" /\ offset' = f.num /\ it' = 0 /\ skipped' = 0
          /\ UNCHANGED <<files, attempt, reached>>
      BY <1>5, <2>1 DEF Load, BeginTraining, Paced
    <2>3. f \in disk /\ f.num \in Nat
      BY <1>5, <2>1 DEF Load, Paced, IInv, TypeOK, Ckpt
    <2>4. offset' + SaveEvery * 0 \in Points' /\ it' <= SaveEvery * (0 + skipped' + 1)
      BY <1>0, <2>1, <2>2, <2>3 DEF Points, Intact, files
    <2> QED
      BY <2>2, <2>4 DEF Paced, InLoop
  <1>6. CASE Quarantine
    <2>1. PICK f \in todo : f.torn /\ todo' = todo \ {f} /\ disk' \in {disk, disk \ {f}}
      BY <1>6 DEF Quarantine, Newest
    <2>2. /\ sup = "scanning"
          /\ UNCHANGED <<sup, attempt, it, skipped, reached>>
      BY <1>6 DEF Quarantine, trainer, history
    <2>3. Intact(disk') = Intact(disk)
      BY <2>1 DEF Intact
    <2>4. Intact(disk') \subseteq todo' /\ todo' \subseteq disk'
      <3>1. Intact(disk) \subseteq todo /\ todo \subseteq disk /\ f \notin Intact(disk)
        BY <2>1, <2>2 DEF Paced, Intact
      <3> QED
        BY <2>1, <2>3, <3>1
    <2> QED
      BY <2>2, <2>3, <2>4 DEF Paced, InLoop, Points
  <1>7. CASE Diverge \/ TakeSnapshot \/ Rollback \/ BeginSave
    <2>1. /\ sup = "training" /\ sup' \in {"training", "saving"}
          /\ sup' = "saving" => AtSavePoint
          /\ UNCHANGED <<disk, attempt, offset, it, skipped, reached>>
      BY <1>7 DEF Diverge, TakeSnapshot, Rollback, BeginSave, files, trainer, history
    <2> QED
      BY <2>1 DEF Paced, InLoop, Points, Intact, AtSavePoint
  <1>8. CASE EndIteration
    <2>1. PICK a \in Nat : /\ offset + SaveEvery * a \in Points
                           /\ it <= SaveEvery * (a + skipped + 1)
      BY <1>8 DEF EndIteration, Paced, InLoop
    <2>2. /\ sup' = "training" /\ it' = it + 1
          /\ UNCHANGED <<disk, attempt, offset, reached>>
      BY <1>8 DEF EndIteration, files
    <2>3. it' <= SaveEvery * (a + skipped' + 1)
      <3>1. CASE AtSavePoint
        <4>1. skipped' = skipped + 1
          BY <1>8, <3>1 DEF EndIteration
        <4> QED
          BY <2>1, <2>2, <4>1, NextIteration
      <3>2. CASE ~AtSavePoint
        <4>1. skipped' = skipped
          BY <1>8, <3>2 DEF EndIteration
        <4> QED
          BY <1>0, <2>1, <2>2, <3>2, <4>1, NextIteration
      <3> QED
        BY <3>1, <3>2
    <2>4. offset' + SaveEvery * a \in Points'
      BY <2>1, <2>2 DEF Points, Intact
    <2> QED
      BY <2>2, <2>3, <2>4 DEF Paced, InLoop
  <1>9. CASE EndSave
    <2>1. PICK new \in Ckpt : new.num = Label /\ ~new.torn /\ new \in disk'
      BY <1>9, SaveKeepsNew DEF Dated
    <2>2. /\ sup = "saving" /\ sup' = "training" /\ it' = it + 1 /\ skipped' = 0
          /\ UNCHANGED <<attempt, offset, reached>>
      BY <1>9 DEF EndSave
    <2> DEFINE a == it \div SaveEvery
    <2>3. a \in Nat /\ it = SaveEvery * a
      <3>1. it % SaveEvery = 0
        BY <2>2 DEF Paced, AtSavePoint
      <3> QED
        BY <1>0, <3>1, Quotient, Constants
    <2> HIDE DEF a
    <2>4. offset' + SaveEvery * a \in Points'
      BY <2>1, <2>2, <2>3 DEF Points, Intact, Label
    <2>5. it' <= SaveEvery * (a + skipped' + 1)
      <3>1. a + skipped' + 1 = a + 1
        BY <2>2, <2>3
      <3> QED
        BY <2>2, <2>3, <3>1, Intervals
    <2> QED
      BY <2>2, <2>3, <2>4, <2>5 DEF Paced, InLoop
  <1>10. CASE FailSave
    <2>1. sup = "saving" /\ skipped' = skipped + 1 /\ UNCHANGED <<disk, files, offset>>
      BY <1>10 DEF FailSave, files
    <2>2. CASE sup' = "training" /\ it' = it + 1 /\ UNCHANGED <<attempt, todo, reached>>
      <3>1. PICK a \in Nat : /\ offset + SaveEvery * a \in Points
                             /\ it <= SaveEvery * (a + skipped + 1)
        BY <2>1 DEF Paced, InLoop
      <3>2. it' <= SaveEvery * (a + skipped' + 1)
        BY <2>1, <2>2, <3>1, NextIteration
      <3>3. offset' + SaveEvery * a \in Points'
        BY <2>1, <3>1 DEF Points, Intact
      <3> QED
        BY <2>2, <3>2, <3>3 DEF Paced, InLoop
    <2>3. CASE Restart
      <3>1. PICK k \in Nat : k \in Points /\ Label <= k + SaveEvery * (skipped + 1)
        BY <2>1, LoopPoint DEF InLoop
      <3>2. skipped' \in Nat /\ Label <= k + SaveEvery * (skipped' + 1)
        <4>1. /\ SaveEvery * (skipped + 1) \in Nat
              /\ SaveEvery * (skipped' + 1) = SaveEvery * (skipped + 1) + SaveEvery
          BY <1>0, <2>1, Intervals
        <4> QED
          BY <1>0, <2>1, <3>1, <4>1 DEF Label
      <3> QED
        BY <2>1, <2>3, <3>1, <3>2, RestartPaced DEF InLoop
    <2> QED
      BY <1>10, <2>2, <2>3 DEF FailSave
  <1>11. CASE Crash
    <2>1. Restart /\ Running /\ UNCHANGED <<files, skipped>>
      BY <1>11 DEF Crash
    <2>2. CASE InLoop
      <3>1. PICK k \in Nat : k \in Points /\ Label <= k + SaveEvery * (skipped + 1)
        BY <2>2, LoopPoint
      <3> QED
        BY <1>0, <2>1, <2>2, <3>1, RestartPaced
    <2>3. CASE sup \in {"starting", "scanning"}
      <3>1. PICK k \in Nat : k \in Points /\ reached <= k + SaveEvery * (skipped + 1)
        BY <2>3 DEF Paced
      <3> QED
        BY <1>0, <2>1, <2>3, <3>1, RestartPaced DEF InLoop
    <2>4. CASE sup = "relocating"
      <3>1. reached = 0 /\ 0 \in Points
        BY <2>4 DEF Paced, Points
      <3>2. reached <= 0 + SaveEvery * (skipped + 1)
        BY <1>0, <3>1, Intervals
      <3> QED
        BY <1>0, <2>1, <2>4, <3>1, <3>2, RestartPaced DEF InLoop
    <2> QED
      BY <2>1, <2>2, <2>3, <2>4 DEF Running, InLoop, IInv, TypeOK, Sup
  <1>12. CASE Stop \/ Finish \/ PowerLoss
    <2>1. sup' = "idle" /\ reached' = 0
      BY <1>12 DEF Stop, Finish, PowerLoss, Forget
    <2> QED
      BY <2>1 DEF Paced, InLoop
  <1>13. CASE UNCHANGED vars
    BY <1>13 DEF vars, files, trainer, history, Paced, InLoop, Points, Intact, AtSavePoint
  <1> QED
    BY <1>1, <1>2, <1>3, <1>4, <1>5, <1>6, <1>7, <1>8, <1>9, <1>10, <1>11, <1>12, <1>13
    DEF Next, Progress

(* Where a scan ends, it has not passed over a file that opens.            *)
LEMMA ResumeIsNear ==
    ASSUME IInv, Paced, [Next]_vars, sup = "scanning", sup' = "training"
    PROVE  reached <= offset' + SaveEvery * (skipped + 1)
  <1>1. PICK k \in Nat : k \in Points /\ reached <= k + SaveEvery * (skipped + 1)
    BY DEF Paced
  <1>2. Intact(disk) \subseteq todo /\ todo \subseteq Ckpt
    BY DEF Paced, IInv, TypeOK
  <1>3. Load \/ LoadNothing
    BY DEF Next, Progress, Launch, Build, Relocate, EndRelocation, Quarantine, Diverge,
       TakeSnapshot, Rollback, EndIteration, BeginSave, EndSave, FailSave, Finish, Crash, Stop, PowerLoss,
       Restart, Running, vars
  <1>4. offset' \in Nat /\ k <= offset'
    <2>1. CASE Load
      <3>1. PICK f \in todo : (\A g \in todo : g.num <= f.num) /\ offset' = f.num
        BY <2>1 DEF Load, Newest, BeginTraining
      <3> QED
        BY <1>1, <1>2, <3>1 DEF Points, Ckpt
    <2>2. CASE LoadNothing
      BY <1>1, <1>2, <2>2 DEF LoadNothing, BeginTraining, Points
    <2> QED
      BY <1>3, <2>1, <2>2
  <1>5. SaveEvery * (skipped + 1) \in Nat /\ reached \in Nat
    <2>1. skipped + 1 \in Nat /\ reached \in Nat
      BY DEF IInv, TypeOK
    <2> QED
      BY <2>1, Intervals
  <1> QED
    BY <1>1, <1>4, <1>5

(* As long as files that are intact can be read, a relaunch resumes at     *)
(* most one interval behind the crash, and one more for each save that was *)
(* missed: whatever rotation keeps, whatever cannot be written or renamed, *)
(* and wherever in the attempt, the scan and the relocation it crashed.    *)
THEOREM RelaunchesLoseLittle ==
    "load" \notin Faults => (Spec => RelaunchLosesOneInterval)
  <1> SUFFICES ASSUME "load" \notin Faults PROVE Spec => RelaunchLosesOneInterval
    OBVIOUS
  <1>1. IInv /\ Dated /\ Paced /\ [Next]_vars => Paced'
    BY StepPaced
  <1>2. IInv /\ Paced /\ [Next]_vars =>
          [sup = "scanning" /\ sup' = "training" /\ attempt > 0
              => reached <= offset' + SaveEvery * (skipped + 1)]_vars
    BY ResumeIsNear
  <1> QED
    BY <1>1, <1>2, InitIInv, StepIInv, InitLineage, StepLineage, InitDated, StepDated, InitPaced, PTL
    DEF Spec, RelaunchLosesOneInterval

=============================================================================

---------------------------- MODULE Checkpoints ----------------------------
(***************************************************************************)
(* Durability of a vanilla-PPO run: the checkpoint directory, the trainer  *)
(* that saves into it and resumes from it                                  *)
(* (src/training/checkpoint_manager.py) and the supervisor of              *)
(* scripts/train_game.py that relaunches a crashed trainer in the same     *)
(* process, on the same Trainer object.                                    *)
(*                                                                         *)
(* Iteration g of a run saves vanilla_ppo_iter_g.pt when its loop counter  *)
(* is a positive multiple of SaveEvery (10 in the code).  The weights are  *)
(* abstracted to the run they descend from and to the parts of the agent   *)
(* that hold a NaN or an infinity; the anti-collapse snapshot of the       *)
(* network, which every checkpoint carries along, is abstracted likewise.  *)
(***************************************************************************)
EXTENDS Naturals, FiniteSets

CONSTANTS
    SaveEvery,      \* iterations between two saves (10)
    FailureLimit,   \* SAVE_FAILURE_LIMIT (3)
    MaxRestarts,    \* relaunches the supervisor grants one launch (5)
    Keep,           \* checkpoint_keep_last: 0 keeps every checkpoint
    Iters,          \* --iters: iterations one attempt runs
    Ladder,         \* ladder or consolidation: the modes with rollbacks of their own
    MaxLaunches,    \* bound: how often the operator starts train_game.py
    Faults          \* what may go wrong: see FaultKinds

FaultKinds ==
    {"write",       \* torch.save or os.replace fails
     "rename",      \* moving a file to prevrun_* or *.corrupt fails
     "fsync",       \* the swallowed fsync failure
     "power",       \* power is lost: unsynced data may be torn
     "load",        \* torch.load fails on an intact file
     "nan"}         \* training diverges numerically

ASSUME SaveEveryAssumption == SaveEvery \in Nat \ {0}
ASSUME LimitAssumption == FailureLimit \in Nat \ {0}
ASSUME RestartsAssumption == MaxRestarts \in Nat
ASSUME KeepAssumption == Keep \in Nat
ASSUME ItersAssumption == Iters \in Nat
ASSUME LadderAssumption == Ladder \in BOOLEAN
ASSUME LaunchesAssumption == MaxLaunches \in Nat
ASSUME FaultsAssumption == Faults \subseteq FaultKinds

VARIABLES
    disk,       \* the vanilla_ppo_iter_*.pt files of the checkpoint dir
    aside,      \* files moved under prevrun_*/
    corrupt,    \* files renamed *.pt.corrupt
    clock,      \* modification times handed out so far
    sup,        \* what the supervisor's process is doing
    attempt,    \* crashes of this launch so far
    noResume,   \* was this launch started with --no-resume?
    launch,     \* launches so far
    net,        \* the agent in memory: it survives a crash of the trainer
    offset,     \* iter_offset: the label resume() returned
    it,         \* the loop counter of this attempt
    fails,      \* _consecutive_save_failures of this attempt
    todo,       \* files relocation or the resume scan has still to visit
    skipped,    \* history: save points since the last save or load
    missed,     \* history: failed saves in a row, across relaunches
    reached,    \* history: the label this launch had reached when it crashed
    begun,      \* history: this launch relocated and trained from scratch
    earned      \* history: this attempt has saved a checkpoint

trainer == <<net, offset, it, fails>>
files == <<disk, aside, corrupt, clock>>
history == <<skipped, missed, reached, begun, earned>>
vars == <<files, sup, attempt, noResume, launch, trainer, todo, history>>

(* The networks and optimizers of a checkpoint: the policy net, the RND    *)
(* module, the Adam moments of both, and the PR-MDP adversary (its net and *)
(* optimizer).  The poison guard inspects the first three.                 *)
Parts == {"net", "rnd", "adam", "adversary"}
Guarded == {"net", "rnd", "adam"}

(* best_net_snapshot: a copy of the policy net, or none yet. *)
Snapshot == [run : Nat, sick : BOOLEAN]
NoSnapshot == [run |-> 0, sick |-> FALSE]

Ckpt == [num : Nat, run : Nat, sick : SUBSET Parts, best : Snapshot, torn : BOOLEAN,
         synced : BOOLEAN, at : Nat]
Agent == [run : Nat, sick : SUBSET Parts, best : Snapshot]
FreshAgent(r) == [run |-> r, sick |-> {}, best |-> NoSnapshot]
NoAgent == FreshAgent(0)

Sup == {"idle", "starting", "relocating", "scanning", "training", "saving",
        "aborted"}

TypeOK ==
    /\ disk \subseteq Ckpt /\ aside \subseteq Ckpt /\ corrupt \subseteq Ckpt
    /\ clock \in Nat
    /\ sup \in Sup
    /\ attempt \in 0 .. MaxRestarts + 1
    /\ noResume \in BOOLEAN
    /\ launch \in Nat
    /\ net \in Agent
    /\ offset \in Nat /\ it \in Nat
    /\ fails \in 0 .. FailureLimit
    /\ todo \subseteq Ckpt
    /\ skipped \in Nat /\ missed \in Nat /\ reached \in Nat
    /\ begun \in BOOLEAN /\ earned \in BOOLEAN

Label == offset + it
Running == sup \notin {"idle", "aborted"}
Named(S, n) == {f \in S : f.num = n}
Newest(S) == {f \in S : \A g \in S : g.num <= f.num}
Without(S, n) == S \ Named(S, n)

(* Mutant: the youngest by number, not by modification time. *)
Rotate_ByNumber(S) ==
    IF Keep = 0 THEN S
    ELSE {f \in S : Cardinality({g \in S : g.num > f.num}) < Keep}

(* rotate_old_checkpoints: the Keep youngest files by modification time. *)
Rotate(S) ==
    IF Keep = 0 THEN S
    ELSE {f \in S : Cardinality({g \in S : g.at > f.at}) < Keep}

Init ==
    /\ disk = {} /\ aside = {} /\ corrupt = {}
    /\ clock = 0
    /\ sup = "idle"
    /\ attempt = 0
    /\ noResume = FALSE
    /\ launch = 0
    /\ net = NoAgent
    /\ offset = 0 /\ it = 0 /\ fails = 0
    /\ todo = {}
    /\ skipped = 0 /\ missed = 0 /\ reached = 0
    /\ begun = FALSE /\ earned = FALSE

----------------------------------------------------------------------------
(* A launcher process that is gone leaves only the directory behind. *)
Forget ==
    /\ net' = NoAgent
    /\ offset' = 0 /\ it' = 0 /\ fails' = 0
    /\ todo' = {}
    /\ skipped' = 0 /\ missed' = 0 /\ reached' = 0
    /\ begun' = FALSE /\ earned' = FALSE

(* The operator starts train_game.py, with or without --no-resume. *)
Launch(fresh) ==
    /\ ~Running
    /\ launch < MaxLaunches
    /\ launch' = launch + 1
    /\ sup' = "starting"
    /\ attempt' = 0
    /\ noResume' = fresh
    /\ Forget
    /\ UNCHANGED files

(* Mutant: the snapshot becomes a field of the Trainer, like the network.  *)
Build_KeepsSnapshot ==
    /\ sup = "starting"
    /\ sup' = IF noResume /\ attempt = 0 THEN "relocating" ELSE "scanning"
    /\ todo' = disk
    /\ net' = IF net = NoAgent THEN FreshAgent(launch)
              ELSE [net EXCEPT !.sick = @ \ {"adversary"}]
    /\ offset' = 0 /\ it' = 0 /\ fails' = 0
    /\ earned' = FALSE
    /\ UNCHANGED <<files, attempt, noResume, launch, skipped, missed, reached, begun>>

(* Trainer.run up to CheckpointManager.resume: the pool is spawned, and    *)
(* network, RND and optimizer built unless the Trainer object still has    *)
(* them.  The adversary and the snapshot are locals of the loop: they      *)
(* start afresh.                                                           *)
Build ==
    /\ sup = "starting"
    /\ sup' = IF noResume /\ attempt = 0 THEN "relocating" ELSE "scanning"
    /\ todo' = disk
    /\ net' = IF net = NoAgent THEN FreshAgent(launch)
              ELSE [net EXCEPT !.sick = @ \ {"adversary"}, !.best = NoSnapshot]
    /\ offset' = 0 /\ it' = 0 /\ fails' = 0
    /\ earned' = FALSE
    /\ UNCHANGED <<files, attempt, noResume, launch, skipped, missed, reached, begun>>

(* The loop starts with counter 0 after resume() returned label n. *)
BeginTraining(n) ==
    /\ sup' = "training"
    /\ offset' = n
    /\ todo' = {}
    /\ skipped' = 0

(* fresh_start: prior checkpoints are moved to prevrun_*, one by one. *)
Relocate ==
    /\ sup = "relocating"
    /\ \E f \in todo :
          /\ disk' = disk \ {f}
          /\ aside' = aside \cup {f}
          /\ todo' = todo \ {f}
    /\ UNCHANGED <<corrupt, clock, sup, attempt, noResume, launch, trainer, history>>

(* Mutant: the prior checkpoints are ignored where they are. *)
EndRelocation_LeavesFiles ==
    /\ sup = "relocating"
    /\ BeginTraining(0)
    /\ begun' = TRUE
    /\ UNCHANGED <<files, attempt, noResume, launch, net, it, fails, missed, reached, earned>>

(* All moved, or an OSError that is only logged: what is left stays. *)
EndRelocation ==
    /\ sup = "relocating"
    /\ todo = {} \/ "rename" \in Faults
    /\ BeginTraining(0)
    /\ begun' = TRUE
    /\ UNCHANGED <<files, attempt, noResume, launch, net, it, fails, missed, reached, earned>>

(* The agent after load_state_dict: a checkpoint without a snapshot leaves *)
(* the loop's own.  Nothing is validated.                                  *)
Loaded(f) ==
    [run |-> f.run, sick |-> f.sick,
     best |-> IF f.best = NoSnapshot THEN net.best ELSE f.best]

(* Mutants: numbering restarts at 0; the scan takes files in any order. *)
Load_NoOffset ==
    /\ sup = "scanning"
    /\ \E f \in Newest(todo) :
          /\ ~f.torn
          /\ net' = Loaded(f)
          /\ BeginTraining(0)
    /\ UNCHANGED <<files, attempt, noResume, launch, it, fails, missed, reached, begun, earned>>

Load_Unsorted ==
    /\ sup = "scanning"
    /\ \E f \in todo :
          /\ ~f.torn
          /\ net' = Loaded(f)
          /\ BeginTraining(f.num)
    /\ UNCHANGED <<files, attempt, noResume, launch, it, fails, missed, reached, begun, earned>>

(* The resume scan loads the newest candidate that opens ... *)
Load ==
    /\ sup = "scanning"
    /\ \E f \in Newest(todo) :
          /\ ~f.torn
          /\ net' = Loaded(f)
          /\ BeginTraining(f.num)
    /\ UNCHANGED <<files, attempt, noResume, launch, it, fails, missed, reached, begun, earned>>

(* ... and quarantines one that does not, as far as it can be renamed. *)
Quarantine ==
    /\ sup = "scanning"
    /\ \E f \in Newest(todo) :
          /\ f.torn \/ "load" \in Faults
          /\ todo' = todo \ {f}
          /\ \/ /\ disk' = disk \ {f}
                /\ corrupt' = Without(corrupt, f.num) \cup {f}
             \/ "rename" \in Faults /\ UNCHANGED <<disk, corrupt>>
    /\ UNCHANGED <<aside, clock, sup, attempt, noResume, launch, trainer, history>>

(* Nothing to load: the loop starts at 0 with whatever is in memory. *)
LoadNothing ==
    /\ sup = "scanning"
    /\ todo = {}
    /\ BeginTraining(0)
    /\ UNCHANGED <<files, attempt, noResume, launch, net, it, fails, missed, reached, begun, earned>>

----------------------------------------------------------------------------
(* Numeric divergence reaches a part of the agent. *)
Diverge ==
    /\ "nan" \in Faults
    /\ sup = "training"
    /\ \E part \in Parts \ net.sick : net' = [net EXCEPT !.sick = @ \cup {part}]
    /\ UNCHANGED <<files, sup, attempt, noResume, launch, offset, it, fails, todo, history>>

(* The anti-collapse guard copies the network when the entropy looks       *)
(* healthy and the fitness is the best so far.  It does not look at the    *)
(* weights: an update whose every loss was non-finite reports entropy 0.   *)
TakeSnapshot ==
    /\ sup = "training"
    /\ net' = [net EXCEPT !.best = [run |-> net.run, sick |-> "net" \in net.sick]]
    /\ UNCHANGED <<files, sup, attempt, noResume, launch, offset, it, fails, todo, history>>

(* The copies of this attempt's network that the ladder (best_cold) and    *)
(* consolidation (accepted_snapshot) modes keep: from before or after it   *)
(* diverged.                                                               *)
ModeCopies == {[run |-> net.run, sick |-> s] : s \in {FALSE, "net" \in net.sick}}

(* A rollback: to the snapshot when the entropy melts; and in the ladder   *)
(* and consolidation modes to a copy of theirs.  The optimizer is built    *)
(* anew, RND and the adversary stay.                                       *)
Rollback ==
    /\ sup = "training"
    /\ \E b \in {net.best} \cup (IF Ladder THEN ModeCopies ELSE {}) :
          /\ b # NoSnapshot
          /\ net' = [net EXCEPT !.run = b.run,
                                !.sick = (@ \ {"net", "adam"})
                                             \cup (IF b.sick THEN {"net"} ELSE {})]
    /\ UNCHANGED <<files, sup, attempt, noResume, launch, offset, it, fails, todo, history>>

AtSavePoint == it > 0 /\ it % SaveEvery = 0

(* The end of an iteration that saves nothing; at a save point, because    *)
(* the poison guard refuses.                                               *)
EndIteration ==
    /\ sup = "training"
    /\ it < Iters
    /\ ~AtSavePoint \/ net.sick \cap Guarded # {}
    /\ skipped' = IF AtSavePoint THEN skipped + 1 ELSE skipped
    /\ it' = it + 1
    /\ UNCHANGED <<files, sup, attempt, noResume, launch, net, offset, fails, todo, missed, reached, begun, earned>>

(* Mutant: the guard inspects the policy net only. *)
BeginSave_NetOnly ==
    /\ sup = "training"
    /\ it < Iters
    /\ AtSavePoint
    /\ "net" \notin net.sick
    /\ sup' = "saving"
    /\ UNCHANGED <<files, attempt, noResume, launch, trainer, todo, history>>

(* save_iter passes the poison guard and begins the temporary file. *)
BeginSave ==
    /\ sup = "training"
    /\ it < Iters
    /\ AtSavePoint
    /\ net.sick \cap Guarded = {}
    /\ sup' = "saving"
    /\ UNCHANGED <<files, attempt, noResume, launch, trainer, todo, history>>

(* fsync (best effort), os.replace, then the opt-in rotation. *)
EndSave ==
    /\ sup = "saving"
    /\ \E synced \in {TRUE} \cup (IF "fsync" \in Faults THEN {FALSE} ELSE {}) :
          LET new == [num |-> Label, run |-> net.run, sick |-> net.sick, best |-> net.best,
                      torn |-> FALSE, synced |-> synced, at |-> clock]
          IN  disk' = Rotate(Without(disk, Label) \cup {new})
    /\ clock' = clock + 1
    /\ sup' = "training"
    /\ it' = it + 1
    /\ fails' = 0 /\ skipped' = 0 /\ missed' = 0 /\ earned' = TRUE
    /\ UNCHANGED <<aside, corrupt, attempt, noResume, launch, net, offset, todo, reached, begun>>

(* Mutants: a relaunch is granted whatever it cost, or not counted. *)
Restart_Unlimited ==
    /\ attempt' = attempt + 1
    /\ sup' = "starting"
    /\ todo' = {}
    /\ reached' = IF sup \in {"training", "saving"} THEN Label ELSE reached

Restart_Uncounted ==
    /\ attempt' = attempt
    /\ sup' = "starting"
    /\ todo' = {}
    /\ reached' = IF sup \in {"training", "saving"} THEN Label ELSE reached

(* What the supervisor does about any exception of the trainer. *)
Restart ==
    /\ attempt' = attempt + 1
    /\ sup' = IF attempt + 1 > MaxRestarts THEN "aborted" ELSE "starting"
    /\ todo' = {}
    /\ reached' = IF sup \in {"training", "saving"} THEN Label ELSE reached

(* Mutant: a failed write is only logged. *)
FailSave_OnlyLogs ==
    /\ "write" \in Faults
    /\ sup = "saving"
    /\ missed' = missed + 1
    /\ skipped' = skipped + 1
    /\ sup' = "training"
    /\ it' = it + 1
    /\ UNCHANGED <<files, attempt, noResume, launch, net, offset, fails, todo, reached, begun, earned>>

(* A failed write is counted; the third in a row raises RuntimeError. *)
FailSave ==
    /\ "write" \in Faults
    /\ sup = "saving"
    /\ fails' = fails + 1
    /\ missed' = missed + 1
    /\ skipped' = skipped + 1
    /\ \/ /\ fails + 1 < FailureLimit
          /\ sup' = "training"
          /\ it' = it + 1
          /\ UNCHANGED <<attempt, todo, reached>>
       \/ /\ fails + 1 >= FailureLimit
          /\ Restart
          /\ UNCHANGED it
    /\ UNCHANGED <<files, noResume, launch, net, offset, begun, earned>>

(* Any other exception, a Rust worker panic included, at any point. *)
Crash ==
    /\ Running
    /\ Restart
    /\ UNCHANGED <<files, noResume, launch, trainer, skipped, missed, begun, earned>>

(* Ctrl-C, an exhausted budget of iterations, or SIGKILL: no relaunch. *)
Stop ==
    /\ Running
    /\ sup' = "idle"
    /\ Forget
    /\ UNCHANGED <<files, attempt, noResume, launch>>

Finish ==
    /\ sup = "training"
    /\ it = Iters
    /\ sup' = "idle"
    /\ Forget
    /\ UNCHANGED <<files, attempt, noResume, launch>>

(* The machine goes down: what was never synced may be torn. *)
PowerLoss ==
    /\ "power" \in Faults
    /\ \E hit \in SUBSET {f \in disk : ~f.synced} :
          disk' = (disk \ hit) \cup {[f EXCEPT !.torn = TRUE] : f \in hit}
    /\ sup' = "idle"
    /\ Forget
    /\ UNCHANGED <<aside, corrupt, clock, attempt, noResume, launch>>

(* The steps that bring the launch to its end, as opposed to what befalls  *)
(* it; snapshots and rollbacks happen in between.                          *)
Progress ==
    \/ Build \/ Relocate \/ EndRelocation \/ Load \/ Quarantine \/ LoadNothing
    \/ EndIteration \/ BeginSave \/ EndSave \/ FailSave \/ Finish

Next ==
    \/ \E fresh \in BOOLEAN : Launch(fresh)
    \/ Progress
    \/ TakeSnapshot \/ Rollback
    \/ Diverge \/ Crash \/ Stop \/ PowerLoss

Spec == Init /\ [][Next]_vars
FairSpec == Spec /\ WF_vars(Progress)

----------------------------------------------------------------------------
(* "A numerically-collapsed net must never become the auto-resume point"   *)
(* (checkpoint_manager.py:246): no checkpoint that a relaunch may pick     *)
(* holds a NaN in the network, the RND module or Adam, nor -- though no    *)
(* guard looks at it -- in the snapshot an entropy melt would later roll   *)
(* the network back to.  A snapshot of a diverged network is taken, but    *)
(* nothing heals the network under it before a relaunch forgets it; the    *)
(* ladder and consolidation modes (Ladder) do.  The adversary is saved     *)
(* unguarded: see ResumePointIsWhole.                                      *)
ResumePointIsHealthy ==
    \A f \in disk \cup aside \cup corrupt :
        f.sick \cap Guarded = {} /\ ~f.best.sick

(* "Rolls back to the latest on-disk checkpoint (at most one save interval *)
(* of progress)" (train_game.py, the supervisor): a relaunch continues at  *)
(* most one interval behind the crash, and one more for each save that     *)
(* failed or was refused since the last that did not.                      *)
RelaunchLosesOneInterval ==
    [][sup = "scanning" /\ sup' = "training" /\ attempt > 0
          => reached <= offset' + SaveEvery * (skipped + 1)]_vars

(* A checkpoint that opens is never destroyed: resumed runs do not write   *)
(* over what was saved before the resume point, fresh runs move it aside,  *)
(* and only torn files are displaced (trainer.py, the iter_offset comment).*)
NoCheckpointDestroyed ==
    [][\A f \in disk \cup aside :
          ~f.torn => \/ f \in disk' \cup aside'
                     \/ f \in disk /\ [f EXCEPT !.torn = TRUE] \in disk']_vars

(* Once a --no-resume launch has begun to train, no crash of it and no     *)
(* relaunch brings back the weights of an earlier run: that is what moving *)
(* the old checkpoints aside is for (checkpoint_manager.py, resume).       *)
FreshStaysFresh ==
    noResume /\ begun /\ sup \in {"training", "saving"} => net.run = launch

(* Rotation never removes the youngest checkpoint of the running attempt,  *)
(* whatever older files with higher numbers share the directory            *)
(* (checkpointing.py, rotate_old_checkpoints).                             *)
RotationKeepsNewest ==
    sup = "training" /\ earned
        => \E f \in disk : f.run = net.run /\ \A g \in disk : g.at <= f.at

(* Durability off is bounded: the failure guard of every attempt and the   *)
(* restart budget together limit how many saves in a row can fail.         *)
SaveFailuresBounded ==
    missed <= FailureLimit * (MaxRestarts + 1)

(* "Repeated immediate failures abort loudly rather than looping": every   *)
(* launch ends, however often it crashes.                                  *)
LaunchEnds == Running ~> ~Running

----------------------------------------------------------------------------
(* "--no-resume: Force a fresh run (ignores existing checkpoints)"         *)
(* (train_game.py:624).                                                    *)
FreshMeansFresh ==
    noResume /\ sup \in {"training", "saving"} => net.run = launch

(* "Consecutive failed periodic saves before the run is halted loudly"     *)
(* (checkpoint_manager.py:36) and "the consecutive-save-failure guard will *)
(* halt the run" (train_game.py:628).                                      *)
HaltsAfterLimit ==
    missed <= FailureLimit

(* "Any trainer exception (numeric collapse, ...) is logged and the run is *)
(* relaunched with auto-resume, which rolls back" (train_game.py): no      *)
(* attempt trains on with the non-finite agent of the one before it.       *)
RelaunchHeals ==
    [][sup = "scanning" /\ sup' = "training" => net'.sick \cap Guarded = {}]_vars

(* "Or the crash supervisor would relaunch straight back into NaN"         *)
(* (checkpoint_manager.py:247): a resume point holds no NaN at all, not in *)
(* the adversary either, whose net and optimizer are part of the payload   *)
(* (checkpoint_manager.py:303-313) and loaded as they are.                 *)
ResumePointIsWhole ==
    \A f \in disk \cup aside \cup corrupt : f.sick = {} /\ ~f.best.sick
=============================================================================

--------------------------- MODULE SmbCurriculum ---------------------------
(***************************************************************************)
(* The save-state curriculum of a Super Mario Bros run: the mid-rollout    *)
(* capture and the gated advance of Trainer._run_vanilla_ppo, the          *)
(* stage_NN.state / stage_NN.meta.json files it writes, and the load of    *)
(* these files by curriculum.py when the trainer (re)starts.               *)
(*                                                                         *)
(* The stage lives in the files, written the moment it is reached; the     *)
(* rolling window behind the advance gate lives in the periodic            *)
(* checkpoint.  A crash brings the two back from different iterations.     *)
(* A level is its packed world/area byte; stage 0 is the cold boot at 0.   *)
(***************************************************************************)
EXTENDS Integers, Sequences, Functions

CONSTANTS
    MaxLevel,   \* levels are 1 .. MaxLevel
    Window,     \* SMB_ADVANCE_WINDOW (5)
    Grain,      \* a clear fraction is one of 0/Grain .. Grain/Grain
    SaveEvery,  \* iterations between two checkpoints (10)
    MaxIters,   \* bound: iterations of one attempt
    MaxRuns,    \* bound: launches that begin a run
    MaxResumes, \* bound: relaunches and launches that continue one run
    Faults      \* "crash", "load" of a stage fails, "ckpt" save fails

ASSUME LevelAssumption == MaxLevel \in Nat \ {0}
ASSUME WindowAssumption == Window \in Nat \ {0}
ASSUME GrainAssumption == Grain \in Nat \ {0}
ASSUME SaveAssumption == SaveEvery \in Nat \ {0}
ASSUME BoundsAssumption ==
    MaxIters \in Nat /\ MaxRuns \in Nat /\ MaxResumes \in Nat
ASSUME FaultsAssumption == Faults \subseteq {"crash", "load", "ckpt"}

VARIABLES
    states,     \* stage_NN.state: the level it was captured on, and by which run
    metas,      \* stage_NN.meta.json: the anchor, 0 without a file, or Torn
    ckpt,       \* smb_pastfrac_history in the newest checkpoint
    pc,         \* where the trainer is
    fresh,      \* will the load see fresh_start?
    chain,      \* the loaded stages: anchor, and the level of the state
    window,     \* smb_pastfrac_history, each entry with its stage
    pending,    \* smb_pending_capture: a level, 0 when there is none
    it,         \* the loop counter
    run,        \* history: runs begun so far
    resumes,    \* history: how often this run was continued
    best,       \* history: highest stage this run has reached
    unearned    \* history: advances this run made on another stage's window

disk == <<states, metas, ckpt>>
trainer == <<pc, fresh, chain, window, pending, it>>
history == <<run, resumes, best, unearned>>
vars == <<disk, trainer, history>>

Stages == 1 .. MaxLevel
Levels == 1 .. MaxLevel
NoState == [level |-> 0, run |-> 0]
Torn == -1
SavedState == [level : Levels, run : Nat \ {0}]
LoadedStage == [anchor : Levels, level : Levels, run : Nat]
Entry == [past : 0 .. Grain, stage : Nat]

TypeOK ==
    /\ states \in [Stages -> SavedState \cup {NoState}]
    /\ metas \in [Stages -> Torn .. MaxLevel]
    /\ ckpt \in Seq(Entry)
    /\ pc \in {"down", "load", "rollout", "state", "meta", "end"}
    /\ fresh \in BOOLEAN
    /\ chain \in Seq(LoadedStage)
    /\ window \in Seq(Entry) /\ Len(window) <= Window
    /\ pending \in 0 .. MaxLevel
    /\ it \in Nat
    /\ run \in Nat /\ resumes \in Nat /\ best \in Nat /\ unearned \in Nat

Stage == Len(chain)
Anchor == IF Stage = 0 THEN 0 ELSE chain[Stage].anchor

(* Mutant: nothing is popped. *)
Push_NoPop(w, e) == Append(w, e)

(* append, then pop(0) beyond the window. *)
Push(w, e) == IF Len(w) < Window THEN Append(w, e) ELSE Append(Tail(w), e)

(* The rolling mean of a full window is at least one half. *)
Majority(w) ==
    /\ Len(w) = Window
    /\ 2 * SumFunction([i \in DOMAIN w |-> w[i].past]) >= Window * Grain

Init ==
    /\ states = [n \in Stages |-> NoState]
    /\ metas = [n \in Stages |-> 0]
    /\ ckpt = <<>>
    /\ pc = "down"
    /\ fresh = FALSE
    /\ chain = <<>> /\ window = <<>>
    /\ pending = 0 /\ it = 0
    /\ run = 0 /\ resumes = 0 /\ best = 0 /\ unearned = 0

----------------------------------------------------------------------------
(* What a process that is gone, or a trainer that is torn down, forgets.   *)
Forget ==
    /\ chain' = <<>> /\ window' = <<>>
    /\ pending' = 0 /\ it' = 0

(* A launch with --no-resume, or the first one, begins a run. *)
Begin ==
    /\ run < MaxRuns
    /\ run' = run + 1
    /\ resumes' = 0 /\ best' = 0 /\ unearned' = 0
    /\ pc' = "load"
    /\ fresh' = TRUE
    /\ Forget
    /\ UNCHANGED disk

(* A crash that the supervisor follows up, or a launch that resumes: only  *)
(* attempt 0 of a launch passes fresh_start.                               *)
Resume ==
    /\ run > 0
    /\ pc \notin {"down", "load"} => "crash" \in Faults
    /\ resumes < MaxResumes
    /\ resumes' = resumes + 1
    /\ pc' = "load"
    /\ fresh' = FALSE
    /\ Forget
    /\ UNCHANGED <<disk, run, best, unearned>>

(* Curriculum.load_from_disk on a fresh start: the files stay, unread; the *)
(* checkpoints of the run before have been moved aside.                    *)
LoadFresh ==
    /\ pc = "load"
    /\ fresh
    /\ ckpt' = <<>>
    /\ pc' = "rollout"
    /\ UNCHANGED <<states, metas, fresh, chain, window, pending, it, history>>

(* Otherwise the stages are loaded one by one.  One with a sidecar: *)
LoadStage ==
    /\ pc = "load" /\ ~fresh
    /\ Stage < MaxLevel
    /\ states[Stage + 1] # NoState /\ metas[Stage + 1] > 0
    /\ chain' = Append(chain, [level |-> states[Stage + 1].level,
                              run |-> states[Stage + 1].run,
                              anchor |-> metas[Stage + 1]])
    /\ UNCHANGED <<disk, pc, fresh, window, pending, it, history>>

LacksSidecar ==
    /\ pc = "load" /\ ~fresh
    /\ Stage < MaxLevel
    /\ states[Stage + 1] # NoState /\ metas[Stage + 1] = 0

(* Mutant: without a sidecar the anchor is taken to be 1, the first level. *)
Backfill_DefaultAnchor ==
    /\ LacksSidecar
    /\ metas' = [metas EXCEPT ![Stage + 1] = 1]
    /\ UNCHANGED <<states, ckpt, trainer, history>>

(* An anchor without a sidecar is read from the state and written back ... *)
Backfill ==
    /\ LacksSidecar
    /\ metas' = [metas EXCEPT ![Stage + 1] = states[Stage + 1].level]
    /\ UNCHANGED <<states, ckpt, trainer, history>>

(* ... in place: a death or an error during this write leaves a torn file. *)
TearSidecar ==
    /\ LacksSidecar
    /\ metas' = [metas EXCEPT ![Stage + 1] = Torn]
    /\ \/ "crash" \in Faults /\ pc' = "down" /\ Forget
       \/ "load" \in Faults /\ UNCHANGED <<pc, chain, window, pending, it>>
    /\ UNCHANGED <<states, ckpt, fresh, history>>

(* The load stops at the first stage that is missing, whose sidecar is     *)
(* torn, or that fails to load.                                            *)
StopLoading ==
    /\ pc = "load" /\ ~fresh
    /\ Stage < MaxLevel => \/ states[Stage + 1] = NoState
                           \/ metas[Stage + 1] = Torn
                           \/ "load" \in Faults
    /\ window' = ckpt
    /\ pc' = "rollout"
    /\ UNCHANGED <<disk, fresh, chain, pending, it, history>>

----------------------------------------------------------------------------
(* The first living env beyond the current anchor is captured. *)
Capture ==
    /\ pc = "rollout"
    /\ pending = 0
    /\ \E level \in Levels : level > Anchor /\ pending' = level
    /\ UNCHANGED <<disk, pc, fresh, chain, window, it, history>>

(* The end of a rollout: the fraction of the current stage's envs that got *)
(* past the anchor joins the window, and the gate decides.                 *)
Measure ==
    /\ pc = "rollout"
    /\ it < MaxIters
    /\ \E past \in 0 .. Grain :
          window' = Push(window, [past |-> past, stage |-> Stage])
    /\ pc' = IF pending # 0 /\ Majority(window') THEN "state" ELSE "end"
    /\ UNCHANGED <<disk, fresh, chain, pending, it, history>>

(* Mutant: the save state is kept in memory, for the next checkpoint. *)
WriteState_MemoryOnly ==
    /\ pc = "state"
    /\ Stage < MaxLevel
    /\ pc' = "meta"
    /\ UNCHANGED <<disk, fresh, chain, window, pending, it, history>>

(* The advance: stage_NN.state is replaced (the loader knows stages up to  *)
(* 31, here the bound MaxLevel) ...                                        *)
WriteState ==
    /\ pc = "state"
    /\ Stage < MaxLevel
    /\ states' = [states EXCEPT ![Stage + 1] = [level |-> pending, run |-> run]]
    /\ pc' = "meta"
    /\ UNCHANGED <<metas, ckpt, fresh, chain, window, pending, it, history>>

Record ==
    /\ best' = IF Stage + 1 > best THEN Stage + 1 ELSE best
    /\ unearned' = IF \A i \in DOMAIN window : window[i].stage = Stage
                   THEN unearned ELSE unearned + 1
    /\ UNCHANGED <<run, resumes>>

(* Mutant: the window outlives the advance. *)
WriteMeta_KeepsWindow ==
    /\ pc = "meta"
    /\ metas' = [metas EXCEPT ![Stage + 1] = pending]
    /\ chain' = Append(chain, [anchor |-> pending, level |-> pending, run |-> run])
    /\ pending' = 0
    /\ pc' = "end"
    /\ Record
    /\ UNCHANGED <<states, ckpt, fresh, window, it>>

(* ... then stage_NN.meta.json, and the stage is entered in memory. *)
WriteMeta ==
    /\ pc = "meta"
    /\ metas' = [metas EXCEPT ![Stage + 1] = pending]
    /\ chain' = Append(chain, [anchor |-> pending, level |-> pending, run |-> run])
    /\ window' = <<>> /\ pending' = 0
    /\ pc' = "end"
    /\ Record
    /\ UNCHANGED <<states, ckpt, fresh, it>>

(* save_iter, every SaveEvery iterations, with the window as it is now. *)
EndIteration ==
    /\ pc = "end"
    /\ it' = it + 1
    /\ IF it > 0 /\ it % SaveEvery = 0
       THEN ckpt' = window \/ ("ckpt" \in Faults /\ UNCHANGED ckpt)
       ELSE UNCHANGED ckpt
    /\ pc' = "rollout"
    /\ UNCHANGED <<states, metas, fresh, chain, window, pending, history>>

(* The iterations are used up, or the operator stops the run. *)
Stop ==
    /\ pc = "rollout"
    /\ pc' = "down"
    /\ Forget
    /\ UNCHANGED <<disk, fresh, history>>

Next ==
    \/ Begin \/ Resume
    \/ LoadFresh \/ LoadStage \/ Backfill \/ TearSidecar \/ StopLoading
    \/ Capture \/ Measure \/ WriteState \/ WriteMeta \/ EndIteration \/ Stop

Spec == Init /\ [][Next]_vars

----------------------------------------------------------------------------
(* A stage and its sidecar are on disk before it is entered, so no crash   *)
(* costs the run the frontier it has reached: while it trains, its stage   *)
(* is the highest it ever advanced to, although a sidecar torn by the load *)
(* cuts off the stage it belongs to at every later load (trainer.py, the   *)
(* advance; curriculum.py, load_from_disk).                                *)
FrontierSurvivesCrash ==
    pc \in {"rollout", "state", "meta", "end"} => Stage >= best

(* Every anchor in memory is the level its save state was captured on,     *)
(* whether it came from the capture, the sidecar or the state itself: the  *)
(* capture gate compares against the level the envs really start on.       *)
AnchorMatchesState ==
    \A n \in DOMAIN chain : chain[n].anchor = chain[n].level

(* Each stage starts on a later level than the one before it, across all   *)
(* crashes and reloads of one run.                                         *)
StagesClimb ==
    \A m, n \in DOMAIN chain : m < n => chain[m].level < chain[n].level

(* The chain the trainer works with: true anchors, climbing stages.        *)
ChainIsTrue == AnchorMatchesState /\ StagesClimb

(* The rolling window is cleared by an advance, so that only a resume can  *)
(* bring back one of another stage: there are at most as many advances on  *)
(* such a window as there were resumes.                                    *)
UnearnedNeedsResume ==
    unearned <= resumes

----------------------------------------------------------------------------
(* "smb_pastfrac_history = []  # new stage must re-earn advance"           *)
(* (trainer.py:8405): an advance rests on a window measured on the stage   *)
(* it leaves.                                                              *)
NewStageReearns ==
    [][pc = "meta" /\ pc' = "end"
          => \A i \in DOMAIN window : window[i].stage = Stage]_vars

(* "A fresh run trains from 1-1 rather than silently inheriting a prior    *)
(* run's mid-game curriculum" (curriculum.py:373): a run only ever trains  *)
(* on stages it captured itself.                                           *)
FreshTrainsFromStart ==
    \A n \in DOMAIN chain : chain[n].run = run
=============================================================================

# A TLA+ model of the neural-entertainment-system training stack

The repository trains agents that play NES games: a Rust emulator core
(`nes_core/`), a Python training stack (`src/`, PPO and a genetic algorithm),
and command-line drivers (`scripts/`). What keeps a training run of several days
correct is not the arithmetic but its *bookkeeping*: who may write into a run
directory, what is on disk when the process dies, what a relaunch picks up, which
of two files is believed when they disagree, which result belongs to which step
of which episode, and which evidence a decision is made on. That is what this
project specifies, model-checks with TLC and proves with TLAPS.

Contents: 1 inventory, 2 modules and the code they model, 3 the runs and their
bounds, 4 fairness, 5 the proofs, 6 where the code and its words disagree,
7 abstractions and what is not modelled, 8 what could follow, 9 how to run it.

## 1. Inventory

| Component | State it keeps | Operations | Interacts with |
|---|---|---|---|
| Run lock (`src/utils/run_lock.py`) | one lock file: PID, start-time fingerprint | `acquire`, `read_lock`, `lock_pid_is_live`, `release`, the CLI wrapper `main` | every launcher (`train_game.py`, `go_explore_solve.py`, the campaign scripts), the process table |
| Checkpoint manager (`src/training/checkpoint_manager.py`) | `vanilla_ppo_iter_*.pt`, `prevrun_*`, `*.corrupt`, the failure counter | `resume`, `save_iter` | trainer loop, rotation in `checkpointing.py`, supervisor |
| Supervisor (`scripts/train_game.py`, `main`) | attempt number, the Trainer object | launch, relaunch, abort | trainer, run lock |
| Winner retention (`src/training/checkpointing.py`) | `winners/best.pt`, `winners/best.json` | `save_winner`, `load_winner_meta` | the trainer's save points, `eval_game.py` |
| SMB save-state curriculum (`trainer.py`, `curriculum.py`) | `stage_NN.state`, `stage_NN.meta.json`, the chain of stages, the rolling window | capture, measure, advance, `load_from_disk` | the emulator's save states, the checkpoint (which carries the window) |
| Backward curriculum (`backward_curriculum.py`, `_run_vanilla_ppo`) | the cursor tau and its window of outcomes; per environment the draw it plays and the flag it raised | draw, restart, score, advance, save and restore | the emulator's save states, the rollout buffer, the checkpoint |
| Emulator worker pool (`nes_core/src/pool.rs`) | a machine per worker, the parallel-section flag, the done mask, dead-worker flags | `reset_all`, `step_all`, sequential reads | every thread that holds the pool: trainer, executor |
| Genetic-algorithm rollout (`Trainer._evaluate_batch`) | observation stack, done flags, trajectories, the step in flight | reset, forward, submit, await, process, drain | the worker pool, a one-thread executor per batch, the GUI's Stop |
| Forge block runner (`src/forge/block.py`) | poll state, the positive control, `solutions/`, `quarantine/`, `block_receipt.json` | launch, poll, abort, quarantine, bank | a solver process (`scripts/go_explore_solve.py`) through its lock, its progress rows and its files |
| Genetic algorithm's generations (`genetic_algorithm.py`, `Trainer.run`) | population, `gen_*.pt` | selection, crossover, archive | the rollout, winner retention |
| Sub-stage ladder, consolidation (`smb_substage_ladder.py`, `oneshot_curriculum.py`) | rungs, one-shot stages | promote, demote | curriculum |
| Multi-stage PLR curriculum (`plr.py`, `CurriculumManager`) | success rates, stage index | record, sample | GA and PPO loops |
| Go-Explore archive (`go_explore.py`, `exploration_controller.py`) | the cell archive | select, insert, persist | emulator save states |
| Forge loop (`src/forge/`) | append-only ledger, registry | propose, decide, replay | block runner |
| NES core (`cpu.rs`, `ppu.rs`, `apu.rs`, `system_bus.rs`, `oam_dma.rs`), mappers | the machine | clock, read, write | worker pool |
| Audio (`audio.rs`, `audio_sink.rs`, the trainer's mixer) | sample ring | push, drain | APU, drainer thread |
| Save-state serialization (`serialize/mod.rs`) | a byte format | save, load | pool, curriculum |
| GUI and watchdog (`src/gui/`) | run thread, memory samples | start, stop, watch | trainer |
| PPO update, models, metrics sink, manifest, disk floor, configuration, scripts | tensors, logs, declarative data | | |

Hard behaviours, with the properties that make each component correct:

* **Run lock.** Unsynchronised processes race through a file system; a holder
  may die anywhere, and its PID may be reissued to a stranger before the next
  launch looks. Correct means: the path names the holder's own file (so there is
  one holder at most), a guarded command runs under that file, a dead holder's
  lock is reclaimed unless its unlink fails or a start time is unknown, and a
  verdict is always reached.
* **Checkpoints and supervisor.** A save may fail, be refused, or be cut off by
  a crash or a power loss; the loop counter restarts at zero on every resume; a
  fresh start moves the old files one by one; and the relaunch reuses the same
  Trainer object. Correct means: nothing that opens is destroyed, no
  resume point holds a NaN in what the guard inspects nor in the snapshot a later
  rollback would restore, a relaunch loses a bounded amount, a fresh run stays fresh,
  and every launch ends.
* **Winner retention.** Two files, two renames, and a trainer that rolls back
  and offers the same save points again. Correct means: the winner never gets
  worse, the sidecar never claims more than the file holds, ties move forward
  only.
* **SMB curriculum.** The stage is durable at once, the evidence for leaving it
  only at the next checkpoint. Correct means: no crash costs the frontier,
  anchors agree with save states, stages climb, and a stage is left on evidence
  measured on it.
* **Pool and rollout.** Nothing but one flag keeps two dispatches off the same
  machines; a machine may panic in the middle of a step; the asynchronous rollout
  keeps a step in flight over a turn of the loop, and has to get rid of it at the
  end of the batch, also when the user pressed Stop. Correct means: no two dispatches own the
  machines, none panics in a legal sequence of calls, each transition records the step that
  ran (none lost, none twice), no action of one batch runs in the next, an
  episode that is over stands still, and every batch ends.
* **Backward curriculum.** Attempts under an old cursor outlive the cursor's
  move; a flag raised by one attempt is read when another has been restarted; a
  restore may fail half-way; a relaunch resumes on another tape. Correct means:
  a rung is judged by attempts restarted under it and by what they did, a
  resume loses no progress, and the observation shows the episode that is played.
* **Forge block.** Two processes share files without synchronisation, and the runner
  reads them one after the other while the solver goes on; killing may fail; a
  crash may leave anything behind for the next block in the directory. Correct
  means: a block banks its own work only, an aborted block's work never, an
  injected reset is always caught and only it is credited, a healthy solver never
  looks reset, and every block ends.

`PROJECT.json` lists every hazard with its line and the properties that watch it.

## 2. Modules

| Module | Models | Size of the idea |
|---|---|---|
| `LockService` | what callers rely on: an exclusive resource, granted while nobody has it | the abstract specification `RunLock` implements |
| `RunLock` | `run_lock.py`: every system call of `acquire()` is an action | one file, any number of processes |
| `RunLockCli` | `main()` of `run_lock.py` on top of `RunLock` | adds the guarded command, which outlives a killed wrapper |
| `Checkpoints` | `checkpoint_manager.py`, `rotate_old_checkpoints`, the supervisor loop, the parts of the trainer's loop that feed them | one run directory, several launches |
| `WinnerRetention` | `save_winner` and its caller | two files |
| `SmbCurriculum` | capture, gate and advance in `trainer.py`, `load_from_disk` in `curriculum.py` | stage files against a lagging checkpoint |
| `WorkerPool` | the dispatches of `pool.rs`, a thread at a time through each | machines behind one flag |
| `EpisodeBatch` | what collecting a batch of episodes promises | the abstract specification `StepPipeline` implements |
| `StepPipeline` | `Trainer._evaluate_batch` composed with `WorkerPool` | one step in flight |
| `BackwardCurriculum` | `TauScheduler`, `RungBudget`, the rollout and its boundary in `_run_vanilla_ppo` | a cursor and attempts that outlive it |
| `ForgeBlock` | `run_block` and the solver it watches | two processes and a directory |
| `*Proof` | the theorems about the module of that name | |
| `MC_*` | the instance of a module for TLC; each `.cfg` is one question | |

**RunLock.** `lock` is the inode the path names (with the process that created
it, so that a writer whose file was unlinked writes into nothing); `pc[p]` is the
line of `acquire()` the process with PID `p` is at; `life[p]` stands for the
`lstart` that `ps` prints, the identity of a process beyond its PID. `Launch`
fingerprints the launcher and enters; `CreateNew`/`CreateExists`/`CreateFails`
are the outcomes of `os.open(O_CREAT|O_EXCL)`; `Write`/`WriteFails` the body;
`Read` is `read_lock`; `Probe` and `Compare` are the two halves of
`lock_pid_is_live`, between which a process may exit; `GiveUp` and `Reclaim` the
two rounds of the retry loop. `Die` is a kill or the exit after a refusal
(nothing registered yet), `Release` the clean exit, `Recycle` the reissue of a
PID to an unrelated process. The constant `Overlap` says whether two launches may
be inside `acquire()` together: the code makes no such promise, the properties
about a single holder need it (section 6), and everything else about the
environment is unrestricted.

`Service` instantiates `LockService` with the processes (PID and start time) that
hold the lock, so `ImplementsService` also says that no step passes the lock from
one process to another, two lives of one PID included.

**RunLockCli.** A command is identified by the wrapper that started it. The wrapper
can be killed while the command lives on, so `CommandExits` does not need it.

**Checkpoints.** `sup` is the state of the launcher process (`starting` is the
construction of pool and network, `relocating` and `scanning` are the two
branches of `resume`, `saving` lies between the temporary file and the rename).
A checkpoint is its number, the run its weights descend from, its non-finite
parts (`Parts`), the anti-collapse snapshot it carries, whether it is torn or
synced, and its modification time. `net` is the agent in memory, which deliberately
survives `Restart`, the adversary and the snapshot excepted: they are locals of
the loop, and `Build` drops them. `Guarded` are the parts the poison guard looks
at; the adversary and the snapshot are saved and loaded (`Loaded`) unseen.
`TakeSnapshot` and `Rollback` are the anti-collapse guard, whose snapshot may be of a
diverged network; with `Ladder` set, `Rollback` may also restore one of the copies
the ladder and consolidation modes keep. One action per file
for relocation and for the scan, so a crash falls between any two. Variables
marked *history* record what the properties compare with and are read by no
guard.

**WinnerRetention.** `pt` and `json` are the two files, `base` the newest
periodic checkpoint, to which `Crash` rolls the trainer back. `PrevMetric` and
`Beats` are the reconciliation and the gate of `save_winner`.

**SmbCurriculum.** `states` and `metas` are the stage files by number, `ckpt` the
window in the newest checkpoint, `chain` the stages in memory. The gate counts
only captures beyond `Anchor`; `Measure` pushes one clear fraction and decides;
`WriteState` and `WriteMeta` are the two writes of an advance. The load goes stage by
stage: `LoadStage`, where the sidecar is missing `Backfill` before it, and
`StopLoading` at the first stage it cannot load. The backfill writes in place: a death
or an error in the middle of it (`TearSidecar`) leaves a `Torn` sidecar, at which every
later load stops until an advance replaces it.

**WorkerPool.** `section` is `in_parallel_section`; `call[t]` is the call the thread
`t` is in and the line it is at. `step_all` and `reset_all` swap the flag (`Enter`)
and panic when it was set; then one task per machine runs in any order (`ResetTask`, `StepTask`), a
task that panics leaves a dead machine, and the caller closes the section (`Join`). A
step asserts afterwards that the live machines kept pace (`Pace`). A sequential method
loads the flag once (`PeekCheck`) and reads the machines later (`PeekRead`), which
is the gap the properties are about. A machine is what a caller can tell of
it: how often it was reset, how many steps it ran since, the last action, the step
its peak was taken at.

**StepPipeline.** Thread 0 is the trainer, thread *b* the executor of batch *b*: the
old executor of a batch whose drain timed out lives on beside the next one's.
`flight[b]` is its queue of futures. `TurnSync` and `TurnAsync` are a turn's forward pass and
dispatch; `PipeTake` and `PipeDone` are the executor's; `StepReturns` and `Await` hand the
results to `Process(w)`, one genome at a time; `PeekCall` reads the SMB peaks in between;
`LeaveLoop`, `Drain` and `Crash` are the ways out; `Halt` is the GUI's Stop. An action carries
where it came from (batch, turn, the observation it was computed from), so that a
transition can be compared with the step that ran. `buffer` is
`batch_np_buffer`, the array the observations of a turn are views of.

**BackwardCurriculum.** `n`, `gate`, `tau`, `window` are the `TauScheduler`; `src`,
`envTau`, `budget`, `clear` are the trainer's per-environment lists `_bwd_env_*` and
`_bwd_clear`. A turn handles the environments in order: `Skip` one that is frozen, `Live` lets
an episode go on, `Ends` scores it and restarts it from a fresh draw, or freezes it when
the load fails. After `MaxSteps` turns `ScoreRunning` scores what is still going,
`CloseScores` lets the cursor move, `DrawEntry`, `DrawEntrance` and `DrawFails` redraw each
environment, and `BeginRollout` starts the next rollout, with or without a checkpoint in
between. `Relaunch` is a crash and the resume from the newest checkpoint, on any of
the tapes. `foreign[e]` counts the frames of the observation that show another episode,
`torn[e]` that a failed load left the machine half overwritten.

**ForgeBlock.** The solver boots, creates its lock file and writes it (two
actions), reports rows, finds solutions, finishes and unlocks; it can die at any point
(`Dies`), hang, or suffer what the runner looks for (`Resets`, `RootChanges`,
`LockIsTruncated`). The runner polls by `ReadRow`, `ReadLock`, `LockExists`, `ReadRoot`, one file
each, and only then judges (`Verdict`, `Trips`); otherwise it goes on or stops on steps, time
or the end of the solver. `Injects` and `ReadsBack` are the positive control.
`Terminates`, `GraceEnds`, `Kills`, `ReleasesLock`, `Quarantines` are `_hard_abort` and what follows it,
`Banks` the other end; `RunnerDies` leaves everything where it is for the next `Launch`
in the same directory. `trip` is the condition that tripped, `outlived` the solvers that
SIGKILL did not reach or whose runner died.

Operators ending in `_Something` after an action's name (`Push_NoPop`, ...) are
mutants: plausible bugs against which each property is tested. They are not part
of any specification.

## 3. Runs

Passing runs:

| Run | Bounds | What it shows |
|---|---|---|
| `lock` | 2 PIDs, 2 processes per PID, all faults, launches do not overlap in `acquire()` | ownership of the file, cover of the command, a launch is refused only for a cause, `acquire()` decides, the lock implements `LockService` |
| `checkpoints_durable` | `SaveEvery` 2, 4 iterations per attempt, 1 restart, 2 launches; write, fsync, power and divergence faults | durability, freshness, health, bounded loss |
| `checkpoints_ends` | rotation on with 1 kept file, a save in each of 4 iterations but the first, `Ladder`, 2 launches; write, rename and load faults | rotation, bounded failure, termination |
| `winner_kill` | 4 rates, 7 save points; all faults | monotonicity, backing and tie-breaking |
| `smb_frontier` | 3 levels, a window of 2, 3 resumes, checkpoints every 2 of 5 iterations; crashes and failed checkpoints | frontier, anchors, climbing, evidence |
| `pipeline` | 2 machines, 4 steps, 2 batches; synchronous, synchronous with peaks, asynchronous; panics in a step or a reset, Stop | machines serve the current batch, transitions are true, batches end, the pipeline implements `EpisodeBatch` |
| `pipeline_drain` | 2 machines, 2 steps, 2 batches, asynchronous with and without peaks; a drain that gives up, panics in a step | no two dispatches at once, no panic without misuse |
| `rollout` | 2 environments, 2 turns, 2 frames, tapes of 1 and 3 entries, a gate of 2 attempts, failing loads, 1 relaunch | evidence, progress over a resume, the observation, evidence keeps arriving |
| `forge` | 2 blocks, 1 cell, 1 solution, 2 progress rows, every block with a positive control, one fault of seven kinds | banking, quarantine, the control, no false trips, blocks end |

Why the bounds are enough. *lock*: a stale verdict concerns one past and one
present process, so two PIDs with two lives each give a holder, its crash, its
PID's reuse and a challenger; the proof (section 5) removes the bound.
*checkpoints*: two launches give an old cohort and a new one, one restart gives
a first and a last attempt, and four iterations end after the save point at 2, so a
resumed attempt writes past the number it came from, and the relaunch after it has two
to choose from; several save points in one attempt, missed in a row, are in
`checkpoints_ends`. With rotation, one kept file is the tightest case. *winner*: a rate that saturates, one below to
roll back to and one to improve on; seven save points let a checkpoint lag
behind by several. *smb*: three levels give a stage after a stage, and a window
of two is the smallest that can be full with entries of two stages. *pipeline*:
one machine that ends, dies or is reset beside one that goes on; a step in flight
spans two turns, so four steps hold a first turn, two in the steady state and a last;
the second batch is the one a straggler would disturb. *rollout*: one environment
that moves the cursor beside one whose attempt outlives it; two rollouts of two turns fit
before and after each advance of a tape of three; a tape of one entry has no cursor to move. *forge*:
the second block meets what the first one left; two rows are the least of which one can be smaller
than the other, one of them before the injection; blocks without a control
differ by leaving out two actions. The proofs (section 5) remove the bounds for
every safety property.

`MaxLives`, `MaxLaunches`, `Iters`, `MaxIter`, `MaxIters`, `MaxRuns`, `MaxResumes`, `MaxBatches`,
`MaxCrashes`, `MaxBlocks`, `MaxCells`, `MaxSolutions`, `MaxFaults` are
pure bounds; `FailureLimit`, `MaxRestarts`, `SaveEvery`, `Keep`, `Window`, `MaxSteps`, `Depth`, `Gates`,
`StepBound` are the code's own numbers, made small; `Ladder` is one of its modes. Deadlock is checked in
`rollout`, whose trainer never stops; in the others a program may stop: launches, iterations,
batches, blocks and lives run out.

Runs that are expected to find a violation state a sentence of the repository's
own documentation; each is a finding in `PROJECT.json` (section 6): `lock_race`,
`pipeline_obs`, `rollout_reseed`. Further configurations of the same kind are kept beside
them, one for each of the disagreements 4 to 16 of section 6.

## 4. Fairness

Liveness is claimed of a program's own steps only.

* `AcquireDecides` assumes weak fairness of each process's `Step`: `acquire()`
  sleeps on nothing and waits for nobody, so a scheduled process gets on. No
  fairness of launches, deaths or reissues is assumed.
* `LaunchEnds` assumes weak fairness of `Progress`, the steps of the
  single-threaded launcher. Crashes, power losses and the operator are not fair;
  that crashes cannot go on for ever is what is checked, since the restart budget
  bounds them, as is a save that fails for ever.
* `BatchEnds` assumes weak fairness of the trainer's thread, of each executor
  thread and of each thread's steps inside the pool: threads of one process, none of
  which is ever suspended. Panics and Stop are not fair.
* `EvidenceArrives` assumes weak fairness of the trainer and strong fairness of drawing
  an entry of the window: each draw is random with a fixed positive weight, so
  one that is possible again and again happens. Without it every environment could draw the
  entrance for ever, which the code makes improbable, not impossible.
* `BlockEnds` assumes weak fairness of the runner and strong fairness of `TimeIsUp`: the
  clock passes `max_secs`, and the runner looks at it in every round. Nothing is
  assumed of the solver, which may hang for ever.

## 5. What is proved

All proofs are for every value of the constants under the named assumptions
(integers are naturals, limits are positive, faults come from the named set).

**RunLockProof.** `TypeCorrect`; and, from `Overlap = FALSE`, `SerialExclusion`
(`MutualExclusion` and `HolderOwnsFile`), `ImplementsLockService` and
`StaleLocksAreReclaimed`. Exclusion is not inductive: the danger lies in what a
challenger has *already read*. The inductive invariant `IInv` adds: one process
in `acquire()` at a time (`OneAcquirer`); between create and write the path names
the writer's own empty file (`WriterOwnsFile`); a recorded fingerprint is its
writer's or unknown (`FingerprintIsOwn`); what a challenger has read identifies
any present holder (`ReadIdentifiesHolder`); only known fingerprints are compared
(`ComparesKnown`); and a stale verdict means that nobody holds
(`StaleMeansFree`), which is why the blind unlink is harmless. `ImplementsLockService`
is the refinement: the initial state maps to the initial state, `Write` to a grant,
the end of a holder to a yield, and every other step to a stutter (`ServiceStep`).
`StaleLocksAreReclaimed` (`RefusedForCause`) needs a second invariant, `StaleInv`: a lock file and what a
challenger read of it are never younger than the PID's present process
(`LockIsDated`, `ReadIsDated`), a complete file whose creator lives is a holder's
(`WrittenByHolder`), and whoever holds while a challenger runs, or is identified by
what it read, held when the challenger started (`HeldIsExcused`, `LiveIsExcused`); and an
acquirer in its second round has unlinked the stale file itself, unless it has a cause to be
refused (`SecondRoundIsFree`), so that giving up needs a failed unlink. Two launches
inside `acquire()` break exactly `WriterOwnsFile`, as run `lock_race` shows.

**RunLockCliProof.** A step of the wrapper is a step of `RunLock` or leaves it alone
(`CliStepIsLockStep`), so what is proved of the lock carries over: `CliTypeCorrect`, and from
`Overlap = FALSE` `CommandsAreCovered`, by the invariant that a command was started by a
process that has existed (`StartedInThePast`) and that its wrapper, while it lives,
holds (`RunnerHolds`).

**CheckpointsProof.** `TypeCorrect`, whose invariant includes the restart budget
and the counter's range (`WithinLimits`); `CheckpointsAreHealthy`, for `Ladder = FALSE`
(`Sound`: the guard before the temporary file, and no divergence while saving;
`Healthy`: a snapshot of a diverged network lies over a network that is still
diverged, which the guard refuses, until a rollback brings the divergence back or a relaunch forgets
the snapshot); `FailuresAreBounded`
(`FailuresArePaid`: failed saves in a row are at most the limit per finished
attempt plus the current counter); `FreshRunsStayFresh` (if renames do not fail,
after relocation the directory holds only this launch's checkpoints, `FreshInv`; a
snapshot is of the run of the agent or file it lies in, `Lineage`).

Three more of its theorems are about files that outlive the attempt that wrote them.
`CheckpointsSurvive` rests on `Preserved`: every file that opens is moved aside, still to be
scanned, or has a number below the next one the loop can save, so that a save never meets its
own name. The hypotheses are what the code needs: no rotation (which deletes by design), no
failing load (a file that is intact but unreadable today lets the run resume lower and write over
it), no failing rename (relocation then leaves the old files in place). `RotationSparesTheNewest`
needs no hypothesis: rotation goes by age, and `Dated` says that whatever is written is younger
than everything there, so it is safe although the labels of an older cohort may be higher.
`RelaunchesLoseLittle` needs `Paced`, where the labels that can be resumed (`Points`) are tied to
the loop's position: the loop is at most one interval, and one more for each save it
skipped, beyond such a label, through crash, restart and scan. It holds with rotation too, because
of `Dated`; a failing load is excluded, since what cannot be read is lost.

**WinnerRetentionProof.** `TypeCorrect`, `SidecarIsBacked`, `WinnerNeverWorsens`,
`TiesMoveForward`, `LaterTiesPass` and both together (`TiesAreDecided`), from `VerdictHolds` (between decision and rename nothing has
moved that the decision rested on) and `CandidateIsWritten` (between the renames
`best.pt` is the candidate).

**SmbCurriculumProof.** `TypeCorrect` (with `PushProperties`: a push keeps the
window a window, and every entry of the result is the new one or an old one);
`UnearnedAdvancesArePaid` (`ResumesPay`: a resume leaves one advance unpaid, and
the advance that spends it clears the window), whatever fails;
`FrontierIsDurable` if stages on disk load (`FrontierInv`: every stage up to the
highest the run advanced to is on disk with a readable sidecar, and the state of the next one from
the moment it is written);
`AnchorsAreTrue`, `StagesOnlyClimb` and both together (`ChainStaysTrue`) for one run in a directory of its own
(`OneRun`: readable sidecars agree with their states, only the last stage may lack its
own or have it torn, the saved stages climb and have no gap, the chain in memory is
what is saved but for such a last stage, the pending capture lies beyond the anchor).

**StepPipelineProof**, for every number of machines, steps and batches, in every mode and
with every fault. `TypeCorrect` already needs how many steps are in flight at each line of the
loop (`Shape`), that the live genomes are in step with the turn (`InStep`), and that a
request has a row of the buffer for each live genome (`RowsOK`): without them an index is out of
range. `DispatchIsExclusive` says that no two dispatches own the machines, whoever calls
and whenever. The rest goes by what each action does to the machines, the queue and the
transitions, stated once as lemmas (`PoolEffects`, `PipeTakeEffects`, `TurnAsyncEffects`, ...), and
by layers of invariants:

* `Orderly`, always: a call has the operands of its kind, a queue runs in the order it was
  filled, a request holds actions of its executor's batch, and only an asynchronous batch drains.
* `Solo`, while no drain gave up: nothing has failed, the only calls are the trainer's
  (`TrainerCalls`) and that of the one request the batch's executor runs (`OneFlight`). This is the
  discipline behind `NoPanics`.
* `Serving`, while no drain gave up: what a machine has run and what is `Owed` to it (the requests
  that wait and the one whose task has not come to it) add up to the turn (`Clocks`), and machines not
  yet reset are of the batch before (`Lives`, `Resetting`). Hence `BatchesOwnTheMachines`.
* `Telling`, while no drain gave up: a request holds the actions of its own turn (`Stamps`), a result
  stays beside the actions it is the result of (`Results`), the observation is that of the last
  transition (`Views`), a peak is of this turn from the task that measures it to the transition that
  stores it (`Peaks`). The step that ties this to `Serving` is `ActionIsDue`: the task that
  is due runs the action of the turn the machine's clock says. With `Buffered` (the rows of the buffer are what the
  actions were computed from, synchronous modes) and `AllTold` (what is stored stays true) it gives
  `TransitionsTellTheTruth`.

After a drain that gave up nothing of the last three layers remains: the straggler steps machines that the
next batch believes its own. The theorems claim nothing there about clocks and actions,
and still claim the order and the end of a trajectory, and that a dead machine ends it.
`PipelineCollects` is the refinement: `StartBatch` maps to `Begin`, `Process` to `Record`,
everything else to a stutter.

**BackwardCurriculumProof**, for every tape, gate, number of environments and relaunches. The heart is
`ProvenanceOK`: what the lists say of an environment that plays an attempt (the cursor it
was drawn under, the flag) is true of the attempt. From it follow
`RungIsJudgedByItsOwn`, `OutcomesAreTheirOwn` and both together (`JudgementIsSound`), also over a resume,
since the saved window is of the saved cursor (`SavedOK`). `ProgressIsKept`: a resume on the same
tape never moves the cursor back nor loses outcomes (`Covers`). `StackSettles`: after as many turns as
the observation is deep it shows the episode that is played.

**ForgeBlockProof**, for every number of blocks, cells, solutions, rows and faults. `Owned`: a living
solver is the newest block's while its runner watches, or one that got away, and files are named
accordingly; this is what makes the bank's time floor enough (`BanksItsOwn`). `Stops` and
`Ended` tie the reason of the stop to the runner's line (`AbortsAreQuarantined`). `Injected`: from the injection on
no poll finds the granted bytes (`InjectionsAreCaught`). `Healthy` describes what is polled from a healthy solver:
rows only grow, the lock is its own or absent, the root is the granted one (`NoFalseTrips`).

Only model-checked: the liveness properties (`AcquireDecides`, `LaunchEnds`,
`BatchEnds`, `EvidenceArrives`, `BlockEnds`), since the prover has neither ENABLED nor
fairness. Every invariant and every action property of the passing runs is a theorem.
Recursive definitions do not occur in the modules: what the prover cannot do,
induction over data, is not needed.

## 6. Where the code and its words disagree

Shown by a listed run (details and quotations under "findings"):

1. `lock_race`: two overlapping launches can both take the lock. One reads the
   other's file between creation and the write of its body, takes it for stale
   and unlinks it.
2. `pipeline_obs`: in the asynchronous mode a transition is stored with an
   observation its action was not computed from, against the comment at
   `trainer.py:3544`; the observation is a view of a buffer the next turn overwrites.
3. `rollout_reseed`: after a restart inside a rollout the observation is filled with
   the last frame of the attempt that ended, not with "the first post-restore frame".

Shown by a configuration that is kept but not listed as a run
(`tlc -config MC_<Module>_<name>.cfg MC_<Module>` finds the counterexample):

4. `MC_Checkpoints_fresh`: a `--no-resume` launch that crashes before it has moved the
   old checkpoints is relaunched with auto-resume and continues the old run.
5. `MC_Checkpoints_halt`: the failure guard's exception is caught by the supervisor,
   so it limits an attempt, not the run.
6. `MC_Checkpoints_heal`: a trainer that diverged before its first checkpoint is
   relaunched on the same non-finite network.
7. `MC_WinnerRetention_churn`: after a death between the renames the metric is reconciled with
   `best.pt` but the iteration is not, so a tie can move backwards.
8. `MC_SmbCurriculum_reearn`: a resume may bring the window of the stage before the current one.
9. `MC_SmbCurriculum_inherit`: a fresh run that crashes is relaunched into an earlier run's
   stage files.
10. `MC_StepPipeline_peak`: a dead machine keeps the peak of an earlier batch, so "reached
    during the most recent step_all call" does not hold for what is rewarded.
11. `MC_BackwardCurriculum_phantom`: an attempt restarted in the last turn of a rollout is
    booked as a failure at the boundary (`trainer.py:9807`), though the comment at `:7745` takes
    care that "a phantom truncation for an attempt with zero executed steps" is never scored.
12. `MC_ForgeBlock_race`: the runner reads the lock file while the healthy solver is creating it,
    and the block is aborted as `lock_unreadable`, though "a torn read or an absent
    lock file cannot itself manufacture a wrongful-reset verdict" (`block.py:391`).
13. `MC_ForgeBlock_unseen`: a reset that shows in the last row only, written after the
    last reading, is not seen, and the block banks.
14. `MC_StepPipeline_straggler`: a drain that timed out leaves a step running which the next batch's
    machines execute after their reset, though "next batch's reset_all fixes it"
    (`trainer.py:4018`). The batch's transitions then carry clocks and observations that are
    not those of their turn; this came up when the proof of `ObservationLag` failed, which is
    stated, as the rest is, while no drain has given up.
15. `MC_Checkpoints_adversary`: the poison guard is there "or the crash supervisor would
    relaunch straight back into NaN" (`checkpoint_manager.py:247`), but the PR-MDP
    adversary and its optimizer are part of the payload (`:303-313`), not of what the guard
    inspects, and are loaded unvalidated (`:165-171`): a NaN in them is saved and comes back.
16. `MC_Checkpoints_ladder`: a rollback of the ladder or consolidation mode
    (`trainer.py:8826`, `:8983`) can make a diverged network finite again while the
    anti-collapse snapshot was copied from the diverged one. The guard then passes, the
    snapshot is saved with its NaN, and a later entropy melt would restore it.

Met while modelling, without a run of their own:

* A CLI command whose wrapper was killed runs on beside the next holder's
  (`run_lock.py:207`). The lock identifies wrappers, not commands.
* The restart budget is counted over the whole launch and is never reset by
  progress (`train_game.py:911`).
* A death between the very first two renames leaves `best.pt` without a sidecar:
  without a recorded iteration every later tie is refused
  (`checkpointing.py:439`), the freeze that the ceiling lock is there to avoid.
* `save_winner` compares values and never the names of the metrics, so a raw rate
  recorded earlier outranks a later, more honest cold-probe rate.
* A crash between a stage's two files over the files of an earlier run leaves a
  new state under a stale anchor (`trainer.py:8389`); this is why `AnchorMatchesState`
  is stated for one run.
* A missing sidecar is written back with a plain `write_text` (`curriculum.py:445`), not by
  the rename the advance uses: a death in it leaves a torn file, and every later load stops
  at that stage. The frontier holds all the same, since only a stage the run had
  not yet entered lacks its sidecar; but the stage has to be captured again.
* A stage that fails to load cuts the chain; the deeper files stay and are later
  found beyond re-captured ones, in an order that need not climb
  (`curriculum.py:451`).
* `trainer.py:5197` says "byte > anchor + 1", the code compares `>` with the anchor
  (`:7233`); `trainer.py:5117` describes an 80 % consecutive-iterations gate, the
  code uses a rolling mean of one half (`:8308`).
* A budget stop that had to SIGKILL leaves the solver's lock file and its last row
  behind, and the next block in the same directory trips on them (`block.py`); the model's
  `clean` tells such blocks apart. `_hard_abort`'s return value, whether the solver is gone, is
  ignored (`block.py:983`).
* The solver's exit hook unlinks the lock file whoever holds it by then
  (`go_explore_solve.py:3677`).
* Every block numbers its solutions from `sol_000`, so a later block's sandbox copy replaces an
  earlier one's.
* A root file that something else swaps between injection and read-back is credited
  to the control.
* A machine whose load failed at the rollout boundary is scored as an attempt from the
  entrance (`trainer.py:9840`), on whatever state the load left (`pool.rs:1730`).
* A tape that was minted again with the same number of entries is taken for the
  old one on a resume: only the length is compared.
* With the cursor at the entrance the winner's metric is the window's rate, with no
  minimum number of attempts (`trainer.py:245`).
* An error part-way through the relocation of a fresh start leaves the rest of the old
  checkpoints in place (`checkpoint_manager.py:96`).

## 7. Abstractions and limits

* **Start times** are exact: `lstart` has a granularity of a second, so a PID
  reissued within the same second is outside the model.
* **Files.** A rename is atomic and, short of a power loss, durable. Power loss
  tears unsynced checkpoints in place; that it may also undo a rename (the
  directory is not synced) is not modelled, nor that `best.pt` itself is torn.
* **Weights** are the run they descend from and their set of non-finite parts. `Diverge`
  adds any part at any time, so the spread of a NaN is one of its behaviours; the snapshot's
  conditions on entropy and fitness are left out, so it may be of any network, diverged or not.
  What `resume` stages for the loop (`_pending_*`) is applied at once. The backward cursor,
  the curriculum window and `gx_counts` hold no weights. That an optimizer state
  which does not load is replaced by a fresh one, on a warning, is left out.
* **Metrics** of one kind; the backward curriculum's condition on saving a winner is
  a save point without a candidate.
* **Curriculum.** Clear fractions are multiples of 1/`Grain`. The real loader stops at
  stage 31; the model at `MaxLevel`, the number of distinct levels. The ladder
  variant, the mixed warm start and `inherit_curriculum_on_fresh` are switched off.
* **Pool and rollout.** A batch uses all workers. The reset of a machine and the collection of its
  first frame are one task. Audio and frame caches and loads of single workers are left out. An
  observation is the clock of the machine that showed it. Draining faults and
  panics are checked together in the small instance `pipeline_drain`, whose misuse
  makes most of the other properties vacuous there; the instance with all faults and all
  modes is too large to finish.
* **Backward curriculum.** Environments stay at stage 0; the branches for Go-Explore starts
  inside the same restart, the pinned entrance and the counters of entrance attempts are left
  out. A crash and the relaunch are one action. Whether a checkpoint was written between two rollouts is
  a free choice, which covers every `SaveEvery` and failing saves.
* **Forge block.** A block, its solver and the unit of file time have one number. A solution's
  two files are one; the receipt is the newest block's; writing it and banking or
  quarantining are one action. A refused block starts no solver. The injection may fail and is
  then retried at the next poll. The rows add one cell at a time up to `MaxCells`. Unreachable
  after the checks before it, the `GRANT_ENDED` backstop is left out, as are the attended hours, the
  ratio and the field check. The system calls inside the solver's lock are `RunLock`'s.

**Not modelled**, with the reason for each in `PROJECT.json`. What is left falls into three
groups. *Numerical code*: the PPO update, reward shaping, networks, genetic operators. Their
control is a loop over arrays, and what matters about them is a matter of floating
point. *The machine*: CPU, PPU, APU, mappers and the save-state format are deterministic,
sequential, one per thread; their reference is the console, which the repository does not
describe, and their states are out of a model checker's reach. *Drivers*: most of the
lines of `scripts/`, and much of `trainer.py`, are straight sequences of set-up, file reads, subprocess
calls, logging and reports; what is concurrent or crash-prone about them goes through
the lock, the checkpoints, the winner files and the forge block. Of components whose
control is of the same kind as one that is modelled (the sub-stage ladder, the PLR curriculum, the
metrics sink) the note says which.

## 8. What could follow

* The sub-stage ladder as a second client of the stage files, and the mixed warm start.
* The background flush of the Go-Explore archive against the main loop and a kill.
* One supervisor over the lock, the checkpoints, the winner and the curriculum directory of a
  run: the modules share no variable, so the composition would add the order of their
  steps, not new states of each.

## 9. Running it

    tlc -workers 2 -config MC_RunLockCli_lock.cfg MC_RunLockCli
    tlapm ForgeBlockProof.tla

Each run of `PROJECT.json` names its module and configuration; the longest
(`checkpoints_durable`, two million states, and `forge`) take about two minutes.

---------------------------- MODULE StepPipeline ----------------------------
(***************************************************************************)
(* Trainer._evaluate_batch over the worker pool: a batch of episodes, one  *)
(* forward pass and one step_all per loop turn.                            *)
(*                                                                         *)
(* In the synchronous modes the trainer calls step_all itself.  In the     *)
(* asynchronous ones an executor thread of the batch does: turn k submits  *)
(* its actions and then processes the results of turn k-1, so the policy   *)
(* runs while the emulator does, one observation behind.                   *)
(* Thread 0 is the trainer, thread b the executor of batch b.  An action   *)
(* is known by batch, turn and the observation it was computed from; an    *)
(* observation by the clock of the machine that showed it.                 *)
(***************************************************************************)
EXTENDS Integers, Sequences, FiniteSets

CONSTANTS
    NumWorkers,
    MaxSteps,       \* max_episode_steps
    MaxBatches,     \* bound: batches
    Modes,          \* "sync", "async", and with the SMB peak read
    Faults          \* pool's "step", "reset"; "drain" times out; "halt"

ModeNames == {"sync", "sync_smb", "async", "async_smb"}

ASSUME WorkersAssumption == NumWorkers \in Nat \ {0}
ASSUME StepsAssumption == MaxSteps \in Nat \ {0}
ASSUME BatchesAssumption == MaxBatches \in Nat
ASSUME ModesAssumption == Modes \subseteq ModeNames

Trainer == 0
Threads == 0 .. MaxBatches
Obs == Nat      \* the clock of the machine that showed it
Blank == -1     \* the zero frame of a dead machine
NoAction == [batch |-> 0, turn |-> 0, obs |-> 0]     \* action 0 of a done genome
Actions == [batch : 0 .. MaxBatches, turn : 0 .. MaxSteps, obs : Obs \cup {Blank}]

VARIABLES
    section, machine, workerDone, call,     \* the pool
    mode,           \* async_pipeline, and whether the game is SMB
    running,        \* _running
    pc,             \* where the trainer is
    batch,          \* calls of _evaluate_batch
    turn,           \* the loop's step
    obs,            \* stacked_obs: the newest observation of each genome
    buffer,         \* batch_np_buffer, one row per active genome
    done,           \* done_flags
    traj,           \* the trajectory of each genome
    flight,         \* per executor: submitted steps whose results are unread
    ctx,            \* the forward state and the results being processed
    todo,           \* results not yet processed
    abandoned       \* history: a drain has given up

INSTANCE WorkerPool

trainer == <<mode, running, pc, batch, turn, obs, buffer, done, traj, ctx, todo,
             abandoned>>
machines == <<section, machine, workerDone, call>>
vars == <<machines, trainer, flight>>

Async == mode \in {"async", "async_smb"}
Smb == mode \in {"sync_smb", "async_smb"}

Rows == Workers
Request == [acts : [Workers -> Actions], rows : [Workers -> 0 .. NumWorkers],
            state : {"queued", "running", "ok", "failed"},
            res : [Workers -> Result]]
Context == [acts : [Workers -> Actions], rows : [Workers -> 0 .. NumWorkers],
            res : [Workers -> Result], peaks : [Workers -> Stamp]]
Tuple == [obs : Obs \cup {Blank}, act : Actions, ran : Actions,
          live : BOOLEAN, clock : Nat, peak : Stamp, over : BOOLEAN]
NoContext == [acts |-> NoActs, rows |-> [w \in Workers |-> 0],
              res |-> Idle.res, peaks |-> Idle.peaks]

TypeOK ==
    /\ PoolTypeOK
    /\ mode \in Modes /\ running \in BOOLEAN
    /\ pc \in {"between", "reset", "top", "step", "wait", "peek", "process",
               "drain", "crashed"}
    /\ batch \in 0 .. MaxBatches /\ turn \in 0 .. MaxSteps
    /\ obs \in [Workers -> Obs \cup {Blank}]
    /\ buffer \in [Rows -> Obs \cup {Blank}]
    /\ done \in [Workers -> BOOLEAN]
    /\ traj \in [Workers -> Seq(Tuple)] /\ \A w \in Workers : Len(traj[w]) <= turn
    /\ flight \in [Threads -> Seq(Request)] /\ \A t \in Threads : Len(flight[t]) <= 2
    /\ ctx \in Context
    /\ todo \subseteq Workers
    /\ abandoned \in BOOLEAN

Init ==
    /\ PoolInit
    /\ mode \in Modes /\ running = TRUE
    /\ pc = "between" /\ batch = 0 /\ turn = 0
    /\ obs = [w \in Workers |-> 0]
    /\ buffer = [r \in Rows |-> 0]
    /\ done = [w \in Workers |-> FALSE]
    /\ traj = [w \in Workers |-> <<>>]
    /\ flight = [t \in Threads |-> <<>>]
    /\ ctx = NoContext
    /\ todo = {}
    /\ abandoned = FALSE

Active == {w \in Workers : ~done[w]}
Row(w) == Cardinality({v \in Active : v <= w})

----------------------------------------------------------------------------
(* Mutant: the done flags of the batch before are kept. *)
StartBatch_KeepsDone ==
    /\ pc = "between" /\ running /\ batch < MaxBatches
    /\ batch' = batch + 1
    /\ turn' = 0
    /\ buffer' = [r \in Rows |-> 0]
    /\ traj' = [w \in Workers |-> <<>>]
    /\ Calls(Trainer, "reset", NoActs)
    /\ pc' = "reset"
    /\ UNCHANGED <<section, machine, workerDone, mode, running, obs, done, flight, ctx, todo, abandoned>>

(* Between two batches; the buffers of a batch are its own. *)
StartBatch ==
    /\ pc = "between" /\ running /\ batch < MaxBatches
    /\ batch' = batch + 1
    /\ turn' = 0
    /\ buffer' = [r \in Rows |-> 0]
    /\ done' = [w \in Workers |-> FALSE]
    /\ traj' = [w \in Workers |-> <<>>]
    /\ Calls(Trainer, "reset", NoActs)
    /\ pc' = "reset"
    /\ UNCHANGED <<section, machine, workerDone, mode, running, obs, flight, ctx, todo, abandoned>>

Seen(r) == IF r.kind = "dead" THEN Blank ELSE r.clock

Hangup(t) == call' = [call EXCEPT ![t] = Idle]

ResetReturns ==
    /\ pc = "reset" /\ call[Trainer].phase = "ret"
    /\ obs' = [w \in Workers |-> Seen(call[Trainer].res[w])]
    /\ Hangup(Trainer)
    /\ pc' = "top"
    /\ UNCHANGED <<section, machine, workerDone, mode, running, batch, turn, buffer, done, traj,
                   flight, ctx, todo, abandoned>>

(* A panic in a call of the trainer's is a PanicException: no handler of   *)
(* the step loop catches it.                                               *)
Crash ==
    /\ pc \in {"reset", "step", "peek"} /\ call[Trainer].phase = "panic"
    /\ pc' = "crashed"
    /\ Hangup(Trainer)
    /\ UNCHANGED <<section, machine, workerDone, mode, running, batch, turn, obs, buffer, done,
                   traj, flight, ctx, todo, abandoned>>

(* The other threads' Stop. *)
Halt ==
    /\ running /\ "halt" \in Faults
    /\ running' = FALSE
    /\ UNCHANGED <<machines, mode, pc, batch, turn, obs, buffer, done, traj, flight, ctx, todo, abandoned>>

----------------------------------------------------------------------------
(* The forward pass fills the buffer and chooses an action for every       *)
(* active genome.  The request refers to rows of the buffer, not to a copy *)
(* of them.                                                                *)
Forwarded == [r \in Rows |->
    IF \E w \in Active : Row(w) = r
    THEN obs[CHOOSE w \in Active : Row(w) = r] ELSE buffer[r]]
Choice == [w \in Workers |-> IF done[w] THEN NoAction
    ELSE [batch |-> batch, turn |-> turn + 1, obs |-> obs[w]]]
NewRequest == [acts |-> Choice,
               rows |-> [w \in Workers |-> IF done[w] THEN 0 ELSE Row(w)],
               state |-> "queued", res |-> Idle.res]

(* Mutant: no limit on the steps of an episode. *)
InLoop_NoLimit == pc = "top" /\ running /\ Active # {}

InLoop == pc = "top" /\ running /\ Active # {} /\ turn < MaxSteps

(* The synchronous turn: step_all is called by the trainer. *)
TurnSync ==
    /\ InLoop /\ ~Async
    /\ turn' = turn + 1
    /\ buffer' = Forwarded
    /\ ctx' = [NoContext EXCEPT !.acts = NewRequest.acts, !.rows = NewRequest.rows]
    /\ Calls(Trainer, "step", Choice)
    /\ pc' = "step"
    /\ UNCHANGED <<section, machine, workerDone, mode, running, batch, obs, done, traj, flight, todo,
                   abandoned>>

(* The asynchronous turn: the step is submitted; the first has nothing to  *)
(* wait for, the others wait for the step before.                          *)
TurnAsync ==
    /\ InLoop /\ Async
    /\ turn' = turn + 1
    /\ buffer' = Forwarded
    /\ flight' = [flight EXCEPT ![batch] = Append(@, NewRequest)]
    /\ pc' = IF flight[batch] = <<>> THEN "top" ELSE "wait"
    /\ UNCHANGED <<machines, mode, running, batch, obs, done, traj, ctx, todo, abandoned>>

(* The executor of batch b runs its steps in the order of submission, one  *)
(* at a time, and leaves result or exception in the future.                *)
Submitted(b) == {i \in 1 .. Len(flight[b]) : flight[b][i].state = "queued"}

Taken(requests, i) == [requests EXCEPT ![i].state = "running"]

PipeTake(b) ==
    /\ b # Trainer
    /\ \E i \in Submitted(b) :
          /\ \A j \in Submitted(b) : i <= j
          /\ Calls(b, "step", flight[b][i].acts)
          /\ flight' = [flight EXCEPT ![b] = Taken(@, i)]
    /\ UNCHANGED <<section, machine, workerDone, trainer>>

PipeDone(b) ==
    /\ b # Trainer /\ call[b].phase \in {"ret", "panic"}
    /\ Hangup(b)
    /\ flight' = [flight EXCEPT ![b] = [i \in 1 .. Len(flight[b]) |->
          IF flight[b][i].state # "running" THEN flight[b][i]
          ELSE [flight[b][i] EXCEPT !.res = call[b].res,
                    !.state = IF call[b].phase = "ret" THEN "ok" ELSE "failed"]]]
    /\ UNCHANGED <<section, machine, workerDone, trainer>>

ToProcess ==
    /\ pc' = IF Smb THEN "peek" ELSE "process"
    /\ todo' = Workers

StepReturns ==
    /\ pc = "step" /\ call[Trainer].phase = "ret"
    /\ ctx' = [ctx EXCEPT !.res = call[Trainer].res]
    /\ Hangup(Trainer)
    /\ ToProcess
    /\ UNCHANGED <<section, machine, workerDone, mode, running, batch, turn, obs, buffer, done,
                   traj, flight, abandoned>>

(* Mutant: the results are paired with the newest forward state. *)
Await_NewContext ==
    /\ pc = "wait"
    /\ LET r == Head(flight[batch])
           new == flight[batch][Len(flight[batch])]
       IN /\ r.state = "ok"
          /\ ctx' = [NoContext EXCEPT !.acts = new.acts, !.rows = new.rows, !.res = r.res]
          /\ ToProcess
    /\ flight' = [flight EXCEPT ![batch] = Tail(@)]
    /\ UNCHANGED <<machines, mode, running, batch, turn, obs, buffer, done, traj, abandoned>>

(* pending_future.result(), and the swap to the forward state it was       *)
(* submitted with.                                                         *)
Await ==
    /\ pc = "wait"
    /\ LET r == Head(flight[batch])
       IN /\ r.state = "ok"
          /\ ctx' = [NoContext EXCEPT !.acts = r.acts, !.rows = r.rows, !.res = r.res]
          /\ ToProcess
    /\ flight' = [flight EXCEPT ![batch] = Tail(@)]
    /\ UNCHANGED <<machines, mode, running, batch, turn, obs, buffer, done, traj, abandoned>>

(* SMB: the peaks of the latest step, as the pool has them now. *)
PeekCall ==
    /\ pc = "peek"
    /\ Calls(Trainer, "peek", NoActs)
    /\ UNCHANGED <<section, machine, workerDone, trainer, flight>>

PeekReturns ==
    /\ pc = "peek" /\ call[Trainer].phase = "ret"
    /\ ctx' = [ctx EXCEPT !.peaks = call[Trainer].peaks]
    /\ Hangup(Trainer)
    /\ pc' = "process"
    /\ UNCHANGED <<section, machine, workerDone, mode, running, batch, turn, obs, buffer, done,
                   traj, flight, todo, abandoned>>

NewTuple(w, over) ==
    LET r == ctx.res[w]
    IN [obs |-> buffer[ctx.rows[w]], act |-> ctx.acts[w], ran |-> r.ran,
        live |-> r.kind = "live", clock |-> r.clock, peak |-> ctx.peaks[w],
        over |-> over]

(* Once the last result is processed nothing refers to them any more. *)
Processed ==
    /\ pc' = IF todo' = {} THEN "top" ELSE "process"
    /\ ctx' = IF todo' = {} THEN NoContext ELSE ctx
    /\ UNCHANGED <<section, machine, call, mode, running, batch, turn, buffer, flight, abandoned>>

(* One result: those of genomes that are done are skipped; the others push *)
(* their observation, append a transition and may end the episode, which   *)
(* the pool is told of.                                                    *)
Process(w) ==
    /\ pc = "process" /\ w \in todo /\ \A v \in todo : w <= v
    /\ todo' = todo \ {w}
    /\ \/ /\ done[w]
          /\ UNCHANGED <<obs, traj, done, workerDone>>
       \/ \E rewDone \in BOOLEAN :
          LET over == rewDone \/ ctx.res[w].kind # "live"
          IN /\ ~done[w]
             /\ obs' = [obs EXCEPT ![w] = Seen(ctx.res[w])]
             /\ traj' = [traj EXCEPT ![w] = Append(@, NewTuple(w, over))]
             /\ done' = [done EXCEPT ![w] = over]
             /\ workerDone' = [workerDone EXCEPT ![w] = @ \/ over]
    /\ Processed

(* Mutant: the loop only ends when its steps are used up. *)
LeaveLoop_AtLimit ==
    /\ pc = "top" /\ turn = MaxSteps
    /\ pc' = IF Async THEN "drain" ELSE "between"
    /\ UNCHANGED <<machines, mode, running, batch, turn, obs, buffer, done, traj, flight, ctx, todo, abandoned>>

(* The loop's exits; what is still in flight has to be drained. *)
LeaveLoop ==
    /\ pc = "top" /\ ~InLoop
    /\ pc' = IF Async THEN "drain" ELSE "between"
    /\ UNCHANGED <<machines, mode, running, batch, turn, obs, buffer, done, traj, flight, ctx, todo, abandoned>>

(* Mutant: nothing waits for the step in flight. *)
Drain_NoWait ==
    /\ pc = "drain"
    /\ pc' = "between" /\ UNCHANGED flight
    /\ UNCHANGED <<machines, mode, running, batch, turn, obs, buffer, done, traj, ctx, todo, abandoned>>

(* The last step's result is waited for and dropped.  The wait gives up    *)
(* after ten seconds; the step then goes on without the trainer.           *)
Drain ==
    /\ pc = "drain"
    /\ \/ /\ flight[batch] = <<>>
          /\ pc' = "between" /\ UNCHANGED <<flight, abandoned>>
       \/ /\ flight[batch] # <<>> /\ Head(flight[batch]).state = "ok"
          /\ pc' = "between" /\ flight' = [flight EXCEPT ![batch] = <<>>]
          /\ UNCHANGED abandoned
       \/ /\ flight[batch] # <<>> /\ Head(flight[batch]).state \in {"queued", "running"}
          /\ "drain" \in Faults
          /\ pc' = "between" /\ abandoned' = TRUE /\ UNCHANGED flight
    /\ UNCHANGED <<machines, mode, running, batch, turn, obs, buffer, done, traj, ctx, todo>>

(* A PanicException out of a future passes the loop and the drain alike.   *)
FutureFails ==
    /\ pc \in {"wait", "drain"} /\ flight[batch] # <<>>
    /\ Head(flight[batch]).state = "failed"
    /\ pc' = "crashed"
    /\ UNCHANGED <<machines, mode, running, batch, turn, obs, buffer, done, traj, flight, ctx, todo, abandoned>>

TrainerStep ==
    \/ StartBatch \/ ResetReturns \/ Crash
    \/ TurnSync \/ TurnAsync \/ StepReturns \/ Await
    \/ PeekCall \/ PeekReturns
    \/ \E w \in Workers : Process(w)
    \/ LeaveLoop \/ Drain \/ FutureFails

PoolSteps(t) == PoolStep(t) /\ UNCHANGED <<trainer, flight>>

Next ==
    \/ TrainerStep
    \/ Halt
    \/ \E t \in Threads : PoolSteps(t) \/ PipeTake(t) \/ PipeDone(t)

(* The trainer and the executor are running threads; rayon runs the tasks  *)
(* it was given.                                                           *)
Fairness ==
    /\ WF_vars(TrainerStep)
    /\ \A t \in Threads : WF_vars(PoolSteps(t)) /\ WF_vars(PipeTake(t) \/ PipeDone(t))

Spec == Init /\ [][Next]_vars /\ Fairness

----------------------------------------------------------------------------
(* A step never meets another dispatch, a panic or a reset of the machines *)
(* under it, and the trainer never dies of one, as long as no drain gave   *)
(* up and the peaks are not read while a step is in flight.                *)
NoPanicUnlessMisused ==
    (~abandoned /\ mode # "async_smb") =>
        /\ pc # "crashed"
        /\ \A t \in Threads : call[t].phase # "panic"
        /\ call[Trainer].phase = "read" => Dispatching = {}

(* No machine runs an action that was chosen for an earlier batch: the     *)
(* drain keeps the last submitted step out of the next batch's episodes.   *)
BatchIsolation ==
    \A w \in Workers : ~abandoned /\ machine[w].ran # NoAction =>
        machine[w].ran.batch = machine[w].life

(* After its episode a machine stands still: nothing runs beyond the step  *)
(* that was already submitted when the trainer saw the end.                *)
DoneStopsEmulation ==
    \A w \in Workers : ~abandoned /\ done[w] /\ pc \in {"top", "step", "wait"} =>
        machine[w].clock <= Len(traj[w]) + (IF Async THEN 1 ELSE 0)

(* The machines run for the batch, from its reset to their episode's end.  *)
MachinesServeTheBatch == BatchIsolation /\ DoneStopsEmulation

(* The transitions of a genome are the steps its machine ran, each with    *)
(* the action that was executed, none missing, none twice; only the last   *)
(* one can end the episode, and a machine that died always does.           *)
TransitionsMatchSteps ==
    \A w \in Workers : \A p \in 1 .. Len(traj[w]) :
        LET tu == traj[w][p]
        IN /\ tu.live /\ ~abandoned => tu.ran = tu.act /\ tu.clock = p
           /\ tu.over <=> (p = Len(traj[w]) /\ done[w])
           /\ ~tu.live => tu.over

(* The policy sees the newest observation; in the asynchronous modes it is *)
(* one step behind, never more, until an abandoned step goes on under a    *)
(* later batch.  In the synchronous ones the transition also holds the     *)
(* observation its action was computed from.                               *)
ObservationLag ==
    \A w \in Workers : \A p \in 1 .. Len(traj[w]) :
        LET tu == traj[w][p]
            lag == IF Async /\ p > 1 THEN 2 ELSE 1
        IN /\ ~abandoned => tu.act.obs \in {Blank, p - lag}
           /\ ~Async => tu.obs = tu.act.obs

(* The peak a synchronous SMB reward is computed with was measured in the  *)
(* very step it rewards, unless the machine was dead.                      *)
PeakIsOfTheStep ==
    \A w \in Workers : \A p \in 1 .. Len(traj[w]) :
        mode = "sync_smb" /\ traj[w][p].live =>
            traj[w][p].peak = [life |-> batch, clock |-> p]

(* What is stored of a step is what happened in it: the action that ran,   *)
(* the order and the end, the observation of its turn, the step's peak.    *)
TransitionsAreTrue == TransitionsMatchSteps /\ ObservationLag /\ PeakIsOfTheStep

(* What the pool's comment says: the peak was "reached during the most     *)
(* recent step_all call", for every machine that is rewarded.              *)
PeakIsRecent ==
    \A w \in Workers : \A p \in 1 .. Len(traj[w]) :
        mode = "sync_smb" => traj[w][p].peak.life \in {0, batch}

(* What the drain's warning says: the pool "may lag by one step; next      *)
(* batch's reset_all fixes it", so no machine runs an old batch's action.  *)
ResetFixesTheLag ==
    \A w \in Workers : machine[w].ran # NoAction => machine[w].ran.batch = machine[w].life

(* What the trainer's comment says: "Trajectory tuples still pair          *)
(* obs_that_fed_forward with action+reward", asynchronous or not.          *)
TuplesPairTheirObs ==
    \A w \in Workers : \A p \in 1 .. Len(traj[w]) : traj[w][p].obs = traj[w][p].act.obs

(* The pipeline, in every mode, collects episodes: one transition at a     *)
(* time, the live genomes in step, none after the end.                     *)
Episodes == INSTANCE EpisodeBatch WITH
    Envs <- Workers, len <- [w \in Workers |-> Len(traj[w])], over <- done
CollectsEpisodes == Episodes!Spec

(* Every batch comes to its end: no result is waited for that never comes. *)
BatchEnds == pc = "reset" ~> pc \in {"between", "crashed"}
=============================================================================

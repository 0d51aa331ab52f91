----------------------------- MODULE WorkerPool -----------------------------
(***************************************************************************)
(* The emulator pool of nes_core/src/pool.rs: N machines behind            *)
(* UnsafeCells, stepped or reset by one rayon task each.  Nothing but the  *)
(* flag in_parallel_section keeps two dispatches apart: step_all and       *)
(* reset_all swap it to true and panic when it was already true, the       *)
(* sequential methods load it once and panic when it is true.              *)
(*                                                                         *)
(* step_all runs with the GIL released, so callers on several threads may  *)
(* be anywhere in it at the same time.  A machine is what a caller can     *)
(* tell of it: how often it was reset, how many steps it ran since, the    *)
(* last action it ran and the step its x peak was taken at.                *)
(***************************************************************************)
EXTENDS Integers, FiniteSets

CONSTANTS
    NumWorkers,     \* machines in the pool
    Threads,        \* threads that call the pool
    Actions,        \* action masks, as the caller's stamps
    NoAction,       \* the one that stands for no input
    Faults          \* "step", "reset": a machine may panic in it

Workers == 1 .. NumWorkers
VARIABLES
    section,        \* in_parallel_section
    machine,        \* the Worker of each slot
    workerDone,     \* worker_done, the trainer's short-circuit mask
    call            \* the call each thread is in

Stamp == [life : Nat, clock : Nat]
Machine == [life : Nat, clock : Nat, dead : BOOLEAN,
            ran : Actions, peak : Stamp]
(* A tuple of the result list: from a machine that ran, from a dead one    *)
(* (zero frame, done), or from one the trainer has marked done.            *)
Result == [kind : {"live", "dead", "idle"}, clock : Nat,
           ran : Actions]
NoResult == [kind |-> "idle", clock |-> 0, ran |-> NoAction]
DeadResult == [kind |-> "dead", clock |-> 0, ran |-> NoAction]

Call == [op : {"none", "reset", "step", "peek"},
         phase : {"idle", "enter", "tasks", "pace", "read", "ret", "panic"},
         todo : SUBSET Workers,
         acts : [Workers -> Actions],
         res : [Workers -> Result],
         peaks : [Workers -> Stamp]]

NoActs == [w \in Workers |-> NoAction]
NoStamp == [life |-> 0, clock |-> 0]
Idle == [op |-> "none", phase |-> "idle", todo |-> {}, acts |-> NoActs,
         res |-> [w \in Workers |-> NoResult],
         peaks |-> [w \in Workers |-> NoStamp]]

PoolTypeOK ==
    /\ section \in BOOLEAN
    /\ machine \in [Workers -> Machine]
    /\ workerDone \in [Workers -> BOOLEAN]
    /\ call \in [Threads -> Call]

PoolInit ==
    /\ section = FALSE
    /\ machine = [w \in Workers |->
          [life |-> 0, clock |-> 0, dead |-> FALSE, ran |-> NoAction,
           peak |-> NoStamp]]
    /\ workerDone = [w \in Workers |-> FALSE]
    /\ call = [t \in Threads |-> Idle]

In(t, op, phase) == call[t].op = op /\ call[t].phase = phase

----------------------------------------------------------------------------
(* The calls, as the caller makes them; they take effect one by one below. *)
Calls(t, op, acts) ==
    /\ call[t].phase = "idle"
    /\ call' = [call EXCEPT ![t] =
          [Idle EXCEPT !.op = op, !.phase = "enter", !.acts = acts]]

Panics(t) == call' = [call EXCEPT ![t].phase = "panic"]

(* ParallelSectionGuard::enter: swap the flag, panic if it was set.        *)
(* reset_all then clears the done mask.                                    *)
Enter(t) ==
    /\ call[t].op \in {"reset", "step"} /\ call[t].phase = "enter"
    /\ section' = TRUE
    /\ \/ /\ section
          /\ Panics(t)
          /\ UNCHANGED workerDone
       \/ /\ ~section
          /\ call' = [call EXCEPT ![t] = [@ EXCEPT !.phase = "tasks", !.todo = Workers]]
          /\ workerDone' = IF call[t].op = "reset" THEN [w \in Workers |-> FALSE]
                           ELSE workerDone
    /\ UNCHANGED machine

Ended(c, w, r) == [c EXCEPT !.todo = @ \ {w}, !.res[w] = r]
Ends(t, w, r) == call' = [call EXCEPT ![t] = Ended(@, w, r)]

(* The rayon task of reset_all, with the collection of its result: a dead  *)
(* machine is revived, and dies again when the reset panics.               *)
ResetTask(t, w) ==
    /\ In(t, "reset", "tasks") /\ w \in call[t].todo
    /\ \E panics \in BOOLEAN :
          /\ panics => "reset" \in Faults
          /\ machine' = [machine EXCEPT ![w] =
                [life |-> @.life + 1, clock |-> 0, dead |-> panics,
                 ran |-> NoAction, peak |-> @.peak]]
          /\ Ends(t, w, IF panics THEN DeadResult
                        ELSE [NoResult EXCEPT !.kind = "live"])
    /\ UNCHANGED <<section, workerDone>>

(* What a step makes of a machine; Worker::step sets the peak first.       *)
Stepped(m, act) ==
    [life |-> m.life, clock |-> m.clock + 1, dead |-> m.dead, ran |-> act,
     peak |-> [life |-> m.life, clock |-> m.clock + 1]]

(* The rayon task of step_all: dead and done machines are passed over, a   *)
(* panic in the emulator is caught and leaves the machine dead.            *)
StepTask(t, w) ==
    /\ In(t, "step", "tasks") /\ w \in call[t].todo
    /\ LET m == machine[w]
           next == Stepped(m, call[t].acts[w])
       IN \/ /\ m.dead
             /\ Ends(t, w, DeadResult)
             /\ UNCHANGED machine
          \/ /\ ~m.dead /\ workerDone[w]
             /\ Ends(t, w, [kind |-> "idle", clock |-> m.clock, ran |-> NoAction])
             /\ UNCHANGED machine
          \/ /\ ~m.dead /\ ~workerDone[w]
             /\ machine' = [machine EXCEPT ![w] = next]
             /\ Ends(t, w, [kind |-> "live", clock |-> next.clock, ran |-> next.ran])
          \/ /\ ~m.dead /\ ~workerDone[w] /\ "step" \in Faults
             /\ machine' = [machine EXCEPT ![w] = [next EXCEPT !.dead = TRUE]]
             /\ Ends(t, w, [DeadResult EXCEPT !.ran = next.ran])
    /\ UNCHANGED <<section, workerDone>>

(* Mutant: the guard lives on into pace_pool_step. *)
Join_LateDrop(t) ==
    /\ call[t].phase = "tasks" /\ call[t].todo = {}
    /\ section' = (call[t].op = "step")
    /\ call' = [call EXCEPT ![t].phase = IF call[t].op = "step" THEN "pace"
                                         ELSE "ret"]
    /\ UNCHANGED <<machine, workerDone>>

(* rayon's join, and the drop of the guard right after it. *)
Join(t) ==
    /\ call[t].phase = "tasks" /\ call[t].todo = {}
    /\ section' = FALSE
    /\ call' = [call EXCEPT ![t].phase = IF call[t].op = "step" THEN "pace"
                                         ELSE "ret"]
    /\ UNCHANGED <<machine, workerDone>>

(* pace_pool_step, outside the guard: asserts that nobody dispatches. *)
Pace(t) ==
    /\ call[t].phase = "pace"
    /\ IF section THEN Panics(t) ELSE call' = [call EXCEPT ![t].phase = "ret"]
    /\ UNCHANGED <<section, machine, workerDone>>

(* A sequential method, peek_max_x_per_worker: assert_no_parallel_dispatch *)
(* is a plain load, and what it found may be over when the machines are    *)
(* read.                                                                   *)
PeekCheck(t) ==
    /\ In(t, "peek", "enter")
    /\ IF section THEN Panics(t) ELSE call' = [call EXCEPT ![t].phase = "read"]
    /\ UNCHANGED <<section, machine, workerDone>>

PeekRead(t) ==
    /\ In(t, "peek", "read")
    /\ call' = [call EXCEPT ![t] = [@ EXCEPT !.phase = "ret",
          !.peaks = [w \in Workers |-> machine[w].peak]]]
    /\ UNCHANGED <<section, machine, workerDone>>

(* The pool's side of every call. *)
PoolStep(t) ==
    \/ Enter(t)
    \/ \E w \in Workers : ResetTask(t, w) \/ StepTask(t, w)
    \/ Join(t)
    \/ Pace(t)
    \/ PeekCheck(t)
    \/ PeekRead(t)

Dispatching == {t \in Threads : call[t].phase = "tasks"}

(* Exclusive: the flag is up exactly while one thread's tasks own the      *)
(* machines, so no two dispatches ever alias a machine, whoever calls.     *)
Exclusive ==
    /\ section <=> Dispatching # {}
    /\ \A t, u \in Dispatching : t = u
=============================================================================

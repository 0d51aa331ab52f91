------------------------- MODULE StepPipelineProof -------------------------
(***************************************************************************)
(* Proofs about StepPipeline and the pool it drives, for every number of   *)
(* machines, steps and batches, in every mode and with every fault.        *)
(***************************************************************************)
EXTENDS StepPipeline, SequenceTheorems, FiniteSetTheorems, TLAPS

USE WorkersAssumption, StepsAssumption, BatchesAssumption, ModesAssumption

----------------------------------------------------------------------------
(* The inductive invariant *)

Typed ==
    /\ PoolTypeOK
    /\ mode \in Modes /\ running \in BOOLEAN /\ abandoned \in BOOLEAN
    /\ pc \in {"between", "reset", "top", "step", "wait", "peek", "process",
               "drain", "crashed"}
    /\ batch \in 0 .. MaxBatches /\ turn \in 0 .. MaxSteps
    /\ obs \in [Workers -> Obs \cup {Blank}]
    /\ buffer \in [Workers -> Obs \cup {Blank}]
    /\ done \in [Workers -> BOOLEAN]
    /\ traj \in [Workers -> Seq(Tuple)]
    /\ flight \in [Threads -> Seq(Request)]
    /\ ctx \in Context
    /\ todo \subseteq Workers

(* How many steps of the batch are in flight at each point of the loop.    *)
Ahead == IF Async THEN 1 ELSE 0

Shape ==
    /\ pc # "between" => batch # Trainer
    /\ \A b \in Threads : Len(flight[b]) <= 2 /\ (b > batch => flight[b] = <<>>)
    /\ pc = "reset" => flight[batch] = <<>> /\ turn = 0
    /\ pc = "top" => Len(flight[batch]) = IF turn = 0 THEN 0 ELSE Ahead
    /\ pc = "drain" => Len(flight[batch]) <= 1
    /\ pc = "wait" => Async /\ Len(flight[batch]) = 2
    /\ pc = "step" => ~Async /\ flight[batch] = <<>>
    /\ pc \in {"peek", "process"} => Len(flight[batch]) = Ahead
    /\ pc \in {"step", "wait", "peek", "process"} => turn >= 1 + Ahead
    /\ pc = "peek" => todo = Workers

(* The transitions the live genomes have when turn is over. *)
Reached == IF turn = 0 THEN 0 ELSE turn - Ahead

InStep ==
    /\ \A w \in Workers : Len(traj[w]) <= turn
    /\ pc \in {"reset", "top"} => \A w \in Workers : ~done[w] => Len(traj[w]) = Reached
    /\ pc \in {"step", "wait"} => \A w \in Workers : ~done[w] => Len(traj[w]) + 1 = Reached
    /\ pc \in {"peek", "process"} => \A w \in Workers : ~done[w] =>
          Len(traj[w]) + (IF w \in todo THEN 1 ELSE 0) = Reached

(* A request of the batch has a row of the buffer for each live genome.    *)
HasRows(r) == \A w \in Workers : ~done[w] => r.rows[w] # 0

RowsOK ==
    /\ pc \notin {"between", "drain", "crashed"} =>
          \A i \in 1 .. Len(flight[batch]) : HasRows(flight[batch][i])
    /\ pc \in {"step", "peek", "process"} => HasRows(ctx)

IInv == Typed /\ Shape /\ InStep /\ RowsOK

----------------------------------------------------------------------------
(* The pool: what its steps keep, whoever calls it *)

LEMMA ConstantsTyped ==
    /\ NoAction \in Actions /\ NoActs \in [Workers -> Actions]
    /\ NoStamp \in Stamp /\ NoResult \in Result /\ DeadResult \in Result
    /\ Idle \in Call /\ Trainer \in Threads
  <1>1. NoAction \in Actions
    BY DEF NoAction, Actions, Obs
  <1>2. NoActs \in [Workers -> Actions]
    BY <1>1 DEF NoActs
  <1>3. NoStamp \in Stamp /\ NoResult \in Result /\ DeadResult \in Result
    BY <1>1 DEF NoStamp, Stamp, NoResult, DeadResult, Result
  <1>4. Idle \in Call
    BY <1>2, <1>3 DEF Idle, Call
  <1>5. Trainer \in Threads
    BY DEF Trainer, Threads
  <1> QED
    BY <1>1, <1>2, <1>3, <1>4, <1>5

LEMMA CallsTyped ==
    ASSUME PoolTypeOK, NEW t \in Threads, NEW op \in {"reset", "step", "peek"},
           NEW acts \in [Workers -> Actions], Calls(t, op, acts)
    PROVE  call' \in [Threads -> Call]
  <1>1. [Idle EXCEPT !.op = op, !.phase = "enter", !.acts = acts] \in Call
    BY ConstantsTyped DEF Idle, Call
  <1> QED
    BY <1>1 DEF Calls, PoolTypeOK

LEMMA SteppedTyped ==
    ASSUME NEW m \in Machine, NEW act \in Actions
    PROVE  Stepped(m, act) \in Machine
  BY DEF Stepped, Machine, Stamp

LEMMA EndsTyped ==
    ASSUME PoolTypeOK, NEW t \in Threads, NEW w \in Workers, NEW r \in Result, Ends(t, w, r)
    PROVE  /\ call' \in [Threads -> Call]
           /\ \A u \in Threads : call'[u].phase = call[u].phase /\ call'[u].op = call[u].op
  <1> DEFINE c == Ended(call[t], w, r)
  <1>1. c \in Call /\ c.phase = call[t].phase /\ c.op = call[t].op
    BY DEF PoolTypeOK, Call, Ended
  <1>2. call' = [call EXCEPT ![t] = c]
    BY DEF Ends
  <1> HIDE DEF c
  <1> QED
    BY <1>1, <1>2 DEF PoolTypeOK

LEMMA StepResultTyped ==
    ASSUME PoolTypeOK, NEW t \in Threads, NEW w \in Workers, StepTask(t, w)
    PROVE  (\E r \in Result : Ends(t, w, r)) /\ machine' \in [Workers -> Machine]
  <1> USE DEF PoolTypeOK
  <1> DEFINE m == machine[w]
             next == Stepped(m, call[t].acts[w])
  <1>1. m \in Machine /\ next \in Machine
    BY SteppedTyped DEF Call
  <1>2. /\ DeadResult \in Result
        /\ [kind |-> "idle", clock |-> m.clock, ran |-> NoAction] \in Result
        /\ [kind |-> "live", clock |-> next.clock, ran |-> next.ran] \in Result
        /\ [DeadResult EXCEPT !.ran = next.ran] \in Result
    <2> HIDE DEF next, m
    <2> QED
      BY <1>1, ConstantsTyped DEF Machine, Result, DeadResult
  <1>3. [next EXCEPT !.dead = TRUE] \in Machine
    <2> HIDE DEF next, m
    <2> QED
      BY <1>1 DEF Machine
  <1>4. /\ UNCHANGED <<section, workerDone>>
        /\ \/ Ends(t, w, DeadResult) /\ UNCHANGED machine
           \/ Ends(t, w, [kind |-> "idle", clock |-> m.clock, ran |-> NoAction]) /\ UNCHANGED machine
           \/ /\ machine' = [machine EXCEPT ![w] = next]
              /\ Ends(t, w, [kind |-> "live", clock |-> next.clock, ran |-> next.ran])
           \/ /\ machine' = [machine EXCEPT ![w] = [next EXCEPT !.dead = TRUE]]
              /\ Ends(t, w, [DeadResult EXCEPT !.ran = next.ran])
    BY DEF StepTask
  <1> HIDE DEF next, m
  <1>5. \E r \in Result : Ends(t, w, r)
    BY <1>2, <1>4
  <1>6. machine' \in [Workers -> Machine]
    BY <1>1, <1>3, <1>4
  <1> QED
    BY <1>4, <1>5, <1>6

LEMMA PoolTyped ==
    ASSUME PoolTypeOK, NEW t \in Threads, PoolStep(t) PROVE PoolTypeOK'
  <1> USE DEF PoolTypeOK
  <1>1. CASE Enter(t)
    <2>1. [call[t] EXCEPT !.phase = "tasks", !.todo = Workers] \in Call
      BY DEF Call
    <2>2. [call[t] EXCEPT !.phase = "panic"] \in Call
      BY DEF Call
    <2>3. call' \in [Threads -> Call]
      BY <1>1, <2>1, <2>2 DEF Enter, Panics
    <2> QED
      BY <1>1, <2>3 DEF Enter
  <1>2. ASSUME NEW w \in Workers, ResetTask(t, w) PROVE PoolTypeOK'
    <2>1. PICK panics \in BOOLEAN :
              /\ machine' = [machine EXCEPT ![w] =
                    [life |-> @.life + 1, clock |-> 0, dead |-> panics, ran |-> NoAction,
                     peak |-> @.peak]]
              /\ Ends(t, w, IF panics THEN DeadResult ELSE [NoResult EXCEPT !.kind = "live"])
      BY <1>2 DEF ResetTask
    <2>2. [NoResult EXCEPT !.kind = "live"] \in Result
      BY ConstantsTyped DEF NoResult, Result
    <2>3. call' \in [Threads -> Call]
      BY <2>1, <2>2, ConstantsTyped, EndsTyped
    <2>4. machine' \in [Workers -> Machine]
      BY <2>1, ConstantsTyped DEF Machine
    <2> QED
      BY <1>2, <2>3, <2>4 DEF ResetTask
  <1>3. ASSUME NEW w \in Workers, StepTask(t, w) PROVE PoolTypeOK'
    <2>1. PICK r \in Result : Ends(t, w, r)
      BY <1>3, StepResultTyped
    <2> QED
      BY <1>3, <2>1, StepResultTyped, EndsTyped DEF StepTask
  <1>4. CASE Join(t) \/ Pace(t) \/ PeekCheck(t)
    <2>1. \A ph \in {"panic", "pace", "ret", "read"} : [call[t] EXCEPT !.phase = ph] \in Call
      BY DEF Call
    <2>2. call' \in [Threads -> Call]
      BY <1>4, <2>1 DEF Join, Pace, PeekCheck, Panics
    <2> QED
      BY <1>4, <2>2 DEF Join, Pace, PeekCheck
  <1>5. CASE PeekRead(t)
    <2>1. [w \in Workers |-> machine[w].peak] \in [Workers -> Stamp]
      BY DEF Machine
    <2>2. [call[t] EXCEPT !.phase = "ret", !.peaks = [w \in Workers |-> machine[w].peak]] \in Call
      BY <2>1 DEF Call
    <2> QED
      BY <1>5, <2>2 DEF PeekRead
  <1> QED
    BY <1>1, <1>2, <1>3, <1>4, <1>5 DEF PoolStep


(* A call only changes the record of the thread that makes it.             *)
LEMMA PoolStepLocal ==
    ASSUME PoolTypeOK, NEW t \in Threads, PoolStep(t), NEW u \in Threads, u # t
    PROVE  call'[u] = call[u]
  <1> USE DEF PoolTypeOK
  <1>1. CASE Enter(t)
    BY <1>1 DEF Enter, Panics
  <1>2. ASSUME NEW w \in Workers, ResetTask(t, w) \/ StepTask(t, w)
        PROVE  call'[u] = call[u]
    <2>1. PICK r : Ends(t, w, r)
      BY <1>2 DEF ResetTask, StepTask
    <2> QED
      BY <2>1 DEF Ends
  <1>3. CASE Join(t) \/ Pace(t) \/ PeekCheck(t)
    BY <1>3 DEF Join, Pace, PeekCheck, Panics
  <1>4. CASE PeekRead(t)
    BY <1>4 DEF PeekRead
  <1> QED
    BY <1>1, <1>2, <1>3, <1>4 DEF PoolStep

(* How a call moves on, and what becomes of the flag: a thread enters the  *)
(* tasks when it raises the flag and leaves them when it lowers it.        *)
LEMMA PoolStepPhases ==
    ASSUME PoolTypeOK, NEW t \in Threads, PoolStep(t)
    PROVE  \/ /\ call[t].phase = "enter" /\ call'[t].phase = "tasks"
              /\ ~section /\ section'
           \/ /\ call[t].phase = "tasks" /\ call'[t].phase \in {"pace", "ret"}
              /\ ~section'
           \/ /\ call[t].phase = "tasks" /\ call'[t].phase = "tasks"
              /\ section' = section
           \/ /\ call[t].phase \in {"enter", "pace"} /\ call'[t].phase = "panic"
              /\ section /\ section' = section
           \/ /\ call[t].phase \in {"enter", "pace"} /\ call'[t].phase \in {"ret", "read"}
              /\ ~section /\ section' = section
           \/ /\ call[t].phase = "read" /\ call'[t].phase = "ret"
              /\ section' = section
  <1> USE DEF PoolTypeOK
  <1>1. CASE Enter(t)
    <2>1. CASE section /\ Panics(t)
      BY <1>1, <2>1 DEF Enter, Panics, Call
    <2>2. CASE ~section
      <3> DEFINE c == [call[t] EXCEPT !.phase = "tasks", !.todo = Workers]
      <3>1. c.phase = "tasks"
        BY DEF Call
      <3>2. call' = [call EXCEPT ![t] = c] /\ section' /\ call[t].phase = "enter"
        BY <1>1, <2>2 DEF Enter
      <3> HIDE DEF c
      <3> QED
        BY <2>2, <3>1, <3>2
    <2> QED
      BY <1>1, <2>1, <2>2 DEF Enter
  <1>2. ASSUME NEW w \in Workers, ResetTask(t, w)
        PROVE  call[t].phase = "tasks" /\ call'[t].phase = "tasks" /\ section' = section
    <2>1. [NoResult EXCEPT !.kind = "live"] \in Result
      BY ConstantsTyped DEF NoResult, Result
    <2>2. PICK r \in Result : Ends(t, w, r)
      BY <1>2, <2>1, ConstantsTyped DEF ResetTask
    <2> QED
      BY <1>2, <2>2, EndsTyped DEF ResetTask, In
  <1>3. ASSUME NEW w \in Workers, StepTask(t, w)
        PROVE  call[t].phase = "tasks" /\ call'[t].phase = "tasks" /\ section' = section
    <2>1. PICK r \in Result : Ends(t, w, r)
      BY <1>3, StepResultTyped
    <2> QED
      BY <1>3, <2>1, EndsTyped DEF StepTask, In
  <1>4. CASE Join(t)
    BY <1>4 DEF Join, Call
  <1>5. CASE Pace(t)
    BY <1>5 DEF Pace, Panics, Call
  <1>6. CASE PeekCheck(t)
    BY <1>6 DEF PeekCheck, Panics, Call, In
  <1>7. CASE PeekRead(t)
    <2> DEFINE c == [call[t] EXCEPT !.phase = "ret",
                                    !.peaks = [w \in Workers |-> machine[w].peak]]
    <2>1. c.phase = "ret"
      BY DEF Call
    <2>2. call' = [call EXCEPT ![t] = c] /\ section' = section /\ call[t].phase = "read"
      BY <1>7 DEF PeekRead, In
    <2> HIDE DEF c
    <2> QED
      BY <2>1, <2>2
  <1> QED
    BY <1>1, <1>2, <1>3, <1>4, <1>5, <1>6, <1>7 DEF PoolStep

LEMMA PoolStepExclusive ==
    ASSUME PoolTypeOK, Exclusive, NEW t \in Threads, PoolStep(t) PROVE Exclusive'
  <1>1. \A u \in Threads : u # t => call'[u] = call[u]
    BY PoolStepLocal
  <1>2. \A u \in Threads : u # t => (u \in Dispatching' <=> u \in Dispatching)
    BY <1>1 DEF Dispatching
  <1>3. Dispatching \subseteq Threads /\ Dispatching' \subseteq Threads
    BY DEF Dispatching
  <1>4. t \in Dispatching <=> call[t].phase = "tasks"
    BY DEF Dispatching
  <1>5. t \in Dispatching' <=> call'[t].phase = "tasks"
    BY DEF Dispatching
  <1>6. section \in BOOLEAN /\ section' \in BOOLEAN
    BY PoolTyped DEF PoolTypeOK
  <1>7. CASE t \in Dispatching' /\ t \notin Dispatching
    <2>1. ~section /\ section'
      BY <1>4, <1>5, <1>7, PoolStepPhases
    <2>2. Dispatching = {}
      BY <2>1 DEF Exclusive
    <2> QED
      BY <1>2, <1>3, <1>7, <2>1, <2>2 DEF Exclusive
  <1>8. CASE t \notin Dispatching' /\ t \in Dispatching
    <2>1. ~section'
      BY <1>4, <1>5, <1>8, PoolStepPhases
    <2>2. Dispatching' = {}
      BY <1>2, <1>3, <1>8 DEF Exclusive
    <2> QED
      BY <2>1, <2>2 DEF Exclusive
  <1>9. CASE t \in Dispatching' <=> t \in Dispatching
    <2>1. section' = section
      BY <1>4, <1>5, <1>9, PoolStepPhases
    <2>2. Dispatching' = Dispatching
      BY <1>2, <1>3, <1>9
    <2> QED
      BY <2>1, <2>2 DEF Exclusive
  <1> QED
    BY <1>7, <1>8, <1>9

----------------------------------------------------------------------------
(* The pipeline keeps the invariant *)

LEMMA InitIInv == Init => IInv
  <1> SUFFICES ASSUME Init PROVE IInv
    OBVIOUS
  <1>1. PoolTypeOK
    BY ConstantsTyped DEF Init, PoolInit, PoolTypeOK, Machine
  <1>2. NoContext \in Context
    BY ConstantsTyped DEF NoContext, Context, Idle, Stamp, NoStamp
  <1>3. Typed
    <2>1. mode \in Modes /\ running \in BOOLEAN /\ abandoned \in BOOLEAN
      BY DEF Init
    <2>2. /\ batch \in 0 .. MaxBatches /\ turn \in 0 .. MaxSteps
          /\ obs \in [Workers -> Obs \cup {Blank}]
          /\ buffer \in [Workers -> Obs \cup {Blank}]
      BY DEF Init, Rows, Obs
    <2>3. done \in [Workers -> BOOLEAN]
      BY DEF Init
    <2>4. traj \in [Workers -> Seq(Tuple)] /\ flight \in [Threads -> Seq(Request)]
      BY EmptySeq DEF Init
    <2>5. ctx \in Context /\ todo \subseteq Workers /\ pc = "between"
      BY <1>2 DEF Init
    <2> QED
      BY <1>1, <2>1, <2>2, <2>3, <2>4, <2>5 DEF Typed
  <1>4. Shape
    BY EmptySeq DEF Init, Shape, Trainer, Threads
  <1>5. InStep /\ RowsOK
    BY EmptySeq DEF Init, InStep, RowsOK, Reached
  <1> QED
    BY <1>3, <1>4, <1>5 DEF IInv

LEMMA RowTyped ==
    ASSUME Typed, NEW w \in Workers, ~done[w] PROVE Row(w) \in Workers
  <1> DEFINE S == {v \in Active : v <= w}
  <1>1. S \subseteq 1 .. NumWorkers /\ w \in S
    BY DEF Active, Workers
  <1>2. IsFiniteSet(1 .. NumWorkers) /\ Cardinality(1 .. NumWorkers) = NumWorkers
    BY FS_Interval
  <1> HIDE DEF S
  <1>3. IsFiniteSet(S) /\ Cardinality(S) <= NumWorkers
    BY <1>1, <1>2, FS_Subset
  <1>4. Cardinality(S) \in Nat /\ Cardinality(S) # 0
    BY <1>1, <1>3, FS_CardinalityType, FS_EmptySet
  <1>5. Cardinality(S) \in 1 .. NumWorkers
    BY <1>3, <1>4
  <1> QED
    BY <1>5 DEF Row, S, Workers

LEMMA RequestTyped ==
    ASSUME Typed, turn < MaxSteps
    PROVE  /\ Choice \in [Workers -> Actions]
           /\ NewRequest \in Request
           /\ NewRequest.acts = Choice /\ NewRequest.rows \in [Workers -> 0 .. NumWorkers]
           /\ NewRequest.state = "queued"
           /\ \A w \in Workers : ~done[w] => NewRequest.rows[w] # 0
           /\ Forwarded \in [Workers -> Obs \cup {Blank}]
  <1>1. Choice \in [Workers -> Actions]
    <2>1. \A w \in Workers : [batch |-> batch, turn |-> turn + 1, obs |-> obs[w]] \in Actions
      BY DEF Typed, Actions
    <2> QED
      BY <2>1, ConstantsTyped DEF Choice
  <1>2. \A w \in Workers : ~done[w] => Row(w) \in 1 .. NumWorkers
    BY RowTyped DEF Workers
  <1> DEFINE rows == [w \in Workers |-> IF done[w] THEN 0 ELSE Row(w)]
  <1>3. rows \in [Workers -> 0 .. NumWorkers] /\ \A w \in Workers : ~done[w] => rows[w] # 0
    BY <1>2
  <1>4. NewRequest = [acts |-> Choice, rows |-> rows, state |-> "queued", res |-> Idle.res]
    BY DEF NewRequest
  <1>5. Idle.res \in [Workers -> Result]
    BY ConstantsTyped DEF Idle
  <1>6. Forwarded \in [Workers -> Obs \cup {Blank}]
    <2>1. ASSUME NEW r \in Workers, \E w \in Active : Row(w) = r
          PROVE  obs[CHOOSE w \in Active : Row(w) = r] \in Obs \cup {Blank}
      <3>1. (CHOOSE w \in Active : Row(w) = r) \in Active
        BY <2>1
      <3> QED
        BY <3>1 DEF Active, Typed
    <2> QED
      BY <2>1 DEF Forwarded, Typed, Rows
  <1> HIDE DEF rows
  <1> QED
    BY <1>1, <1>3, <1>4, <1>5, <1>6 DEF Request

LEMMA StartBatchIInv == ASSUME IInv, StartBatch PROVE IInv'
  <1> USE DEF IInv
  <1>1. /\ pc' = "reset" /\ batch' = batch + 1 /\ turn' = 0 /\ batch < MaxBatches
        /\ traj' = [w \in Workers |-> <<>>] /\ done' = [w \in Workers |-> FALSE]
        /\ buffer' = [r \in Rows |-> 0]
        /\ UNCHANGED <<section, machine, workerDone, mode, running, obs, flight, ctx, todo, abandoned>>
    BY DEF StartBatch
  <1>2. call' \in [Threads -> Call]
    BY ConstantsTyped, CallsTyped DEF StartBatch, Typed
  <1>3. Typed'
    BY <1>1, <1>2, EmptySeq DEF Typed, PoolTypeOK, Rows, Obs
  <1>4. Shape'
    <2>1. batch \in Nat /\ batch' \in Threads /\ batch' > batch
      BY <1>1 DEF Typed, Threads
    <2>2. \A b \in Threads : b > batch' => b > batch
      BY <1>1, <2>1 DEF Threads
    <2> QED
      BY <1>1, <2>1, <2>2 DEF Shape, Trainer
  <1>5. InStep'
    BY <1>1, EmptySeq DEF InStep, Reached
  <1>6. RowsOK'
    BY <1>1, <1>4, EmptySeq DEF RowsOK, Shape
  <1> QED
    BY <1>3, <1>4, <1>5, <1>6

LEMMA HangupTyped ==
    ASSUME Typed, NEW t \in Threads, Hangup(t) PROVE call' \in [Threads -> Call]
  BY ConstantsTyped DEF Typed, PoolTypeOK, Hangup

LEMMA ResetReturnsIInv == ASSUME IInv, ResetReturns PROVE IInv'
  <1> USE DEF IInv
  <1>1. /\ pc = "reset" /\ pc' = "top"
        /\ obs' = [w \in Workers |-> Seen(call[Trainer].res[w])]
        /\ UNCHANGED <<section, machine, workerDone, mode, running, batch, turn, buffer, done,
                       traj, flight, ctx, todo, abandoned>>
    BY DEF ResetReturns
  <1>2. call' \in [Threads -> Call]
    BY ConstantsTyped, HangupTyped DEF ResetReturns
  <1>3. obs' \in [Workers -> Obs \cup {Blank}]
    BY <1>1, ConstantsTyped DEF Typed, PoolTypeOK, Call, Result, Seen, Obs
  <1>4. Typed'
    BY <1>1, <1>2, <1>3 DEF Typed, PoolTypeOK
  <1>5. Shape'
    BY <1>1, EmptySeq DEF Shape, Async, Ahead
  <1>6. InStep'
    BY <1>1 DEF InStep, Reached, Async, Ahead
  <1>7. RowsOK'
    BY <1>1, EmptySeq DEF RowsOK, Shape
  <1> QED
    BY <1>4, <1>5, <1>6, <1>7

LEMMA ExitIInv ==
    ASSUME IInv, Halt \/ LeaveLoop \/ FutureFails \/ Crash PROVE IInv'
  <1> USE DEF IInv
  <1>1. CASE Halt
    <2>1. /\ UNCHANGED <<machines, mode, pc, batch, turn, obs, buffer, done, traj, flight, ctx,
                         todo, abandoned>>
          /\ running' \in BOOLEAN
      BY <1>1 DEF Halt
    <2>2. Typed'
      BY <2>1 DEF machines, Typed, PoolTypeOK
    <2>3. Shape'
      BY <2>1 DEF Shape, Async, Ahead
    <2>4. InStep'
      BY <2>1 DEF InStep, Reached, Async, Ahead
    <2>5. RowsOK'
      BY <2>1 DEF RowsOK, HasRows
    <2> QED
      BY <2>2, <2>3, <2>4, <2>5
  <1>2. CASE LeaveLoop
    <2>1. /\ pc = "top" /\ pc' \in {"drain", "between"}
          /\ UNCHANGED <<machines, mode, running, batch, turn, obs, buffer, done, traj, flight,
                         ctx, todo, abandoned>>
      BY <1>2 DEF LeaveLoop
    <2>2. Typed' /\ InStep' /\ RowsOK'
      BY <2>1 DEF machines, Typed, PoolTypeOK, InStep, RowsOK
    <2>3. Shape'
      BY <2>1 DEF Shape, Ahead
    <2> QED
      BY <2>2, <2>3
  <1>3. CASE FutureFails
    <2>1. /\ pc \in {"wait", "drain"} /\ pc' = "crashed"
          /\ UNCHANGED <<machines, mode, running, batch, turn, obs, buffer, done, traj, flight,
                         ctx, todo, abandoned>>
      BY <1>3 DEF FutureFails
    <2> QED
      BY <2>1 DEF machines, Typed, PoolTypeOK, InStep, RowsOK, Shape
  <1>4. CASE Crash
    <2>1. /\ pc \in {"reset", "step", "peek"} /\ pc' = "crashed"
          /\ UNCHANGED <<section, machine, workerDone, mode, running, batch, turn, obs, buffer,
                         done, traj, flight, ctx, todo, abandoned>>
      BY <1>4 DEF Crash
    <2>2. call' \in [Threads -> Call]
      BY <1>4, ConstantsTyped, HangupTyped DEF Crash
    <2> QED
      BY <2>1, <2>2 DEF Typed, PoolTypeOK, InStep, RowsOK, Shape
  <1> QED
    BY <1>1, <1>2, <1>3, <1>4

LEMMA TurnSyncIInv == ASSUME IInv, TurnSync PROVE IInv'
  <1> USE DEF IInv
  <1>1. /\ pc = "top" /\ turn < MaxSteps /\ ~Async /\ turn' = turn + 1 /\ pc' = "step"
        /\ buffer' = Forwarded
        /\ ctx' = [NoContext EXCEPT !.acts = NewRequest.acts, !.rows = NewRequest.rows]
        /\ Calls(Trainer, "step", Choice)
        /\ UNCHANGED <<section, machine, workerDone, mode, running, batch, obs, done, traj,
                       flight, todo, abandoned>>
    BY DEF TurnSync, InLoop
  <1>2. /\ Choice \in [Workers -> Actions]
        /\ NewRequest.acts = Choice /\ NewRequest.rows \in [Workers -> 0 .. NumWorkers]
        /\ \A w \in Workers : ~done[w] => NewRequest.rows[w] # 0
        /\ Forwarded \in [Workers -> Obs \cup {Blank}]
    BY <1>1, RequestTyped
  <1>3. call' \in [Threads -> Call]
    BY <1>1, <1>2, ConstantsTyped, CallsTyped DEF Typed
  <1>4. ctx' \in Context /\ ctx'.rows = NewRequest.rows
    <2> DEFINE acts == NewRequest.acts
               rows == NewRequest.rows
    <2>1. ctx' = [NoContext EXCEPT !.acts = acts, !.rows = rows]
      BY <1>1
    <2>2. acts \in [Workers -> Actions] /\ rows \in [Workers -> 0 .. NumWorkers]
      BY <1>2
    <2>3. Idle.res \in [Workers -> Result] /\ Idle.peaks \in [Workers -> Stamp]
      BY ConstantsTyped DEF Idle
    <2> HIDE DEF acts, rows
    <2>4. ctx' \in Context /\ ctx'.rows = rows
      BY <2>1, <2>2, <2>3 DEF NoContext, Context
    <2> QED
      BY <2>4 DEF rows
  <1>5. turn \in Nat /\ turn' \in 0 .. MaxSteps
    BY <1>1 DEF Typed
  <1>6. Typed'
    BY <1>1, <1>2, <1>3, <1>4, <1>5 DEF Typed, PoolTypeOK
  <1>7. Shape'
    <2>1. Len(flight[batch]) = 0 /\ flight[batch] \in Seq(Request)
      BY <1>1 DEF Shape, Ahead, Typed, Threads
    <2>2. flight[batch] = <<>>
      BY <2>1, EmptySeq
    <2> QED
      BY <1>1, <1>5, <2>2 DEF Shape, Async, Ahead
  <1>8. InStep'
    <2>1. \A w \in Workers : Len(traj[w]) \in Nat
      BY LenProperties DEF Typed
    <2> QED
      BY <1>1, <1>5, <2>1 DEF InStep, Reached, Async, Ahead
  <1>9. RowsOK'
    BY <1>1, <1>2, <1>4, <1>7, EmptySeq DEF RowsOK, HasRows, Shape
  <1> QED
    BY <1>6, <1>7, <1>8, <1>9

LEMMA TurnAsyncIInv == ASSUME IInv, TurnAsync PROVE IInv'
  <1> USE DEF IInv
  <1>1. /\ pc = "top" /\ turn < MaxSteps /\ Async /\ turn' = turn + 1
        /\ pc' = IF flight[batch] = <<>> THEN "top" ELSE "wait"
        /\ buffer' = Forwarded
        /\ flight' = [flight EXCEPT ![batch] = Append(@, NewRequest)]
        /\ UNCHANGED <<machines, mode, running, batch, obs, done, traj, ctx, todo, abandoned>>
    BY DEF TurnAsync, InLoop
  <1>2. /\ NewRequest \in Request
        /\ \A w \in Workers : ~done[w] => NewRequest.rows[w] # 0
        /\ Forwarded \in [Workers -> Obs \cup {Blank}]
    BY <1>1, RequestTyped
  <1>3. turn \in Nat /\ turn' \in 0 .. MaxSteps /\ batch \in Threads
    BY <1>1 DEF Typed, Threads
  <1> DEFINE f == Append(flight[batch], NewRequest)
  <1>4. flight[batch] \in Seq(Request) /\ Len(flight[batch]) \in Nat
    BY <1>3, LenProperties DEF Typed
  <1>5. /\ f \in Seq(Request) /\ Len(f) = Len(flight[batch]) + 1
        /\ \A i \in 1 .. Len(flight[batch]) : f[i] = flight[batch][i]
        /\ f[Len(flight[batch]) + 1] = NewRequest
    BY <1>2, <1>4, AppendProperties
  <1>6. flight' = [flight EXCEPT ![batch] = f]
    BY <1>1
  <1> HIDE DEF f
  <1>7. Typed'
    BY <1>1, <1>2, <1>3, <1>5, <1>6 DEF machines, Typed, PoolTypeOK
  <1>8. Len(flight[batch]) = IF turn = 0 THEN 0 ELSE 1
    BY <1>1 DEF Shape, Ahead
  <1>9. flight[batch] = <<>> <=> turn = 0
    BY <1>4, <1>8, EmptySeq
  <1>10. flight'[batch] = f /\ \A b \in Threads : b # batch => flight'[b] = flight[b]
    BY <1>3, <1>6 DEF Typed
  <1>11. Shape'
    BY <1>1, <1>3, <1>5, <1>8, <1>9, <1>10 DEF Shape, Ahead, Async, Threads
  <1>12. InStep'
    <2>1. \A w \in Workers : Len(traj[w]) \in Nat
      BY LenProperties DEF Typed
    <2> QED
      BY <1>1, <1>3, <1>9, <2>1 DEF InStep, Reached, Async, Ahead
  <1>13. RowsOK'
    <2>1. HasRows(NewRequest)
      BY <1>2 DEF HasRows
    <2>2. \A i \in 1 .. Len(flight[batch]) : HasRows(flight[batch][i])
      BY <1>1 DEF RowsOK
    <2>3. \A i \in 1 .. Len(f) : HasRows(f[i])
      <3>1. \A i \in 1 .. Len(f) : i \in 1 .. Len(flight[batch]) \/ i = Len(flight[batch]) + 1
        BY <1>4, <1>5
      <3> QED
        BY <1>5, <2>1, <2>2, <3>1
    <2> QED
      BY <1>1, <1>10, <2>3 DEF RowsOK, HasRows
  <1> QED
    BY <1>7, <1>11, <1>12, <1>13

(* The executor touches neither the number of the requests nor their rows. *)
LEMMA ExecutorIInv ==
    ASSUME IInv, NEW b \in Threads, UNCHANGED <<section, machine, workerDone, trainer>>,
           call' \in [Threads -> Call], NEW f \in Seq(Request),
           Len(f) = Len(flight[b]), \A i \in 1 .. Len(flight[b]) : f[i].rows = flight[b][i].rows,
           flight' = [flight EXCEPT ![b] = f]
    PROVE  IInv'
  <1> USE DEF IInv
  <1>1. /\ flight'[b] = f /\ \A d \in Threads : d # b => flight'[d] = flight[d]
        /\ flight' \in [Threads -> Seq(Request)]
    BY DEF Typed
  <1>2. Typed'
    BY <1>1 DEF trainer, Typed, PoolTypeOK
  <1>3. \A d \in Threads : Len(flight'[d]) = Len(flight[d])
    BY <1>1
  <1>4. \A d \in Threads : flight[d] = <<>> <=> flight'[d] = <<>>
    <2>1. \A d \in Threads : flight[d] \in Seq(Request) /\ flight'[d] \in Seq(Request)
      BY <1>1 DEF Typed
    <2> QED
      BY <1>3, <2>1, EmptySeq
  <1>5. batch \in Threads
    BY DEF Typed, Threads
  <1>6. Shape'
    BY <1>3, <1>4, <1>5 DEF trainer, Shape, Async, Ahead
  <1>7. InStep'
    BY DEF trainer, InStep, Reached, Async, Ahead
  <1>8. \A i \in 1 .. Len(flight[batch]) : flight'[batch][i].rows = flight[batch][i].rows
    BY <1>1, <1>5
  <1>9. RowsOK'
    BY <1>3, <1>5, <1>8 DEF trainer, RowsOK, HasRows
  <1> QED
    BY <1>2, <1>6, <1>7, <1>9

LEMMA PipeTakeIInv == ASSUME IInv, NEW b \in Threads, PipeTake(b) PROVE IInv'
  <1> USE DEF IInv
  <1>1. PICK i \in Submitted(b) :
            /\ Calls(b, "step", flight[b][i].acts)
            /\ flight' = [flight EXCEPT ![b] = Taken(@, i)]
    BY DEF PipeTake
  <1> DEFINE r == [flight[b][i] EXCEPT !.state = "running"]
             f == Taken(flight[b], i)
  <1>2. flight[b] \in Seq(Request) /\ i \in 1 .. Len(flight[b])
    BY DEF Typed, Submitted
  <1>3. flight[b][i] \in Request
    BY <1>2, ElementOfSeq
  <1>4. r \in Request /\ r.rows = flight[b][i].rows
    BY <1>3 DEF Request
  <1>5. flight' = [flight EXCEPT ![b] = f]
    BY <1>1
  <1> HIDE DEF f
  <1>10. f = [flight[b] EXCEPT ![i] = r]
    BY DEF f, Taken
  <1> HIDE DEF r
  <1>6. /\ f \in Seq(Request) /\ Len(f) = Len(flight[b])
        /\ \A j \in 1 .. Len(flight[b]) : f[j] = IF j = i THEN r ELSE flight[b][j]
    BY <1>2, <1>4, <1>10, ExceptSeq
  <1>7. call' \in [Threads -> Call]
    BY <1>1, <1>3, CallsTyped DEF Typed, Request
  <1>8. \A j \in 1 .. Len(flight[b]) : f[j].rows = flight[b][j].rows
    BY <1>4, <1>6
  <1>9. UNCHANGED <<section, machine, workerDone, trainer>>
    BY DEF PipeTake
  <1> QED
    BY <1>5, <1>6, <1>7, <1>8, <1>9, ExecutorIInv

LEMMA PipeDoneIInv == ASSUME IInv, NEW b \in Threads, PipeDone(b) PROVE IInv'
  <1> USE DEF IInv
  <1> DEFINE n == Len(flight[b])
             Finished(r) == [r EXCEPT !.res = call[b].res,
                                 !.state = IF call[b].phase = "ret" THEN "ok" ELSE "failed"]
             f == [i \in 1 .. n |->
                      IF flight[b][i].state # "running" THEN flight[b][i]
                      ELSE Finished(flight[b][i])]
  <1>1. flight[b] \in Seq(Request) /\ n \in Nat
    BY LenProperties DEF Typed
  <1>2. ASSUME NEW i \in 1 .. n
        PROVE  f[i] \in Request /\ f[i].rows = flight[b][i].rows
    <2>1. flight[b][i] \in Request /\ call[b].res \in [Workers -> Result]
      BY <1>1, ElementOfSeq DEF Typed, PoolTypeOK, Call
    <2> DEFINE r == flight[b][i]
               res == call[b].res
               state == IF call[b].phase = "ret" THEN "ok" ELSE "failed"
               fin == [r EXCEPT !.res = res, !.state = state]
    <2>2. f[i] = IF r.state # "running" THEN r ELSE fin
      OBVIOUS
    <2>3. state \in {"ok", "failed"}
      OBVIOUS
    <2> HIDE DEF r, res, state, f
    <2>4. fin \in Request /\ fin.rows = r.rows
      BY <2>1, <2>3 DEF Request, r, res
    <2> HIDE DEF fin
    <2> QED
      BY <2>1, <2>2, <2>4 DEF r
  <1>3. flight' = [flight EXCEPT ![b] = f]
    BY DEF PipeDone
  <1>4. f \in [1 .. n -> Request]
    <2>1. DOMAIN f = 1 .. n
      OBVIOUS
    <2> QED
      BY <1>2
  <1> HIDE DEF f
  <1>5. f \in Seq(Request) /\ Len(f) = n
    BY <1>1, <1>4
  <1>6. call' \in [Threads -> Call]
    BY HangupTyped DEF PipeDone
  <1>7. UNCHANGED <<section, machine, workerDone, trainer>>
    BY DEF PipeDone
  <1>8. \A i \in 1 .. n : f[i].rows = flight[b][i].rows
    BY <1>2
  <1> QED
    BY <1>3, <1>5, <1>6, <1>7, <1>8, ExecutorIInv

LEMMA StepReturnsIInv == ASSUME IInv, StepReturns PROVE IInv'
  <1> USE DEF IInv
  <1>1. /\ pc = "step" /\ ctx' = [ctx EXCEPT !.res = call[Trainer].res]
        /\ Hangup(Trainer)
        /\ pc' \in {"peek", "process"} /\ todo' = Workers
        /\ UNCHANGED <<section, machine, workerDone, mode, running, batch, turn, obs, buffer,
                       done, traj, flight, abandoned>>
    BY DEF StepReturns, ToProcess
  <1>2. call' \in [Threads -> Call]
    BY <1>1, ConstantsTyped, HangupTyped
  <1>3. call[Trainer].res \in [Workers -> Result]
    BY ConstantsTyped DEF Typed, PoolTypeOK, Call
  <1>4. ctx' \in Context /\ ctx'.rows = ctx.rows
    BY <1>1, <1>3 DEF Typed, Context
  <1>5. Typed'
    BY <1>1, <1>2, <1>4 DEF Typed, PoolTypeOK
  <1>6. Shape'
    BY <1>1, EmptySeq DEF Shape, Async, Ahead
  <1>7. InStep'
    BY <1>1 DEF InStep, Reached, Async, Ahead
  <1>8. RowsOK'
    BY <1>1, <1>4 DEF RowsOK, HasRows
  <1> QED
    BY <1>5, <1>6, <1>7, <1>8

LEMMA AwaitIInv == ASSUME IInv, Await PROVE IInv'
  <1> USE DEF IInv
  <1> DEFINE h == Head(flight[batch])
             f == Tail(flight[batch])
  <1>1. /\ pc = "wait"
        /\ ctx' = [NoContext EXCEPT !.acts = h.acts, !.rows = h.rows, !.res = h.res]
        /\ pc' \in {"peek", "process"} /\ todo' = Workers
        /\ flight' = [flight EXCEPT ![batch] = f]
        /\ UNCHANGED <<machines, mode, running, batch, turn, obs, buffer, done, traj, abandoned>>
    BY DEF Await, ToProcess
  <1>2. batch \in Threads /\ flight[batch] \in Seq(Request) /\ Len(flight[batch]) = 2
    BY <1>1 DEF Typed, Threads, Shape
  <1>3. /\ h \in Request /\ f \in Seq(Request) /\ Len(f) = 1
        /\ f[1] = flight[batch][2] /\ h = flight[batch][1]
    BY <1>2, EmptySeq, HeadTailProperties
  <1> HIDE DEF h, f
  <1>4. ctx' \in Context /\ ctx'.rows = h.rows
    <2> DEFINE acts == h.acts
               rows == h.rows
               res == h.res
    <2>1. ctx' = [NoContext EXCEPT !.acts = acts, !.rows = rows, !.res = res]
      BY <1>1
    <2>2. /\ acts \in [Workers -> Actions] /\ rows \in [Workers -> 0 .. NumWorkers]
          /\ res \in [Workers -> Result]
      BY <1>3 DEF Request
    <2>3. Idle.res \in [Workers -> Result] /\ Idle.peaks \in [Workers -> Stamp]
      BY ConstantsTyped DEF Idle
    <2> HIDE DEF acts, rows, res
    <2>4. ctx' \in Context /\ ctx'.rows = rows
      BY <2>1, <2>2, <2>3 DEF NoContext, Context
    <2> QED
      BY <2>4 DEF rows
  <1>5. /\ flight'[batch] = f /\ \A b \in Threads : b # batch => flight'[b] = flight[b]
        /\ flight' \in [Threads -> Seq(Request)]
    BY <1>1, <1>2, <1>3 DEF Typed
  <1>6. Typed'
    BY <1>1, <1>4, <1>5 DEF machines, Typed, PoolTypeOK
  <1>7. Shape'
    BY <1>1, <1>2, <1>3, <1>5 DEF Shape, Async, Ahead, Threads
  <1>8. InStep'
    BY <1>1 DEF InStep, Reached, Async, Ahead
  <1>9. RowsOK'
    <2>1. HasRows(flight[batch][1]) /\ HasRows(flight[batch][2])
      BY <1>1, <1>2 DEF RowsOK
    <2>2. HasRows(flight'[batch][1]) /\ Len(flight'[batch]) = 1 /\ HasRows(ctx')
      BY <1>3, <1>4, <1>5, <2>1 DEF HasRows
    <2>3. \A i \in 1 .. Len(flight'[batch]) : HasRows(flight'[batch][i])
      <3>1. \A i \in 1 .. Len(flight'[batch]) : i = 1
        BY <2>2
      <3> QED
        BY <2>2, <3>1
    <2> QED
      BY <1>1, <2>2, <2>3 DEF RowsOK, HasRows
  <1> QED
    BY <1>6, <1>7, <1>8, <1>9

LEMMA PeekIInv == ASSUME IInv, PeekCall \/ PeekReturns PROVE IInv'
  <1> USE DEF IInv
  <1>1. CASE PeekCall
    <2>1. UNCHANGED <<section, machine, workerDone, trainer, flight>>
      BY <1>1 DEF PeekCall
    <2>2. call' \in [Threads -> Call]
      BY <1>1, ConstantsTyped, CallsTyped DEF PeekCall, Typed
    <2>3. Typed'
      BY <2>1, <2>2 DEF trainer, Typed, PoolTypeOK
    <2>4. Shape'
      BY <2>1 DEF trainer, Shape, Async, Ahead
    <2>5. InStep'
      BY <2>1 DEF trainer, InStep, Reached, Async, Ahead
    <2>6. RowsOK'
      BY <2>1 DEF trainer, RowsOK, HasRows
    <2> QED
      BY <2>3, <2>4, <2>5, <2>6
  <1>2. CASE PeekReturns
    <2>1. /\ pc = "peek" /\ pc' = "process" /\ ctx' = [ctx EXCEPT !.peaks = call[Trainer].peaks]
          /\ UNCHANGED <<section, machine, workerDone, mode, running, batch, turn, obs, buffer,
                         done, traj, flight, todo, abandoned>>
      BY <1>2 DEF PeekReturns
    <2>2. call' \in [Threads -> Call]
      BY <1>2, ConstantsTyped, HangupTyped DEF PeekReturns
    <2>3. call[Trainer].peaks \in [Workers -> Stamp]
      BY ConstantsTyped DEF Typed, PoolTypeOK, Call
    <2>4. ctx' \in Context /\ ctx'.rows = ctx.rows
      BY <2>1, <2>3 DEF Typed, Context
    <2>5. Typed'
      BY <2>1, <2>2, <2>4 DEF Typed, PoolTypeOK
    <2>6. Shape'
      BY <2>1 DEF Shape, Async, Ahead
    <2>7. InStep'
      BY <2>1 DEF InStep, Reached, Async, Ahead
    <2>8. RowsOK'
      BY <2>1, <2>4 DEF RowsOK, HasRows
    <2> QED
      BY <2>5, <2>6, <2>7, <2>8
  <1> QED
    BY <1>1, <1>2

LEMMA DrainIInv == ASSUME IInv, Drain PROVE IInv'
  <1> USE DEF IInv
  <1>1. /\ pc = "drain" /\ pc' = "between" /\ abandoned' \in BOOLEAN
        /\ flight' = flight \/ flight' = [flight EXCEPT ![batch] = <<>>]
        /\ UNCHANGED <<machines, mode, running, batch, turn, obs, buffer, done, traj, ctx, todo>>
    BY DEF Drain, Typed
  <1>2. batch \in Threads
    BY DEF Typed, Threads
  <1>3. /\ flight' \in [Threads -> Seq(Request)]
        /\ \A b \in Threads : flight'[b] = flight[b] \/ flight'[b] = <<>>
    BY <1>1, <1>2, EmptySeq DEF Typed
  <1>4. Typed'
    BY <1>1, <1>3 DEF machines, Typed, PoolTypeOK
  <1>5. Shape'
    BY <1>1, <1>3, EmptySeq DEF Shape
  <1>6. InStep' /\ RowsOK'
    BY <1>1 DEF InStep, RowsOK
  <1> QED
    BY <1>4, <1>5, <1>6

(* What recording one result does to the episode it belongs to. *)
LEMMA ProcessRecords ==
    ASSUME IInv, NEW w \in Workers, Process(w), ~done[w]
    PROVE  \E over \in BOOLEAN : \E tu \in Tuple :
              /\ tu = NewTuple(w, over) /\ (ctx.res[w].kind # "live" => over)
              /\ obs' = [obs EXCEPT ![w] = Seen(ctx.res[w])]
              /\ traj' = [traj EXCEPT ![w] = Append(@, tu)]
              /\ done' = [done EXCEPT ![w] = over]
              /\ workerDone' = [workerDone EXCEPT ![w] = @ \/ over]
  <1> USE DEF IInv
  <1>1. PICK rewDone \in BOOLEAN :
            LET over == rewDone \/ ctx.res[w].kind # "live"
            IN /\ obs' = [obs EXCEPT ![w] = Seen(ctx.res[w])]
               /\ traj' = [traj EXCEPT ![w] = Append(@, NewTuple(w, over))]
               /\ done' = [done EXCEPT ![w] = over]
               /\ workerDone' = [workerDone EXCEPT ![w] = @ \/ over]
    BY DEF Process
  <1> DEFINE over == rewDone \/ ctx.res[w].kind # "live"
  <1>2. over \in BOOLEAN
    OBVIOUS
  <1>3. NewTuple(w, over) \in Tuple
    <2>1. /\ ctx.res[w] \in Result /\ ctx.acts[w] \in Actions /\ ctx.peaks[w] \in Stamp
          /\ ctx.rows[w] \in 0 .. NumWorkers
      BY DEF Typed, Context
    <2>2. ctx.rows[w] # 0
      BY DEF Process, RowsOK, HasRows
    <2>3. buffer[ctx.rows[w]] \in Obs \cup {Blank}
      BY <2>1, <2>2 DEF Typed, Workers
    <2> DEFINE live == ctx.res[w].kind = "live"
    <2>4. live \in BOOLEAN
      OBVIOUS
    <2> HIDE DEF over
    <2>5. NewTuple(w, over) =
            [obs |-> buffer[ctx.rows[w]], act |-> ctx.acts[w], ran |-> ctx.res[w].ran,
             live |-> live, clock |-> ctx.res[w].clock, peak |-> ctx.peaks[w], over |-> over]
      BY DEF NewTuple
    <2> HIDE DEF live
    <2> QED
      BY <1>2, <2>1, <2>3, <2>4, <2>5 DEF Tuple, Result
  <1>4. /\ obs' = [obs EXCEPT ![w] = Seen(ctx.res[w])]
        /\ traj' = [traj EXCEPT ![w] = Append(@, NewTuple(w, over))]
        /\ done' = [done EXCEPT ![w] = over]
        /\ workerDone' = [workerDone EXCEPT ![w] = @ \/ over]
    BY <1>1
  <1>5. ctx.res[w].kind # "live" => over
    OBVIOUS
  <1> HIDE DEF over
  <1> QED
    BY <1>2, <1>3, <1>4, <1>5

LEMMA ProcessIInv == ASSUME IInv, NEW w \in Workers, Process(w) PROVE IInv'
  <1> USE DEF IInv
  <1>1. /\ pc = "process" /\ w \in todo /\ todo' = todo \ {w}
        /\ pc' = IF todo' = {} THEN "top" ELSE "process"
        /\ ctx' = IF todo' = {} THEN NoContext ELSE ctx
        /\ UNCHANGED <<section, machine, call, mode, running, batch, turn, buffer, flight, abandoned>>
    BY DEF Process, Processed
  <1>2. \A v \in Workers : Len(traj[v]) \in Nat /\ traj[v] \in Seq(Tuple)
    BY LenProperties DEF Typed
  <1>3. Reached \in Nat /\ Reached <= turn /\ UNCHANGED Reached
    BY <1>1 DEF Typed, Shape, Reached, Async, Ahead
  <1>4. /\ obs' \in [Workers -> Obs \cup {Blank}]
        /\ traj' \in [Workers -> Seq(Tuple)]
        /\ done' \in [Workers -> BOOLEAN]
        /\ workerDone' \in [Workers -> BOOLEAN]
        /\ \A v \in Workers : v # w => traj'[v] = traj[v] /\ done'[v] = done[v]
        /\ ~done'[w] => ~done[w]
        /\ ~done[w] => Len(traj'[w]) = Len(traj[w]) + 1
        /\ done[w] => traj'[w] = traj[w]
    <2>1. CASE done[w]
      <3>1. UNCHANGED <<obs, traj, done, workerDone>>
        BY <2>1 DEF Process
      <3> QED
        BY <2>1, <3>1 DEF Typed, PoolTypeOK
    <2>2. CASE ~done[w]
      <3>1. PICK over \in BOOLEAN, tu \in Tuple :
              /\ obs' = [obs EXCEPT ![w] = Seen(ctx.res[w])]
              /\ traj' = [traj EXCEPT ![w] = Append(@, tu)]
              /\ done' = [done EXCEPT ![w] = over]
              /\ workerDone' = [workerDone EXCEPT ![w] = @ \/ over]
        BY <2>2, ProcessRecords
      <3>2. Seen(ctx.res[w]) \in Obs \cup {Blank}
        BY DEF Typed, Context, Result, Seen, Obs
      <3>3. obs' \in [Workers -> Obs \cup {Blank}]
        BY <3>1, <3>2 DEF Typed
      <3>4. Append(traj[w], tu) \in Seq(Tuple) /\ Len(Append(traj[w], tu)) = Len(traj[w]) + 1
        BY <1>2, AppendProperties
      <3>5. /\ traj' \in [Workers -> Seq(Tuple)] /\ Len(traj'[w]) = Len(traj[w]) + 1
            /\ \A v \in Workers : v # w => traj'[v] = traj[v]
        BY <3>1, <3>4 DEF Typed
      <3>6. /\ done' \in [Workers -> BOOLEAN] /\ workerDone' \in [Workers -> BOOLEAN]
            /\ \A v \in Workers : v # w => done'[v] = done[v]
        BY <3>1, Zenon DEF Typed, PoolTypeOK
      <3> QED
        BY <2>2, <3>3, <3>5, <3>6
    <2> QED
      BY <2>1, <2>2
  <1>5. Typed'
    <2>1. NoContext \in Context
      BY ConstantsTyped DEF NoContext, Context, Idle, Stamp, NoStamp
    <2>2. ctx' \in Context /\ todo' \subseteq Workers
      BY <1>1, <2>1 DEF Typed
    <2> QED
      BY <1>1, <1>4, <2>2 DEF Typed, PoolTypeOK
  <1>6. Shape'
    <2>1. turn \in Nat
      BY DEF Typed
    <2> QED
      BY <1>1, <2>1 DEF Shape, Async, Ahead
  <1>7. InStep'
    <2>1. \A v \in Workers : ~done[v] =>
              Len(traj[v]) + (IF v \in todo THEN 1 ELSE 0) = Reached
      BY <1>1 DEF InStep
    <2>2. ASSUME NEW v \in Workers
          PROVE  Len(traj'[v]) <= turn
      <3>1. CASE v = w /\ ~done[w]
        BY <1>1, <1>2, <1>3, <1>4, <2>1, <3>1 DEF Typed
      <3>2. CASE v # w \/ done[w]
        BY <1>4, <3>2 DEF InStep
      <3> QED
        BY <3>1, <3>2
    <2>3. ASSUME NEW v \in Workers, ~done'[v]
          PROVE  Len(traj'[v]) + (IF v \in todo' THEN 1 ELSE 0) = Reached
      <3>1. CASE v = w
        <4>1. ~done[w] /\ w \in todo /\ w \notin todo'
          BY <1>1, <1>4, <2>3, <3>1
        <4>2. Len(traj[w]) + 1 = Reached /\ Len(traj'[w]) = Len(traj[w]) + 1
          BY <1>4, <2>1, <4>1
        <4>3. Len(traj'[w]) = Reached /\ Len(traj'[w]) \in Nat
          BY <1>3, <4>2
        <4> QED
          BY <3>1, <4>1, <4>3
      <3>2. CASE v # w
        BY <1>1, <1>4, <2>1, <2>3, <3>2
      <3> QED
        BY <3>1, <3>2
    <2>4. \A v \in Workers : Len(traj'[v]) \in Nat
      BY <1>4, LenProperties
    <2>5. CASE todo' = {}
      <3>1. \A v \in Workers : ~done'[v] => Len(traj'[v]) = Reached'
        BY <1>3, <2>3, <2>4, <2>5
      <3> QED
        BY <1>1, <2>2, <2>5, <3>1 DEF InStep
    <2>6. CASE todo' # {}
      <3>1. \A v \in Workers : ~done'[v] =>
                Len(traj'[v]) + (IF v \in todo' THEN 1 ELSE 0) = Reached'
        BY <1>3, <2>3
      <3> QED
        BY <1>1, <2>2, <2>6, <3>1 DEF InStep
    <2> QED
      BY <2>5, <2>6
  <1>8. RowsOK'
    <2>1. \A v \in Workers : ~done'[v] => ~done[v]
      BY <1>4
    <2> QED
      BY <1>1, <2>1 DEF RowsOK, HasRows
  <1> QED
    BY <1>5, <1>6, <1>7, <1>8

LEMMA PoolStepsIInv == ASSUME IInv, NEW t \in Threads, PoolSteps(t) PROVE IInv'
  <1> USE DEF IInv
  <1>1. PoolTypeOK' /\ UNCHANGED <<trainer, flight>>
    BY PoolTyped DEF PoolSteps, Typed
  <1>2. Typed'
    BY <1>1 DEF trainer, Typed
  <1>3. Shape'
    BY <1>1 DEF trainer, Shape, Async, Ahead
  <1>4. InStep'
    BY <1>1 DEF trainer, InStep, Reached, Async, Ahead
  <1>5. RowsOK'
    BY <1>1 DEF trainer, RowsOK, HasRows
  <1> QED
    BY <1>2, <1>3, <1>4, <1>5

LEMMA StepIInv == IInv /\ [Next]_vars => IInv'
  <1> SUFFICES ASSUME IInv, [Next]_vars PROVE IInv'
    OBVIOUS
  <1>1. CASE TrainerStep
    <2>1. ASSUME NEW w \in Workers, Process(w) PROVE IInv'
      BY <2>1, ProcessIInv
    <2> QED
      BY <1>1, <2>1, StartBatchIInv, ResetReturnsIInv, ExitIInv, TurnSyncIInv, TurnAsyncIInv,
         StepReturnsIInv, AwaitIInv, PeekIInv, DrainIInv DEF TrainerStep
  <1>2. CASE Halt
    BY <1>2, ExitIInv
  <1>3. ASSUME NEW t \in Threads, PoolSteps(t) \/ PipeTake(t) \/ PipeDone(t) PROVE IInv'
    BY <1>3, PoolStepsIInv, PipeTakeIInv, PipeDoneIInv
  <1>4. CASE UNCHANGED vars
    <2>1. UNCHANGED <<machines, trainer, flight>>
      BY <1>4 DEF vars
    <2>2. Typed'
      BY <2>1 DEF machines, trainer, Typed, PoolTypeOK, IInv
    <2>3. Shape'
      BY <2>1 DEF trainer, Shape, Async, Ahead, IInv
    <2>4. InStep'
      BY <2>1 DEF trainer, InStep, Reached, Async, Ahead, IInv
    <2>5. RowsOK'
      BY <2>1 DEF trainer, RowsOK, HasRows, IInv
    <2> QED
      BY <2>2, <2>3, <2>4, <2>5 DEF IInv
  <1> QED
    BY <1>1, <1>2, <1>3, <1>4 DEF Next

(* Type correctness of the trainer, the executors and the pool.            *)
THEOREM TypeCorrect == Spec => []TypeOK
  <1>1. IInv => TypeOK
    BY DEF IInv, Typed, Shape, InStep, TypeOK, Rows
  <1> QED
    BY <1>1, InitIInv, StepIInv, PTL DEF Spec

----------------------------------------------------------------------------
(* What a step does, variable by variable *)

(* A thread's dispatch begins: it raises the flag and has every machine to *)
(* visit.                                                                  *)
EntersTasks(t) ==
    /\ call[t].op \in {"reset", "step"} /\ call[t].phase = "enter"
    /\ call'[t].phase = "tasks" /\ call'[t].todo = Workers
    /\ call'[t].res = call[t].res /\ call'[t].peaks = call[t].peaks
    /\ machine' = machine
    /\ workerDone' = IF call[t].op = "reset" THEN [w \in Workers |-> FALSE] ELSE workerDone

(* A task of a dispatch touches one machine and ends in one result.        *)
RunsTask(t, w) ==
    /\ call[t].phase = "tasks" /\ call'[t].phase = "tasks"
    /\ w \in call[t].todo /\ call'[t].todo = call[t].todo \ {w}
    /\ call'[t].peaks = call[t].peaks
    /\ workerDone' = workerDone
    /\ \A v \in Workers : v # w => machine'[v] = machine[v] /\ call'[t].res[v] = call[t].res[v]

RunsReset(t, w) ==
    /\ RunsTask(t, w) /\ call[t].op = "reset"
    /\ machine'[w].life = machine[w].life + 1
    /\ machine'[w].clock = 0 /\ machine'[w].ran = NoAction
    /\ call'[t].res[w].clock = 0

PassesOver(t, w) ==
    /\ RunsTask(t, w) /\ call[t].op = "step"
    /\ machine' = machine
    /\ IF machine[w].dead THEN call'[t].res[w].kind = "dead" ELSE workerDone[w]

RunsStep(t, w) ==
    /\ RunsTask(t, w) /\ call[t].op = "step"
    /\ ~machine[w].dead /\ ~workerDone[w]
    /\ machine'[w].life = machine[w].life /\ machine'[w].clock = machine[w].clock + 1
    /\ machine'[w].ran = call[t].acts[w]
    /\ machine'[w].peak = [life |-> machine[w].life, clock |-> machine[w].clock + 1]
    /\ \/ machine'[w].dead /\ call'[t].res[w].kind = "dead"
       \/ /\ ~machine'[w].dead
          /\ call'[t].res[w].kind = "live"
          /\ call'[t].res[w].clock = machine[w].clock + 1
          /\ call'[t].res[w].ran = call[t].acts[w]

(* The other steps of a call touch no machine.                             *)
MovesOn(t) ==
    /\ machine' = machine /\ workerDone' = workerDone
    /\ call'[t].todo = call[t].todo /\ call'[t].res = call[t].res
    /\ \/ /\ call[t].phase = "tasks" /\ call[t].todo = {}
          /\ call'[t].phase = IF call[t].op = "step" THEN "pace" ELSE "ret"
       \/ call[t].phase = "pace" /\ call'[t].phase \in {"ret", "panic"}
       \/ call[t].phase = "enter" /\ call'[t].phase = "panic"
       \/ call[t].phase = "enter" /\ call[t].op = "peek" /\ call'[t].phase = "read"
       \/ /\ call[t].phase = "read" /\ call[t].op = "peek" /\ call'[t].phase = "ret"
          /\ call'[t].peaks = [w \in Workers |-> machine[w].peak]

LEMMA PoolEffects ==
    ASSUME PoolTypeOK, NEW t \in Threads, PoolStep(t)
    PROVE  /\ call'[t].op = call[t].op /\ call'[t].acts = call[t].acts
           /\ \/ EntersTasks(t)
              \/ \E w \in Workers : RunsReset(t, w) \/ PassesOver(t, w) \/ RunsStep(t, w)
              \/ MovesOn(t)
  <1> USE DEF PoolTypeOK
  <1> DEFINE c == call[t]
  <1>0. /\ c \in Call /\ c.op = call[t].op /\ c.acts = call[t].acts
        /\ c.phase = call[t].phase /\ c.todo = call[t].todo /\ c.res = call[t].res
        /\ c.peaks = call[t].peaks
    OBVIOUS
  <1> HIDE DEF c
  <1>1. CASE Enter(t)
    <2>1. CASE section
      <3>1. call' = [call EXCEPT ![t] = [c EXCEPT !.phase = "panic"]]
        BY <1>1, <2>1 DEF Enter, Panics, c
      <3>2. MovesOn(t) /\ call'[t].op = c.op /\ call'[t].acts = c.acts
        BY <1>0, <1>1, <2>1, <3>1 DEF Enter, MovesOn, Call
      <3> QED
        BY <1>0, <3>2
    <2>2. CASE ~section
      <3> DEFINE d == [c EXCEPT !.phase = "tasks", !.todo = Workers]
      <3>1. call' = [call EXCEPT ![t] = d]
        BY <1>1, <2>2 DEF Enter, c
      <3>2. /\ d.phase = "tasks" /\ d.todo = Workers /\ d.res = c.res /\ d.peaks = c.peaks
            /\ d.op = c.op /\ d.acts = c.acts
        BY <1>0 DEF Call
      <3> HIDE DEF d
      <3>3. EntersTasks(t) /\ call'[t].op = c.op /\ call'[t].acts = c.acts
        BY <1>0, <1>1, <2>2, <3>1, <3>2 DEF Enter, EntersTasks
      <3> QED
        BY <1>0, <3>3
    <2> QED
      BY <2>1, <2>2
  <1>2. ASSUME NEW w \in Workers, NEW r \in Result, Ends(t, w, r), call[t].phase = "tasks",
               w \in call[t].todo, UNCHANGED workerDone,
               \A v \in Workers : v # w => machine'[v] = machine[v]
        PROVE  /\ RunsTask(t, w) /\ call'[t].res[w] = r
               /\ call'[t].op = call[t].op /\ call'[t].acts = call[t].acts
    <2> DEFINE d == Ended(c, w, r)
    <2>1. call' = [call EXCEPT ![t] = d]
      BY <1>2 DEF Ends, c
    <2>2. /\ d.phase = c.phase /\ d.todo = c.todo \ {w} /\ d.res[w] = r /\ d.peaks = c.peaks
          /\ d.op = c.op /\ d.acts = c.acts
          /\ \A v \in Workers : v # w => d.res[v] = c.res[v]
      BY <1>0 DEF Call, Ended
    <2> HIDE DEF d
    <2> QED
      BY <1>0, <1>2, <2>1, <2>2 DEF RunsTask
  <1>3. ASSUME NEW w \in Workers, ResetTask(t, w)
        PROVE  RunsReset(t, w) /\ call'[t].op = call[t].op /\ call'[t].acts = call[t].acts
    <2>1. PICK panics \in BOOLEAN :
              /\ machine' = [machine EXCEPT ![w] =
                    [life |-> @.life + 1, clock |-> 0, dead |-> panics, ran |-> NoAction,
                     peak |-> @.peak]]
              /\ Ends(t, w, IF panics THEN DeadResult ELSE [NoResult EXCEPT !.kind = "live"])
      BY <1>3 DEF ResetTask
    <2> DEFINE r == IF panics THEN DeadResult ELSE [NoResult EXCEPT !.kind = "live"]
    <2>2. r \in Result /\ r.clock = 0
      BY ConstantsTyped DEF NoResult, DeadResult, Result
    <2>3. Ends(t, w, r)
      BY <2>1
    <2> HIDE DEF r
    <2>4. /\ RunsTask(t, w) /\ call'[t].res[w] = r
          /\ call'[t].op = call[t].op /\ call'[t].acts = call[t].acts
      BY <1>2, <1>3, <2>1, <2>2, <2>3 DEF ResetTask, In
    <2> QED
      BY <1>3, <2>1, <2>2, <2>4 DEF ResetTask, In, RunsReset
  <1>4. ASSUME NEW w \in Workers, StepTask(t, w)
        PROVE  /\ PassesOver(t, w) \/ RunsStep(t, w)
               /\ call'[t].op = call[t].op /\ call'[t].acts = call[t].acts
    <2> DEFINE m == machine[w]
               act == call[t].acts[w]
               next == Stepped(m, act)
    <2>0. m \in Machine /\ act \in Actions
      BY DEF Call
    <2>1. /\ next \in Machine /\ next.life = m.life /\ next.clock = m.clock + 1
          /\ next.dead = m.dead /\ next.ran = act
          /\ next.peak = [life |-> m.life, clock |-> m.clock + 1]
      <3> HIDE DEF m, act
      <3> QED
        BY <2>0, SteppedTyped DEF Stepped
    <2>2. /\ In(t, "step", "tasks") /\ w \in call[t].todo /\ UNCHANGED workerDone
          /\ \/ m.dead /\ Ends(t, w, DeadResult) /\ UNCHANGED machine
             \/ /\ ~m.dead /\ workerDone[w] /\ UNCHANGED machine
                /\ Ends(t, w, [kind |-> "idle", clock |-> m.clock, ran |-> NoAction])
             \/ /\ ~m.dead /\ ~workerDone[w]
                /\ machine' = [machine EXCEPT ![w] = next]
                /\ Ends(t, w, [kind |-> "live", clock |-> next.clock, ran |-> next.ran])
             \/ /\ ~m.dead /\ ~workerDone[w]
                /\ machine' = [machine EXCEPT ![w] = [next EXCEPT !.dead = TRUE]]
                /\ Ends(t, w, [DeadResult EXCEPT !.ran = next.ran])
      BY <1>4 DEF StepTask
    <2> HIDE DEF next
    <2>3. CASE m.dead /\ Ends(t, w, DeadResult) /\ UNCHANGED machine
      <3>1. DeadResult \in Result /\ DeadResult.kind = "dead"
        BY ConstantsTyped DEF DeadResult
      <3> QED
        BY <1>2, <2>2, <2>3, <3>1 DEF In, PassesOver
    <2>4. CASE /\ ~m.dead /\ workerDone[w] /\ UNCHANGED machine
               /\ Ends(t, w, [kind |-> "idle", clock |-> m.clock, ran |-> NoAction])
      <3>1. [kind |-> "idle", clock |-> m.clock, ran |-> NoAction] \in Result
        BY <2>0, ConstantsTyped DEF Result, Machine
      <3> QED
        BY <1>2, <2>2, <2>4, <3>1 DEF In, PassesOver
    <2>5. CASE /\ ~m.dead /\ ~workerDone[w]
               /\ machine' = [machine EXCEPT ![w] = next]
               /\ Ends(t, w, [kind |-> "live", clock |-> next.clock, ran |-> next.ran])
      <3> DEFINE r == [kind |-> "live", clock |-> next.clock, ran |-> next.ran]
      <3>1. r \in Result
        BY <2>1 DEF Result, Machine
      <3>2. r.kind = "live" /\ r.clock = next.clock /\ r.ran = next.ran /\ Ends(t, w, r)
        BY <2>5
      <3> HIDE DEF r
      <3>3. /\ RunsTask(t, w) /\ call'[t].res[w] = r
            /\ call'[t].op = call[t].op /\ call'[t].acts = call[t].acts
        BY <1>2, <2>2, <2>5, <3>1, <3>2 DEF In
      <3>4. machine'[w] = next
        BY <2>5
      <3> QED
        BY <2>1, <2>2, <2>5, <3>2, <3>3, <3>4 DEF In, RunsStep
    <2>6. CASE /\ ~m.dead /\ ~workerDone[w]
               /\ machine' = [machine EXCEPT ![w] = [next EXCEPT !.dead = TRUE]]
               /\ Ends(t, w, [DeadResult EXCEPT !.ran = next.ran])
      <3> DEFINE r == [DeadResult EXCEPT !.ran = next.ran]
                 n == [next EXCEPT !.dead = TRUE]
      <3>1. r \in Result /\ r.kind = "dead"
        BY <2>1, ConstantsTyped DEF Result, DeadResult, Machine
      <3>2. /\ n.dead /\ n.life = next.life /\ n.clock = next.clock /\ n.ran = next.ran
            /\ n.peak = next.peak
        BY <2>1 DEF Machine
      <3>3. Ends(t, w, r) /\ machine' = [machine EXCEPT ![w] = n]
        BY <2>6
      <3> HIDE DEF r, n
      <3>4. /\ RunsTask(t, w) /\ call'[t].res[w] = r
            /\ call'[t].op = call[t].op /\ call'[t].acts = call[t].acts
        BY <1>2, <2>2, <3>1, <3>3 DEF In
      <3>5. machine'[w] = n
        BY <3>3
      <3> QED
        BY <2>1, <2>2, <2>6, <3>1, <3>2, <3>4, <3>5 DEF In, RunsStep
    <2> QED
      BY <2>2, <2>3, <2>4, <2>5, <2>6
  <1>5. CASE Join(t) \/ Pace(t) \/ PeekCheck(t)
    <2>1. PICK ph \in {"pace", "ret", "panic", "read"} :
              /\ call' = [call EXCEPT ![t] = [c EXCEPT !.phase = ph]]
              /\ \/ /\ call[t].phase = "tasks" /\ call[t].todo = {}
                    /\ ph = IF call[t].op = "step" THEN "pace" ELSE "ret"
                 \/ call[t].phase = "pace" /\ ph \in {"ret", "panic"}
                 \/ call[t].phase = "enter" /\ ph = "panic"
                 \/ call[t].phase = "enter" /\ call[t].op = "peek" /\ ph = "read"
      BY <1>5 DEF Join, Pace, PeekCheck, Panics, In, c
    <2>2. UNCHANGED <<machine, workerDone>>
      BY <1>5 DEF Join, Pace, PeekCheck
    <2> DEFINE d == [c EXCEPT !.phase = ph]
    <2>3. /\ d.phase = ph /\ d.todo = c.todo /\ d.res = c.res /\ d.op = c.op /\ d.acts = c.acts
      BY <1>0 DEF Call
    <2>4. call'[t] = d
      BY <2>1
    <2> HIDE DEF d
    <2> QED
      BY <1>0, <2>1, <2>2, <2>3, <2>4 DEF MovesOn
  <1>6. CASE PeekRead(t)
    <2> DEFINE peaks == [w \in Workers |-> machine[w].peak]
               d == [c EXCEPT !.phase = "ret", !.peaks = peaks]
    <2>1. call'[t] = d
      BY <1>6 DEF PeekRead, c
    <2>2. /\ UNCHANGED <<machine, workerDone>> /\ call[t].op = "peek" /\ call[t].phase = "read"
      BY <1>6 DEF PeekRead, In
    <2>3. /\ d.phase = "ret" /\ d.todo = c.todo /\ d.res = c.res /\ d.op = c.op /\ d.acts = c.acts
          /\ d.peaks = peaks
      <3> HIDE DEF peaks
      <3> QED
        BY <1>0 DEF Call
    <2> HIDE DEF d
    <2> QED
      BY <1>0, <2>1, <2>2, <2>3 DEF MovesOn
  <1> QED
    BY <1>1, <1>3, <1>4, <1>5, <1>6 DEF PoolStep

(* The executor takes the first request that is queued ...                 *)
Takes(b, i) ==
    /\ b # Trainer /\ call[b].phase = "idle"
    /\ i \in 1 .. Len(flight[b]) /\ flight[b][i].state = "queued"
    /\ \A j \in 1 .. Len(flight[b]) : j < i => flight[b][j].state # "queued"
    /\ Len(flight'[b]) = Len(flight[b])
    /\ \A j \in 1 .. Len(flight[b]) : j # i => flight'[b][j] = flight[b][j]
    /\ flight'[b][i].state = "running"
    /\ flight'[b][i].acts = flight[b][i].acts /\ flight'[b][i].res = flight[b][i].res
    /\ call'[b].op = "step" /\ call'[b].phase = "enter" /\ call'[b].todo = {}
    /\ call'[b].acts = flight[b][i].acts

(* ... and leaves what came of it with the request.                        *)
Finishes(b) ==
    /\ b # Trainer /\ call[b].phase \in {"ret", "panic"} /\ call'[b] = Idle
    /\ Len(flight'[b]) = Len(flight[b])
    /\ \A j \in 1 .. Len(flight[b]) :
          IF flight[b][j].state # "running" THEN flight'[b][j] = flight[b][j]
          ELSE /\ flight'[b][j].acts = flight[b][j].acts
               /\ flight'[b][j].res = call[b].res
               /\ flight'[b][j].state = IF call[b].phase = "ret" THEN "ok" ELSE "failed"

Others(b) == \A d \in Threads : d # b => flight'[d] = flight[d] /\ call'[d] = call[d]

LEMMA PipeTakeEffects ==
    ASSUME Typed, NEW b \in Threads, PipeTake(b)
    PROVE  /\ \E i \in 1 .. Len(flight[b]) : Takes(b, i)
           /\ Others(b) /\ UNCHANGED <<section, machine, workerDone, trainer>>
  <1>1. PICK i \in Submitted(b) :
            /\ \A j \in Submitted(b) : i <= j
            /\ Calls(b, "step", flight[b][i].acts)
            /\ flight' = [flight EXCEPT ![b] = Taken(@, i)]
    BY DEF PipeTake
  <1> DEFINE q == flight[b][i]
             r == [q EXCEPT !.state = "running"]
             f == Taken(flight[b], i)
             acts == q.acts
             c == [Idle EXCEPT !.op = "step", !.phase = "enter", !.acts = acts]
  <1>2. /\ flight[b] \in Seq(Request) /\ i \in 1 .. Len(flight[b]) /\ q.state = "queued"
        /\ b # Trainer /\ Len(flight[b]) \in Nat
    BY LenProperties DEF Typed, Submitted, PipeTake
  <1>3. \A j \in 1 .. Len(flight[b]) : j < i => flight[b][j].state # "queued"
    BY <1>1, <1>2 DEF Submitted
  <1>4. q \in Request
    BY <1>2, ElementOfSeq
  <1>5. f = [flight[b] EXCEPT ![i] = r]
    BY DEF Taken
  <1>6. flight' = [flight EXCEPT ![b] = f] /\ call' = [call EXCEPT ![b] = c]
        /\ call[b].phase = "idle"
    BY <1>1 DEF Calls
  <1> HIDE DEF q, f, acts
  <1>7. r \in Request /\ r.state = "running" /\ r.acts = q.acts /\ r.res = q.res
    BY <1>4 DEF Request
  <1>8. c.op = "step" /\ c.phase = "enter" /\ c.todo = {} /\ c.acts = acts
    BY DEF Idle
  <1> HIDE DEF r, c
  <1>9. /\ f \in Seq(Request) /\ Len(f) = Len(flight[b])
        /\ \A j \in 1 .. Len(flight[b]) : f[j] = IF j = i THEN r ELSE flight[b][j]
    BY <1>2, <1>5, <1>7, ExceptSeq
  <1>10. /\ flight'[b] = f /\ call'[b] = c /\ Others(b)
    BY <1>6 DEF Typed, PoolTypeOK, Others
  <1>11. f[i] = r
    BY <1>2, <1>9
  <1>12. Takes(b, i)
    BY <1>2, <1>3, <1>6, <1>7, <1>8, <1>9, <1>10, <1>11 DEF Takes, q, acts
  <1> QED
    BY <1>2, <1>10, <1>12 DEF PipeTake

LEMMA PipeDoneEffects ==
    ASSUME Typed, NEW b \in Threads, PipeDone(b)
    PROVE  /\ Finishes(b) /\ Others(b)
           /\ UNCHANGED <<section, machine, workerDone, trainer>>
  <1> DEFINE n == Len(flight[b])
             state == IF call[b].phase = "ret" THEN "ok" ELSE "failed"
             res == call[b].res
             Finished(r) == [r EXCEPT !.res = res, !.state = state]
             f == [i \in 1 .. n |->
                      IF flight[b][i].state # "running" THEN flight[b][i]
                      ELSE Finished(flight[b][i])]
  <1>1. /\ flight[b] \in Seq(Request) /\ n \in Nat /\ b # Trainer
        /\ call[b].phase \in {"ret", "panic"}
        /\ res \in [Workers -> Result]
    BY LenProperties DEF Typed, PipeDone, PoolTypeOK, Call
  <1>2. flight' = [flight EXCEPT ![b] = f] /\ call' = [call EXCEPT ![b] = Idle]
    BY DEF PipeDone, Hangup
  <1>3. ASSUME NEW i \in 1 .. n
        PROVE  /\ f[i] \in Request
               /\ IF flight[b][i].state # "running" THEN f[i] = flight[b][i]
                  ELSE /\ f[i].acts = flight[b][i].acts
                       /\ f[i].res = res /\ f[i].state = state
    <2> DEFINE r == flight[b][i]
               fin == [r EXCEPT !.res = res, !.state = state]
    <2>1. f[i] = IF r.state # "running" THEN r ELSE fin
      OBVIOUS
    <2>2. r \in Request
      BY <1>1, ElementOfSeq
    <2>3. state \in {"ok", "failed"}
      OBVIOUS
    <2> HIDE DEF r, res, state, f
    <2>4. fin \in Request /\ fin.state = state /\ fin.res = res /\ fin.acts = r.acts
      BY <1>1, <2>2, <2>3 DEF Request
    <2> HIDE DEF fin
    <2> QED
      BY <2>1, <2>2, <2>4 DEF r
  <1>4. f \in [1 .. n -> Request]
    <2>1. DOMAIN f = 1 .. n
      OBVIOUS
    <2> QED
      BY <1>3
  <1> HIDE DEF f
  <1>5. f \in Seq(Request) /\ Len(f) = n
    BY <1>1, <1>4
  <1>6. flight'[b] = f /\ call'[b] = Idle /\ Others(b)
    BY <1>2, ConstantsTyped DEF Typed, PoolTypeOK, Others
  <1>7. Finishes(b)
    BY <1>1, <1>3, <1>5, <1>6 DEF Finishes
  <1> QED
    BY <1>6, <1>7 DEF PipeDone

(* The trainer submits a request behind the others of its batch ...        *)
Submits ==
    /\ Len(flight'[batch]) = Len(flight[batch]) + 1
    /\ \A i \in 1 .. Len(flight[batch]) : flight'[batch][i] = flight[batch][i]
    /\ flight'[batch][Len(flight[batch]) + 1] = NewRequest
    /\ \A b \in Threads : b # batch => flight'[b] = flight[b]

LEMMA TurnAsyncEffects ==
    ASSUME IInv, TurnAsync
    PROVE  /\ Submits /\ batch \in Threads /\ batch # Trainer /\ Async
           /\ pc = "top" /\ turn' = turn + 1 /\ turn < MaxSteps
           /\ pc' = IF turn = 0 THEN "top" ELSE "wait"
           /\ Len(flight[batch]) = IF turn = 0 THEN 0 ELSE 1
           /\ NewRequest \in Request /\ NewRequest.state = "queued" /\ NewRequest.acts = Choice
           /\ UNCHANGED <<machines, mode, running, batch, obs, done, traj, ctx, todo, abandoned>>
  <1>1. /\ pc = "top" /\ turn < MaxSteps /\ Async /\ turn' = turn + 1
        /\ pc' = IF flight[batch] = <<>> THEN "top" ELSE "wait"
        /\ flight' = [flight EXCEPT ![batch] = Append(@, NewRequest)]
        /\ UNCHANGED <<machines, mode, running, batch, obs, done, traj, ctx, todo, abandoned>>
    BY DEF TurnAsync, InLoop
  <1>2. NewRequest \in Request /\ NewRequest.state = "queued" /\ NewRequest.acts = Choice
    BY <1>1, RequestTyped DEF IInv
  <1>3. batch \in Threads /\ batch # Trainer /\ flight[batch] \in Seq(Request)
    BY <1>1 DEF IInv, Typed, Shape, Threads
  <1> DEFINE f == Append(flight[batch], NewRequest)
  <1>4. /\ Len(f) = Len(flight[batch]) + 1
        /\ \A i \in 1 .. Len(flight[batch]) : f[i] = flight[batch][i]
        /\ f[Len(flight[batch]) + 1] = NewRequest
    BY <1>2, <1>3, AppendProperties
  <1>5. flight' = [flight EXCEPT ![batch] = f]
    BY <1>1
  <1> HIDE DEF f
  <1>6. flight'[batch] = f /\ \A b \in Threads : b # batch => flight'[b] = flight[b]
    BY <1>3, <1>5 DEF IInv, Typed
  <1>7. Len(flight[batch]) = IF turn = 0 THEN 0 ELSE 1
    BY <1>1 DEF IInv, Shape, Ahead
  <1>8. flight[batch] = <<>> <=> turn = 0
    BY <1>3, <1>7, EmptySeq
  <1> QED
    BY <1>1, <1>2, <1>3, <1>4, <1>6, <1>7, <1>8 DEF Submits

(* ... and waits for the first of the two to be done.                      *)
Receives ==
    /\ Len(flight[batch]) = 2 /\ Len(flight'[batch]) = 1
    /\ flight'[batch][1] = flight[batch][2]
    /\ \A b \in Threads : b # batch => flight'[b] = flight[b]
    /\ flight[batch][1].state = "ok"
    /\ ctx'.acts = flight[batch][1].acts /\ ctx'.rows = flight[batch][1].rows
    /\ ctx'.res = flight[batch][1].res

LEMMA AwaitEffects ==
    ASSUME IInv, Await
    PROVE  /\ Receives /\ batch \in Threads /\ batch # Trainer /\ Async
           /\ pc = "wait" /\ pc' = (IF Smb THEN "peek" ELSE "process") /\ todo' = Workers
           /\ UNCHANGED <<machines, mode, running, batch, turn, obs, buffer, done, traj, abandoned>>
  <1> DEFINE h == Head(flight[batch])
             f == Tail(flight[batch])
  <1>1. /\ pc = "wait" /\ h.state = "ok"
        /\ ctx' = [NoContext EXCEPT !.acts = h.acts, !.rows = h.rows, !.res = h.res]
        /\ pc' = (IF Smb THEN "peek" ELSE "process") /\ todo' = Workers
        /\ flight' = [flight EXCEPT ![batch] = f]
        /\ UNCHANGED <<machines, mode, running, batch, turn, obs, buffer, done, traj, abandoned>>
    BY DEF Await, ToProcess
  <1>2. /\ batch \in Threads /\ flight[batch] \in Seq(Request) /\ Len(flight[batch]) = 2
        /\ batch # Trainer /\ Async
    BY <1>1 DEF IInv, Typed, Threads, Shape
  <1>3. Len(f) = 1 /\ f[1] = flight[batch][2] /\ h = flight[batch][1]
    BY <1>2, EmptySeq, HeadTailProperties
  <1> HIDE DEF h, f
  <1>4. ctx'.acts = h.acts /\ ctx'.rows = h.rows /\ ctx'.res = h.res
    BY <1>1 DEF NoContext
  <1>5. flight'[batch] = f /\ \A b \in Threads : b # batch => flight'[b] = flight[b]
    BY <1>1, <1>2 DEF IInv, Typed
  <1> QED
    BY <1>1, <1>2, <1>3, <1>4, <1>5 DEF Receives

(* The trainer's own calls.                                                *)
LEMMA CallEffects ==
    ASSUME Typed, NEW op, NEW acts, Calls(Trainer, op, acts)
    PROVE  /\ call[Trainer].phase = "idle"
           /\ call'[Trainer].op = op /\ call'[Trainer].phase = "enter"
           /\ call'[Trainer].acts = acts /\ call'[Trainer].todo = {}
           /\ call'[Trainer].res = Idle.res
           /\ \A t \in Threads : t # Trainer => call'[t] = call[t]
  <1> DEFINE c == [Idle EXCEPT !.op = op, !.phase = "enter", !.acts = acts]
  <1>1. c.op = op /\ c.phase = "enter" /\ c.acts = acts /\ c.todo = {} /\ c.res = Idle.res
    BY DEF Idle
  <1>2. call' = [call EXCEPT ![Trainer] = c] /\ call[Trainer].phase = "idle"
    BY DEF Calls
  <1> HIDE DEF c
  <1> QED
    BY <1>1, <1>2, ConstantsTyped DEF Typed, PoolTypeOK

LEMMA HangupEffects ==
    ASSUME Typed, Hangup(Trainer)
    PROVE  call'[Trainer] = Idle /\ \A t \in Threads : t # Trainer => call'[t] = call[t]
  BY ConstantsTyped DEF Typed, PoolTypeOK, Hangup

LEMMA IdleFields ==
    /\ Idle.op = "none" /\ Idle.phase = "idle" /\ Idle.todo = {} /\ Idle.acts = NoActs
    /\ \A w \in Workers : Idle.res[w].kind = "idle" /\ Idle.res[w].clock = 0
  BY DEF Idle, NoResult

----------------------------------------------------------------------------
(* One dispatch at a time *)

LEMMA InitExclusive == Init => Exclusive
  <1> SUFFICES ASSUME Init PROVE Exclusive
    OBVIOUS
  <1>1. ~section /\ \A t \in Threads : call[t].phase = "idle"
    BY DEF Init, PoolInit, Idle
  <1>2. Dispatching = {}
    BY <1>1 DEF Dispatching
  <1> QED
    BY <1>1, <1>2 DEF Exclusive

LEMMA StepExclusive == IInv /\ Exclusive /\ [Next]_vars => Exclusive'
  <1> SUFFICES ASSUME IInv, Exclusive, [Next]_vars PROVE Exclusive'
    OBVIOUS
  <1>0. PoolTypeOK
    BY DEF IInv, Typed
  <1>1. ASSUME NEW t \in Threads, PoolSteps(t) PROVE Exclusive'
    BY <1>0, <1>1, PoolStepExclusive DEF PoolSteps
  <1>2. ASSUME UNCHANGED section,
               \A t \in Threads : call'[t].phase = "tasks" <=> call[t].phase = "tasks"
        PROVE  Exclusive'
    <2>1. Dispatching' = Dispatching
      BY <1>2 DEF Dispatching
    <2> QED
      BY <1>2, <2>1 DEF Exclusive
  <1>3. ASSUME NEW t \in Threads, NEW op, NEW acts, Calls(t, op, acts), UNCHANGED section
        PROVE  Exclusive'
    <2> DEFINE c == [Idle EXCEPT !.op = op, !.phase = "enter", !.acts = acts]
    <2>1. c.phase = "enter"
      BY DEF Idle
    <2>2. call' = [call EXCEPT ![t] = c] /\ call[t].phase = "idle"
      BY <1>3 DEF Calls
    <2> HIDE DEF c
    <2> QED
      BY <1>0, <1>2, <1>3, <2>1, <2>2 DEF PoolTypeOK
  <1>4. ASSUME NEW t \in Threads, Hangup(t), call[t].phase \in {"ret", "panic"}, UNCHANGED section
        PROVE  Exclusive'
    <2>1. Idle.phase = "idle"
      BY DEF Idle
    <2> QED
      BY <1>0, <1>2, <1>4, <2>1 DEF PoolTypeOK, Hangup
  <1>5. Trainer \in Threads
    BY ConstantsTyped
  <1>6. CASE StartBatch \/ TurnSync \/ PeekCall
    BY <1>3, <1>5, <1>6 DEF StartBatch, TurnSync, PeekCall
  <1>7. CASE ResetReturns \/ Crash \/ StepReturns \/ PeekReturns
    BY <1>4, <1>5, <1>7 DEF ResetReturns, Crash, StepReturns, PeekReturns
  <1>8. CASE TurnAsync \/ Await \/ LeaveLoop \/ Drain \/ FutureFails \/ Halt
    BY <1>2, <1>8 DEF TurnAsync, Await, LeaveLoop, Drain, FutureFails, Halt, machines
  <1>9. ASSUME NEW w \in Workers, Process(w) PROVE Exclusive'
    BY <1>2, <1>9 DEF Process, Processed
  <1>10. ASSUME NEW b \in Threads, PipeTake(b) PROVE Exclusive'
    BY <1>3, <1>10 DEF PipeTake
  <1>11. ASSUME NEW b \in Threads, PipeDone(b) PROVE Exclusive'
    BY <1>4, <1>11 DEF PipeDone
  <1>12. CASE UNCHANGED vars
    BY <1>2, <1>12 DEF vars, machines
  <1> QED
    BY <1>1, <1>6, <1>7, <1>8, <1>9, <1>10, <1>11, <1>12 DEF Next, TrainerStep

(* Whatever the threads call and whenever, no two dispatches of the pool   *)
(* ever own the machines at the same time.                                 *)
THEOREM DispatchIsExclusive == Spec => []Exclusive
  <1> QED
    BY InitIInv, StepIInv, InitExclusive, StepExclusive, PTL DEF Spec

----------------------------------------------------------------------------
(* The calls and the queues, whatever happens *)

(* A call goes through the phases of its kind and owes tasks in one only;  *)
(* executors only step.                                                    *)
Shaped(c) ==
    /\ c.phase = "idle" <=> c.op = "none"
    /\ c.op = "reset" => c.phase \in {"enter", "tasks", "ret", "panic"}
    /\ c.op = "step" => c.phase \in {"enter", "tasks", "pace", "ret", "panic"}
    /\ c.op = "peek" => c.phase \in {"enter", "read", "ret", "panic"}
    /\ c.phase # "tasks" => c.todo = {}

CallsShaped ==
    \A t \in Threads : Shaped(call[t]) /\ (t # Trainer => call[t].op \in {"none", "step"})

(* An executor steps with the actions of the one request it is running;    *)
(* a request is not taken before the one in front of it is done.           *)
Queue(b) ==
    /\ \A i \in 1 .. Len(flight[b]) : flight[b][i].state = "running" =>
          call[b].op = "step" /\ call[b].acts = flight[b][i].acts
    /\ Len(flight[b]) = 2 /\ flight[b][2].state # "queued" =>
          flight[b][1].state \in {"ok", "failed"}
    /\ call[b].phase # "idle" => \E i \in 1 .. Len(flight[b]) : flight[b][i].state = "running"

(* Actions are stamped with the batch they are run in. *)
OfBatch(acts, b) == \A w \in Workers : acts[w] = NoAction \/ acts[w].batch = b

Batched ==
    /\ \A b \in Threads \ {Trainer} :
          /\ OfBatch(call[b].acts, b)
          /\ \A i \in 1 .. Len(flight[b]) : OfBatch(flight[b][i].acts, b)
    /\ OfBatch(call[Trainer].acts, batch)

(* Only the asynchronous modes have a drain that can give up. *)
Drains == pc = "drain" \/ abandoned => Async

Orderly ==
    /\ CallsShaped
    /\ \A b \in Threads \ {Trainer} : Queue(b)
    /\ Batched
    /\ Drains

LEMMA RequestFields ==
    ASSUME Typed, NEW b \in Threads, NEW i \in 1 .. Len(flight[b])
    PROVE  /\ flight[b][i] \in Request
           /\ flight[b][i].state \in {"queued", "running", "ok", "failed"}
           /\ Len(flight[b]) \in Nat
  <1>1. flight[b] \in Seq(Request)
    BY DEF Typed
  <1>2. flight[b][i] \in Request
    BY <1>1, ElementOfSeq
  <1> QED
    BY <1>1, <1>2, LenProperties DEF Request

LEMMA IdleShaped == Shaped(Idle) /\ \A b : OfBatch(Idle.acts, b) /\ OfBatch(NoActs, b)
  BY IdleFields DEF Shaped, OfBatch, NoActs

LEMMA InitOrderly == Init => Orderly
  <1> SUFFICES ASSUME Init PROVE Orderly
    OBVIOUS
  <1>1. \A t \in Threads : call[t] = Idle /\ flight[t] = <<>>
    BY DEF Init, PoolInit
  <1>2. pc = "between" /\ ~abandoned
    BY DEF Init
  <1> QED
    BY <1>1, <1>2, IdleFields, IdleShaped, ConstantsTyped, EmptySeq
    DEF Orderly, CallsShaped, Queue, Batched, Drains

LEMMA PoolStepShaped ==
    ASSUME PoolTypeOK, CallsShaped, NEW t \in Threads, PoolStep(t) PROVE CallsShaped'
  <1> DEFINE c == call[t]
             d == call'[t]
  <1>1. d.op = c.op /\ c.op \in {"none", "reset", "step", "peek"} /\ Shaped(c)
    BY PoolEffects DEF PoolTypeOK, Call, CallsShaped
  <1>2. Shaped(d)
    <2>1. CASE EntersTasks(t)
      BY <1>1, <2>1 DEF EntersTasks, Shaped
    <2>2. ASSUME NEW w \in Workers, RunsReset(t, w) \/ PassesOver(t, w) \/ RunsStep(t, w)
          PROVE  Shaped(d)
      BY <1>1, <2>2 DEF RunsReset, PassesOver, RunsStep, RunsTask, Shaped
    <2>3. CASE MovesOn(t)
      BY <1>1, <2>3 DEF MovesOn, Shaped
    <2> QED
      BY <2>1, <2>2, <2>3, PoolEffects
  <1>3. \A u \in Threads : u # t => call'[u] = call[u]
    BY PoolStepLocal
  <1> QED
    BY <1>1, <1>2, <1>3 DEF CallsShaped

(* The steps that leave the executors and their requests as they are.      *)
LEMMA SameQueues ==
    ASSUME Orderly, NEW b \in Threads \ {Trainer}, flight'[b] = flight[b],
           call'[b].phase = "idle" <=> call[b].phase = "idle",
           call'[b].op = call[b].op, call'[b].acts = call[b].acts
    PROVE  /\ Queue(b)' /\ OfBatch(call[b].acts, b)'
           /\ (\A i \in 1 .. Len(flight[b]) : OfBatch(flight[b][i].acts, b))'
  BY DEF Orderly, Queue, Batched, OfBatch

LEMMA PipeTakeOrderly ==
    ASSUME IInv, Orderly, NEW b \in Threads, PipeTake(b) PROVE Orderly'
  <1> USE DEF IInv
  <1>1. PICK i \in 1 .. Len(flight[b]) : Takes(b, i)
    BY PipeTakeEffects
  <1>2. Others(b) /\ UNCHANGED trainer
    BY PipeTakeEffects
  <1>3. CallsShaped'
    <2>1. Shaped(call'[b])
      BY <1>1 DEF Takes, Shaped
    <2> QED
      BY <1>1, <1>2, <2>1 DEF Others, Takes, Orderly, CallsShaped
  <1>4. \A j \in 1 .. Len(flight[b]) :
            flight[b][j].state \in {"queued", "running", "ok", "failed"}
    BY RequestFields
  <1>5. \A j \in 1 .. Len(flight[b]) : flight[b][j].state # "running"
    BY <1>1 DEF Takes, Orderly, Queue, CallsShaped, Shaped
  <1>6. Queue(b)'
    <2>1. \A j \in 1 .. Len(flight[b]) : flight'[b][j].state = "running" => j = i
      BY <1>1, <1>5 DEF Takes
    <2>2. ASSUME Len(flight[b]) = 2, flight'[b][2].state # "queued"
          PROVE  flight'[b][1].state \in {"ok", "failed"}
      <3>1. i = 2
        <4>1. i = 1 \/ i = 2
          BY <2>2
        <4>2. i # 1
          <5> SUFFICES ASSUME i = 1 PROVE FALSE
            OBVIOUS
          <5>1. flight'[b][2] = flight[b][2] /\ flight[b][1].state = "queued"
            BY <1>1, <2>2 DEF Takes
          <5> QED
            BY <1>1, <2>2, <5>1 DEF Orderly, Queue, Takes
        <4> QED
          BY <4>1, <4>2
      <3>2. flight'[b][1] = flight[b][1] /\ flight[b][1].state # "queued"
        BY <1>1, <2>2, <3>1 DEF Takes
      <3> QED
        BY <1>4, <1>5, <2>2, <3>2
    <2> QED
      BY <1>1, <2>1, <2>2 DEF Takes, Queue
  <1>7. \A d \in Threads \ {Trainer} : Queue(d)'
    BY <1>2, <1>6, SameQueues DEF Others
  <1>8. Batched'
    <2>1. call'[Trainer] = call[Trainer] /\ UNCHANGED batch
      BY <1>1, <1>2, ConstantsTyped DEF Others, Takes, trainer
    <2>2. ASSUME NEW j \in 1 .. Len(flight'[b]) PROVE OfBatch(flight'[b][j].acts, b)
      BY <1>1 DEF Takes, Orderly, Batched
    <2>3. OfBatch(call'[b].acts, b)
      BY <1>1 DEF Takes, Orderly, Batched
    <2>4. \A d \in Threads \ {Trainer} : d # b =>
              /\ OfBatch(call'[d].acts, d)
              /\ \A j \in 1 .. Len(flight'[d]) : OfBatch(flight'[d][j].acts, d)
      BY <1>2 DEF Others, Orderly, Batched
    <2> QED
      BY <2>1, <2>2, <2>3, <2>4 DEF Orderly, Batched, OfBatch
  <1>9. Drains'
    BY <1>2 DEF trainer, Orderly, Drains, Async
  <1> QED
    BY <1>3, <1>7, <1>8, <1>9 DEF Orderly

LEMMA PipeDoneOrderly ==
    ASSUME IInv, Orderly, NEW b \in Threads, PipeDone(b) PROVE Orderly'
  <1> USE DEF IInv
  <1>1. Finishes(b) /\ Others(b) /\ UNCHANGED trainer
    BY PipeDoneEffects
  <1>2. CallsShaped'
    BY <1>1, IdleShaped, IdleFields DEF Finishes, Others, Orderly, CallsShaped
  <1>3. Queue(b)'
    <2>1. \A j \in 1 .. Len(flight[b]) : flight'[b][j].state # "running"
      BY <1>1 DEF Finishes
    <2>2. Len(flight[b]) = 2 /\ flight'[b][2].state # "queued" =>
              flight'[b][1].state \in {"ok", "failed"}
      <3> SUFFICES ASSUME Len(flight[b]) = 2, flight'[b][2].state # "queued"
                   PROVE  flight'[b][1].state \in {"ok", "failed"}
        OBVIOUS
      <3>1. 1 \in 1 .. Len(flight[b]) /\ 2 \in 1 .. Len(flight[b])
        OBVIOUS
      <3>2. flight[b][2].state # "queued"
        BY <1>1, <3>1 DEF Finishes
      <3>3. flight[b][1].state \in {"ok", "failed"}
        BY <1>1, <3>2 DEF Finishes, Orderly, Queue
      <3> QED
        BY <1>1, <3>1, <3>3 DEF Finishes
    <2> QED
      BY <1>1, <2>1, <2>2, IdleFields DEF Finishes, Queue
  <1>4. \A d \in Threads \ {Trainer} : Queue(d)'
    BY <1>1, <1>3, SameQueues DEF Others
  <1>5. Batched'
    <2>1. call'[Trainer] = call[Trainer] /\ UNCHANGED batch
      BY <1>1, ConstantsTyped DEF Others, Finishes, trainer
    <2>2. ASSUME NEW j \in 1 .. Len(flight'[b]) PROVE OfBatch(flight'[b][j].acts, b)
      <3>1. flight'[b][j].acts = flight[b][j].acts /\ j \in 1 .. Len(flight[b])
        BY <1>1 DEF Finishes
      <3> QED
        BY <1>1, <3>1 DEF Finishes, Orderly, Batched
    <2>3. OfBatch(call'[b].acts, b)
      BY <1>1, IdleShaped DEF Finishes
    <2>4. \A d \in Threads \ {Trainer} : d # b =>
              /\ OfBatch(call'[d].acts, d)
              /\ \A j \in 1 .. Len(flight'[d]) : OfBatch(flight'[d][j].acts, d)
      BY <1>1 DEF Others, Orderly, Batched
    <2> QED
      BY <2>1, <2>2, <2>3, <2>4 DEF Orderly, Batched, OfBatch
  <1>6. Drains'
    BY <1>1 DEF trainer, Orderly, Drains, Async
  <1> QED
    BY <1>2, <1>4, <1>5, <1>6 DEF Orderly

(* The trainer's calls leave the executors alone. *)
LEMMA TrainerCallOrderly ==
    ASSUME IInv, Orderly, UNCHANGED <<flight, mode, abandoned>>, pc' # "drain",
           \A t \in Threads : t # Trainer => call'[t] = call[t],
           Shaped(call'[Trainer]), OfBatch(call'[Trainer].acts, batch')
    PROVE  Orderly'
  <1>1. CallsShaped'
    BY DEF Orderly, CallsShaped
  <1>2. \A d \in Threads \ {Trainer} : Queue(d)'
    BY SameQueues
  <1>3. Batched'
    BY DEF Orderly, Batched, OfBatch
  <1>4. Drains'
    BY DEF Orderly, Drains, Async
  <1> QED
    BY <1>1, <1>2, <1>3, <1>4 DEF Orderly

LEMMA TurnAsyncOrderly == ASSUME IInv, Orderly, TurnAsync PROVE Orderly'
  <1>1. /\ Submits /\ batch \in Threads /\ batch # Trainer
        /\ Len(flight[batch]) = (IF turn = 0 THEN 0 ELSE 1)
        /\ NewRequest.state = "queued" /\ NewRequest.acts = Choice
        /\ UNCHANGED <<call, mode, batch, abandoned>> /\ pc' # "drain"
    BY TurnAsyncEffects DEF machines
  <1>2. OfBatch(Choice, batch)
    BY DEF OfBatch, Choice
  <1> DEFINE n == Len(flight[batch])
             f == flight[batch]
             g == flight'[batch]
  <1>3. n \in Nat /\ n <= 1 /\ \A i \in 1 .. n + 1 : i \in 1 .. n \/ i = n + 1
    BY <1>1
  <1>4. /\ Len(g) = n + 1 /\ g[n + 1] = NewRequest
        /\ \A i \in 1 .. n : g[i] = f[i]
    BY <1>1 DEF Submits
  <1>5. Queue(batch)'
    <2>1. \A i \in 1 .. Len(g) : g[i].state = "running" => i \in 1 .. n
      BY <1>1, <1>3, <1>4
    <2>2. \A i \in 1 .. n : i \in 1 .. Len(g)
      BY <1>3, <1>4
    <2>3. Len(g) = 2 => g[2].state = "queued"
      BY <1>1, <1>3, <1>4
    <2> QED
      BY <1>1, <1>4, <2>1, <2>2, <2>3 DEF Orderly, Queue
  <1>6. \A d \in Threads \ {Trainer} : Queue(d)'
    BY <1>1, <1>5, SameQueues DEF Submits
  <1>7. Batched'
    <2>1. \A i \in 1 .. Len(g) : OfBatch(g[i].acts, batch)
      BY <1>1, <1>2, <1>3, <1>4 DEF Orderly, Batched
    <2> QED
      BY <1>1, <2>1 DEF Submits, Orderly, Batched, OfBatch
  <1>8. CallsShaped' /\ Drains'
    BY <1>1 DEF Orderly, CallsShaped, Drains, Async
  <1> QED
    BY <1>6, <1>7, <1>8 DEF Orderly

LEMMA AwaitOrderly == ASSUME IInv, Orderly, Await PROVE Orderly'
  <1>1. /\ Receives /\ batch \in Threads /\ batch # Trainer
        /\ UNCHANGED <<call, mode, batch, abandoned>> /\ pc' # "drain"
    BY AwaitEffects DEF machines
  <1>2. 1 \in 1 .. Len(flight[batch]) /\ 2 \in 1 .. Len(flight[batch])
    BY <1>1 DEF Receives
  <1>3. Queue(batch)'
    <2>1. \A i \in 1 .. Len(flight'[batch]) : i = 1
      BY <1>1 DEF Receives
    <2>2. call[batch].phase # "idle" => flight[batch][2].state = "running"
      <3> SUFFICES ASSUME call[batch].phase # "idle" PROVE flight[batch][2].state = "running"
        OBVIOUS
      <3>1. PICK i \in 1 .. Len(flight[batch]) : flight[batch][i].state = "running"
        BY <1>1 DEF Orderly, Queue
      <3>2. i = 1 \/ i = 2
        BY <1>1 DEF Receives
      <3> QED
        BY <1>1, <3>1, <3>2 DEF Receives
    <2> QED
      BY <1>1, <1>2, <2>1, <2>2 DEF Receives, Orderly, Queue
  <1>4. \A d \in Threads \ {Trainer} : Queue(d)'
    BY <1>1, <1>3, SameQueues DEF Receives
  <1>5. Batched'
    <2>1. \A i \in 1 .. Len(flight'[batch]) : OfBatch(flight'[batch][i].acts, batch)
      <3>1. \A i \in 1 .. Len(flight'[batch]) : i = 1
        BY <1>1 DEF Receives
      <3> QED
        BY <1>1, <1>2, <3>1 DEF Receives, Orderly, Batched
    <2> QED
      BY <1>1, <2>1 DEF Receives, Orderly, Batched, OfBatch
  <1>6. CallsShaped' /\ Drains'
    BY <1>1 DEF Orderly, CallsShaped, Drains, Async
  <1> QED
    BY <1>4, <1>5, <1>6 DEF Orderly

(* What a drain clears is empty or done. *)
LEMMA DrainEffects ==
    ASSUME IInv, Drain
    PROVE  /\ pc = "drain" /\ pc' = "between" /\ batch \in Threads /\ batch # Trainer
           /\ \A b \in Threads : b # batch => flight'[b] = flight[b]
           /\ UNCHANGED <<machines, mode, running, batch, turn, obs, buffer, done, traj, ctx, todo>>
           /\ abandoned => abandoned'
           /\ \/ UNCHANGED flight /\ (abandoned' \/ flight[batch] = <<>>)
              \/ /\ flight'[batch] = <<>>
                 /\ \A i \in 1 .. Len(flight[batch]) : flight[batch][i].state = "ok"
  <1>1. /\ pc = "drain" /\ pc' = "between"
        /\ UNCHANGED <<machines, mode, running, batch, turn, obs, buffer, done, traj, ctx, todo>>
        /\ \/ flight[batch] = <<>> /\ UNCHANGED <<flight, abandoned>>
           \/ /\ flight[batch] # <<>> /\ Head(flight[batch]).state = "ok"
              /\ flight' = [flight EXCEPT ![batch] = <<>>] /\ UNCHANGED abandoned
           \/ abandoned' = TRUE /\ UNCHANGED flight
    BY DEF Drain
  <1>2. /\ batch \in Threads /\ batch # Trainer
        /\ flight[batch] \in Seq(Request) /\ Len(flight[batch]) <= 1
    BY <1>1 DEF IInv, Typed, Threads, Shape
  <1>3. CASE flight[batch] = <<>> /\ UNCHANGED <<flight, abandoned>>
    BY <1>1, <1>2, <1>3
  <1>5. CASE abandoned' = TRUE /\ UNCHANGED flight
    BY <1>1, <1>2, <1>5
  <1>4. CASE /\ flight[batch] # <<>> /\ Head(flight[batch]).state = "ok"
             /\ flight' = [flight EXCEPT ![batch] = <<>>] /\ UNCHANGED abandoned
    <2>1. \A i \in 1 .. Len(flight[batch]) : i = 1
      BY <1>2
    <2>2. Head(flight[batch]) = flight[batch][1]
      BY <1>2, <1>4
    <2> QED
      BY <1>1, <1>2, <1>4, <2>1, <2>2 DEF IInv, Typed
  <1> QED
    BY <1>1, <1>3, <1>4, <1>5

LEMMA DrainOrderly == ASSUME IInv, Orderly, Drain PROVE Orderly'
  <1>1. /\ pc = "drain" /\ pc' = "between" /\ batch \in Threads /\ batch # Trainer
        /\ \A b \in Threads : b # batch => flight'[b] = flight[b]
        /\ UNCHANGED <<call, mode, batch>>
        /\ \/ UNCHANGED flight
           \/ /\ flight'[batch] = <<>>
              /\ \A i \in 1 .. Len(flight[batch]) : flight[batch][i].state = "ok"
    BY DrainEffects DEF machines
  <1>2. Queue(batch)' /\ (\A i \in 1 .. Len(flight[batch]) : OfBatch(flight[batch][i].acts, batch))'
    <2>1. CASE UNCHANGED flight
      BY <1>1, <2>1, SameQueues
    <2>2. CASE /\ flight'[batch] = <<>>
               /\ \A i \in 1 .. Len(flight[batch]) : flight[batch][i].state = "ok"
      <3>1. call[batch].phase = "idle"
        BY <1>1, <2>2 DEF Orderly, Queue
      <3> QED
        BY <1>1, <2>2, <3>1, EmptySeq DEF Queue
    <2> QED
      BY <1>1, <2>1, <2>2
  <1>3. \A d \in Threads \ {Trainer} : Queue(d)'
    BY <1>1, <1>2, SameQueues
  <1>4. Batched'
    BY <1>1, <1>2 DEF Orderly, Batched, OfBatch
  <1>5. CallsShaped' /\ Drains'
    BY <1>1 DEF Orderly, CallsShaped, Drains, Async
  <1> QED
    BY <1>3, <1>4, <1>5 DEF Orderly

LEMMA PoolStepsOrderly ==
    ASSUME IInv, Orderly, NEW t \in Threads, PoolSteps(t) PROVE Orderly'
  <1>1. PoolTypeOK /\ PoolStep(t) /\ UNCHANGED <<trainer, flight>>
    BY DEF PoolSteps, IInv, Typed
  <1>2. CallsShaped'
    BY <1>1, PoolStepShaped DEF Orderly
  <1>3. \A u \in Threads : u # t => call'[u] = call[u]
    BY <1>1, PoolStepLocal
  <1>4. call'[t].op = call[t].op /\ call'[t].acts = call[t].acts
    BY <1>1, PoolEffects
  <1>5. call'[t].phase = "idle" <=> call[t].phase = "idle"
    BY <1>2, <1>4 DEF Orderly, CallsShaped, Shaped
  <1>6. \A d \in Threads \ {Trainer} : Queue(d)'
    BY <1>1, <1>3, <1>4, <1>5, SameQueues
  <1>7. Batched'
    <2>1. \A u \in Threads : call'[u].acts = call[u].acts
      BY <1>3, <1>4
    <2> QED
      BY <1>1, <2>1, ConstantsTyped DEF trainer, Orderly, Batched, OfBatch
  <1>8. Drains'
    BY <1>1 DEF trainer, Orderly, Drains, Async
  <1> QED
    BY <1>2, <1>6, <1>7, <1>8 DEF Orderly

LEMMA StepOrderly == IInv /\ Orderly /\ [Next]_vars => Orderly'
  <1> SUFFICES ASSUME IInv, Orderly, [Next]_vars PROVE Orderly'
    OBVIOUS
  <1>0. Typed
    BY DEF IInv
  <1>1. CASE StartBatch
    <2>1. /\ Calls(Trainer, "reset", NoActs) /\ pc' = "reset"
          /\ UNCHANGED <<flight, mode, abandoned>>
      BY <1>1 DEF StartBatch
    <2>2. Shaped(call'[Trainer])
      BY <1>0, <2>1, CallEffects DEF Shaped
    <2> QED
      BY <1>0, <2>1, <2>2, CallEffects, IdleShaped, TrainerCallOrderly
  <1>2. CASE ResetReturns \/ Crash \/ StepReturns \/ PeekReturns
    <2>1. Hangup(Trainer) /\ pc' # "drain" /\ UNCHANGED <<flight, mode, batch, abandoned>>
      BY <1>2 DEF ResetReturns, Crash, StepReturns, PeekReturns, ToProcess
    <2> QED
      BY <1>0, <2>1, HangupEffects, IdleShaped, TrainerCallOrderly
  <1>3. CASE TurnSync
    <2>1. /\ Calls(Trainer, "step", Choice) /\ pc' = "step"
          /\ UNCHANGED <<flight, mode, batch, abandoned>>
      BY <1>3 DEF TurnSync
    <2>2. Shaped(call'[Trainer]) /\ OfBatch(Choice, batch)
      BY <1>0, <2>1, CallEffects DEF Shaped, OfBatch, Choice
    <2> QED
      BY <1>0, <2>1, <2>2, CallEffects, TrainerCallOrderly DEF OfBatch
  <1>4. CASE PeekCall
    <2>1. /\ Calls(Trainer, "peek", NoActs) /\ pc' # "drain"
          /\ UNCHANGED <<flight, mode, batch, abandoned>>
      BY <1>4 DEF PeekCall, trainer
    <2>2. Shaped(call'[Trainer])
      BY <1>0, <2>1, CallEffects DEF Shaped
    <2> QED
      BY <1>0, <2>1, <2>2, CallEffects, IdleShaped, TrainerCallOrderly
  <1>5. CASE LeaveLoop
    <2>1. /\ UNCHANGED <<call, flight, mode, batch, abandoned>>
          /\ pc' = IF Async THEN "drain" ELSE "between"
      BY <1>5 DEF LeaveLoop, machines
    <2> QED
      BY <2>1 DEF Orderly, CallsShaped, Queue, Batched, OfBatch, Drains, Async
  <1>6. ASSUME UNCHANGED <<call, flight, mode, batch, abandoned>>, pc' = "drain" => pc = "drain"
        PROVE  Orderly'
    BY <1>6 DEF Orderly, CallsShaped, Queue, Batched, OfBatch, Drains, Async
  <1>7. CASE FutureFails \/ Halt \/ UNCHANGED vars
    BY <1>6, <1>7 DEF FutureFails, Halt, vars, trainer, machines
  <1>8. ASSUME NEW w \in Workers, Process(w) PROVE Orderly'
    BY <1>6, <1>8 DEF Process, Processed
  <1>9. ASSUME NEW t \in Threads, PoolSteps(t) \/ PipeTake(t) \/ PipeDone(t) PROVE Orderly'
    BY <1>9, PoolStepsOrderly, PipeTakeOrderly, PipeDoneOrderly
  <1> QED
    BY <1>1, <1>2, <1>3, <1>4, <1>5, <1>7, <1>8, <1>9, TurnAsyncOrderly, AwaitOrderly,
       DrainOrderly DEF Next, TrainerStep

----------------------------------------------------------------------------
(* One dispatch at a time, and no panic without misuse *)

(* As long as no drain gave up, one dispatch at a time is under way: the   *)
(* trainer's own, in the reset or in a synchronous turn, or the request of *)
(* the batch that its executor runs.  Only a peek can panic, and only      *)
(* where it is made while a step is in flight.                             *)
NoFailure ==
    /\ pc = "crashed" => mode = "async_smb"
    /\ \A t \in Threads : call[t].phase = "panic" =>
          t = Trainer /\ pc = "peek" /\ mode = "async_smb"
    /\ \A b \in Threads : \A i \in 1 .. Len(flight[b]) : flight[b][i].state # "failed"

TrainerCalls ==
    /\ pc = "peek" => Smb
    /\ pc \in {"reset", "step"} => call[Trainer].op = pc
    /\ call[Trainer].op # "none" => pc = call[Trainer].op

OneFlight ==
    \A b \in Threads : flight[b] # <<>> =>
        b = batch /\ b # Trainer /\ Async /\ pc \notin {"between", "reset", "step"}

Solo == NoFailure /\ TrainerCalls /\ OneFlight

SoloUnlessAbandoned == ~abandoned => Solo

LEMMA InitSolo == Init => SoloUnlessAbandoned
  <1> SUFFICES ASSUME Init PROVE Solo
    BY DEF SoloUnlessAbandoned
  <1>1. \A t \in Threads : call[t] = Idle /\ flight[t] = <<>>
    BY DEF Init, PoolInit
  <1>2. pc = "between"
    BY DEF Init
  <1> QED
    BY <1>1, <1>2, IdleFields, EmptySeq, ConstantsTyped
    DEF Solo, NoFailure, TrainerCalls, OneFlight

(* An executor that runs, runs a request of the batch in the loop.         *)
LEMMA ExecutorAlone ==
    ASSUME Orderly, Solo, NEW b \in Threads, b # Trainer, call[b].phase # "idle"
    PROVE  /\ b = batch /\ Async /\ pc \notin {"between", "reset", "step"}
           /\ call[b].op = "step" /\ flight[b] # <<>>
  <1>1. PICK i \in 1 .. Len(flight[b]) : flight[b][i].state = "running"
    BY DEF Orderly, Queue
  <1>2. flight[b] # <<>>
    BY <1>1, EmptySeq
  <1> QED
    BY <1>2 DEF Orderly, CallsShaped, Shaped, Solo, OneFlight

LEMMA OpTyped ==
    ASSUME IInv, NEW t \in Threads
    PROVE  call[t] \in Call /\ call[t].op \in {"none", "reset", "step", "peek"}
  BY DEF IInv, Typed, PoolTypeOK, Call

LEMMA OneDispatch ==
    ASSUME IInv, Orderly, Solo, NEW t \in Threads, NEW u \in Threads,
           call[t].op \in {"reset", "step"}, call[u].op \in {"reset", "step"}
    PROVE  t = u
  <1>1. call[t].phase # "idle" /\ call[u].phase # "idle"
    BY DEF Orderly, CallsShaped, Shaped
  <1>2. call[Trainer].op \in {"reset", "step"} => pc \in {"reset", "step"}
    BY DEF Solo, TrainerCalls
  <1> QED
    BY <1>1, <1>2, ExecutorAlone

LEMMA DispatchOps ==
    ASSUME IInv, Orderly, NEW d \in Dispatching
    PROVE  d \in Threads /\ call[d].phase = "tasks" /\ call[d].op \in {"reset", "step"}
  <1>1. d \in Threads /\ call[d].phase = "tasks" /\ Shaped(call[d])
    BY DEF Dispatching, Orderly, CallsShaped
  <1>2. call[d].op # "none" /\ call[d].op # "peek"
    BY <1>1 DEF Shaped
  <1>3. call[d].op \in {"none", "reset", "step", "peek"}
    BY <1>1, OpTyped
  <1> QED
    BY <1>1, <1>2, <1>3

LEMMA PoolStepsSolo ==
    ASSUME IInv, Exclusive, Orderly, Solo, NEW t \in Threads, PoolSteps(t) PROVE Solo'
  <1>0. PoolTypeOK /\ UNCHANGED <<trainer, flight>> /\ PoolStep(t)
    BY DEF IInv, Typed, PoolSteps
  <1>1. \A u \in Threads : u # t => call'[u] = call[u]
    BY <1>0, PoolStepLocal
  <1>2. call'[t].op = call[t].op
    BY <1>0, PoolEffects
  <1>3. ASSUME call'[t].phase = "panic" PROVE t = Trainer /\ pc = "peek" /\ mode = "async_smb"
    <2>1. section /\ call[t].phase \in {"enter", "pace"}
      BY <1>0, <1>3, PoolStepPhases
    <2>2. PICK d \in Dispatching : TRUE
      BY <2>1 DEF Exclusive
    <2>3. call[d].phase = "tasks" /\ call[d].op \in {"reset", "step"} /\ d \in Threads
      BY <2>2, DispatchOps
    <2>4. call[t].op \notin {"reset", "step"}
      BY <2>1, <2>3, OneDispatch
    <2>5. call[t].op = "peek"
      BY <1>0, <2>1, <2>4 DEF PoolTypeOK, Call, Orderly, CallsShaped, Shaped
    <2>6. t = Trainer
      BY <2>5 DEF Orderly, CallsShaped
    <2>7. pc = "peek" /\ Smb
      BY <2>5, <2>6 DEF Solo, TrainerCalls
    <2>8. Async
      BY <2>3, <2>5, <2>6, ExecutorAlone
    <2> QED
      BY <2>6, <2>7, <2>8 DEF Smb, Async
  <1>4. NoFailure'
    BY <1>0, <1>1, <1>3 DEF Solo, NoFailure, trainer
  <1>5. TrainerCalls'
    BY <1>0, <1>1, <1>2, ConstantsTyped DEF Solo, TrainerCalls, trainer, Smb
  <1>6. OneFlight'
    BY <1>0 DEF Solo, OneFlight, trainer, Async
  <1> QED
    BY <1>4, <1>5, <1>6 DEF Solo

LEMMA PipeTakeSolo == ASSUME IInv, Orderly, Solo, NEW b \in Threads, PipeTake(b) PROVE Solo'
  <1>0. Typed
    BY DEF IInv
  <1>1. PICK i \in 1 .. Len(flight[b]) : Takes(b, i)
    BY <1>0, PipeTakeEffects
  <1>2. Others(b) /\ UNCHANGED trainer
    BY <1>0, PipeTakeEffects
  <1>3. NoFailure'
    BY <1>1, <1>2 DEF Takes, Others, trainer, Solo, NoFailure
  <1>4. TrainerCalls'
    BY <1>1, <1>2, ConstantsTyped DEF Takes, Others, trainer, Smb, Solo, TrainerCalls
  <1>5. OneFlight'
    <2>1. flight[b] # <<>>
      BY <1>1, EmptySeq
    <2> QED
      BY <1>2, <2>1 DEF Others, trainer, Async, Solo, OneFlight
  <1> QED
    BY <1>3, <1>4, <1>5 DEF Solo

LEMMA PipeDoneSolo == ASSUME IInv, Orderly, Solo, NEW b \in Threads, PipeDone(b) PROVE Solo'
  <1>0. Typed
    BY DEF IInv
  <1>1. Finishes(b) /\ Others(b) /\ UNCHANGED trainer
    BY <1>0, PipeDoneEffects
  <1>2. call[b].phase = "ret" /\ flight[b] # <<>>
    BY <1>1, ExecutorAlone DEF Finishes, Solo, NoFailure
  <1>3. NoFailure'
    BY <1>1, <1>2, IdleFields DEF Finishes, Others, trainer, Solo, NoFailure
  <1>4. TrainerCalls'
    BY <1>1, ConstantsTyped DEF Finishes, Others, trainer, Smb, Solo, TrainerCalls
  <1>5. OneFlight'
    BY <1>1, <1>2 DEF Others, trainer, Async, Solo, OneFlight
  <1> QED
    BY <1>3, <1>4, <1>5 DEF Solo

(* Before and after a batch, and in the synchronous modes, nothing is in   *)
(* flight and no executor runs.                                            *)
LEMMA QuietBetween ==
    ASSUME Orderly, Solo, pc \in {"between", "reset", "step"} \/ ~Async
    PROVE  /\ \A b \in Threads : flight[b] = <<>>
           /\ \A b \in Threads : b # Trainer => call[b].phase = "idle"
  BY ExecutorAlone DEF Solo, OneFlight

(* The trainer's own calls: it makes them where nobody else dispatches.    *)
LEMMA TrainerCallSolo ==
    ASSUME IInv, Orderly, Solo, UNCHANGED <<flight, mode>>,
           \A t \in Threads : t # Trainer => call'[t] = call[t],
           call'[Trainer].phase # "panic", pc' # "crashed", pc' = "peek" => Smb,
           pc' \in {"reset", "step"} => call'[Trainer].op = pc',
           call'[Trainer].op # "none" => pc' = call'[Trainer].op,
           \/ pc \in {"between", "reset", "step"}
           \/ ~Async
           \/ UNCHANGED batch /\ pc' \notin {"between", "reset", "step"}
    PROVE  Solo'
  <1>1. NoFailure'
    BY ConstantsTyped, ExecutorAlone DEF Solo, NoFailure
  <1>2. TrainerCalls'
    BY DEF TrainerCalls, Smb
  <1>3. OneFlight'
    BY QuietBetween DEF Solo, OneFlight, Async
  <1> QED
    BY <1>1, <1>2, <1>3 DEF Solo

(* The steps that neither call nor hang up.                                *)
LEMMA PlainSolo ==
    ASSUME IInv, Orderly, Solo, UNCHANGED <<call, mode, batch>>,
           \A b \in Threads : flight'[b] = flight[b] \/ flight'[b] = <<>>,
           pc' # "crashed", pc' = "peek" => Smb, pc \notin {"reset", "step", "peek"},
           pc' \notin {"reset", "step"},
           pc' = "between" => pc = "between" \/ \A b \in Threads : flight'[b] = <<>>
    PROVE  Solo'
  <1>1. NoFailure'
    BY EmptySeq DEF Solo, NoFailure
  <1>2. TrainerCalls'
    <2>1. call[Trainer].op = "none"
      BY OpTyped, ConstantsTyped DEF Solo, TrainerCalls
    <2> QED
      BY <2>1 DEF Solo, TrainerCalls, Smb
  <1>3. OneFlight'
    BY DEF Solo, OneFlight, Async
  <1> QED
    BY <1>1, <1>2, <1>3 DEF Solo

LEMMA TrainerSolo ==
    ASSUME IInv, Orderly, Solo, ~abandoned', TrainerStep
    PROVE  Solo'
  <1>0. Typed
    BY DEF IInv
  <1>1. CASE StartBatch
    <2>1. /\ pc = "between" /\ pc' = "reset" /\ UNCHANGED <<flight, mode>>
          /\ Calls(Trainer, "reset", NoActs)
      BY <1>1 DEF StartBatch
    <2> QED
      BY <1>0, <2>1, CallEffects, TrainerCallSolo
  <1>2. CASE ResetReturns \/ StepReturns \/ PeekReturns
    <2>1. /\ UNCHANGED <<flight, mode, batch>> /\ Hangup(Trainer)
          /\ pc' \in {"top", "process", "peek"} /\ (pc' = "peek" => Smb)
      BY <1>2 DEF ResetReturns, StepReturns, PeekReturns, ToProcess
    <2> QED
      BY <1>0, <2>1, HangupEffects, IdleFields, TrainerCallSolo
  <1>3. CASE Crash
    <2>1. /\ call[Trainer].phase = "panic" /\ pc' = "crashed" /\ Hangup(Trainer)
          /\ UNCHANGED <<flight, mode, batch>>
      BY <1>3 DEF Crash
    <2>2. mode = "async_smb"
      BY <2>1, ConstantsTyped DEF Solo, NoFailure
    <2>3. call'[Trainer] = Idle /\ \A t \in Threads : t # Trainer => call'[t] = call[t]
      BY <1>0, <2>1, HangupEffects
    <2>4. NoFailure'
      BY <2>1, <2>2, <2>3, IdleFields DEF Solo, NoFailure
    <2>5. TrainerCalls'
      BY <2>1, <2>3, IdleFields DEF TrainerCalls
    <2>6. OneFlight'
      BY <2>1 DEF Solo, OneFlight, Async
    <2> QED
      BY <2>4, <2>5, <2>6 DEF Solo
  <1>4. CASE TurnSync
    <2>1. /\ ~Async /\ pc' = "step" /\ UNCHANGED <<flight, mode>>
          /\ Calls(Trainer, "step", Choice)
      BY <1>4 DEF TurnSync
    <2> QED
      BY <1>0, <2>1, CallEffects, TrainerCallSolo
  <1>5. CASE TurnAsync
    <2>1. /\ Submits /\ batch \in Threads /\ batch # Trainer /\ Async
          /\ pc = "top" /\ pc' \in {"top", "wait"} /\ NewRequest.state = "queued"
          /\ Len(flight[batch]) \in {0, 1}
          /\ UNCHANGED <<call, mode, batch>>
      BY <1>5, TurnAsyncEffects DEF machines
    <2>2. NoFailure'
      <3>1. \A i \in 1 .. Len(flight'[batch]) :
                i \in 1 .. Len(flight[batch]) \/ i = Len(flight[batch]) + 1
        BY <2>1 DEF Submits
      <3>2. \A i \in 1 .. Len(flight'[batch]) : flight'[batch][i].state # "failed"
        BY <2>1, <3>1 DEF Submits, Solo, NoFailure
      <3> QED
        BY <2>1, <3>2 DEF Submits, Solo, NoFailure
    <2>3. TrainerCalls'
      <3>1. call[Trainer].op = "none"
        BY <2>1, OpTyped, ConstantsTyped DEF Solo, TrainerCalls
      <3> QED
        BY <2>1, <3>1 DEF Solo, TrainerCalls
    <2>4. OneFlight'
      BY <2>1 DEF Submits, Solo, OneFlight, Async
    <2> QED
      BY <2>2, <2>3, <2>4 DEF Solo
  <1>6. CASE Await
    <2>1. /\ Receives /\ batch \in Threads /\ batch # Trainer /\ Async
          /\ pc = "wait" /\ pc' = (IF Smb THEN "peek" ELSE "process")
          /\ UNCHANGED <<call, mode, batch>>
      BY <1>6, AwaitEffects DEF machines
    <2>2. NoFailure'
      <3>1. flight[batch][2].state # "failed"
        BY <2>1 DEF Receives, Solo, NoFailure
      <3>2. \A i \in 1 .. Len(flight'[batch]) : flight'[batch][i].state # "failed"
        <4>1. \A i \in 1 .. Len(flight'[batch]) : i = 1
          BY <2>1 DEF Receives
        <4> QED
          BY <2>1, <3>1, <4>1 DEF Receives
      <3> QED
        BY <2>1, <3>2 DEF Receives, Solo, NoFailure
    <2>3. TrainerCalls'
      <3>1. call[Trainer].op = "none"
        BY <2>1, OpTyped, ConstantsTyped DEF Solo, TrainerCalls
      <3> QED
        BY <2>1, <3>1 DEF Solo, TrainerCalls, Smb
    <2>4. OneFlight'
      BY <2>1 DEF Receives, Solo, OneFlight, Async
    <2> QED
      BY <2>2, <2>3, <2>4 DEF Solo
  <1>7. CASE PeekCall
    <2>1. /\ pc = "peek" /\ UNCHANGED <<trainer, flight>> /\ Calls(Trainer, "peek", NoActs)
      BY <1>7 DEF PeekCall
    <2>2. Smb
      BY <2>1 DEF Solo, TrainerCalls
    <2> QED
      BY <1>0, <2>1, <2>2, CallEffects, TrainerCallSolo DEF trainer
  <1>8. ASSUME NEW w \in Workers, Process(w) PROVE Solo'
    BY <1>8, PlainSolo DEF Process, Processed
  <1>9. CASE LeaveLoop
    <2>1. /\ pc = "top" /\ pc' = (IF Async THEN "drain" ELSE "between")
          /\ UNCHANGED <<call, mode, batch, flight>>
      BY <1>9 DEF LeaveLoop, machines
    <2>2. ~Async => \A b \in Threads : flight[b] = <<>>
      BY QuietBetween
    <2> QED
      BY <2>1, <2>2, PlainSolo
  <1>10. CASE Drain
    <2>1. /\ pc = "drain" /\ pc' = "between" /\ batch \in Threads
          /\ \A b \in Threads : b # batch => flight'[b] = flight[b]
          /\ UNCHANGED <<call, mode, batch>>
          /\ flight'[batch] = <<>>
      BY <1>10, DrainEffects DEF machines
    <2>2. \A b \in Threads : flight'[b] = <<>>
      BY <2>1 DEF Solo, OneFlight
    <2> QED
      BY <2>1, <2>2, PlainSolo
  <1>11. CASE FutureFails
    <2>1. pc \in {"wait", "drain"} /\ flight[batch] # <<>> /\ Head(flight[batch]).state = "failed"
      BY <1>11 DEF FutureFails
    <2>2. batch \in Threads /\ flight[batch] \in Seq(Request)
      BY DEF IInv, Typed, Threads
    <2>3. Len(flight[batch]) \in Nat \ {0} /\ Head(flight[batch]) = flight[batch][1]
      BY <2>1, <2>2, EmptySeq
    <2> QED
      BY <2>1, <2>2, <2>3 DEF Solo, NoFailure
  <1> QED
    BY <1>1, <1>2, <1>3, <1>4, <1>5, <1>6, <1>7, <1>8, <1>9, <1>10, <1>11 DEF TrainerStep

(* The modes and the history of drains in a step.                          *)
LEMMA StepKeeps ==
    ASSUME [Next]_vars PROVE UNCHANGED mode /\ (abandoned => abandoned')
  <1>1. ASSUME NEW w \in Workers, Process(w) PROVE UNCHANGED <<mode, abandoned>>
    BY <1>1 DEF Process, Processed
  <1>2. CASE Drain
    BY <1>2 DEF Drain
  <1>3. CASE StartBatch \/ ResetReturns \/ Crash \/ TurnSync \/ TurnAsync \/ StepReturns
    BY <1>3 DEF StartBatch, ResetReturns, Crash, TurnSync, TurnAsync, StepReturns
  <1>4. CASE Await \/ PeekCall \/ PeekReturns \/ LeaveLoop \/ FutureFails \/ Halt
    BY <1>4 DEF Await, PeekCall, PeekReturns, LeaveLoop, FutureFails, Halt, trainer
  <1>5. ASSUME NEW t \in Threads, PoolSteps(t) \/ PipeTake(t) \/ PipeDone(t)
        PROVE  UNCHANGED <<mode, abandoned>>
    BY <1>5 DEF PoolSteps, PipeTake, PipeDone, trainer
  <1>6. CASE UNCHANGED vars
    BY <1>6 DEF vars, trainer
  <1> QED
    BY <1>1, <1>2, <1>3, <1>4, <1>5, <1>6 DEF Next, TrainerStep

LEMMA StepSolo ==
    IInv /\ Exclusive /\ Orderly /\ SoloUnlessAbandoned /\ [Next]_vars => SoloUnlessAbandoned'
  <1> SUFFICES ASSUME IInv, Exclusive, Orderly, SoloUnlessAbandoned, [Next]_vars, ~abandoned'
               PROVE Solo'
    BY DEF SoloUnlessAbandoned
  <1>1. Solo
    BY StepKeeps DEF SoloUnlessAbandoned
  <1>2. CASE TrainerStep
    BY <1>1, <1>2, TrainerSolo
  <1>3. CASE Halt
    BY <1>1, <1>3 DEF Halt, machines, Solo, NoFailure, TrainerCalls, OneFlight, Async, Smb
  <1>4. ASSUME NEW t \in Threads, PoolSteps(t) \/ PipeTake(t) \/ PipeDone(t) PROVE Solo'
    BY <1>1, <1>4, PoolStepsSolo, PipeTakeSolo, PipeDoneSolo
  <1>5. CASE UNCHANGED vars
    BY <1>1, <1>5 DEF vars, machines, trainer, Solo, NoFailure, TrainerCalls, OneFlight, Async,
       Smb
  <1> QED
    BY <1>2, <1>3, <1>4, <1>5 DEF Next

(* As long as no drain gave up and no peak is read while a step is in      *)
(* flight, no call panics and no peak is read under another's tasks.       *)
THEOREM NoPanics == Spec => []NoPanicUnlessMisused
  <1>1. IInv /\ Orderly /\ SoloUnlessAbandoned => NoPanicUnlessMisused
    <2> SUFFICES ASSUME IInv, Orderly, Solo, mode # "async_smb"
                 PROVE  /\ pc # "crashed" /\ \A t \in Threads : call[t].phase # "panic"
                        /\ call[Trainer].phase = "read" => Dispatching = {}
      BY DEF SoloUnlessAbandoned, NoPanicUnlessMisused
    <2>1. ASSUME call[Trainer].phase = "read", NEW d \in Dispatching PROVE FALSE
      <3>1. d \in Threads /\ call[d].phase = "tasks" /\ call[d].op \in {"reset", "step"}
        BY DispatchOps
      <3>2. Async
        BY <2>1, <3>1, ExecutorAlone
      <3>3. call[Trainer].op = "peek"
        BY <2>1, ConstantsTyped DEF IInv, Typed, PoolTypeOK, Call, Orderly, CallsShaped, Shaped
      <3>4. Smb
        BY <3>3 DEF Solo, TrainerCalls
      <3> QED
        BY <3>2, <3>4 DEF Async, Smb
    <2> QED
      BY <2>1 DEF Solo, NoFailure
  <1> QED
    BY <1>1, InitIInv, StepIInv, InitExclusive, StepExclusive, InitOrderly, StepOrderly,
       InitSolo, StepSolo,
       PTL DEF Spec

----------------------------------------------------------------------------
(* The machines serve the batch *)

(* The thread whose dispatches step the machines of the batch.             *)
Runner == IF Async THEN batch ELSE Trainer
Looping == pc \in {"top", "step", "wait", "peek", "process"}

(* The steps that machine w has still to run: one for each request that    *)
(* waits, and the running one until its task has come to w.                *)
Pending(c, w) == c.op = "step" /\ (c.phase = "enter" \/ w \in c.todo)
Queued(f, i) == IF Len(f) >= i /\ f[i].state = "queued" THEN 1 ELSE 0
Waiting(f) == Queued(f, 1) + Queued(f, 2)
Owed(w) == Waiting(flight[batch]) + (IF Pending(call[Runner], w) THEN 1 ELSE 0)

(* Machine w has not been reset for the batch yet.                         *)
Fresh(w) == pc = "reset" /\ (call[Trainer].phase = "enter" \/ w \in call[Trainer].todo)

Lives ==
    \A w \in Workers :
        /\ machine[w].life = IF Fresh(w) THEN batch - 1 ELSE batch
        /\ machine[w].ran = NoAction \/ machine[w].ran.batch = machine[w].life

Resetting ==
    pc = "reset" =>
        /\ call[Trainer].phase # "enter" => \A w \in Workers : ~workerDone[w]
        /\ \A w \in Workers : ~done[w] /\ (~Fresh(w) => machine[w].clock = 0)

(* What a machine has run and what it still owes are the turns so far,     *)
(* unless it died or its episode is over.                                  *)
Clock(w) ==
    /\ workerDone[w] = done[w]
    /\ ~done[w] => machine[w].clock + Owed(w) <= turn
    /\ ~done[w] /\ ~machine[w].dead => machine[w].clock + Owed(w) = turn
    /\ done[w] => machine[w].clock <= Len(traj[w]) + Ahead

Clocks == Looping => \A w \in Workers : Clock(w)

Serving == Lives /\ Resetting /\ Clocks
ServingUnlessAbandoned == ~abandoned => Serving

LEMMA OwedTyped == Waiting(flight[batch]) \in Nat /\ \A w \in Workers : Owed(w) \in Nat
  BY DEF Waiting, Queued, Owed

LEMMA MachineTyped ==
    ASSUME Typed, NEW w \in Workers
    PROVE  /\ machine[w].clock \in Nat /\ machine[w].life \in Nat
           /\ machine[w].dead \in BOOLEAN /\ machine[w].ran \in Actions
           /\ workerDone[w] \in BOOLEAN /\ done[w] \in BOOLEAN
           /\ Len(traj[w]) \in Nat /\ batch \in Nat /\ turn \in Nat
           /\ Ahead \in {0, 1}
  <1>1. machine[w] \in Machine /\ traj[w] \in Seq(Tuple)
    BY DEF Typed, PoolTypeOK
  <1> QED
    BY <1>1, LenProperties DEF Typed, PoolTypeOK, Machine, Ahead

LEMMA InitServing == Init => ServingUnlessAbandoned
  <1> SUFFICES ASSUME Init PROVE Serving
    BY DEF ServingUnlessAbandoned
  <1>1. pc = "between" /\ batch = 0
    BY DEF Init
  <1>2. \A w \in Workers : machine[w].life = 0 /\ machine[w].ran = NoAction
    BY DEF Init, PoolInit
  <1> QED
    BY <1>1, <1>2 DEF Serving, Lives, Resetting, Clocks, Looping, Fresh

(* A dispatch of a step is the runner's.                                   *)
LEMMA StepIsTheRunners ==
    ASSUME IInv, Orderly, Solo, NEW t \in Threads, call[t].op = "step"
    PROVE  t = Runner /\ pc # "reset"
  <1>1. CASE t = Trainer
    BY <1>1 DEF Solo, TrainerCalls, Runner, IInv, Shape
  <1>2. CASE t # Trainer
    <2>1. call[t].phase # "idle"
      BY DEF Orderly, CallsShaped, Shaped
    <2> QED
      BY <1>2, <2>1, ExecutorAlone DEF Runner
  <1> QED
    BY <1>1, <1>2

LEMMA RunnerTyped == ASSUME Typed PROVE Runner \in Threads /\ batch \in Threads
  BY ConstantsTyped DEF Typed, Runner, Threads

(* What the pool's steps leave of the steps that are owed.                 *)
LEMMA PoolOwed ==
    ASSUME IInv, Orderly, Solo, Solo', NEW t \in Threads, PoolSteps(t), NEW v \in Workers
    PROVE  /\ EntersTasks(t) \/ MovesOn(t) => Owed(v)' = Owed(v)
           /\ \A w \in Workers : RunsTask(t, w) =>
                 Owed(v)' = IF v = w /\ call[t].op = "step" THEN Owed(v) - 1 ELSE Owed(v)
  <1>0. PoolTypeOK /\ PoolStep(t) /\ UNCHANGED <<trainer, flight>>
    BY DEF PoolSteps, IInv, Typed
  <1>1. \A u \in Threads : u # t => call'[u] = call[u]
    BY <1>0, PoolStepLocal
  <1>2. call'[t].op = call[t].op
    BY <1>0, PoolEffects
  <1>3. UNCHANGED <<Runner, batch, flight>> /\ Runner \in Threads
    BY <1>0, RunnerTyped DEF IInv, trainer, Runner, Async
  <1>4. Waiting(flight[batch])' = Waiting(flight[batch]) /\ Waiting(flight[batch]) \in Nat
    BY <1>3, OwedTyped
  <1>5. CASE call[t].op # "step" \/ t # Runner
    <2>1. t # Runner \/ (~Pending(call[Runner], v) /\ ~Pending(call'[Runner], v))
      BY <1>2, <1>5 DEF Pending
    <2>2. Pending(call'[Runner], v) <=> Pending(call[Runner], v)
      BY <1>1, <1>3, <2>1
    <2>3. Owed(v)' = Owed(v)
      BY <1>3, <1>4, <2>2 DEF Owed
    <2>4. call[t].op # "step"
      BY <1>5, StepIsTheRunners
    <2> QED
      BY <2>3, <2>4
  <1>6. CASE call[t].op = "step" /\ t = Runner
    <2>1. Owed(v) = Waiting(flight[batch]) + (IF Pending(call[t], v) THEN 1 ELSE 0)
      BY <1>6 DEF Owed
    <2>2. Owed(v)' = Waiting(flight[batch]) + (IF Pending(call'[t], v) THEN 1 ELSE 0)
      BY <1>3, <1>4, <1>6 DEF Owed
    <2>3. call[t].phase = "tasks" \/ call[t].todo = {}
      BY DEF Orderly, CallsShaped, Shaped
    <2>4. CASE EntersTasks(t)
      <3>1. Pending(call[t], v) /\ Pending(call'[t], v)
        BY <1>2, <1>6, <2>4 DEF EntersTasks, Pending
      <3>2. \A w \in Workers : ~RunsTask(t, w)
        BY <2>4 DEF EntersTasks, RunsTask
      <3> QED
        BY <2>1, <2>2, <3>1, <3>2
    <2>5. CASE MovesOn(t)
      <3>1. call'[t].phase # "panic"
        <4> SUFFICES ASSUME call'[t].phase = "panic" PROVE FALSE
          OBVIOUS
        <4>1. t = Trainer /\ pc' = "peek"
          BY DEF Solo, NoFailure
        <4> QED
          BY <1>2, <1>6, <4>1 DEF Solo, TrainerCalls
      <3>2. ~Pending(call[t], v) /\ ~Pending(call'[t], v)
        BY <1>2, <1>6, <2>3, <2>5, <3>1 DEF MovesOn, Pending
      <3>3. \A w \in Workers : ~RunsTask(t, w)
        BY <2>5 DEF MovesOn, RunsTask
      <3> QED
        BY <2>1, <2>2, <3>2, <3>3
    <2>6. ASSUME NEW w \in Workers, RunsTask(t, w)
          PROVE  /\ ~EntersTasks(t) /\ ~MovesOn(t)
                 /\ Owed(v)' = IF v = w THEN Owed(v) - 1 ELSE Owed(v)
      <3>1. Pending(call[t], v) <=> v \in call[t].todo
        BY <1>6, <2>6 DEF RunsTask, Pending
      <3>2. Pending(call'[t], v) <=> v \in call[t].todo /\ v # w
        BY <1>2, <1>6, <2>6 DEF RunsTask, Pending
      <3>3. w \in call[t].todo /\ ~EntersTasks(t) /\ ~MovesOn(t)
        BY <2>6 DEF RunsTask, EntersTasks, MovesOn
      <3> QED
        BY <1>4, <2>1, <2>2, <3>1, <3>2, <3>3
    <2> QED
      BY <1>6, <2>4, <2>5, <2>6
  <1> QED
    BY <1>5, <1>6

(* The steps that move no machine and begin or end no turn but with it.    *)
LEMMA MachinesStand ==
    ASSUME IInv, IInv', Serving, pc # "reset", pc' # "reset",
           UNCHANGED <<machine, workerDone, done, batch, mode, traj>>,
           Looping' => Looping,
           \A w \in Workers : Looping' => Owed(w)' + turn = Owed(w) + turn'
    PROVE  Serving'
  <1>1. Lives' /\ Resetting'
    BY DEF Serving, Lives, Resetting, Fresh
  <1>2. ASSUME NEW w \in Workers, Looping' PROVE Clock(w)'
    <2>1. Clock(w) /\ Owed(w)' + turn = Owed(w) + turn'
      BY <1>2 DEF Serving, Clocks
    <2>2. Owed(w) \in Nat /\ Owed(w)' \in Nat
      BY OwedTyped DEF Owed, Waiting, Queued
    <2>3. machine[w].clock \in Nat /\ turn \in Nat /\ turn' \in Nat
      BY MachineTyped DEF IInv, Typed
    <2>4. UNCHANGED <<machine[w], workerDone[w], done[w], Len(traj[w]), Ahead>>
      BY DEF Ahead, Async
    <2>5. machine[w].clock + Owed(w) <= turn => machine[w].clock + Owed(w)' <= turn'
      BY <2>1, <2>2, <2>3
    <2>6. machine[w].clock + Owed(w) = turn => machine[w].clock + Owed(w)' = turn'
      BY <2>1, <2>2, <2>3
    <2> QED
      BY <2>1, <2>4, <2>5, <2>6 DEF Clock
  <1> QED
    BY <1>1, <1>2 DEF Serving, Clocks

(* No step of the runner is pending where its call is another or none.     *)
LEMMA NothingPending ==
    ASSUME NEW c, NEW w, c.op # "step" \/ (c.phase # "enter" /\ c.todo = {})
    PROVE  ~Pending(c, w)
  BY DEF Pending

LEMMA ReturnsServing ==
    ASSUME IInv, IInv', Orderly, Solo, Serving, StepReturns \/ PeekCall \/ PeekReturns \/ Crash
    PROVE  Serving'
  <1>0. Typed
    BY DEF IInv
  <1>1. /\ UNCHANGED <<machine, workerDone, done, batch, mode, traj, turn, flight>>
        /\ pc \in {"step", "peek", "reset"} /\ pc' \in {"peek", "process", "crashed"}
        /\ call[Trainer].phase \in {"idle", "ret", "panic"}
        /\ pc' # "crashed" => pc \in {"step", "peek"}
        /\ pc' = "crashed" => call[Trainer].phase = "panic"
    BY DEF StepReturns, PeekCall, PeekReturns, Crash, ToProcess, trainer, Calls
  <1>2. pc # "reset"
    BY <1>1, ConstantsTyped DEF Solo, NoFailure
  <1>3. \/ call'[Trainer].op = "peek"
        \/ call'[Trainer] = Idle
    BY <1>0, CallEffects, HangupEffects DEF StepReturns, PeekCall, PeekReturns, Crash
  <1>4. \A t \in Threads : t # Trainer => call'[t] = call[t]
    BY <1>0, CallEffects, HangupEffects DEF StepReturns, PeekCall, PeekReturns, Crash
  <1>5. ASSUME NEW w \in Workers PROVE Owed(w)' = Owed(w)
    <2>1. call[Trainer].todo = {} /\ call[Trainer].phase # "enter"
      BY <1>1, ConstantsTyped DEF Orderly, CallsShaped, Shaped
    <2>2. ~Pending(call[Trainer], w) /\ ~Pending(call'[Trainer], w)
      BY <1>3, <2>1, IdleFields, NothingPending
    <2>3. Pending(call'[Runner], w) <=> Pending(call[Runner], w)
      BY <1>0, <1>4, <2>2, RunnerTyped
    <2>4. UNCHANGED Runner
      BY <1>1 DEF Runner, Async
    <2> QED
      BY <1>1, <2>3, <2>4 DEF Owed
  <1> QED
    BY <1>1, <1>2, <1>5, MachinesStand DEF Looping

LEMMA TurnSyncServing ==
    ASSUME IInv, IInv', Orderly, Solo, Serving, TurnSync PROVE Serving'
  <1>0. Typed
    BY DEF IInv
  <1>1. /\ pc = "top" /\ pc' = "step" /\ ~Async /\ turn' = turn + 1
        /\ Calls(Trainer, "step", Choice)
        /\ UNCHANGED <<machine, workerDone, done, batch, mode, traj, flight>>
    BY DEF TurnSync, InLoop
  <1>2. ASSUME NEW w \in Workers PROVE Owed(w)' + turn = Owed(w) + turn'
    <2>1. call[Trainer].op # "step"
      BY <1>0, <1>1, CallEffects, ConstantsTyped DEF Orderly, CallsShaped, Shaped
    <2>2. ~Pending(call[Trainer], w) /\ Pending(call'[Trainer], w)
      BY <1>0, <1>1, <2>1, CallEffects DEF Pending
    <2>3. Runner = Trainer /\ Runner' = Trainer
      BY <1>1 DEF Runner, Async
    <2>4. Owed(w)' = Owed(w) + 1
      BY <1>1, <2>2, <2>3, OwedTyped DEF Owed
    <2> QED
      BY <1>1, <2>4, OwedTyped, <1>0 DEF Typed
  <1> QED
    BY <1>1, <1>2, MachinesStand DEF Looping

LEMMA TurnAsyncServing ==
    ASSUME IInv, IInv', Serving, TurnAsync PROVE Serving'
  <1>1. /\ pc = "top" /\ pc' \in {"top", "wait"} /\ turn' = turn + 1 /\ batch \in Threads
        /\ UNCHANGED <<machine, workerDone, done, batch, mode, traj, call>>
        /\ Submits /\ NewRequest.state = "queued" /\ Len(flight[batch]) \in {0, 1}
    BY TurnAsyncEffects DEF machines
  <1> DEFINE f == flight[batch]
             g == flight'[batch]
  <1>2. Waiting(g) = Waiting(f) + 1
    <2>1. CASE Len(f) = 0
      <3>1. Len(g) = 1 /\ g[1] = NewRequest
        BY <1>1, <2>1 DEF Submits
      <3> QED
        BY <1>1, <2>1, <3>1 DEF Waiting, Queued
    <2>2. CASE Len(f) = 1
      <3>1. Len(g) = 2 /\ g[1] = f[1] /\ g[2] = NewRequest
        BY <1>1, <2>2 DEF Submits
      <3> QED
        BY <1>1, <2>2, <3>1 DEF Waiting, Queued
    <2> QED
      BY <1>1, <2>1, <2>2
  <1>3. ASSUME NEW w \in Workers PROVE Owed(w)' + turn = Owed(w) + turn'
    <2>1. UNCHANGED <<Runner, batch, call>>
      BY <1>1 DEF Runner, Async
    <2>2. Owed(w)' = Owed(w) + 1
      BY <1>2, <2>1, OwedTyped DEF Owed
    <2> QED
      BY <1>1, <2>2, OwedTyped DEF IInv, Typed
  <1> QED
    BY <1>1, <1>3, MachinesStand DEF Looping

LEMMA AwaitServing ==
    ASSUME IInv, IInv', Serving, Await PROVE Serving'
  <1>1. /\ pc = "wait" /\ pc' \in {"peek", "process"}
        /\ UNCHANGED <<machine, workerDone, done, batch, mode, traj, call, turn>>
        /\ Receives
    BY AwaitEffects DEF machines
  <1>2. Waiting(flight'[batch]) = Waiting(flight[batch])
    BY <1>1 DEF Receives, Waiting, Queued
  <1>3. ASSUME NEW w \in Workers PROVE Owed(w)' + turn = Owed(w) + turn'
    <2>1. UNCHANGED <<Runner, batch, call, turn>>
      BY <1>1 DEF Runner, Async
    <2> QED
      BY <1>2, <2>1 DEF Owed
  <1> QED
    BY <1>1, <1>3, MachinesStand DEF Looping

LEMMA LeavesServing ==
    ASSUME IInv, IInv', Serving, LeaveLoop \/ Drain \/ FutureFails PROVE Serving'
  <1>1. /\ pc # "reset" /\ pc' \in {"between", "drain", "crashed"}
        /\ UNCHANGED <<machine, workerDone, done, batch, mode, traj>>
    BY DEF LeaveLoop, Drain, FutureFails, machines
  <1> QED
    BY <1>1, MachinesStand DEF Looping

(* The executor takes a request: a step that waited is now pending.        *)
LEMMA TakesMovesOwed ==
    ASSUME IInv, Orderly, NEW b \in Threads, NEW i \in 1 .. Len(flight[b]), Takes(b, i)
    PROVE  Waiting(flight'[b]) + 1 = Waiting(flight[b])
  <1> DEFINE f == flight[b]
             g == flight'[b]
  <1>1. Len(f) \in Nat /\ Len(f) <= 2 /\ Len(g) = Len(f) /\ i \in {1, 2} /\ i <= Len(f)
    <2>1. Len(f) \in Nat /\ Len(f) <= 2
      BY LenProperties DEF IInv, Typed, Shape
    <2> QED
      BY <2>1 DEF Takes
  <1>2. CASE i = 1
    <2>1. f[1].state = "queued" /\ g[1].state = "running" /\ (Len(f) >= 2 => g[2] = f[2])
      BY <1>1, <1>2 DEF Takes
    <2>2. Queued(f, 1) = 1 /\ Queued(g, 1) = 0 /\ Queued(g, 2) = Queued(f, 2)
      BY <1>1, <1>2, <2>1 DEF Queued
    <2> QED
      BY <2>2 DEF Waiting, Queued
  <1>3. CASE i = 2
    <2>1. f[2].state = "queued" /\ g[2].state = "running" /\ g[1] = f[1]
      BY <1>1, <1>3 DEF Takes
    <2>2. Queued(f, 2) = 1 /\ Queued(g, 2) = 0 /\ Queued(g, 1) = Queued(f, 1)
      BY <1>1, <1>3, <2>1 DEF Queued
    <2> QED
      BY <2>2 DEF Waiting, Queued
  <1> QED
    BY <1>1, <1>2, <1>3

LEMMA PipeServing ==
    ASSUME IInv, IInv', Orderly, Solo, Serving, NEW b \in Threads, PipeTake(b) \/ PipeDone(b)
    PROVE  Serving'
  <1>0. Typed
    BY DEF IInv
  <1>1. Others(b) /\ UNCHANGED <<machine, workerDone, trainer>>
    BY <1>0, PipeTakeEffects, PipeDoneEffects
  <1>2. \/ PipeTake(b) /\ \E i \in 1 .. Len(flight[b]) : Takes(b, i)
        \/ PipeDone(b) /\ Finishes(b)
    BY <1>0, PipeTakeEffects, PipeDoneEffects
  <1>3. flight[b] # <<>> /\ b # Trainer
    <2>1. CASE \E i \in 1 .. Len(flight[b]) : Takes(b, i)
      BY <2>1, EmptySeq DEF Takes
    <2>2. CASE Finishes(b)
      BY <2>2, ExecutorAlone DEF Finishes
    <2> QED
      BY <1>2, <2>1, <2>2
  <1>4. b = batch /\ Async /\ pc # "reset" /\ Runner = b
    BY <1>3 DEF Solo, OneFlight, Runner
  <1>5. UNCHANGED <<pc, turn, done, batch, mode, traj, Runner>>
    BY <1>1 DEF trainer, Runner, Async
  <1>6. ASSUME NEW w \in Workers PROVE Owed(w)' = Owed(w)
    <2>1. CASE \E i \in 1 .. Len(flight[b]) : Takes(b, i)
      <3>1. PICK i \in 1 .. Len(flight[b]) : Takes(b, i)
        BY <2>1
      <3>2. Waiting(flight'[b]) + 1 = Waiting(flight[b])
        BY <3>1, TakesMovesOwed
      <3>3. Pending(call'[b], w)
        BY <3>1 DEF Takes, Pending
      <3>4. ~Pending(call[b], w)
        BY <3>1 DEF Takes, Pending, Orderly, CallsShaped, Shaped
      <3>5. Waiting(flight'[b]) \in Nat /\ Waiting(flight[b]) \in Nat
        BY DEF Waiting, Queued
      <3> QED
        BY <1>4, <1>5, <3>2, <3>3, <3>4, <3>5 DEF Owed
    <2>2. CASE Finishes(b)
      <3>1. Len(flight'[b]) = Len(flight[b]) /\ Len(flight[b]) \in Nat
        BY <2>2, LenProperties DEF Finishes, IInv, Typed
      <3>2. \A j \in 1 .. Len(flight[b]) :
                flight'[b][j].state = "queued" <=> flight[b][j].state = "queued"
        BY <2>2 DEF Finishes
      <3>3. Waiting(flight'[b]) = Waiting(flight[b])
        BY <3>1, <3>2 DEF Waiting, Queued
      <3>4. ~Pending(call[b], w) /\ ~Pending(call'[b], w)
        BY <2>2, IdleFields DEF Finishes, Pending, Orderly, CallsShaped, Shaped
      <3> QED
        BY <1>4, <1>5, <3>3, <3>4 DEF Owed
    <2> QED
      BY <1>2, <2>1, <2>2
  <1> QED
    BY <1>1, <1>4, <1>5, <1>6, MachinesStand DEF Looping

LEMMA StartBatchServing ==
    ASSUME IInv, Serving, StartBatch PROVE Serving'
  <1>0. Typed
    BY DEF IInv
  <1>1. /\ pc = "between" /\ pc' = "reset" /\ batch' = batch + 1 /\ UNCHANGED machine
        /\ done' = [w \in Workers |-> FALSE] /\ Calls(Trainer, "reset", NoActs)
    BY DEF StartBatch
  <1>2. call'[Trainer].phase = "enter"
    BY <1>0, <1>1, CallEffects
  <1>3. \A w \in Workers : ~Fresh(w) /\ Fresh(w)'
    BY <1>1, <1>2 DEF Fresh
  <1>4. batch' - 1 = batch
    BY <1>0, <1>1 DEF Typed
  <1> QED
    BY <1>1, <1>2, <1>3, <1>4 DEF Serving, Lives, Resetting, Clocks, Looping

LEMMA ResetReturnsServing ==
    ASSUME IInv, IInv', Orderly, Solo, Serving, ResetReturns PROVE Serving'
  <1>0. Typed
    BY DEF IInv
  <1>1. /\ pc = "reset" /\ pc' = "top" /\ call[Trainer].phase = "ret"
        /\ UNCHANGED <<machine, workerDone, done, batch, mode, traj, turn, flight>>
        /\ Hangup(Trainer)
    BY DEF ResetReturns
  <1>2. call[Trainer].todo = {}
    BY <1>1, ConstantsTyped DEF Orderly, CallsShaped, Shaped
  <1>3. \A w \in Workers : ~Fresh(w) /\ ~Fresh(w)'
    BY <1>1, <1>2 DEF Fresh
  <1>4. turn = 0 /\ flight[batch] = <<>>
    BY <1>1 DEF IInv, Shape
  <1>5. ASSUME NEW w \in Workers PROVE Owed(w)' = 0
    <2>1. \A t \in Threads : t # Trainer => call'[t] = call[t] /\ call[t].phase = "idle"
      BY <1>0, <1>1, HangupEffects, QuietBetween
    <2>2. \A t \in Threads : call'[t].op # "step"
      BY <1>0, <1>1, <2>1, HangupEffects, IdleFields DEF Orderly, CallsShaped, Shaped
    <2>3. Runner' \in Threads
      BY <1>0, <1>1, RunnerTyped DEF Runner, Async
    <2>4. ~Pending(call'[Runner'], w)
      BY <2>2, <2>3, NothingPending
    <2>5. Waiting(flight'[batch']) = 0
      BY <1>1, <1>4, EmptySeq DEF Waiting, Queued
    <2> QED
      BY <2>4, <2>5 DEF Owed
  <1>6. ASSUME NEW w \in Workers PROVE Clock(w)'
    <2>1. ~workerDone[w] /\ ~done[w] /\ machine[w].clock = 0
      BY <1>1, <1>3 DEF Serving, Resetting
    <2>2. workerDone[w] \in BOOLEAN /\ done[w] \in BOOLEAN
      BY <1>0, MachineTyped
    <2> QED
      BY <1>1, <1>4, <1>5, <2>1, <2>2 DEF Clock
  <1> QED
    BY <1>1, <1>3, <1>6 DEF Serving, Lives, Resetting, Clocks

LEMMA ProcessEffects ==
    ASSUME IInv, NEW w \in Workers, Process(w)
    PROVE  /\ pc = "process" /\ w \in todo /\ todo' = todo \ {w}
           /\ pc' = IF todo' = {} THEN "top" ELSE "process"
           /\ pc' = "process" => UNCHANGED ctx
           /\ UNCHANGED <<section, machine, call, mode, running, batch, turn, buffer, flight, abandoned>>
           /\ \A v \in Workers : v # w \/ done[w] =>
                 UNCHANGED <<obs[v], traj[v], done[v], workerDone[v]>>
           /\ ~done[w] =>
                 /\ obs'[w] = Seen(ctx.res[w])
                 /\ workerDone'[w] = (workerDone[w] \/ done'[w])
                 /\ ctx.res[w].kind # "live" => done'[w]
                 /\ traj'[w] = Append(traj[w], NewTuple(w, done'[w]))
                 /\ NewTuple(w, done'[w]) \in Tuple
                 /\ Len(traj'[w]) = Len(traj[w]) + 1
                 /\ \A p \in 1 .. Len(traj[w]) : traj'[w][p] = traj[w][p]
                 /\ traj'[w][Len(traj[w]) + 1] = NewTuple(w, done'[w])
                 /\ Len(traj[w]) + 1 = Reached
  <1>1. /\ pc = "process" /\ w \in todo /\ todo' = todo \ {w}
        /\ pc' = IF todo' = {} THEN "top" ELSE "process"
        /\ pc' = "process" => UNCHANGED ctx
        /\ UNCHANGED <<section, machine, call, mode, running, batch, turn, buffer, flight, abandoned>>
    BY DEF Process, Processed
  <1>2. CASE done[w]
    <2>1. UNCHANGED <<obs, traj, done, workerDone>>
      BY <1>2 DEF Process
    <2> QED
      BY <1>1, <1>2, <2>1
  <1>3. CASE ~done[w]
    <2>1. PICK over \in BOOLEAN, tu \in Tuple :
            /\ tu = NewTuple(w, over) /\ (ctx.res[w].kind # "live" => over)
            /\ obs' = [obs EXCEPT ![w] = Seen(ctx.res[w])]
            /\ traj' = [traj EXCEPT ![w] = Append(@, tu)]
            /\ done' = [done EXCEPT ![w] = over]
            /\ workerDone' = [workerDone EXCEPT ![w] = @ \/ over]
      BY <1>3, ProcessRecords
    <2>2. traj[w] \in Seq(Tuple) /\ Len(traj[w]) \in Nat
      BY LenProperties DEF IInv, Typed
    <2>3. /\ Len(Append(traj[w], tu)) = Len(traj[w]) + 1
          /\ \A p \in 1 .. Len(traj[w]) : Append(traj[w], tu)[p] = traj[w][p]
          /\ Append(traj[w], tu)[Len(traj[w]) + 1] = tu
      BY <2>2, AppendProperties
    <2>4. /\ traj'[w] = Append(traj[w], tu) /\ obs'[w] = Seen(ctx.res[w])
          /\ \A v \in Workers : v # w => UNCHANGED <<obs[v], traj[v]>>
      BY <2>1 DEF IInv, Typed
    <2>5. /\ done'[w] = over /\ workerDone'[w] = (workerDone[w] \/ over)
          /\ \A v \in Workers : v # w => UNCHANGED <<done[v], workerDone[v]>>
      BY <2>1, Zenon DEF IInv, Typed, PoolTypeOK
    <2>6. \A v \in Workers : ~done[v] => Len(traj[v]) + (IF v \in todo THEN 1 ELSE 0) = Reached
      BY <1>1 DEF IInv, InStep
    <2>7. Len(traj[w]) + 1 = Reached
      BY <1>1, <1>3, <2>6
    <2>8. tu = NewTuple(w, done'[w])
      BY <2>1, <2>5
    <2> QED
      BY <1>1, <1>3, <2>1, <2>3, <2>4, <2>5, <2>7, <2>8
  <1> QED
    BY <1>2, <1>3

LEMMA ProcessServing ==
    ASSUME IInv, IInv', Serving, NEW w \in Workers, Process(w) PROVE Serving'
  <1>1. /\ pc = "process" /\ pc' \in {"top", "process"}
        /\ UNCHANGED <<machine, call, mode, batch, turn, flight>>
        /\ \A v \in Workers : v # w \/ done[w] => UNCHANGED <<traj[v], done[v], workerDone[v]>>
        /\ ~done[w] => /\ workerDone'[w] = (workerDone[w] \/ done'[w])
                       /\ Len(traj[w]) + 1 = Reached /\ Len(traj'[w]) = Len(traj[w]) + 1
    BY ProcessEffects
  <1>2. Lives' /\ Resetting'
    BY <1>1 DEF Serving, Lives, Resetting, Fresh
  <1>3. ASSUME NEW v \in Workers PROVE Clock(v)'
    <2>1. Clock(v)
      BY <1>1 DEF Serving, Clocks, Looping
    <2>2. Owed(v)' = Owed(v) /\ UNCHANGED <<machine[v], Ahead>>
      BY <1>1 DEF Owed, Runner, Async, Ahead
    <2>3. CASE v # w \/ done[w]
      <3>1. UNCHANGED <<traj[v], done[v], workerDone[v]>>
        BY <1>1, <2>3
      <3> QED
        BY <1>1, <2>1, <2>2, <3>1 DEF Clock
    <2>4. CASE v = w /\ ~done[w]
      <3>1. workerDone[w] \in BOOLEAN /\ done'[w] \in BOOLEAN
        BY MachineTyped DEF IInv, Typed
      <3>2. workerDone'[w] = done'[w]
        BY <1>1, <2>1, <2>4, <3>1 DEF Clock
      <3>3. machine[w].clock \in Nat /\ Owed(w) \in Nat /\ turn \in Nat /\ Ahead \in {0, 1}
        BY MachineTyped, OwedTyped DEF IInv
      <3>4. machine[w].clock <= turn
        BY <2>1, <2>4, <3>3 DEF Clock
      <3>5. turn = Len(traj'[w]) + Ahead
        BY <1>1, <2>4, <3>3 DEF Reached, IInv, Shape
      <3> QED
        BY <1>1, <2>1, <2>2, <2>4, <3>2, <3>3, <3>4, <3>5 DEF Clock
    <2> QED
      BY <2>3, <2>4
  <1> QED
    BY <1>2, <1>3 DEF Serving, Clocks

LEMMA PoolServing ==
    ASSUME IInv, IInv', Orderly, Solo, Solo', Serving, NEW t \in Threads, PoolSteps(t)
    PROVE  Serving'
  <1>0. /\ PoolTypeOK /\ PoolStep(t) /\ Typed
        /\ UNCHANGED <<flight, pc, turn, batch, mode, done, traj>>
    BY DEF PoolSteps, IInv, Typed, trainer
  <1>1. \A u \in Threads : u # t => call'[u] = call[u]
    BY <1>0, PoolStepLocal
  <1>2. call'[t].op = call[t].op /\ call[t].op \in {"none", "reset", "step", "peek"}
    BY <1>0, PoolEffects, OpTyped
  <1>3. UNCHANGED Ahead /\ (Looping' <=> Looping) /\ Trainer \in Threads
    BY <1>0, ConstantsTyped DEF Ahead, Async, Looping
  <1>4. call[t].op = "reset" => t = Trainer /\ pc = "reset"
    BY <1>3 DEF Solo, TrainerCalls, Orderly, CallsShaped
  <1>5. pc = "reset" /\ t # Trainer => call[t].op = "none"
    BY ExecutorAlone DEF Orderly, CallsShaped, Shaped
  <1>6. pc = "reset" => call[Trainer].op = "reset"
    BY DEF Solo, TrainerCalls
  <1>7. CASE EntersTasks(t)
    <2>1. \A w \in Workers : Fresh(w)' <=> Fresh(w)
      <3>1. CASE t = Trainer
        BY <1>0, <1>7, <3>1 DEF EntersTasks, Fresh
      <3>2. CASE t # Trainer
        BY <1>0, <1>1, <1>3, <3>2 DEF Fresh
      <3> QED
        BY <3>1, <3>2
    <2>2. machine' = machine
      BY <1>7 DEF EntersTasks
    <2>3. Lives'
      BY <1>0, <2>1, <2>2 DEF Serving, Lives
    <2>4. Resetting'
      <3>1. pc = "reset" => t = Trainer /\ \A w \in Workers : ~workerDone'[w]
        BY <1>5, <1>6, <1>7 DEF EntersTasks
      <3> QED
        BY <1>0, <2>1, <2>2, <3>1 DEF Serving, Resetting
    <2>5. ASSUME Looping, NEW w \in Workers PROVE Clock(w)'
      <3>1. workerDone' = workerDone
        BY <1>4, <1>7, <2>5 DEF EntersTasks, Looping
      <3>2. Owed(w)' = Owed(w) /\ Clock(w)
        BY <1>7, <2>5, PoolOwed DEF Serving, Clocks
      <3> QED
        BY <1>0, <1>3, <2>2, <3>1, <3>2 DEF Clock
    <2> QED
      BY <1>3, <2>3, <2>4, <2>5 DEF Serving, Clocks
  <1>8. CASE MovesOn(t)
    <2>1. UNCHANGED <<machine, workerDone>> /\ call'[t].todo = call[t].todo
      BY <1>8 DEF MovesOn
    <2>2. pc = "reset" => call[Trainer].phase # "enter" \/ t # Trainer
      <3> SUFFICES ASSUME pc = "reset", call[Trainer].phase = "enter", t = Trainer PROVE FALSE
        OBVIOUS
      <3>1. call'[Trainer].phase = "panic"
        BY <1>6, <1>8 DEF MovesOn
      <3> QED
        BY <1>0, <1>3, <3>1 DEF Solo, NoFailure
    <2>3. pc = "reset" => (call'[Trainer].phase = "enter" <=> call[Trainer].phase = "enter")
      BY <1>1, <1>3, <1>8, <2>2 DEF MovesOn
    <2>4. UNCHANGED call[Trainer].todo
      BY <1>1, <1>3, <2>1
    <2>5. \A w \in Workers : Fresh(w)' <=> Fresh(w)
      BY <1>0, <2>3, <2>4 DEF Fresh
    <2>6. Lives' /\ Resetting'
      BY <1>0, <2>1, <2>3, <2>5 DEF Serving, Lives, Resetting
    <2>7. ASSUME Looping, NEW w \in Workers PROVE Clock(w)'
      <3>1. Owed(w)' = Owed(w) /\ Clock(w)
        BY <1>8, <2>7, PoolOwed DEF Serving, Clocks
      <3> QED
        BY <1>0, <1>3, <2>1, <3>1 DEF Clock
    <2> QED
      BY <1>3, <2>6, <2>7 DEF Serving, Clocks
  <1>9. ASSUME NEW w \in Workers, RunsReset(t, w) PROVE Serving'
    <2>1. t = Trainer /\ pc = "reset" /\ ~Looping
      BY <1>4, <1>9 DEF RunsReset, Looping
    <2>2. /\ call[t].phase = "tasks" /\ call'[t].phase = "tasks"
          /\ w \in call[t].todo /\ call'[t].todo = call[t].todo \ {w}
          /\ UNCHANGED workerDone
          /\ \A v \in Workers : v # w => machine'[v] = machine[v]
          /\ machine'[w].life = machine[w].life + 1
          /\ machine'[w].clock = 0 /\ machine'[w].ran = NoAction
      BY <1>9 DEF RunsReset, RunsTask
    <2>3. \A v \in Workers : Fresh(v)' <=> Fresh(v) /\ v # w
      BY <1>0, <2>1, <2>2 DEF Fresh
    <2>4. Fresh(w)
      BY <2>1, <2>2 DEF Fresh
    <2>5. machine'[w].life = batch
      <3>1. machine[w].life = batch - 1
        BY <2>4 DEF Serving, Lives
      <3> QED
        BY <1>0, <2>2, <3>1 DEF Typed
    <2>6. Lives'
      BY <1>0, <2>2, <2>3, <2>4, <2>5 DEF Serving, Lives
    <2>7. Resetting'
      BY <1>0, <2>1, <2>2, <2>3, <2>4 DEF Serving, Resetting
    <2> QED
      BY <1>3, <2>1, <2>6, <2>7 DEF Serving, Clocks
  <1>10. ASSUME NEW w \in Workers, PassesOver(t, w) \/ RunsStep(t, w) PROVE Serving'
    <2>1. call[t].op = "step" /\ RunsTask(t, w) /\ pc # "reset"
      BY <1>10, StepIsTheRunners DEF PassesOver, RunsStep
    <2>2. UNCHANGED workerDone /\ \A v \in Workers : v # w => machine'[v] = machine[v]
      BY <2>1 DEF RunsTask
    <2>3. \A v \in Workers : Owed(v)' = IF v = w THEN Owed(v) - 1 ELSE Owed(v)
      BY <2>1, PoolOwed
    <2>4. \A v \in Workers : ~Fresh(v) /\ ~Fresh(v)'
      BY <1>0, <2>1 DEF Fresh
    <2>5. Resetting'
      BY <1>0, <2>1 DEF Resetting
    <2>6. /\ machine[w].clock \in Nat /\ turn \in Nat
          /\ machine[w].dead \in BOOLEAN /\ workerDone[w] \in BOOLEAN
          /\ Owed(w) \in Nat /\ Owed(w)' \in Nat
      BY <1>0, MachineTyped, OwedTyped DEF Owed, Waiting, Queued
    <2>7. Looping => \A v \in Workers : Clock(v)
      BY DEF Serving, Clocks
    <2>8. ASSUME Looping, NEW v \in Workers, v # w PROVE Clock(v)'
      BY <1>0, <1>3, <2>2, <2>3, <2>7, <2>8 DEF Clock
    <2>9. CASE PassesOver(t, w)
      <3>1. machine' = machine /\ (machine[w].dead \/ workerDone[w])
        BY <2>9 DEF PassesOver
      <3>2. Lives'
        BY <1>0, <2>4, <3>1 DEF Serving, Lives
      <3>3. ASSUME Looping PROVE Clock(w)'
        <4>1. Clock(w) /\ Owed(w)' = Owed(w) - 1
          BY <2>3, <2>7, <3>3
        <4>2. machine[w].clock + Owed(w) <= turn => machine[w].clock + Owed(w)' <= turn
          BY <2>6, <4>1
        <4> QED
          BY <1>0, <1>3, <2>2, <3>1, <4>1, <4>2 DEF Clock
      <3> QED
        BY <1>3, <2>5, <2>8, <3>2, <3>3 DEF Serving, Clocks
    <2>10. CASE RunsStep(t, w)
      <3>1. /\ ~machine[w].dead /\ ~workerDone[w]
            /\ machine'[w].life = machine[w].life /\ machine'[w].clock = machine[w].clock + 1
            /\ machine'[w].ran = call[t].acts[w]
        BY <2>10 DEF RunsStep
      <3>2. OfBatch(call[t].acts, batch)
        <4>1. t = Trainer \/ t = batch
          BY <2>1, StepIsTheRunners DEF Runner
        <4> QED
          BY <1>0, <4>1 DEF Orderly, Batched
      <3>3. Lives'
        <4>1. machine'[w].life = batch /\ (machine'[w].ran = NoAction \/ machine'[w].ran.batch = batch)
          BY <2>4, <3>1, <3>2 DEF OfBatch, Serving, Lives
        <4> QED
          BY <1>0, <2>2, <2>4, <4>1 DEF Serving, Lives
      <3>4. ASSUME Looping PROVE Clock(w)'
        <4>1. Clock(w) /\ Owed(w)' = Owed(w) - 1
          BY <2>3, <2>7, <3>4
        <4>2. ~done[w] /\ machine[w].clock + Owed(w) = turn
          BY <3>1, <4>1 DEF Clock
        <4>3. machine'[w].clock + Owed(w)' = turn
          BY <2>6, <3>1, <4>1, <4>2
        <4>4. machine'[w].clock \in Nat
          BY <2>6, <3>1
        <4> QED
          BY <1>0, <1>3, <2>2, <2>6, <4>1, <4>2, <4>3, <4>4 DEF Clock
      <3> QED
        BY <1>3, <2>5, <2>8, <3>3, <3>4 DEF Serving, Clocks
    <2> QED
      BY <1>10, <2>9, <2>10
  <1> QED
    BY <1>0, <1>7, <1>8, <1>9, <1>10, PoolEffects

LEMMA StepServing ==
    ASSUME IInv, IInv', Exclusive, Orderly, SoloUnlessAbandoned, SoloUnlessAbandoned',
           ServingUnlessAbandoned, [Next]_vars
    PROVE  ServingUnlessAbandoned'
  <1> SUFFICES ASSUME ~abandoned' PROVE Serving'
    BY DEF ServingUnlessAbandoned
  <1>1. Solo /\ Solo' /\ Serving
    BY StepKeeps DEF SoloUnlessAbandoned, ServingUnlessAbandoned
  <1>2. ASSUME NEW w \in Workers, Process(w) PROVE Serving'
    BY <1>1, <1>2, ProcessServing
  <1>3. CASE TrainerStep
    BY <1>1, <1>2, <1>3, StartBatchServing, ResetReturnsServing, ReturnsServing, TurnSyncServing,
       TurnAsyncServing, AwaitServing, LeavesServing DEF TrainerStep
  <1>4. ASSUME NEW t \in Threads, PoolSteps(t) \/ PipeTake(t) \/ PipeDone(t) PROVE Serving'
    BY <1>1, <1>4, PoolServing, PipeServing
  <1>5. CASE Halt \/ UNCHANGED vars
    <2>1. UNCHANGED <<machine, workerDone, call, flight, pc, batch, turn, done, traj, mode>>
      BY <1>5 DEF Halt, vars, machines, trainer
    <2>2. \A w \in Workers : (Fresh(w)' <=> Fresh(w)) /\ Owed(w)' = Owed(w)
      BY <2>1 DEF Fresh, Owed, Runner, Async
    <2>3. Lives' /\ Resetting'
      BY <1>1, <2>1, <2>2 DEF Serving, Lives, Resetting
    <2>4. Clocks'
      BY <1>1, <2>1, <2>2 DEF Serving, Clocks, Clock, Looping, Ahead, Async
    <2> QED
      BY <2>3, <2>4 DEF Serving
  <1> QED
    BY <1>3, <1>4, <1>5 DEF Next

(* As long as no drain gave up, a machine runs the actions of the batch it *)
(* was reset for, and at most one step beyond its episode.                 *)
THEOREM BatchesOwnTheMachines == Spec => []MachinesServeTheBatch
  <1>1. IInv /\ ServingUnlessAbandoned => MachinesServeTheBatch
    BY DEF ServingUnlessAbandoned, Serving, Lives, Clocks, Clock, Looping, Ahead,
       MachinesServeTheBatch, BatchIsolation, DoneStopsEmulation
  <1> QED
    BY <1>1, InitIInv, StepIInv, InitExclusive, StepExclusive, InitOrderly, StepOrderly,
       InitSolo, StepSolo,
       InitServing, StepServing, PTL DEF Spec

----------------------------------------------------------------------------
(* The transitions are true *)

(* The action of turn p, and the result of the step that ran it. *)
Lag(p) == IF Async /\ p > 1 THEN 2 ELSE 1
Stamped(a) == a.batch = batch /\ a.obs \in {Blank, a.turn - Lag(a.turn)}
Good(r, a) == r.kind = "dead" \/ (r.kind = "live" /\ r.ran = a /\ r.clock = a.turn)
Now == [life |-> batch, clock |-> turn]

(* Every request of the batch holds the actions of its own turn.           *)
Stamps(w) ==
    Looping /\ ~done[w] =>
        /\ \A i \in 1 .. Len(flight[batch]) :
              /\ Stamped(flight[batch][i].acts[w])
              /\ flight[batch][i].acts[w].turn = turn - Len(flight[batch]) + i
        /\ pc \in {"step", "peek", "process"} =>
              Stamped(ctx.acts[w]) /\ ctx.acts[w].turn = Reached
        /\ pc = "step" => call[Trainer].acts = ctx.acts

(* A result is kept with the actions it is the result of.                  *)
Results(w) ==
    Looping /\ ~done[w] =>
        /\ call[Runner].op = "step" /\ ~Pending(call[Runner], w) =>
              Good(call[Runner].res[w], call[Runner].acts[w])
        /\ \A i \in 1 .. Len(flight[batch]) : flight[batch][i].state = "ok" =>
              Good(flight[batch][i].res[w], flight[batch][i].acts[w])
        /\ pc \in {"peek", "process"} /\ w \in todo => Good(ctx.res[w], ctx.acts[w])

(* The observation of a live genome is that of its last transition.        *)
Views(w) ==
    /\ pc = "reset" => call[Trainer].res[w].clock = 0
    /\ Looping /\ ~done[w] => obs[w] \in {Blank, Len(traj[w])}

(* In the synchronous SMB mode the peak is this turn's from the task that  *)
(* measures it to the transition that stores it.                           *)
Peaks(w) ==
    mode = "sync_smb" /\ ~done[w] =>
        /\ pc = "step" /\ ~Pending(call[Trainer], w) /\ call[Trainer].res[w].kind = "live" =>
              machine[w].peak = Now
        /\ pc = "peek" /\ ctx.res[w].kind = "live" =>
              /\ machine[w].peak = Now
              /\ call[Trainer].phase = "ret" => call[Trainer].peaks[w] = Now
        /\ pc = "process" /\ w \in todo /\ ctx.res[w].kind = "live" => ctx.peaks[w] = Now

Telling == \A w \in Workers : Stamps(w) /\ Results(w) /\ Views(w) /\ Peaks(w)
TellingUnlessAbandoned == ~abandoned => Telling

LEMMA InitTelling == Init => TellingUnlessAbandoned
  <1> SUFFICES ASSUME Init PROVE Telling
    BY DEF TellingUnlessAbandoned
  <1>1. pc = "between"
    BY DEF Init
  <1> QED
    BY <1>1 DEF Telling, Stamps, Results, Views, Peaks, Looping

(* A task that is still owed runs the action of the turn that is due.      *)
LEMMA ActionIsDue ==
    ASSUME IInv, Orderly, Solo, Telling, Looping, NEW w \in Workers, ~done[w],
           call[Runner].op = "step", call[Runner].phase = "tasks", w \in call[Runner].todo
    PROVE  call[Runner].acts[w].turn + Owed(w) = turn + 1
  <1>0. turn \in Nat /\ Runner \in Threads /\ batch \in Threads
    BY RunnerTyped DEF IInv, Typed
  <1>1. Owed(w) = Waiting(flight[batch]) + 1
    BY DEF Owed, Pending
  <1>2. Stamps(w)
    BY DEF Telling
  <1>3. CASE ~Async
    <2>1. pc = "step" /\ Runner = Trainer
      BY <1>3, ConstantsTyped DEF Runner, Solo, TrainerCalls
    <2>2. flight[batch] = <<>> /\ Reached = turn
      BY <1>0, <1>3, <2>1 DEF IInv, Shape, Reached, Ahead
    <2>3. Waiting(flight[batch]) = 0
      BY <2>2, EmptySeq DEF Waiting, Queued
    <2>4. call[Runner].acts[w].turn = turn
      BY <1>2, <2>1, <2>2 DEF Stamps, Stamped
    <2> QED
      BY <1>0, <1>1, <2>3, <2>4
  <1>4. CASE Async
    <2>1. Runner = batch /\ batch # Trainer
      BY <1>4 DEF Runner, Looping, IInv, Shape
    <2>2. Queue(batch)
      BY <1>0, <2>1 DEF Orderly
    <2> DEFINE f == flight[batch]
               n == Len(f)
    <2>3. PICK i \in 1 .. n : f[i].state = "running"
      BY <2>1, <2>2 DEF Queue
    <2>4. call[batch].acts = f[i].acts
      BY <2>2, <2>3 DEF Queue
    <2>5. n \in {1, 2} /\ i \in {1, 2} /\ i <= n
      <3>1. n \in Nat /\ n <= 2
        BY <1>0, LenProperties DEF IInv, Typed, Shape
      <3>2. i \in 1 .. n
        BY <2>3
      <3> HIDE DEF n
      <3> QED
        BY <3>1, <3>2
    <2>6. f[i].acts[w].turn = turn - n + i
      BY <1>2 DEF Stamps
    <2>7. Waiting(f) = n - i
      <3>1. CASE n = 1
        BY <2>3, <2>5, <3>1 DEF Waiting, Queued
      <3>2. CASE n = 2 /\ i = 1
        <4>1. f[2].state = "queued" /\ f[1].state = "running"
          BY <2>2, <2>3, <3>2 DEF Queue
        <4> QED
          BY <3>2, <4>1 DEF Waiting, Queued
      <3>3. CASE n = 2 /\ i = 2
        <4>1. f[1].state # "queued" /\ f[2].state = "running"
          BY <2>2, <2>3, <3>3 DEF Queue
        <4> QED
          BY <3>3, <4>1 DEF Waiting, Queued
      <3> QED
        BY <2>5, <3>1, <3>2, <3>3
    <2> HIDE DEF f, n
    <2>8. call[Runner].acts[w].turn = turn - n + i
      BY <2>1, <2>4, <2>6 DEF Stamped
    <2> QED
      BY <1>0, <1>1, <2>5, <2>7, <2>8 DEF f
  <1> QED
    BY <1>3, <1>4

(* The result a task leaves with a live genome.                            *)
LEMMA TaskTells ==
    ASSUME IInv, Orderly, Solo, Serving, Telling, NEW t \in Threads, PoolSteps(t),
           NEW w \in Workers, PassesOver(t, w) \/ RunsStep(t, w), Looping, ~done[w]
    PROVE  /\ t = Runner /\ Good(call'[t].res[w], call[t].acts[w])
           /\ call'[t].res[w].kind = "live" /\ ~Async => machine'[w].peak = Now
  <1>1. call[t].op = "step" /\ RunsTask(t, w) /\ t = Runner
    BY StepIsTheRunners DEF PassesOver, RunsStep
  <1>2. call[t].phase = "tasks" /\ w \in call[t].todo
    BY <1>1 DEF RunsTask
  <1>3. Clock(w) /\ ~workerDone[w]
    BY DEF Serving, Clocks, Clock
  <1>4. CASE PassesOver(t, w)
    <2>1. call'[t].res[w].kind = "dead"
      BY <1>3, <1>4 DEF PassesOver
    <2> QED
      BY <1>1, <2>1 DEF Good
  <1>5. CASE RunsStep(t, w)
    <2>1. call[t].acts[w].turn + Owed(w) = turn + 1
      BY <1>1, <1>2, ActionIsDue
    <2>2. machine[w].clock + Owed(w) = turn /\ ~machine[w].dead
      BY <1>3, <1>5 DEF Clock, RunsStep
    <2>3. /\ machine[w].clock \in Nat /\ turn \in Nat /\ Owed(w) \in Nat
          /\ call[t].acts[w] \in Actions
      BY MachineTyped, OwedTyped DEF IInv, Typed, PoolTypeOK, Call
    <2>4. call[t].acts[w].turn = machine[w].clock + 1
      <3> DEFINE a == call[t].acts[w]
      <3>1. a.turn \in Nat
        BY <2>3 DEF Actions
      <3> HIDE DEF a
      <3>2. a.turn + Owed(w) = turn + 1
        BY <2>1 DEF a
      <3> QED
        BY <2>2, <2>3, <3>1, <3>2 DEF a
    <2>5. Good(call'[t].res[w], call[t].acts[w])
      BY <1>5, <2>4 DEF RunsStep, Good
    <2>6. ~Async => machine'[w].peak = Now
      <3> SUFFICES ASSUME ~Async PROVE machine'[w].peak = Now
        OBVIOUS
      <3>1. pc = "step"
        BY <1>1, ConstantsTyped DEF Runner, Solo, TrainerCalls
      <3>2. flight[batch] = <<>>
        BY <3>1 DEF IInv, Shape
      <3>3. Owed(w) = 1
        BY <1>1, <1>2, <3>2, EmptySeq DEF Owed, Pending, Waiting, Queued
      <3>4. machine[w].life = batch
        BY <3>1 DEF Serving, Lives, Fresh
      <3>5. machine[w].clock + 1 = turn
        BY <2>2, <2>3, <3>3
      <3> QED
        BY <1>5, <3>4, <3>5 DEF RunsStep, Now
    <2> QED
      BY <1>1, <2>5, <2>6
  <1> QED
    BY <1>4, <1>5

LEMMA PoolTelling ==
    ASSUME IInv, IInv', Orderly, Solo, Solo', Serving, Telling, NEW t \in Threads, PoolSteps(t)
    PROVE  Telling'
  <1>0. /\ PoolTypeOK /\ PoolStep(t) /\ Typed
        /\ UNCHANGED <<flight, pc, turn, batch, mode, done, traj, ctx, todo, obs>>
    BY DEF PoolSteps, IInv, Typed, trainer
  <1>1. \A u \in Threads : u # t => call'[u] = call[u]
    BY <1>0, PoolStepLocal
  <1>2. call'[t].op = call[t].op /\ call'[t].acts = call[t].acts
    BY <1>0, PoolEffects
  <1>3. /\ UNCHANGED <<Runner, Now, Reached>> /\ (Looping' <=> Looping) /\ (Async' <=> Async)
        /\ Runner \in Threads /\ Trainer \in Threads
    BY <1>0, RunnerTyped, ConstantsTyped DEF Runner, Now, Reached, Ahead, Async, Looping
  <1>4. call[t].phase # "idle" /\ (call[t].phase = "enter" => call'[t].phase # "enter")
    BY <1>0, PoolStepPhases
  <1>5. call'[t].phase = "panic" => call[t].op = "peek"
    <2> SUFFICES ASSUME call'[t].phase = "panic" PROVE call[t].op = "peek"
      OBVIOUS
    <2>1. t = Trainer /\ pc = "peek"
      BY <1>0 DEF Solo, NoFailure
    <2>2. call[t].op # "none"
      BY <1>4 DEF Orderly, CallsShaped, Shaped
    <2> QED
      BY <2>1, <2>2 DEF Solo, TrainerCalls
  <1>6. /\ call[t].phase = "tasks" \/ call[t].todo = {}
        /\ call[t].op = "peek" => call[t].phase # "tasks" /\ call[t].phase # "pace"
    BY DEF Orderly, CallsShaped, Shaped
  (* Where the step leaves the result of w and whether it is pending.      *)
  <1>7. ASSUME NEW w \in Workers, call[t].op = "step", Looping, ~done[w], ~Pending(call'[t], w)
        PROVE  \/ ~Pending(call[t], w) /\ call'[t].res[w] = call[t].res[w]
                  /\ machine'[w].peak = machine[w].peak
               \/ /\ Good(call'[t].res[w], call[t].acts[w])
                  /\ call'[t].res[w].kind = "live" /\ ~Async => machine'[w].peak = Now
    <2>1. CASE EntersTasks(t)
      BY <1>2, <1>7, <2>1 DEF EntersTasks, Pending
    <2>2. CASE MovesOn(t)
      <3>1. call'[t].res[w] = call[t].res[w] /\ machine' = machine
        BY <2>2 DEF MovesOn
      <3>2. call[t].phase # "enter" /\ call[t].todo = {}
        BY <1>5, <1>6, <1>7, <2>2 DEF MovesOn
      <3> QED
        BY <3>1, <3>2, NothingPending
    <2>3. ASSUME NEW v \in Workers, PassesOver(t, v) \/ RunsStep(t, v)
          PROVE  \/ ~Pending(call[t], w) /\ call'[t].res[w] = call[t].res[w]
                    /\ machine'[w].peak = machine[w].peak
                 \/ /\ Good(call'[t].res[w], call[t].acts[w])
                    /\ call'[t].res[w].kind = "live" /\ ~Async => machine'[w].peak = Now
      <3>1. RunsTask(t, v)
        BY <2>3 DEF PassesOver, RunsStep
      <3>2. CASE v = w
        BY <1>7, <2>3, <3>2, TaskTells
      <3>3. CASE v # w
        <4>1. ~Pending(call[t], w)
          BY <1>2, <1>7, <3>1, <3>3 DEF RunsTask, Pending
        <4> QED
          BY <3>1, <3>3, <4>1 DEF RunsTask
      <3> QED
        BY <3>2, <3>3
    <2>4. \A v \in Workers : ~RunsReset(t, v)
      BY <1>7 DEF RunsReset
    <2> QED
      BY <1>0, <2>1, <2>2, <2>3, <2>4, PoolEffects
  <1>8. ASSUME NEW w \in Workers PROVE Stamps(w)'
    <2>1. call'[Trainer].acts = call[Trainer].acts
      BY <1>1, <1>2, <1>3
    <2>2. Stamps(w)
      BY DEF Telling
    <2> QED
      BY <1>0, <1>3, <2>1, <2>2 DEF Stamps, Stamped, Lag
  <1>9. ASSUME NEW w \in Workers PROVE Results(w)'
    <2>1. Results(w)
      BY DEF Telling
    <2>2. ASSUME Looping, ~done[w], call'[Runner].op = "step", ~Pending(call'[Runner], w)
          PROVE  Good(call'[Runner].res[w], call'[Runner].acts[w])
      <3>1. CASE t = Runner
        <4>1. call[t].op = "step"
          BY <1>2, <2>2, <3>1
        <4>2. \/ ~Pending(call[t], w) /\ call'[t].res[w] = call[t].res[w]
              \/ Good(call'[t].res[w], call[t].acts[w])
          BY <1>7, <2>2, <3>1, <4>1
        <4>3. ~Pending(call[t], w) => Good(call[t].res[w], call[t].acts[w])
          BY <2>1, <2>2, <3>1, <4>1 DEF Results
        <4> QED
          BY <1>2, <3>1, <4>2, <4>3
      <3>2. CASE t # Runner
        <4>1. call'[Runner] = call[Runner]
          BY <1>1, <1>3, <3>2
        <4> QED
          BY <2>1, <2>2, <4>1 DEF Results
      <3> QED
        BY <3>1, <3>2
    <2> QED
      BY <1>0, <1>3, <2>1, <2>2 DEF Results
  <1>10. ASSUME NEW w \in Workers PROVE Views(w)'
    <2>1. Views(w)
      BY DEF Telling
    <2>2. ASSUME pc = "reset" PROVE call'[Trainer].res[w].clock = 0
      <3>1. call[Trainer].res[w].clock = 0
        BY <2>1, <2>2 DEF Views
      <3>2. CASE t # Trainer
        BY <1>1, <1>3, <3>1, <3>2
      <3>3. CASE t = Trainer
        <4>1. call[t].op = "reset"
          BY <2>2, <3>3 DEF Solo, TrainerCalls
        <4>2. \A v \in Workers : ~PassesOver(t, v) /\ ~RunsStep(t, v)
          BY <4>1 DEF PassesOver, RunsStep
        <4>3. ASSUME NEW v \in Workers, RunsReset(t, v) PROVE call'[t].res[w].clock = 0
          BY <3>1, <3>3, <4>3 DEF RunsReset, RunsTask
        <4>4. EntersTasks(t) \/ MovesOn(t) => call'[t].res[w] = call[t].res[w]
          BY DEF EntersTasks, MovesOn
        <4> QED
          BY <1>0, <3>1, <3>3, <4>2, <4>3, <4>4, PoolEffects
      <3> QED
        BY <3>2, <3>3
    <2> QED
      BY <1>0, <1>3, <2>1, <2>2 DEF Views
  <1>11. ASSUME NEW w \in Workers PROVE Peaks(w)'
    <2> SUFFICES ASSUME mode = "sync_smb", ~done[w] PROVE Peaks(w)'
      BY <1>0 DEF Peaks
    <2>1. Peaks(w) /\ ~Async /\ t = Trainer /\ Runner = Trainer
      BY <1>4, ExecutorAlone DEF Telling, Async, Runner
    <2>2. ASSUME pc = "step", ~Pending(call'[Trainer], w), call'[Trainer].res[w].kind = "live"
          PROVE  machine'[w].peak = Now
      <3>1. call[t].op = "step" /\ Looping
        BY <2>1, <2>2 DEF Solo, TrainerCalls, Looping
      <3>2. \/ ~Pending(call[t], w) /\ call'[t].res[w] = call[t].res[w]
               /\ machine'[w].peak = machine[w].peak
            \/ machine'[w].peak = Now
        BY <1>7, <2>1, <2>2, <3>1
      <3> QED
        BY <2>1, <2>2, <3>2 DEF Peaks
    <2>3. ASSUME pc = "peek", ctx.res[w].kind = "live"
          PROVE  /\ machine'[w].peak = Now
                 /\ call'[Trainer].phase = "ret" => call'[Trainer].peaks[w] = Now
      <3>1. call[t].op # "none"
        BY <1>4 DEF Orderly, CallsShaped, Shaped
      <3>2. call[t].op = "peek"
        BY <2>1, <2>3, <3>1 DEF Solo, TrainerCalls
      <3>3. MovesOn(t)
        BY <1>0, <3>2, PoolEffects DEF EntersTasks, RunsReset, PassesOver, RunsStep
      <3>4. machine[w].peak = Now
        BY <2>1, <2>3 DEF Peaks
      <3>5. call'[t].phase = "ret" => call'[t].peaks = [v \in Workers |-> machine[v].peak]
        BY <1>6, <3>2, <3>3 DEF MovesOn
      <3> QED
        BY <2>1, <3>3, <3>4, <3>5 DEF MovesOn
    <2> QED
      BY <1>0, <1>3, <2>1, <2>2, <2>3 DEF Peaks
  <1> QED
    BY <1>8, <1>9, <1>10, <1>11 DEF Telling

LEMMA OutOfTheLoopTelling ==
    ASSUME pc' \in {"between", "drain", "crashed"} PROVE Telling'
  BY DEF Telling, Stamps, Results, Views, Peaks, Looping

LEMMA StartBatchTelling == ASSUME IInv, StartBatch PROVE Telling'
  <1>1. pc' = "reset" /\ Calls(Trainer, "reset", NoActs) /\ Typed
    BY DEF StartBatch, IInv
  <1>2. \A w \in Workers : call'[Trainer].res[w].clock = 0
    BY <1>1, CallEffects, IdleFields
  <1> QED
    BY <1>1, <1>2 DEF Telling, Stamps, Results, Views, Peaks, Looping

LEMMA ResetReturnsTelling ==
    ASSUME IInv, IInv', Orderly, Solo, Serving, Telling, ResetReturns PROVE Telling'
  <1>0. Typed
    BY DEF IInv
  <1>1. /\ pc = "reset" /\ pc' = "top" /\ Hangup(Trainer)
        /\ obs' = [w \in Workers |-> Seen(call[Trainer].res[w])]
        /\ UNCHANGED <<mode, batch, turn, traj, done, flight>>
    BY DEF ResetReturns
  <1>2. turn = 0 /\ flight[batch] = <<>> /\ Len(flight'[batch']) = 0
    BY <1>1, EmptySeq DEF IInv, Shape
  <1>3. call'[Runner'].op # "step"
    <2>1. \A t \in Threads : t # Trainer => call'[t] = call[t] /\ call[t].phase = "idle"
      BY <1>0, <1>1, HangupEffects, QuietBetween
    <2>2. \A t \in Threads : call'[t].op # "step"
      BY <1>0, <1>1, <2>1, HangupEffects, IdleFields DEF Orderly, CallsShaped, Shaped
    <2> QED
      BY <1>0, <1>1, <2>2, RunnerTyped DEF Runner, Async
  <1>4. ASSUME NEW w \in Workers PROVE obs'[w] \in {Blank, Len(traj[w])}
    <2>1. call[Trainer].res[w].clock = 0 /\ ~done[w]
      BY <1>1 DEF Telling, Views, Serving, Resetting
    <2>2. Len(traj[w]) = 0
      BY <1>1, <1>2, <2>1 DEF IInv, InStep, Reached
    <2> QED
      BY <1>1, <2>1, <2>2 DEF Seen
  <1> QED
    BY <1>1, <1>2, <1>3, <1>4 DEF Telling, Stamps, Results, Views, Peaks

(* The action chosen for a live genome holds the newest observation.       *)
LEMMA ChoiceStamped ==
    ASSUME IInv, Telling, pc = "top", NEW w \in Workers, ~done[w]
    PROVE  Stamped(Choice[w]) /\ Choice[w].turn = turn + 1 /\ Choice[w].obs = obs[w]
  <1>1. /\ Choice[w].batch = batch /\ Choice[w].turn = turn + 1 /\ Choice[w].obs = obs[w]
    BY DEF Choice
  <1>2. obs[w] \in {Blank, Len(traj[w])}
    BY DEF Telling, Views, Looping
  <1>3. Len(traj[w]) = Reached /\ turn \in Nat
    BY DEF IInv, Typed, InStep
  <1>4. Reached = Choice[w].turn - Lag(Choice[w].turn)
    BY <1>1, <1>3 DEF Reached, Ahead, Lag
  <1> QED
    BY <1>1, <1>2, <1>3, <1>4 DEF Stamped

LEMMA TurnSyncTelling ==
    ASSUME IInv, IInv', Telling, TurnSync PROVE Telling'
  <1>0. Typed
    BY DEF IInv
  <1>1. /\ pc = "top" /\ pc' = "step" /\ ~Async /\ turn' = turn + 1
        /\ ctx' = [NoContext EXCEPT !.acts = NewRequest.acts, !.rows = NewRequest.rows]
        /\ Calls(Trainer, "step", Choice)
        /\ UNCHANGED <<mode, batch, obs, done, traj, flight>>
    BY DEF TurnSync, InLoop
  <1>2. ctx'.acts = Choice
    BY <1>1 DEF NoContext, NewRequest
  <1>3. call'[Trainer].acts = Choice /\ \A w : Pending(call'[Trainer], w)
    BY <1>0, <1>1, CallEffects DEF Pending
  <1>4. Len(flight'[batch']) = 0 /\ Runner' = Trainer /\ Reached' = turn + 1 /\ Looping
    <2>1. flight'[batch'] = <<>>
      BY <1>1 DEF IInv, Shape
    <2>2. turn \in Nat
      BY <1>0 DEF Typed
    <2> QED
      BY <1>1, <2>1, <2>2, EmptySeq DEF Runner, Reached, Ahead, Async, Looping
  <1>5. ASSUME NEW w \in Workers PROVE Stamps(w)' /\ Results(w)' /\ Views(w)' /\ Peaks(w)'
    <2>1. ~done[w] => Stamped(Choice[w]) /\ Choice[w].turn = turn + 1
      BY <1>1, ChoiceStamped
    <2>2. Stamps(w)'
      BY <1>1, <1>2, <1>3, <1>4, <2>1 DEF Stamps, Stamped, Lag, Async
    <2>3. Results(w)'
      BY <1>1, <1>3, <1>4 DEF Results
    <2>4. Views(w)'
      BY <1>1, <1>4 DEF Telling, Views
    <2>5. Peaks(w)'
      BY <1>1, <1>3 DEF Peaks
    <2> QED
      BY <2>2, <2>3, <2>4, <2>5
  <1> QED
    BY <1>5 DEF Telling

LEMMA TurnAsyncTelling ==
    ASSUME IInv, IInv', Telling, TurnAsync PROVE Telling'
  <1>1. /\ pc = "top" /\ pc' \in {"top", "wait"} /\ turn' = turn + 1 /\ batch \in Threads
        /\ UNCHANGED <<machine, done, batch, mode, traj, call, obs>>
        /\ Submits /\ NewRequest.state = "queued" /\ NewRequest.acts = Choice
        /\ Len(flight[batch]) \in {0, 1}
    BY TurnAsyncEffects DEF machines
  <1>5. turn \in Nat
    BY DEF IInv, Typed
  <1> DEFINE f == flight[batch]
             g == flight'[batch']
             n == Len(f)
  <1>2. /\ n \in {0, 1} /\ Len(g) = n + 1 /\ g[n + 1] = NewRequest
        /\ \A i \in 1 .. n : g[i] = f[i]
        /\ \A i \in 1 .. n + 1 : i \in 1 .. n \/ i = n + 1
    BY <1>1 DEF Submits
  <1> HIDE DEF f, g, n
  <1>3. Looping /\ Looping' /\ UNCHANGED Runner
    BY <1>1 DEF Looping, Runner, Async
  <1>4. ASSUME NEW w \in Workers PROVE Stamps(w)' /\ Results(w)' /\ Views(w)' /\ Peaks(w)'
    <2>0. Stamps(w) /\ Results(w) /\ Views(w)
      BY DEF Telling
    <2>1. ASSUME ~done[w], NEW i \in 1 .. Len(g)
          PROVE  Stamped(g[i].acts[w]) /\ g[i].acts[w].turn = turn' - Len(g) + i
      <3>1. CASE i \in 1 .. n
        <4>1. turn' - Len(g) + i = turn - n + i
          BY <1>1, <1>2, <1>5
        <4>2. Stamped(f[i].acts[w]) /\ f[i].acts[w].turn = turn - n + i
          BY <1>3, <2>0, <2>1, <3>1 DEF Stamps, f, n
        <4> QED
          BY <1>2, <3>1, <4>1, <4>2
      <3>2. CASE i = n + 1
        <4>1. turn' - Len(g) + i = turn + 1
          BY <1>1, <1>2, <1>5, <3>2
        <4>2. g[i].acts[w] = Choice[w]
          BY <1>1, <1>2, <3>2
        <4>3. Stamped(Choice[w]) /\ Choice[w].turn = turn + 1
          BY <1>1, <2>1, ChoiceStamped
        <4> QED
          BY <4>1, <4>2, <4>3
      <3> QED
        BY <1>2, <3>1, <3>2
    <2>2. Stamps(w)'
      <3>1. \A i \in 1 .. Len(g) : ~done[w] =>
               /\ g[i].acts[w].batch = batch
               /\ g[i].acts[w].obs \in {Blank, g[i].acts[w].turn - Lag(g[i].acts[w].turn)}
               /\ g[i].acts[w].turn = turn' - Len(g) + i
        BY <2>1 DEF Stamped
      <3> QED
        BY <1>1, <3>1 DEF Stamps, Stamped, Lag, Async, g
    <2>3. Results(w)'
      <3>1. ~done[w] => \A i \in 1 .. Len(g) : g[i].state = "ok" => Good(g[i].res[w], g[i].acts[w])
        BY <1>1, <1>2, <1>3, <2>0 DEF Results, f, n
      <3> QED
        BY <1>1, <1>3, <2>0, <3>1 DEF Results, g
    <2>4. Views(w)' /\ Peaks(w)'
      BY <1>1, <1>3, <2>0 DEF Views, Peaks
    <2> QED
      BY <2>2, <2>3, <2>4
  <1> QED
    BY <1>4 DEF Telling

LEMMA StepReturnsTelling ==
    ASSUME IInv, IInv', Orderly, Solo, Telling, StepReturns PROVE Telling'
  <1>0. Typed
    BY DEF IInv
  <1>1. /\ pc = "step" /\ call[Trainer].phase = "ret" /\ todo' = Workers
        /\ ctx' = [ctx EXCEPT !.res = call[Trainer].res] /\ Hangup(Trainer)
        /\ pc' = (IF Smb THEN "peek" ELSE "process")
        /\ UNCHANGED <<machine, mode, batch, turn, obs, done, traj, flight>>
    BY DEF StepReturns, ToProcess
  <1>2. ctx'.acts = ctx.acts /\ ctx'.res = call[Trainer].res
    BY <1>0, <1>1 DEF Typed, Context
  <1>3. call'[Trainer].op = "none" /\ call'[Trainer].phase = "idle"
    BY <1>0, <1>1, HangupEffects, IdleFields
  <1>4. call[Trainer].op = "step" /\ call[Trainer].todo = {} /\ Looping
    BY <1>1, ConstantsTyped DEF Solo, TrainerCalls, Orderly, CallsShaped, Shaped, Looping
  <1>5. Runner = Trainer /\ Runner' = Trainer /\ UNCHANGED <<Reached, Now>>
        /\ Len(flight'[batch']) = 0
    BY <1>1, EmptySeq DEF IInv, Shape, Runner, Async, Reached, Ahead, Now
  <1>6. ASSUME NEW w \in Workers PROVE Stamps(w)' /\ Results(w)' /\ Views(w)' /\ Peaks(w)'
    <2>0. Stamps(w) /\ Results(w) /\ Views(w) /\ Peaks(w) /\ ~Pending(call[Trainer], w)
      BY <1>1, <1>4, NothingPending DEF Telling
    <2>1. Stamps(w)'
      BY <1>1, <1>2, <1>4, <1>5, <2>0 DEF Stamps, Stamped, Lag, Async
    <2>2. Results(w)'
      <3>1. ~done[w] => Good(call[Trainer].res[w], call[Trainer].acts[w])
        BY <1>4, <1>5, <2>0 DEF Results
      <3>2. ~done[w] => Good(ctx'.res[w], ctx'.acts[w])
        BY <1>1, <1>2, <1>4, <2>0, <3>1 DEF Stamps
      <3> QED
        BY <1>1, <1>3, <1>5, <3>2 DEF Results
    <2>3. Views(w)'
      BY <1>1, <1>4, <2>0 DEF Views
    <2>4. Peaks(w)'
      BY <1>1, <1>2, <1>3, <1>5, <2>0 DEF Peaks, Smb
    <2> QED
      BY <2>1, <2>2, <2>3, <2>4
  <1> QED
    BY <1>6 DEF Telling

LEMMA AwaitTelling ==
    ASSUME IInv, IInv', Telling, Await PROVE Telling'
  <1>1. /\ pc = "wait" /\ pc' \in {"peek", "process"} /\ Receives /\ Async
        /\ UNCHANGED <<call, mode, batch, turn, obs, done, traj>>
    BY AwaitEffects DEF machines
  <1>2. Looping /\ UNCHANGED <<Runner, Reached>> /\ Reached = turn - 1 /\ turn \in Nat
    BY <1>1 DEF Looping, Runner, Reached, Ahead, Async, IInv, Typed, Shape
  <1>3. \A i \in 1 .. Len(flight'[batch]) : i = 1
    BY <1>1 DEF Receives
  <1>4. 1 \in 1 .. Len(flight[batch]) /\ 2 \in 1 .. Len(flight[batch])
    BY <1>1 DEF Receives
  <1>5. ASSUME NEW w \in Workers PROVE Stamps(w)' /\ Results(w)' /\ Views(w)' /\ Peaks(w)'
    <2>0. Stamps(w) /\ Results(w) /\ Views(w)
      BY DEF Telling
    <2>1. ~done[w] => /\ Stamped(flight[batch][1].acts[w]) /\ Stamped(flight[batch][2].acts[w])
                      /\ flight[batch][1].acts[w].turn = turn - 1
                      /\ flight[batch][2].acts[w].turn = turn
      BY <1>1, <1>2, <1>4, <2>0 DEF Receives, Stamps
    <2>2. Stamps(w)'
      <3>1. ~done[w] => \A i \in 1 .. Len(flight'[batch]) :
                /\ Stamped(flight'[batch][i].acts[w])
                /\ flight'[batch][i].acts[w].turn = turn - Len(flight'[batch]) + i
        BY <1>1, <1>2, <1>3, <2>1 DEF Receives
      <3>2. ~done[w] => Stamped(ctx'.acts[w]) /\ ctx'.acts[w].turn = Reached
        BY <1>1, <1>2, <2>1 DEF Receives
      <3> QED
        BY <1>1, <1>2, <3>1, <3>2 DEF Stamps, Stamped, Lag, Async
    <2>3. Results(w)'
      BY <1>1, <1>2, <1>3, <1>4, <2>0 DEF Receives, Results
    <2>4. Views(w)'
      BY <1>1, <1>2, <2>0 DEF Views
    <2>5. Peaks(w)'
      BY <1>1 DEF Peaks, Async
    <2> QED
      BY <2>2, <2>3, <2>4, <2>5
  <1> QED
    BY <1>5 DEF Telling

LEMMA PeekTelling ==
    ASSUME IInv, IInv', Orderly, Solo, Telling, PeekCall \/ PeekReturns PROVE Telling'
  <1>0. Typed /\ Trainer \in Threads
    BY ConstantsTyped DEF IInv
  <1>1. /\ pc = "peek" /\ pc' \in {"peek", "process"}
        /\ UNCHANGED <<machine, mode, batch, turn, obs, done, traj, flight, todo>>
    BY DEF PeekCall, PeekReturns, trainer
  <1>2. /\ \A t \in Threads : t # Trainer => call'[t] = call[t]
        /\ call'[Trainer].op # "step" /\ call'[Trainer].phase # "ret"
    BY <1>0, CallEffects, HangupEffects, IdleFields DEF PeekCall, PeekReturns
  <1>3. /\ ctx'.acts = ctx.acts /\ ctx'.res = ctx.res
        /\ pc' = "process" => call[Trainer].phase = "ret" /\ ctx'.peaks = call[Trainer].peaks
    BY <1>0 DEF PeekCall, PeekReturns, trainer, Typed, Context
  <1>4. Looping /\ UNCHANGED <<Runner, Reached, Now>> /\ Runner \in Threads
    BY <1>0, <1>1, RunnerTyped DEF Looping, Runner, Reached, Ahead, Async, Now
  <1>5. ASSUME NEW w \in Workers PROVE Stamps(w)' /\ Results(w)' /\ Views(w)' /\ Peaks(w)'
    <2>0. Stamps(w) /\ Results(w) /\ Views(w) /\ Peaks(w)
      BY DEF Telling
    <2>1. Stamps(w)'
      BY <1>1, <1>3, <1>4, <2>0 DEF Stamps, Stamped, Lag, Async
    <2>2. Results(w)'
      <3>1. CASE Runner = Trainer
        BY <1>1, <1>2, <1>3, <1>4, <2>0, <3>1 DEF Results
      <3>2. CASE Runner # Trainer
        <4>1. call'[Runner] = call[Runner]
          BY <1>2, <1>4, <3>2
        <4> QED
          BY <1>1, <1>3, <1>4, <2>0, <4>1 DEF Results
      <3> QED
        BY <3>1, <3>2
    <2>3. Views(w)'
      BY <1>1, <1>4, <2>0 DEF Views
    <2>4. Peaks(w)'
      BY <1>1, <1>2, <1>3, <1>4, <2>0 DEF Peaks
    <2> QED
      BY <2>1, <2>2, <2>3, <2>4
  <1> QED
    BY <1>5 DEF Telling

LEMMA PipeTelling ==
    ASSUME IInv, IInv', Orderly, Solo, Telling, NEW b \in Threads, PipeTake(b) \/ PipeDone(b)
    PROVE  Telling'
  <1>0. Typed /\ Trainer \in Threads
    BY ConstantsTyped DEF IInv
  <1>1. /\ Others(b) /\ b # Trainer
        /\ UNCHANGED <<machine, pc, mode, batch, turn, obs, done, traj, ctx, todo>>
    BY <1>0, PipeTakeEffects, PipeDoneEffects DEF trainer, Takes, Finishes
  <1>2. (\E i \in 1 .. Len(flight[b]) : Takes(b, i)) \/ Finishes(b)
    BY <1>0, PipeTakeEffects, PipeDoneEffects
  <1>3. flight[b] # <<>>
    <2>1. CASE \E i \in 1 .. Len(flight[b]) : Takes(b, i)
      BY <2>1, EmptySeq
    <2>2. CASE Finishes(b)
      BY <1>1, <2>2, ExecutorAlone DEF Finishes
    <2> QED
      BY <1>2, <2>1, <2>2
  <1>4. b = batch /\ Async /\ Runner = b /\ UNCHANGED <<Runner, Reached, Now>>
    BY <1>1, <1>3 DEF Solo, OneFlight, Runner, Async, Reached, Ahead, Now
  <1>5. call'[Trainer] = call[Trainer]
    BY <1>0, <1>1 DEF Others
  <1>6. Queue(b)
    BY <1>1 DEF Orderly
  <1>7. Len(flight'[b]) = Len(flight[b])
    BY <1>2 DEF Takes, Finishes
  <1>8. \A i \in 1 .. Len(flight[b]) : flight'[b][i].acts = flight[b][i].acts
    BY <1>2 DEF Takes, Finishes
  <1>9. ASSUME NEW w \in Workers PROVE Stamps(w)' /\ Results(w)' /\ Views(w)' /\ Peaks(w)'
    <2>0. Stamps(w) /\ Results(w) /\ Views(w)
      BY DEF Telling
    <2>1. Stamps(w)'
      <3>1. Looping /\ ~done[w] => \A i \in 1 .. Len(flight'[b]) :
               /\ Stamped(flight'[b][i].acts[w])
               /\ flight'[b][i].acts[w].turn = turn - Len(flight'[b]) + i
        BY <1>4, <1>7, <1>8, <2>0 DEF Stamps
      <3> QED
        BY <1>1, <1>4, <1>5, <2>0, <3>1 DEF Stamps, Stamped, Lag, Async, Looping
    <2>2. Results(w)'
      <3>1. call'[b].op = "step" => Pending(call'[b], w)
        BY <1>2, IdleFields DEF Takes, Finishes, Pending
      <3>2. ASSUME Looping, ~done[w], NEW i \in 1 .. Len(flight[b]), flight'[b][i].state = "ok"
            PROVE  Good(flight'[b][i].res[w], flight'[b][i].acts[w])
        <4>1. CASE flight'[b][i] = flight[b][i]
          BY <1>4, <2>0, <3>2, <4>1 DEF Results
        <4>2. CASE flight'[b][i] # flight[b][i]
          <5>1. Finishes(b) /\ flight[b][i].state = "running"
            BY <1>2, <3>2, <4>2 DEF Takes, Finishes
          <5>2. /\ flight'[b][i].acts = flight[b][i].acts /\ flight'[b][i].res = call[b].res
                /\ call[b].phase = "ret"
            BY <3>2, <5>1 DEF Finishes
          <5>3. call[b].op = "step" /\ call[b].acts = flight[b][i].acts
            BY <1>6, <5>1 DEF Queue
          <5>4. ~Pending(call[b], w)
            BY <5>2 DEF Orderly, CallsShaped, Shaped, Pending
          <5> QED
            BY <1>4, <2>0, <3>2, <5>2, <5>3, <5>4 DEF Results
        <4> QED
          BY <4>1, <4>2
      <3> QED
        BY <1>1, <1>4, <1>7, <2>0, <3>1, <3>2 DEF Results, Looping
    <2>3. Views(w)'
      BY <1>1, <1>5, <2>0 DEF Views, Looping
    <2>4. Peaks(w)'
      BY <1>1, <1>4 DEF Peaks, Async
    <2> QED
      BY <2>1, <2>2, <2>3, <2>4
  <1> QED
    BY <1>9 DEF Telling

LEMMA ProcessTelling ==
    ASSUME IInv, IInv', Telling, NEW w \in Workers, Process(w) PROVE Telling'
  <1>1. /\ pc = "process" /\ pc' \in {"top", "process"} /\ w \in todo /\ todo' = todo \ {w}
        /\ UNCHANGED <<machine, call, mode, batch, turn, flight>>
        /\ pc' = "process" => UNCHANGED ctx
        /\ \A v \in Workers : v # w \/ done[w] => UNCHANGED <<obs[v], traj[v], done[v]>>
        /\ ~done[w] => /\ obs'[w] = Seen(ctx.res[w]) /\ Len(traj'[w]) = Reached
    BY ProcessEffects
  <1>2. Looping /\ UNCHANGED <<Runner, Reached, Now>>
    BY <1>1 DEF Looping, Runner, Reached, Ahead, Async, Now
  <1>3. ASSUME NEW v \in Workers, ~done'[v] PROVE ~done[v]
    BY <1>1, <1>3
  <1>4. ASSUME NEW v \in Workers PROVE Stamps(v)' /\ Results(v)' /\ Views(v)' /\ Peaks(v)'
    <2>0. Stamps(v) /\ Results(v) /\ Views(v) /\ Peaks(v)
      BY DEF Telling
    <2>1. Stamps(v)'
      BY <1>1, <1>2, <1>3, <2>0 DEF Stamps, Stamped, Lag, Async
    <2>2. Results(v)'
      BY <1>1, <1>2, <1>3, <2>0 DEF Results
    <2>3. Views(v)'
      <3>1. CASE v # w \/ done[w]
        BY <1>1, <1>2, <1>3, <2>0, <3>1 DEF Views
      <3>2. CASE v = w /\ ~done[w]
        <4>1. Good(ctx.res[w], ctx.acts[w]) /\ ctx.acts[w].turn = Reached
          BY <1>1, <1>2, <2>0, <3>2 DEF Results, Stamps
        <4>2. Seen(ctx.res[w]) \in {Blank, Reached}
          BY <4>1 DEF Good, Seen
        <4> QED
          BY <1>1, <3>2, <4>2 DEF Views
      <3> QED
        BY <3>1, <3>2
    <2>4. Peaks(v)'
      BY <1>1, <1>2, <1>3, <2>0 DEF Peaks
    <2> QED
      BY <2>1, <2>2, <2>3, <2>4
  <1> QED
    BY <1>4 DEF Telling

LEMMA StepTelling ==
    ASSUME IInv, IInv', Exclusive, Orderly, SoloUnlessAbandoned, SoloUnlessAbandoned',
           ServingUnlessAbandoned, TellingUnlessAbandoned, [Next]_vars
    PROVE  TellingUnlessAbandoned'
  <1> SUFFICES ASSUME ~abandoned' PROVE Telling'
    BY DEF TellingUnlessAbandoned
  <1>1. Solo /\ Solo' /\ Serving /\ Telling
    BY StepKeeps DEF SoloUnlessAbandoned, ServingUnlessAbandoned, TellingUnlessAbandoned
  <1>2. ASSUME NEW w \in Workers, Process(w) PROVE Telling'
    BY <1>1, <1>2, ProcessTelling
  <1>3. CASE LeaveLoop \/ Drain \/ FutureFails \/ Crash
    <2>1. pc' \in {"between", "drain", "crashed"}
      BY <1>3 DEF LeaveLoop, Drain, FutureFails, Crash
    <2> QED
      BY <2>1, OutOfTheLoopTelling
  <1>4. CASE TrainerStep
    BY <1>1, <1>2, <1>3, <1>4, StartBatchTelling, ResetReturnsTelling, TurnSyncTelling,
       TurnAsyncTelling, StepReturnsTelling, AwaitTelling, PeekTelling DEF TrainerStep
  <1>5. ASSUME NEW t \in Threads, PoolSteps(t) \/ PipeTake(t) \/ PipeDone(t) PROVE Telling'
    BY <1>1, <1>5, PoolTelling, PipeTelling
  <1>6. CASE Halt \/ UNCHANGED vars
    <2>1. UNCHANGED <<machine, call, flight, pc, batch, turn, obs, done, traj, ctx, todo, mode>>
      BY <1>6 DEF Halt, vars, machines, trainer
    <2>2. UNCHANGED <<Runner, Reached, Now>> /\ (Looping' <=> Looping) /\ (Async' <=> Async)
      BY <2>1 DEF Runner, Reached, Ahead, Async, Now, Looping
    <2>3. ASSUME NEW w \in Workers PROVE Stamps(w)' /\ Results(w)' /\ Views(w)' /\ Peaks(w)'
      <3>1. Stamps(w) /\ Results(w) /\ Views(w) /\ Peaks(w)
        BY <1>1 DEF Telling
      <3>2. Stamps(w)'
        BY <2>1, <2>2, <3>1 DEF Stamps, Stamped, Lag
      <3>3. Results(w)' /\ Views(w)' /\ Peaks(w)'
        BY <2>1, <2>2, <3>1 DEF Results, Views, Peaks
      <3> QED
        BY <3>1, <3>2, <3>3
    <2> QED
      BY <2>3 DEF Telling
  <1> QED
    BY <1>4, <1>5, <1>6 DEF Next

(* No two live genomes share a row, so a row of the buffer keeps what the  *)
(* forward pass put there for its genome.                                  *)
LEMMA RowsApart ==
    ASSUME Typed, NEW v \in Active, NEW w \in Active, Row(v) = Row(w) PROVE v = w
  <1>1. ASSUME NEW x \in Active, NEW y \in Active, x < y PROVE Row(x) # Row(y)
    <2> DEFINE X == {u \in Active : u <= x}
               Y == {u \in Active : u <= y}
    <2>1. x \in Int /\ y \in Int /\ Active \subseteq 1 .. NumWorkers
      BY DEF Active, Workers
    <2>2. X \subseteq Y /\ y \in Y /\ y \notin X /\ Y \subseteq 1 .. NumWorkers
      <3>1. \A u \in Active : u \in Int /\ (u <= x => u <= y)
        BY <1>1, <2>1
      <3>2. ~(y <= x) /\ y <= y
        BY <1>1, <2>1
      <3> QED
        BY <2>1, <3>1, <3>2
    <2>3. IsFiniteSet(1 .. NumWorkers)
      BY FS_Interval
    <2> HIDE DEF X, Y
    <2>4. IsFiniteSet(Y)
      BY <2>2, <2>3, FS_Subset
    <2>5. Cardinality(X) # Cardinality(Y)
      BY <2>2, <2>4, FS_Subset
    <2> QED
      BY <2>5 DEF Row, X, Y
  <1>2. v \in Int /\ w \in Int
    BY DEF Active, Workers
  <1> QED
    BY <1>1, <1>2

LEMMA ForwardedRow ==
    ASSUME Typed, NEW w \in Workers, ~done[w] PROVE Forwarded[Row(w)] = obs[w]
  <1> DEFINE v == CHOOSE v \in Active : Row(v) = Row(w)
  <1>1. w \in Active /\ Row(w) \in Rows
    BY RowTyped DEF Active, Rows
  <1>2. v \in Active /\ Row(v) = Row(w)
    BY <1>1
  <1>3. v = w
    BY <1>1, <1>2, RowsApart
  <1>4. Forwarded[Row(w)] = obs[v]
    BY <1>1 DEF Forwarded
  <1> QED
    BY <1>3, <1>4

Buffered ==
    ~Async /\ pc \in {"step", "peek", "process"} =>
        \A w \in Workers : ~done[w] => buffer[ctx.rows[w]] = ctx.acts[w].obs

LEMMA StepBuffered ==
    ASSUME IInv, Buffered, [Next]_vars PROVE Buffered'
  <1>0. Typed /\ UNCHANGED mode
    BY StepKeeps DEF IInv
  <1>1. ASSUME UNCHANGED <<buffer, done, ctx>>,
               pc' \in {"step", "peek", "process"} => pc \in {"step", "peek", "process"}
        PROVE  Buffered'
    BY <1>0, <1>1 DEF Buffered, Async
  <1>2. CASE StartBatch \/ ResetReturns \/ Crash \/ LeaveLoop \/ Drain \/ FutureFails
    BY <1>2 DEF StartBatch, ResetReturns, Crash, LeaveLoop, Drain, FutureFails, Buffered
  <1>3. CASE TurnSync
    <2>1. /\ buffer' = Forwarded /\ UNCHANGED done
          /\ ctx' = [NoContext EXCEPT !.acts = NewRequest.acts, !.rows = NewRequest.rows]
      BY <1>3 DEF TurnSync
    <2>2. ctx'.acts = Choice /\ ctx'.rows = [w \in Workers |-> IF done[w] THEN 0 ELSE Row(w)]
      BY <2>1 DEF NoContext, NewRequest
    <2>3. \A w \in Workers : ~done[w] => ctx'.rows[w] = Row(w) /\ ctx'.acts[w].obs = obs[w]
      BY <2>2 DEF Choice
    <2> QED
      BY <1>0, <2>1, <2>3, ForwardedRow DEF Buffered
  <1>4. CASE TurnAsync \/ Await
    BY <1>0, <1>4, TurnAsyncEffects, AwaitEffects DEF Buffered, Async
  <1>5. CASE StepReturns \/ PeekReturns
    <2>1. /\ pc \in {"step", "peek"} /\ UNCHANGED <<buffer, done>>
          /\ \/ ctx' = [ctx EXCEPT !.res = call[Trainer].res]
             \/ ctx' = [ctx EXCEPT !.peaks = call[Trainer].peaks]
      BY <1>5 DEF StepReturns, PeekReturns
    <2>2. ctx'.acts = ctx.acts /\ ctx'.rows = ctx.rows
      BY <1>0, <2>1 DEF Typed, Context
    <2> QED
      BY <1>0, <2>1, <2>2 DEF Buffered, Async
  <1>6. ASSUME NEW w \in Workers, Process(w) PROVE Buffered'
    <2>1. \A v \in Workers : ~done'[v] => ~done[v]
      BY <1>6, ProcessEffects
    <2>2. /\ pc = "process" /\ UNCHANGED buffer /\ pc' \in {"top", "process"}
          /\ pc' = "process" => UNCHANGED ctx
      BY <1>6, ProcessEffects
    <2> QED
      BY <1>0, <2>1, <2>2 DEF Buffered, Async
  <1>7. CASE PeekCall \/ Halt \/ UNCHANGED vars
    BY <1>1, <1>7 DEF PeekCall, Halt, vars, trainer
  <1>8. ASSUME NEW t \in Threads, PoolSteps(t) \/ PipeTake(t) \/ PipeDone(t) PROVE Buffered'
    BY <1>1, <1>8 DEF PoolSteps, PipeTake, PipeDone, trainer
  <1> QED
    BY <1>2, <1>3, <1>4, <1>5, <1>6, <1>7, <1>8 DEF Next, TrainerStep

(* What TransitionsAreTrue says of one transition.                         *)
Told(w, p) ==
    LET tu == traj[w][p]
    IN /\ tu.live /\ ~abandoned => tu.ran = tu.act /\ tu.clock = p
       /\ tu.over <=> (p = Len(traj[w]) /\ done[w])
       /\ ~tu.live => tu.over
       /\ ~abandoned => tu.act.obs \in {Blank, p - Lag(p)}
       /\ ~Async => tu.obs = tu.act.obs
       /\ mode = "sync_smb" /\ tu.live => tu.peak = [life |-> batch, clock |-> p]

AllTold == \A w \in Workers : \A p \in 1 .. Len(traj[w]) : Told(w, p)

(* The transition that is stored last is true, and none before it ends.    *)
LEMMA ProcessTold ==
    ASSUME IInv, IInv', Drains, TellingUnlessAbandoned, Buffered, AllTold,
           NEW w \in Workers, Process(w)
    PROVE  AllTold'
  <1>1. /\ pc = "process" /\ w \in todo /\ UNCHANGED <<mode, batch, abandoned>>
        /\ \A v \in Workers : v # w \/ done[w] => UNCHANGED <<traj[v], done[v]>>
    BY ProcessEffects
  <1>2. ASSUME NEW v \in Workers, NEW p \in 1 .. Len(traj'[v]), v # w \/ done[w]
        PROVE  Told(v, p)'
    <2>1. traj'[v] = traj[v] /\ done'[v] = done[v] /\ Told(v, p)
      BY <1>1, <1>2 DEF AllTold
    <2> QED
      BY <1>1, <2>1 DEF Told, Lag, Async
  <1>3. ASSUME NEW p \in 1 .. Len(traj'[w]), ~done[w] PROVE Told(w, p)'
    <2> DEFINE n == Len(traj[w])
    <2>1. /\ Len(traj'[w]) = n + 1 /\ n + 1 = Reached /\ n \in Nat
          /\ traj'[w][n + 1] = NewTuple(w, done'[w])
          /\ \A q \in 1 .. n : traj'[w][q] = traj[w][q]
          /\ ctx.res[w].kind # "live" => done'[w]
      BY <1>3, ProcessEffects, MachineTyped DEF IInv
    <2>2. CASE p \in 1 .. n
      <3>1. traj'[w][p] = traj[w][p] /\ Told(w, p) /\ p # Len(traj'[w])
        BY <2>1, <2>2 DEF AllTold
      <3> QED
        BY <1>1, <1>3, <3>1 DEF Told, Lag, Async
    <2>3. CASE p = n + 1
      <3> DEFINE tu == NewTuple(w, done'[w])
                 r == ctx.res[w]
                 a == ctx.acts[w]
      <3>1. /\ tu.obs = buffer[ctx.rows[w]] /\ tu.act = a /\ tu.ran = r.ran
            /\ tu.clock = r.clock /\ tu.peak = ctx.peaks[w]
            /\ tu.over = done'[w] /\ (tu.live <=> r.kind = "live")
        BY DEF NewTuple
      <3>2. traj'[w][p] = tu /\ p = Len(traj'[w]) /\ p = Reached
        BY <2>1, <2>3
      <3> HIDE DEF tu, r, a
      <3>3. ~abandoned =>
               /\ Good(r, a) /\ a.turn = p /\ a.obs \in {Blank, p - Lag(p)}
               /\ mode = "sync_smb" /\ r.kind = "live" => ctx.peaks[w] = Now
        <4>1. ~abandoned => Stamps(w) /\ Results(w) /\ Peaks(w)
          BY DEF TellingUnlessAbandoned, Telling
        <4> QED
          BY <1>1, <1>3, <3>2, <4>1 DEF Stamps, Stamped, Results, Peaks, Looping, r, a
      <3>4. ~Async => buffer[ctx.rows[w]] = a.obs
        BY <1>1, <1>3 DEF Buffered, a
      <3>5. mode = "sync_smb" /\ r.kind = "live" => ctx.peaks[w] = [life |-> batch, clock |-> p]
        <4> SUFFICES ASSUME mode = "sync_smb", r.kind = "live"
                     PROVE  ctx.peaks[w] = [life |-> batch, clock |-> p]
          OBVIOUS
        <4>1. ~Async /\ ~abandoned
          BY DEF Drains, Async
        <4>2. turn = p
          BY <1>1, <3>2, <4>1 DEF Reached, Ahead, IInv, Typed, Shape
        <4> QED
          BY <3>3, <4>1, <4>2 DEF Now
      <3>6. r.kind # "live" => done'[w]
        BY <2>1 DEF r
      <3>7. done'[w] \in BOOLEAN
        BY DEF IInv, Typed
      <3> QED
        BY <1>1, <3>1, <3>2, <3>3, <3>4, <3>5, <3>6, <3>7 DEF Told, Good, Lag, Async
    <2> QED
      BY <2>1, <2>2, <2>3
  <1> QED
    BY <1>2, <1>3 DEF AllTold

LEMMA StepTold ==
    ASSUME IInv, IInv', Drains, TellingUnlessAbandoned, Buffered, AllTold, [Next]_vars
    PROVE  AllTold'
  <1>1. ASSUME NEW w \in Workers, Process(w) PROVE AllTold'
    BY <1>1, ProcessTold
  <1>2. CASE StartBatch
    <2>1. traj' = [w \in Workers |-> <<>>]
      BY <1>2 DEF StartBatch
    <2> QED
      BY <2>1, EmptySeq DEF AllTold
  <1>3. ASSUME UNCHANGED <<traj, done, batch>> PROVE AllTold'
    BY <1>3, StepKeeps DEF AllTold, Told, Lag, Async
  <1>4. CASE ResetReturns \/ Crash \/ TurnSync \/ TurnAsync \/ StepReturns \/ Await
    BY <1>3, <1>4 DEF ResetReturns, Crash, TurnSync, TurnAsync, StepReturns, Await
  <1>5. CASE PeekCall \/ PeekReturns \/ LeaveLoop \/ Drain \/ FutureFails \/ Halt
    BY <1>3, <1>5 DEF PeekCall, PeekReturns, LeaveLoop, Drain, FutureFails, Halt, trainer
  <1>6. ASSUME NEW t \in Threads, PoolSteps(t) \/ PipeTake(t) \/ PipeDone(t) PROVE AllTold'
    BY <1>3, <1>6 DEF PoolSteps, PipeTake, PipeDone, trainer
  <1>7. CASE UNCHANGED vars
    BY <1>3, <1>7 DEF vars, trainer
  <1> QED
    BY <1>1, <1>2, <1>4, <1>5, <1>6, <1>7 DEF Next, TrainerStep

(* What is stored of a step is what happened in it: in every mode, with    *)
(* every fault, for as long as no abandoned step runs under a later batch. *)
THEOREM TransitionsTellTheTruth == Spec => []TransitionsAreTrue
  <1>1. AllTold => TransitionsAreTrue
    BY DEF AllTold, Told, Lag, TransitionsAreTrue, TransitionsMatchSteps, ObservationLag,
       PeakIsOfTheStep
  <1>2. Init => Buffered /\ AllTold
    BY EmptySeq DEF Init, Buffered, AllTold
  <1>3. Orderly => Drains
    BY DEF Orderly
  <1> QED
    BY <1>1, <1>2, <1>3, InitIInv, StepIInv, InitExclusive, StepExclusive, InitOrderly, StepOrderly, InitSolo,
       StepSolo, InitServing, StepServing, InitTelling, StepTelling, StepBuffered, StepTold,
       PTL DEF Spec

----------------------------------------------------------------------------
(* The pipeline collects episodes *)

(* The lengths and flags EpisodeBatch sees change only by Process and      *)
(* StartBatch.                                                             *)
LEMMA StepCollects ==
    ASSUME IInv, IInv', [Next]_vars
    PROVE  [Episodes!Next]_<<batch, [w \in Workers |-> Len(traj[w])], done>>
  <1> USE DEF IInv
  <1> DEFINE len == [w \in Workers |-> Len(traj[w])]
  <1>1. CASE StartBatch
    <2>1. /\ batch < MaxBatches /\ batch' = batch + 1 /\ done' = [w \in Workers |-> FALSE]
          /\ traj' = [w \in Workers |-> <<>>]
      BY <1>1 DEF StartBatch
    <2>2. len' = [w \in Workers |-> 0]
      BY <2>1, EmptySeq
    <2>3. Episodes!Begin
      BY <2>1, <2>2 DEF Episodes!Begin
    <2> QED
      BY <2>3 DEF Episodes!Next
  <1>2. ASSUME NEW w \in Workers, Process(w)
        PROVE  Episodes!Record(w) \/ UNCHANGED <<batch, len, done>>
    <2>1. pc = "process" /\ w \in todo /\ \A v \in todo : w <= v
      BY <1>2 DEF Process
    <2>2. UNCHANGED batch
      BY <1>2 DEF Process, Processed
    <2>3. CASE done[w]
      BY <1>2, <2>2, <2>3 DEF Process
    <2>4. CASE ~done[w]
      <3>1. PICK over \in BOOLEAN, tu \in Tuple :
              /\ traj' = [traj EXCEPT ![w] = Append(@, tu)]
              /\ done' = [done EXCEPT ![w] = over]
        BY <1>2, <2>4, ProcessRecords
      <3>2. \A v \in Workers : traj[v] \in Seq(Tuple) /\ Len(traj[v]) \in Nat
        BY LenProperties DEF Typed
      <3>3. Len(Append(traj[w], tu)) = Len(traj[w]) + 1
        BY <3>2, AppendProperties
      <3>4. \A v \in Workers : Len(traj'[v]) = IF v = w THEN Len(traj[w]) + 1 ELSE Len(traj[v])
        BY <3>1, <3>3 DEF Typed
      <3>5. len' = [len EXCEPT ![w] = @ + 1]
        BY <3>4
      <3>6. \A v \in Workers : ~done[v] => Len(traj[v]) + (IF v \in todo THEN 1 ELSE 0) = Reached
        BY <2>1 DEF InStep
      <3>7. Len(traj[w]) + 1 = Reached
        BY <2>1, <2>4, <3>6
      <3>8. Reached \in Nat /\ Reached <= turn /\ turn <= MaxSteps /\ turn \in Nat
        BY <2>1 DEF Typed, Shape, Reached, Ahead
      <3>9. Len(traj[w]) < MaxSteps
        BY <3>2, <3>7, <3>8
      <3>10. ASSUME NEW v \in Workers, ~done[v] PROVE Len(traj[w]) <= Len(traj[v])
        <4>1. Len(traj[v]) \in Nat /\ Len(traj[w]) \in Nat
          BY <3>2
        <4>2. Len(traj[v]) + 1 = Reached \/ Len(traj[v]) + 0 = Reached
          BY <3>6, <3>10
        <4> QED
          BY <3>7, <4>1, <4>2
      <3>11. \E o \in BOOLEAN : done' = [done EXCEPT ![w] = o]
        BY <3>1
      <3>12. Episodes!Record(w)
        BY <2>2, <2>4, <3>5, <3>9, <3>10, <3>11 DEF Episodes!Record
      <3> QED
        BY <3>12
    <2> QED
      BY <2>3, <2>4
  <1>3. ASSUME UNCHANGED <<batch, traj, done>> PROVE UNCHANGED <<batch, len, done>>
    BY <1>3
  <1>4. CASE ~StartBatch /\ \A w \in Workers : ~Process(w)
    <2>1. UNCHANGED <<batch, traj, done>>
      BY <1>4 DEF Next, TrainerStep, ResetReturns, Crash, TurnSync, TurnAsync, StepReturns,
         Await, PeekCall, PeekReturns, LeaveLoop, Drain, FutureFails, Halt, PoolSteps, PipeTake,
         PipeDone, trainer, vars
    <2> QED
      BY <1>3, <2>1
  <1> QED
    BY <1>1, <1>2, <1>4 DEF Episodes!Next

(* In every mode, with every fault, the pipeline implements EpisodeBatch.  *)
THEOREM PipelineCollects == Spec => CollectsEpisodes
  <1>1. Init => Episodes!Init
    BY EmptySeq DEF Init, Episodes!Init
  <1>2. IInv /\ IInv' /\ [Next]_vars
          => [Episodes!Next]_<<batch, [w \in Workers |-> Len(traj[w])], done>>
    BY StepCollects
  <1> QED
    BY <1>1, <1>2, InitIInv, StepIInv, PTL DEF Spec, CollectsEpisodes, Episodes!Spec
=============================================================================

---------------------------- MODULE EpisodeBatch ----------------------------
(***************************************************************************)
(* What collecting a batch of episodes promises, whatever the pipeline     *)
(* behind it: every environment records its transitions one at a time, in  *)
(* step with the others that still run, an episode that is over records    *)
(* no more, and only the next batch opens it again.                        *)
(***************************************************************************)
EXTENDS Integers

CONSTANTS Envs, MaxSteps, MaxBatches

VARIABLES batch, len, over

Init ==
    /\ batch = 0
    /\ len = [e \in Envs |-> 0]
    /\ over = [e \in Envs |-> FALSE]

Begin ==
    /\ batch < MaxBatches
    /\ batch' = batch + 1
    /\ len' = [e \in Envs |-> 0]
    /\ over' = [e \in Envs |-> FALSE]

Record(e) ==
    /\ ~over[e]
    /\ len[e] < MaxSteps
    /\ \A d \in Envs : ~over[d] => len[e] <= len[d]
    /\ len' = [len EXCEPT ![e] = @ + 1]
    /\ \E o \in BOOLEAN : over' = [over EXCEPT ![e] = o]
    /\ UNCHANGED batch

Next == Begin \/ \E e \in Envs : Record(e)

Spec == Init /\ [][Next]_<<batch, len, over>>
=============================================================================

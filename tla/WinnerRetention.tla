-------------------------- MODULE WinnerRetention --------------------------
(***************************************************************************)
(* winners/best.pt and its sidecar winners/best.json: save_winner of       *)
(* src/training/checkpointing.py, called by the trainer at every save      *)
(* point with the rate _select_winner_metric picked.  The two files are two *)
(* renames, and the trainer may die between them or roll back to an older  *)
(* checkpoint.                                                             *)
(***************************************************************************)
EXTENDS Integers

CONSTANTS
    MaxRate,    \* rates are 0 .. MaxRate; MaxRate is where they saturate
    MaxIter,    \* bound: save points the run reaches
    Faults      \* "ckpt": a periodic checkpoint may fail to save
                \* "gap":  a death or an error may fall between the renames
                \* "tear": the sidecar may become unreadable

ASSUME RateAssumption == MaxRate \in Nat
ASSUME IterAssumption == MaxIter \in Nat
ASSUME FaultsAssumption == Faults \subseteq {"ckpt", "gap", "tear"}

VARIABLES
    iter,       \* the save point the trainer has reached
    base,       \* the save point of the newest periodic checkpoint
    pc,         \* where save_winner is
    cand,       \* the candidate it was called with
    pt,         \* what best.pt holds
    json        \* what best.json says

vars == <<iter, base, pc, cand, pt, json>>

Rates == 0 .. MaxRate
Minus == -2         \* float("-inf"): below every rate and the probe's -1

Winner == [metric : Rates \cup {Minus}, iter : Nat]
Nothing == [metric |-> Minus, iter |-> 0]
Sidecar == [state : {"absent", "ok", "torn"}, metric : Rates \cup {Minus}, iter : Nat]
NoSidecar == [state |-> "absent", metric |-> Minus, iter |-> 0]

TypeOK ==
    /\ iter \in Nat /\ base \in Nat
    /\ pc \in {"train", "decide", "refused", "pt", "json"}
    /\ cand \in Winner /\ pt \in Winner
    /\ json \in Sidecar

(* Mutant: the sidecar alone is believed. *)
PrevMetric_SidecarOnly == json.metric

(* The metric embedded in best.pt raises what the sidecar says, unless the *)
(* sidecar exists and does not parse.                                      *)
PrevMetric ==
    IF json.state = "torn" THEN Minus
    ELSE IF pt.metric > json.metric THEN pt.metric ELSE json.metric

(* Mutant: no tie ever wins. *)
Beats_Strictly(c) == c.metric > PrevMetric

(* A better metric wins; a tie wins for a later iteration, which only the  *)
(* sidecar knows.                                                          *)
Beats(c) ==
    \/ c.metric > PrevMetric
    \/ /\ c.metric = PrevMetric
       /\ json.state = "ok"
       /\ c.iter > json.iter

Init ==
    /\ iter = 0 /\ base = 0
    /\ pc = "train"
    /\ cand = Nothing /\ pt = Nothing
    /\ json = NoSidecar

(* Mutant: the probe's -1, no episodes scored, is taken for a rate. *)
SavePoint_Sentinel ==
    /\ pc = "train"
    /\ iter < MaxIter
    /\ iter' = iter + 1
    /\ base' = iter + 1 \/ ("ckpt" \in Faults /\ base' = base)
    /\ \E rate \in Rates \cup {-1} : cand' = [metric |-> rate, iter |-> iter + 1]
    /\ pc' = "decide"
    /\ UNCHANGED <<pt, json>>

(* The next save point: the periodic checkpoint, then the candidate -- or  *)
(* none: before tau is at the entrance, or with non-finite parameters.     *)
SavePoint ==
    /\ pc = "train"
    /\ iter < MaxIter
    /\ iter' = iter + 1
    /\ base' = iter + 1 \/ ("ckpt" \in Faults /\ base' = base)
    /\ \/ /\ \E rate \in Rates : cand' = [metric |-> rate, iter |-> iter + 1]
          /\ pc' = "decide"
       \/ UNCHANGED <<cand, pc>>
    /\ UNCHANGED <<pt, json>>

Accept ==
    /\ pc = "decide"
    /\ Beats(cand)
    /\ pc' = "pt"
    /\ UNCHANGED <<iter, base, cand, pt, json>>

Refuse ==
    /\ pc = "decide"
    /\ ~Beats(cand)
    /\ pc' = "refused"
    /\ UNCHANGED <<iter, base, cand, pt, json>>

(* Mutant: the first of the two renames is the sidecar's. *)
WritePt_SidecarFirst ==
    /\ pc = "pt"
    /\ json' = [state |-> "ok", metric |-> cand.metric, iter |-> cand.iter]
    /\ pc' = "json"
    /\ UNCHANGED <<iter, base, cand, pt>>

(* os.replace of best.pt, whose blob embeds metric and iteration ... *)
WritePt ==
    /\ pc = "pt"
    /\ pt' = cand
    /\ pc' = "json"
    /\ UNCHANGED <<iter, base, cand, json>>

(* ... then of best.json. *)
WriteJson ==
    /\ pc = "json"
    /\ json' = [state |-> "ok", metric |-> cand.metric, iter |-> cand.iter]
    /\ pc' = "train"
    /\ cand' = Nothing
    /\ UNCHANGED <<iter, base, pt>>

Return ==
    /\ pc = "refused"
    /\ pc' = "train"
    /\ cand' = Nothing
    /\ UNCHANGED <<iter, base, pt, json>>

(* An exception of save_winner is logged and training goes on. *)
Fail ==
    /\ pc = "pt" \/ (pc = "json" /\ "gap" \in Faults)
    /\ pc' = "train"
    /\ cand' = Nothing
    /\ UNCHANGED <<iter, base, pt, json>>

(* The trainer dies and resumes from its newest periodic checkpoint. *)
Crash ==
    /\ pc = "json" => "gap" \in Faults
    /\ iter' = base
    /\ pc' = "train"
    /\ cand' = Nothing
    /\ UNCHANGED <<base, pt, json>>

(* The sidecar becomes unreadable (its fsync is best effort, too). *)
Tear ==
    /\ "tear" \in Faults
    /\ pc = "train"
    /\ json.state = "ok"
    /\ json' = [NoSidecar EXCEPT !.state = "torn"]
    /\ UNCHANGED <<iter, base, pc, cand, pt>>

Next ==
    \/ SavePoint \/ Accept \/ Refuse \/ WritePt \/ WriteJson \/ Return
    \/ Fail \/ Crash \/ Tear

Spec == Init /\ [][Next]_vars

----------------------------------------------------------------------------
(* "A lagging sidecar can never let a worse checkpoint pass the gate and   *)
(* clobber a genuinely better one" (checkpointing.py, save_winner): as     *)
(* long as the sidecar is not corrupt, the metric of best.pt only grows,   *)
(* whatever crashes fall between the two renames.                          *)
BestNeverDecreases ==
    [][json.state # "torn" => pt'.metric >= pt.metric]_vars

(* "Sidecar last: ... it must never claim a value the .pt doesn't back."   *)
SidecarNeverOverclaims ==
    json.state = "ok" => json.metric <= pt.metric

(* The sidecar describes the winner it lies beside. *)
InStep ==
    json = [state |-> "ok", metric |-> pt.metric, iter |-> pt.iter]

(* Between equal metrics best.pt only moves to later iterations, also when *)
(* the trainer has rolled back and offers earlier ones again: the gate's   *)
(* anti-churn half, wherever the sidecar describes best.pt.                *)
TieNeverMovesBack ==
    [][InStep /\ pt' # pt /\ pt'.metric = pt.metric => pt'.iter > pt.iter]_vars

(* "ties -> later iter" (checkpointing.py, THE CEILING LOCK): a candidate  *)
(* that ties with best.pt at a later iteration is not refused, or a metric *)
(* that has saturated would freeze the winner for the rest of the run.     *)
TieGoesToLaterIter ==
    [][InStep /\ pc = "decide" /\ pc' = "refused"
          => ~(cand.metric = pt.metric /\ cand.iter > pt.iter)]_vars

(* Both halves: among equal metrics the later iteration wins, whichever of *)
(* the two is offered first.                                               *)
TiesDecideByIter == TieNeverMovesBack /\ TieGoesToLaterIter

----------------------------------------------------------------------------
(* "A tie with no iteration information (or an older one) still keeps the  *)
(* incumbent" (checkpointing.py:440), whatever crashes came before.        *)
OlderTieKeepsIncumbent ==
    [][pt' # pt /\ pt'.metric = pt.metric => pt'.iter > pt.iter]_vars
=============================================================================

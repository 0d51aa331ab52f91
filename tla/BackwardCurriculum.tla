------------------------- MODULE BackwardCurriculum -------------------------
(***************************************************************************)
(* The backward curriculum of Trainer._run_vanilla_ppo and its             *)
(* TauScheduler.  Episodes restart from entries of a tape of save states,  *)
(* in a window that ends at the cursor tau; once enough of the attempts    *)
(* made under tau clear the level, tau moves back towards the entrance.    *)
(*                                                                         *)
(* A rollout is MaxSteps turns; in each turn the environments are handled  *)
(* one after the other.  Then every machine is reset, what was still       *)
(* running is scored, tau may move, and every environment draws again.     *)
(* The cursor is saved with the checkpoint and restored on a resume.       *)
(***************************************************************************)
EXTENDS Integers, Sequences, FiniteSets

CONSTANTS
    NumEnvs,
    MaxSteps,           \* rollout_steps
    Depth,              \* frames in an observation
    Lengths,            \* tapes: their numbers of entries
    Gates,              \* min_attempts, which is also the window's length
    Hits, OutOf,        \* advance_threshold
    AdvanceEntries,
    WindowEntries,      \* window_frames // frames_per_entry
    EntranceInDraw,     \* entrance_weight > 0
    CountTruncations,
    RungBudget,         \* rung_step_budget is configured
    Base, PerEntry, Per,        \* its base and, as a fraction, per_entry
    LoadsFail,          \* fault: load_worker_state may raise
    MaxCrashes          \* bound: relaunches of the process

ASSUME SizesAssumption ==
    /\ NumEnvs \in Nat \ {0} /\ MaxSteps \in Nat \ {0} /\ Depth \in Nat \ {0}
    /\ AdvanceEntries \in Nat \ {0} /\ WindowEntries \in Nat
    /\ Base \in Nat \ {0} /\ PerEntry \in Nat /\ Per \in Nat \ {0}
    /\ MaxCrashes \in Nat
ASSUME TapesAssumption == Lengths \subseteq Nat \ {0} /\ Lengths # {}
ASSUME GatesAssumption == Gates \subseteq Nat \ {0} /\ Gates # {}
ASSUME RateAssumption == Hits \in Nat /\ OutOf \in Nat \ {0} /\ Hits <= OutOf
ASSUME SwitchesAssumption ==
    {EntranceInDraw, CountTruncations, RungBudget, LoadsFail} \subseteq BOOLEAN

Envs == 1 .. NumEnvs
ENTRANCE == -1
NotOurs == -1           \* src of an episode that no draw started
Entrance == 0
Window == 1
NoAttempt == [tau |-> -1, cleared |-> FALSE]
NoCursor == [n |-> 0, tau |-> 0, window |-> <<>>]

VARIABLES
    n, gate, tau, window,       \* the TauScheduler: n_entries, min_attempts, ...
    src, envTau, budget, clear, \* _bwd_env_src, _tau, _budget, _clear
    len,                        \* ep_lengths
    active,                     \* active_in_iter
    foreign,    \* rows of the observation that show another episode
    torn,       \* a failed load left the machine half overwritten
    attempt,    \* history: the cursor the machine was restarted under, and
                \* whether the level was cleared since then
    pc, t, at,  \* phase; turn of the rollout; the next environment
    loaded,     \* _bwd_any
    saved,      \* the cursor in the newest checkpoint
    crashes

sched == <<n, gate, tau, window>>
envs == <<src, envTau, budget, clear, len, active, foreign, torn, attempt>>
vars == <<sched, envs, pc, t, at, loaded, saved, crashes>>

Taus == {k \in Nat : \E m \in Lengths : k < m}
(* The window holds outcomes; at and cleared are history. *)
Outcome == [ok : BOOLEAN, at : Taus \cup {-1}, cleared : BOOLEAN]

TypeOK ==
    /\ n \in Lengths /\ gate \in Gates
    /\ tau \in Taus /\ tau < n
    /\ window \in Seq(Outcome) /\ Len(window) <= gate
    /\ src \in [Envs -> {NotOurs, Entrance, Window}]
    /\ envTau \in [Envs -> Taus] /\ budget \in [Envs -> 0 .. MaxSteps]
    /\ clear \in [Envs -> BOOLEAN] /\ len \in [Envs -> 0 .. MaxSteps]
    /\ active \in [Envs -> BOOLEAN]
    /\ foreign \in [Envs -> 0 .. Depth] /\ torn \in [Envs -> BOOLEAN]
    /\ attempt \in [Envs -> [tau : Taus \cup {-1}, cleared : BOOLEAN]]
    /\ pc \in {"rollout", "score", "draw"}
    /\ t \in 0 .. MaxSteps /\ at \in 1 .. NumEnvs + 1
    /\ loaded \in BOOLEAN /\ crashes \in 0 .. MaxCrashes
    /\ saved.n \in Lengths \cup {0} /\ saved.tau \in Taus
    /\ saved.window \in Seq(Outcome)

----------------------------------------------------------------------------
(* TauScheduler *)

(* Mutant: the deque has no length of its own. *)
Newest_All(w, k) == w

(* deque(maxlen = gate): the newest outcomes. *)
Newest(w, k) == IF Len(w) > k THEN SubSeq(w, Len(w) - k + 1, Len(w)) ELSE w

Successes(w) == Cardinality({i \in 1 .. Len(w) : w[i].ok})

(* record: an attempt that outlived an advance is dropped. *)
Recorded(w, o, started) ==
    IF started = tau THEN Newest(Append(w, o), gate) ELSE w

Earned(w) ==
    /\ tau > 0
    /\ Len(w) >= gate
    /\ Successes(w) * OutOf >= Hits * Len(w)

StepBack == IF tau > AdvanceEntries THEN tau - AdvanceEntries ELSE 0

(* maybe_advance, with the window as it then is. *)
MaybeAdvance(w) ==
    /\ tau' = IF Earned(w) THEN StepBack ELSE tau
    /\ window' = IF Earned(w) THEN <<>> ELSE w
    /\ UNCHANGED <<n, gate>>

(* start_window and draw_restart: an entry behind the cursor or the        *)
(* entrance.                                                               *)
StartWindow(cursor) == {r \in 0 .. cursor : r >= cursor - WindowEntries}
Picks(cursor) == StartWindow(cursor) \cup (IF EntranceInDraw THEN {ENTRANCE} ELSE {})

(* steps_for: the entrance counts as rung 0. *)
StepsFor(pick) ==
    LET rung == IF pick = ENTRANCE THEN 0 ELSE pick
        raw == Base + (PerEntry * (n - rung)) \div Per
    IN IF ~RungBudget THEN 0 ELSE IF raw < MaxSteps THEN raw ELSE MaxSteps

(* Mutant: truncations are dropped whatever the switch says. *)
Score_Censors(w, e, ok, truncated, cleared) ==
    IF src[e] = Window /\ (ok \/ ~truncated)
    THEN Recorded(w, [ok |-> ok, at |-> attempt[e].tau, cleared |-> cleared],
                  envTau[e])
    ELSE w

(* What an attempt of environment e that ends now adds to the window.      *)
(* Entrance attempts only go to counters that the log reads.               *)
Score(w, e, ok, truncated, cleared) ==
    IF /\ src[e] = Window
       /\ ok \/ ~truncated \/ CountTruncations
    THEN Recorded(w, [ok |-> ok, at |-> attempt[e].tau, cleared |-> cleared],
                  envTau[e])
    ELSE w

----------------------------------------------------------------------------
(* Starting the process *)

Fresh(m, g) ==
    /\ n = m /\ gate = g
    /\ tau = m - 1 /\ window = <<>>

Init ==
    /\ \E m \in Lengths, g \in Gates : Fresh(m, g)
    /\ src = [e \in Envs |-> NotOurs]
    /\ envTau = [e \in Envs |-> tau]
    /\ budget = [e \in Envs |-> 0]
    /\ clear = [e \in Envs |-> FALSE]
    /\ len = [e \in Envs |-> 0]
    /\ active = [e \in Envs |-> TRUE]
    /\ foreign = [e \in Envs |-> 0]
    /\ torn = [e \in Envs |-> FALSE]
    /\ attempt = [e \in Envs |-> NoAttempt]
    /\ pc = "rollout" /\ t = 0 /\ at = 1
    /\ loaded = FALSE
    /\ saved = NoCursor
    /\ crashes = 0

(* Mutant: the cursor is not part of the checkpoint. *)
Restored_Nothing(m) == FALSE

(* load_state_dict refuses a cursor of a tape with another length. *)
Restored(m) == saved.n = m

(* The process dies or is stopped, neither of which leaves a checkpoint,   *)
(* and the next one resumes: the tape and the gates may be others by then. *)
Relaunch ==
    /\ crashes < MaxCrashes
    /\ crashes' = crashes + 1
    /\ n' \in Lengths /\ gate' \in Gates
    /\ tau' = IF Restored(n') THEN saved.tau ELSE n' - 1
    /\ window' = IF Restored(n') THEN Newest(saved.window, gate') ELSE <<>>
    /\ src' = [e \in Envs |-> NotOurs]
    /\ envTau' = [e \in Envs |-> tau']
    /\ budget' = [e \in Envs |-> 0]
    /\ clear' = [e \in Envs |-> FALSE]
    /\ len' = [e \in Envs |-> 0]
    /\ active' = [e \in Envs |-> TRUE]
    /\ foreign' = [e \in Envs |-> 0]
    /\ torn' = [e \in Envs |-> FALSE]
    /\ attempt' = [e \in Envs |-> NoAttempt]
    /\ pc' = "rollout" /\ t' = 0 /\ at' = 1
    /\ loaded' = FALSE
    /\ UNCHANGED saved

----------------------------------------------------------------------------
(* The rollout *)

(* The loop over the environments, and around it the loop of the turns. *)
NextEnv(e) ==
    /\ at' = IF e < NumEnvs THEN e + 1 ELSE 1
    /\ t' = IF e < NumEnvs THEN t ELSE t + 1
    /\ pc' = IF t' = MaxSteps THEN "score" ELSE "rollout"
    /\ UNCHANGED <<loaded, saved, crashes>>

Skip(e) ==
    /\ pc = "rollout" /\ at = e /\ ~active[e]
    /\ NextEnv(e)
    /\ UNCHANGED <<sched, envs>>

(* The per-rung budget ends an attempt that is not over by itself. *)
Cut(e, over) ==
    /\ ~over /\ src[e] # NotOurs
    /\ budget[e] > 0 /\ len[e] + 1 >= budget[e]

(* The machine goes on with the episode; flag: it has cleared the level. *)
Live(e, flag) ==
    /\ pc = "rollout" /\ at = e /\ active[e]
    /\ ~Cut(e, FALSE)
    /\ len' = [len EXCEPT ![e] = @ + 1]
    /\ clear' = [clear EXCEPT ![e] = @ \/ flag]
    /\ attempt' = [attempt EXCEPT ![e].cleared = @ \/ flag]
    /\ foreign' = [foreign EXCEPT ![e] = IF @ > 0 THEN @ - 1 ELSE 0]
    /\ NextEnv(e)
    /\ UNCHANGED <<sched, src, envTau, budget, active, torn>>

(* The attempt ends: by itself, when the game or the reward says so or the *)
(* machine has panicked, or at its budget.                                 *)
Closes(e, over, flag) ==
    LET ok == clear[e] \/ flag
    IN /\ over \/ Cut(e, over)
       /\ MaybeAdvance(Score(window, e, ok, ~over, attempt[e].cleared \/ flag))
       /\ clear' = [clear EXCEPT ![e] = FALSE]
       /\ len' = [len EXCEPT ![e] = 0]

Provenance(e, pick) ==
    /\ envTau' = [envTau EXCEPT ![e] = tau']
    /\ budget' = [budget EXCEPT ![e] = StepsFor(pick)]

(* Mutant: the clear flag of the attempt before is kept. *)
Restart_KeepsClear(e, over, flag, pick) ==
    /\ over \/ Cut(e, over)
    /\ MaybeAdvance(Score(window, e, clear[e] \/ flag, ~over,
                          attempt[e].cleared \/ flag))
    /\ len' = [len EXCEPT ![e] = 0]
    /\ Provenance(e, pick)
    /\ src' = [src EXCEPT ![e] = IF pick = ENTRANCE THEN Entrance ELSE Window]
    /\ attempt' = [attempt EXCEPT ![e] = [tau |-> tau', cleared |-> FALSE]]
    /\ foreign' = [foreign EXCEPT ![e] = Depth]
    /\ torn' = [torn EXCEPT ![e] = FALSE]
    /\ NextEnv(e)
    /\ UNCHANGED <<active, clear>>

(* Score the attempt that ended, then restart.  The observation of the new *)
(* one is seeded from the RAM of this step, which is still the old one's.  *)
Restart(e, over, flag, pick) ==
    /\ Closes(e, over, flag)
    /\ Provenance(e, pick)
    /\ src' = [src EXCEPT ![e] = IF pick = ENTRANCE THEN Entrance ELSE Window]
    /\ attempt' = [attempt EXCEPT ![e] = [tau |-> tau', cleared |-> FALSE]]
    /\ foreign' = [foreign EXCEPT ![e] = Depth]
    /\ torn' = [torn EXCEPT ![e] = FALSE]
    /\ NextEnv(e)
    /\ UNCHANGED active

(* The load fails: the environment stands still until the next rollout. *)
Freeze(e, over, flag, pick) ==
    /\ LoadsFail
    /\ Closes(e, over, flag)
    /\ Provenance(e, pick)
    /\ src' = [src EXCEPT ![e] = NotOurs]
    /\ attempt' = [attempt EXCEPT ![e] = NoAttempt]
    /\ active' = [active EXCEPT ![e] = FALSE]
    /\ NextEnv(e)
    /\ UNCHANGED <<foreign, torn>>

Ends(e) ==
    /\ pc = "rollout" /\ at = e /\ active[e]
    /\ \E over, flag \in BOOLEAN, pick \in Picks(tau) \cup Picks(StepBack) :
          /\ Restart(e, over, flag, pick) \/ Freeze(e, over, flag, pick)
          /\ pick \in Picks(tau')

----------------------------------------------------------------------------
(* Between two rollouts: every machine has been reset *)

(* What was still running is a clear if it had cleared and a truncation    *)
(* otherwise.                                                              *)
ScoreRunning(e) ==
    /\ pc = "score" /\ at = e
    /\ window' = Score(window, e, clear[e], ~clear[e], attempt[e].cleared)
    /\ at' = e + 1
    /\ UNCHANGED <<n, gate, tau, envs, pc, t, loaded, saved, crashes>>

CloseScores ==
    /\ pc = "score" /\ at = NumEnvs + 1
    /\ MaybeAdvance(window)
    /\ src' = [e \in Envs |-> NotOurs]
    /\ clear' = [e \in Envs |-> FALSE]
    /\ len' = [e \in Envs |-> 0]
    /\ active' = [e \in Envs |-> TRUE]
    /\ torn' = [e \in Envs |-> FALSE]
    /\ attempt' = [e \in Envs |-> NoAttempt]
    /\ pc' = "draw" /\ at' = 1 /\ loaded' = FALSE
    /\ UNCHANGED <<envTau, budget, foreign, t, saved, crashes>>

DrawsFrom(e, pick, source) ==
    /\ pc = "draw" /\ at = e
    /\ src' = [src EXCEPT ![e] = source]
    /\ envTau' = [envTau EXCEPT ![e] = tau]
    /\ budget' = [budget EXCEPT ![e] = StepsFor(pick)]
    /\ attempt' = [attempt EXCEPT ![e] = [tau |-> tau, cleared |-> FALSE]]
    /\ at' = e + 1
    /\ UNCHANGED <<sched, clear, len, active, foreign, pc, t, saved, crashes>>

DrawEntry(e) ==
    /\ \E pick \in StartWindow(tau) : DrawsFrom(e, pick, Window)
    /\ loaded' = TRUE
    /\ UNCHANGED torn

DrawEntrance(e) ==
    /\ EntranceInDraw
    /\ DrawsFrom(e, ENTRANCE, Entrance)
    /\ UNCHANGED <<torn, loaded>>

(* A load that fails passes for a draw of the entrance; an incompatible    *)
(* state has overwritten part of the machine by then.                      *)
DrawFails(e) ==
    /\ LoadsFail
    /\ DrawsFrom(e, ENTRANCE, Entrance)
    /\ \E half \in BOOLEAN : torn' = [torn EXCEPT ![e] = half]
    /\ UNCHANGED loaded

(* Mutant: the observations are those of the reset, without the no-op step *)
(* that shows the loaded states.                                           *)
BeginRollout_NoFlush ==
    /\ pc = "draw" /\ at = NumEnvs + 1
    /\ foreign' = [e \in Envs |-> IF src[e] = Window \/ torn[e] THEN Depth ELSE 0]
    /\ pc' = "rollout" /\ t' = 0 /\ at' = 1
    /\ saved' \in {saved, [n |-> n, tau |-> tau, window |-> window]}
    /\ UNCHANGED <<sched, src, envTau, budget, clear, len, active, torn, attempt,
                   loaded, crashes>>

(* Any load is followed by a no-op step of all machines, whose results are *)
(* observed; without one the results of the reset are.  Every tenth        *)
(* rollout, if the parameters are finite, a checkpoint is written.         *)
BeginRollout ==
    /\ pc = "draw" /\ at = NumEnvs + 1
    /\ foreign' = [e \in Envs |-> IF torn[e] /\ ~loaded THEN Depth ELSE 0]
    /\ pc' = "rollout" /\ t' = 0 /\ at' = 1
    /\ saved' \in {saved, [n |-> n, tau |-> tau, window |-> window]}
    /\ UNCHANGED <<sched, src, envTau, budget, clear, len, active, torn, attempt,
                   loaded, crashes>>

TrainerStep ==
    \/ \E e \in Envs :
        \/ Skip(e) \/ Ends(e)
        \/ \E flag \in BOOLEAN : Live(e, flag)
        \/ ScoreRunning(e)
        \/ DrawEntry(e) \/ DrawEntrance(e) \/ DrawFails(e)
    \/ CloseScores \/ BeginRollout

Next == TrainerStep \/ Relaunch

(* The trainer goes on, and the draw, which is random, takes and loads an  *)
(* entry of the window again and again.                                    *)
Fairness ==
    /\ WF_vars(TrainerStep)
    /\ SF_vars(\E e \in Envs : DrawEntry(e))

Spec == Init /\ [][Next]_vars /\ Fairness

----------------------------------------------------------------------------
(* The rate a rung is judged by is of attempts that were restarted under   *)
(* the very cursor it judges: none that outlived an advance, none whose    *)
(* restart never happened, none that no draw started.                      *)
EvidenceIsCurrent == \A i \in 1 .. Len(window) : window[i].at = tau

(* A success is a clear of the attempt it is booked for, and a clear is    *)
(* never booked as anything else.                                          *)
OutcomeIsOfTheAttempt == \A i \in 1 .. Len(window) : window[i].ok = window[i].cleared

(* What a rung is judged by: its own attempts, and what they came to.      *)
EvidenceIsSound == EvidenceIsCurrent /\ OutcomeIsOfTheAttempt

(* A resume does not walk back to rungs that the checkpoint had earned,    *)
(* nor forget the evidence about the rung it had reached.                  *)
ResumeKeepsProgress ==
    saved.n = n =>
        /\ tau <= saved.tau
        /\ tau = saved.tau =>
            Len(window) >= Len(Newest(saved.window, gate))

(* Turns of this rollout that environment e has had. *)
Turns(e) == t + (IF pc = "rollout" /\ e < at THEN 1 ELSE 0)

(* What the policy sees is the episode it plays: from the first step in a  *)
(* rollout, and after a restart as soon as the stack has been filled.      *)
ObservationRecovers ==
    \A e \in Envs : pc = "rollout" /\ active[e] /\ ~torn[e] =>
        foreign[e] <= IF len[e] = Turns(e) \/ len[e] >= Depth THEN 0 ELSE Depth - len[e]

(* With truncations counted, the window of a rung always gets filled,      *)
(* however the attempts end.                                               *)
EvidenceArrives == <>[](Len(window) = gate)

(* What the trainer's comment says of the seed: "this step's RAM is the    *)
(* first post-restore frame".                                              *)
SeedIsPostRestore ==
    \A e \in Envs : active[e] /\ pc = "rollout" /\ at = 1 /\ ~torn[e] => foreign[e] = 0

(* What the trainer's comment rules out: an outcome "for an attempt with   *)
(* zero executed steps".                                                   *)
NoPhantomAttempts ==
    [][\A e \in Envs : pc = "score" /\ at = e /\ len[e] = 0 => window' = window]_vars
=============================================================================

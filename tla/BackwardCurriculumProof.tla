---------------------- MODULE BackwardCurriculumProof ----------------------
(***************************************************************************)
(* Proofs about BackwardCurriculum, for every number of environments, every *)
(* tape, every gate and every combination of faults and relaunches.        *)
(***************************************************************************)
EXTENDS BackwardCurriculum, SequenceTheorems, TLAPS

USE SizesAssumption, TapesAssumption, GatesAssumption

(* A window w the scheduler may judge tau by. *)
Fitting(w) ==
    /\ w \in Seq(Outcome) /\ Len(w) <= gate
    /\ \A i \in 1 .. Len(w) : w[i].at = tau /\ w[i].ok = w[i].cleared

(* With the window w a resume has lost nothing. *)
Covers(w) ==
    saved.n = n =>
        /\ tau <= saved.tau
        /\ tau = saved.tau => Len(w) >= Len(Newest(saved.window, gate))

CursorOK == n \in Lengths /\ gate \in Gates /\ tau \in Taus /\ tau < n

WindowOK == Fitting(window) /\ Covers(window)

SavedOK ==
    /\ saved.n \in Lengths \cup {0} /\ saved.tau \in Taus
    /\ saved.n # 0 => saved.tau < saved.n
    /\ saved.window \in Seq(Outcome)
    /\ \A i \in 1 .. Len(saved.window) :
          saved.window[i].at = saved.tau /\ saved.window[i].ok = saved.window[i].cleared

EnvsTyped ==
    /\ src \in [Envs -> {NotOurs, Entrance, Window}]
    /\ envTau \in [Envs -> Taus] /\ budget \in [Envs -> 0 .. MaxSteps]
    /\ clear \in [Envs -> BOOLEAN] /\ len \in [Envs -> 0 .. MaxSteps]
    /\ active \in [Envs -> BOOLEAN]
    /\ foreign \in [Envs -> 0 .. Depth] /\ torn \in [Envs -> BOOLEAN]
    /\ attempt \in [Envs -> [tau : Taus \cup {-1}, cleared : BOOLEAN]]

(* The phases of the trainer, and the episodes no longer than they allow.  *)
PhaseOK ==
    /\ pc \in {"rollout", "score", "draw"}
    /\ t \in 0 .. MaxSteps /\ at \in 1 .. NumEnvs + 1
    /\ loaded \in BOOLEAN /\ crashes \in 0 .. MaxCrashes
    /\ pc = "rollout" => t < MaxSteps /\ at <= NumEnvs
    /\ \A e \in Envs : pc = "rollout" => len[e] <= Turns(e)
    /\ \A e \in Envs : pc = "draw" => len[e] = 0 /\ ~clear[e]

(* An attempt from the window is scored under the cursor it was restarted  *)
(* under, and with the flag it raised itself.                              *)
ProvenanceOK ==
    \A e \in Envs : src[e] = Window =>
        attempt[e].tau = envTau[e] /\ attempt[e].cleared = clear[e]

IInv ==
    /\ CursorOK /\ WindowOK /\ SavedOK
    /\ EnvsTyped /\ PhaseOK /\ ProvenanceOK

----------------------------------------------------------------------------
(* deque(maxlen = k) holds at most k outcomes, all of them from w. *)
LEMMA NewestKeeps ==
    ASSUME NEW w \in Seq(Outcome), NEW k \in Nat
    PROVE  /\ Newest(w, k) \in Seq(Outcome)
           /\ Len(Newest(w, k)) = IF Len(w) > k THEN k ELSE Len(w)
           /\ \A i \in 1 .. Len(Newest(w, k)) :
                 \E j \in 1 .. Len(w) : Newest(w, k)[i] = w[j]
  <1>1. CASE Len(w) > k
    <2> DEFINE m == Len(w) - k + 1
    <2>1. Len(w) \in Nat /\ m \in 1 .. Len(w) + 1 /\ Newest(w, k) = SubSeq(w, m, Len(w))
      BY <1>1, LenProperties DEF Newest
    <2>2. \A i \in m .. Len(w) : w[i] \in Outcome
      BY <2>1, ElementOfSeq
    <2>3. /\ Newest(w, k) \in Seq(Outcome)
          /\ Len(Newest(w, k)) = k
          /\ \A i \in 1 .. k : Newest(w, k)[i] = w[m + i - 1]
      <3> HIDE DEF m
      <3>1. /\ SubSeq(w, m, Len(w)) \in Seq(Outcome)
            /\ Len(SubSeq(w, m, Len(w))) = IF m <= Len(w) THEN Len(w) - m + 1 ELSE 0
            /\ \A i \in 1 .. Len(w) - m + 1 : SubSeq(w, m, Len(w))[i] = w[m + i - 1]
        BY <2>1, <2>2, SubSeqProperties
      <3> QED
        BY <2>1, <3>1, <1>1 DEF m
    <2>4. \A i \in 1 .. k : m + i - 1 \in 1 .. Len(w)
      BY <2>1
    <2> QED
      BY <1>1, <2>3, <2>4
  <1>2. CASE ~(Len(w) > k)
    BY <1>2 DEF Newest
  <1> QED
    BY <1>1, <1>2

(* Recording an outcome that fits keeps a window that fits. *)
LEMMA RecordFits ==
    ASSUME CursorOK, SavedOK, NEW w, Fitting(w), Covers(w),
           NEW o \in Outcome, o.ok = o.cleared,
           NEW started, started = tau => o.at = tau
    PROVE  Fitting(Recorded(w, o, started)) /\ Covers(Recorded(w, o, started))
  <1>1. CASE started # tau
    BY <1>1 DEF Recorded
  <1>2. CASE started = tau
    <2> DEFINE a == Append(w, o)
               r == Newest(a, gate)
    <2>0. gate \in Nat \ {0}
      BY DEF CursorOK
    <2>1. /\ a \in Seq(Outcome) /\ Len(a) = Len(w) + 1 /\ Len(w) \in Nat
          /\ \A i \in 1 .. Len(w) : a[i] = w[i]
          /\ a[Len(w) + 1] = o
      BY AppendProperties, LenProperties DEF Fitting
    <2>2. \A j \in 1 .. Len(a) : a[j].at = tau /\ a[j].ok = a[j].cleared
      BY <1>2, <2>1 DEF Fitting
    <2> HIDE DEF a
    <2>3. /\ r \in Seq(Outcome)
          /\ Len(r) = IF Len(a) > gate THEN gate ELSE Len(a)
          /\ \A i \in 1 .. Len(r) : \E j \in 1 .. Len(a) : r[i] = a[j]
      BY <2>0, <2>1, NewestKeeps
    <2> HIDE DEF r
    <2>4. Fitting(r)
      BY <2>0, <2>1, <2>2, <2>3 DEF Fitting
    <2>5. Len(r) >= Len(w)
      BY <2>0, <2>1, <2>3 DEF Fitting
    <2>6. Len(Newest(saved.window, gate)) \in Nat
      BY <2>0, NewestKeeps, LenProperties DEF SavedOK
    <2>7. Covers(r)
      BY <2>1, <2>3, <2>5, <2>6 DEF Covers
    <2>8. Recorded(w, o, started) = r
      BY <1>2 DEF Recorded, r, a
    <2> QED
      BY <2>4, <2>7, <2>8
  <1> QED
    BY <1>1, <1>2

(* So does scoring an attempt. *)
LEMMA ScoreFits ==
    ASSUME CursorOK, SavedOK, EnvsTyped, ProvenanceOK, WindowOK, NEW e \in Envs,
           NEW ok \in BOOLEAN, NEW truncated \in BOOLEAN, NEW cleared \in BOOLEAN,
           src[e] = Window => ok = cleared
    PROVE  /\ Fitting(Score(window, e, ok, truncated, cleared))
           /\ Covers(Score(window, e, ok, truncated, cleared))
  <1> DEFINE o == [ok |-> ok, at |-> attempt[e].tau, cleared |-> cleared]
  <1>1. o \in Outcome
    BY DEF EnvsTyped, Outcome
  <1>2. CASE src[e] = Window
    <2>1. o.ok = o.cleared /\ (envTau[e] = tau => o.at = tau)
      BY <1>2 DEF ProvenanceOK
    <2> HIDE DEF o
    <2>2. Fitting(Recorded(window, o, envTau[e])) /\ Covers(Recorded(window, o, envTau[e]))
      BY <1>1, <2>1, RecordFits DEF WindowOK
    <2> QED
      BY <2>2 DEF Score, o, WindowOK
  <1>3. CASE src[e] # Window
    BY <1>3 DEF Score, WindowOK
  <1> QED
    BY <1>2, <1>3

(* The cursor only moves back on a full window, and starts an empty one.   *)
LEMMA AdvanceKeeps ==
    ASSUME CursorOK, SavedOK, NEW w, Fitting(w), Covers(w),
           MaybeAdvance(w), UNCHANGED saved
    PROVE  CursorOK' /\ WindowOK'
  <1>1. n \in Nat \ {0} /\ gate \in Nat \ {0} /\ tau \in Nat /\ saved.tau \in Nat
    BY DEF CursorOK, SavedOK, Taus
  <1>2. CASE Earned(w)
    <2>1. tau' = StepBack /\ window' = <<>> /\ n' = n /\ gate' = gate
      BY <1>2 DEF MaybeAdvance
    <2>2. tau > 0 /\ tau' \in Nat /\ tau' < tau
      BY <1>1, <1>2, <2>1 DEF Earned, StepBack
    <2>3. CursorOK'
      BY <1>1, <2>1, <2>2 DEF CursorOK, Taus
    <2>4. WindowOK'
      BY <1>1, <2>1, <2>2, EmptySeq DEF WindowOK, Fitting, Covers
    <2> QED
      BY <2>3, <2>4
  <1>3. CASE ~Earned(w)
    <2>1. tau' = tau /\ window' = w /\ n' = n /\ gate' = gate
      BY <1>3 DEF MaybeAdvance
    <2> QED
      BY <2>1 DEF CursorOK, WindowOK, Fitting, Covers, Newest
  <1> QED
    BY <1>2, <1>3

(* A rung's budget never exceeds the rollout. *)
LEMMA BudgetTyped ==
    ASSUME CursorOK, NEW pick \in Nat \cup {ENTRANCE}, pick < n
    PROVE  StepsFor(pick) \in 0 .. MaxSteps
  <1> DEFINE rung == IF pick = ENTRANCE THEN 0 ELSE pick
             q == (PerEntry * (n - rung)) \div Per
  <1>1. n - rung \in Nat
    BY DEF CursorOK, ENTRANCE
  <1>2. PerEntry * (n - rung) \in Nat
    BY <1>1
  <1>3. \A a \in Nat : a \div Per \in Nat
    OBVIOUS
  <1>4. q \in Nat
    BY <1>2, <1>3
  <1> HIDE DEF q
  <1>5. Base + q \in Nat
    BY <1>4
  <1> QED
    BY <1>5 DEF StepsFor, q

----------------------------------------------------------------------------
LEMMA TausAreNumbers == Taus \subseteq Nat /\ 0 \in Taus
  <1>1. PICK m : m \in Lengths
    OBVIOUS
  <1>2. m \in Nat \ {0}
    BY <1>1
  <1>3. 0 < m
    BY <1>2
  <1> QED
    BY <1>1, <1>3 DEF Taus

LEMMA InitIInv == Init => IInv
  <1> SUFFICES ASSUME Init PROVE IInv
    OBVIOUS
  <1>1. CursorOK
    <2>1. PICK m \in Lengths, g \in Gates : Fresh(m, g)
      BY DEF Init
    <2> QED
      BY <2>1 DEF Fresh, CursorOK, Taus
  <1>2. WindowOK
    <2>1. window = <<>> /\ saved = NoCursor /\ n # 0 /\ gate \in Nat
      BY <1>1 DEF Init, Fresh, CursorOK
    <2> QED
      BY <2>1, EmptySeq DEF WindowOK, Fitting, Covers, NoCursor
  <1>3. SavedOK
    BY EmptySeq, TausAreNumbers DEF Init, SavedOK, NoCursor
  <1>4. EnvsTyped /\ ProvenanceOK
    BY <1>1 DEF Init, EnvsTyped, ProvenanceOK, CursorOK, NoAttempt, NotOurs, Window, Entrance
  <1>5. PhaseOK
    <2>1. \A e \in Envs : len[e] = 0
      BY DEF Init
    <2>2. pc = "rollout" /\ t = 0 /\ at = 1 /\ loaded = FALSE /\ crashes = 0
      BY DEF Init
    <2>3. \A e \in Envs : len[e] <= Turns(e)
      <3>1. \A e \in Envs : ~(e < 1)
        BY DEF Envs
      <3> QED
        BY <2>1, <2>2, <3>1 DEF Turns
    <2>4. loaded \in BOOLEAN
      BY <2>2
    <2>5. t \in 0 .. MaxSteps /\ at \in 1 .. NumEnvs + 1 /\ t < MaxSteps /\ at <= NumEnvs
      BY <2>2
    <2>6. crashes \in 0 .. MaxCrashes
      BY <2>2
    <2> QED
      BY <2>1, <2>2, <2>3, <2>4, <2>5, <2>6, Zenon DEF PhaseOK
  <1> QED
    BY <1>1, <1>2, <1>3, <1>4, <1>5 DEF IInv

LEMMA RelaunchIInv == ASSUME IInv, Relaunch PROVE IInv'
  <1> USE DEF IInv
  <1>0. n' \in Lengths /\ gate' \in Gates /\ UNCHANGED saved
    BY DEF Relaunch
  <1>1. CursorOK'
    <2>1. CASE Restored(n')
      BY <1>0, <2>1 DEF Relaunch, Restored, CursorOK, SavedOK
    <2>2. CASE ~Restored(n')
      <3>1. tau' = n' - 1 /\ n' \in Nat \ {0}
        BY <1>0, <2>2 DEF Relaunch
      <3>2. \A k \in Nat \ {0} : k - 1 \in Nat /\ k - 1 < k
        OBVIOUS
      <3>3. tau' \in Nat /\ tau' < n'
        BY <3>1, <3>2
      <3> QED
        BY <1>0, <3>3 DEF CursorOK, Taus
    <2> QED
      BY <2>1, <2>2
  <1>2. WindowOK'
    <2>1. CASE Restored(n')
      <3>1. tau' = saved.tau /\ window' = Newest(saved.window, gate')
        BY <2>1 DEF Relaunch
      <3> DEFINE g == gate'
                 w == Newest(saved.window, g)
      <3>2. g \in Nat
        BY <1>0
      <3> HIDE DEF g
      <3>3. /\ w \in Seq(Outcome)
            /\ Len(w) = IF Len(saved.window) > g THEN g ELSE Len(saved.window)
            /\ \A i \in 1 .. Len(w) : \E j \in 1 .. Len(saved.window) : w[i] = saved.window[j]
        BY <3>2, NewestKeeps DEF SavedOK
      <3>4. Len(saved.window) \in Nat /\ saved.tau \in Nat
        BY LenProperties, TausAreNumbers DEF SavedOK
      <3> HIDE DEF w
      <3>5. ASSUME NEW i \in 1 .. Len(w)
            PROVE  w[i].at = saved.tau /\ w[i].ok = w[i].cleared
        <4>1. PICK j \in 1 .. Len(saved.window) : w[i] = saved.window[j]
          BY <3>3
        <4> QED
          BY <4>1 DEF SavedOK
      <3>6. Len(w) <= g /\ Len(w) >= Len(w)
        BY <3>2, <3>3, <3>4
      <3>7. Fitting(window)'
        BY <3>1, <3>3, <3>5, <3>6 DEF Fitting, w, g
      <3>8. Covers(window)'
        <4>1. tau' = saved'.tau /\ Len(window') >= Len(Newest(saved'.window, gate'))
          BY <1>0, <3>1, <3>6 DEF w, g
        <4>2. saved'.tau <= saved'.tau
          BY <1>0, <3>4
        <4> QED
          BY <4>1, <4>2 DEF Covers, Newest
      <3> QED
        BY <3>7, <3>8 DEF WindowOK
    <2>2. CASE ~Restored(n')
      BY <1>0, <2>2, EmptySeq DEF Relaunch, Restored, WindowOK, Fitting, Covers
    <2> QED
      BY <2>1, <2>2
  <1>3. SavedOK'
    BY <1>0 DEF SavedOK
  <1>4. EnvsTyped' /\ ProvenanceOK'
    BY <1>1 DEF Relaunch, EnvsTyped, ProvenanceOK, CursorOK, NoAttempt, NotOurs, Window, Entrance
  <1>5. PhaseOK'
    <2>1. \A e \in Envs : len'[e] = 0
      BY DEF Relaunch
    <2>2. pc' = "rollout" /\ t' = 0 /\ at' = 1 /\ loaded' = FALSE /\ crashes' \in 0 .. MaxCrashes
      BY DEF Relaunch, PhaseOK
    <2>3. \A e \in Envs : len'[e] <= Turns(e)'
      <3>1. \A e \in Envs : ~(e < 1)
        BY DEF Envs
      <3> QED
        BY <2>1, <2>2, <3>1 DEF Turns
    <2>4. loaded' \in BOOLEAN
      BY <2>2
    <2>5. t' \in 0 .. MaxSteps /\ at' \in 1 .. NumEnvs + 1 /\ t' < MaxSteps /\ at' <= NumEnvs
      BY <2>2
    <2>6. crashes' \in 0 .. MaxCrashes
      BY <2>2
    <2> QED
      BY <2>1, <2>2, <2>3, <2>4, <2>5, <2>6, Zenon DEF PhaseOK
  <1> QED
    BY <1>1, <1>2, <1>3, <1>4, <1>5

(* The loop over the environments: no episode outgrows the turns it had.   *)
LEMMA TurnsGrow ==
    ASSUME PhaseOK, EnvsTyped, NEW e \in Envs, pc = "rollout", at = e, NextEnv(e),
           \A d \in Envs : d # e => len'[d] = len[d],
           len'[e] \in Nat, len'[e] <= len[e] + 1
    PROVE  PhaseOK' /\ len'[e] <= MaxSteps
  <1>1. t \in Nat /\ t < MaxSteps /\ e \in 1 .. NumEnvs /\ \A d \in Envs : len[d] \in Nat
    BY DEF PhaseOK, Envs, EnvsTyped
  <1>2. len[e] <= t
    BY <1>1 DEF PhaseOK, Turns
  <1>3. CASE e < NumEnvs
    <2>1. at' = e + 1 /\ t' = t /\ pc' = "rollout"
      BY <1>1, <1>3 DEF NextEnv
    <2>2. \A d \in Envs : len'[d] <= Turns(d)'
      BY <1>1, <1>2, <2>1 DEF PhaseOK, Turns, Envs
    <2> QED
      BY <1>1, <1>2, <1>3, <2>1, <2>2 DEF PhaseOK, NextEnv, Envs
  <1>4. CASE e = NumEnvs
    <2>1. at' = 1 /\ t' = t + 1 /\ pc' \in {"score", "rollout"} /\ (pc' = "rollout" => t' < MaxSteps)
      BY <1>1, <1>4 DEF NextEnv
    <2>2. \A d \in Envs : len'[d] <= t'
      BY <1>1, <1>2, <1>4, <2>1 DEF PhaseOK, Turns, Envs
    <2> QED
      BY <1>1, <1>2, <2>1, <2>2 DEF PhaseOK, NextEnv, Turns, Envs
  <1> QED
    BY <1>1, <1>3, <1>4

LEMMA SkipIInv == ASSUME IInv, NEW e \in Envs, Skip(e) PROVE IInv'
  <1> USE DEF IInv
  <1>1. UNCHANGED <<sched, envs, saved>> /\ pc = "rollout" /\ at = e /\ NextEnv(e)
    BY DEF Skip, NextEnv
  <1>2. CursorOK' /\ WindowOK' /\ SavedOK'
    BY <1>1 DEF sched, CursorOK, WindowOK, SavedOK, Fitting, Covers, Newest
  <1>3. EnvsTyped' /\ ProvenanceOK'
    BY <1>1 DEF envs, EnvsTyped, ProvenanceOK
  <1>4. \A d \in Envs : len'[d] = len[d] /\ len[d] \in Nat
    BY <1>1 DEF envs, EnvsTyped
  <1>5. PhaseOK'
    BY <1>1, <1>4, TurnsGrow
  <1> QED
    BY <1>2, <1>3, <1>5

LEMMA LiveIInv ==
    ASSUME IInv, NEW e \in Envs, NEW flag \in BOOLEAN, Live(e, flag) PROVE IInv'
  <1> USE DEF IInv
  <1>1. /\ UNCHANGED <<sched, src, envTau, budget, active, torn, saved>>
        /\ pc = "rollout" /\ at = e /\ NextEnv(e)
        /\ len' = [len EXCEPT ![e] = @ + 1]
        /\ clear' = [clear EXCEPT ![e] = @ \/ flag]
        /\ attempt' = [attempt EXCEPT ![e].cleared = @ \/ flag]
        /\ foreign' = [foreign EXCEPT ![e] = IF @ > 0 THEN @ - 1 ELSE 0]
    BY DEF Live, NextEnv
  <1>2. CursorOK' /\ WindowOK' /\ SavedOK'
    BY <1>1 DEF sched, CursorOK, WindowOK, SavedOK, Fitting, Covers, Newest
  <1>3. PhaseOK' /\ len'[e] <= MaxSteps
    <2>1. /\ \A d \in Envs : d # e => len'[d] = len[d]
          /\ len'[e] \in Nat /\ len'[e] <= len[e] + 1
      BY <1>1 DEF EnvsTyped
    <2> QED
      BY <1>1, <2>1, TurnsGrow
  <1>4. EnvsTyped'
    <2>1. len' \in [Envs -> 0 .. MaxSteps]
      BY <1>1, <1>3 DEF EnvsTyped
    <2>2. foreign' \in [Envs -> 0 .. Depth]
      BY <1>1 DEF EnvsTyped
    <2>3. clear' \in [Envs -> BOOLEAN]
      BY <1>1, Zenon DEF EnvsTyped
    <2>4. attempt' \in [Envs -> [tau : Taus \cup {-1}, cleared : BOOLEAN]]
      BY <1>1 DEF EnvsTyped
    <2> QED
      BY <1>1, <2>1, <2>2, <2>3, <2>4 DEF EnvsTyped
  <1>5. ProvenanceOK'
    BY <1>1 DEF ProvenanceOK, EnvsTyped
  <1> QED
    BY <1>2, <1>3, <1>4, <1>5

(* What closing an attempt and drawing the next one leave, whether the     *)
(* draw can be loaded or not.                                              *)
LEMMA ClosesKeeps ==
    ASSUME IInv, NEW e \in Envs, NEW over \in BOOLEAN, NEW flag \in BOOLEAN,
           NEW pick, pick \in Picks(tau'),
           pc = "rollout", at = e, NextEnv(e), Closes(e, over, flag), Provenance(e, pick)
    PROVE  /\ CursorOK' /\ WindowOK' /\ SavedOK' /\ PhaseOK'
           /\ len' \in [Envs -> 0 .. MaxSteps]
           /\ clear' = [clear EXCEPT ![e] = FALSE]
           /\ envTau' = [envTau EXCEPT ![e] = tau']
           /\ tau' \in Taus
           /\ envTau' \in [Envs -> Taus] /\ budget' \in [Envs -> 0 .. MaxSteps]
  <1> USE DEF IInv
  <1> DEFINE ok == clear[e] \/ flag
             cleared == attempt[e].cleared \/ flag
             truncated == ~over
             w == Score(window, e, ok, truncated, cleared)
  <1>1. UNCHANGED saved
    BY DEF NextEnv
  <1>2. Fitting(w) /\ Covers(w)
    <2>1. ok \in BOOLEAN /\ truncated \in BOOLEAN /\ cleared \in BOOLEAN
      BY DEF EnvsTyped
    <2>2. src[e] = Window => ok = cleared
      BY DEF ProvenanceOK
    <2> HIDE DEF ok, cleared, truncated
    <2> QED
      BY <2>1, <2>2, ScoreFits
  <1>3. MaybeAdvance(w)
    BY DEF Closes
  <1> HIDE DEF w
  <1>4. CursorOK' /\ WindowOK' /\ n' = n
    BY <1>1, <1>2, <1>3, AdvanceKeeps DEF MaybeAdvance
  <1>5. SavedOK'
    BY <1>1 DEF SavedOK
  <1>6. len' = [len EXCEPT ![e] = 0] /\ clear' = [clear EXCEPT ![e] = FALSE]
    BY DEF Closes
  <1>7. PhaseOK'
    <2>1. /\ \A d \in Envs : d # e => len'[d] = len[d]
          /\ len'[e] \in Nat /\ len'[e] <= len[e] + 1
      BY <1>6 DEF EnvsTyped
    <2> QED
      BY <2>1, TurnsGrow
  <1>8. budget' \in [Envs -> 0 .. MaxSteps]
    <2> DEFINE c == tau'
    <2>1. c \in Nat /\ c < n /\ n \in Nat
      BY <1>4, TausAreNumbers DEF CursorOK
    <2>2. pick \in Picks(c)
      OBVIOUS
    <2> HIDE DEF c
    <2>3. pick \in Nat \cup {ENTRANCE} /\ pick < n
      BY <2>1, <2>2 DEF Picks, StartWindow, ENTRANCE
    <2>4. StepsFor(pick) \in 0 .. MaxSteps
      BY <2>3, BudgetTyped
    <2> QED
      BY <2>4 DEF Provenance, EnvsTyped
  <1>9. tau' \in Taus /\ envTau' = [envTau EXCEPT ![e] = tau'] /\ envTau' \in [Envs -> Taus]
    BY <1>4 DEF Provenance, EnvsTyped, CursorOK
  <1>10. len' \in [Envs -> 0 .. MaxSteps]
    BY <1>6 DEF EnvsTyped
  <1> QED
    BY <1>4, <1>5, <1>6, <1>7, <1>8, <1>9, <1>10

LEMMA EndsIInv == ASSUME IInv, NEW e \in Envs, Ends(e) PROVE IInv'
  <1> USE DEF IInv
  <1>1. PICK over, flag, pick :
            /\ over \in BOOLEAN /\ flag \in BOOLEAN
            /\ Restart(e, over, flag, pick) \/ Freeze(e, over, flag, pick)
            /\ pick \in Picks(tau')
    BY DEF Ends
  <1>2. pc = "rollout" /\ at = e
    BY DEF Ends
  <1>3. Closes(e, over, flag) /\ Provenance(e, pick) /\ NextEnv(e)
    BY <1>1 DEF Restart, Freeze
  <1>4. /\ CursorOK' /\ WindowOK' /\ SavedOK' /\ PhaseOK'
        /\ len' \in [Envs -> 0 .. MaxSteps]
        /\ clear' = [clear EXCEPT ![e] = FALSE]
        /\ envTau' = [envTau EXCEPT ![e] = tau']
        /\ tau' \in Taus
        /\ envTau' \in [Envs -> Taus] /\ budget' \in [Envs -> 0 .. MaxSteps]
    BY <1>1, <1>2, <1>3, ClosesKeeps
  <1>5. clear' \in [Envs -> BOOLEAN]
    BY <1>4, Zenon DEF EnvsTyped
  <1>6. CASE Restart(e, over, flag, pick)
    <2>1. /\ src' = [src EXCEPT ![e] = IF pick = ENTRANCE THEN Entrance ELSE Window]
          /\ attempt' = [attempt EXCEPT ![e] = [tau |-> tau', cleared |-> FALSE]]
          /\ foreign' = [foreign EXCEPT ![e] = Depth]
          /\ torn' = [torn EXCEPT ![e] = FALSE]
          /\ UNCHANGED active
      BY <1>6 DEF Restart
    <2>2. torn' \in [Envs -> BOOLEAN]
      BY <2>1, Zenon DEF EnvsTyped
    <2>3. EnvsTyped'
      BY <1>4, <1>5, <2>1, <2>2 DEF EnvsTyped
    <2>4. ProvenanceOK'
      BY <1>4, <2>1 DEF ProvenanceOK, EnvsTyped
    <2> QED
      BY <1>4, <2>3, <2>4
  <1>7. CASE Freeze(e, over, flag, pick)
    <2>1. /\ src' = [src EXCEPT ![e] = NotOurs]
          /\ attempt' = [attempt EXCEPT ![e] = NoAttempt]
          /\ active' = [active EXCEPT ![e] = FALSE]
          /\ UNCHANGED <<foreign, torn>>
      BY <1>7 DEF Freeze
    <2>2. active' \in [Envs -> BOOLEAN]
      BY <2>1, Zenon DEF EnvsTyped
    <2>3. attempt' \in [Envs -> [tau : Taus \cup {-1}, cleared : BOOLEAN]]
      BY <2>1 DEF EnvsTyped, NoAttempt
    <2>4. EnvsTyped'
      BY <1>4, <1>5, <2>1, <2>2, <2>3 DEF EnvsTyped
    <2>5. ProvenanceOK'
      <3>1. src'[e] # Window
        BY <2>1 DEF EnvsTyped, NotOurs, Window
      <3>2. \A d \in Envs : d # e => /\ src'[d] = src[d] /\ clear'[d] = clear[d]
                                    /\ attempt'[d] = attempt[d] /\ envTau'[d] = envTau[d]
        BY <1>4, <2>1 DEF EnvsTyped
      <3> QED
        BY <3>1, <3>2 DEF ProvenanceOK
    <2> QED
      BY <1>4, <2>4, <2>5
  <1> QED
    BY <1>1, <1>6, <1>7

LEMMA ScoreRunningIInv == ASSUME IInv, NEW e \in Envs, ScoreRunning(e) PROVE IInv'
  <1> USE DEF IInv
  <1>1. /\ UNCHANGED <<n, gate, tau, envs, pc, t, loaded, saved, crashes>>
        /\ pc = "score" /\ at = e /\ at' = e + 1
        /\ window' = Score(window, e, clear[e], ~clear[e], attempt[e].cleared)
    BY DEF ScoreRunning
  <1>2. Fitting(window') /\ Covers(window')
    <2> DEFINE ok == clear[e]
               cleared == attempt[e].cleared
               truncated == ~clear[e]
    <2>1. ok \in BOOLEAN /\ truncated \in BOOLEAN /\ cleared \in BOOLEAN
      BY DEF EnvsTyped
    <2>2. src[e] = Window => ok = cleared
      BY DEF ProvenanceOK
    <2>3. window' = Score(window, e, ok, truncated, cleared)
      BY <1>1
    <2> HIDE DEF ok, cleared, truncated
    <2> QED
      BY <2>1, <2>2, <2>3, ScoreFits
  <1>3. CursorOK' /\ SavedOK' /\ EnvsTyped' /\ ProvenanceOK'
    BY <1>1 DEF envs, CursorOK, SavedOK, EnvsTyped, ProvenanceOK
  <1>4. WindowOK'
    BY <1>1, <1>2 DEF WindowOK, Fitting, Covers, Newest
  <1>5. PhaseOK'
    <2>1. at' \in 1 .. NumEnvs + 1
      BY <1>1 DEF Envs
    <2> QED
      BY <1>1, <2>1 DEF PhaseOK, envs
  <1> QED
    BY <1>3, <1>4, <1>5

LEMMA CloseScoresIInv == ASSUME IInv, CloseScores PROVE IInv'
  <1> USE DEF IInv
  <1>1. CursorOK' /\ WindowOK'
    BY AdvanceKeeps DEF CloseScores, WindowOK
  <1>2. SavedOK'
    BY DEF CloseScores, SavedOK
  <1>3. EnvsTyped' /\ ProvenanceOK'
    BY DEF CloseScores, EnvsTyped, ProvenanceOK, NoAttempt, NotOurs, Window
  <1>4. PhaseOK'
    <2>1. \A e \in Envs : len'[e] = 0 /\ clear'[e] = FALSE
      BY DEF CloseScores
    <2>2. /\ pc' = "draw" /\ at' \in 1 .. NumEnvs + 1 /\ t' \in 0 .. MaxSteps
          /\ crashes' \in 0 .. MaxCrashes
      BY DEF CloseScores, PhaseOK
    <2>3. loaded' \in BOOLEAN
      BY DEF CloseScores
    <2> QED
      BY <2>1, <2>2, <2>3, Zenon DEF PhaseOK
  <1> QED
    BY <1>1, <1>2, <1>3, <1>4

(* The three draws differ in what they load. *)
LEMMA DrawIInv ==
    ASSUME IInv, NEW e \in Envs, NEW pick \in StartWindow(tau) \cup {ENTRANCE},
           NEW source \in {Entrance, Window}, DrawsFrom(e, pick, source),
           torn' \in [Envs -> BOOLEAN], loaded' \in BOOLEAN
    PROVE  IInv'
  <1> USE DEF IInv
  <1>1. /\ pc = "draw" /\ at = e /\ at' = e + 1
        /\ UNCHANGED <<sched, clear, len, active, foreign, pc, t, saved, crashes>>
        /\ src' = [src EXCEPT ![e] = source]
        /\ envTau' = [envTau EXCEPT ![e] = tau]
        /\ budget' = [budget EXCEPT ![e] = StepsFor(pick)]
        /\ attempt' = [attempt EXCEPT ![e] = [tau |-> tau, cleared |-> FALSE]]
    BY DEF DrawsFrom
  <1>2. CursorOK' /\ WindowOK' /\ SavedOK'
    BY <1>1 DEF sched, CursorOK, WindowOK, SavedOK, Fitting, Covers, Newest
  <1>3. PhaseOK'
    <2>1. at' \in 1 .. NumEnvs + 1
      BY <1>1 DEF Envs
    <2> QED
      BY <1>1, <2>1 DEF PhaseOK
  <1>4. EnvsTyped'
    <2>1. n \in Nat /\ tau \in Nat /\ tau < n
      BY TausAreNumbers DEF CursorOK
    <2>2. pick \in Nat \cup {ENTRANCE} /\ pick < n
      BY <2>1 DEF StartWindow, ENTRANCE
    <2>3. StepsFor(pick) \in 0 .. MaxSteps
      BY <2>2, BudgetTyped
    <2> QED
      BY <1>1, <2>3 DEF EnvsTyped, CursorOK
  <1>5. ProvenanceOK'
    <2>1. clear[e] = FALSE
      BY <1>1 DEF PhaseOK, EnvsTyped
    <2> QED
      BY <1>1, <2>1 DEF ProvenanceOK, EnvsTyped
  <1> QED
    BY <1>2, <1>3, <1>4, <1>5

LEMMA BeginRolloutIInv == ASSUME IInv, BeginRollout PROVE IInv'
  <1> USE DEF IInv
  <1>1. /\ UNCHANGED <<sched, src, envTau, budget, clear, len, active, torn, attempt,
                       loaded, crashes>>
        /\ pc = "draw" /\ pc' = "rollout" /\ t' = 0 /\ at' = 1
        /\ saved' \in {saved, [n |-> n, tau |-> tau, window |-> window]}
        /\ foreign' = [e \in Envs |-> IF torn[e] /\ ~loaded THEN Depth ELSE 0]
    BY DEF BeginRollout
  <1>2. CursorOK' /\ EnvsTyped' /\ ProvenanceOK'
    BY <1>1 DEF sched, CursorOK, EnvsTyped, ProvenanceOK
  <1>3. PhaseOK'
    <2>1. \A e \in Envs : len'[e] = 0
      BY <1>1 DEF PhaseOK
    <2>2. \A e \in Envs : len'[e] <= Turns(e)'
      <3>1. \A e \in Envs : ~(e < 1)
        BY DEF Envs
      <3> QED
        BY <1>1, <2>1, <3>1 DEF Turns
    <2>3. t' \in 0 .. MaxSteps /\ at' \in 1 .. NumEnvs + 1 /\ t' < MaxSteps /\ at' <= NumEnvs
      BY <1>1
    <2> QED
      BY <1>1, <2>1, <2>2, <2>3 DEF PhaseOK
  <1>4. SavedOK' /\ WindowOK'
    <2>1. CASE saved' = saved
      BY <1>1, <2>1 DEF sched, SavedOK, WindowOK, Fitting, Covers, Newest
    <2>2. CASE saved' = [n |-> n, tau |-> tau, window |-> window]
      <3>1. /\ saved'.n = n /\ saved'.tau = tau /\ saved'.window = window
            /\ n' = n /\ tau' = tau /\ window' = window /\ gate' = gate
        BY <1>1, <2>2 DEF sched
      <3>2. SavedOK'
        BY <3>1 DEF SavedOK, CursorOK, WindowOK, Fitting
      <3>3. tau \in Nat /\ gate \in Nat /\ Len(window) \in Nat
        BY TausAreNumbers, LenProperties DEF CursorOK, WindowOK, Fitting
      <3>4. Newest(window, gate) = window
        BY <3>3 DEF Newest, WindowOK, Fitting
      <3>5. Covers(window)'
        <4>1. Newest(saved'.window, gate') = window
          BY <3>1, <3>4
        <4>2. saved'.n = n' => /\ tau' <= saved'.tau
                               /\ Len(window') >= Len(window)
          BY <3>1, <3>3
        <4> QED
          BY <4>1, <4>2 DEF Covers, Newest
      <3> QED
        BY <3>1, <3>2, <3>5 DEF WindowOK, Fitting
    <2> QED
      BY <1>1, <2>1, <2>2
  <1> QED
    BY <1>2, <1>3, <1>4

LEMMA StepIInv == IInv /\ [Next]_vars => IInv'
  <1> SUFFICES ASSUME IInv, [Next]_vars PROVE IInv'
    OBVIOUS
  <1>1. ASSUME NEW e \in Envs, Skip(e) \/ Ends(e) PROVE IInv'
    BY <1>1, SkipIInv, EndsIInv
  <1>2. ASSUME NEW e \in Envs, NEW flag \in BOOLEAN, Live(e, flag) PROVE IInv'
    BY <1>2, LiveIInv
  <1>3. ASSUME NEW e \in Envs, ScoreRunning(e) PROVE IInv'
    BY <1>3, ScoreRunningIInv
  <1>4. ASSUME NEW e \in Envs, DrawEntry(e) PROVE IInv'
    <2>1. PICK pick \in StartWindow(tau) : DrawsFrom(e, pick, Window)
      BY <1>4 DEF DrawEntry
    <2>2. torn' \in [Envs -> BOOLEAN] /\ loaded' \in BOOLEAN
      BY <1>4 DEF DrawEntry, IInv, EnvsTyped
    <2> QED
      BY <2>1, <2>2, DrawIInv
  <1>5. ASSUME NEW e \in Envs, DrawEntrance(e) PROVE IInv'
    BY <1>5, DrawIInv DEF DrawEntrance, IInv, EnvsTyped, PhaseOK
  <1>6. ASSUME NEW e \in Envs, DrawFails(e) PROVE IInv'
    <2>1. PICK half \in BOOLEAN : torn' = [torn EXCEPT ![e] = half]
      BY <1>6 DEF DrawFails
    <2>2. torn' \in [Envs -> BOOLEAN]
      BY <2>1, Zenon DEF IInv, EnvsTyped
    <2> QED
      BY <1>6, <2>2, DrawIInv DEF DrawFails, IInv, PhaseOK
  <1>7. CASE CloseScores
    BY <1>7, CloseScoresIInv
  <1>8. CASE BeginRollout
    BY <1>8, BeginRolloutIInv
  <1>9. CASE Relaunch
    BY <1>9, RelaunchIInv
  <1>10. CASE UNCHANGED vars
    BY <1>10 DEF vars, sched, envs, IInv, CursorOK, WindowOK, SavedOK, EnvsTyped, PhaseOK,
       ProvenanceOK, Fitting, Covers, Newest, Turns
  <1> QED
    BY <1>1, <1>2, <1>3, <1>4, <1>5, <1>6, <1>7, <1>8, <1>9, <1>10 DEF Next, TrainerStep

(* Type correctness of the scheduler, the episodes and the loop's phases.  *)
THEOREM TypeCorrect == Spec => []TypeOK
  <1>1. IInv => TypeOK
    BY DEF IInv, TypeOK, CursorOK, WindowOK, SavedOK, EnvsTyped, PhaseOK, Fitting
  <1> QED
    BY <1>1, InitIInv, StepIInv, PTL DEF Spec

(* Every outcome in the window is of an attempt restarted under the cursor *)
(* the window judges, whichever restarts failed and whenever tau moved.    *)
THEOREM RungIsJudgedByItsOwn == Spec => []EvidenceIsCurrent
  <1>1. IInv => EvidenceIsCurrent
    BY DEF IInv, WindowOK, Fitting, EvidenceIsCurrent
  <1> QED
    BY <1>1, InitIInv, StepIInv, PTL DEF Spec

(* Every outcome in the window is what its own attempt came to. *)
THEOREM OutcomesAreTheirOwn == Spec => []OutcomeIsOfTheAttempt
  <1>1. IInv => OutcomeIsOfTheAttempt
    BY DEF IInv, WindowOK, Fitting, OutcomeIsOfTheAttempt
  <1> QED
    BY <1>1, InitIInv, StepIInv, PTL DEF Spec

(* Both together: a rung is judged by its own attempts' own outcomes.      *)
THEOREM JudgementIsSound == Spec => []EvidenceIsSound
  BY RungIsJudgedByItsOwn, OutcomesAreTheirOwn, PTL DEF EvidenceIsSound

(* While the tape is the checkpoint's, the trainer is never behind it.     *)
THEOREM ProgressIsKept == Spec => []ResumeKeepsProgress
  <1>1. IInv => ResumeKeepsProgress
    BY DEF IInv, WindowOK, Covers, ResumeKeepsProgress
  <1> QED
    BY <1>1, InitIInv, StepIInv, PTL DEF Spec

----------------------------------------------------------------------------
(* One turn of environment e is one more turn for e and none for another.  *)
LEMMA TurnsCount ==
    ASSUME PhaseOK, NEW e \in Envs, pc = "rollout", at = e, NextEnv(e), pc' = "rollout"
    PROVE  /\ Turns(e) = t /\ Turns(e)' = t + 1 /\ t \in Nat
           /\ \A d \in Envs : d # e => Turns(d)' = Turns(d)
  <1>1. t \in Nat /\ e \in 1 .. NumEnvs
    BY DEF PhaseOK, Envs
  <1>2. CASE e < NumEnvs
    BY <1>1, <1>2 DEF NextEnv, Turns, Envs
  <1>3. CASE e = NumEnvs
    BY <1>1, <1>3 DEF NextEnv, Turns, Envs
  <1> QED
    BY <1>1, <1>2, <1>3

LEMMA StepRecovers ==
    IInv /\ ObservationRecovers /\ [Next]_vars => ObservationRecovers'
  <1> SUFFICES ASSUME IInv, ObservationRecovers, [Next]_vars,
                      NEW d \in Envs, pc' = "rollout", active'[d], ~torn'[d]
               PROVE  foreign'[d] <= IF len'[d] = Turns(d)' \/ len'[d] >= Depth
                                     THEN 0 ELSE Depth - len'[d]
    BY DEF ObservationRecovers
  <1> DEFINE Good == foreign'[d] <= IF len'[d] = Turns(d)' \/ len'[d] >= Depth
                                    THEN 0 ELSE Depth - len'[d]
  <1>0. /\ len[d] \in Nat /\ foreign[d] \in Nat /\ PhaseOK
        /\ d \in Nat \ {0}
    BY DEF IInv, EnvsTyped, Envs
  <1>1. ASSUME pc = "rollout", UNCHANGED <<len[d], foreign[d], active[d], torn[d]>>,
               Turns(d)' = Turns(d)
        PROVE  Good
    BY <1>1 DEF ObservationRecovers
  <1>2. ASSUME NEW e \in Envs, Skip(e) PROVE Good
    <2>1. pc = "rollout" /\ at = e /\ NextEnv(e) /\ ~active[e] /\ UNCHANGED envs
      BY <1>2 DEF Skip
    <2>2. d # e
      BY <2>1 DEF envs
    <2> QED
      BY <1>0, <1>1, <2>1, <2>2, TurnsCount DEF envs
  <1>3. ASSUME NEW e \in Envs, NEW flag \in BOOLEAN, Live(e, flag) PROVE Good
    <2>1. /\ pc = "rollout" /\ at = e /\ NextEnv(e)
          /\ len' = [len EXCEPT ![e] = @ + 1]
          /\ foreign' = [foreign EXCEPT ![e] = IF @ > 0 THEN @ - 1 ELSE 0]
          /\ UNCHANGED <<active, torn>>
      BY <1>3 DEF Live
    <2>2. CASE d # e
      BY <1>0, <1>1, <2>1, <2>2, TurnsCount DEF IInv, EnvsTyped
    <2>3. CASE d = e
      <3>1. Turns(d) = t /\ Turns(d)' = t + 1 /\ t \in Nat
        BY <1>0, <2>1, <2>3, TurnsCount
      <3>2. /\ len'[d] = len[d] + 1
            /\ foreign'[d] = IF foreign[d] > 0 THEN foreign[d] - 1 ELSE 0
        BY <2>1, <2>3 DEF IInv, EnvsTyped
      <3>3. foreign[d] <= IF len[d] = t \/ len[d] >= Depth THEN 0 ELSE Depth - len[d]
        BY <2>1, <3>1 DEF ObservationRecovers
      <3> QED
        BY <1>0, <3>1, <3>2, <3>3
    <2> QED
      BY <2>2, <2>3
  <1>4. ASSUME NEW e \in Envs, Ends(e) PROVE Good
    <2>1. PICK over, flag, pick :
              Restart(e, over, flag, pick) \/ Freeze(e, over, flag, pick)
      BY <1>4 DEF Ends
    <2>2. pc = "rollout" /\ at = e /\ NextEnv(e) /\ len' = [len EXCEPT ![e] = 0]
      BY <1>4, <2>1 DEF Ends, Restart, Freeze, Closes
    <2>3. CASE d # e
      BY <1>0, <1>1, <2>1, <2>2, <2>3, TurnsCount DEF IInv, EnvsTyped, Restart, Freeze
    <2>4. CASE d = e
      <3>1. foreign' = [foreign EXCEPT ![e] = Depth]
        BY <2>1, <2>4 DEF Restart, Freeze, IInv, EnvsTyped
      <3>2. foreign'[d] = Depth /\ len'[d] = 0
        BY <2>2, <2>4, <3>1 DEF IInv, EnvsTyped
      <3>3. Turns(d)' = t + 1 /\ t \in Nat
        BY <1>0, <2>2, <2>4, TurnsCount
      <3> QED
        BY <3>2, <3>3
    <2> QED
      BY <2>3, <2>4
  <1>5. CASE BeginRollout
    <2>1. foreign'[d] = 0 /\ torn' = torn
      BY <1>5 DEF BeginRollout
    <2>2. len'[d] = 0
      BY <1>5 DEF BeginRollout, IInv, PhaseOK
    <2> QED
      BY <2>1, <2>2
  <1>6. CASE Relaunch
    BY <1>6, <1>0 DEF Relaunch
  <1>7. ASSUME NEW e \in Envs, ScoreRunning(e) \/ DrawEntry(e) \/ DrawEntrance(e) \/ DrawFails(e)
        PROVE  Good
    BY <1>7 DEF ScoreRunning, DrawEntry, DrawEntrance, DrawFails, DrawsFrom
  <1>8. CASE CloseScores
    BY <1>8 DEF CloseScores
  <1>9. CASE UNCHANGED vars
    BY <1>1, <1>9 DEF vars, envs, Turns
  <1> QED
    BY <1>2, <1>3, <1>4, <1>5, <1>6, <1>7, <1>8, <1>9 DEF Next, TrainerStep

(* The policy sees the episode it plays, at the latest once the stack is   *)
(* full of it.                                                             *)
THEOREM StackSettles == Spec => []ObservationRecovers
  <1>1. Init => ObservationRecovers
    BY DEF Init, ObservationRecovers
  <1> QED
    BY <1>1, InitIInv, StepIInv, StepRecovers, PTL DEF Spec
=============================================================================

------------------------- MODULE SmbCurriculumProof -------------------------
(***************************************************************************)
(* Proofs about SmbCurriculum, for every number of levels, every window,   *)
(* save interval and bound.                                                *)
(***************************************************************************)
EXTENDS SmbCurriculum, SequenceTheorems, TLAPS

USE LevelAssumption, WindowAssumption, GrainAssumption DEF Stages, Levels

Active == pc \in {"rollout", "state", "meta", "end"}

(* The advance is under way only with a capture to promote and a stage     *)
(* left to promote it to, and only in a run; a saved window is a window.    *)
AdvanceIsArmed ==
    /\ Len(ckpt) <= Window
    /\ pc \in {"state", "meta"} => pending # 0
    /\ pc = "meta" => Stage < MaxLevel
    /\ pc # "down" => run # 0

TypeInv == TypeOK /\ AdvanceIsArmed

LEMMA StageIsLen == ASSUME TypeOK PROVE Stage \in Nat /\ DOMAIN chain = 1 .. Stage
  BY LenProperties DEF TypeOK, Stage

(* Push keeps a window a window: its last entry is the new one, the others *)
(* are entries it had.                                                     *)
LEMMA PushProperties ==
    ASSUME NEW w \in Seq(Entry), Len(w) <= Window, NEW e \in Entry
    PROVE  /\ Push(w, e) \in Seq(Entry)
           /\ Len(Push(w, e)) <= Window
           /\ \A i \in DOMAIN Push(w, e) :
                 Push(w, e)[i] = e \/ \E j \in DOMAIN w : Push(w, e)[i] = w[j]
  <1>0. Len(w) \in Nat /\ DOMAIN w = 1 .. Len(w)
    BY LenProperties
  <1>1. CASE Len(w) < Window
    <2>1. Push(w, e) = Append(w, e)
      BY <1>1 DEF Push
    <2>2. /\ Append(w, e) \in Seq(Entry)
          /\ Len(Append(w, e)) = Len(w) + 1
          /\ DOMAIN Append(w, e) = 1 .. Len(w) + 1
          /\ \A i \in 1 .. Len(w) : Append(w, e)[i] = w[i]
          /\ Append(w, e)[Len(w) + 1] = e
      BY <1>0, AppendProperties, LenProperties
    <2> QED
      BY <1>0, <1>1, <2>1, <2>2
  <1>2. CASE Len(w) = Window
    <2>1. w # << >>
      BY <1>0, <1>2
    <2>2. /\ Tail(w) \in Seq(Entry)
          /\ Len(Tail(w)) = Len(w) - 1
          /\ \A i \in 1 .. Len(w) - 1 : Tail(w)[i] = w[i + 1]
      BY <2>1, HeadTailProperties
    <2> DEFINE t == Tail(w)
    <2>3. /\ Append(t, e) \in Seq(Entry)
          /\ Len(Append(t, e)) = Len(w)
          /\ DOMAIN Append(t, e) = 1 .. Len(w)
          /\ \A i \in 1 .. Len(w) - 1 : Append(t, e)[i] = t[i]
          /\ Append(t, e)[Len(w)] = e
      BY <1>0, <2>2, AppendProperties, LenProperties
    <2>4. Push(w, e) = Append(t, e)
      BY <1>2 DEF Push
    <2>5. ASSUME NEW i \in DOMAIN Append(t, e)
          PROVE  Append(t, e)[i] = e \/ \E j \in DOMAIN w : Append(t, e)[i] = w[j]
      <3>1. CASE i = Len(w)
        BY <3>1, <2>3
      <3>2. CASE i # Len(w)
        <4>1. i \in 1 .. Len(w) - 1 /\ i + 1 \in DOMAIN w
          BY <1>0, <2>3, <3>2
        <4> QED
          BY <4>1, <2>2, <2>3
      <3> QED
        BY <3>1, <3>2
    <2> HIDE DEF t
    <2>6. Len(Push(w, e)) <= Window
      BY <1>2, <2>3, <2>4
    <2> QED
      BY <2>3, <2>4, <2>5, <2>6
  <1>3. Len(w) < Window \/ Len(w) = Window
    <2>1. Len(w) \in Int /\ Window \in Int
      BY <1>0
    <2> QED
      BY <2>1
  <1> QED
    BY <1>1, <1>2, <1>3

(* The chain after a stage was loaded.                                     *)
LEMMA LoadedChain ==
    ASSUME TypeOK, LoadStage
    PROVE  /\ Stage + 1 \in Stages /\ metas[Stage + 1] \in Levels
           /\ chain' \in Seq(LoadedStage)
           /\ Stage' = Stage + 1
           /\ \A n \in 1 .. Stage : chain'[n] = chain[n]
           /\ chain'[Stage + 1].level = states[Stage + 1].level
           /\ chain'[Stage + 1].anchor = metas[Stage + 1]
  <1>1. Stage \in Nat /\ Stage + 1 \in Stages
    BY StageIsLen DEF LoadStage
  <1>2. states[Stage + 1] \in SavedState /\ metas[Stage + 1] \in Levels
    BY <1>1 DEF TypeOK, LoadStage, Torn
  <1> DEFINE new == [level |-> states[Stage + 1].level, run |-> states[Stage + 1].run,
                     anchor |-> metas[Stage + 1]]
  <1>3. /\ new \in LoadedStage
        /\ new.level = states[Stage + 1].level /\ new.anchor = metas[Stage + 1]
    BY <1>2 DEF LoadedStage, SavedState
  <1>4. chain' = Append(chain, new) /\ chain \in Seq(LoadedStage)
    BY DEF LoadStage, TypeOK
  <1> HIDE DEF new
  <1>5. /\ Append(chain, new) \in Seq(LoadedStage)
        /\ Len(Append(chain, new)) = Len(chain) + 1
        /\ \A n \in 1 .. Len(chain) : Append(chain, new)[n] = chain[n]
        /\ Append(chain, new)[Len(chain) + 1] = new
    BY <1>3, <1>4, AppendProperties
  <1> QED
    BY <1>1, <1>2, <1>3, <1>4, <1>5 DEF Stage

(* Writing a sidecar back changes nothing but that sidecar.                *)
LEMMA BackfilledFile ==
    ASSUME TypeOK, Backfill \/ TearSidecar
    PROVE  /\ Stage + 1 \in Stages
           /\ states[Stage + 1] \in SavedState
           /\ metas' \in [Stages -> Torn .. MaxLevel]
           /\ \A n \in Stages : n # Stage + 1 => metas'[n] = metas[n]
           /\ metas[Stage + 1] = 0
           /\ metas'[Stage + 1] \in {Torn, states[Stage + 1].level}
  <1>1. /\ Stage + 1 \in Stages /\ states[Stage + 1] # NoState
        /\ metas[Stage + 1] = 0
    BY StageIsLen DEF Backfill, TearSidecar, LacksSidecar
  <1>2. states[Stage + 1] \in SavedState /\ states[Stage + 1].level \in Levels
    BY <1>1 DEF TypeOK, SavedState
  <1>3. \/ metas' = [metas EXCEPT ![Stage + 1] = states[Stage + 1].level]
        \/ metas' = [metas EXCEPT ![Stage + 1] = Torn]
    BY DEF Backfill, TearSidecar
  <1>4. Torn \in Torn .. MaxLevel /\ Levels \subseteq Torn .. MaxLevel
    BY DEF Torn
  <1> QED
    BY <1>1, <1>2, <1>3, <1>4 DEF TypeOK

(* The chain after an advance.                                             *)
LEMMA AdvancedChain ==
    ASSUME TypeInv, pc = "meta", WriteMeta
    PROVE  /\ chain' \in Seq(LoadedStage)
           /\ Stage' = Stage + 1
           /\ \A n \in 1 .. Stage : chain'[n] = chain[n]
           /\ chain'[Stage + 1] = [anchor |-> pending, level |-> pending, run |-> run]
  <1> DEFINE new == [anchor |-> pending, level |-> pending, run |-> run]
  <1>1. new \in LoadedStage
    BY DEF TypeInv, TypeOK, AdvanceIsArmed, LoadedStage
  <1>2. chain' = Append(chain, new) /\ chain \in Seq(LoadedStage)
    BY DEF WriteMeta, TypeInv, TypeOK
  <1> HIDE DEF new
  <1>3. /\ Append(chain, new) \in Seq(LoadedStage)
        /\ Len(Append(chain, new)) = Len(chain) + 1
        /\ \A n \in 1 .. Len(chain) : Append(chain, new)[n] = chain[n]
        /\ Append(chain, new)[Len(chain) + 1] = new
    BY <1>1, <1>2, AppendProperties
  <1> QED
    BY <1>2, <1>3 DEF Stage, new

----------------------------------------------------------------------------
LEMMA InitTypeInv == Init => TypeInv
  <1> SUFFICES ASSUME Init PROVE TypeInv
    OBVIOUS
  <1>1. states \in [Stages -> SavedState \cup {NoState}] /\ metas \in [Stages -> Torn .. MaxLevel]
    BY DEF Init, Torn
  <1>2. ckpt \in Seq(Entry) /\ Len(ckpt) <= Window
    BY EmptySeq DEF Init
  <1>3. chain \in Seq(LoadedStage) /\ window \in Seq(Entry) /\ Len(window) <= Window
    BY EmptySeq DEF Init
  <1>4. pc = "down" /\ pending \in 0 .. MaxLevel /\ it \in Nat
    BY DEF Init
  <1>7. fresh \in BOOLEAN
    BY DEF Init
  <1>5. run \in Nat /\ resumes \in Nat /\ best \in Nat /\ unearned \in Nat
    BY DEF Init
  <1>6. AdvanceIsArmed
    BY <1>2, <1>4 DEF AdvanceIsArmed
  <1> QED
    BY <1>1, <1>2, <1>3, <1>4, <1>5, <1>6, <1>7 DEF TypeInv, TypeOK

LEMMA ForgetTypes ==
    ASSUME Forget
    PROVE  /\ chain' \in Seq(LoadedStage)
           /\ window' \in Seq(Entry) /\ Len(window') <= Window
           /\ pending' \in 0 .. MaxLevel /\ it' \in Nat
  BY EmptySeq DEF Forget

LEMMA StepTypeInv == TypeInv /\ [Next]_vars => TypeInv'
  <1> SUFFICES ASSUME TypeInv, [Next]_vars PROVE TypeInv'
    OBVIOUS
  <1> USE DEF TypeInv
  <1>0. Stage \in Nat
    BY StageIsLen
  <1>1. CASE Begin
    BY <1>1, ForgetTypes DEF Begin, disk, TypeOK, AdvanceIsArmed
  <1>2. CASE Resume
    <2>1. Forget /\ UNCHANGED <<states, metas, ckpt, run, best, unearned>>
      BY <1>2 DEF Resume, disk
    <2>2. pc' = "load" /\ fresh' = FALSE /\ run # 0 /\ resumes' \in Nat
      BY <1>2 DEF Resume, TypeOK
    <2> QED
      BY <2>1, <2>2, ForgetTypes DEF TypeOK, AdvanceIsArmed
  <1>3. CASE LoadFresh
    <2>1. ckpt' \in Seq(Entry) /\ Len(ckpt') <= Window
      BY <1>3, EmptySeq DEF LoadFresh
    <2> QED
      BY <1>3, <2>1 DEF LoadFresh, history, TypeOK, AdvanceIsArmed
  <1>4. CASE LoadStage
    <2>1. UNCHANGED <<states, metas, ckpt, pc, fresh, window, pending, it, run, resumes, best, unearned>>
          /\ pc = "load"
      BY <1>4 DEF LoadStage, disk, history
    <2>2. chain' \in Seq(LoadedStage)
      BY <1>4, LoadedChain
    <2> QED
      BY <2>1, <2>2 DEF TypeOK, AdvanceIsArmed
  <1>12. CASE Backfill \/ TearSidecar
    <2>1. UNCHANGED <<states, ckpt, fresh, run, resumes, best, unearned>> /\ pc = "load"
      BY <1>12 DEF Backfill, TearSidecar, LacksSidecar, trainer, history
    <2>2. \/ UNCHANGED <<pc, chain, window, pending, it>>
          \/ pc' = "down" /\ Forget
      BY <1>12 DEF Backfill, TearSidecar, trainer
    <2>3. metas' \in [Stages -> Torn .. MaxLevel]
      BY <1>12, BackfilledFile
    <2> QED
      BY <2>1, <2>2, <2>3, ForgetTypes DEF TypeOK, AdvanceIsArmed
  <1>13. CASE StopLoading
    BY <1>13 DEF StopLoading, disk, history, TypeOK, AdvanceIsArmed
  <1>5. CASE Capture
    BY <1>5 DEF Capture, disk, history, TypeOK, AdvanceIsArmed
  <1>6. CASE Measure
    <2>1. PICK past \in 0 .. Grain :
             window' = Push(window, [past |-> past, stage |-> Stage])
      BY <1>6 DEF Measure
    <2>2. [past |-> past, stage |-> Stage] \in Entry
      BY <1>0 DEF Entry
    <2>3. window' \in Seq(Entry) /\ Len(window') <= Window
      BY <2>1, <2>2, PushProperties DEF TypeOK
    <2> QED
      BY <1>6, <2>3 DEF Measure, disk, history, TypeOK, AdvanceIsArmed
  <1>7. CASE WriteState
    <2>1. Stage + 1 \in Stages /\ [level |-> pending, run |-> run] \in SavedState
      BY <1>0, <1>7 DEF WriteState, TypeOK, AdvanceIsArmed, SavedState
    <2>2. states' \in [Stages -> SavedState \cup {NoState}]
      BY <1>7, <2>1 DEF WriteState, TypeOK
    <2> QED
      BY <1>0, <1>7, <2>2 DEF WriteState, history, TypeOK, AdvanceIsArmed, Stage
  <1>8. CASE WriteMeta
    <2>1. chain' \in Seq(LoadedStage)
      BY <1>8, AdvancedChain DEF WriteMeta
    <2>2. metas' \in [Stages -> Torn .. MaxLevel]
      <3>1. pending \in Torn .. MaxLevel
        BY DEF TypeOK, Torn
      <3> QED
        BY <1>8, <3>1 DEF WriteMeta, TypeOK
    <2>4. window' \in Seq(Entry) /\ Len(window') <= Window
      BY <1>8, EmptySeq DEF WriteMeta
    <2>3. best' \in Nat /\ unearned' \in Nat
      BY <1>0, <1>8 DEF WriteMeta, Record, TypeOK
    <2> QED
      BY <1>8, <2>1, <2>2, <2>3, <2>4 DEF WriteMeta, Record, TypeOK, AdvanceIsArmed
  <1>9. CASE EndIteration
    <2>1. ckpt' \in Seq(Entry) /\ Len(ckpt') <= Window
      BY <1>9 DEF EndIteration, TypeOK, AdvanceIsArmed
    <2> QED
      BY <1>9, <2>1 DEF EndIteration, history, TypeOK, AdvanceIsArmed
  <1>10. CASE Stop
    BY <1>10, ForgetTypes DEF Stop, disk, history, TypeOK, AdvanceIsArmed
  <1>11. CASE UNCHANGED vars
    BY <1>11 DEF vars, disk, trainer, history, TypeOK, AdvanceIsArmed, Stage
  <1> QED
    BY <1>1, <1>2, <1>3, <1>4, <1>5, <1>6, <1>7, <1>8, <1>9, <1>10, <1>11, <1>12, <1>13 DEF Next

(* Type correctness of the curriculum, its files and its checkpoint.       *)
THEOREM TypeCorrect == Spec => []TypeOK
  <1>1. TypeInv => TypeOK
    BY DEF TypeInv
  <1> QED
    BY <1>1, InitTypeInv, StepTypeInv, PTL DEF Spec

----------------------------------------------------------------------------
(* The window holds a measurement of a stage other than the current one.   *)
Foreign == \E i \in DOMAIN window : window[i].stage # Stage

(* Each resume pays for one advance on a foreign window: the one that may  *)
(* come out of the checkpoint, spent when the advance clears it.           *)
ResumesPay ==
    /\ unearned <= resumes
    /\ Active /\ Foreign => unearned < resumes
    /\ pc = "load" /\ ~fresh => unearned < resumes
    /\ pc = "load" => window = << >>

LEMMA InitResumesPay == Init => ResumesPay
  BY DEF Init, ResumesPay, Active

LEMMA StepResumesPay == TypeInv /\ ResumesPay /\ [Next]_vars => ResumesPay'
  <1> SUFFICES ASSUME TypeInv, ResumesPay, [Next]_vars PROVE ResumesPay'
    OBVIOUS
  <1>0. resumes \in Nat /\ unearned \in Nat
    BY DEF TypeInv, TypeOK
  <1>1. CASE Begin
    BY <1>1 DEF Begin, Forget, ResumesPay, Active
  <1>2. CASE Resume
    BY <1>0, <1>2 DEF Resume, Forget, ResumesPay, Active
  <1>3. CASE LoadFresh
    <2>1. ~Foreign'
      BY <1>3 DEF LoadFresh, ResumesPay, Foreign
    <2> QED
      BY <1>3, <2>1 DEF LoadFresh, history, ResumesPay, Active
  <1>4. CASE LoadStage \/ StopLoading
    BY <1>4 DEF LoadStage, StopLoading, history, ResumesPay, Active
  <1>10. CASE Backfill \/ TearSidecar
    BY <1>10 DEF Backfill, TearSidecar, LacksSidecar, trainer, history, ResumesPay, Active
  <1>5. CASE Measure
    <2>1. PICK past \in 0 .. Grain :
             window' = Push(window, [past |-> past, stage |-> Stage])
      BY <1>5 DEF Measure
    <2> DEFINE e == [past |-> past, stage |-> Stage]
    <2>2. e \in Entry /\ Stage' = Stage
      BY <1>5, StageIsLen DEF TypeInv, Measure, Stage, Entry
    <2>3. e.stage = Stage
      OBVIOUS
    <2>4. \A i \in DOMAIN window' :
             window'[i] = e \/ \E j \in DOMAIN window : window'[i] = window[j]
      <3> HIDE DEF e
      <3> QED
        BY <2>1, <2>2, PushProperties DEF TypeInv, TypeOK, e
    <2>5. Foreign' => Foreign
      <3> HIDE DEF e
      <3> QED
        BY <2>2, <2>3, <2>4 DEF Foreign
    <2> QED
      BY <1>5, <2>5 DEF Measure, history, ResumesPay, Active
  <1>6. CASE WriteMeta
    <2>1. ~Foreign'
      BY <1>6 DEF WriteMeta, Foreign
    <2>2. unearned' <= resumes'
      <3>1. CASE Foreign
        BY <1>0, <1>6, <3>1 DEF WriteMeta, Record, ResumesPay, Active
      <3>2. CASE ~Foreign
        BY <1>0, <1>6, <3>2 DEF WriteMeta, Record, ResumesPay, Foreign
      <3> QED
        BY <3>1, <3>2
    <2> QED
      BY <1>6, <2>1, <2>2 DEF WriteMeta, ResumesPay, Active
  <1>7. CASE Capture \/ WriteState \/ EndIteration
    <2>1. Foreign' = Foreign
      BY <1>7 DEF Capture, WriteState, EndIteration, Foreign, Stage
    <2> QED
      BY <1>7, <2>1 DEF Capture, WriteState, EndIteration, history, ResumesPay, Active
  <1>8. CASE Stop
    BY <1>8 DEF Stop, history, ResumesPay, Active
  <1>9. CASE UNCHANGED vars
    BY <1>9 DEF vars, disk, trainer, history, ResumesPay, Active, Foreign, Stage
  <1> QED
    BY <1>1, <1>2, <1>3, <1>4, <1>5, <1>6, <1>7, <1>8, <1>9, <1>10 DEF Next

(* A run advances at most once per resume on a window that was measured on *)
(* another stage, whatever fails to load or to save.                       *)
THEOREM UnearnedAdvancesArePaid == Spec => []UnearnedNeedsResume
  <1>1. ResumesPay => UnearnedNeedsResume
    BY DEF ResumesPay, UnearnedNeedsResume
  <1> QED
    BY <1>1, InitTypeInv, StepTypeInv, InitResumesPay, StepResumesPay, PTL DEF Spec

----------------------------------------------------------------------------
(* Every stage up to the highest this run has advanced to is on disk with  *)
(* a readable sidecar, the next one as soon as its state is written, and a *)
(* trainer that works on a stage is never below.                           *)
OnDisk(n) == states[n] # NoState /\ metas[n] > 0

FrontierInv ==
    /\ best \in 0 .. MaxLevel
    /\ \A n \in 1 .. best : OnDisk(n)
    /\ Active => best <= Stage
    /\ pc = "load" /\ fresh => best = 0
    /\ pc = "meta" => states[Stage + 1] # NoState
    /\ Stage <= MaxLevel
    /\ \A n \in 1 .. Stage : OnDisk(n)

LEMMA InitFrontier == Init => FrontierInv
  <1> SUFFICES ASSUME Init PROVE FrontierInv
    OBVIOUS
  <1>1. best = 0 /\ pc = "down" /\ Stage = 0
    BY EmptySeq DEF Init, Stage
  <1> QED
    BY <1>1 DEF FrontierInv, Active

LEMMA StepFrontier ==
    ASSUME "load" \notin Faults
    PROVE  TypeInv /\ FrontierInv /\ [Next]_vars => FrontierInv'
  <1> SUFFICES ASSUME TypeInv, FrontierInv, [Next]_vars PROVE FrontierInv'
    OBVIOUS
  <1>0. Stage \in Nat /\ best \in Nat
    BY StageIsLen DEF TypeInv, TypeOK
  <1>e. Forget => Stage' = 0 /\ chain' = << >>
    BY EmptySeq DEF Forget, Stage
  <1>1. CASE Begin
    BY <1>1, <1>e DEF Begin, disk, FrontierInv, OnDisk, Active
  <1>2. CASE Resume
    BY <1>2, <1>e DEF Resume, disk, FrontierInv, OnDisk, Active
  <1>3. CASE LoadFresh
    BY <1>0, <1>3 DEF LoadFresh, history, FrontierInv, OnDisk, Active, Stage
  <1>4. CASE LoadStage
    <2>1. UNCHANGED <<states, metas, pc, fresh, best>> /\ pc = "load" /\ ~fresh /\ OnDisk(Stage + 1)
      BY <1>4 DEF LoadStage, disk, history, OnDisk
    <2>2. Stage' = Stage + 1 /\ Stage' <= MaxLevel
      BY <1>0, <1>4, LoadedChain DEF TypeInv
    <2>3. \A n \in 1 .. Stage + 1 : OnDisk(n)
      BY <1>0, <2>1 DEF FrontierInv
    <2> QED
      BY <1>0, <2>1, <2>2, <2>3 DEF FrontierInv, OnDisk, Active
  <1>11. CASE Backfill \/ TearSidecar
    <2>1. UNCHANGED <<states, fresh, best>> /\ pc = "load" /\ pc' \in {"load", "down"} /\ ~fresh
      BY <1>11 DEF Backfill, TearSidecar, LacksSidecar, trainer, history
    <2>2. Stage' = Stage \/ Stage' = 0
      BY <1>11, <1>e DEF Backfill, TearSidecar, trainer, Stage
    <2>3. \A n \in Stages : metas[n] > 0 => metas'[n] = metas[n]
      BY <1>11, BackfilledFile DEF TypeInv
    <2>4. \A n \in Stages : OnDisk(n) => OnDisk(n)'
      BY <2>1, <2>3 DEF OnDisk
    <2> QED
      BY <1>0, <2>1, <2>2, <2>4 DEF FrontierInv, Active
  <1>12. CASE StopLoading
    <2>1. UNCHANGED <<states, metas, best, Stage>> /\ pc' = "rollout"
      BY <1>12 DEF StopLoading, disk, history, Stage
    <2>2. best <= Stage
      <3> SUFFICES ASSUME Stage < best PROVE FALSE
        BY <1>0
      <3>1. Stage + 1 \in 1 .. best /\ Stage < MaxLevel
        BY <1>0 DEF FrontierInv
      <3>2. OnDisk(Stage + 1)
        BY <3>1 DEF FrontierInv
      <3> QED
        BY <1>12, <3>1, <3>2 DEF StopLoading, OnDisk, Torn
    <2> QED
      BY <2>1, <2>2 DEF FrontierInv, OnDisk, Active
  <1>5. CASE Capture \/ EndIteration
    <2>1. UNCHANGED <<states, metas, best, Stage>> /\ Active /\ pc' \in {"rollout"}
      BY <1>5 DEF Capture, EndIteration, disk, history, Stage, Active
    <2> QED
      BY <2>1 DEF FrontierInv, OnDisk, Active
  <1>6. CASE Measure
    <2>1. UNCHANGED <<states, metas, best, Stage>> /\ Active /\ pc' \in {"state", "end"}
      BY <1>6 DEF Measure, disk, history, Stage, Active
    <2> QED
      BY <2>1 DEF FrontierInv, OnDisk, Active
  <1>7. CASE WriteState
    <2>1. /\ UNCHANGED <<metas, best, Stage>> /\ Active /\ pc' = "meta" /\ Stage < MaxLevel
          /\ Stage + 1 \in Stages
      BY <1>0, <1>7 DEF WriteState, history, Stage, Active
    <2>2. states' = [states EXCEPT ![Stage + 1] = [level |-> pending, run |-> run]]
      BY <1>7 DEF WriteState
    <2>3. [level |-> pending, run |-> run] # NoState
      BY <1>7 DEF WriteState, TypeInv, AdvanceIsArmed, NoState
    <2>4. states'[Stage + 1] # NoState
      BY <2>1, <2>2, <2>3 DEF TypeInv, TypeOK
    <2>5. \A n \in Stages : OnDisk(n) => OnDisk(n)'
      BY <2>1, <2>2, <2>3 DEF TypeInv, TypeOK, OnDisk
    <2> QED
      BY <1>0, <2>1, <2>4, <2>5 DEF FrontierInv, Active
  <1>8. CASE WriteMeta
    <2>1. Stage' = Stage + 1 /\ pc = "meta" /\ pc' = "end" /\ UNCHANGED states
      BY <1>8, AdvancedChain DEF WriteMeta
    <2>2. best' \in 0 .. Stage + 1 /\ Stage + 1 \in 1 .. MaxLevel
      BY <1>0, <1>8 DEF WriteMeta, Record, FrontierInv, TypeInv, AdvanceIsArmed, Active
    <2>3. metas'[Stage + 1] > 0 /\ \A n \in 1 .. Stage : metas'[n] = metas[n]
      BY <1>0, <1>8, <2>1, <2>2 DEF WriteMeta, TypeInv, TypeOK, AdvanceIsArmed
    <2>4. \A n \in 1 .. Stage + 1 : OnDisk(n)'
      BY <1>0, <2>1, <2>3 DEF FrontierInv, OnDisk
    <2> QED
      BY <1>0, <2>1, <2>2, <2>4 DEF FrontierInv, Active
  <1>9. CASE Stop
    BY <1>9, <1>e DEF Stop, disk, history, FrontierInv, OnDisk, Active
  <1>10. CASE UNCHANGED vars
    BY <1>10 DEF vars, disk, trainer, history, FrontierInv, OnDisk, Active, Stage
  <1> QED
    BY <1>1, <1>2, <1>3, <1>4, <1>5, <1>6, <1>7, <1>8, <1>9, <1>10, <1>11, <1>12 DEF Next

(* As long as stages that are on disk load, no crash between the writes of *)
(* an advance or in the middle of a sidecar that the load writes back, no  *)
(* failed checkpoint and no relaunch takes a run back below a stage it has *)
(* advanced to.                                                            *)
THEOREM FrontierIsDurable ==
    ASSUME "load" \notin Faults
    PROVE  Spec => []FrontierSurvivesCrash
  <1>1. TypeInv /\ FrontierInv => FrontierSurvivesCrash
    BY StageIsLen DEF TypeInv, TypeOK, FrontierInv, FrontierSurvivesCrash, Active
  <1> QED
    BY <1>1, InitTypeInv, StepTypeInv, InitFrontier, StepFrontier, PTL DEF Spec

----------------------------------------------------------------------------
(* One run in a directory of its own: what its stage files look like.      *)
BareStart ==
    run = 0 \/ (pc = "load" /\ fresh) => \A n \in Stages : states[n] = NoState

SidecarsMatch ==
    \A n \in Stages : metas[n] > 0 => metas[n] = states[n].level

(* Only the last stage on disk may lack its sidecar, or have it torn.      *)
SidecarsLag ==
    \A m, n \in Stages : m < n /\ states[n] # NoState => metas[m] > 0

SavedStagesClimb ==
    \A m, n \in Stages : m < n /\ states[n] # NoState
        => states[m] # NoState /\ states[m].level < states[n].level

(* The chain in memory is the stage files, but for the one being written   *)
(* and one that was cut off by its torn sidecar.                           *)
ChainIsSaved ==
    /\ Stage <= MaxLevel
    /\ \A n \in 1 .. Stage : /\ states[n] # NoState /\ metas[n] > 0
                             /\ chain[n].level = states[n].level
                             /\ chain[n].anchor = states[n].level
    /\ Active => \A n \in Stages : states[n] # NoState
                     => \/ n <= Stage
                        \/ (n = Stage + 1 /\ (pc = "meta" \/ metas[n] = Torn))

CaptureIsAhead ==
    /\ pc = "load" => pending = 0
    /\ pending # 0 => pending > Anchor
    /\ pc = "meta" => /\ states[Stage + 1] # NoState
                      /\ states[Stage + 1].level = pending

OneRun ==
    /\ BareStart /\ SidecarsMatch /\ SidecarsLag /\ SavedStagesClimb
    /\ ChainIsSaved /\ CaptureIsAhead

LEMMA InitOneRun == Init => OneRun
  <1> SUFFICES ASSUME Init PROVE OneRun
    OBVIOUS
  <1>1. Stage = 0 /\ pc = "down" /\ pending = 0
    BY EmptySeq DEF Init, Stage
  <1>2. \A n \in Stages : states[n] = NoState /\ metas[n] = 0
    BY DEF Init
  <1> QED
    BY <1>1, <1>2
    DEF OneRun, BareStart, SidecarsMatch, SidecarsLag, SavedStagesClimb, ChainIsSaved, CaptureIsAhead, Active

(* A trainer that is gone has no chain and no capture: what is left of the *)
(* invariant speaks of the files.                                          *)
LEMMA ForgetOneRun ==
    ASSUME TypeInv, OneRun, Forget, UNCHANGED <<states, metas>>,
           pc' \in {"down", "load"}, (run' = 0 \/ (pc' = "load" /\ fresh')) => run = 0
    PROVE  OneRun'
  <1>1. Stage' = 0 /\ pending' = 0
    BY EmptySeq DEF Forget, Stage
  <1> QED
    BY <1>1
    DEF OneRun, BareStart, SidecarsMatch, SidecarsLag, SavedStagesClimb, ChainIsSaved, CaptureIsAhead, Active

(* A stage that is loaded has the anchor of its save state.                *)
LEMMA LoadStageOneRun ==
    ASSUME TypeInv, OneRun, LoadStage
    PROVE  OneRun'
  <1> USE DEF TypeInv
  <1>0. Stage \in Nat
    BY StageIsLen
  <1>1. UNCHANGED <<states, metas, pc, fresh, run, pending>> /\ pc = "load"
    BY DEF LoadStage, disk, history
  <1>2. /\ Stage' = Stage + 1 /\ Stage + 1 <= MaxLevel
        /\ \A n \in 1 .. Stage : chain'[n] = chain[n]
        /\ chain'[Stage + 1].level = states[Stage + 1].level
        /\ chain'[Stage + 1].anchor = metas[Stage + 1]
    BY LoadedChain
  <1>3. states[Stage + 1] # NoState /\ metas[Stage + 1] > 0
    BY DEF LoadStage
  <1>4. metas[Stage + 1] = states[Stage + 1].level
    BY <1>0, <1>2, <1>3 DEF OneRun, SidecarsMatch
  <1>5. ASSUME NEW n \in 1 .. Stage + 1
        PROVE  /\ states[n] # NoState /\ metas[n] > 0
               /\ chain'[n].level = states[n].level
               /\ chain'[n].anchor = states[n].level
    <2>1. CASE n = Stage + 1
      BY <1>2, <1>3, <1>4, <2>1
    <2>2. CASE n # Stage + 1
      <3>1. n \in 1 .. Stage
        BY <1>0, <2>2
      <3> QED
        BY <1>2, <3>1 DEF OneRun, ChainIsSaved
    <2> QED
      BY <2>1, <2>2
  <1>6. ChainIsSaved'
    BY <1>1, <1>2, <1>5 DEF ChainIsSaved, Active
  <1>7. BareStart' /\ SidecarsMatch' /\ SidecarsLag' /\ SavedStagesClimb' /\ CaptureIsAhead'
    BY <1>1 DEF OneRun, BareStart, SidecarsMatch, SidecarsLag, SavedStagesClimb, CaptureIsAhead
  <1> QED
    BY <1>6, <1>7 DEF OneRun

(* A sidecar written back, whole or torn, is that of the last stage.       *)
LEMMA BackfillOneRun ==
    ASSUME TypeInv, OneRun, Backfill \/ TearSidecar
    PROVE  OneRun'
  <1> USE DEF TypeInv
  <1>0. Stage \in Nat
    BY StageIsLen
  <1>1. /\ UNCHANGED <<states, fresh, run>> /\ pc = "load" /\ pc' \in {"load", "down"}
        /\ ~fresh /\ run # 0
    BY DEF Backfill, TearSidecar, LacksSidecar, trainer, history, AdvanceIsArmed
  <1>2. UNCHANGED <<chain, pending>> \/ Forget
    BY DEF Backfill, TearSidecar, trainer
  <1>3. \/ Stage' = Stage /\ chain' = chain /\ pending' = pending
        \/ Stage' = 0 /\ pending' = 0
    BY <1>2, EmptySeq DEF Forget, Stage
  <1>4. /\ Stage + 1 \in Stages /\ metas[Stage + 1] = 0
        /\ \A n \in Stages : n # Stage + 1 => metas'[n] = metas[n]
        /\ metas'[Stage + 1] = Torn \/ metas'[Stage + 1] = states[Stage + 1].level
    BY BackfilledFile
  <1>5. SidecarsMatch'
    BY <1>1, <1>4 DEF OneRun, SidecarsMatch, Torn
  <1>6. SidecarsLag'
    BY <1>1, <1>4 DEF OneRun, SidecarsLag
  <1>7. \A n \in 1 .. Stage : metas'[n] = metas[n]
    BY <1>0, <1>4
  <1>8. ChainIsSaved'
    BY <1>0, <1>1, <1>3, <1>7 DEF OneRun, ChainIsSaved, Active
  <1>9. CaptureIsAhead'
    BY <1>1, <1>3 DEF OneRun, CaptureIsAhead
  <1>10. BareStart' /\ SavedStagesClimb'
    BY <1>1 DEF OneRun, BareStart, SavedStagesClimb
  <1> QED
    BY <1>5, <1>6, <1>8, <1>9, <1>10 DEF OneRun

(* The stages a resume loads are all there are, but for a last one whose   *)
(* sidecar is torn.                                                        *)
LEMMA StopLoadingOneRun ==
    ASSUME "load" \notin Faults, TypeInv, OneRun, StopLoading
    PROVE  OneRun'
  <1> USE DEF TypeInv
  <1>0. Stage \in Nat
    BY StageIsLen
  <1>1. /\ UNCHANGED <<states, metas, fresh, run, pending, chain, Stage, Anchor>>
        /\ pc = "load" /\ pc' = "rollout" /\ run # 0
    BY DEF StopLoading, disk, history, AdvanceIsArmed, Stage, Anchor
  <1>2. Stage < MaxLevel => states[Stage + 1] = NoState \/ metas[Stage + 1] = Torn
    BY DEF StopLoading
  <1>3. ASSUME NEW n \in Stages, states[n] # NoState, n > Stage
        PROVE  n = Stage + 1 /\ metas[n] = Torn
    <2>1. Stage + 1 \in Stages /\ Stage < MaxLevel /\ (n = Stage + 1 \/ Stage + 1 < n)
      BY <1>0, <1>3
    <2>2. CASE n = Stage + 1
      BY <1>2, <1>3, <2>1, <2>2
    <2>3. CASE Stage + 1 < n
      <3>1. states[Stage + 1] # NoState /\ metas[Stage + 1] > 0
        BY <1>3, <2>1, <2>3 DEF OneRun, SavedStagesClimb, SidecarsLag
      <3> QED
        BY <1>2, <2>1, <3>1 DEF Torn
    <2> QED
      BY <2>1, <2>2, <2>3
  <1>4. \A n \in Stages : states[n] # NoState => n <= Stage \/ (n = Stage + 1 /\ metas[n] = Torn)
    BY <1>0, <1>3
  <1>5. ChainIsSaved'
    BY <1>1, <1>4 DEF OneRun, ChainIsSaved
  <1>6. CaptureIsAhead'
    BY <1>1 DEF OneRun, CaptureIsAhead
  <1>7. BareStart' /\ SidecarsMatch' /\ SidecarsLag' /\ SavedStagesClimb'
    BY <1>1 DEF OneRun, BareStart, SidecarsMatch, SidecarsLag, SavedStagesClimb
  <1> QED
    BY <1>5, <1>6, <1>7 DEF OneRun

(* The save state of the next stage: a level beyond all the others.        *)
LEMMA WriteStateOneRun ==
    ASSUME TypeInv, OneRun, WriteState
    PROVE  OneRun'
  <1> USE DEF TypeInv
  <1>0. Stage \in Nat /\ Stage + 1 \in Stages /\ pending # 0 /\ run # 0
    BY StageIsLen DEF WriteState, AdvanceIsArmed
  <1> DEFINE new == [level |-> pending, run |-> run]
  <1>1. /\ states' = [states EXCEPT ![Stage + 1] = new]
        /\ pc = "state" /\ pc' = "meta"
        /\ UNCHANGED <<metas, chain, pending, run, fresh, Stage, Anchor>>
    BY DEF WriteState, history, Stage, Anchor
  <1>2. /\ states'[Stage + 1] = new /\ new # NoState /\ new.level = pending
        /\ \A n \in Stages : n # Stage + 1 => states'[n] = states[n]
    BY <1>0, <1>1 DEF TypeOK, NoState
  <1> HIDE DEF new
  <1>3. \A n \in Stages : states[n] # NoState
            => n <= Stage \/ (n = Stage + 1 /\ metas[n] = Torn)
    BY <1>1 DEF OneRun, ChainIsSaved, Active
  <1>4. \A n \in 1 .. Stage : /\ n \in Stages /\ states[n] # NoState /\ states'[n] = states[n]
                             /\ metas[n] > 0
    BY <1>0, <1>2 DEF OneRun, ChainIsSaved
  <1>5. Stage # 0 => states[Stage].level < pending
    <2> SUFFICES ASSUME Stage # 0 PROVE states[Stage].level < pending
      OBVIOUS
    <2>1. pending > Anchor /\ Anchor = states[Stage].level
      BY <1>0 DEF OneRun, CaptureIsAhead, ChainIsSaved, Anchor
    <2>2. Anchor \in Nat
      BY <1>0, <1>4, <2>1 DEF TypeOK, SavedState
    <2> QED
      BY <1>0, <2>1, <2>2 DEF TypeOK
  <1>6. \A m \in 1 .. Stage : states[m].level < pending
    <2> SUFFICES ASSUME NEW m \in 1 .. Stage PROVE states[m].level < pending
      OBVIOUS
    <2>1. m = Stage \/ states[m].level < states[Stage].level
      BY <1>0, <1>4 DEF OneRun, SavedStagesClimb
    <2>2. states[m].level \in Int /\ states[Stage].level \in Int /\ pending \in Int
      BY <1>0, <1>4 DEF TypeOK, SavedState
    <2> QED
      BY <1>0, <1>5, <2>1, <2>2
  <1>7. SavedStagesClimb'
    <2> SUFFICES ASSUME NEW m \in Stages, NEW n \in Stages, m < n, states'[n] # NoState
                 PROVE  states'[m] # NoState /\ states'[m].level < states'[n].level
      BY DEF SavedStagesClimb
    <2>1. CASE n = Stage + 1
      <3>1. m \in 1 .. Stage
        BY <1>0, <2>1
      <3> QED
        BY <1>2, <1>4, <1>6, <2>1, <3>1
    <2>2. CASE n # Stage + 1
      <3>1. states'[n] = states[n] /\ n <= Stage
        BY <1>2, <1>3, <2>2
      <3>2. m \in 1 .. Stage
        BY <1>0, <3>1
      <3> QED
        BY <1>4, <3>1, <3>2 DEF OneRun, SavedStagesClimb
    <2> QED
      BY <2>1, <2>2
  <1>8. ~(metas[Stage + 1] > 0)
    <2>1. CASE states[Stage + 1] = NoState
      BY <1>0, <2>1 DEF OneRun, SidecarsMatch, NoState
    <2>2. CASE states[Stage + 1] # NoState
      BY <1>0, <1>3, <2>2 DEF Torn
    <2> QED
      BY <2>1, <2>2
  <1>13. SidecarsLag'
    <2> SUFFICES ASSUME NEW m \in Stages, NEW n \in Stages, m < n, states'[n] # NoState
                 PROVE  metas[m] > 0
      BY <1>1 DEF SidecarsLag
    <2>1. CASE n = Stage + 1
      <3>1. m \in 1 .. Stage
        BY <1>0, <2>1
      <3> QED
        BY <1>4, <3>1
    <2>2. CASE n # Stage + 1
      BY <1>2, <2>2 DEF OneRun, SidecarsLag
    <2> QED
      BY <2>1, <2>2
  <1>9. SidecarsMatch'
    BY <1>1, <1>2, <1>8 DEF OneRun, SidecarsMatch
  <1>10. ChainIsSaved'
    <2>1. Stage <= MaxLevel /\ Stage' = Stage
      BY <1>1 DEF OneRun, ChainIsSaved
    <2>2. \A n \in 1 .. Stage : /\ states'[n] # NoState /\ metas[n] > 0
                                /\ chain[n].level = states'[n].level
                                /\ chain[n].anchor = states'[n].level
      BY <1>4 DEF OneRun, ChainIsSaved
    <2>3. \A n \in Stages : states'[n] # NoState => n <= Stage \/ n = Stage + 1
      BY <1>2, <1>3
    <2> QED
      BY <1>1, <2>1, <2>2, <2>3 DEF ChainIsSaved
  <1>11. CaptureIsAhead'
    BY <1>1, <1>2 DEF OneRun, CaptureIsAhead
  <1>12. BareStart'
    BY <1>0, <1>1 DEF BareStart
  <1> QED
    BY <1>7, <1>9, <1>10, <1>11, <1>12, <1>13 DEF OneRun

(* The sidecar and the entry in memory repeat the state's level.           *)
LEMMA WriteMetaOneRun ==
    ASSUME TypeInv, OneRun, WriteMeta
    PROVE  OneRun'
  <1> USE DEF TypeInv
  <1>0. Stage \in Nat /\ Stage + 1 \in Stages /\ run # 0
    BY StageIsLen DEF WriteMeta, AdvanceIsArmed
  <1>1. /\ metas' = [metas EXCEPT ![Stage + 1] = pending]
        /\ pc = "meta" /\ pc' = "end" /\ pending' = 0
        /\ UNCHANGED <<states, run, fresh>>
    BY DEF WriteMeta, Record
  <1>2. /\ Stage' = Stage + 1
        /\ \A n \in 1 .. Stage : chain'[n] = chain[n]
        /\ chain'[Stage + 1] = [anchor |-> pending, level |-> pending, run |-> run]
    BY <1>1, AdvancedChain
  <1>3. states[Stage + 1] # NoState /\ states[Stage + 1].level = pending
    BY <1>1 DEF OneRun, CaptureIsAhead
  <1>7. /\ metas'[Stage + 1] = pending /\ pending > 0
        /\ \A n \in Stages : n # Stage + 1 => metas'[n] = metas[n]
    BY <1>0, <1>1 DEF TypeOK, AdvanceIsArmed
  <1>8. SidecarsLag'
    BY <1>1, <1>7 DEF OneRun, SidecarsLag
  <1>4. SidecarsMatch'
    BY <1>0, <1>1, <1>3 DEF OneRun, SidecarsMatch, TypeOK
  <1>5. ChainIsSaved'
    <2>1. \A n \in 1 .. Stage + 1 : /\ states[n] # NoState /\ metas'[n] > 0
                                    /\ chain'[n].level = states[n].level
                                    /\ chain'[n].anchor = states[n].level
      <3> SUFFICES ASSUME NEW n \in 1 .. Stage + 1
                   PROVE  /\ states[n] # NoState /\ metas'[n] > 0
                          /\ chain'[n].level = states[n].level
                          /\ chain'[n].anchor = states[n].level
        OBVIOUS
      <3>1. CASE n = Stage + 1
        BY <1>2, <1>3, <1>7, <3>1
      <3>2. CASE n # Stage + 1
        <4>1. n \in 1 .. Stage
          BY <1>0, <3>2
        <4> QED
          BY <1>0, <1>2, <1>7, <4>1 DEF OneRun, ChainIsSaved
      <3> QED
        BY <3>1, <3>2
    <2>2. \A n \in Stages : states[n] # NoState => n <= Stage + 1
      BY <1>0, <1>1 DEF OneRun, ChainIsSaved, Active
    <2> QED
      BY <1>0, <1>1, <1>2, <2>1, <2>2 DEF ChainIsSaved
  <1>6. CaptureIsAhead' /\ SavedStagesClimb' /\ BareStart'
    BY <1>0, <1>1 DEF OneRun, CaptureIsAhead, SavedStagesClimb, BareStart
  <1> QED
    BY <1>4, <1>5, <1>6, <1>8 DEF OneRun

LEMMA StepOneRun ==
    ASSUME "load" \notin Faults, MaxRuns <= 1
    PROVE  TypeInv /\ OneRun /\ [Next]_vars => OneRun'
  <1> SUFFICES ASSUME TypeInv, OneRun, [Next]_vars PROVE OneRun'
    OBVIOUS
  <1>0. run \in Nat
    BY DEF TypeInv, TypeOK
  <1>1. CASE Begin
    <2>1. run = 0
      BY <1>0, <1>1, BoundsAssumption DEF Begin
    <2> QED
      BY <1>1, <2>1, ForgetOneRun DEF Begin, disk
  <1>2. CASE Resume
    BY <1>2, ForgetOneRun DEF Resume, disk
  <1>3. CASE LoadFresh
    <2>1. pc = "load" /\ fresh /\ pc' = "rollout"
          /\ UNCHANGED <<states, metas, chain, pending, run, fresh, Stage, Anchor>>
      BY <1>3 DEF LoadFresh, history, Stage, Anchor
    <2>2. \A n \in Stages : states[n] = NoState
      BY <2>1 DEF OneRun, BareStart
    <2> QED
      BY <2>1, <2>2
      DEF OneRun, BareStart, SidecarsMatch, SidecarsLag, SavedStagesClimb, ChainIsSaved, CaptureIsAhead, Active
  <1>4. CASE LoadStage
    BY <1>4, LoadStageOneRun
  <1>11. CASE Backfill \/ TearSidecar
    BY <1>11, BackfillOneRun
  <1>12. CASE StopLoading
    BY <1>12, StopLoadingOneRun
  <1>5. CASE Capture
    <2>1. UNCHANGED <<states, metas, chain, run, fresh, pc, Stage, Anchor>> /\ pc = "rollout"
      BY <1>5 DEF Capture, disk, history, Stage, Anchor
    <2>2. pending' > Anchor
      BY <1>5 DEF Capture
    <2>3. CaptureIsAhead'
      BY <2>1, <2>2 DEF CaptureIsAhead
    <2> QED
      BY <2>1, <2>3
      DEF OneRun, BareStart, SidecarsMatch, SidecarsLag, SavedStagesClimb, ChainIsSaved, Active
  <1>6. CASE Measure \/ EndIteration
    <2>1. UNCHANGED <<states, metas, chain, run, fresh, pending, Stage, Anchor>>
      BY <1>6 DEF Measure, EndIteration, disk, history, Stage, Anchor
    <2>2. pc \in {"rollout", "end"} /\ pc' \in {"rollout", "state", "end"}
      BY <1>6 DEF Measure, EndIteration
    <2> QED
      BY <2>1, <2>2
      DEF OneRun, BareStart, SidecarsMatch, SidecarsLag, SavedStagesClimb, ChainIsSaved, CaptureIsAhead, Active
  <1>7. CASE WriteState
    BY <1>7, WriteStateOneRun
  <1>8. CASE WriteMeta
    BY <1>8, WriteMetaOneRun
  <1>9. CASE Stop
    BY <1>9, ForgetOneRun DEF Stop, disk, history
  <1>10. CASE UNCHANGED vars
    <2>1. UNCHANGED <<states, metas, chain, run, fresh, pc, pending, Stage, Anchor>>
      BY <1>10 DEF vars, disk, trainer, history, Stage, Anchor
    <2> QED
      BY <2>1
      DEF OneRun, BareStart, SidecarsMatch, SidecarsLag, SavedStagesClimb, ChainIsSaved, CaptureIsAhead, Active
  <1> QED
    BY <1>1, <1>2, <1>3, <1>4, <1>5, <1>6, <1>7, <1>8, <1>9, <1>10, <1>11, <1>12 DEF Next

(* In a run that starts from a directory without stage files, every anchor *)
(* in memory is the level of its save state, through any sequence of       *)
(* crashes, resumes and failed checkpoints.                                *)
THEOREM AnchorsAreTrue ==
    ASSUME "load" \notin Faults, MaxRuns <= 1
    PROVE  Spec => []AnchorMatchesState
  <1>1. TypeInv /\ OneRun => AnchorMatchesState
    BY StageIsLen DEF TypeInv, OneRun, ChainIsSaved, AnchorMatchesState
  <1> QED
    BY <1>1, InitTypeInv, StepTypeInv, InitOneRun, StepOneRun, PTL DEF Spec

(* Under the same conditions each stage begins beyond all those before it: *)
(* the gate that captures compares with an anchor that is never stale.     *)
THEOREM StagesOnlyClimb ==
    ASSUME "load" \notin Faults, MaxRuns <= 1
    PROVE  Spec => []StagesClimb
  <1>1. TypeInv /\ OneRun => StagesClimb
    <2> SUFFICES ASSUME TypeInv, OneRun, NEW m \in DOMAIN chain, NEW n \in DOMAIN chain, m < n
                 PROVE  chain[m].level < chain[n].level
      BY DEF StagesClimb
    <2>1. m \in 1 .. Stage /\ n \in 1 .. Stage /\ 1 .. Stage \subseteq Stages
      BY StageIsLen DEF TypeInv, OneRun, ChainIsSaved
    <2> QED
      BY <2>1 DEF OneRun, ChainIsSaved, SavedStagesClimb
  <1> QED
    BY <1>1, InitTypeInv, StepTypeInv, InitOneRun, StepOneRun, PTL DEF Spec

(* Both together: the chain of one run in a directory of its own is true.  *)
THEOREM ChainStaysTrue ==
    ASSUME "load" \notin Faults, MaxRuns <= 1
    PROVE  Spec => []ChainIsTrue
  BY AnchorsAreTrue, StagesOnlyClimb, PTL DEF ChainIsTrue
=============================================================================

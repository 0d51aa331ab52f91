------------------------ MODULE WinnerRetentionProof ------------------------
(***************************************************************************)
(* Proofs about WinnerRetention, for every range of rates, every run       *)
(* length and every combination of faults.                                 *)
(***************************************************************************)
EXTENDS WinnerRetention, TLAPS

(* Until the first rename the verdict of the gate stays right: the files   *)
(* it read do not change under it.                                         *)
VerdictHolds == pc = "pt" => Beats(cand)

(* Between the renames best.pt holds the candidate. *)
CandidateIsWritten == pc = "json" => pt = cand

IInv ==
    /\ TypeOK
    /\ VerdictHolds
    /\ CandidateIsWritten
    /\ SidecarNeverOverclaims

LEMMA RatesAreNumbers == Rates \cup {Minus} \subseteq Int /\ Minus \in Rates \cup {Minus}
  BY RateAssumption DEF Rates, Minus

(* A metric that beats the recorded one is at least what best.pt embeds.   *)
LEMMA BeatsPt ==
    ASSUME TypeOK, json.state # "torn", Beats(cand)
    PROVE  cand.metric >= pt.metric
  <1>1. cand.metric \in Int /\ pt.metric \in Int /\ json.metric \in Int
    BY RatesAreNumbers DEF TypeOK, Winner, Sidecar
  <1>2. PrevMetric \in Int /\ PrevMetric >= pt.metric
    BY <1>1 DEF PrevMetric
  <1>3. cand.metric >= PrevMetric
    BY <1>1, <1>2 DEF Beats
  <1> QED
    BY <1>1, <1>2, <1>3

LEMMA InitIInv == Init => IInv
  BY RatesAreNumbers DEF Init, IInv, TypeOK, VerdictHolds, CandidateIsWritten,
     SidecarNeverOverclaims, Winner, Nothing, Sidecar, NoSidecar, Minus

LEMMA StepIInv == IInv /\ [Next]_vars => IInv'
  <1> SUFFICES ASSUME IInv, [Next]_vars PROVE IInv'
    OBVIOUS
  <1> USE DEF IInv
  <1>1. CASE SavePoint
    <2>1. TypeOK'
      BY <1>1, RatesAreNumbers DEF SavePoint, TypeOK, Winner
    <2> QED
      BY <1>1, <2>1 DEF SavePoint, VerdictHolds, CandidateIsWritten,
         SidecarNeverOverclaims
  <1>2. CASE Accept
    <2>1. TypeOK'
      BY <1>2 DEF Accept, TypeOK
    <2>2. VerdictHolds'
      BY <1>2 DEF Accept, VerdictHolds, Beats, PrevMetric
    <2> QED
      BY <1>2, <2>1, <2>2 DEF Accept, CandidateIsWritten, SidecarNeverOverclaims
  <1>3. CASE Refuse
    BY <1>3 DEF Refuse, TypeOK, VerdictHolds, CandidateIsWritten,
       SidecarNeverOverclaims
  <1>4. CASE WritePt
    <2>1. TypeOK'
      BY <1>4 DEF WritePt, TypeOK
    <2>2. json.state = "ok" => json.metric <= cand.metric
      <3> SUFFICES ASSUME json.state = "ok" PROVE json.metric <= cand.metric
        OBVIOUS
      <3>1. json.metric <= pt.metric /\ cand.metric >= pt.metric
        BY <1>4, BeatsPt DEF WritePt, SidecarNeverOverclaims, VerdictHolds
      <3>2. cand.metric \in Int /\ pt.metric \in Int /\ json.metric \in Int
        BY RatesAreNumbers DEF TypeOK, Winner, Sidecar
      <3> QED
        BY <3>1, <3>2
    <2> QED
      BY <1>4, <2>1, <2>2 DEF WritePt, VerdictHolds, CandidateIsWritten,
         SidecarNeverOverclaims
  <1>5. CASE WriteJson
    <2>1. TypeOK'
      BY <1>5, RatesAreNumbers DEF WriteJson, TypeOK, Winner, Sidecar, Nothing
    <2>2. cand.metric \in Int /\ pt = cand
      BY <1>5, RatesAreNumbers DEF WriteJson, TypeOK, Winner, CandidateIsWritten
    <2> QED
      BY <1>5, <2>1, <2>2 DEF WriteJson, VerdictHolds, CandidateIsWritten,
         SidecarNeverOverclaims
  <1>6. CASE Return \/ Fail
    BY <1>6, RatesAreNumbers DEF Return, Fail, TypeOK, VerdictHolds,
       CandidateIsWritten, SidecarNeverOverclaims, Winner, Nothing
  <1>7. CASE Crash
    BY <1>7, RatesAreNumbers DEF Crash, TypeOK, VerdictHolds,
       CandidateIsWritten, SidecarNeverOverclaims, Winner, Nothing
  <1>8. CASE Tear
    BY <1>8, RatesAreNumbers DEF Tear, TypeOK, VerdictHolds,
       CandidateIsWritten, SidecarNeverOverclaims, Sidecar, NoSidecar
  <1>9. CASE UNCHANGED vars
    BY <1>9 DEF vars, TypeOK, VerdictHolds, CandidateIsWritten,
       SidecarNeverOverclaims, Beats, PrevMetric
  <1> QED
    BY <1>1, <1>2, <1>3, <1>4, <1>5, <1>6, <1>7, <1>8, <1>9 DEF Next

(* Type correctness of the winner files and the trainer around them. *)
THEOREM TypeCorrect == Spec => []TypeOK
  <1>1. IInv => TypeOK
    BY DEF IInv
  <1> QED
    BY <1>1, InitIInv, StepIInv, PTL DEF Spec

(* The sidecar never claims more than best.pt backs, wherever the trainer  *)
(* dies between the two renames of save_winner.                            *)
THEOREM SidecarIsBacked == Spec => []SidecarNeverOverclaims
  <1>1. IInv => SidecarNeverOverclaims
    BY DEF IInv
  <1> QED
    BY <1>1, InitIInv, StepIInv, PTL DEF Spec

(* Unless the sidecar is corrupt, no step lowers the metric of best.pt: the *)
(* gate that read the files is still right when the rename happens.        *)
THEOREM WinnerNeverWorsens == Spec => BestNeverDecreases
  <1>1. IInv /\ [Next]_vars
          => [json.state # "torn" => pt'.metric >= pt.metric]_vars
    <2> SUFFICES ASSUME IInv, [Next]_vars, json.state # "torn"
                 PROVE  pt'.metric >= pt.metric \/ UNCHANGED vars
      OBVIOUS
    <2>1. pt.metric \in Int
      BY RatesAreNumbers DEF IInv, TypeOK, Winner
    <2>2. CASE WritePt
      BY <2>2, BeatsPt DEF IInv, VerdictHolds, WritePt
    <2>3. CASE Next /\ ~WritePt
      <3>1. pt' = pt
        BY <2>3 DEF Next, SavePoint, Accept, Refuse, WriteJson, Return, Fail, Crash, Tear
      <3> QED
        BY <2>1, <3>1
    <2> QED
      BY <2>2, <2>3
  <1> QED
    BY <1>1, InitIInv, StepIInv, PTL DEF Spec, BestNeverDecreases

(* Wherever the sidecar describes best.pt, a winner of equal metric is     *)
(* only replaced by one of a later iteration: a trainer that rolled back   *)
(* and offers earlier iterations again does not walk best.pt backwards.    *)
THEOREM TiesMoveForward == Spec => TieNeverMovesBack
  <1>1. IInv /\ [Next]_vars
          => [InStep /\ pt' # pt /\ pt'.metric = pt.metric => pt'.iter > pt.iter]_vars
    <2> SUFFICES ASSUME IInv, Next, InStep, pt' # pt, pt'.metric = pt.metric
                 PROVE  pt'.iter > pt.iter
      OBVIOUS
    <2>1. CASE WritePt
      <3>1. pt' = cand /\ Beats(cand)
        BY <2>1 DEF IInv, VerdictHolds, WritePt
      <3>2. pt.metric \in Int /\ cand.metric \in Int
        BY RatesAreNumbers DEF IInv, TypeOK, Winner
      <3>3. json.state = "ok" /\ json.metric = pt.metric /\ json.iter = pt.iter
        BY DEF InStep
      <3>4. PrevMetric = pt.metric
        BY <3>3 DEF PrevMetric
      <3> QED
        BY <3>1, <3>2, <3>3, <3>4 DEF Beats
    <2>2. CASE ~WritePt
      BY <2>2 DEF Next, SavePoint, Accept, Refuse, WriteJson, Return, Fail, Crash, Tear
    <2> QED
      BY <2>1, <2>2
  <1> QED
    BY <1>1, InitIInv, StepIInv, PTL DEF Spec, TieNeverMovesBack

(* Under the same condition the later of two equal candidates is never     *)
(* refused: a metric that has reached its ceiling does not freeze best.pt. *)
THEOREM LaterTiesPass == Spec => TieGoesToLaterIter
  <1>1. IInv /\ [Next]_vars
          => [InStep /\ pc = "decide" /\ pc' = "refused"
                => ~(cand.metric = pt.metric /\ cand.iter > pt.iter)]_vars
    <2> SUFFICES ASSUME IInv, Next, InStep, pc = "decide", pc' = "refused",
                        cand.metric = pt.metric, cand.iter > pt.iter
                 PROVE  FALSE
      OBVIOUS
    <2>1. ~Beats(cand)
      BY DEF Next, SavePoint, Accept, Refuse, WritePt, WriteJson, Return, Fail, Crash, Tear
    <2>2. json.state = "ok" /\ json.metric = pt.metric /\ json.iter = pt.iter
      BY DEF InStep
    <2>3. PrevMetric = pt.metric
      BY <2>2 DEF PrevMetric
    <2> QED
      BY <2>1, <2>2, <2>3 DEF Beats
  <1> QED
    BY <1>1, InitIInv, StepIInv, PTL DEF Spec, TieGoesToLaterIter

(* Together: wherever the sidecar describes best.pt, a tie is decided by   *)
(* the iteration alone.                                                    *)
THEOREM TiesAreDecided == Spec => TiesDecideByIter
  BY TiesMoveForward, LaterTiesPass DEF TiesDecideByIter
=============================================================================

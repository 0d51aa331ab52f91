-------------------------- MODULE ForgeBlockProof --------------------------
(***************************************************************************)
(* Proofs about ForgeBlock, for every number of blocks, cells, solutions   *)
(* and faults, every choice of faults and every plan.                      *)
(***************************************************************************)
EXTENDS ForgeBlock, TLAPS

USE BoundsAssumption, SwitchesAssumption

----------------------------------------------------------------------------
(* The inductive invariant *)

Polling == {"row", "lock", "exists", "root", "check", "inject", "readback"}
Watching == Polling \cup {"term", "grace"}

Typed ==
    /\ TypeOK
    /\ \A b \in Blocks : solver[b].pc # "none" => b <= block
    /\ phase # "idle" => block # 0
    /\ receipt.of <= block

(* A solver that is alive is the newest block's, while its runner watches  *)
(* it, or one that got away; what lies in solutions/ is named accordingly. *)
Owned ==
    /\ \A b \in Blocks : Alive(b) => b \in outlived \/ (b = block /\ phase \in Watching)
    /\ \A a \in solutions : /\ a.by <= block /\ a.at <= block
                            /\ a.by = a.at \/ a.by \in outlived

(* Why the block stops, by the line its runner is at. *)
Stops ==
    /\ phase \in Polling => stop = "none"
    /\ phase \in {"release", "quarantine"} => stop = "abort"
    /\ phase \in {"term", "grace"} => stop \in {"abort", "budget"}
    /\ phase = "bank" => stop \in {"budget", "complete"}

Ended == \A b \in aborted : b <= block /\ (b = block => phase = "idle")

(* From the injection on no poll finds the granted bytes any more.         *)
Injected ==
    /\ phase \in {"idle", "inject"} => ~control.done
    /\ control.done => root # Granted /\ stop \in {"none", "abort"}
    /\ control.done /\ phase = "check" => poll.root # Granted
    /\ phase = "readback" => root.mark \/ sneaked
    /\ control.sha # Lost => control.sha.mark \/ sneaked

AtMost(r, s) == r.cells <= s.cells /\ r.solutions <= s.solutions

(* What the runner polls in a clean directory with a healthy solver.       *)
Healthy ==
    clean /\ ~wrong /\ phase \in Polling =>
        /\ \A b \in Blocks : b # block => ~Alive(b)
        /\ lock.by \in {0, block} /\ poll.held \in {0, block}
        /\ root = Granted /\ (phase = "check" => poll.root = Granted)
        /\ Alive(block) => AtMost(row, solver[block])
        /\ AtMost(poll.prev, row)
        /\ phase \in {"lock", "exists", "root", "check"} =>
              AtMost(poll.prev, poll.cur) /\ AtMost(poll.cur, row)

----------------------------------------------------------------------------
(* The solver *)

LEMMA ConstantsTyped ==
    /\ NoRow \in Row /\ NoLock \in Lock /\ Granted \in Root /\ Lost \in Root
    /\ NoSolver \in Solver /\ Gone \in Solver /\ Gone.pc = "gone"
    /\ NoPoll \in Poll /\ NoControl \in Control /\ NoReceipt \in Receipt
  BY DEF NoRow, Row, NoLock, Lock, Granted, Lost, Root, NoSolver, Solver, Gone, NoPoll, Poll,
         NoControl, Control, NoReceipt, Receipt

LEMMA GoesTyped ==
    ASSUME TypeOK, NEW b \in Blocks,
           NEW from \in {"boot", "creating", "locked", "run", "exit"},
           NEW to \in {"creating", "locked", "run", "exit", "gone"}, Goes(b, from, to)
    PROVE  /\ Alive(b) /\ solver' \in [Blocks -> Solver]
           /\ \A c \in Blocks : c # b => solver'[c] = solver[c]
           /\ solver'[b].pc = to
           /\ to # "gone" => /\ solver'[b].cells = solver[b].cells
                             /\ solver'[b].solutions = solver[b].solutions
  <1>1. solver[b] \in Solver
    BY DEF TypeOK
  <1>2. [solver[b] EXCEPT !.pc = to] \in Solver
    BY <1>1 DEF Solver
  <1> QED
    BY <1>1, <1>2, ConstantsTyped DEF Goes, Alive, TypeOK, Solver

(* Whatever a solver does or suffers leaves the runner alone.              *)
LEMMA SolverMoves ==
    ASSUME Typed, NEW b \in Blocks, SolverStep(b) \/ Dies(b) \/ Resets(b)
    PROVE  /\ Alive(b) /\ b <= block
           /\ UNCHANGED <<runner, root, clean, sneaked, aborted, outlived>>
           /\ solver' \in [Blocks -> Solver]
           /\ \A c \in Blocks : c # b => solver'[c] = solver[c]
           /\ solver'[b].pc # "none"
           /\ wrong' \in BOOLEAN /\ (wrong => wrong')
           /\ row' \in Row /\ lock' \in Lock /\ dir' \in BOOLEAN
           /\ solutions' \subseteq Artifact /\ quarantine' \subseteq Artifact
           /\ faults' \in 0 .. MaxFaults
  <1>0. TypeOK /\ (Alive(b) => b <= block)
    BY DEF Typed, Alive
  <1>1. CASE Creates(b)
    <2>1. Goes(b, "boot", "creating")
      BY <1>1 DEF Creates
    <2>2. lock' \in Lock
      BY <1>1 DEF Creates, Lock, Blocks
    <2>3. Alive(b) /\ solver' \in [Blocks -> Solver] /\ solver'[b].pc = "creating"
          /\ \A c \in Blocks : c # b => solver'[c] = solver[c]
      BY <1>0, <2>1, GoesTyped
    <2> QED
      BY <1>0, <1>1, <2>2, <2>3 DEF Creates, Goes, TypeOK, history
  <1>2. CASE Refused(b)
    BY <1>0, <1>2, GoesTyped DEF Refused, Goes, TypeOK, history
  <1>3. CASE WritesLock(b)
    BY <1>0, <1>3, GoesTyped DEF WritesLock, Goes, TypeOK, Lock, history
  <1>4. CASE Ready(b)
    BY <1>0, <1>4, GoesTyped DEF Ready, Goes, TypeOK, files, history
  <1>5. CASE Reports(b)
    <2>1. solver[b] \in Solver
      BY <1>0 DEF TypeOK
    <2> DEFINE cells == IF solver[b].cells < MaxCells THEN solver[b].cells + 1
                        ELSE solver[b].cells
               next == [solver[b] EXCEPT !.steps = @ + 1, !.cells = cells]
    <2>a. solver[b].steps + 1 \in 0 .. StepBound /\ cells \in 0 .. MaxCells
      BY <1>5, <2>1 DEF Reports, Solver
    <2>b. next \in Solver /\ next.pc = "run"
      BY <1>5, <2>1, <2>a DEF Solver, Reports
    <2>c. solver' = [solver EXCEPT ![b] = next]
      BY <1>0, <1>5 DEF Reports, TypeOK, Solver
    <2> HIDE DEF next
    <2>2. /\ solver'[b] \in Solver /\ solver' \in [Blocks -> Solver] /\ solver'[b].pc = "run"
          /\ \A c \in Blocks : c # b => solver'[c] = solver[c]
      BY <1>0, <2>b, <2>c DEF TypeOK
    <2>3. row' \in Row
      BY <1>5, <2>2 DEF Reports, Row, Solver
    <2> QED
      BY <1>0, <1>5, <2>1, <2>2, <2>3 DEF Reports, Alive, TypeOK, history
  <1>6. CASE Finds(b)
    <2>1. solver[b] \in Solver /\ solver[b].pc = "run" /\ b <= block /\ block \in Blocks
      BY <1>0, <1>6 DEF TypeOK, Finds, Alive, Blocks
    <2>2. [name |-> solver[b].solutions, by |-> b, at |-> block] \in Artifact
      BY <2>1 DEF Artifact, Solver
    <2>3. solutions' \subseteq Artifact
      BY <1>0, <1>6, <2>2 DEF Finds, TypeOK
    <2>4. solver' \in [Blocks -> Solver] /\ solver'[b].pc # "none"
      BY <1>0, <1>6, <2>1 DEF Finds, TypeOK, Solver
    <2> QED
      BY <1>0, <1>6, <2>1, <2>3, <2>4 DEF Finds, Alive, TypeOK, history
  <1>7. CASE Finishes(b)
    <2>1. row' \in Row
      BY <1>0, <1>7 DEF Finishes, TypeOK, Row, Solver
    <2> QED
      BY <1>0, <1>7, <2>1, GoesTyped DEF Finishes, Goes, TypeOK, history
  <1>8. CASE Unlocks(b)
    BY <1>0, <1>8, GoesTyped, ConstantsTyped DEF Unlocks, Goes, TypeOK, history
  <1>9. CASE Dies(b)
    <2>1. solver[b].pc \in {"boot", "creating", "locked", "run", "exit"}
      BY <1>0, <1>9 DEF Dies, Alive, TypeOK, Solver
    <2>2. Goes(b, solver[b].pc, "gone") /\ UNCHANGED files /\ faults' = faults + 1
          /\ faults < MaxFaults
      BY <1>9 DEF Dies, Fault
    <2>3. Alive(b) /\ solver' \in [Blocks -> Solver] /\ solver'[b].pc = "gone"
          /\ \A c \in Blocks : c # b => solver'[c] = solver[c]
      BY <1>0, <2>1, <2>2, GoesTyped
    <2> QED
      BY <1>0, <2>2, <2>3 DEF Goes, TypeOK, files, history
  <1>10. CASE Resets(b)
    <2>1. solver' \in [Blocks -> Solver] /\ solver'[b].pc = "run"
          /\ \A c \in Blocks : c # b => solver'[c] = solver[c]
      <3>1. PICK c \in 0 .. solver[b].cells, s \in 0 .. solver[b].solutions :
                solver' = [solver EXCEPT ![b].cells = c, ![b].solutions = s]
        BY <1>10 DEF Resets
      <3>2. solver[b] \in Solver /\ solver[b].pc = "run"
        BY <1>0, <1>10 DEF TypeOK, Resets
      <3>3. c \in 0 .. MaxCells /\ s \in 0 .. MaxSolutions
        BY <3>2 DEF Solver
      <3> DEFINE next == [solver[b] EXCEPT !.cells = c, !.solutions = s]
      <3>4. next \in Solver /\ next.pc = "run"
        BY <3>2, <3>3 DEF Solver
      <3>5. solver' = [solver EXCEPT ![b] = next]
        BY <1>0, <3>1 DEF TypeOK
      <3> HIDE DEF next
      <3> QED
        BY <1>0, <3>4, <3>5 DEF TypeOK
    <2>2. Alive(b)
      BY <1>10 DEF Resets, Alive
    <2>3. faults' \in 0 .. MaxFaults
      <3>1. faults \in 0 .. MaxFaults
        BY <1>0 DEF TypeOK
      <3> QED
        BY <1>10, <3>1 DEF Resets, Fault
    <2> QED
      BY <1>0, <1>10, <2>1, <2>2, <2>3 DEF Resets, TypeOK, files, runner
  <1> QED
    BY <1>1, <1>2, <1>3, <1>4, <1>5, <1>6, <1>7, <1>8, <1>9, <1>10 DEF SolverStep

----------------------------------------------------------------------------
(* Type correctness *)

LEMMA InitTyped == Init => Typed
  <1> SUFFICES ASSUME Init PROVE Typed
    OBVIOUS
  <1>1. solver \in [Blocks -> Solver] /\ \A b \in Blocks : solver[b].pc = "none"
    BY ConstantsTyped DEF Init, NoSolver
  <1>2. block \in 0 .. MaxBlocks /\ faults \in 0 .. MaxFaults /\ receipt.of <= block
    BY DEF Init, NoReceipt
  <1>3. TypeOK
    BY <1>1, <1>2, ConstantsTyped DEF Init, TypeOK
  <1> QED
    BY <1>1, <1>2, <1>3 DEF Init, Typed

LEMMA ReadsTyped ==
    ASSUME Typed, NEW from \in Polling, NEW to \in Polling, NEW next \in Poll,
           Reads(from, to, next)
    PROVE  Typed'
  BY DEF Typed, TypeOK, Reads, Polling, files, history

LEMMA PollTyped ==
    ASSUME Typed, ReadRow \/ ReadLock \/ LockExists \/ ReadRoot
    PROVE  Typed'
  <1>0. poll \in Poll /\ row \in Row /\ lock \in Lock /\ root \in Root
    BY DEF Typed, TypeOK
  <1>1. CASE ReadRow
    <2>1. [NoPoll EXCEPT !.prev = poll.prev, !.cur = row] \in Poll
      BY <1>0, ConstantsTyped DEF Poll
    <2> QED
      BY <1>1, <2>1, ReadsTyped DEF ReadRow, Polling
  <1>2. CASE ReadLock
    <2>1. [poll EXCEPT !.held = lock.by] \in Poll
      BY <1>0 DEF Poll, Lock
    <2> QED
      BY <1>0, <1>2, <2>1, ReadsTyped DEF ReadLock, Polling
  <1>3. CASE LockExists
    <2>1. [poll EXCEPT !.blind = (lock.by # 0)] \in Poll
      BY <1>0 DEF Poll
    <2> QED
      BY <1>3, <2>1, ReadsTyped DEF LockExists, Polling
  <1>4. CASE ReadRoot
    <2>1. [poll EXCEPT !.root = root] \in Poll
      BY <1>0 DEF Poll
    <2> QED
      BY <1>4, <2>1, ReadsTyped DEF ReadRoot, Polling
  <1> QED
    BY <1>1, <1>2, <1>3, <1>4

LEMMA VerdictTyped == Verdict(poll) \in Reasons \cup {"none"}
  BY DEF Verdict, Reasons

LEMMA PassesTyped ==
    ASSUME Typed, NEW why \in {"none", "budget", "complete"},
           NEW next \in {"row", "inject", "term", "bank"}, Passes(why, next)
    PROVE  Typed'
  <1>1. poll' \in Poll
    BY ConstantsTyped DEF Passes, Typed, TypeOK, Poll
  <1> QED
    BY <1>1 DEF Typed, TypeOK, Passes, files, history

LEMMA ClosesTyped ==
    ASSUME Typed, NEW banked \in SUBSET Artifact, Closes(banked), phase # "idle",
           dir' \in BOOLEAN, solutions' \subseteq Artifact, quarantine' \subseteq Artifact
    PROVE  Typed'
  <1>1. control \in Control /\ block \in Blocks /\ stop \in {"none", "abort", "budget", "complete"}
    BY DEF Typed, TypeOK, Blocks
  <1>2. receipt' \in Receipt /\ receipt'.of = block
    BY <1>1 DEF Closes, Receipt, Caught, Control, Root, Blocks
  <1>3. aborted' \subseteq Blocks
    BY <1>1 DEF Closes, Typed, TypeOK
  <1> QED
    BY <1>1, <1>2, <1>3, ConstantsTyped DEF Typed, TypeOK, Closes

LEMMA FaultTyped ==
    ASSUME TypeOK, NEW f \in Faults, Fault(f)
    PROVE  faults' \in 0 .. MaxFaults
  <1>1. faults \in 0 .. MaxFaults
    BY DEF TypeOK
  <1> QED
    BY <1>1 DEF Fault

LEMMA AbortReceipt ==
    ASSUME NEW r \in Receipt, NEW b \in 0 .. MaxBlocks
    PROVE  /\ [r EXCEPT !.of = b, !.stop = "abort"] \in Receipt
           /\ [r EXCEPT !.of = b, !.stop = "abort"].of = b
           /\ [r EXCEPT !.of = b, !.stop = "abort"].banked = r.banked
           /\ [r EXCEPT !.of = b, !.stop = "abort"].done = r.done
           /\ [r EXCEPT !.of = b, !.stop = "abort"].caught = r.caught
  BY DEF Receipt

LEMMA RefuseReceipt ==
    ASSUME TypeOK, Refuse
    PROVE  receipt'.of = block' /\ receipt'.banked = {} /\ ~receipt'.done /\ ~receipt'.caught
  <1>1. block + 1 \in 0 .. MaxBlocks
    BY DEF TypeOK, Refuse
  <1>2. NoReceipt.banked = {} /\ ~NoReceipt.done /\ ~NoReceipt.caught
    BY DEF NoReceipt
  <1> QED
    BY <1>1, <1>2, ConstantsTyped, AbortReceipt DEF Refuse

LEMMA StepTyped == Typed /\ [Next]_vars => Typed'
  <1> SUFFICES ASSUME Typed, [Next]_vars PROVE Typed'
    OBVIOUS
  <1>0. TypeOK
    BY DEF Typed
  <1>1. ASSUME NEW b \in Blocks, SolverStep(b) \/ Dies(b) \/ Resets(b) PROVE Typed'
    BY <1>0, <1>1, SolverMoves DEF Typed, TypeOK, runner
  <1>2. CASE ReadRow \/ ReadLock \/ LockExists \/ ReadRoot
    BY <1>2, PollTyped
  <1>3. CASE Trips
    <2>1. [control EXCEPT !.trip = poll.root] \in Control
      BY <1>0 DEF TypeOK, Control, Poll
    <2>2. Verdict(poll) \in Reasons \cup {"none"}
      BY VerdictTyped
    <2>3. phase' = "term" /\ phase = "check" /\ stop' = "abort" /\ poll' \in Poll
      BY <1>3, ConstantsTyped DEF Trips
    <2> QED
      BY <1>3, <2>1, <2>2, <2>3 DEF Typed, TypeOK, Trips, files, history
  <1>4. CASE StepsAreSpent \/ TimeIsUp
    BY <1>4, PassesTyped DEF StepsAreSpent, TimeIsUp
  <1>5. CASE SolverIsGone
    BY <1>5, PassesTyped DEF SolverIsGone
  <1>6. CASE GoesOn
    BY <1>6, PassesTyped DEF GoesOn
  <1>7. CASE Injects
    <2>1. root' \in Root /\ control' \in Control
      <3>1. [base |-> IF root = Lost THEN "empty" ELSE root.base, mark |-> TRUE] \in Root
        BY <1>0 DEF TypeOK, Root
      <3>2. [control EXCEPT !.done = TRUE] \in Control
        BY <1>0 DEF TypeOK, Control
      <3> QED
        BY <1>0, <1>7, <3>1, <3>2 DEF Injects, TypeOK
    <2>2. wrong' \in BOOLEAN /\ phase' \in {"row", "readback"} /\ phase = "inject"
      BY <1>0, <1>7 DEF Injects, TypeOK
    <2> QED
      BY <1>7, <2>1, <2>2 DEF Typed, TypeOK, Injects
  <1>8. CASE ReadsBack
    <2>1. control' \in Control
      BY <1>0, <1>8 DEF ReadsBack, TypeOK, Control
    <2> QED
      BY <1>8, <2>1 DEF Typed, TypeOK, ReadsBack, files, history
  <1>9. CASE Terminates
    <2>0. phase = "term" /\ block \in Blocks
      BY <1>9 DEF Terminates, Typed, TypeOK, Blocks
    <2>1. solver' \in [Blocks -> Solver]
          /\ \A b \in Blocks : solver'[b].pc # "none" => solver[b].pc # "none"
      BY <1>0, <1>9, <2>0, ConstantsTyped DEF Terminates, TypeOK
    <2> QED
      BY <1>9, <2>0, <2>1 DEF Typed, TypeOK, Terminates, files, history
  <1>10. CASE GraceEnds
    BY <1>10 DEF GraceEnds, Settled, Typed, TypeOK, files, history
  <1>11. CASE Kills
    <2>0. phase = "grace" /\ block \in Blocks /\ Alive(block)
      BY <1>11 DEF Kills, Typed, TypeOK, Blocks
    <2>1. solver' \in [Blocks -> Solver]
          /\ \A b \in Blocks : solver'[b].pc # "none" => solver[b].pc # "none"
      BY <1>0, <1>11, <2>0, ConstantsTyped DEF Kills, TypeOK, Alive
    <2>2. outlived' \subseteq Blocks /\ faults' \in 0 .. MaxFaults
      BY <1>0, <1>11, <2>0, FaultTyped DEF Kills, TypeOK, Fault
    <2> QED
      BY <1>11, <2>0, <2>1, <2>2 DEF Typed, TypeOK, Kills, Settled, files
  <1>12. CASE ReleasesLock
    BY <1>12, ConstantsTyped DEF ReleasesLock, Typed, TypeOK, history
  <1>13. CASE Quarantines
    <2>1. solutions' \subseteq Artifact /\ quarantine' \subseteq Artifact /\ dir' \in BOOLEAN
      BY <1>0, <1>13 DEF Quarantines, TypeOK
    <2> QED
      BY <1>13, <2>1, ClosesTyped DEF Quarantines
  <1>14. CASE Banks
    <2>1. {a \in solutions : a.at >= block} \in SUBSET Artifact
      BY <1>0 DEF TypeOK
    <2>2. solutions' \subseteq Artifact /\ quarantine' \subseteq Artifact /\ dir' \in BOOLEAN
      BY <1>0, <1>14 DEF Banks, TypeOK
    <2> QED
      BY <1>14, <2>1, <2>2, ClosesTyped DEF Banks
  <1>15. CASE Launch
    <2>1. /\ block' \in Blocks /\ block' \in 0 .. MaxBlocks /\ block \in 0 .. MaxBlocks
          /\ block' = block + 1 /\ block < MaxBlocks
      BY <1>0, <1>15 DEF Launch, TypeOK, Blocks
    <2>2. solver' \in [Blocks -> Solver]
          /\ \A b \in Blocks : b # block' => solver'[b] = solver[b]
      BY <1>0, <1>15, <2>1 DEF Launch, TypeOK, Solver
    <2>3. control' \in Control
      BY <1>15, ConstantsTyped DEF Launch, Control
    <2>4. clean' \in BOOLEAN /\ poll' \in Poll /\ root' \in Root
      BY <1>15, ConstantsTyped DEF Launch
    <2>5. TypeOK'
      BY <1>0, <1>15, <2>1, <2>2, <2>3, <2>4 DEF TypeOK, Launch
    <2>6. receipt'.of <= block'
      BY <1>15, <2>1 DEF Typed, TypeOK, Launch, Receipt
    <2>7. \A b \in Blocks : solver'[b].pc # "none" => b <= block'
      BY <2>1, <2>2 DEF Typed, Blocks
    <2> QED
      BY <2>1, <2>5, <2>6, <2>7 DEF Typed, Blocks
  <1>16. CASE Refuse
    <2>1. block' \in Blocks /\ block' = block + 1 /\ block \in 0 .. MaxBlocks
      BY <1>0, <1>16 DEF Refuse, TypeOK, Blocks
    <2>2. receipt' \in Receipt /\ receipt'.of = block'
      <3>1. block + 1 \in 0 .. MaxBlocks
        BY <2>1 DEF Blocks
      <3> QED
        BY <1>16, <2>1, <3>1, ConstantsTyped, AbortReceipt DEF Refuse
    <2>3. root' \in Root /\ aborted' \subseteq Blocks /\ faults' \in 0 .. MaxFaults
      BY <1>0, <1>16, <2>1, ConstantsTyped, FaultTyped DEF Refuse, TypeOK, Fault
    <2>4. TypeOK'
      BY <1>0, <1>16, <2>1, <2>2, <2>3 DEF TypeOK, Refuse, Blocks
    <2> QED
      BY <1>16, <2>1, <2>2, <2>4 DEF Typed, Refuse, Blocks
  <1>17. CASE RootChanges
    <2>1. root' \in Root /\ faults' \in 0 .. MaxFaults
      <3>1. [base |-> "swapped", mark |-> FALSE] \in Root
        BY DEF Root
      <3> QED
        BY <1>0, <1>17, <3>1, ConstantsTyped, FaultTyped DEF RootChanges, Fault
    <2> QED
      BY <1>17, <2>1 DEF Typed, TypeOK, RootChanges, runner
  <1>18. CASE LockIsTruncated
    <2>1. lock' \in Lock /\ faults' \in 0 .. MaxFaults
      BY <1>0, <1>18, FaultTyped DEF LockIsTruncated, Lock, TypeOK, Fault
    <2> QED
      BY <1>18, <2>1 DEF Typed, TypeOK, LockIsTruncated, runner
  <1>19. CASE RunnerDies
    <2>1. faults' \in 0 .. MaxFaults /\ block \in Blocks /\ outlived' \subseteq Blocks
      BY <1>0, <1>19, FaultTyped DEF RunnerDies, Typed, TypeOK, Blocks, Fault
    <2> QED
      BY <1>19, <2>1, ConstantsTyped DEF Typed, TypeOK, RunnerDies, files
  <1>20. CASE UNCHANGED vars
    BY <1>20 DEF Typed, TypeOK, vars, files, runner, history
  <1> QED
    BY <1>1, <1>2, <1>3, <1>4, <1>5, <1>6, <1>7, <1>8, <1>9, <1>10, <1>11, <1>12, <1>13,
       <1>14, <1>15, <1>16, <1>17, <1>18, <1>19, <1>20 DEF Next, RunnerStep, Disturbance

(* The type invariant, for every bound, plan and set of faults.            *)
THEOREM TypeCorrect == Spec => []TypeOK
  <1>1. Typed => TypeOK
    BY DEF Typed
  <1> QED
    BY <1>1, InitTyped, StepTyped, PTL DEF Spec

----------------------------------------------------------------------------
(* What is banked, and what is left behind *)

LEMMA SolverWrites ==
    ASSUME Typed, NEW b \in Blocks, SolverStep(b) \/ Dies(b) \/ Resets(b)
    PROVE  \A a \in solutions' : a \in solutions \/ (a.by = b /\ a.at = block)
  BY DEF SolverStep, Creates, Refused, WritesLock, Ready, Reports, Finds, Finishes, Unlocks,
         Dies, Resets, files

LEMMA StepStops == Typed /\ Stops /\ [Next]_vars => Stops'
  <1> SUFFICES ASSUME Typed, Stops, [Next]_vars PROVE Stops'
    OBVIOUS
  <1>1. ASSUME NEW b \in Blocks, SolverStep(b) \/ Dies(b) \/ Resets(b) PROVE Stops'
    BY <1>1, SolverMoves DEF Stops, runner
  <1>2. CASE RunnerStep
    BY <1>2 DEF Stops, RunnerStep, ReadRow, ReadLock, LockExists, ReadRoot, Reads, Trips,
       StepsAreSpent, TimeIsUp, SolverIsGone, GoesOn, Passes, Injects, ReadsBack, Terminates,
       GraceEnds, Kills, Settled, ReleasesLock, Quarantines, Banks, Closes, Polling
  <1>3. CASE Launch \/ Refuse \/ RootChanges \/ LockIsTruncated \/ RunnerDies \/ UNCHANGED vars
    BY <1>3 DEF Stops, Launch, Refuse, RootChanges, LockIsTruncated, RunnerDies, vars, runner,
       Polling
  <1> QED
    BY <1>1, <1>2, <1>3 DEF Next, Disturbance

LEMMA StepEnded == Typed /\ Stops /\ Ended /\ [Next]_vars => Ended'
  <1> SUFFICES ASSUME Typed, Stops, Ended, [Next]_vars PROVE Ended'
    OBVIOUS
  <1>0. block \in Nat /\ aborted \subseteq Blocks
    BY DEF Typed, TypeOK
  <1>1. ASSUME NEW b \in Blocks, SolverStep(b) \/ Dies(b) \/ Resets(b) PROVE Ended'
    BY <1>1, SolverMoves DEF Ended, runner
  <1>2. CASE Quarantines \/ Banks
    BY <1>0, <1>2 DEF Ended, Quarantines, Banks, Closes
  <1>3. CASE Launch \/ Refuse
    BY <1>0, <1>3 DEF Ended, Launch, Refuse, Blocks
  <1>4. CASE RunnerStep /\ ~Quarantines /\ ~Banks
    BY <1>4 DEF Ended, RunnerStep, ReadRow, ReadLock, LockExists, ReadRoot, Reads, Trips,
       StepsAreSpent, TimeIsUp, SolverIsGone, GoesOn, Passes, Injects, ReadsBack, Terminates,
       GraceEnds, Kills, ReleasesLock, history
  <1>5. CASE RootChanges \/ LockIsTruncated \/ RunnerDies \/ UNCHANGED vars
    BY <1>5 DEF Ended, RootChanges, LockIsTruncated, RunnerDies, vars, runner, history
  <1> QED
    BY <1>1, <1>2, <1>3, <1>4, <1>5 DEF Next, Disturbance

LEMMA StepOwned == Typed /\ Owned /\ [Next]_vars => Owned'
  <1> SUFFICES ASSUME Typed, Owned, [Next]_vars PROVE Owned'
    OBVIOUS
  <1>0. /\ block \in Nat /\ solver \in [Blocks -> Solver] /\ (phase # "idle" => block \in Blocks)
        /\ solutions \subseteq Artifact /\ \A b \in Blocks : solver[b].pc # "none" => b <= block
    BY DEF Typed, TypeOK, Blocks
  <1>1. ASSUME NEW b \in Blocks, SolverStep(b) \/ Dies(b) \/ Resets(b) PROVE Owned'
    <2>1. Alive(b) /\ b <= block /\ UNCHANGED <<block, phase, outlived>>
          /\ \A c \in Blocks : c # b => solver'[c] = solver[c]
      BY <1>1, SolverMoves DEF runner
    <2>2. \A c \in Blocks : Alive(c)' => Alive(c)
      BY <2>1 DEF Alive
    <2>3. \A a \in solutions' : a \in solutions \/ (a.by = b /\ a.at = block)
      BY <1>1, SolverWrites
    <2>4. b = block \/ b \in outlived
      BY <2>1 DEF Owned
    <2> QED
      BY <1>0, <2>1, <2>2, <2>3, <2>4 DEF Owned
  <1>2. ASSUME UNCHANGED <<solver, solutions, block, outlived>>,
               \A b \in Blocks : Alive(b) /\ b = block /\ phase \in Watching => phase' \in Watching
        PROVE  Owned'
    BY <1>2 DEF Owned, Alive
  <1>3. CASE ReadRow \/ ReadLock \/ LockExists \/ ReadRoot
    BY <1>2, <1>3 DEF ReadRow, ReadLock, LockExists, ReadRoot, Reads, Watching, Polling, files,
       history
  <1>4. CASE Trips \/ StepsAreSpent \/ TimeIsUp \/ GoesOn \/ SolverIsGone
    BY <1>2, <1>4 DEF Trips, StepsAreSpent, TimeIsUp, GoesOn, SolverIsGone, Passes, Watching,
       Polling, files, history
  <1>5. CASE Injects \/ ReadsBack \/ GraceEnds \/ ReleasesLock
    BY <1>2, <1>5 DEF Injects, ReadsBack, GraceEnds, ReleasesLock, Watching, Polling, files,
       history
  <1>6. CASE Terminates
    <2>1. block \in Blocks /\ phase' \in Watching /\ UNCHANGED <<solutions, block, outlived>>
      BY <1>0, <1>6 DEF Terminates, Watching, files, history
    <2>2. \A b \in Blocks : Alive(b)' => Alive(b)
      BY <1>0, <1>6, <2>1, ConstantsTyped DEF Terminates, Alive, Gone
    <2> QED
      BY <1>0, <2>1, <2>2, <1>6 DEF Owned, Terminates, Watching
  <1>7. CASE Kills
    <2>1. block \in Blocks /\ UNCHANGED <<solutions, block>> /\ outlived \subseteq outlived'
      BY <1>0, <1>7 DEF Kills, files
    <2>2. \A b \in Blocks : Alive(b)' => Alive(b) /\ (b = block => block \in outlived')
      BY <1>0, <1>7, <2>1, ConstantsTyped DEF Kills, Alive
    <2> QED
      BY <1>0, <2>1, <2>2 DEF Owned
  <1>8. CASE Quarantines \/ Banks
    <2>1. /\ UNCHANGED <<solver, block, outlived>> /\ solutions' \subseteq solutions
          /\ phase \notin Watching
      BY <1>8 DEF Quarantines, Banks, Closes, Watching, Polling
    <2> QED
      BY <1>0, <2>1 DEF Owned, Alive
  <1>9. CASE Launch
    <2>1. block' = block + 1 /\ block' \in Blocks /\ phase = "idle" /\ phase' \in Watching
          /\ UNCHANGED <<solutions, outlived>>
      BY <1>0, <1>9 DEF Launch, Blocks, Watching, Polling
    <2>2. \A b \in Blocks : b # block' => solver'[b] = solver[b]
      BY <1>0, <1>9, <2>1 DEF Launch
    <2> QED
      BY <1>0, <2>1, <2>2 DEF Owned, Alive, Watching, Polling, Artifact, Blocks
  <1>10. CASE Refuse
    <2>1. block' = block + 1 /\ phase = "idle" /\ UNCHANGED <<solver, solutions, outlived>>
      BY <1>10 DEF Refuse
    <2> QED
      BY <1>0, <2>1 DEF Owned, Alive, Watching, Polling, Artifact, Blocks
  <1>11. CASE RunnerDies
    <2>1. UNCHANGED <<solver, solutions, block>> /\ outlived \subseteq outlived'
          /\ (Alive(block) => block \in outlived')
      BY <1>11 DEF RunnerDies, files
    <2> QED
      BY <1>0, <2>1 DEF Owned, Alive
  <1>12. CASE RootChanges \/ LockIsTruncated \/ UNCHANGED vars
    BY <1>2, <1>12 DEF RootChanges, LockIsTruncated, vars, runner, files, history
  <1> QED
    BY <1>1, <1>3, <1>4, <1>5, <1>6, <1>7, <1>8, <1>9, <1>10, <1>11, <1>12
       DEF Next, RunnerStep, Disturbance

LEMMA StepBanked == Typed /\ Owned /\ BankedIsOwn /\ [Next]_vars => BankedIsOwn'
  <1> SUFFICES ASSUME Typed, Owned, BankedIsOwn, [Next]_vars PROVE BankedIsOwn'
    OBVIOUS
  <1>0. block \in Nat /\ solutions \subseteq Artifact
    BY DEF Typed, TypeOK
  <1>1. ASSUME receipt' = receipt, outlived \subseteq outlived' PROVE BankedIsOwn'
    BY <1>1 DEF BankedIsOwn
  <1>2. ASSUME NEW b \in Blocks, SolverStep(b) \/ Dies(b) \/ Resets(b) PROVE BankedIsOwn'
    BY <1>1, <1>2, SolverMoves DEF runner
  <1>3. CASE Banks
    <2>1. \A a \in solutions : a.at >= block => a.by = block \/ a.by \in outlived
      BY <1>0 DEF Owned, Artifact, Blocks
    <2> QED
      BY <1>3, <2>1 DEF Banks, Closes, BankedIsOwn
  <1>4. CASE Quarantines \/ Refuse
    BY <1>4, RefuseReceipt DEF Typed, Quarantines, Closes, BankedIsOwn
  <1>5. CASE RunnerStep /\ ~Banks /\ ~Quarantines
    BY <1>1, <1>5 DEF RunnerStep, ReadRow, ReadLock, LockExists, ReadRoot, Reads, Trips,
       StepsAreSpent, TimeIsUp, SolverIsGone, GoesOn, Passes, Injects, ReadsBack, Terminates,
       GraceEnds, Kills, ReleasesLock, history
  <1>6. CASE Launch \/ RootChanges \/ LockIsTruncated \/ RunnerDies \/ UNCHANGED vars
    BY <1>1, <1>6 DEF Launch, RootChanges, LockIsTruncated, RunnerDies, vars, runner, history
  <1> QED
    BY <1>2, <1>3, <1>4, <1>5, <1>6 DEF Next, Disturbance

LEMMA StepBuried ==
    Typed /\ Stops /\ Ended /\ Owned /\ AbortedAreQuarantined /\ [Next]_vars
        => AbortedAreQuarantined'
  <1> SUFFICES ASSUME Typed, Stops, Ended, Owned, AbortedAreQuarantined, [Next]_vars
               PROVE  AbortedAreQuarantined'
    OBVIOUS
  <1>0. block \in Nat /\ solutions \subseteq Artifact
    BY DEF Typed, TypeOK
  <1>1. ASSUME solutions' = solutions, aborted' = aborted, outlived \subseteq outlived'
        PROVE  AbortedAreQuarantined'
    BY <1>1 DEF AbortedAreQuarantined
  <1>2. ASSUME NEW b \in Blocks, SolverStep(b) \/ Dies(b) \/ Resets(b)
        PROVE  AbortedAreQuarantined'
    <2>1. UNCHANGED <<block, phase, aborted, outlived>> /\ Alive(b)
      BY <1>2, SolverMoves DEF runner
    <2>2. b \in outlived \/ b \notin aborted
      BY <2>1 DEF Owned, Ended, Watching, Polling
    <2> QED
      BY <1>2, <2>1, <2>2, SolverWrites DEF AbortedAreQuarantined
  <1>3. CASE Banks
    BY <1>1, <1>3 DEF Banks, Closes, Stops
  <1>4. CASE Quarantines
    BY <1>4 DEF Quarantines, Closes, AbortedAreQuarantined
  <1>5. CASE Refuse
    <2>1. \A a \in solutions : a.by # block + 1
      BY <1>0 DEF Owned, Artifact, Blocks
    <2> QED
      BY <1>5, <2>1 DEF Refuse, AbortedAreQuarantined
  <1>6. CASE RunnerStep /\ ~Banks /\ ~Quarantines
    BY <1>1, <1>6 DEF RunnerStep, ReadRow, ReadLock, LockExists, ReadRoot, Reads, Trips,
       StepsAreSpent, TimeIsUp, SolverIsGone, GoesOn, Passes, Injects, ReadsBack, Terminates,
       GraceEnds, Kills, ReleasesLock, files, history
  <1>7. CASE Launch \/ RootChanges \/ LockIsTruncated \/ RunnerDies \/ UNCHANGED vars
    BY <1>1, <1>7 DEF Launch, RootChanges, LockIsTruncated, RunnerDies, vars, files, history
  <1> QED
    BY <1>2, <1>3, <1>4, <1>5, <1>6, <1>7 DEF Next, Disturbance

----------------------------------------------------------------------------
(* The positive control *)

LEMMA GrantedPasses == Verdict(poll) = "none" => poll.root = Granted
  BY DEF Verdict

LEMMA StepInjected == Typed /\ Stops /\ Injected /\ [Next]_vars => Injected'
  <1> SUFFICES ASSUME Typed, Stops, Injected, [Next]_vars PROVE Injected'
    OBVIOUS
  <1>0. control \in Control /\ root \in Root
    BY DEF Typed, TypeOK
  <1>1. ASSUME NEW b \in Blocks, SolverStep(b) \/ Dies(b) \/ Resets(b) PROVE Injected'
    BY <1>1, SolverMoves DEF Injected, runner
  <1>2. CASE ReadRow \/ ReadLock \/ LockExists
    BY <1>2 DEF ReadRow, ReadLock, LockExists, Reads, Injected, files, history
  <1>3. CASE ReadRoot
    <2>1. poll'.root = root
      BY <1>3 DEF ReadRoot, Reads, Typed, TypeOK, Poll
    <2> QED
      BY <1>3, <2>1 DEF ReadRoot, Reads, Injected, files, history
  <1>4. CASE Trips
    <2>1. control'.done = control.done /\ control'.sha = control.sha
      BY <1>0, <1>4 DEF Trips, Control
    <2> QED
      BY <1>4, <2>1 DEF Trips, Injected, files, history
  <1>5. CASE StepsAreSpent \/ TimeIsUp \/ SolverIsGone \/ GoesOn
    <2>1. /\ phase = "check" /\ Verdict(poll) = "none" /\ phase' \in {"term", "bank", "inject", "row"}
          /\ UNCHANGED <<control, root, sneaked>>
      BY <1>5 DEF StepsAreSpent, TimeIsUp, SolverIsGone, GoesOn, Passes, files, history
    <2>2. ~control.done
      BY <2>1, GrantedPasses DEF Injected
    <2> QED
      BY <2>1, <2>2 DEF Injected
  <1>6. CASE Injects
    <2>1. ASSUME phase' = "readback", control' = [control EXCEPT !.done = TRUE],
                 root' = [base |-> IF root = Lost THEN "empty" ELSE root.base, mark |-> TRUE],
                 UNCHANGED <<stop, sneaked>>, phase = "inject"
          PROVE  Injected'
      <3>1. control'.done /\ control'.sha = control.sha
        BY <1>0, <2>1 DEF Control
      <3>2. root'.mark /\ root' # Granted
        BY <2>1 DEF Granted
      <3>3. stop = "none"
        BY <2>1 DEF Stops, Polling
      <3> QED
        BY <2>1, <3>1, <3>2, <3>3 DEF Injected
    <2>2. ASSUME phase' = "row", UNCHANGED <<root, control, stop, sneaked>> PROVE Injected'
      BY <2>2 DEF Injected
    <2> QED
      BY <1>6, <2>1, <2>2 DEF Injects
  <1>7. CASE ReadsBack
    <2>1. control'.done = control.done /\ control'.sha = root
      BY <1>0, <1>7 DEF ReadsBack, Control
    <2> QED
      BY <1>7, <2>1 DEF ReadsBack, Injected, files, history
  <1>8. CASE Terminates \/ GraceEnds \/ Kills \/ ReleasesLock
    BY <1>8 DEF Terminates, GraceEnds, Kills, Settled, ReleasesLock, Injected, files, history
  <1>9. ASSUME control' = NoControl, phase' # "readback" PROVE Injected'
    BY <1>9 DEF NoControl, Injected, Lost
  <1>10. CASE Quarantines \/ Banks \/ RunnerDies
    BY <1>9, <1>10 DEF Quarantines, Banks, Closes, RunnerDies
  <1>11. CASE Launch
    <2>1. PICK wanted \in Controls : control' = [NoControl EXCEPT !.wanted = wanted]
      BY <1>11 DEF Launch
    <2>2. ~control'.done /\ control'.sha = Lost
      BY <2>1 DEF NoControl
    <2> QED
      BY <1>11, <2>2 DEF Launch, Injected
  <1>12. CASE Refuse
    BY <1>12 DEF Refuse, Injected
  <1>13. CASE RootChanges
    <2>1. root' # Granted /\ sneaked' = (sneaked \/ phase = "readback")
      BY <1>13 DEF RootChanges, Lost, Granted
    <2> QED
      BY <1>13, <2>1 DEF RootChanges, Injected, runner
  <1>14. CASE LockIsTruncated \/ UNCHANGED vars
    BY <1>14 DEF LockIsTruncated, Injected, vars, files, runner, history
  <1> QED
    BY <1>1, <1>2, <1>3, <1>4, <1>5, <1>6, <1>7, <1>8, <1>10, <1>11, <1>12, <1>13, <1>14
       DEF Next, RunnerStep, Disturbance

LEMMA StepControlled ==
    Typed /\ Stops /\ Injected /\ ControlWorks /\ [Next]_vars => ControlWorks'
  <1> SUFFICES ASSUME Typed, Stops, Injected, ControlWorks, [Next]_vars PROVE ControlWorks'
    OBVIOUS
  <1>1. ASSUME UNCHANGED <<receipt, block>>, sneaked => sneaked' PROVE ControlWorks'
    BY <1>1 DEF ControlWorks
  <1>2. ASSUME NEW b \in Blocks, SolverStep(b) \/ Dies(b) \/ Resets(b) PROVE ControlWorks'
    BY <1>1, <1>2, SolverMoves DEF runner
  <1>3. ASSUME NEW banked, Closes(banked), (stop = "abort" /\ banked = {}) \/ ~control.done
        PROVE  ControlWorks'
    <2>1. /\ receipt'.stop = stop /\ receipt'.banked = banked /\ receipt'.done = control.done
          /\ receipt'.caught = Caught /\ receipt'.marked = control.trip.mark /\ sneaked' = sneaked
      BY <1>3 DEF Closes
    <2>2. Caught => control.done /\ (control.trip.mark \/ sneaked)
      BY DEF Caught, Injected
    <2> QED
      BY <1>3, <2>1, <2>2 DEF ControlWorks
  <1>4. CASE Quarantines
    BY <1>3, <1>4 DEF Quarantines, Stops
  <1>5. CASE Banks
    BY <1>3, <1>5 DEF Banks, Stops, Injected
  <1>6. CASE RunnerStep /\ ~Banks /\ ~Quarantines
    BY <1>1, <1>6 DEF RunnerStep, ReadRow, ReadLock, LockExists, ReadRoot, Reads, Trips,
       StepsAreSpent, TimeIsUp, SolverIsGone, GoesOn, Passes, Injects, ReadsBack, Terminates,
       GraceEnds, Kills, ReleasesLock, history
  <1>7. CASE Launch
    <2>1. receipt'.of < block' /\ receipt' = receipt
      BY <1>7 DEF Launch, Typed, TypeOK, Receipt
    <2>2. receipt'.of # block'
      BY <1>7, <2>1 DEF Launch, Typed, TypeOK, Receipt
    <2> QED
      BY <2>1, <2>2 DEF ControlWorks
  <1>8. CASE Refuse
    BY <1>8, RefuseReceipt DEF Typed, ControlWorks
  <1>9. CASE RootChanges
    BY <1>1, <1>9 DEF RootChanges, runner
  <1>10. CASE LockIsTruncated \/ UNCHANGED vars
    BY <1>1, <1>10 DEF LockIsTruncated, vars, runner, history
  <1>11. CASE RunnerDies
    BY <1>1, <1>11 DEF RunnerDies
  <1> QED
    BY <1>2, <1>4, <1>5, <1>6, <1>7, <1>8, <1>9, <1>10, <1>11 DEF Next, Disturbance

----------------------------------------------------------------------------
(* A healthy solver in a clean directory *)

LEMMA AtMostTransitive ==
    ASSUME NEW r \in Row, NEW s \in Row, NEW t \in Row, AtMost(r, s), AtMost(s, t)
    PROVE  AtMost(r, t)
  BY DEF AtMost, Row

LEMMA SolverRows ==
    ASSUME Typed, NEW b \in Blocks, SolverStep(b) \/ Dies(b) \/ Resets(b), ~wrong',
           AtMost(row, solver[b])
    PROVE  /\ AtMost(row, row') /\ (Alive(b)' => AtMost(row', solver'[b]))
           /\ lock'.by \in {0, b, lock.by}
  <1>0. TypeOK /\ solver[b] \in Solver /\ row \in Row /\ lock \in Lock
    BY DEF Typed, TypeOK
  <1>1. ASSUME row' = row, solver'[b].cells = solver[b].cells \/ solver'[b].pc = "gone",
               solver[b].solutions <= solver'[b].solutions \/ solver'[b].pc = "gone"
        PROVE  AtMost(row, row') /\ (Alive(b)' => AtMost(row', solver'[b]))
    <2>1. solver'[b] \in Solver
      BY SolverMoves
    <2> QED
      BY <1>0, <1>1, <2>1 DEF AtMost, Alive, Row, Solver
  <1>2. CASE Creates(b)
    BY <1>0, <1>1, <1>2, GoesTyped DEF Creates, Solver
  <1>3. CASE Refused(b)
    BY <1>0, <1>1, <1>3, GoesTyped DEF Refused
  <1>4. CASE WritesLock(b)
    BY <1>0, <1>1, <1>4, GoesTyped DEF WritesLock, Solver, Lock
  <1>5. CASE Ready(b)
    BY <1>0, <1>1, <1>5, GoesTyped DEF Ready, Solver, files
  <1>6. CASE Reports(b)
    <2>1. solver'[b] \in Solver /\ solver'[b].solutions = solver[b].solutions
          /\ solver[b].cells <= solver'[b].cells
      <3>1. solver'[b] = [solver[b] EXCEPT !.steps = @ + 1,
                              !.cells = IF @ < MaxCells THEN @ + 1 ELSE @]
        BY <1>0, <1>6 DEF Reports, TypeOK
      <3> QED
        BY <1>0, <1>6, <3>1, SolverMoves DEF Solver
    <2>2. row'.cells = solver'[b].cells /\ row'.solutions = solver'[b].solutions /\ lock' = lock
      BY <1>6 DEF Reports
    <2> QED
      BY <1>0, <2>1, <2>2 DEF AtMost, Row, Solver
  <1>7. CASE Finds(b)
    <2>1. row' = row /\ lock' = lock /\ solver'[b].cells = solver[b].cells
          /\ solver[b].solutions <= solver'[b].solutions
      BY <1>0, <1>7 DEF Finds, TypeOK, Solver
    <2> QED
      BY <1>1, <2>1
  <1>8. CASE Finishes(b)
    <2>1. row'.cells = solver[b].cells /\ row'.solutions = solver[b].solutions /\ lock' = lock
      BY <1>8 DEF Finishes
    <2>2. solver'[b].cells = solver[b].cells /\ solver'[b].solutions = solver[b].solutions
      BY <1>0, <1>8, GoesTyped DEF Finishes
    <2> QED
      BY <1>0, <2>1, <2>2 DEF AtMost, Row, Solver
  <1>9. CASE Unlocks(b)
    BY <1>0, <1>1, <1>9, GoesTyped DEF Unlocks, NoLock
  <1>10. CASE Dies(b)
    <2>1. solver'[b].pc = "gone" /\ UNCHANGED files
      BY <1>0, <1>10, ConstantsTyped DEF Dies, Goes, TypeOK
    <2> QED
      BY <1>1, <2>1 DEF files
  <1>11. CASE Resets(b)
    BY <1>11 DEF Resets
  <1> QED
    BY <1>2, <1>3, <1>4, <1>5, <1>6, <1>7, <1>8, <1>9, <1>10, <1>11 DEF SolverStep

LEMMA StepHealthy == Typed /\ Healthy /\ [Next]_vars => Healthy'
  <1> SUFFICES ASSUME Typed, Healthy, [Next]_vars, clean', ~wrong', phase' \in Polling
               PROVE  Healthy'
    BY DEF Healthy
  <1>0. /\ row \in Row /\ lock \in Lock /\ root \in Root /\ poll \in Poll /\ block \in Nat
        /\ poll.prev \in Row /\ poll.cur \in Row /\ (phase # "idle" => block \in Blocks)
        /\ solver \in [Blocks -> Solver]
    BY DEF Typed, TypeOK, Poll, Blocks
  <1>1. ASSUME NEW b \in Blocks, SolverStep(b) \/ Dies(b) \/ Resets(b) PROVE Healthy'
    <2>1. /\ Alive(b) /\ UNCHANGED <<block, phase, poll, root, clean>> /\ ~wrong /\ row' \in Row
          /\ \A c \in Blocks : c # b => solver'[c] = solver[c]
      BY <1>1, SolverMoves DEF runner
    <2>2. b = block /\ AtMost(row, solver[b])
      BY <2>1 DEF Healthy
    <2>3. /\ AtMost(row, row') /\ (Alive(b)' => AtMost(row', solver'[b]))
          /\ lock'.by \in {0, b, lock.by}
      BY <1>1, <2>2, SolverRows
    <2>4. AtMost(poll.prev, row') /\ (AtMost(poll.cur, row) => AtMost(poll.cur, row'))
      <3>1. AtMost(poll.prev, row)
        BY <2>1 DEF Healthy
      <3>2. poll.prev \in Row /\ poll.cur \in Row /\ row \in Row /\ row' \in Row
        BY <1>0, <2>1
      <3>3. AtMost(row, row')
        BY <2>3
      <3> QED
        BY <3>1, <3>2, <3>3 DEF AtMost, Row
    <2> QED
      BY <2>1, <2>2, <2>3, <2>4 DEF Healthy, Alive
  <1>2. CASE ReadRow
    <2>1. /\ poll'.prev = poll.prev /\ poll'.cur = row /\ poll'.held = 0 /\ phase' = "lock"
          /\ phase = "row" /\ UNCHANGED <<solver, block, lock, row, root, clean, wrong>>
      BY <1>0, <1>2 DEF ReadRow, Reads, Poll, NoPoll, files, history
    <2>2. AtMost(row, row)
      BY <1>0 DEF AtMost, Row
    <2> QED
      BY <2>1, <2>2 DEF Healthy, Alive, Polling
  <1>3. CASE ReadLock
    <2>1. /\ poll'.prev = poll.prev /\ poll'.cur = poll.cur /\ poll'.held \in {poll.held, lock.by}
          /\ phase' \in {"root", "exists"} /\ phase = "lock"
          /\ UNCHANGED <<solver, block, lock, row, root, clean, wrong>>
      BY <1>0, <1>3 DEF ReadLock, Reads, Poll, files, history
    <2> QED
      BY <2>1 DEF Healthy, Alive, Polling
  <1>4. CASE LockExists
    <2>1. /\ poll'.prev = poll.prev /\ poll'.cur = poll.cur /\ poll'.held = poll.held
          /\ phase' = "root" /\ phase = "exists"
          /\ UNCHANGED <<solver, block, lock, row, root, clean, wrong>>
      BY <1>0, <1>4 DEF LockExists, Reads, Poll, files, history
    <2> QED
      BY <2>1 DEF Healthy, Alive, Polling
  <1>5. CASE ReadRoot
    <2>1. /\ poll'.prev = poll.prev /\ poll'.cur = poll.cur /\ poll'.held = poll.held
          /\ poll'.root = root /\ phase' = "check" /\ phase = "root"
          /\ UNCHANGED <<solver, block, lock, row, root, clean, wrong>>
      BY <1>0, <1>5 DEF ReadRoot, Reads, Poll, files, history
    <2> QED
      BY <2>1 DEF Healthy, Alive, Polling
  <1>6. CASE GoesOn
    <2>1. /\ poll'.prev = poll.cur /\ poll'.held = 0 /\ phase' \in {"inject", "row"}
          /\ phase = "check" /\ UNCHANGED <<solver, block, lock, row, root, clean, wrong>>
      BY <1>0, <1>6 DEF GoesOn, Passes, Poll, NoPoll, files, history
    <2> QED
      BY <2>1 DEF Healthy, Alive, Polling
  <1>7. CASE Injects
    <2>1. /\ phase' = "row" /\ phase = "inject"
          /\ UNCHANGED <<solver, block, lock, row, root, poll, clean, wrong>>
      BY <1>7 DEF Injects
    <2> QED
      BY <2>1 DEF Healthy, Alive, Polling
  <1>8. CASE ReadsBack
    <2>1. /\ phase' = "row" /\ phase = "readback"
          /\ UNCHANGED <<solver, block, lock, row, root, poll, clean, wrong>>
      BY <1>8 DEF ReadsBack, files, history
    <2> QED
      BY <2>1 DEF Healthy, Alive, Polling
  <1>9. CASE Launch
    <2>a. row = NoRow /\ lock = NoLock /\ \A b \in Blocks : ~Alive(b)
      BY <1>9 DEF Launch
    <2>b. block' = block + 1 /\ block' \in Blocks
      BY <1>0, <1>9 DEF Launch, Blocks
    <2>1. /\ phase' = "row" /\ root' = Granted /\ poll' = NoPoll /\ UNCHANGED <<row, lock>>
      BY <1>9 DEF Launch
    <2>2. \A b \in Blocks : b # block' => solver'[b] = solver[b]
      BY <1>0, <1>9, <2>b DEF Launch
    <2>3. solver'[block'] \in Solver
      <3>1. Typed'
        BY StepTyped
      <3> QED
        BY <2>b, <3>1 DEF Typed, TypeOK
    <2>4. AtMost(row', solver'[block'])
      BY <2>a, <2>1, <2>3 DEF AtMost, NoRow, Solver
    <2>5. AtMost(poll'.prev, row') /\ poll'.held = 0 /\ lock'.by = 0
      BY <2>a, <2>1 DEF AtMost, NoRow, NoPoll, NoLock
    <2> QED
      BY <2>a, <2>b, <2>1, <2>2, <2>4, <2>5 DEF Healthy, Alive
  <1>10. CASE \/ Trips \/ StepsAreSpent \/ TimeIsUp \/ SolverIsGone \/ Terminates \/ GraceEnds
              \/ Kills \/ ReleasesLock \/ Quarantines \/ Banks \/ Refuse \/ RunnerDies
    BY <1>10 DEF Trips, StepsAreSpent, TimeIsUp, SolverIsGone, Passes, Terminates, GraceEnds, Kills,
       Settled, ReleasesLock, Quarantines, Banks, Closes, Refuse, RunnerDies, Polling
  <1>11. CASE RootChanges \/ LockIsTruncated
    BY <1>11 DEF RootChanges, LockIsTruncated
  <1>12. CASE UNCHANGED vars
    BY <1>12 DEF Healthy, Alive, vars, files, runner, history
  <1> QED
    BY <1>1, <1>2, <1>3, <1>4, <1>5, <1>6, <1>7, <1>8, <1>9, <1>10, <1>11, <1>12
       DEF Next, RunnerStep, Disturbance

LEMMA HealthyPasses ==
    ASSUME Typed, Healthy, clean, ~wrong, phase = "check"
    PROVE  Verdict(poll) \in {"none", "lock_unreadable"}
  <1>1. poll.prev \in Row /\ poll.cur \in Row /\ poll.held \in {0, block} /\ poll.root = Granted
        /\ AtMost(poll.prev, poll.cur)
    BY DEF Typed, TypeOK, Poll, Healthy, Polling
  <1>2. ~Decreased(poll.prev.cells, poll.cur.cells)
        /\ ~Decreased(poll.prev.solutions, poll.cur.solutions)
    BY <1>1 DEF Decreased, AtMost, Row
  <1>3. Granted # Lost
    BY DEF Granted, Lost
  <1> QED
    BY <1>1, <1>2, <1>3 DEF Verdict

LEMMA StepReal == Typed /\ Healthy /\ TripsAreReal /\ [Next]_vars => TripsAreReal'
  <1> SUFFICES ASSUME Typed, Healthy, TripsAreReal, [Next]_vars PROVE TripsAreReal'
    OBVIOUS
  <1>1. ASSUME UNCHANGED <<trip, clean>>, wrong => wrong' PROVE TripsAreReal'
    BY <1>1 DEF TripsAreReal
  <1>2. ASSUME NEW b \in Blocks, SolverStep(b) \/ Dies(b) \/ Resets(b) PROVE TripsAreReal'
    BY <1>1, <1>2, SolverMoves DEF runner
  <1>3. CASE Trips
    BY <1>3, HealthyPasses DEF Trips, TripsAreReal, history
  <1>4. CASE RunnerStep /\ ~Trips
    BY <1>1, <1>4 DEF RunnerStep, ReadRow, ReadLock, LockExists, ReadRoot, Reads,
       StepsAreSpent, TimeIsUp, SolverIsGone, GoesOn, Passes, Injects, ReadsBack, Terminates,
       GraceEnds, Kills, ReleasesLock, Quarantines, Banks, Closes, history
  <1>5. CASE Launch \/ Refuse
    BY <1>5 DEF Launch, Refuse, TripsAreReal
  <1>6. CASE RootChanges \/ LockIsTruncated
    BY <1>1, <1>6 DEF RootChanges, LockIsTruncated, runner
  <1>7. CASE RunnerDies \/ UNCHANGED vars
    BY <1>1, <1>7 DEF RunnerDies, vars, runner, history
  <1> QED
    BY <1>2, <1>3, <1>4, <1>5, <1>6, <1>7 DEF Next, Disturbance

----------------------------------------------------------------------------
(* The theorems *)

IInv == /\ Typed /\ Owned /\ Stops /\ Ended /\ Injected /\ Healthy
        /\ BankedIsOwn /\ AbortedAreQuarantined /\ ControlWorks /\ TripsAreReal

LEMMA InitIInv == Init => IInv
  <1> SUFFICES ASSUME Init PROVE IInv
    OBVIOUS
  <1>1. Typed
    BY InitTyped
  <1>2. \A b \in Blocks : ~Alive(b)
    BY DEF Init, Alive, NoSolver
  <1>3. Owned /\ Stops /\ Ended /\ Healthy /\ AbortedAreQuarantined /\ TripsAreReal
    BY <1>2 DEF Init, Owned, Stops, Ended, Healthy, AbortedAreQuarantined, TripsAreReal, Polling
  <1>4. Injected
    BY DEF Init, Injected, NoControl
  <1>5. BankedIsOwn /\ ControlWorks
    BY DEF Init, BankedIsOwn, ControlWorks, NoReceipt
  <1> QED
    BY <1>1, <1>3, <1>4, <1>5 DEF IInv

LEMMA StepIInv == IInv /\ [Next]_vars => IInv'
  BY StepTyped, StepOwned, StepStops, StepEnded, StepInjected, StepHealthy, StepBanked,
     StepBuried, StepControlled, StepReal DEF IInv

(* A block banks only its own solver's work and that of solvers that got   *)
(* away, through crashes of the runner and blocks that follow in the same  *)
(* directory.                                                              *)
THEOREM BanksItsOwn == Spec => []BankedIsOwn
  <1>1. IInv => BankedIsOwn
    BY DEF IInv
  <1> QED
    BY <1>1, InitIInv, StepIInv, PTL DEF Spec

(* Nothing an aborted block's solver made is left where banking looks,     *)
(* unless that solver got away from its runner.                            *)
THEOREM AbortsAreQuarantined == Spec => []AbortedAreQuarantined
  <1>1. IInv => AbortedAreQuarantined
    BY DEF IInv
  <1> QED
    BY <1>1, InitIInv, StepIInv, PTL DEF Spec

(* A block in which a reset was injected is aborted and banks nothing, and *)
(* only such a block is credited with the control.                         *)
THEOREM InjectionsAreCaught == Spec => []ControlWorks
  <1>1. IInv => ControlWorks
    BY DEF IInv
  <1> QED
    BY <1>1, InitIInv, StepIInv, PTL DEF Spec

(* In a clean directory only something wrong makes the watchdog trip, or   *)
(* the lock read while it is created.                                      *)
THEOREM NoFalseTrips == Spec => []TripsAreReal
  <1>1. IInv => TripsAreReal
    BY DEF IInv
  <1> QED
    BY <1>1, InitIInv, StepIInv, PTL DEF Spec
=============================================================================

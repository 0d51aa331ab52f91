----------------------------- MODULE ForgeBlock -----------------------------
(***************************************************************************)
(* The block runner of the forge (run_block in src/forge/block.py) and the *)
(* solver it launches in a session of its own.  The runner polls the       *)
(* solver's files, one read after the other, while the solver goes on;     *)
(* it stops the block when a reading looks like a wrongful reset, when the *)
(* block's time or steps are used up, or when the solver is gone.  Blocks  *)
(* follow each other in one --out directory, whose files they share.       *)
(*                                                                         *)
(* A block has the number of its solver.  The file times that the bank     *)
(* floor is compared with are the numbers of the blocks they fall into.    *)
(***************************************************************************)
EXTENDS Integers, FiniteSets

CONSTANTS
    MaxBlocks,      \* bound: blocks in the directory
    MaxCells,       \* bound: cells a solver finds
    MaxSolutions,   \* bound: solutions a solver writes
    StepBound,      \* max_steps, in progress rows
    Controls,       \* the plans' inject_wrongful_reset
    Faults,
    MaxFaults       \* bound: faults in a behaviour

AllFaults ==
    {"reset", "root", "lock", "refuse", "kill", "unkillable", "crash"}

ASSUME BoundsAssumption ==
    /\ MaxBlocks \in Nat /\ MaxCells \in Nat /\ MaxSolutions \in Nat
    /\ StepBound \in Nat \ {0} /\ MaxFaults \in Nat
ASSUME SwitchesAssumption == Controls \subseteq BOOLEAN /\ Faults \subseteq AllFaults

Blocks == 1 .. MaxBlocks

Row == [cells : 0 .. MaxCells, solutions : 0 .. MaxSolutions, steps : 0 .. StepBound]
NoRow == [cells |-> 0, solutions |-> 0, steps |-> 0]
Lock == [by : 0 .. MaxBlocks, whole : BOOLEAN]
NoLock == [by |-> 0, whole |-> FALSE]
(* The sandboxed root state: what its bytes are, and whether the injected  *)
(* ones are appended.  A hash is the value itself.                         *)
Root == [base : {"granted", "swapped", "empty", "lost"}, mark : BOOLEAN]
Granted == [base |-> "granted", mark |-> FALSE]
Lost == [base |-> "lost", mark |-> FALSE]
Artifact == [name : Nat, by : Blocks, at : Blocks]

Reasons == {"cells_decreased", "solutions_decreased", "root_state_lost",
            "root_state_mismatch", "lock_unreadable", "lock_holder_mismatch"}
Solver == [pc : {"none", "boot", "creating", "locked", "run", "exit", "gone"},
           cells : 0 .. MaxCells, solutions : 0 .. MaxSolutions,
           steps : 0 .. StepBound]
NoSolver == [pc |-> "none", cells |-> 0, solutions |-> 0, steps |-> 0]
Gone == [NoSolver EXCEPT !.pc = "gone"]
Poll == [prev : Row, cur : Row, held : 0 .. MaxBlocks, blind : BOOLEAN, root : Root]
NoPoll == [prev |-> NoRow, cur |-> NoRow, held |-> 0, blind |-> FALSE, root |-> Granted]
(* The positive control: the plan's request, whether bytes were written,   *)
(* the hash read back, and the hash at the trip.                           *)
Control == [wanted : BOOLEAN, done : BOOLEAN, sha : Root, trip : Root]
NoControl == [wanted |-> FALSE, done |-> FALSE, sha |-> Lost, trip |-> Lost]
Receipt == [of : 0 .. MaxBlocks, stop : {"none", "abort", "budget", "complete"},
            banked : SUBSET Artifact, done : BOOLEAN, caught : BOOLEAN, marked : BOOLEAN]
NoReceipt == [of |-> 0, stop |-> "none", banked |-> {}, done |-> FALSE,
              caught |-> FALSE, marked |-> FALSE]

VARIABLES
    row, lock, root,        \* progress.jsonl's tail, .run.lock, the sandboxed root
    dir, solutions,         \* solutions/: whether it exists, its files
    quarantine,             \* quarantine/
    solver,                 \* the processes, by block
    block, phase,           \* the newest block; the line its runner is at
    poll, control,          \* run_block's local variables
    stop, trip,             \* why the block stops; the condition that tripped
    receipt,                \* block_receipt.json, the newest block's
    faults,
    clean,      \* history: the block found a directory without leftovers
    wrong,      \* history: something in the block was reset or tampered with
    sneaked,    \* history: root changed between injection and read-back
    aborted,    \* history: the blocks that were aborted
    outlived    \* history: the blocks whose runner left a solver behind

files == <<row, lock, root, dir, solutions, quarantine>>
runner == <<block, phase, poll, control, stop, trip, receipt>>
history == <<clean, wrong, sneaked, aborted, outlived>>
vars == <<files, solver, runner, faults, history>>

TypeOK ==
    /\ row \in Row /\ lock \in Lock /\ root \in Root
    /\ dir \in BOOLEAN /\ solutions \subseteq Artifact /\ quarantine \subseteq Artifact
    /\ solver \in [Blocks -> Solver]
    /\ block \in 0 .. MaxBlocks
    /\ phase \in {"idle", "row", "lock", "exists", "root", "check", "inject",
                  "readback", "term", "grace", "release", "quarantine", "bank"}
    /\ poll \in Poll /\ control \in Control
    /\ stop \in {"none", "abort", "budget", "complete"}
    /\ trip \in Reasons \cup {"none"}
    /\ receipt \in Receipt
    /\ faults \in 0 .. MaxFaults
    /\ clean \in BOOLEAN /\ wrong \in BOOLEAN /\ sneaked \in BOOLEAN
    /\ aborted \subseteq Blocks /\ outlived \subseteq Blocks

Init ==
    /\ row = NoRow /\ lock = NoLock /\ root = Lost
    /\ dir = FALSE /\ solutions = {} /\ quarantine = {}
    /\ solver = [b \in Blocks |-> NoSolver]
    /\ block = 0 /\ phase = "idle" /\ poll = NoPoll /\ control = NoControl
    /\ stop = "none"
    /\ trip = "none" /\ receipt = NoReceipt /\ faults = 0
    /\ clean = FALSE /\ wrong = FALSE /\ sneaked = FALSE
    /\ aborted = {} /\ outlived = {}

Alive(b) == solver[b].pc \notin {"none", "gone"}
Fault(f) == f \in Faults /\ faults < MaxFaults /\ faults' = faults + 1

----------------------------------------------------------------------------
(* The solver (scripts/go_explore_solve.py) *)

Goes(b, from, to) ==
    /\ solver[b].pc = from
    /\ solver' = [solver EXCEPT ![b] = IF to = "gone" THEN Gone ELSE [@ EXCEPT !.pc = to]]
    /\ UNCHANGED <<runner, history>>

(* run_lock.acquire: a lock that is absent, unreadable or a dead process's *)
(* is replaced; its system calls are RunLock's.                            *)
Creates(b) ==
    /\ lock.whole => ~Alive(lock.by)
    /\ Goes(b, "boot", "creating")
    /\ dir' = TRUE /\ lock' = [by |-> b, whole |-> FALSE]
    /\ UNCHANGED <<row, root, solutions, quarantine, faults>>

Refused(b) ==
    /\ lock.whole /\ Alive(lock.by)
    /\ Goes(b, "boot", "gone")
    /\ dir' = TRUE
    /\ UNCHANGED <<row, lock, root, solutions, quarantine, faults>>

WritesLock(b) ==
    /\ Goes(b, "creating", "locked")
    /\ lock' = [lock EXCEPT !.whole = (lock.by = b \/ @)]
    /\ UNCHANGED <<row, root, dir, solutions, quarantine, faults>>

(* The rest of the construction; the handlers of main() are in place.      *)
Ready(b) == Goes(b, "locked", "run") /\ UNCHANGED <<files, faults>>

(* progress_line: one row, appended as a whole.  A row counts one more     *)
(* cell until there is none left to find.                                  *)
Reports(b) ==
    /\ solver[b].pc = "run" /\ solver[b].steps < StepBound
    /\ solver' = [solver EXCEPT ![b].steps = @ + 1,
                                ![b].cells = IF @ < MaxCells THEN @ + 1 ELSE @]
    /\ row' = [cells |-> solver'[b].cells, solutions |-> solver'[b].solutions,
               steps |-> solver'[b].steps]
    /\ UNCHANGED <<lock, root, dir, solutions, quarantine, runner, faults, history>>

(* A solution replaces the file of its number; without the directory the   *)
(* write raises, and the process ends.                                     *)
Finds(b) ==
    /\ solver[b].pc = "run" /\ solver[b].solutions < MaxSolutions
    /\ IF dir
       THEN LET n == solver[b].solutions IN
            /\ solutions' = {a \in solutions : a.name # n}
                              \cup {[name |-> n, by |-> b, at |-> block]}
            /\ solver' = [solver EXCEPT ![b].solutions = n + 1]
       ELSE solver' = [solver EXCEPT ![b].pc = "exit"] /\ UNCHANGED solutions
    /\ UNCHANGED <<row, lock, root, dir, quarantine, runner, faults, history>>

(* explore() returns, of its own accord or after SIGTERM; a last row.      *)
Finishes(b) ==
    /\ Goes(b, "run", "exit")
    /\ row' = [cells |-> solver[b].cells, solutions |-> solver[b].solutions,
               steps |-> solver[b].steps]
    /\ UNCHANGED <<lock, root, dir, solutions, quarantine, faults>>

(* atexit unlinks the path, whoever's lock it names by now.                *)
Unlocks(b) ==
    /\ Goes(b, "exit", "gone")
    /\ lock' = NoLock
    /\ UNCHANGED <<row, root, dir, solutions, quarantine, faults>>

Dies(b) ==
    /\ Alive(b) /\ Fault("kill")
    /\ Goes(b, solver[b].pc, "gone")
    /\ UNCHANGED files

SolverStep(b) ==
    \/ Creates(b) \/ Refused(b) \/ WritesLock(b) \/ Ready(b)
    \/ Reports(b) \/ Finds(b) \/ Finishes(b) \/ Unlocks(b)

----------------------------------------------------------------------------
(* What the watchdog is there for *)

(* A solver starts over in place: its counts fall.                         *)
Resets(b) ==
    /\ solver[b].pc = "run" /\ Fault("reset")
    /\ \E c \in 0 .. solver[b].cells, s \in 0 .. solver[b].solutions :
          /\ <<c, s>> # <<solver[b].cells, solver[b].solutions>>
          /\ solver' = [solver EXCEPT ![b].cells = c, ![b].solutions = s]
    /\ wrong' = TRUE
    /\ UNCHANGED <<files, runner, clean, sneaked, aborted, outlived>>

RootChanges ==
    /\ phase # "idle" /\ Fault("root")
    /\ root' \in {Lost, [base |-> "swapped", mark |-> FALSE]} \ {root}
    /\ wrong' = TRUE /\ sneaked' = (sneaked \/ phase = "readback")
    /\ UNCHANGED <<row, lock, dir, solutions, quarantine, solver, runner, clean, aborted,
                   outlived>>

LockIsTruncated ==
    /\ phase # "idle" /\ lock.whole /\ Fault("lock")
    /\ lock' = [lock EXCEPT !.whole = FALSE]
    /\ wrong' = TRUE
    /\ UNCHANGED <<row, root, dir, solutions, quarantine, solver, runner, clean, sneaked,
                   aborted, outlived>>

----------------------------------------------------------------------------
(* The runner *)

(* Nothing of the block happens: no grant, no floor, a root state that     *)
(* does not read or has drifted, or a launch that fails after the copy.    *)
Refuse ==
    /\ phase = "idle" /\ block < MaxBlocks /\ Fault("refuse")
    /\ block' = block + 1
    /\ receipt' = [NoReceipt EXCEPT !.of = block + 1, !.stop = "abort"]
    /\ trip' = "none" /\ aborted' = aborted \cup {block + 1}
    /\ root' \in {root, Granted}
    /\ UNCHANGED <<row, lock, dir, solutions, quarantine, solver, phase, poll, control,
                   stop, clean, wrong, sneaked, outlived>>

(* The floor, the copy of the root state, the launch.                      *)
Launch ==
    /\ phase = "idle" /\ block < MaxBlocks
    /\ block' = block + 1 /\ phase' = "row"
    /\ root' = Granted
    /\ solver' = [solver EXCEPT ![block + 1].pc = "boot"]
    /\ poll' = NoPoll /\ stop' = "none"
    /\ \E wanted \in Controls : control' = [NoControl EXCEPT !.wanted = wanted]
    /\ trip' = "none" /\ wrong' = FALSE /\ sneaked' = FALSE
    /\ clean' = (row = NoRow /\ lock = NoLock /\ \A b \in Blocks : ~Alive(b))
    /\ UNCHANGED <<row, lock, dir, solutions, quarantine, receipt, faults, aborted,
                   outlived>>

(* The steps of the poll, each of which reads one thing.                   *)
Reads(from, to, next) ==
    /\ phase = from /\ phase' = to
    /\ poll' = next
    /\ UNCHANGED <<files, solver, block, control, stop, trip, receipt, faults,
                   history>>

ReadRow == Reads("row", "lock", [NoPoll EXCEPT !.prev = poll.prev, !.cur = row])

(* A lock that is missing or does not parse has no holder to compare; then *)
(* it is looked for a second time.                                         *)
ReadLock ==
    IF lock.whole THEN Reads("lock", "root", [poll EXCEPT !.held = lock.by])
                  ELSE Reads("lock", "exists", poll)
LockExists == Reads("exists", "root", [poll EXCEPT !.blind = (lock.by # 0)])

(* Mutant: the hash is taken once, not in every poll.                      *)
ReadRoot_Cached ==
    Reads("root", "check", [poll EXCEPT !.root = IF poll.prev = NoRow THEN root ELSE Granted])

ReadRoot == Reads("root", "check", [poll EXCEPT !.root = root])

(* Mutant: a row that has not changed counts as a decrease.                *)
Decreased_Flat(before, after) == before > 0 /\ after <= before

Decreased(before, after) == after < before

(* Mutant: a reason that no reader of the receipt knows.                   *)
Verdict_Vague(p) ==
    IF Decreased(p.prev.cells, p.cur.cells) \/ Decreased(p.prev.solutions, p.cur.solutions)
    THEN "decreased" ELSE "none"

(* wrongful_reset: the first condition that holds.                         *)
Verdict(p) ==
    IF Decreased(p.prev.cells, p.cur.cells) THEN "cells_decreased"
    ELSE IF Decreased(p.prev.solutions, p.cur.solutions) THEN "solutions_decreased"
    ELSE IF p.root = Lost THEN "root_state_lost"
    ELSE IF p.root # Granted THEN "root_state_mismatch"
    ELSE IF p.blind THEN "lock_unreadable"
    ELSE IF p.held \notin {0, block} THEN "lock_holder_mismatch"
    ELSE "none"

Trips ==
    /\ phase = "check" /\ Verdict(poll) # "none"
    /\ trip' = Verdict(poll)
    /\ control' = [control EXCEPT !.trip = poll.root]
    /\ stop' = "abort" /\ phase' = "term"
    /\ poll' = NoPoll
    /\ UNCHANGED <<files, solver, block, receipt, faults, history>>

(* No trip.  The next poll compares with this row.                         *)
Passes(why, next) ==
    /\ phase = "check" /\ Verdict(poll) = "none"
    /\ stop' = why /\ phase' = next
    /\ poll' = IF why = "none" THEN [NoPoll EXCEPT !.prev = poll.cur] ELSE NoPoll
    /\ UNCHANGED <<files, solver, block, control, trip, receipt, faults, history>>

StepsAreSpent == Passes("budget", "term") /\ poll.cur.steps >= StepBound

(* Mutant: only the steps bound a block, not the time.                     *)
TimeIsUp_Never == FALSE /\ Passes("budget", "term")

(* At any check max_secs may have passed.                                  *)
TimeIsUp == Passes("budget", "term")

SolverIsGone ==
    Passes("complete", "bank") /\ poll.cur.steps < StepBound /\ ~Alive(block)

(* The control is injected, once, after a first row; then the loop sleeps. *)
GoesOn ==
    /\ Passes("none", IF control.wanted /\ ~control.done /\ poll.cur # NoRow
                      THEN "inject" ELSE "row")
    /\ poll.cur.steps < StepBound /\ Alive(block)

(* The bytes are appended, to a new file if the copy is lost; a write that *)
(* fails is tried again after the next poll.                               *)
Injects ==
    /\ phase = "inject"
    /\ \/ /\ root' = [base |-> IF root = Lost THEN "empty" ELSE root.base, mark |-> TRUE]
          /\ control' = [control EXCEPT !.done = TRUE]
          /\ wrong' = TRUE
          /\ phase' = "readback"
       \/ /\ phase' = "row"
          /\ UNCHANGED <<root, control, wrong>>
    /\ UNCHANGED <<row, lock, dir, solutions, quarantine, solver, block, poll, stop,
                   trip, receipt, faults, clean, sneaked, aborted, outlived>>

ReadsBack ==
    /\ phase = "readback" /\ phase' = "row"
    /\ control' = [control EXCEPT !.sha = root]
    /\ UNCHANGED <<files, solver, block, poll, stop, trip, receipt, faults, history>>

(* _hard_abort.  Until its handler is set SIGTERM ends the process where   *)
(* it stands; afterwards it asks it to finish.                             *)
Terminates ==
    /\ phase = "term" /\ phase' = "grace"
    /\ solver' = [solver EXCEPT ![block] =
                     IF @.pc \in {"boot", "creating", "locked"} THEN Gone ELSE @]
    /\ UNCHANGED <<files, block, poll, control, stop, trip, receipt, faults, history>>

Settled == IF stop = "abort" THEN "release" ELSE "bank"

GraceEnds ==
    /\ phase = "grace" /\ ~Alive(block)
    /\ phase' = Settled
    /\ UNCHANGED <<files, solver, block, poll, control, stop, trip, receipt, faults,
                   history>>

(* Mutant: a solver that does not finish in time is left running.          *)
Kills_TermOnly ==
    /\ phase = "grace" /\ Alive(block)
    /\ phase' = Settled
    /\ UNCHANGED <<files, solver, block, poll, control, stop, trip, receipt, faults,
                   history>>

(* The grace is over: SIGKILL.  Whether it worked is not looked at.        *)
Kills ==
    /\ phase = "grace" /\ Alive(block)
    /\ phase' = Settled
    /\ \/ /\ solver' = [solver EXCEPT ![block] = Gone]
          /\ UNCHANGED <<faults, outlived>>
       \/ /\ Fault("unkillable")
          /\ outlived' = outlived \cup {block}
          /\ UNCHANGED solver
    /\ UNCHANGED <<files, block, poll, control, stop, trip, receipt, clean, wrong,
                   sneaked, aborted>>

ReleasesLock ==
    /\ phase = "release" /\ phase' = "quarantine"
    /\ lock' = NoLock
    /\ UNCHANGED <<row, root, dir, solutions, quarantine, solver, block, poll, control,
                   stop, trip, receipt, faults, history>>

(* positive_control_caught *)
Caught ==
    /\ control.done
    /\ trip = "root_state_mismatch"
    /\ control.sha # Lost
    /\ control.sha = control.trip

(* The receipt, with what was banked; the locals are forgotten.            *)
Closes(banked) ==
    /\ receipt' = [of |-> block, stop |-> stop, banked |-> banked, done |-> control.done,
                   caught |-> Caught, marked |-> control.trip.mark]
    /\ aborted' = IF stop = "abort" THEN aborted \cup {block} ELSE aborted
    /\ phase' = "idle" /\ poll' = NoPoll /\ control' = NoControl
    /\ stop' = "none"
    /\ UNCHANGED <<row, lock, root, solver, block, trip, faults, clean, wrong, sneaked,
                   outlived>>

(* solutions/ is moved aside, out of the way of the next bank.             *)
Quarantines ==
    /\ phase = "quarantine"
    /\ quarantine' = quarantine \cup solutions
    /\ solutions' = {} /\ dir' = FALSE
    /\ Closes({})

(* Mutant: every solution in the directory is banked, whatever its age.    *)
Banks_NoFloor ==
    /\ phase = "bank"
    /\ Closes(solutions)
    /\ UNCHANGED <<dir, solutions, quarantine>>

(* Solutions that are not older than the floor are copied.                 *)
Banks ==
    /\ phase = "bank"
    /\ Closes({a \in solutions : a.at >= block})
    /\ UNCHANGED <<dir, solutions, quarantine>>

(* The runner dies; the solver, in a session of its own, does not.         *)
RunnerDies ==
    /\ phase # "idle" /\ Fault("crash")
    /\ phase' = "idle" /\ poll' = NoPoll /\ control' = NoControl
    /\ stop' = "none"
    /\ outlived' = IF Alive(block) THEN outlived \cup {block} ELSE outlived
    /\ UNCHANGED <<files, solver, block, trip, receipt, clean, wrong, sneaked, aborted>>

RunnerStep ==
    \/ ReadRow \/ ReadLock \/ LockExists \/ ReadRoot
    \/ Trips \/ StepsAreSpent \/ TimeIsUp \/ SolverIsGone \/ GoesOn \/ Injects \/ ReadsBack
    \/ Terminates \/ GraceEnds \/ Kills \/ ReleasesLock \/ Quarantines \/ Banks

Disturbance ==
    \/ \E b \in Blocks : Resets(b) \/ Dies(b)
    \/ RootChanges \/ LockIsTruncated \/ Refuse \/ RunnerDies

Next ==
    \/ \E b \in Blocks : SolverStep(b)
    \/ RunnerStep \/ Launch \/ Disturbance

(* The runner goes on, and max_secs pass; the solver may hang for ever.    *)
Fairness == WF_vars(RunnerStep) /\ SF_vars(TimeIsUp)

Spec == Init /\ [][Next]_vars /\ Fairness

----------------------------------------------------------------------------
(* A block banks what its own solver made, unless an earlier solver got    *)
(* away from its runner: neither an aborted block's work nor any other     *)
(* leftover is ever banked as another block's, whatever cleaning up a      *)
(* crash has skipped.                                                      *)
BankedIsOwn ==
    \A a \in receipt.banked : a.by = receipt.of \/ a.by \in outlived

(* After an abort nothing its solver made is left where banking looks,     *)
(* though the solver writes on while it is being stopped.                  *)
AbortedAreQuarantined ==
    \A a \in solutions : a.by \in aborted => a.by \in outlived

(* An injected reset never passes: the block that was injected is aborted  *)
(* and banks nothing.  And only it is credited: the trip was read from     *)
(* bytes with the injected ones, unless they were replaced before the      *)
(* runner had read them back.                                              *)
ControlWorks ==
    /\ receipt.done => receipt.stop = "abort" /\ receipt.banked = {}
    /\ receipt.caught /\ receipt.of = block => receipt.done /\ (receipt.marked \/ sneaked)

(* In a directory without leftovers no interleaving of the runner's reads  *)
(* with a healthy solver looks like a reset, but for the lock that is      *)
(* created while the runner reads it (OnlyResetsTrip).                     *)
TripsAreReal ==
    clean /\ trip \notin {"none", "lock_unreadable"} => wrong

(* Every block ends, also when its solver hangs.                           *)
BlockEnds == phase # "idle" ~> phase = "idle"

----------------------------------------------------------------------------
(* What wrongful_reset promises of such a directory: "a torn read or an    *)
(* absent lock file cannot itself manufacture a wrongful-reset verdict".   *)
OnlyResetsTrip == clean /\ trip # "none" => wrong

(* What the grant assumes: a block in which something was reset does not   *)
(* bank.  The last row of a solver is written after the last reading.      *)
ResetsNeverBank == receipt.banked # {} /\ receipt.of = block => ~wrong
=============================================================================

----------------------------- MODULE RunLockCli -----------------------------
(***************************************************************************)
(* `python -m src.utils.run_lock LOCK -- CMD`: main() of                   *)
(* src/utils/run_lock.py on top of RunLock.  The wrapper takes the lock,   *)
(* runs CMD as a child process and releases in a `finally`.  A wrapper     *)
(* that is killed runs no `finally`, and its child lives on.               *)
(***************************************************************************)
EXTENDS RunLock

VARIABLES
    started,    \* <<pid, start time>> of each wrapper that ran its command
    ended       \* ... whose command has exited

cliVars == <<vars, started, ended>>

Self(p) == <<p, life[p]>>
Running == started \ ended

CliTypeOK ==
    /\ TypeOK
    /\ started \subseteq Pid \X Nat
    /\ ended \subseteq started

CliInit == Init /\ started = {} /\ ended = {}

(* Mutant: a refused wrapper goes on to its command. *)
RunCommand_IgnoresRefusal(p) ==
    /\ pc[p] \in {"held", "refused"}
    /\ Self(p) \notin started
    /\ started' = started \cup {Self(p)}
    /\ UNCHANGED <<vars, ended>>

(* subprocess.call(cmd): the holder starts its command, once. *)
RunCommand(p) ==
    /\ Holding(p)
    /\ Self(p) \notin started
    /\ started' = started \cup {Self(p)}
    /\ UNCHANGED <<vars, ended>>

(* Mutant: waiting is taken to succeed for a command that never started. *)
CommandExits_AnyHolder ==
    /\ \E p \in Pid : Holding(p) /\ ended' = ended \cup {Self(p)}
    /\ UNCHANGED <<vars, started>>

(* The command exits by itself, whether or not its wrapper still lives. *)
CommandExits ==
    /\ \E w \in Running : ended' = ended \cup {w}
    /\ UNCHANGED <<vars, started>>

(* The `finally` runs when call() returns, or raises before the spawn. *)
CliRelease(p) ==
    /\ Self(p) \notin Running
    /\ Release(p)
    /\ UNCHANGED <<started, ended>>

CliNext ==
    \/ \E p \in Pid :
          \/ RunCommand(p) \/ CliRelease(p)
          \/ /\ Launch(p) \/ Recycle(p) \/ Die(p) \/ Step(p)
             /\ UNCHANGED <<started, ended>>
    \/ CommandExits

CliSpec == CliInit /\ [][CliNext]_cliVars

(* As FairSpec: a scheduled process runs acquire() to the end. *)
CliFairSpec ==
    CliSpec /\ \A p \in Pid : WF_cliVars(Step(p) /\ UNCHANGED <<started, ended>>)

----------------------------------------------------------------------------
(* As long as its wrapper lives, a running command is covered by the lock  *)
(* file its wrapper wrote: no launch, crash or release of anybody else     *)
(* takes the file away before call() has returned.                         *)
CommandIsCovered ==
    \A p \in Pid :
        Self(p) \in Running /\ Exists(p) => Holding(p) /\ IsMine(p)
=============================================================================

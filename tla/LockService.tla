---------------------------- MODULE LockService ----------------------------
(***************************************************************************)
(* What the run lock promises to its callers: an exclusive resource that a *)
(* client is granted while nobody has it, and keeps until it gives it back *)
(* or dies.                                                                *)
(***************************************************************************)
CONSTANT Client     \* whoever may ask for the resource
VARIABLE owner      \* the clients that have it

Init == owner = {}

Grant(c) ==
    /\ owner = {}
    /\ owner' = {c}

Yield(c) ==
    /\ c \in owner
    /\ owner' = owner \ {c}

Next == \E c \in Client : Grant(c) \/ Yield(c)

Spec == Init /\ [][Next]_owner
=============================================================================

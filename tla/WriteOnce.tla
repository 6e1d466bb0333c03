----------------------------- MODULE WriteOnce -----------------------------
(***************************************************************************)
(* What generated secrets promise to whoever holds them: each gets a value *)
(* once and keeps it, and nobody is ever seen using another value.         *)
(* Credentials shows that the operator implements it in spite of a lagging *)
(* cache, competing platforms and pods that restart.                       *)
(***************************************************************************)
EXTENDS Naturals

CONSTANT Secrets

VARIABLES
    value,      \* of each secret; 0 until it is generated
    inUse       \* of each secret, the values that running pods hold

Init ==
    /\ value = [s \in Secrets |-> 0]
    /\ inUse = [s \in Secrets |-> {}]

Generate(s) ==
    /\ value[s] = 0
    /\ value'[s] \in Nat \ {0} /\ value' = [value EXCEPT ![s] = value'[s]]
    /\ UNCHANGED inUse

\* Pods start and stop; those that run hold the value.
Use(s) ==
    /\ \E held \in SUBSET ({value[s]} \ {0}) :
           inUse' = [inUse EXCEPT ![s] = held]
    /\ UNCHANGED value

Next == \E s \in Secrets : Generate(s) \/ Use(s)

Spec == Init /\ [][Next]_<<value, inUse>>
=============================================================================

----------------------------- MODULE Allocator ------------------------------
(* What the kernel heap promises: memory that is handed out is in no other   *)
(* allocation, and stays where it is until it is given back.                 *)
EXTENDS Naturals

CONSTANT Memory     \* the addresses there are

VARIABLE held       \* the allocations, each a set of addresses

Alloc ==
  \E b \in held' \ held :
    /\ b # {} /\ b \subseteq Memory
    /\ \A h \in held : b \cap h = {}
    /\ held' = held \cup {b}

Free == \E b \in held : held' = held \ {b}

AllocatorSpec == held = {} /\ [][Alloc \/ Free]_held
============================================================================

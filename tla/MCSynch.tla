------------------------------ MODULE MCSynch ------------------------------
(* Synch for TLC.                                                          *)
EXTENDS Synch, TLC

\* Every semaphore starts empty, so that P has to wait for a V.
Empty == [s \in Sem |-> 0]

\* Forked threads are alike; the boot thread is not one of them.
Forked == Permutations(Thread \ {Boot})
============================================================================

----------------------------- MODULE MCThreads -----------------------------
(* Threads for TLC.                                                        *)
EXTENDS Threads, TLC

\* Forked threads are alike; the boot thread is not one of them.
Forked == Permutations(Thread \ {Boot})
============================================================================

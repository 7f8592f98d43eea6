--------------------------- MODULE MCInterrupts ----------------------------
(* Interrupts for TLC.                                                     *)
EXTENDS Interrupts

\* Two cards with drivers and the controller.
MCCards == <<"ltimer", "lhd", "controller">>
MCDrivers == <<attach_ltimer_to_lamebus, attach_lhd_to_lamebus>>

FairIntSpec == IntSpec /\ IntFairness
============================================================================

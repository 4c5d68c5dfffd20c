------------------------------ MODULE MCInterrupts ------------------------------
(* Interrupts with the timer and the two lines that can be spurious. *)
EXTENDS Interrupts
================================================================================

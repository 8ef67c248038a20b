--------------------------- MODULE MCMini32System ---------------------------
(***************************************************************************)
(* Instances of Mini32System for TLC; the programs are those of Programs.  *)
(***************************************************************************)
EXTENDS Mini32System, Programs

\* With two words, RAM cells and read registers differ from one another.
OnePowerUpWord  == {W(57005, 48879)}
TwoPowerUpWords == {W(57005, 48879), W(0, 4096)}
MCGpioInputs   == {Zero, W(0, 32768)}
=============================================================================

-------------------------- MODULE MCBringupCapture --------------------------
(***************************************************************************)
(* Instances of BringupCapture: like "Mini32 Tang Nano 20K\n", the message *)
(* repeats some bytes but not its first one.                               *)
(***************************************************************************)
EXTENDS BringupCapture

MCMessage == <<"M", "i", "n", "i">>
=============================================================================

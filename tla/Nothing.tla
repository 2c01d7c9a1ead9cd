-------------------------------- MODULE Nothing --------------------------------
(***************************************************************************)
(* Nil stands for what is not there: a null, an absent file, no answer.    *)
(***************************************************************************)
CONSTANT Nil
=============================================================================

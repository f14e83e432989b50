------------------------------ MODULE MCAttempt ------------------------------
(* TLC instances of Attempt: two schedulers and a few disruptions.          *)
EXTENDS Attempt
=============================================================================

---------------------------- MODULE MCEpochReplay ----------------------------
(* Instances of EpochReplay for TLC. *)
EXTENDS EpochReplay

\* Later Kernels are faster, and the Challenger's faster than Active's.
MCLatency == [k \in Kernel |-> 100 - 20 * k[1] - 2 * k[2] - k[3]]

=============================================================================

------------------------------- MODULE MCEpoch -------------------------------
(* Instances of Epoch for TLC. *)
EXTENDS Epoch

\* Later and more remote Kernels are faster, so that the best Kernel of the
\* Epoch is often not one of the Active Branch.
MCLatency == [k \in Kernel |-> 100 - 20 * k[1] - 2 * k[2] - k[3]]

=============================================================================

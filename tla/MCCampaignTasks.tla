--------------------------- MODULE MCCampaignTasks ---------------------------
(* Instances of CampaignTasks for TLC. *)
EXTENDS CampaignTasks

\* An early Task with a short target and a later one that finalizes.
MCTarget == [t \in Task |-> t]
MCFinalize == [t \in Task |-> t = Tasks]

=============================================================================

-------------------------- MODULE MCCampaignScheduler --------------------------
(* An ablation: the Lineage `evolving` of one Campaign observes the Lineage  *)
(* `control` of another; `plain` belongs to the evolving Campaign as well.   *)
EXTENDS CampaignScheduler

CONSTANTS control, evolving, plain, c1, c2, r1, r2, r3

MCCampaignOf == [l \in Lineage |-> IF l = control THEN c1 ELSE c2]
MCObserver == [l \in Lineage |-> IF l = evolving THEN control ELSE None]
MCServes == [r \in Run |-> IF r = r1 THEN c1 ELSE c2]
\* `evolving` is one Epoch ahead of its observer, `plain` has reached every
\* target.
MCBegin == [l \in Lineage |-> IF l = plain THEN MaxEpoch + 1
                              ELSE IF l = evolving THEN MaxEpoch ELSE 1]
MCEvolves == {evolving}
MCTarget == [r \in Run |-> IF r = r3 THEN 1 ELSE MaxEpoch]
\* The control stays open: see MCCampaignSchedulerObserver.cfg.
MCFinalize == [r \in Run |-> r = r3]
MCFinalizeAll == [r \in Run |-> TRUE]
=============================================================================

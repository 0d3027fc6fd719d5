------------------------- MODULE MCCampaignRecovery -------------------------
(* Instances of CampaignRecovery for TLC.                                  *)
EXTENDS CampaignRecovery

CONSTANTS a, b

\* Every order differs from the others in side, volume, stop or time.
Distinct == [i \in Intent |-> {i}]
=============================================================================

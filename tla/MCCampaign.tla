---- MODULE MCCampaign ----
EXTENDS CampaignRunner, TLC

CONSTANTS l1, l2, w1, w2, a1, a2

Perms == Permutations({l1, l2})
============================

---------------------------- MODULE MCCampaigns -----------------------------
(* Campaigns with small sets of subscribers, web-server processes and requests. *)
EXTENDS Campaigns

CONSTANTS h1, h2, r1
=============================================================================

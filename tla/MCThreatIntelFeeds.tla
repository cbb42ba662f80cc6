------------------------- MODULE MCThreatIntelFeeds -------------------------
(* Model checking of ThreatIntelFeeds with one feed in each round.         *)
EXTENDS ThreatIntelFeeds
=============================================================================

---------------------------- MODULE MCLiveQuotes ----------------------------
(***************************************************************************)
(* Instances of LiveQuotes for TLC.                                        *)
(***************************************************************************)
EXTENDS LiveQuotes

CONSTANTS A, B

\* Picks only; links; silent minutes; and a page without a hub whose fetches
\* take time, in order or not.
MCWorlds ==
    {{}, {"links"}, {"silence"}, {"no_hub", "slow_market", "links"},
     {"no_hub", "slow_market", "disorder", "load_fails"}}
=============================================================================

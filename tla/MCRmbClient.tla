---------------------------- MODULE MCRmbClient ----------------------------
(* Instances of RmbClient for TLC.                                           *)
EXTENDS RmbClient

CONSTANTS ask, ping, pingAgain

\* Both retry once, so that either may replace the socket the other waits for.
MCRetries == [i \in Ids |-> 2]
=============================================================================

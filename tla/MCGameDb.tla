------------------------------ MODULE MCGameDb ------------------------------
(* An instance of GameDb for TLC: the defaults, and a file that does not    *)
(* load.                                                                    *)
EXTENDS GameDb

CONSTANTS t1, t2, s1, s2

MCConfigs ==
    {[loads |-> TRUE, journal |-> TRUE, flush |-> TRUE],
     [loads |-> FALSE, journal |-> TRUE, flush |-> TRUE]}
=============================================================================

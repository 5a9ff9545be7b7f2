------------------------------- MODULE MCLCMPass -------------------------------
(* Instances of LCMPass for TLC.  Two translation units share g, a         *)
(* function of a header; f calls g, which calls h, and h calls g again.    *)
EXTENDS LCMPass

MCModule == [p1 |-> {"f", "g"}, p2 |-> {"g", "h"}]
MCCalls  == {<<"f", "g">>, <<"g", "h">>, <<"h", "g">>}
=============================================================================

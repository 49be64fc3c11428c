-------------------------- MODULE MCScoutDispatch --------------------------
(* The instances of ScoutDispatch with one scout that TLC checks.          *)
EXTENDS ScoutDispatch, TLC

CONSTANTS r1, s1, w1, w2

OneScout == [r \in Runs |-> s1]

Page == [s \in Scouts |-> "web"]
Beat == [s \in Scouts |-> "beat"]
=============================================================================

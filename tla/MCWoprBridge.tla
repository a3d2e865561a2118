----------------------------- MODULE MCWoprBridge -----------------------------
(* WoprBridge with missions of one and two items, among them one that is   *)
(* refused, one that ends in a landing and one that is too long.            *)
EXTENDS WoprBridge

At(cmd, place) == [cmd |-> cmd, at |-> place]

MCHostMissions == {<<At("wp", "p"), At("land", "p")>>, <<At("wp", "q")>>,
                   <<At("land", "q"), At("bad", "q")>>}
MCGcsMissions == {<<At("wp", "p"), At("land", "q")>>, <<At("land", "p")>>,
                  <<At("bad", "q")>>, <<At("wp", "p"), At("wp", "p"), At("wp", "q")>>}
=============================================================================

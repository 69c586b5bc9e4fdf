-------------------------- MODULE MCSessionEngine --------------------------
(* SessionEngine for TLC: the sets are model values given in the .cfg; the *)
(* preferences vary in the one respect the run is about.                   *)
EXTENDS SessionEngine, TLC

CardFiles == [auto_discovery : {TRUE}, card : BOOLEAN]
DiscoveryFiles == [auto_discovery : BOOLEAN, card : {FALSE}]
OneFile == [auto_discovery : {TRUE}, card : {FALSE}]
AllSymmetry == Permutations(Arcs) \cup Permutations(Players)
=============================================================================

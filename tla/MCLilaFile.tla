------------------------------ MODULE MCLilaFile ------------------------------
EXTENDS LilaFile, TLC
CONSTANTS a1, a2, a3, d1
TwoAgents == {a1, a2}
ThreeAgents == {a1, a2, a3}
OneDesktop == {d1}
NoDesktop == {}
AgentsAlike == Permutations(Agents)
=============================================================================

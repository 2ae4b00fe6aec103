----------------------------- MODULE MCSimulations -----------------------------
(*****************************************************************************)
(* Values for SimulationWorkers: two runs with a log and a comparison of two   *)
(* scenarios in a server with two descriptors; in the web application a       *)
(* scenario, its copy and two calls of simular at once.                       *)
(*****************************************************************************)
EXTENDS SimulationWorkers

Simulated == [c \in Calls |-> IF c \in WithLog THEN 1 ELSE 2]
=============================================================================

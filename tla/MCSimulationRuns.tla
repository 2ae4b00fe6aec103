--------------------------- MODULE MCSimulationRuns ---------------------------
EXTENDS SimulationRuns
=============================================================================

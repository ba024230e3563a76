-------------------------- MODULE MCSimulationLoop --------------------------
\* SimulationLoop with two physical inputs and a virtual one.
EXTENDS SimulationLoop
=============================================================================

-------------------------- MODULE MCExecutionSession --------------------------
EXTENDS ExecutionSession
===============================================================================

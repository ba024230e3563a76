-------------------------- MODULE MCDaqcFirmware --------------------------
EXTENDS DaqcFirmware
=============================================================================

----------------------------- MODULE MCDaqLink -----------------------------
EXTENDS DaqLink
=============================================================================

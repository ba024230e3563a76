---------------------------- MODULE MCRosControl ----------------------------
EXTENDS RosControl
=============================================================================

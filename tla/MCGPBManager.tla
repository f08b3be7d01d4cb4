---------------------------- MODULE MCGPBManager ----------------------------
EXTENDS GPBManager
=============================================================================

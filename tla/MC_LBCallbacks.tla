---------------------------- MODULE MC_LBCallbacks ----------------------------
EXTENDS LBCallbacks
=============================================================================

----------------------------- MODULE MCWakePath -----------------------------
EXTENDS WakePath
=============================================================================

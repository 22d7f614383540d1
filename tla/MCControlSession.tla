-------------------------- MODULE MCControlSession --------------------------
EXTENDS ControlSession
=============================================================================

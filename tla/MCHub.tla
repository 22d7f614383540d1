------------------------------- MODULE MCHub -------------------------------
EXTENDS Hub, TLC

\* Devices, connections and commands are interchangeable.
HubSymmetry == Permutations(Device) \cup Permutations(Conn) \cup Permutations(Cmd)
=============================================================================

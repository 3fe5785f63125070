---------------------------- MODULE MCStackFaults ----------------------------
EXTENDS StackFaults

MCAddrs == {100}
MCBytes == {1, 3}
MCSizes == {0, 2}
MCElemSizes == {2}
MCFaultBytes == {-5, 1}
MCFaultWords == {0, 3}
=============================================================================

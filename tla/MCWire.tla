------------------------------- MODULE MCWire -------------------------------
EXTENDS Wire
==============================================================================

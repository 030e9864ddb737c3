---------------------------- MODULE MCServerFlow ----------------------------
EXTENDS ServerFlow
==============================================================================

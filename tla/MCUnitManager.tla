--------------------------- MODULE MCUnitManager ---------------------------
EXTENDS UnitManager
==============================================================================

------------------------- MODULE MCSaveLoadSafeMode -------------------------
EXTENDS SaveLoadSafeMode
=============================================================================

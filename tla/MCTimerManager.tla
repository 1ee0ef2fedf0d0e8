--------------------------- MODULE MCTimerManager ---------------------------
EXTENDS TimerManager
=============================================================================

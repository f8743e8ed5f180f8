--------------------------- MODULE MCStagedOutput ---------------------------
EXTENDS StagedOutput
=============================================================================

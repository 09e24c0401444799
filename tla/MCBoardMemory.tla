---------------------------- MODULE MCBoardMemory -----------------------------
EXTENDS BoardMemory
===============================================================================

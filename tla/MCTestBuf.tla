------------------------------- MODULE MCTestBuf -------------------------------
EXTENDS TestBuf

(* Every type in turn, each fixed type that has data, one that has none.    *)
MCTests == 0 .. 10 \cup {InTurn, Psd, Inv}
===============================================================================

------------------------------- MODULE MCSGList -------------------------------
(* Tables of 4 entries, so of 3 blocks: one, two and three tables, partly    *)
(* filled.  A multiple of 3 blocks is Full.                                  *)
EXTENDS SGList

Partial == {1, 2, 4, 5, 7, 8}
Full == {6}
===============================================================================

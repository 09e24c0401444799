------------------------------ MODULE MCTestProg ------------------------------
(* The command lines of the test programs: one test of each class, and two  *)
(* tests, on one stream (the default strmNo of every class) and on two.     *)
EXTENDS TestProg

In(s) == [kind |-> "in", strm |-> s, isTest |-> TRUE, ctrl |-> FALSE,
          isvi |-> FALSE, restart |-> FALSE, reg2 |-> FALSE]
Out(s) == [In(s) EXCEPT !.kind = "out"]
InIsvi(s) == [In(s) EXCEPT !.isvi = TRUE, !.ctrl = TRUE]
InRestart(s) == [In(s) EXCEPT !.restart = TRUE, !.reg2 = TRUE]

Run(adm, tests) == [adm |-> adm, tests |-> tests]

CommandLines ==
  {Run(FALSE, <<In(0)>>), Run(FALSE, <<Out(0), In(0)>>), Run(FALSE, <<Out(1), In(0)>>),
   Run(TRUE, <<InIsvi(0)>>), Run(TRUE, <<InRestart(0), Out(0)>>)}
===============================================================================

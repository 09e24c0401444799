----------------------------- MODULE MCStreamRing -----------------------------
(* Single passes, and rounds with and without the agreed mode.              *)
EXTENDS StreamRing

AllConfigs == {[cycle |-> FALSE, agree |-> FALSE], [cycle |-> TRUE, agree |-> FALSE],
               [cycle |-> TRUE, agree |-> TRUE]}
===============================================================================

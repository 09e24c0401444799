------------------------------- MODULE MCPexDma -------------------------------
(* Small boards for PexDma.  No bound is needed beyond the width of u32,    *)
(* Word: every counter wraps.                                               *)
EXTENDS PexDma

OneChannel == {0}
TwoChannels == {0, 1}

TransferOps == {"start", "stop", "state", "waitblock", "waitbuffer", "reset"}
RunOps == {"start", "stop"}
===============================================================================

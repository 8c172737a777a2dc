----------------------------- MODULE MCExecStream -----------------------------
(* A small instance of ExecStream.                                         *)
EXTENDS ExecStream
===============================================================================

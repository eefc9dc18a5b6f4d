---------------------------- MODULE MCInsertBatch ----------------------------
(* Model-checking instance of InsertBatch.                                 *)
EXTENDS InsertBatch

CONSTANTS v1, v2

(* Two list-typed vector fields, in schema order.                          *)
MCVecColumns == <<v1, v2>>
=============================================================================

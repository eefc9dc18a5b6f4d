------------------------- MODULE MCRemoteConnection -------------------------
(* Model-checking instance of RemoteConnection.                            *)
EXTENDS RemoteConnection

CONSTANTS t1, t2, d1, d2

MCNames    == {t1, t2}
MCPayloads == {d1, d2}
MCAppend   == {"append"}
MCOverwrite == {"overwrite"}
=============================================================================

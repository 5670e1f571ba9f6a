------------------------------ MODULE MCIsoTp ------------------------------
(* ISO-TP with frames of two bytes numbered modulo two. *)
EXTENDS IsoTp

MCSids == {"read"}
MCReqLens == {0, 2, 7}
MCRespLens == {2, 7}
MCBlocks == {0, 2}
MCFaults == {"lose", "dup", "late", "noise", "wait", "overflow", "pending"}
============================================================================

---------------------------- MODULE MCDataChannel ----------------------------
(* DataChannel for TLC.  The protocol ranges differ and overlap in two      *)
(* versions, so that negotiation has something to decide.                   *)
EXTENDS DataChannel

V1to2 == [min |-> 1, max |-> 2]
V1to3 == [min |-> 1, max |-> 3]
=============================================================================

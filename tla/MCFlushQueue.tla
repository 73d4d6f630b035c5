---------------------------- MODULE MCFlushQueue ----------------------------
(* Model values for FlushQueue are given in the configurations.            *)
EXTENDS FlushQueue
=============================================================================

------------------------------- MODULE Lists -------------------------------
(***************************************************************************)
(* The loops over lists of the translator, the archive and the exporter.   *)
(* They are put in terms of FlattenSeq, about which there are lemmas (in   *)
(* PartsProofs), and not of SelectSeq, which the provers do not know.      *)
(***************************************************************************)
EXTENDS Naturals, Sequences, SequencesExt

\* What F makes of each element, one after the other.
FlatMap(s, F(_)) == FlattenSeq([i \in DOMAIN s |-> F(s[i])])

\* The elements that pass Test, as Array.prototype.filter() has them.
Keep(s, Test(_)) == FlatMap(s, LAMBDA x : IF Test(x) THEN <<x>> ELSE <<>>)
=============================================================================

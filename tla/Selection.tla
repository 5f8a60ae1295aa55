------------------------------ MODULE Selection -----------------------------
(***************************************************************************)
(* The members of a sequence that pass a test, in their order, as          *)
(* Array.filter and Map.delete keep them.  It is the library's SelectSeq,  *)
(* in a form the prover can expand.                                        *)
(***************************************************************************)
EXTENDS Sequences, SequencesExt

Select(s, Passes(_)) ==
    FlattenSeq([n \in DOMAIN s |-> IF Passes(s[n]) THEN <<s[n]>> ELSE <<>>])
=============================================================================

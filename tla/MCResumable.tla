----------------------------- MODULE MCResumable -----------------------------
(***************************************************************************)
(* The words that the runs of Resumable convert.                           *)
(***************************************************************************)
EXTENDS Resumable

\* Every word that no conversion takes for an encoded suffix.
Genuine ==
  {INT_MIN} \cup (INT_MIN + enc_span + 1 .. UINT_MAX - enc_span - 1)

\* Genuine words next to a power of two, and one in 5 of the others.
Sampled ==
  {x \in Genuine :
     \/ x % 5 = 0
     \/ \E k \in 0 .. W : magnitude(x) - 2 ^ k \in -1 .. 1}

\* Every word of either type.
AllWords == INT_MIN .. UINT_MAX
=============================================================================

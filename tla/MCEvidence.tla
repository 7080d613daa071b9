----------------------------- MODULE MCEvidence -----------------------------
(***************************************************************************)
(* Evidence for TLC: nonces of one length and one spelling, and one each   *)
(* that differs in either; project keys of one length, and a longer one    *)
(* that continues a short nonce.                                           *)
(***************************************************************************)
EXTENDS Evidence, TLC

CONSTANTS r1, r2, b1, b2

Nonce(bytes, upper) == [bytes |-> bytes, upper |-> upper]

NonceTexts ==
  {Nonce(<<1>>, FALSE), Nonce(<<1, 1>>, FALSE), Nonce(<<1, 1>>, TRUE), Nonce(<<1, 2>>, FALSE)}

ProjectKeys == {<<1>>, <<2>>, <<2, 1>>}

Symmetry == Permutations({r1, r2}) \cup Permutations({b1, b2})

=============================================================================

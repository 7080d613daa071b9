----------------------------- MODULE MCRoomRun ------------------------------
(***************************************************************************)
(* RoomRun for TLC: the first request carries every possible body, the     *)
(* second is a well-formed run with another nonce.                         *)
(***************************************************************************)
EXTENDS RoomRun, TLC

CONSTANTS n1, n2, b1, b2

MCRequests == {1, 2}

MCRequest ==
  << [nonce |-> n1, issued_at |-> 0, expires_at |-> 1],
     [nonce |-> n2, issued_at |-> 1, expires_at |-> 2] >>

MCContents ==
  {<<b, [sealed |-> b1, bundle |-> b1, digest |-> b1]>> : b \in Body}

Symmetry == Permutations(Threads)

=============================================================================

--------------------------- MODULE MCReplayGuard ----------------------------
(***************************************************************************)
(* ReplayGuard for TLC: three nonces, one of them signed into two requests *)
(* with different windows, one request with too long a lifetime.           *)
(***************************************************************************)
EXTENDS ReplayGuard, TLC

CONSTANTS n1, n2, n3

MCRequests == 1..5

MCRequest ==
  << [nonce |-> n1, issued_at |-> 0, expires_at |-> 1],
     [nonce |-> n2, issued_at |-> 0, expires_at |-> 2],
     [nonce |-> n1, issued_at |-> 1, expires_at |-> 3],
     [nonce |-> n3, issued_at |-> 0, expires_at |-> 2],
     [nonce |-> n3, issued_at |-> 0, expires_at |-> 3] >>

Symmetry == Permutations(Threads)

=============================================================================

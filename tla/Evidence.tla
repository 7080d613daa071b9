------------------------------ MODULE Evidence ------------------------------
(***************************************************************************)
(* What the room's quotes commit to (room/attest.py) and what a verifier   *)
(* concludes from a response and its quote (verify_run.py).                *)
(*                                                                         *)
(* A hash is what is hashed: equal only for equal inputs.  What that does  *)
(* not hide is how an input is put together: report_data hashes the bytes  *)
(* of the nonce, those of the project's key and a hash of fixed length,    *)
(* one after the other; and the nonce is reserved as a text but hashed as  *)
(* the bytes it spells.  The properties say what a verifier may conclude   *)
(* in spite of it.  When REPLAY_GUARD forgets a nonce is the subject of    *)
(* ReplayGuard; here it may at any time.                                   *)
(***************************************************************************)
EXTENDS Integers, Sequences, FiniteSets

CONSTANTS
  Nonces,       \* texts of nonces: the bytes they spell, and in which case
  Projects,     \* project keys, as the sequences of their bytes
  Reports, Bundles, Provenances,
  MaxRuns       \* bound on attested runs

ASSUME NoncesAssumption ==
  \A n \in Nonces : n.bytes \in Seq(Nat) /\ n.upper \in BOOLEAN
ASSUME ProjectsAssumption == Projects \subseteq Seq(Nat)
ASSUME RunsAssumption == MaxRuns \in Nat

VARIABLES
  reserved,  \* nonces REPLAY_GUARD has, as texts
  quotes,    \* the report data of every quote this image has made
  attested,  \* history: what the room attested, and for which nonce and project
  forgotten  \* history: nonces REPLAY_GUARD had and has dropped

vars == <<reserved, quotes, attested, forgotten>>

Answers == [report: Reports, bundle: Bundles, provenance: Provenances]
Facts   == [nonce: Nonces, project: Projects, answer: Answers]

\* The same as a verifier sees it, who passes on the bytes of a nonce.
Claims == [nonce: {n.bytes : n \in Nonces}, project: Projects, answer: Answers]
ClaimOf(fact) == [fact EXCEPT !.nonce = fact.nonce.bytes]

-----------------------------------------------------------------------------
(* attest.py, and the same computation in verify_run.py.                   *)

\* Mutant: the provenance is returned but not bound.
PayloadWithoutProvenance(answer) ==
  [report |-> answer.report, bundle_sha256 |-> answer.bundle]

BindingPayload(answer) ==
  [report |-> answer.report, bundle_sha256 |-> answer.bundle,
   provenance |-> answer.provenance]

\* The last part hashed is of fixed length, so what comes before it is a part of
\* its own; within that, nothing says where the nonce ends.
ReportData(nonce, project, answer) ==
  [prefix |-> nonce \o project, binding |-> BindingPayload(answer)]

-----------------------------------------------------------------------------
(* The room.                                                               *)

Init ==
  /\ reserved = {}
  /\ quotes = {}
  /\ attested = {}
  /\ forgotten = {}

\* Mutant: a nonce is not looked up.
IsNewAlways(nonce) == TRUE

IsNew(nonce) == nonce \notin reserved

\* A run that ends in an attested answer, be it a report or a credential failure.
Attest(nonce, project, answer) ==
  /\ Cardinality(attested) < MaxRuns
  /\ IsNew(nonce)
  /\ reserved' = reserved \cup {nonce}
  /\ quotes' = quotes \cup {ReportData(nonce.bytes, project, answer)}
  /\ attested' = attested \cup {[nonce |-> nonce, project |-> project, answer |-> answer]}
  /\ UNCHANGED forgotten

\* A run that ends without one: its nonce is spent all the same.
Fail(nonce) ==
  /\ IsNew(nonce)
  /\ reserved' = reserved \cup {nonce}
  /\ UNCHANGED <<quotes, attested, forgotten>>

\* The nonce expires, is crowded out or is lost with the process.
Forget(nonce) ==
  /\ nonce \in reserved
  /\ reserved' = reserved \ {nonce}
  /\ forgotten' = forgotten \cup {nonce}
  /\ UNCHANGED <<quotes, attested>>

Next ==
  \/ \E nonce \in Nonces, project \in Projects, answer \in Answers :
       Attest(nonce, project, answer)
  \/ \E nonce \in Nonces : Fail(nonce) \/ Forget(nonce)

Spec == Init /\ [][Next]_vars

-----------------------------------------------------------------------------
(* The verifier.                                                           *)

\* A response puts any hashes, answer and quote together.  verify_run recomputes
\* report_data from the answer in it and the nonce that was sent; the hashes it
\* states must match, which they can be made to, and the quote must carry it.
Verifies(claim) == ReportData(claim.nonce, claim.project, claim.answer) \in quotes

-----------------------------------------------------------------------------
(* Properties.                                                             *)

\* Every variable is well typed, and there is a quote for each attested answer
\* and no other.
TypeOK ==
  /\ reserved \subseteq Nonces
  /\ forgotten \subseteq Nonces
  /\ attested \subseteq Facts
  /\ quotes = {ReportData(f.nonce.bytes, f.project, f.answer) : f \in attested}

SameLength(nonce, other) == Len(nonce) = Len(other)

\* verify_run (verify_run.py:9, "the proof genuinely covers THIS answer (no swap,
\* no replay)"): an answer that verifies was attested, whole.  It was attested for
\* the nonce and the project it verifies for, too, unless for a nonce of another
\* length: only one who always sends nonces of one length can conclude that.
VerifiedIsAttested ==
  \A claim \in Claims : Verifies(claim) =>
    \E fact \in attested :
      /\ fact.answer = claim.answer
      /\ SameLength(fact.nonce.bytes, claim.nonce) => ClaimOf(fact) = claim

\* The nonce was attested for in another spelling, or again after it was forgotten.
UsedAgain(nonce) ==
  \/ \E f, g \in attested : f.nonce # g.nonce /\ {f.nonce.bytes, g.nonce.bytes} = {nonce}
  \/ \E n \in forgotten : n.bytes = nonce

\* A validator that sent a nonce cannot be shown the better of two answers: a
\* second one that verifies for it takes a nonce of another length, a spelling of
\* its bytes in the other case, or a guard that has forgotten it.
OneAnswerPerNonce ==
  LET verified == {claim \in Claims : Verifies(claim)}
  IN \A f, g \in verified : f.nonce = g.nonce =>
       \/ f = g
       \/ \E fact \in attested : ~SameLength(fact.nonce.bytes, f.nonce)
       \/ UsedAgain(f.nonce)

=============================================================================

------------------------------ MODULE RoomRun -------------------------------
(***************************************************************************)
(* room/server.py: POST /run, from the signed request to the answer.       *)
(*                                                                         *)
(* A request thread first goes through ReplayGuard (auth.py).  Once its    *)
(* nonce is reserved it opens the sealed credential, unpacks and binds the *)
(* bundle, runs the profile and has the result quoted.  Each of these may  *)
(* fail because of what the contestant or the validator sent, or because   *)
(* of the room itself (key service, disk, profile, quote service), and the *)
(* answer must tell which: only a quote-bound report is evidence.          *)
(*                                                                         *)
(* Refusals before the reservation (signature, JSON, window, nonce and     *)
(* digest syntax) leave no trace and are not actions here.                 *)
(***************************************************************************)
EXTENDS Integers, Sequences, FiniteSets

CONSTANTS
  Requests, Request, Nonces, Threads, Skew, Lifetime, MaxEntries, MaxClock,
  MaxRestarts, None,  \* as in ReplayGuard
  Bundles,      \* bundle contents, each standing for its binding digest
  Contents,     \* the assignments of bodies to requests to be considered
  Unreadable,   \* a ciphertext that does not decrypt or does not parse
  Broken        \* a bundle that does not unpack within policy

VARIABLES
  clock, seen, pc, req, now, restarts, last, others, ran, replayed,
  mode,     \* CREDENTIAL_SPEC.credential_failure_mode, fixed at start-up
  body,     \* request -> what it carries besides the signed claims
  stage,    \* how far _run has got in each thread
  job,      \* the request a thread works on, from its reservation on
  cred,     \* bundle binding of the opened credential, or None
  answer,   \* the answer being quoted or sent, or None
  faulted   \* history: threads whose request met a fault of the room

guardVars == <<clock, seen, pc, req, now, restarts, last, others, ran, replayed>>
roomVars  == <<mode, body, stage, job, cred, answer, faulted>>
vars      == <<guardVars, roomVars>>

Guard == INSTANCE ReplayGuard

\* What ReplayGuard assumes of its constants.
ASSUME GuardAssumption ==
  /\ Skew \in Nat /\ Lifetime \in Nat \ {0} /\ MaxEntries \in Nat \ {0}
  /\ MaxClock \in Nat /\ MaxRestarts \in Nat
  /\ Request \in [Requests -> [nonce : Nonces, issued_at : Int, expires_at : Int]]
  /\ None \notin Requests /\ None \notin Int

ATTESTED_ZERO == "attested_zero"
HTTP_ERROR    == "http_error"

\* sealed_key: nothing, garbage, or a credential bound to a bundle; bundle:
\* nothing, garbage, or some contents; digest: the validator's bundle_sha256.
Body == [sealed : Bundles \cup {None, Unreadable},
         bundle : Bundles \cup {None, Broken},
         digest : Bundles]

Reasons == {"absent", "unreadable", "not_bound_to_bundle"}

\* An attested result, an attested credential failure, a 400, a 409, a 500.
Answer == [kind : {"result", "rejected", "conflict", "error"}]
            \cup [kind : {"credential_failure"}, reason : Reasons]

\* Requests carry bodies, and what is absent, unreadable or broken is neither a
\* bundle nor an answer.
ASSUME BodyAssumption ==
  /\ Contents \subseteq [Requests -> Body]
  /\ {None, Unreadable, Broken} \cap Bundles = {}
  /\ None \notin {Unreadable, Broken} /\ None \notin Answer

Stages == {"idle", "credential", "bundle", "profile", "quote", "answered"}

TypeOK ==
  /\ Guard!TypeOK
  /\ mode \in {ATTESTED_ZERO, HTTP_ERROR}
  /\ body \in [Requests -> Body]
  /\ stage \in [Threads -> Stages]
  /\ job \in [Threads -> Requests \cup {None}]
  /\ cred \in [Threads -> Bundles \cup {None}]
  /\ answer \in [Threads -> Answer \cup {None}]
  /\ faulted \subseteq Threads

Init ==
  /\ Guard!Init
  /\ mode \in {ATTESTED_ZERO, HTTP_ERROR}
  /\ body \in Contents
  /\ stage = [th \in Threads |-> "idle"]
  /\ job = [th \in Threads |-> None]
  /\ cred = [th \in Threads |-> None]
  /\ answer = [th \in Threads |-> None]
  /\ faulted = {}

Attests == mode = ATTESTED_ZERO

-----------------------------------------------------------------------------
(* Admission.                                                              *)

Receive(th, r) ==
  /\ stage[th] = "idle"
  /\ Guard!Validate(th, r)
  /\ UNCHANGED roomVars

EnterReserve(th) == Guard!EnterReserve(th) /\ UNCHANGED roomVars

\* Whether reserve will find the thread's nonce in what is left of the store.
NonceKnown(th) ==
  \E i \in 1..Len(seen) + 1 :
    /\ Guard!StopsAt(seen, i, now[th])
    /\ Guard!Knows(Guard!Suffix(seen, i), Request[req[th]].nonce)

\* Mutant: what reserve returned is not looked at.
ReserveUnchecked(th) ==
  /\ Guard!Reserve(th)
  /\ job' = [job EXCEPT ![th] = req[th]]
  /\ stage' = [stage EXCEPT ![th] = "credential"]
  /\ UNCHANGED <<mode, body, cred, answer, faulted>>

\* The nonce is reserved and the request goes on, or it is answered 409.
Reserve(th) ==
  /\ Guard!Reserve(th)
  /\ job' = [job EXCEPT ![th] = req[th]]
  /\ \/ /\ NonceKnown(th)
        /\ stage' = [stage EXCEPT ![th] = "answered"]
        /\ answer' = [answer EXCEPT ![th] = [kind |-> "conflict"]]
     \/ /\ ~NonceKnown(th)
        /\ stage' = [stage EXCEPT ![th] = "credential"]
        /\ UNCHANGED answer
  /\ UNCHANGED <<mode, body, cred, faulted>>

-----------------------------------------------------------------------------
(* The ways a step of _run ends.                                           *)

Proceed(th, next) ==
  /\ stage' = [stage EXCEPT ![th] = next]
  /\ UNCHANGED answer

Reply(th, kind) ==
  /\ stage' = [stage EXCEPT ![th] = "answered"]
  /\ answer' = [answer EXCEPT ![th] = [kind |-> kind]]

\* Mutant: the attested report does not say why.
AttestWithoutReason(th, reason) ==
  /\ stage' = [stage EXCEPT ![th] = "quote"]
  /\ answer' = [answer EXCEPT ![th] = [kind |-> "credential_failure"]]

\* _attested_credential_failure has the report quoted like a result.
AttestFailure(th, reason) ==
  /\ stage' = [stage EXCEPT ![th] = "quote"]
  /\ answer' = [answer EXCEPT ![th] = [kind |-> "credential_failure",
                                       reason |-> reason]]

\* Mutants: whose credential it is, is not asked; nothing is ever attested.
AttestAlways(th, reason) == AttestFailure(th, reason)
AttestNever(th, reason)  == Reply(th, "rejected")

\* A fault of the contestant's credential: evidence if the profile says the
\* contestant owns it, an error otherwise.
CredentialFault(th, reason) ==
  IF Attests THEN AttestFailure(th, reason) ELSE Reply(th, "rejected")

Faults(th, fault) == faulted' = IF fault THEN faulted \cup {th} ELSE faulted

-----------------------------------------------------------------------------
(* _run after the reservation.                                             *)

\* resolve_sealed_credential raises: the ciphertext or its contents are no
\* good, or the key service failed (fault), which _decrypt's caller does not
\* tell apart.
CredentialRaises(th, fault) ==
  /\ stage[th] = "credential"
  /\ LET b == body[job[th]] IN
       /\ b.sealed # None
       /\ fault \/ b.sealed = Unreadable
  /\ CredentialFault(th, "unreadable")
  /\ Faults(th, fault)
  /\ UNCHANGED <<guardVars, mode, body, job, cred>>

\* A credential can only be used with the bundle it is bound to.
NeedsBundle(b) == b.sealed # None /\ b.bundle = None

\* A run its contestant had to fund and did not.
Unfunded(b) == Attests /\ b.sealed = None /\ b.bundle # None

\* It returns a credential, or None when nothing was sealed.
CredentialResolved(th) ==
  /\ stage[th] = "credential"
  /\ LET b == body[job[th]] IN
       /\ b.sealed # Unreadable
       /\ cred' = [cred EXCEPT ![th] = b.sealed]
       /\ \/ NeedsBundle(b) /\ Reply(th, "rejected")
          \/ Unfunded(b) /\ AttestFailure(th, "absent")
          \/ ~NeedsBundle(b) /\ ~Unfunded(b) /\ Proceed(th, "bundle")
  /\ UNCHANGED <<guardVars, mode, body, job, faulted>>

\* The bundle passes the validator's digest.
DigestMatches(b)    == b.digest = b.bundle
\* Mutant: any credential goes with any bundle.
BoundToAnything(th, bundle) == TRUE

\* The opened credential was sealed for this bundle.
BoundTo(th, bundle) == cred[th] = None \/ cred[th] = bundle

\* Unpacking and hashing, and the two comparisons, in the code's order.
BundleChecked(th) ==
  /\ stage[th] = "bundle"
  /\ LET b == body[job[th]] IN
       \/ b.bundle = None /\ Proceed(th, "profile")
       \/ b.bundle = Broken /\ Reply(th, "rejected")
       \/ /\ b.bundle \in Bundles
          /\ \/ ~DigestMatches(b) /\ Reply(th, "rejected")
             \/ /\ DigestMatches(b) /\ ~BoundTo(th, b.bundle)
                /\ CredentialFault(th, "not_bound_to_bundle")
             \/ /\ DigestMatches(b) /\ BoundTo(th, b.bundle)
                /\ Proceed(th, "profile")
  /\ UNCHANGED <<guardVars, mode, body, job, cred, faulted>>

\* A disk fault: as an OSError while unpacking it becomes a RuntimeError (400),
\* anywhere else a 500.
BundleFault(th) ==
  /\ stage[th] = "bundle"
  /\ \/ body[job[th]].bundle # None /\ Reply(th, "rejected")
     \/ Reply(th, "error")
  /\ Faults(th, TRUE)
  /\ UNCHANGED <<guardVars, mode, body, job, cred>>

\* PROFILE.run returns a TeeJobResult ...
ProfileReturns(th) ==
  /\ stage[th] = "profile"
  /\ stage' = [stage EXCEPT ![th] = "quote"]
  /\ answer' = [answer EXCEPT ![th] = [kind |-> "result"]]
  /\ UNCHANGED <<guardVars, mode, body, job, cred, faulted>>

\* ... or raises, or returns something else, or its directory or its inference
\* summary cannot be dealt with.
ProfileFails(th) ==
  /\ stage[th] = "profile"
  /\ Reply(th, "error")
  /\ Faults(th, TRUE)
  /\ UNCHANGED <<guardVars, mode, body, job, cred>>

\* bind_and_quote, for a result and for a credential failure alike.
Quoted(th) ==
  /\ stage[th] = "quote"
  /\ Proceed(th, "answered")
  /\ UNCHANGED <<guardVars, mode, body, job, cred, faulted>>

QuoteFails(th) ==
  /\ stage[th] = "quote"
  /\ Reply(th, "error")
  /\ Faults(th, TRUE)
  /\ UNCHANGED <<guardVars, mode, body, job, cred>>

\* The response is sent and the thread is free again.
Respond(th) ==
  /\ stage[th] = "answered"
  /\ stage' = [stage EXCEPT ![th] = "idle"]
  /\ job' = [job EXCEPT ![th] = None]
  /\ cred' = [cred EXCEPT ![th] = None]
  /\ answer' = [answer EXCEPT ![th] = None]
  /\ faulted' = faulted \ {th}
  /\ UNCHANGED <<guardVars, mode, body>>

\* The room restarts: nobody gets an answer.
Restart ==
  /\ Guard!Restart
  /\ stage' = [th \in Threads |-> "idle"]
  /\ job' = [th \in Threads |-> None]
  /\ cred' = [th \in Threads |-> None]
  /\ answer' = [th \in Threads |-> None]
  /\ faulted' = {}
  /\ UNCHANGED <<mode, body>>

Tick == Guard!Tick /\ UNCHANGED roomVars

-----------------------------------------------------------------------------
Work(th) ==
  \/ EnterReserve(th) \/ Reserve(th)
  \/ \E fault \in BOOLEAN : CredentialRaises(th, fault)
  \/ CredentialResolved(th)
  \/ BundleChecked(th) \/ BundleFault(th)
  \/ ProfileReturns(th) \/ ProfileFails(th)
  \/ Quoted(th) \/ QuoteFails(th)
  \/ Respond(th)

Next ==
  \/ \E th \in Threads, r \in Requests : Receive(th, r)
  \/ \E th \in Threads : Work(th)
  \/ Restart
  \/ Tick

Spec == Init /\ [][Next]_vars

-----------------------------------------------------------------------------
(* Properties.                                                             *)

Answered(th, kind) == stage[th] = "answered" /\ answer[th].kind = kind

\* A profile only ever sees a credential together with the very bundle it was
\* sealed for, which is the one the validator named; and a participant-funded
\* room never runs a bundle without one.  An attested result says no less,
\* whatever else was asked of the room meanwhile.
OwnBundleOnly ==
  \A th \in Threads :
    stage[th] = "profile" \/ Answered(th, "result") =>
      LET b == body[job[th]] IN
        /\ cred[th] = b.sealed
        /\ b.bundle # None => b.bundle = b.digest
        /\ b.sealed # None => b.sealed = b.bundle
        /\ Attests /\ b.bundle # None => b.sealed = b.bundle

\* An attested failure zeroes a contestant, so it must be the contestant's: it
\* is given only where contestants own the credentials, a credential attested
\* absent was not sent with a bundle to run, one attested as not bound is bound
\* to another bundle than the one the validator really meant to send, and one
\* attested as unreadable is unreadable.  To the last there is one exception,
\* and no other fault of the room makes one: the key service that failed while
\* the credential was being opened.
FailureIsContestants ==
  \A th \in Threads : Answered(th, "credential_failure") =>
    LET b == body[job[th]] IN
      /\ mode = ATTESTED_ZERO
      /\ answer[th].reason = "absent" => b.sealed = None /\ b.bundle # None
      /\ answer[th].reason = "not_bound_to_bundle" =>
           b.sealed \in Bundles \ {b.bundle} /\ b.bundle = b.digest
      /\ answer[th].reason = "unreadable" =>
           b.sealed = Unreadable \/ (b.sealed # None /\ th \in faulted)

\* A contestant cannot turn its own credential fault into something that is not
\* evidence: in attested_zero mode a 400 after the reservation means that the
\* bundle was missing, broken, or not the validator's, or that the room failed.
FaultIsEvidence ==
  \A th \in Threads : mode = ATTESTED_ZERO /\ Answered(th, "rejected") =>
    LET b == body[job[th]] IN
      \/ b.bundle \in {None, Broken}
      \/ b.bundle # b.digest
      \/ th \in faulted

Working(th) == stage[th] \in {"credential", "bundle", "profile", "quote"}

\* The nonce is the job id under which the profile opens its broker job and the
\* gateway counts its calls: no run starts under the nonce of another that is
\* still under way, as long as the guard owes that nonce its protection.
JobIdExclusive ==
  [][\A th, other \in Threads :
       /\ ~Working(th) /\ Working(th)'
       /\ other # th /\ Working(other)
       /\ Guard!Protected(Request[job[other]].nonce)
       => Request[job[th]'].nonce # Request[job[other]].nonce]_vars

=============================================================================

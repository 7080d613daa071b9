---------------------------- MODULE RoomRunProofs ---------------------------
(***************************************************************************)
(* Proofs about RoomRun, for any requests, bodies, bundles and threads.    *)
(* The guard's part of a step is a step of ReplayGuard, so its inductive   *)
(* invariant and the refusal of protected nonces are taken from            *)
(* ReplayGuardProofs.  The rest of IInv says, thread by thread, what the   *)
(* stage a request has reached tells of its body.                          *)
(***************************************************************************)
EXTENDS RoomRun, TLAPS

GP == INSTANCE ReplayGuardProofs

USE GuardAssumption, BodyAssumption DEF Body, Answer, Reasons, Stages

-----------------------------------------------------------------------------
(* The inductive invariant.                                                *)

\* The body of the request a thread works on.
BodyOf(th) == body[job[th]]

\* The profile may run, or has run, with this body and this credential.
Runnable(th) ==
  /\ cred[th] = BodyOf(th).sealed
  /\ BodyOf(th).bundle # None => BodyOf(th).bundle = BodyOf(th).digest
  /\ BodyOf(th).sealed # None => BodyOf(th).sealed = BodyOf(th).bundle
  /\ Attests /\ BodyOf(th).bundle # None => BodyOf(th).sealed = BodyOf(th).bundle

\* The credential failure to be attested is the contestant's.
Blamed(th) ==
  /\ mode = ATTESTED_ZERO
  /\ answer[th].reason = "absent" => BodyOf(th).sealed = None /\ BodyOf(th).bundle # None
  /\ answer[th].reason = "not_bound_to_bundle" =>
       /\ BodyOf(th).sealed \in Bundles \ {BodyOf(th).bundle}
       /\ BodyOf(th).bundle = BodyOf(th).digest
  /\ answer[th].reason = "unreadable" =>
       BodyOf(th).sealed = Unreadable \/ (BodyOf(th).sealed # None /\ th \in faulted)

\* A 400 that is no evidence against the contestant's credential.
Excused(th) ==
  \/ BodyOf(th).bundle \in {None, Broken}
  \/ BodyOf(th).bundle # BodyOf(th).digest
  \/ th \in faulted

\* What the stage of a thread says of its request, its credential, its answer.
Sound(th) ==
  /\ stage[th] # "idle" => job[th] \in Requests
  /\ stage[th] = "bundle" =>
       /\ cred[th] = BodyOf(th).sealed
       /\ BodyOf(th).sealed # Unreadable
       /\ ~NeedsBundle(BodyOf(th))
       /\ ~Unfunded(BodyOf(th))
  /\ stage[th] = "profile" => Runnable(th)
  /\ stage[th] = "quote" => answer[th].kind \in {"result", "credential_failure"}
  /\ stage[th] \in {"quote", "answered"} =>
       /\ answer[th] \in Answer
       /\ answer[th].kind = "result" => Runnable(th)
       /\ answer[th].kind = "credential_failure" => Blamed(th)
  /\ stage[th] = "answered" /\ mode = ATTESTED_ZERO /\ answer[th].kind = "rejected" =>
       Excused(th)

RoomTyped ==
  /\ mode \in {ATTESTED_ZERO, HTTP_ERROR}
  /\ body \in [Requests -> Body]
  /\ stage \in [Threads -> Stages]
  /\ job \in [Threads -> Requests \cup {None}]
  /\ cred \in [Threads -> Bundles \cup {None}]
  /\ answer \in [Threads -> Answer \cup {None}]
  /\ faulted \subseteq Threads

IInv ==
  /\ GP!IInv
  /\ RoomTyped
  /\ \A th \in Threads : Sound(th)

-----------------------------------------------------------------------------
(* The guard.                                                              *)

\* The guard's view of a step of the room is a step of the guard, or none.
LEMMA StepOfGuard ==
  ASSUME [Next]_vars
  PROVE  [Guard!Next]_Guard!vars
<1>1. \/ \E th \in Threads, r \in Requests : Guard!Validate(th, r)
      \/ \E th \in Threads : Guard!EnterReserve(th) \/ Guard!Reserve(th)
      \/ Guard!Restart
      \/ Guard!Tick
      \/ UNCHANGED guardVars
  BY DEF Next, Work, Receive, EnterReserve, Reserve, CredentialRaises,
     CredentialResolved, BundleChecked, BundleFault, ProfileReturns, ProfileFails,
     Quoted, QuoteFails, Respond, Restart, Tick, vars
<1>2. UNCHANGED guardVars => UNCHANGED Guard!vars
  BY DEF guardVars, Guard!vars
<1> QED BY <1>1, <1>2 DEF Guard!Next

\* So it preserves the guard's inductive invariant.
LEMMA GuardStep ==
  ASSUME GP!IInv, [Next]_vars
  PROVE  GP!IInv'
<1>1. ASSUME NEW th \in Threads, NEW r \in Requests, Guard!Validate(th, r)
      PROVE  GP!Next
  <2>1. GP!Validate(th, r)
    BY <1>1 DEF GP!Validate, Guard!Validate, GP!InWindow, Guard!InWindow
  <2> QED BY <2>1 DEF GP!Next
<1>2. ASSUME NEW th \in Threads, Guard!EnterReserve(th)
      PROVE  GP!Next
  <2>1. GP!EnterReserve(th)
    BY <1>2 DEF GP!EnterReserve, Guard!EnterReserve
  <2> QED BY <2>1 DEF GP!Next
<1>3. ASSUME NEW th \in Threads, Guard!Reserve(th)
      PROVE  GP!Next
  <2>1. GP!Reserve(th)
    BY <1>3 DEF GP!Reserve, Guard!Reserve, GP!StopsAt, Guard!StopsAt, GP!Expired,
       Guard!Expired, GP!Suffix, Guard!Suffix, GP!Refuse, Guard!Refuse, GP!Admit,
       Guard!Admit, GP!Knows, Guard!Knows, GP!Insert, Guard!Insert, GP!Evict, Guard!Evict
  <2> QED BY <2>1 DEF GP!Next
<1>4. Guard!Restart => GP!Next
  BY DEF GP!Next, GP!Restart, Guard!Restart
<1>5. Guard!Tick => GP!Next
  BY DEF GP!Next, GP!Tick, Guard!Tick
<1>6. UNCHANGED Guard!vars => UNCHANGED GP!vars
  BY DEF Guard!vars, GP!vars
<1>7. GP!Next \/ UNCHANGED GP!vars
  BY <1>1, <1>2, <1>3, <1>4, <1>5, <1>6, StepOfGuard DEF Guard!Next
<1> QED BY <1>7, GP!StepInv

\* A thread that reserves holds a request.
LEMMA ReservesRequest ==
  ASSUME GP!IInv, NEW th \in Threads, Guard!Reserve(th)
  PROVE  req[th] \in Requests
  BY DEF GP!IInv, GP!TypeOK, GP!ThreadsSound, Guard!Reserve

\* reserve finds a protected nonce, wherever its pruning stops.
LEMMA ProtectedIsKnown ==
  ASSUME GP!IInv, NEW th \in Threads, Guard!Reserve(th),
         Guard!Protected(Request[req[th]].nonce)
  PROVE  NonceKnown(th)
<1>1. Request[req[th]].nonce \in Nonces
  BY ReservesRequest
<1>2. PICK p \in 1..Len(seen) + 1 : Guard!StopsAt(seen, p, now[th])
  BY DEF Guard!Reserve
<1>3. GP!StopsAt(seen, p, now[th])
  BY <1>2 DEF GP!StopsAt, Guard!StopsAt, GP!Expired, Guard!Expired
<1>4. GP!Protected(Request[req[th]].nonce)
  BY DEF GP!Protected, Guard!Protected
<1>5. GP!Knows(GP!Suffix(seen, p), Request[req[th]].nonce)
  BY <1>1, <1>3, <1>4, GP!ProtectedIsRefused
<1>6. Guard!Knows(Guard!Suffix(seen, p), Request[req[th]].nonce)
  BY <1>5 DEF GP!Knows, Guard!Knows, GP!Suffix, Guard!Suffix
<1> QED BY <1>2, <1>6 DEF NonceKnown

-----------------------------------------------------------------------------
(* One thread's step, seen from the others.                                *)

\* Nothing about the other threads changes; their faults stay on record.
OthersKept(th) ==
  /\ UNCHANGED <<mode, body>>
  /\ \A o \in Threads \ {th} :
       /\ stage'[o] = stage[o] /\ job'[o] = job[o]
       /\ cred'[o] = cred[o] /\ answer'[o] = answer[o]
       /\ o \in faulted => o \in faulted'

LEMMA SoundIsKept ==
  ASSUME NEW o, Sound(o), UNCHANGED <<mode, body>>, stage'[o] = stage[o],
         job'[o] = job[o], cred'[o] = cred[o], answer'[o] = answer[o],
         o \in faulted => o \in faulted'
  PROVE  Sound(o)'
<1>1. BodyOf(o)' = BodyOf(o)
  BY DEF BodyOf
<1>2. Runnable(o) => Runnable(o)'
  BY <1>1 DEF Runnable, Attests
<1>3. Blamed(o) => Blamed(o)'
  BY <1>1 DEF Blamed
<1>4. Excused(o) => Excused(o)'
  BY <1>1 DEF Excused
<1>5. /\ NeedsBundle(BodyOf(o))' <=> NeedsBundle(BodyOf(o))
      /\ Unfunded(BodyOf(o))' <=> Unfunded(BodyOf(o))
  BY <1>1 DEF NeedsBundle, Unfunded, Attests
<1> QED BY <1>1, <1>2, <1>3, <1>4, <1>5 DEF Sound

\* So a step of one thread keeps IInv if that thread is sound after it.
LEMMA OneThread ==
  ASSUME IInv, NEW th \in Threads, GP!IInv', RoomTyped', Sound(th)', OthersKept(th)
  PROVE  IInv'
<1>1. \A o \in Threads \ {th} : Sound(o)'
  BY SoundIsKept DEF IInv, OthersKept
<1> QED BY <1>1 DEF IInv

-----------------------------------------------------------------------------
(* The steps.                                                              *)

\* The room starts with every thread idle.
LEMMA InitInv == Init => IInv
<1> SUFFICES ASSUME Init PROVE IInv
  OBVIOUS
<1>1. GP!Init
  BY DEF Init, Guard!Init, GP!Init
<1>2. GP!IInv
  BY <1>1, GP!InitInv
<1>3. RoomTyped
  BY DEF Init, RoomTyped
<1>4. \A th \in Threads : Sound(th)
  BY DEF Init, Sound
<1> QED BY <1>2, <1>3, <1>4 DEF IInv

\* A thread gets its request with the reservation, and starts or is refused.
LEMMA ReserveInv ==
  ASSUME IInv, GP!IInv', NEW th \in Threads, Reserve(th)
  PROVE  IInv'
<1>1. req[th] \in Requests
  BY ReservesRequest DEF IInv, Reserve
<1>2. RoomTyped'
  <2>1. answer' = answer \/ answer' = [answer EXCEPT ![th] = [kind |-> "conflict"]]
    BY DEF Reserve
  <2>2. answer' \in [Threads -> Answer \cup {None}]
    BY <2>1 DEF IInv, RoomTyped
  <2>3. stage' \in [Threads -> Stages]
    BY DEF Reserve, IInv, RoomTyped
  <2> QED BY <1>1, <2>2, <2>3 DEF Reserve, IInv, RoomTyped
<1>3. /\ job'[th] = req[th]
      /\ \/ stage'[th] = "credential"
         \/ stage'[th] = "answered" /\ answer'[th] = [kind |-> "conflict"]
  BY DEF Reserve, IInv, RoomTyped
<1>4. Sound(th)'
  BY <1>1, <1>3 DEF Sound
<1>5. OthersKept(th)
  BY DEF Reserve, IInv, RoomTyped, OthersKept
<1> QED BY <1>2, <1>4, <1>5, OneThread

\* What an answer of a thread at work leaves as it was.
LEMMA WorkKeeps ==
  ASSUME IInv, NEW th \in Threads, NEW s \in Stages, NEW a \in Answer \cup {None},
         stage' = [stage EXCEPT ![th] = s],
         answer' = [answer EXCEPT ![th] = a] \/ (UNCHANGED answer /\ a = answer[th]),
         UNCHANGED <<mode, body, job>>,
         UNCHANGED cred \/ \E c \in Bundles \cup {None} : cred' = [cred EXCEPT ![th] = c],
         faulted' = faulted \/ faulted' = faulted \cup {th}
  PROVE  /\ RoomTyped' /\ OthersKept(th)
         /\ stage'[th] = s /\ answer'[th] = a /\ job'[th] = job[th]
         /\ BodyOf(th)' = BodyOf(th)
<1>1. stage' \in [Threads -> Stages] /\ stage'[th] = s
      /\ \A o \in Threads \ {th} : stage'[o] = stage[o]
  BY DEF IInv, RoomTyped
<1>2. answer' \in [Threads -> Answer \cup {None}] /\ answer'[th] = a
      /\ \A o \in Threads \ {th} : answer'[o] = answer[o]
  BY DEF IInv, RoomTyped
<1>3. cred' \in [Threads -> Bundles \cup {None}]
      /\ \A o \in Threads \ {th} : cred'[o] = cred[o]
  BY DEF IInv, RoomTyped
<1>4. BodyOf(th)' = BodyOf(th)
  BY DEF BodyOf
<1> QED BY <1>1, <1>2, <1>3, <1>4 DEF IInv, RoomTyped, OthersKept

\* The body of a working thread's request.
LEMMA BodyTyped ==
  ASSUME IInv, NEW th \in Threads, stage[th] # "idle"
  PROVE  job[th] \in Requests /\ BodyOf(th) \in Body
  BY DEF IInv, RoomTyped, Sound, BodyOf

\* A 400 or a 500 ends the request; the 400 has to be excused.
LEMMA ReplyInv ==
  ASSUME IInv, GP!IInv', NEW th \in Threads, stage[th] # "idle",
         NEW kind \in {"rejected", "error"}, Reply(th, kind),
         UNCHANGED <<mode, body, job>>,
         UNCHANGED cred \/ \E c \in Bundles \cup {None} : cred' = [cred EXCEPT ![th] = c],
         faulted' = faulted \/ faulted' = faulted \cup {th},
         kind = "rejected" /\ mode = ATTESTED_ZERO => Excused(th) \/ th \in faulted'
  PROVE  IInv'
<1> DEFINE a == [kind |-> kind]
<1>1. a \in Answer /\ "answered" \in Stages
  OBVIOUS
<1>2. /\ stage' = [stage EXCEPT ![th] = "answered"]
      /\ answer' = [answer EXCEPT ![th] = a]
  BY DEF Reply
<1>3. /\ RoomTyped' /\ OthersKept(th)
      /\ stage'[th] = "answered" /\ answer'[th] = a /\ job'[th] = job[th]
      /\ BodyOf(th)' = BodyOf(th)
  BY <1>1, <1>2, WorkKeeps
<1>4. kind = "rejected" /\ mode' = ATTESTED_ZERO => Excused(th)'
  BY <1>3 DEF Excused
<1>5. Sound(th)'
  BY <1>3, <1>4, BodyTyped DEF Sound
<1> QED BY <1>3, <1>5, OneThread

\* A credential failure goes to the quote; the contestant has to be to blame.
LEMMA AttestInv ==
  ASSUME IInv, GP!IInv', NEW th \in Threads, stage[th] # "idle",
         NEW reason \in Reasons, AttestFailure(th, reason),
         UNCHANGED <<mode, body, job>>,
         UNCHANGED cred \/ \E c \in Bundles \cup {None} : cred' = [cred EXCEPT ![th] = c],
         faulted' = faulted \/ faulted' = faulted \cup {th},
         mode = ATTESTED_ZERO,
         reason = "absent" => BodyOf(th).sealed = None /\ BodyOf(th).bundle # None,
         reason = "not_bound_to_bundle" =>
           /\ BodyOf(th).sealed \in Bundles \ {BodyOf(th).bundle}
           /\ BodyOf(th).bundle = BodyOf(th).digest,
         reason = "unreadable" =>
           BodyOf(th).sealed = Unreadable \/ (BodyOf(th).sealed # None /\ th \in faulted')
  PROVE  IInv'
<1> DEFINE a == [kind |-> "credential_failure", reason |-> reason]
<1>1. a \in Answer /\ "quote" \in Stages
  OBVIOUS
<1>2. /\ stage' = [stage EXCEPT ![th] = "quote"]
      /\ answer' = [answer EXCEPT ![th] = a]
  BY DEF AttestFailure
<1>3. /\ RoomTyped' /\ OthersKept(th)
      /\ stage'[th] = "quote" /\ answer'[th] = a /\ job'[th] = job[th]
      /\ BodyOf(th)' = BodyOf(th)
  BY <1>1, <1>2, WorkKeeps
<1>4. Blamed(th)'
  BY <1>3 DEF Blamed
<1>5. Sound(th)'
  BY <1>3, <1>4, BodyTyped DEF Sound
<1> QED BY <1>3, <1>5, OneThread

\* A credential that does not open: blamed on the contestant, who sent one.
LEMMA CredentialRaisesInv ==
  ASSUME IInv, GP!IInv', NEW th \in Threads, NEW fault \in BOOLEAN,
         CredentialRaises(th, fault)
  PROVE  IInv'
<1>1. /\ stage[th] # "idle" /\ UNCHANGED <<mode, body, job, cred>>
      /\ BodyOf(th).sealed # None
      /\ BodyOf(th).sealed = Unreadable \/ fault
      /\ faulted' = IF fault THEN faulted \cup {th} ELSE faulted
  BY DEF CredentialRaises, BodyOf, Faults
<1>2. CASE Attests
  <2>1. AttestFailure(th, "unreadable")
    BY <1>2 DEF CredentialRaises, CredentialFault
  <2> QED BY <1>1, <1>2, <2>1, AttestInv DEF Attests
<1>3. CASE ~Attests
  <2>1. Reply(th, "rejected")
    BY <1>3 DEF CredentialRaises, CredentialFault
  <2> QED BY <1>1, <1>3, <2>1, ReplyInv DEF Attests
<1> QED BY <1>2, <1>3

\* The credential is opened and goes on only if it and the bundle can go together.
LEMMA CredentialResolvedInv ==
  ASSUME IInv, GP!IInv', NEW th \in Threads, CredentialResolved(th)
  PROVE  IInv'
<1> DEFINE b == BodyOf(th)
<1>1. /\ stage[th] # "idle" /\ UNCHANGED <<mode, body, job, faulted>>
      /\ b.sealed # Unreadable /\ cred' = [cred EXCEPT ![th] = b.sealed]
      /\ \/ NeedsBundle(b) /\ Reply(th, "rejected")
         \/ Unfunded(b) /\ AttestFailure(th, "absent")
         \/ ~NeedsBundle(b) /\ ~Unfunded(b) /\ Proceed(th, "bundle")
  BY DEF CredentialResolved, BodyOf
<1>2. b \in Body
  BY <1>1, BodyTyped
<1>3. b.sealed \in Bundles \cup {None}
  BY <1>1, <1>2
<1>4. CASE NeedsBundle(b) /\ Reply(th, "rejected")
  <2>1. Excused(th)
    BY <1>4 DEF NeedsBundle, Excused
  <2> QED BY <1>1, <1>3, <1>4, <2>1, ReplyInv
<1>5. CASE Unfunded(b) /\ AttestFailure(th, "absent")
  BY <1>1, <1>3, <1>5, AttestInv DEF Unfunded, Attests
<1>6. CASE ~NeedsBundle(b) /\ ~Unfunded(b) /\ Proceed(th, "bundle")
  <2>1. /\ stage' = [stage EXCEPT ![th] = "bundle"] /\ UNCHANGED answer
        /\ answer[th] \in Answer \cup {None} /\ "bundle" \in Stages
    BY <1>6 DEF Proceed, IInv, RoomTyped
  <2>2. /\ RoomTyped' /\ OthersKept(th)
        /\ stage'[th] = "bundle" /\ job'[th] = job[th] /\ BodyOf(th)' = b
    BY <1>1, <1>3, <2>1, WorkKeeps
  <2>3. cred'[th] = b.sealed
    BY <1>1 DEF IInv, RoomTyped
  <2>4. ~NeedsBundle(b)' /\ ~Unfunded(b)'
    BY <1>1, <1>6, <2>2 DEF NeedsBundle, Unfunded, Attests
  <2>5. Sound(th)'
    BY <1>1, <2>2, <2>3, <2>4, BodyTyped DEF Sound
  <2> QED BY <2>2, <2>5, OneThread
<1> QED BY <1>1, <1>4, <1>5, <1>6

\* The bundle is the validator's and the credential's, or the request ends here.
LEMMA BundleCheckedInv ==
  ASSUME IInv, GP!IInv', NEW th \in Threads, BundleChecked(th)
  PROVE  IInv'
<1> DEFINE b == BodyOf(th)
<1>1. stage[th] = "bundle" /\ UNCHANGED <<mode, body, job, cred, faulted>>
  BY DEF BundleChecked
<1>2. \/ b.bundle = None /\ Proceed(th, "profile")
      \/ b.bundle = Broken /\ Reply(th, "rejected")
      \/ ~DigestMatches(b) /\ Reply(th, "rejected")
      \/ /\ DigestMatches(b) /\ ~BoundTo(th, b.bundle)
         /\ CredentialFault(th, "not_bound_to_bundle")
      \/ /\ DigestMatches(b) /\ BoundTo(th, b.bundle)
         /\ Proceed(th, "profile")
  BY DEF BundleChecked, BodyOf
<1>3. b \in Body /\ cred[th] = b.sealed /\ b.sealed # Unreadable
      /\ ~NeedsBundle(b) /\ ~Unfunded(b)
  BY <1>1, BodyTyped DEF IInv, Sound
<1>4. CASE Reply(th, "rejected") /\ (b.bundle = Broken \/ ~DigestMatches(b))
  <2>1. Excused(th)
    BY <1>4 DEF Excused, DigestMatches
  <2> QED BY <1>1, <1>4, <2>1, ReplyInv
<1>5. CASE DigestMatches(b) /\ ~BoundTo(th, b.bundle)
           /\ CredentialFault(th, "not_bound_to_bundle")
  <2>1. b.sealed \in Bundles \ {b.bundle} /\ b.bundle = b.digest
    BY <1>3, <1>5 DEF BoundTo, DigestMatches
  <2>2. CASE Attests
    <3>1. AttestFailure(th, "not_bound_to_bundle")
      BY <1>5, <2>2 DEF CredentialFault
    <3> QED BY <1>1, <2>1, <2>2, <3>1, AttestInv DEF Attests
  <2>3. CASE ~Attests
    <3>1. Reply(th, "rejected")
      BY <1>5, <2>3 DEF CredentialFault
    <3> QED BY <1>1, <2>3, <3>1, ReplyInv DEF Attests
  <2> QED BY <2>2, <2>3
<1>6. ASSUME Proceed(th, "profile"),
             b.bundle = None \/ (DigestMatches(b) /\ BoundTo(th, b.bundle))
      PROVE  IInv'
  <2>1. Runnable(th)
    BY <1>3, <1>6 DEF Runnable, NeedsBundle, Unfunded, DigestMatches, BoundTo
  <2>2. /\ stage' = [stage EXCEPT ![th] = "profile"] /\ UNCHANGED answer
        /\ answer[th] \in Answer \cup {None} /\ "profile" \in Stages
    BY <1>6 DEF Proceed, IInv, RoomTyped
  <2>3. /\ RoomTyped' /\ OthersKept(th)
        /\ stage'[th] = "profile" /\ job'[th] = job[th] /\ BodyOf(th)' = b
    BY <1>1, <2>2, WorkKeeps
  <2>4. Runnable(th)'
    BY <1>1, <2>1, <2>3 DEF Runnable, Attests
  <2>5. Sound(th)'
    BY <1>1, <2>3, <2>4, BodyTyped DEF Sound
  <2> QED BY <2>3, <2>5, OneThread
<1> QED BY <1>2, <1>4, <1>5, <1>6

\* A fault of the room ends the request, and is on record.
LEMMA FaultInv ==
  ASSUME IInv, GP!IInv', NEW th \in Threads,
         BundleFault(th) \/ ProfileFails(th) \/ QuoteFails(th)
  PROVE  IInv'
<1>1. /\ stage[th] # "idle" /\ UNCHANGED <<mode, body, job, cred>>
      /\ faulted' = faulted \cup {th}
      /\ Reply(th, "rejected") \/ Reply(th, "error")
  BY DEF BundleFault, ProfileFails, QuoteFails, Faults
<1> QED BY <1>1, ReplyInv

\* The profile's result goes to the quote.
LEMMA ProfileReturnsInv ==
  ASSUME IInv, GP!IInv', NEW th \in Threads, ProfileReturns(th)
  PROVE  IInv'
<1> DEFINE a == [kind |-> "result"]
<1>1. /\ stage[th] = "profile" /\ UNCHANGED <<mode, body, job, cred, faulted>>
      /\ stage' = [stage EXCEPT ![th] = "quote"] /\ answer' = [answer EXCEPT ![th] = a]
      /\ a \in Answer /\ "quote" \in Stages
  BY DEF ProfileReturns
<1>2. /\ RoomTyped' /\ OthersKept(th)
      /\ stage'[th] = "quote" /\ answer'[th] = a /\ job'[th] = job[th]
      /\ BodyOf(th)' = BodyOf(th)
  BY <1>1, WorkKeeps
<1>3. Runnable(th)'
  BY <1>1, <1>2 DEF IInv, Sound, Runnable, Attests
<1>4. Sound(th)'
  BY <1>1, <1>2, <1>3, BodyTyped DEF Sound
<1> QED BY <1>2, <1>4, OneThread

\* What was quoted is answered as it was.
LEMMA QuotedInv ==
  ASSUME IInv, GP!IInv', NEW th \in Threads, Quoted(th)
  PROVE  IInv'
<1>1. /\ stage[th] = "quote" /\ UNCHANGED <<mode, body, job, cred, faulted>>
      /\ stage' = [stage EXCEPT ![th] = "answered"] /\ UNCHANGED answer
      /\ answer[th] \in Answer \cup {None} /\ "answered" \in Stages
  BY DEF Quoted, Proceed, IInv, RoomTyped
<1>2. /\ RoomTyped' /\ OthersKept(th)
      /\ stage'[th] = "answered" /\ answer'[th] = answer[th] /\ job'[th] = job[th]
      /\ BodyOf(th)' = BodyOf(th)
  BY <1>1, WorkKeeps
<1>3. /\ answer[th] \in Answer
      /\ answer[th].kind \in {"result", "credential_failure"}
      /\ answer[th].kind = "result" => Runnable(th)
      /\ answer[th].kind = "credential_failure" => Blamed(th)
  BY <1>1 DEF IInv, Sound
<1>4. /\ Runnable(th) => Runnable(th)'
      /\ Blamed(th) => Blamed(th)'
  BY <1>1, <1>2 DEF Runnable, Blamed, Attests
<1>5. Sound(th)'
  BY <1>1, <1>2, <1>3, <1>4, BodyTyped DEF Sound
<1> QED BY <1>2, <1>5, OneThread

\* The thread is free again.
LEMMA RespondInv ==
  ASSUME IInv, GP!IInv', NEW th \in Threads, Respond(th)
  PROVE  IInv'
<1>1. RoomTyped' /\ OthersKept(th)
  BY DEF Respond, IInv, RoomTyped, OthersKept
<1>2. stage'[th] = "idle"
  BY DEF Respond, IInv, RoomTyped
<1>3. Sound(th)'
  BY <1>2 DEF Sound
<1> QED BY <1>1, <1>3, OneThread

\* A restart leaves every thread idle.
LEMMA RestartInv ==
  ASSUME IInv, GP!IInv', Restart
  PROVE  IInv'
<1>1. RoomTyped'
  BY DEF Restart, IInv, RoomTyped
<1>2. \A th \in Threads : Sound(th)'
  BY DEF Restart, Sound
<1> QED BY <1>1, <1>2 DEF IInv

\* Where only the guard moves, the room's part of IInv stays.
LEMMA GuardOnlyInv ==
  ASSUME IInv, GP!IInv', UNCHANGED roomVars
  PROVE  IInv'
<1>1. UNCHANGED <<mode, body, stage, job, cred, answer, faulted>>
  BY DEF roomVars
<1>2. RoomTyped'
  BY <1>1 DEF IInv, RoomTyped
<1>3. \A th \in Threads : Sound(th)'
  BY <1>1, SoundIsKept DEF IInv
<1> QED BY <1>2, <1>3 DEF IInv

\* Every step of the room preserves IInv.
LEMMA StepInv == IInv /\ [Next]_vars => IInv'
<1> SUFFICES ASSUME IInv, [Next]_vars PROVE IInv'
  OBVIOUS
<1>1. GP!IInv'
  BY GuardStep DEF IInv
<1>2. ASSUME NEW th \in Threads, Work(th) PROVE IInv'
  <2>1. EnterReserve(th) => IInv'
    BY <1>1, GuardOnlyInv DEF EnterReserve
  <2>2. (\E fault \in BOOLEAN : CredentialRaises(th, fault)) => IInv'
    BY <1>1, CredentialRaisesInv
  <2> QED BY <1>1, <1>2, <2>1, <2>2, ReserveInv, CredentialResolvedInv,
             BundleCheckedInv, FaultInv, ProfileReturnsInv, QuotedInv, RespondInv
          DEF Work
<1>3. ASSUME NEW th \in Threads, NEW r \in Requests, Receive(th, r) PROVE IInv'
  BY <1>1, <1>3, GuardOnlyInv DEF Receive
<1>4. Tick \/ UNCHANGED vars => IInv'
  BY <1>1, GuardOnlyInv DEF Tick, vars
<1> QED BY <1>1, <1>2, <1>3, <1>4, RestartInv DEF Next

-----------------------------------------------------------------------------
(* The theorems.                                                           *)

\* The inductive invariant holds in every reachable state of the room.
THEOREM Invariance == Spec => []IInv
BY InitInv, StepInv, PTL DEF Spec

\* Whatever the room does with a request, its request window and nonce store go
\* through the steps of ReplayGuard and no others.
THEOREM ImplementsGuard == Spec => Guard!Spec
<1>1. Init => Guard!Init
  BY DEF Init
<1>2. [Next]_vars => [Guard!Next]_Guard!vars
  BY StepOfGuard
<1> QED BY <1>1, <1>2, PTL DEF Spec, Guard!Spec

\* So in the room, too, the store never admits a nonce it owes protection to.
THEOREM NonceUsedOnce == Spec => Guard!SingleUse
<1>1. Guard!Spec => GP!Spec
  BY DEF Guard!Spec, GP!Spec, Guard!Init, GP!Init, Guard!Next, GP!Next,
     GP!Validate, Guard!Validate, GP!InWindow, Guard!InWindow, GP!EnterReserve,
     Guard!EnterReserve, GP!Reserve, Guard!Reserve, GP!StopsAt, Guard!StopsAt,
     GP!Expired, Guard!Expired, GP!Suffix, Guard!Suffix, GP!Refuse, Guard!Refuse,
     GP!Admit, Guard!Admit, GP!Knows, Guard!Knows, GP!Insert, Guard!Insert,
     GP!Evict, Guard!Evict, GP!Restart, Guard!Restart, GP!Tick, Guard!Tick,
     GP!vars, Guard!vars
<1>2. GP!SingleUse => Guard!SingleUse
  BY DEF GP!SingleUse, Guard!SingleUse, GP!Protected, Guard!Protected, GP!vars,
     Guard!vars
<1> QED BY <1>1, <1>2, ImplementsGuard, GP!NonceUsedOnce, PTL

\* Every variable keeps its type.
THEOREM TypeCorrect == Spec => []TypeOK
<1>1. GP!IInv => Guard!TypeOK
  BY DEF GP!IInv, GP!TypeOK, Guard!TypeOK, GP!Entry, Guard!Entry
<1>2. IInv => TypeOK
  BY <1>1 DEF IInv, RoomTyped, TypeOK
<1> QED BY <1>2, Invariance, PTL

\* Whatever fails or is refused around it, a profile runs a bundle only with the
\* credential sealed for it, and an attested result comes from such a run.
THEOREM RunsOwnBundleOnly == Spec => []OwnBundleOnly
<1>1. IInv => OwnBundleOnly
  <2> SUFFICES ASSUME IInv, NEW th \in Threads,
                      stage[th] = "profile" \/ Answered(th, "result")
               PROVE  Runnable(th)
    BY DEF OwnBundleOnly, Runnable, BodyOf
  <2> QED BY DEF IInv, Sound, Answered
<1> QED BY <1>1, Invariance, PTL

\* An attested credential failure is the contestant's own, but for a key service
\* that failed while a credential was opened.
THEOREM BlamesContestantsOnly == Spec => []FailureIsContestants
<1>1. IInv => FailureIsContestants
  <2> SUFFICES ASSUME IInv, NEW th \in Threads, Answered(th, "credential_failure")
               PROVE  Blamed(th)
    BY DEF FailureIsContestants, Blamed, BodyOf
  <2> QED BY DEF IInv, Sound, Answered
<1> QED BY <1>1, Invariance, PTL

\* Where contestants own the credentials, none of them turns its credential
\* fault into a 400.
THEOREM FaultsBecomeEvidence == Spec => []FaultIsEvidence
<1>1. IInv => FaultIsEvidence
  <2> SUFFICES ASSUME IInv, NEW th \in Threads, mode = ATTESTED_ZERO,
                      Answered(th, "rejected")
               PROVE  Excused(th)
    BY DEF FaultIsEvidence, Excused, BodyOf
  <2> QED BY DEF IInv, Sound, Answered
<1> QED BY <1>1, Invariance, PTL

\* A thread starts to work only by a reservation that found its nonce unknown.
LEMMA StartsByReserving ==
  ASSUME IInv, [Next]_vars, NEW th \in Threads, ~Working(th), Working(th)'
  PROVE  Guard!Reserve(th) /\ ~NonceKnown(th) /\ job'[th] = req[th]
<1>1. stage \in [Threads -> Stages] /\ job \in [Threads -> Requests \cup {None}]
  BY DEF IInv, RoomTyped
<1>2. ASSUME NEW x \in Threads, Work(x), x # th PROVE FALSE
  <2> DEFINE Moves == stage' = stage \/ \E s \in Stages : stage' = [stage EXCEPT ![x] = s]
  <2>1. EnterReserve(x) \/ Reserve(x) => Moves
    BY DEF EnterReserve, Reserve, roomVars
  <2>2. \A kind : Reply(x, kind) => Moves
    BY DEF Reply
  <2>3. \A reason : CredentialFault(x, reason) \/ AttestFailure(x, reason) => Moves
    BY DEF CredentialFault, AttestFailure, Reply
  <2>4. \A s \in Stages : Proceed(x, s) => Moves
    BY DEF Proceed
  <2>5. (\E fault \in BOOLEAN : CredentialRaises(x, fault)) => Moves
    BY <2>3 DEF CredentialRaises
  <2>6. CredentialResolved(x) \/ BundleChecked(x) => Moves
    BY <2>2, <2>3, <2>4 DEF CredentialResolved, BundleChecked
  <2>7. BundleFault(x) \/ ProfileFails(x) \/ QuoteFails(x) \/ Quoted(x) => Moves
    BY <2>2, <2>4 DEF BundleFault, ProfileFails, QuoteFails, Quoted
  <2>8. ProfileReturns(x) \/ Respond(x) => Moves
    BY DEF ProfileReturns, Respond
  <2>9. Moves
    BY <1>2, <2>1, <2>5, <2>6, <2>7, <2>8 DEF Work
  <2> QED BY <1>1, <1>2, <2>9 DEF Working
<1>3. ASSUME Work(th), ~Reserve(th) PROVE FALSE
  <2>1. stage'[th] \in {"idle", "answered", stage[th]} \/ Working(th)
    BY <1>1, <1>3 DEF Work, EnterReserve, CredentialRaises, CredentialResolved,
       BundleChecked, BundleFault, ProfileReturns, ProfileFails, Quoted, QuoteFails,
       Respond, roomVars, Working
  <2> QED BY <2>1 DEF Working
<1>4. ~Restart /\ ~Tick /\ stage' # stage
  BY DEF Restart, Tick, roomVars, Working
<1>5. \A x \in Threads, r \in Requests : ~Receive(x, r)
  BY <1>4 DEF Receive, roomVars
<1>6. stage' = stage => ~UNCHANGED vars
  BY <1>4
<1>7. Reserve(th)
  BY <1>2, <1>3, <1>4, <1>5 DEF Next, vars, roomVars
<1>8. ~NonceKnown(th)
  BY <1>1, <1>7 DEF Reserve, Working
<1> QED BY <1>1, <1>7, <1>8 DEF Reserve

\* No run starts under a protected nonce under which another is still at work:
\* reserve would know it.
THEOREM NonceNamesOneJob == Spec => JobIdExclusive
<1> DEFINE A == \A th, other \in Threads :
                  /\ ~Working(th) /\ Working(th)'
                  /\ other # th /\ Working(other)
                  /\ Guard!Protected(Request[job[other]].nonce)
                  => Request[job[th]'].nonce # Request[job[other]].nonce
<1>1. ASSUME IInv, [Next]_vars PROVE A
  <2> SUFFICES ASSUME NEW th \in Threads, NEW other \in Threads,
                      ~Working(th), Working(th)',
                      Guard!Protected(Request[job[other]].nonce),
                      Request[job[th]'].nonce = Request[job[other]].nonce
               PROVE  FALSE
    OBVIOUS
  <2>1. Guard!Reserve(th) /\ ~NonceKnown(th) /\ job'[th] = req[th]
    BY <1>1, StartsByReserving
  <2>2. Guard!Protected(Request[req[th]].nonce)
    BY <2>1
  <2> QED BY <1>1, <2>1, <2>2, ProtectedIsKnown DEF IInv
<1>2. IInv /\ [Next]_vars => [A]_vars
  BY <1>1
<1> QED BY <1>2, Invariance, PTL DEF Spec, JobIdExclusive

=============================================================================

--------------------------- MODULE EvidenceProofs ---------------------------
(***************************************************************************)
(* That an answer which verifies was attested, for any number of runs and  *)
(* whatever the nonces, the project keys and the answers are.  The         *)
(* invariant is the type invariant: a quote is only ever made for what is  *)
(* attested.  The rest is that the parts of report_data can be told apart  *)
(* once the length of the nonce is known.                                  *)
(***************************************************************************)
EXTENDS Evidence, SequenceTheorems, TLAPS

\* Two concatenations whose first parts have one length are equal only part by
\* part.
LEMMA PartsOfEqualLength ==
  ASSUME NEW s \in Seq(Nat), NEW t \in Seq(Nat), NEW u \in Seq(Nat), NEW v \in Seq(Nat),
         Len(s) = Len(u), s \o t = u \o v
  PROVE  s = u /\ t = v
<1>1. Len(t) = Len(v)
  <2>1. Len(s \o t) = Len(s) + Len(t) /\ Len(u \o v) = Len(u) + Len(v)
    BY ConcatProperties
  <2> QED BY <2>1
<1>2. \A i \in 1 .. Len(s) : s[i] = u[i]
  <2> TAKE i \in 1 .. Len(s)
  <2>1. (s \o t)[i] = s[i] /\ (u \o v)[i] = u[i]
    OBVIOUS
  <2> QED BY <2>1
<1>3. \A i \in 1 .. Len(t) : t[i] = v[i]
  <2> TAKE i \in 1 .. Len(t)
  <2> DEFINE j == Len(s) + i
  <2>0. j \in 1 .. Len(s) + Len(t) /\ ~(j <= Len(s)) /\ j - Len(s) = i
    OBVIOUS
  <2>1. (s \o t)[j] = t[i]
    <3> HIDE DEF j
    <3>1. \A k \in 1 .. Len(s) + Len(t) :
            (s \o t)[k] = IF k <= Len(s) THEN s[k] ELSE t[k - Len(s)]
      BY ConcatProperties
    <3> QED BY <2>0, <3>1
  <2>2. (u \o v)[j] = v[i]
    <3> HIDE DEF j
    <3> QED BY <1>1, <2>0, ConcatProperties
  <2> QED BY <2>1, <2>2
<1>4. s = u
  BY <1>2, SeqEqual
<1>5. t = v
  BY <1>1, <1>3, SeqEqual
<1> QED BY <1>4, <1>5

\* What an answer is bound to names its report, its bundle and its provenance.
LEMMA PayloadIsWhole ==
  ASSUME NEW a \in Answers, NEW b \in Answers, BindingPayload(a) = BindingPayload(b)
  PROVE  a = b
BY DEF Answers, BindingPayload

-----------------------------------------------------------------------------
\* Whatever is attested, quoted, spent or forgotten, the state is well typed and a
\* quote is made for what is attested and for nothing else.
THEOREM TypeCorrect == Spec => []TypeOK
<1>1. Init => TypeOK
  BY DEF Init, TypeOK
<1>2. TypeOK /\ [Next]_vars => TypeOK'
  <2> SUFFICES ASSUME TypeOK, [Next]_vars PROVE TypeOK'
    OBVIOUS
  <2>1. ASSUME NEW nonce \in Nonces, NEW project \in Projects, NEW answer \in Answers,
               Attest(nonce, project, answer)
        PROVE  TypeOK'
    <3> DEFINE fact == [nonce |-> nonce, project |-> project, answer |-> answer]
    <3>1. fact \in Facts
      BY DEF Facts
    <3>2. attested' = attested \cup {fact} /\ attested' \subseteq Facts
      BY <2>1, <3>1 DEF Attest, TypeOK
    <3>3. quotes' = {ReportData(f.nonce.bytes, f.project, f.answer) : f \in attested'}
      <4>1. quotes' = quotes \cup {ReportData(fact.nonce.bytes, fact.project, fact.answer)}
        BY <2>1 DEF Attest
      <4> HIDE DEF fact
      <4> QED BY <4>1, <3>2 DEF TypeOK
    <3>4. reserved' \subseteq Nonces /\ forgotten' \subseteq Nonces
      BY <2>1 DEF Attest, TypeOK
    <3> QED BY <3>2, <3>3, <3>4 DEF TypeOK
  <2>2. ASSUME NEW nonce \in Nonces, Fail(nonce) PROVE TypeOK'
    BY <2>2 DEF Fail, TypeOK
  <2>3. ASSUME NEW nonce \in Nonces, Forget(nonce) PROVE TypeOK'
    BY <2>3 DEF Forget, TypeOK
  <2>4. CASE UNCHANGED vars
    BY <2>4 DEF vars, TypeOK
  <2> QED BY <2>1, <2>2, <2>3, <2>4 DEF Next
<1> QED BY <1>1, <1>2, PTL DEF Spec

\* Bytes of nonces and projects are sequences of numbers.
LEMMA FactTypes ==
  ASSUME NEW f \in Facts
  PROVE  /\ f.nonce \in Nonces /\ f.nonce.bytes \in Seq(Nat)
         /\ f.project \in Seq(Nat) /\ f.answer \in Answers
BY NoncesAssumption, ProjectsAssumption DEF Facts

LEMMA ClaimTypes ==
  ASSUME NEW c \in Claims
  PROVE  /\ c.nonce \in Seq(Nat) /\ c.project \in Seq(Nat) /\ c.answer \in Answers
BY NoncesAssumption, ProjectsAssumption DEF Claims

\* In a well-typed state, what verifies was attested.
LEMMA VerifiedWasAttested == TypeOK => VerifiedIsAttested
<1> SUFFICES ASSUME TypeOK, NEW claim \in Claims, Verifies(claim)
             PROVE  \E fact \in attested :
                      /\ fact.answer = claim.answer
                      /\ SameLength(fact.nonce.bytes, claim.nonce) => ClaimOf(fact) = claim
  BY DEF VerifiedIsAttested
<1>1. PICK fact \in attested :
        ReportData(claim.nonce, claim.project, claim.answer)
          = ReportData(fact.nonce.bytes, fact.project, fact.answer)
  BY DEF TypeOK, Verifies
<1>2. fact \in Facts
  BY DEF TypeOK
<1>3. /\ claim.nonce \o claim.project = fact.nonce.bytes \o fact.project
      /\ fact.answer = claim.answer
  <2>1. claim.answer \in Answers /\ fact.answer \in Answers
    BY <1>2, FactTypes, ClaimTypes
  <2>2. /\ claim.nonce \o claim.project = fact.nonce.bytes \o fact.project
        /\ BindingPayload(claim.answer) = BindingPayload(fact.answer)
    BY <1>1 DEF ReportData
  <2>3. claim.answer = fact.answer
    BY <2>1, <2>2, PayloadIsWhole
  <2> QED BY <2>2, <2>3
<1>4. ASSUME SameLength(fact.nonce.bytes, claim.nonce) PROVE ClaimOf(fact) = claim
  <2>1. claim.nonce = fact.nonce.bytes /\ claim.project = fact.project
    BY <1>2, <1>3, <1>4, FactTypes, ClaimTypes, PartsOfEqualLength DEF SameLength
  <2> QED BY <1>2, <1>3, <2>1 DEF ClaimOf, Claims, Facts
<1> QED BY <1>3, <1>4

\* An answer that verifies for some nonce and project was attested, whole, and for
\* that nonce and project unless for a nonce of another length.
THEOREM AnswersAreAttested == Spec => []VerifiedIsAttested
BY VerifiedWasAttested, TypeCorrect, PTL

-----------------------------------------------------------------------------
\* A nonce that was attested for is held by the guard or was forgotten, and it was
\* attested for twice only if it was forgotten.
NoncesSpent ==
  /\ \A f \in attested : f.nonce \in reserved \cup forgotten
  /\ \A f, g \in attested : f.nonce = g.nonce => f = g \/ f.nonce \in forgotten

LEMMA NoncesSpentInit == Init => NoncesSpent
BY DEF Init, NoncesSpent

LEMMA NoncesSpentStep == TypeOK /\ NoncesSpent /\ [Next]_vars => NoncesSpent'
<1> SUFFICES ASSUME TypeOK, NoncesSpent, [Next]_vars PROVE NoncesSpent'
  OBVIOUS
<1>1. ASSUME NEW nonce \in Nonces, NEW project \in Projects, NEW answer \in Answers,
             Attest(nonce, project, answer)
      PROVE  NoncesSpent'
  <2> DEFINE fact == [nonce |-> nonce, project |-> project, answer |-> answer]
  <2>1. /\ attested' = attested \cup {fact} /\ fact.nonce = nonce
        /\ reserved' = reserved \cup {nonce} /\ forgotten' = forgotten
    BY <1>1 DEF Attest
  <2>2. nonce \notin reserved
    BY <1>1 DEF Attest, IsNew
  <2>3. \A f \in attested : f.nonce = nonce => nonce \in forgotten
    BY <2>2 DEF NoncesSpent
  <2> HIDE DEF fact
  <2>4. \A f \in attested' : f.nonce \in reserved' \cup forgotten'
    BY <2>1 DEF NoncesSpent
  <2>5. \A f, g \in attested' : f.nonce = g.nonce => f = g \/ f.nonce \in forgotten'
    BY <2>1, <2>3 DEF NoncesSpent
  <2> QED BY <2>4, <2>5 DEF NoncesSpent
<1>2. ASSUME NEW nonce \in Nonces, Fail(nonce) \/ Forget(nonce) PROVE NoncesSpent'
  BY <1>2 DEF Fail, Forget, NoncesSpent
<1>3. CASE UNCHANGED vars
  BY <1>3 DEF vars, NoncesSpent
<1> QED BY <1>1, <1>2, <1>3 DEF Next

\* Two different answers never verify for the same nonce of a validator whose
\* nonces all have one length, unless the nonce was spelled or used twice.
THEOREM OneAnswerVerifies == Spec => []OneAnswerPerNonce
<1>1. TypeOK /\ NoncesSpent => OneAnswerPerNonce
  <2> SUFFICES ASSUME TypeOK, NoncesSpent,
                      NEW f \in Claims, Verifies(f), NEW g \in Claims, Verifies(g),
                      f.nonce = g.nonce, f # g,
                      \A fact \in attested : SameLength(fact.nonce.bytes, f.nonce)
               PROVE  UsedAgain(f.nonce)
    BY DEF OneAnswerPerNonce
  <2>1. PICK a \in attested : ClaimOf(a) = f
    BY VerifiedWasAttested DEF VerifiedIsAttested
  <2>2. PICK b \in attested : ClaimOf(b) = g
    BY VerifiedWasAttested DEF VerifiedIsAttested
  <2>3. a.nonce.bytes = f.nonce /\ b.nonce.bytes = f.nonce
    BY <2>1, <2>2 DEF ClaimOf, TypeOK, Facts
  <2>4. CASE a.nonce = b.nonce
    <3>1. a.nonce \in forgotten
      BY <2>1, <2>2, <2>4 DEF NoncesSpent
    <3> QED BY <2>3, <3>1 DEF UsedAgain
  <2>5. CASE a.nonce # b.nonce
    BY <2>3, <2>5 DEF UsedAgain
  <2> QED BY <2>4, <2>5
<1> QED BY <1>1, NoncesSpentInit, NoncesSpentStep, TypeCorrect, PTL DEF Spec

=============================================================================

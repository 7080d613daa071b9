-------------------------- MODULE ReplayGuardProofs -------------------------
(***************************************************************************)
(* Proofs about ReplayGuard, for any number of requests, nonces and        *)
(* threads and any policy: the store stays bounded and a protected nonce   *)
(* is never admitted again.  The argument is about positions: an entry     *)
(* that has not expired is never before the point where pruning stops, and *)
(* one with fewer than MaxEntries entries behind it is never evicted.      *)
(***************************************************************************)
EXTENDS ReplayGuard, SequenceTheorems, TLAPS

USE PolicyAssumption, RequestAssumption

\* A thread that works on a request has one, and its clock reading is not from
\* the future.
ThreadsSound ==
  \A th \in Threads : /\ pc[th] # "idle" => req[th] # None
                      /\ now[th] <= clock

IInv == /\ TypeOK
        /\ ThreadsSound
        /\ StoreBounded
        /\ ProtectedIsSeen

-----------------------------------------------------------------------------
(* The store's operations.                                                 *)

\* A suffix holds the entries from its first position on, in order.
LEMMA SuffixProps ==
  ASSUME NEW s \in Seq(Entry), NEW p \in 1..Len(s) + 1
  PROVE  /\ Suffix(s, p) \in Seq(Entry)
         /\ Len(Suffix(s, p)) = Len(s) - p + 1
         /\ \A k \in 1..Len(s) - p + 1 : Suffix(s, p)[k] = s[p + k - 1]
<1>1. Len(s) \in Nat /\ p \in Int /\ Len(s) \in Int
  BY LenProperties
<1>2. \A i \in p..Len(s) : s[i] \in Entry
  BY <1>1, ElementOfSeq
<1>3. /\ SubSeq(s, p, Len(s)) \in Seq(Entry)
      /\ Len(SubSeq(s, p, Len(s))) = IF p <= Len(s) THEN Len(s) - p + 1 ELSE 0
      /\ \A k \in 1..Len(s) - p + 1 : SubSeq(s, p, Len(s))[k] = s[p + k - 1]
  BY <1>1, <1>2, SubSeqProperties
<1> QED
  BY <1>1, <1>3 DEF Suffix

\* Pruning never passes an entry that has not expired.
LEMMA PruneKeepsLive ==
  ASSUME NEW s \in Seq(Entry), NEW c \in Int, NEW p \in 1..Len(s) + 1,
         StopsAt(s, p, c), NEW i \in 1..Len(s), c <= s[i].expires_at
  PROVE  p <= i
<1>1. Len(s) \in Nat
  BY LenProperties
<1>2. s[i].expires_at \in Int
  <2>1. s[i] \in Entry
    BY ElementOfSeq
  <2> QED
    BY <2>1 DEF Entry
<1>3. CASE i < p
  BY <1>1, <1>2, <1>3 DEF StopsAt, Expired
<1> QED
  BY <1>1, <1>3

\* An insertion appends and then keeps the last MaxEntries entries.
LEMMA InsertProps ==
  ASSUME NEW s \in Seq(Entry), NEW e \in Entry
  PROVE  /\ Insert(s, e) \in Seq(Entry)
         /\ Len(Insert(s, e)) = IF Len(s) + 1 > MaxEntries THEN MaxEntries ELSE Len(s) + 1
         /\ \A k \in 1..Len(Insert(s, e)) :
              Insert(s, e)[k] = Append(s, e)[k + (Len(s) + 1 - Len(Insert(s, e)))]
<1> DEFINE t == Append(s, e)
<1>1. t \in Seq(Entry) /\ Len(t) = Len(s) + 1 /\ Len(s) \in Nat
  BY AppendProperties, LenProperties
<1> HIDE DEF t
<1>2. CASE Len(t) > MaxEntries
  <2> DEFINE p == Len(t) - MaxEntries + 1
  <2>1. p \in 1..Len(t) + 1 /\ Len(t) - p + 1 = MaxEntries
    BY <1>1, <1>2
  <2>2. /\ Suffix(t, p) \in Seq(Entry)
        /\ Len(Suffix(t, p)) = MaxEntries
        /\ \A k \in 1..MaxEntries : Suffix(t, p)[k] = t[p + k - 1]
    BY <1>1, <2>1, SuffixProps
  <2>3. Insert(s, e) = Suffix(t, p)
    BY <1>2 DEF Insert, Evict, t
  <2>4. \A k \in 1..MaxEntries : p + k - 1 = k + (Len(s) + 1 - MaxEntries)
    BY <1>1
  <2> QED
    BY <1>1, <1>2, <2>2, <2>3, <2>4 DEF t
<1>3. CASE ~(Len(t) > MaxEntries)
  <2>1. Insert(s, e) = t
    BY <1>3 DEF Insert, Evict, t
  <2>2. \A k \in 1..Len(t) : k + (Len(s) + 1 - Len(t)) = k
    BY <1>1
  <2> QED
    BY <1>1, <1>3, <2>1, <2>2 DEF t
<1> QED
  BY <1>2, <1>3

-----------------------------------------------------------------------------
(* One step of reserve.                                                    *)

\* The part of a protected nonce's entry in the store, as a position.
SeenAt(s, n, i) ==
  /\ i \in 1..Len(s)
  /\ s[i] = [nonce |-> n, expires_at |-> last[n]]

\* A protected nonce survives the pruning of any thread: the thread's reading of
\* the clock is not later than the clock.
LEMMA ProtectedSurvivesPruning ==
  ASSUME IInv, NEW th \in Threads, NEW p \in 1..Len(seen) + 1,
         StopsAt(seen, p, now[th]), NEW n \in Nonces, Protected(n)
  PROVE  \E i \in 1..Len(Suffix(seen, p)) :
           /\ SeenAt(Suffix(seen, p), n, i)
           /\ Len(Suffix(seen, p)) - i <= others[n]
<1>1. PICK i \in 1..Len(seen) : /\ seen[i] = [nonce |-> n, expires_at |-> last[n]]
                                /\ Len(seen) - i <= others[n]
  BY DEF IInv, ProtectedIsSeen
<1>2. seen \in Seq(Entry) /\ Len(seen) \in Nat /\ others[n] \in Nat /\ now[th] \in Int
  BY LenProperties DEF IInv, TypeOK
<1>3. now[th] <= seen[i].expires_at
  BY <1>1, <1>2 DEF IInv, TypeOK, ThreadsSound, Protected
<1>4. p <= i
  BY <1>2, <1>3, PruneKeepsLive
<1>5. /\ Len(Suffix(seen, p)) = Len(seen) - p + 1
      /\ \A k \in 1..Len(seen) - p + 1 : Suffix(seen, p)[k] = seen[p + k - 1]
  BY <1>2, SuffixProps
<1> DEFINE k == i - p + 1
<1>6. k \in 1..Len(Suffix(seen, p)) /\ p + k - 1 = i
  BY <1>2, <1>4, <1>5
<1>7. SeenAt(Suffix(seen, p), n, k)
  BY <1>1, <1>5, <1>6 DEF SeenAt
<1>8. Len(Suffix(seen, p)) - k <= others[n]
  BY <1>1, <1>2, <1>5
<1> QED
  BY <1>6, <1>7, <1>8

\* So reserve knows a protected nonce and refuses it.
LEMMA ProtectedIsRefused ==
  ASSUME IInv, NEW th \in Threads, NEW p \in 1..Len(seen) + 1,
         StopsAt(seen, p, now[th]), NEW n \in Nonces, Protected(n)
  PROVE  Knows(Suffix(seen, p), n)
<1>1. PICK i \in 1..Len(Suffix(seen, p)) : SeenAt(Suffix(seen, p), n, i)
  BY ProtectedSurvivesPruning
<1>2. Suffix(seen, p)[i].nonce = n
  BY <1>1 DEF SeenAt
<1> QED
  BY <1>2 DEF Knows

\* What pruning leaves is bounded and free of duplicates.
LEMMA PrunedIsBounded ==
  ASSUME IInv, NEW p \in 1..Len(seen) + 1
  PROVE  LET kept == Suffix(seen, p) IN
           /\ kept \in Seq(Entry)
           /\ Len(kept) <= MaxEntries
           /\ \A i, k \in 1..Len(kept) : kept[i].nonce = kept[k].nonce => i = k
<1> DEFINE kept == Suffix(seen, p)
<1>1. seen \in Seq(Entry) /\ Len(seen) \in Nat
  BY LenProperties DEF IInv, TypeOK
<1>2. /\ kept \in Seq(Entry)
      /\ Len(kept) = Len(seen) - p + 1
      /\ \A k \in 1..Len(seen) - p + 1 : kept[k] = seen[p + k - 1]
  BY <1>1, SuffixProps
<1>3. Len(kept) <= MaxEntries
  BY <1>1, <1>2 DEF IInv, StoreBounded
<1> HIDE DEF kept
<1>4. ASSUME NEW i \in 1..Len(kept), NEW k \in 1..Len(kept), kept[i].nonce = kept[k].nonce
      PROVE  i = k
  <2>1. p + i - 1 \in 1..Len(seen) /\ p + k - 1 \in 1..Len(seen)
    BY <1>1, <1>2
  <2>2. seen[p + i - 1].nonce = seen[p + k - 1].nonce
    BY <1>2, <1>4
  <2>3. p + i - 1 = p + k - 1
    BY <2>1, <2>2 DEF IInv, StoreBounded
  <2> QED
    BY <1>1, <2>3
<1> QED
  BY <1>2, <1>3, <1>4 DEF kept

\* A refusal leaves every protected nonce where it was, up to the pruning.
LEMMA RefuseInv ==
  ASSUME IInv, NEW th \in Threads, NEW p \in 1..Len(seen) + 1,
         StopsAt(seen, p, now[th]), NEW n \in Nonces,
         Refuse(n, Suffix(seen, p)), UNCHANGED clock
  PROVE  /\ seen' \in Seq(Entry)
         /\ StoreBounded' /\ ProtectedIsSeen'
<1>1. seen' = Suffix(seen, p) /\ UNCHANGED <<last, others>>
  BY DEF Refuse
<1>2. seen' \in Seq(Entry) /\ StoreBounded'
  BY <1>1, PrunedIsBounded DEF StoreBounded
<1>3. ProtectedIsSeen'
  <2> SUFFICES ASSUME NEW m \in Nonces, Protected(m)'
               PROVE  \E i \in 1..Len(seen') :
                        /\ seen'[i] = [nonce |-> m, expires_at |-> last'[m]]
                        /\ Len(seen') - i <= others'[m]
    BY DEF ProtectedIsSeen
  <2>1. Protected(m)
    BY <1>1 DEF Protected
  <2> QED
    BY <1>1, <2>1, ProtectedSurvivesPruning DEF SeenAt
<1> QED
  BY <1>2, <1>3

\* An admission appends the new nonce, moves every other protected nonce at most
\* one entry further from the end, and evicts only what is no longer protected.
LEMMA AdmitInv ==
  ASSUME IInv, NEW th \in Threads, NEW p \in 1..Len(seen) + 1,
         StopsAt(seen, p, now[th]), NEW r \in Requests,
         Admit(r, Request[r].nonce, Suffix(seen, p)), UNCHANGED clock
  PROVE  /\ seen' \in Seq(Entry)
         /\ last' \in [Nonces -> Int \cup {None}]
         /\ others' \in [Nonces -> 0..MaxEntries]
         /\ StoreBounded' /\ ProtectedIsSeen'
<1> DEFINE n == Request[r].nonce
           x == Request[r].expires_at
           kept == Suffix(seen, p)
           e == [nonce |-> n, expires_at |-> x]
           new == Insert(kept, e)
           d == Len(kept) + 1 - Len(new)
<1>1. n \in Nonces /\ x \in Int /\ e \in Entry
  BY DEF Entry
<1>2. /\ kept \in Seq(Entry)
      /\ Len(kept) <= MaxEntries
      /\ \A i, k \in 1..Len(kept) : kept[i].nonce = kept[k].nonce => i = k
  BY PrunedIsBounded
<1>3. Len(kept) \in Nat
  BY <1>2, LenProperties
<1>4. ~Knows(kept, n) /\ seen' = new
  BY DEF Admit
<1>5. last' = [last EXCEPT ![n] = x]
  BY DEF Admit
<1>6. others' = [m \in Nonces |-> IF m = n THEN 0
                                  ELSE IF others[m] < MaxEntries THEN others[m] + 1
                                  ELSE MaxEntries]
  BY DEF Admit
<1>7. \A m \in Nonces \ {n} : Protected(m) =>
        \E i \in 1..Len(kept) : SeenAt(kept, m, i) /\ Len(kept) - i <= others[m]
  BY ProtectedSurvivesPruning
<1> HIDE DEF kept, e, n, x
<1>8. /\ new \in Seq(Entry)
      /\ Len(new) = IF Len(kept) + 1 > MaxEntries THEN MaxEntries ELSE Len(kept) + 1
      /\ \A k \in 1..Len(new) : new[k] = Append(kept, e)[k + d]
  BY <1>1, <1>2, InsertProps
<1>9. /\ \A k \in 1..Len(kept) : Append(kept, e)[k] = kept[k]
      /\ Append(kept, e)[Len(kept) + 1] = e
  BY <1>1, <1>2, AppendProperties
<1> HIDE DEF new
<1>10. Len(new) \in Nat /\ Len(new) <= MaxEntries /\ Len(new) >= 1 /\ d \in Nat
  BY <1>3, <1>8
<1>11. new[Len(new)] = e
  <2>1. Len(new) + d = Len(kept) + 1 /\ Len(new) \in 1..Len(new)
    BY <1>3, <1>10
  <2>2. new[Len(new)] = Append(kept, e)[Len(new) + d]
    BY <1>8, <2>1
  <2> QED
    BY <1>9, <2>1, <2>2
<1>12. \A k \in 1..Len(new) : k # Len(new) => k + d \in 1..Len(kept) /\ new[k] = kept[k + d]
  <2> SUFFICES ASSUME NEW k \in 1..Len(new), k # Len(new)
               PROVE  k + d \in 1..Len(kept) /\ new[k] = kept[k + d]
    OBVIOUS
  <2>1. k + d \in 1..Len(kept)
    BY <1>3, <1>10
  <2>2. new[k] = Append(kept, e)[k + d]
    BY <1>8
  <2> HIDE DEF d
  <2> QED
    BY <1>9, <2>1, <2>2
<1>13. \A k \in 1..Len(kept) : kept[k].nonce # n
  BY <1>4 DEF Knows
<1>14. e.nonce = n
  BY DEF e
<1>15. \A i, k \in 1..Len(new) : new[i].nonce = new[k].nonce => i = k
  <2> SUFFICES ASSUME NEW i \in 1..Len(new), NEW k \in 1..Len(new),
                      new[i].nonce = new[k].nonce
               PROVE  i = k
    OBVIOUS
  <2>1. CASE i = Len(new) /\ k # Len(new)
    BY <1>11, <1>12, <1>13, <1>14, <2>1
  <2>2. CASE k = Len(new) /\ i # Len(new)
    BY <1>11, <1>12, <1>13, <1>14, <2>2
  <2>3. CASE i # Len(new) /\ k # Len(new)
    <3>1. i + d = k + d
      BY <1>2, <1>12, <2>3
    <3> QED
      BY <1>10, <3>1
  <2> QED
    BY <2>1, <2>2, <2>3
<1>16. StoreBounded'
  BY <1>4, <1>10, <1>15 DEF StoreBounded
<1>17. last' \in [Nonces -> Int \cup {None}] /\ last'[n] = x
       /\ \A m \in Nonces \ {n} : last'[m] = last[m]
  BY <1>1, <1>5 DEF IInv, TypeOK
<1>18. others' \in [Nonces -> 0..MaxEntries] /\ others'[n] = 0
  BY <1>1, <1>6 DEF IInv, TypeOK
<1>19. ProtectedIsSeen'
  <2> SUFFICES ASSUME NEW m \in Nonces, Protected(m)'
               PROVE  \E i \in 1..Len(new) :
                        /\ new[i] = [nonce |-> m, expires_at |-> last'[m]]
                        /\ Len(new) - i <= others'[m]
    BY <1>4 DEF ProtectedIsSeen
  <2>1. CASE m = n
    <3>1. new[Len(new)] = [nonce |-> m, expires_at |-> last'[m]]
      BY <1>11, <1>17, <2>1 DEF e
    <3>2. Len(new) - Len(new) <= others'[m]
      BY <1>10, <1>18, <2>1
    <3> QED
      BY <1>10, <3>1, <3>2
  <2>2. CASE m # n
    <3>1. others[m] \in Nat /\ others'[m] = others[m] + 1 /\ others'[m] < MaxEntries
      BY <1>6, <2>2 DEF IInv, TypeOK, Protected
    <3>2. Protected(m)
      BY <1>17, <2>2, <3>1 DEF Protected
    <3>3. PICK i \in 1..Len(kept) : SeenAt(kept, m, i) /\ Len(kept) - i <= others[m]
      BY <1>7, <2>2, <3>2
    <3> DEFINE k == i - d
    <3>4. k \in 1..Len(new) /\ k # Len(new) /\ k + d = i
      <4>1. Len(kept) - i <= others[m] /\ i \in 1..Len(kept) /\ others[m] + 1 < MaxEntries
        BY <3>1, <3>3
      <4>2. CASE Len(kept) + 1 > MaxEntries
        BY <1>3, <1>8, <3>1, <4>1, <4>2
      <4>3. CASE ~(Len(kept) + 1 > MaxEntries)
        BY <1>3, <1>8, <4>1, <4>3
      <4> QED
        BY <4>2, <4>3
    <3>5. new[k] = [nonce |-> m, expires_at |-> last'[m]]
      BY <1>12, <1>17, <2>2, <3>3, <3>4 DEF SeenAt
    <3>6. Len(new) - k <= others'[m]
      BY <1>3, <1>10, <3>1, <3>3
    <3> QED
      BY <3>4, <3>5, <3>6
  <2> QED
    BY <2>1, <2>2
<1> QED
  BY <1>4, <1>8, <1>16, <1>17, <1>18, <1>19

-----------------------------------------------------------------------------
(* The inductive invariant.                                                *)

\* The store starts empty, with no thread at work.
LEMMA InitInv == Init => IInv
<1> SUFFICES ASSUME Init PROVE IInv
  OBVIOUS
<1>1. TypeOK
  BY EmptySeq DEF Init, TypeOK
<1>2. ThreadsSound /\ ProtectedIsSeen
  BY DEF Init, ThreadsSound, ProtectedIsSeen, Protected
<1>3. StoreBounded
  BY DEF Init, StoreBounded
<1> QED
  BY <1>1, <1>2, <1>3 DEF IInv

\* reserve keeps the invariant whichever entry the pruning stops at.
LEMMA ReserveInv ==
  ASSUME IInv, NEW th \in Threads, Reserve(th)
  PROVE  IInv'
<1> DEFINE r == req[th]
<1>1. PICK p \in 1..Len(seen) + 1 :
        /\ StopsAt(seen, p, now[th])
        /\ \/ Refuse(Request[r].nonce, Suffix(seen, p))
           \/ Admit(r, Request[r].nonce, Suffix(seen, p))
  BY DEF Reserve
<1>2. r \in Requests /\ Request[r].nonce \in Nonces
  BY DEF IInv, TypeOK, ThreadsSound, Reserve
<1>3. UNCHANGED clock
  BY DEF Reserve
<1>4. /\ seen' \in Seq(Entry)
      /\ last' \in [Nonces -> Int \cup {None}]
      /\ others' \in [Nonces -> 0..MaxEntries]
      /\ StoreBounded' /\ ProtectedIsSeen'
  <2>1. CASE Refuse(Request[r].nonce, Suffix(seen, p))
    <3>1. UNCHANGED <<last, others>>
      BY <2>1 DEF Refuse
    <3> QED
      BY <1>1, <1>2, <1>3, <2>1, <3>1, RefuseInv DEF IInv, TypeOK
  <2>2. CASE Admit(r, Request[r].nonce, Suffix(seen, p))
    BY <1>1, <1>2, <1>3, <2>2, AdmitInv
  <2> QED
    BY <1>1, <2>1, <2>2
<1>5. ran' \subseteq Requests /\ replayed' \subseteq Requests
  BY <1>1, <1>2 DEF IInv, TypeOK, Refuse, Admit
<1>6. TypeOK'
  BY <1>4, <1>5 DEF IInv, TypeOK, Reserve
<1>7. ThreadsSound'
  BY DEF IInv, TypeOK, ThreadsSound, Reserve
<1> QED
  BY <1>4, <1>6, <1>7 DEF IInv

\* Time only takes protection away.
LEMMA TickInv ==
  ASSUME IInv, Tick
  PROVE  IInv'
<1>1. clock \in Nat /\ clock' = clock + 1
  BY DEF IInv, TypeOK, Tick
<1>2. UNCHANGED <<seen, pc, req, now, restarts, last, others, ran, replayed>>
  BY DEF Tick
<1>3. TypeOK'
  BY <1>1, <1>2 DEF IInv, TypeOK
<1>4. ThreadsSound'
  BY <1>1, <1>2 DEF IInv, TypeOK, ThreadsSound
<1>5. \A n \in Nonces : Protected(n)' => Protected(n)
  BY <1>1, <1>2 DEF IInv, TypeOK, Protected
<1>6. StoreBounded' /\ ProtectedIsSeen'
  BY <1>2, <1>5 DEF IInv, StoreBounded, ProtectedIsSeen
<1> QED
  BY <1>3, <1>4, <1>6 DEF IInv

\* Every step of the guard preserves IInv.
LEMMA StepInv ==
  ASSUME IInv, [Next]_vars
  PROVE  IInv'
<1>1. ASSUME NEW th \in Threads, NEW r \in Requests, Validate(th, r)
      PROVE  IInv'
  <2>1. TypeOK' /\ ThreadsSound'
    BY <1>1 DEF IInv, TypeOK, ThreadsSound, Validate
  <2>2. StoreBounded' /\ ProtectedIsSeen'
    BY <1>1 DEF IInv, StoreBounded, ProtectedIsSeen, Protected, Validate
  <2> QED
    BY <2>1, <2>2 DEF IInv
<1>2. ASSUME NEW th \in Threads, EnterReserve(th)
      PROVE  IInv'
  <2>1. TypeOK' /\ ThreadsSound'
    BY <1>2 DEF IInv, TypeOK, ThreadsSound, EnterReserve
  <2>2. StoreBounded' /\ ProtectedIsSeen'
    BY <1>2 DEF IInv, StoreBounded, ProtectedIsSeen, Protected, EnterReserve
  <2> QED
    BY <2>1, <2>2 DEF IInv
<1>3. ASSUME Restart
      PROVE  IInv'
  <2>1. TypeOK' /\ ThreadsSound'
    BY <1>3, EmptySeq DEF IInv, TypeOK, ThreadsSound, Restart
  <2>2. StoreBounded' /\ ProtectedIsSeen'
    BY <1>3 DEF IInv, StoreBounded, ProtectedIsSeen, Protected, Restart
  <2> QED
    BY <2>1, <2>2 DEF IInv
<1>4. CASE UNCHANGED vars
  BY <1>4 DEF IInv, TypeOK, ThreadsSound, StoreBounded, ProtectedIsSeen, Protected, vars
<1> QED
  BY <1>1, <1>2, <1>3, <1>4, ReserveInv, TickInv DEF Next

-----------------------------------------------------------------------------
(* The theorems.                                                           *)

\* The inductive invariant holds in every reachable state.
THEOREM Invariance == Spec => []IInv
<1>1. Init => IInv
  BY InitInv
<1>2. IInv /\ [Next]_vars => IInv'
  BY StepInv
<1> QED
  BY <1>1, <1>2, PTL DEF Spec

\* Every variable keeps its type.
THEOREM TypeCorrect == Spec => []TypeOK
<1>1. IInv => TypeOK
  BY DEF IInv
<1> QED
  BY <1>1, Invariance, PTL

\* The nonce store never outgrows max_entries and never holds a nonce twice.
THEOREM StoreStaysBounded == Spec => []StoreBounded
<1>1. IInv => StoreBounded
  BY DEF IInv
<1> QED
  BY <1>1, Invariance, PTL

\* A nonce that has not expired, been crowded out or lost to a restart is in the
\* store.
THEOREM ProtectedStaysSeen == Spec => []ProtectedIsSeen
<1>1. IInv => ProtectedIsSeen
  BY DEF IInv
<1> QED
  BY <1>1, Invariance, PTL

\* No interleaving of request threads admits a protected nonce again.
THEOREM NonceUsedOnce == Spec => SingleUse
<1> DEFINE A == \A th \in Threads :
                  /\ pc[th] = "reserving" /\ pc'[th] = "idle" /\ restarts' = restarts
                  /\ Protected(Request[req[th]].nonce)
                  => UNCHANGED <<last, others, ran, replayed>>
<1>1. ASSUME IInv, Next PROVE A
  <2> SUFFICES ASSUME NEW th \in Threads, pc[th] = "reserving", pc'[th] = "idle",
                      restarts' = restarts, Protected(Request[req[th]].nonce)
               PROVE  UNCHANGED <<last, others, ran, replayed>>
    OBVIOUS
  <2>1. CASE Reserve(th)
    <3>1. PICK p \in 1..Len(seen) + 1 :
            /\ StopsAt(seen, p, now[th])
            /\ \/ Refuse(Request[req[th]].nonce, Suffix(seen, p))
               \/ Admit(req[th], Request[req[th]].nonce, Suffix(seen, p))
      BY <2>1 DEF Reserve
    <3>2. Request[req[th]].nonce \in Nonces
      BY <1>1, <2>1 DEF IInv, TypeOK, ThreadsSound, Reserve
    <3>3. Knows(Suffix(seen, p), Request[req[th]].nonce)
      BY <1>1, <3>1, <3>2, ProtectedIsRefused
    <3> QED
      BY <3>1, <3>3 DEF Refuse, Admit
  <2>2. Reserve(th)
    <3>1. ASSUME NEW x \in Threads, NEW r \in Requests, Validate(x, r) PROVE FALSE
      BY <1>1, <3>1 DEF Validate, IInv, TypeOK
    <3>2. ASSUME NEW x \in Threads, EnterReserve(x) PROVE FALSE
      BY <1>1, <3>2 DEF EnterReserve, IInv, TypeOK
    <3>3. ASSUME NEW x \in Threads, Reserve(x) PROVE x = th
      BY <1>1, <3>3 DEF Reserve, IInv, TypeOK
    <3>4. ~Restart
      BY <1>1 DEF Restart, IInv, TypeOK
    <3>5. ~Tick
      BY DEF Tick
    <3> QED
      BY <1>1, <3>1, <3>2, <3>3, <3>4, <3>5 DEF Next
  <2> QED
    BY <2>1, <2>2
<1>2. IInv /\ [Next]_vars => [A]_vars
  BY <1>1
<1> QED
  BY <1>2, Invariance, PTL DEF Spec, SingleUse

=============================================================================

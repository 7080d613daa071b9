-------------------------- MODULE BoundedHttpProofs --------------------------
(***************************************************************************)
(* That the bounded server never loses a connection slot, gives one back   *)
(* twice or counts a release before the slot is back, and that no waiter   *)
(* sleeps through its release, for any number of connections and slots.    *)
(*                                                                         *)
(* The counters are tied to sets of connections: the slots that are out to *)
(* those that hold one (Holding), the releases not yet counted to those    *)
(* that owe one (Owing), and the bound on admissions to those that may yet *)
(* be admitted (Pending).  Each step adds one connection to such a set,    *)
(* removes one or leaves it; that it is one and the same connection in the *)
(* loop, at its thread and in the set is what Placed says.                 *)
(***************************************************************************)
EXTENDS BoundedHttp, FiniteSetTheorems, TLAPS

\* Connections whose release has not been counted yet.
Owing ==
  {c \in Conns : thread[c] # "none" \/ (loop.conn = c /\ loop.at \in {"start", "note"})}

\* Connections that may still be given a slot.
Pending ==
  {c \in Conns : socket[c] = "queue" \/ (loop.conn = c /\ loop.at = "admit")}

\* A connection is in one place: in the kernel's queue, with the loop, or with its
\* thread, which keeps its socket open while it serves and only then.
Placed ==
  /\ loop.at = "select" <=> loop.conn = None
  /\ loop.conn # None => socket[loop.conn] = "open" /\ thread[loop.conn] = "none"
  /\ \A c \in Conns : socket[c] = "queue" => thread[c] = "none"
  /\ \A c \in Conns : thread[c] = "serve" => socket[c] = "open"
  /\ \A c \in Conns : thread[c] \in {"release", "note"} => socket[c] = "none"

\* The types, but for the bounds of the counters, which the sets imply.
Shape ==
  /\ socket \in [Conns -> {"none", "queue", "open"}]
  /\ loop \in [at : {"select", "admit", "start", "note"}, conn : Conns \cup {None}]
  /\ thread \in [Conns -> {"none", "serve", "release", "note"}]
  /\ slots \in 0..MaxConnections
  /\ released \in Nat
  /\ admitted \in Nat
  /\ waiter \in [st : {"out", "awake", "asleep"}, goal : 0..MaxAdmissions, late : BOOLEAN]

SlotsOut       == slots + Cardinality(Holding) = MaxConnections
ReleasesOwed   == released + Cardinality(Owing) = admitted
AdmissionsLeft == admitted + Cardinality(Pending) <= MaxAdmissions

IInv == Shape /\ Placed /\ SlotsOut /\ ReleasesOwed /\ AdmissionsLeft /\ NoLostWakeup

-----------------------------------------------------------------------------
(* Sets of connections and their sizes.                                    *)

LEMMA SizeIsNatural ==
  ASSUME NEW S \in SUBSET Conns
  PROVE  IsFiniteSet(S) /\ Cardinality(S) \in Nat
BY BoundsAssumption, FS_Subset, FS_CardinalityType

LEMMA OneMore ==
  ASSUME NEW S \in SUBSET Conns, NEW c, c \notin S
  PROVE  Cardinality(S \cup {c}) = Cardinality(S) + 1
BY SizeIsNatural, FS_AddElement

LEMMA OneLess ==
  ASSUME NEW S \in SUBSET Conns, NEW c, c \in S
  PROVE  Cardinality(S \ {c}) = Cardinality(S) - 1
BY SizeIsNatural, FS_RemoveElement

LEMMA SizesAreNatural ==
  /\ Cardinality(Holding) \in Nat /\ Cardinality(Holding') \in Nat
  /\ Cardinality(Owing) \in Nat /\ Cardinality(Owing') \in Nat
  /\ Cardinality(Pending) \in Nat /\ Cardinality(Pending') \in Nat
<1>1. /\ Holding \in SUBSET Conns /\ Holding' \in SUBSET Conns
      /\ Owing \in SUBSET Conns /\ Owing' \in SUBSET Conns
      /\ Pending \in SUBSET Conns /\ Pending' \in SUBSET Conns
  BY DEF Holding, Owing, Pending
<1> QED BY <1>1, SizeIsNatural

\* Who holds a slot owes its release.
LEMMA HoldingIsOwing == Shape => Holding \subseteq Owing
BY DEF Shape, Holding, Owing

-----------------------------------------------------------------------------
(* The invariant at the start, and through each step.                      *)

LEMMA InitInv == Init => IInv
<1> SUFFICES ASSUME Init PROVE IInv
  OBVIOUS
<1>1. Holding = {} /\ Owing = {} /\ Pending = {}
  BY BoundsAssumption DEF Init, Idle, Holding, Owing, Pending
<1>2. Cardinality({}) = 0
  BY FS_EmptySet
<1>3. Shape /\ Placed /\ NoLostWakeup
  BY BoundsAssumption DEF Init, Idle, NotWaiting, Shape, Placed, NoLostWakeup
<1>4. SlotsOut /\ ReleasesOwed /\ AdmissionsLeft
  BY <1>1, <1>2, BoundsAssumption DEF Init, SlotsOut, ReleasesOwed, AdmissionsLeft
<1> QED BY <1>3, <1>4 DEF IInv

\* A step of the kernel or of the loop's first half: who is pending changes, or who
\* takes a slot.
LEMMA ConnectInv ==
  ASSUME IInv, NEW c \in Conns, Connect(c)
  PROVE  IInv'
<1> USE DEF IInv
<1>1. Shape' /\ Placed' /\ NoLostWakeup'
  BY DEF Connect, Shape, Placed, NoLostWakeup
<1>2. Holding' = Holding /\ Owing' = Owing
  BY DEF Connect, Holding, Owing
<1>3. Pending' = Pending \cup {c} /\ c \notin Pending
  BY BoundsAssumption DEF Connect, Shape, Placed, Pending
<1>4. admitted + Cardinality(Pending) < MaxAdmissions
  <2> DEFINE Connected == {d \in Conns : socket[d] # "none"}
  <2>1. Connected \in SUBSET Conns /\ Pending \in SUBSET Connected
    BY DEF Shape, Placed, Pending
  <2>2. Cardinality(Pending) <= Cardinality(Connected) /\ Cardinality(Connected) \in Nat
    BY <2>1, SizeIsNatural, FS_Subset
  <2>3. admitted + Cardinality(Connected) < MaxAdmissions
    BY DEF Connect
  <2> HIDE DEF Connected
  <2> QED BY <2>2, <2>3, SizesAreNatural, BoundsAssumption DEF Shape
<1>5. AdmissionsLeft'
  <2>1. Cardinality(Pending') = Cardinality(Pending) + 1
    BY <1>3, OneMore DEF Pending
  <2>2. admitted' = admitted
    BY DEF Connect
  <2> QED BY <1>4, <2>1, <2>2, SizesAreNatural, BoundsAssumption DEF Shape, AdmissionsLeft
<1>6. SlotsOut' /\ ReleasesOwed'
  BY <1>2 DEF Connect, SlotsOut, ReleasesOwed
<1> QED BY <1>1, <1>5, <1>6

LEMMA GetRequestInv ==
  ASSUME IInv, NEW c \in Conns, GetRequest(c)
  PROVE  IInv'
<1> USE DEF IInv
<1>1. Shape' /\ Placed' /\ NoLostWakeup'
  BY BoundsAssumption DEF GetRequest, Shape, Placed, NoLostWakeup
<1>2. Holding' = Holding /\ Owing' = Owing
  BY BoundsAssumption DEF GetRequest, Shape, Placed, Holding, Owing
<1>3. Pending' = Pending
  BY BoundsAssumption DEF GetRequest, Shape, Placed, Pending
<1> QED BY <1>1, <1>2, <1>3 DEF GetRequest, SlotsOut, ReleasesOwed, AdmissionsLeft

LEMMA AdmitInv ==
  ASSUME IInv, Admit
  PROVE  IInv'
<1> USE DEF IInv
<1> DEFINE c == loop.conn
<1>1. c \in Conns /\ loop.at = "admit" /\ socket[c] = "open" /\ thread[c] = "none"
  BY DEF Admit, Shape, Placed
<1>2. Holding' = Holding \cup {c} /\ c \notin Holding
  BY <1>1 DEF Admit, GoTo, Shape, Holding
<1>3. Owing' = Owing \cup {c} /\ c \notin Owing
  BY <1>1 DEF Admit, GoTo, Shape, Owing
<1>4. Pending' = Pending \ {c} /\ c \in Pending
  BY <1>1 DEF Admit, GoTo, Shape, Pending
<1>5. /\ Cardinality(Holding') = Cardinality(Holding) + 1
      /\ Cardinality(Owing') = Cardinality(Owing) + 1
      /\ Cardinality(Pending') = Cardinality(Pending) - 1
  <2>1. Holding \in SUBSET Conns /\ Owing \in SUBSET Conns /\ Pending \in SUBSET Conns
    BY DEF Holding, Owing, Pending
  <2> HIDE DEF c
  <2>2. Cardinality(Holding') = Cardinality(Holding) + 1
    BY <1>2, <2>1, OneMore
  <2>3. Cardinality(Owing') = Cardinality(Owing) + 1
    BY <1>3, <2>1, OneMore
  <2>4. Cardinality(Pending') = Cardinality(Pending) - 1
    BY <1>4, <2>1, OneLess
  <2> QED BY <2>2, <2>3, <2>4
<1>6. slots > 0 /\ slots' = slots - 1 /\ admitted' = admitted + 1 /\ released' = released
  BY DEF Admit, Acquire
<1>7. Shape' /\ Placed' /\ NoLostWakeup'
  BY <1>1, <1>6, BoundsAssumption DEF Admit, GoTo, Shape, Placed, NoLostWakeup
<1>8. SlotsOut' /\ ReleasesOwed' /\ AdmissionsLeft'
  BY <1>5, <1>6, SizesAreNatural, BoundsAssumption
     DEF Shape, SlotsOut, ReleasesOwed, AdmissionsLeft
<1> QED BY <1>7, <1>8

LEMMA RejectInv ==
  ASSUME IInv, RejectOverloaded
  PROVE  IInv'
<1> USE DEF IInv
<1> DEFINE c == loop.conn
<1>1. c \in Conns /\ loop.at = "admit" /\ socket[c] = "open" /\ thread[c] = "none"
  BY DEF RejectOverloaded, Shape, Placed
<1>2. Holding' = Holding /\ Owing' = Owing
  BY <1>1, BoundsAssumption DEF RejectOverloaded, Idle, Shape, Holding, Owing
<1>3. Pending' = Pending \ {c} /\ c \in Pending
  BY <1>1, BoundsAssumption DEF RejectOverloaded, Idle, Shape, Pending
<1>4. Cardinality(Pending') = Cardinality(Pending) - 1
  <2> HIDE DEF c
  <2> QED BY <1>3, OneLess DEF Pending
<1>5. Shape' /\ Placed' /\ NoLostWakeup'
  BY <1>1, BoundsAssumption DEF RejectOverloaded, Idle, Shape, Placed, NoLostWakeup
<1>6. slots' = slots /\ released' = released /\ admitted' = admitted
  BY DEF RejectOverloaded
<1>7. SlotsOut' /\ ReleasesOwed' /\ AdmissionsLeft'
  BY <1>2, <1>4, <1>6, SizesAreNatural, BoundsAssumption
     DEF Shape, SlotsOut, ReleasesOwed, AdmissionsLeft
<1> QED BY <1>5, <1>7

LEMMA StartThreadInv ==
  ASSUME IInv, StartThread
  PROVE  IInv'
<1> USE DEF IInv
<1> DEFINE c == loop.conn
<1>1. c \in Conns /\ loop.at = "start" /\ socket[c] = "open" /\ thread[c] = "none"
  BY DEF StartThread, Shape, Placed
<1>2. Holding' = Holding /\ Owing' = Owing /\ Pending' = Pending
  BY <1>1, BoundsAssumption DEF StartThread, Idle, Shape, Holding, Owing, Pending
<1>3. Shape' /\ Placed' /\ NoLostWakeup'
  BY <1>1, BoundsAssumption DEF StartThread, Idle, Shape, Placed, NoLostWakeup
<1> QED BY <1>2, <1>3 DEF StartThread, SlotsOut, ReleasesOwed, AdmissionsLeft

LEMMA StartFailsInv ==
  ASSUME IInv, StartFails
  PROVE  IInv'
<1> USE DEF IInv
<1> DEFINE c == loop.conn
<1>1. c \in Conns /\ loop.at = "start" /\ socket[c] = "open" /\ thread[c] = "none"
  BY DEF StartFails, Shape, Placed
<1>2. Holding' = Holding \ {c} /\ c \in Holding
  BY <1>1 DEF StartFails, GoTo, Shape, Holding
<1>3. Owing' = Owing /\ Pending' = Pending
  BY <1>1 DEF StartFails, GoTo, Shape, Owing, Pending
<1>4. Cardinality(Holding') = Cardinality(Holding) - 1
  <2> HIDE DEF c
  <2> QED BY <1>2, OneLess DEF Holding
<1>5. slots' = slots + 1 /\ slots' \in 0..MaxConnections
  BY BoundsAssumption DEF StartFails, GiveBack, Shape
<1>6. Shape' /\ Placed' /\ NoLostWakeup'
  BY <1>1, <1>5 DEF StartFails, GoTo, Shape, Placed, NoLostWakeup
<1>7. SlotsOut'
  BY <1>4, <1>5, SizesAreNatural, BoundsAssumption DEF Shape, SlotsOut
<1>8. ReleasesOwed' /\ AdmissionsLeft'
  BY <1>3 DEF StartFails, ReleasesOwed, AdmissionsLeft
<1> QED BY <1>6, <1>7, <1>8

\* A counted release wakes whoever waits for one.
LEMMA NoteReleaseWakes ==
  ASSUME Shape, NoteRelease
  PROVE  /\ released' = released + 1 /\ released' \in Nat
         /\ waiter' \in [st : {"out", "awake", "asleep"}, goal : 0..MaxAdmissions,
                         late : BOOLEAN]
         /\ NoLostWakeup'
BY DEF Shape, NoteRelease, Woken, NoLostWakeup

LEMMA NoteFailedStartInv ==
  ASSUME IInv, NoteFailedStart
  PROVE  IInv'
<1> USE DEF IInv
<1> DEFINE c == loop.conn
<1>1. c \in Conns /\ loop.at = "note" /\ socket[c] = "open" /\ thread[c] = "none"
  BY DEF NoteFailedStart, Shape, Placed
<1>2. Owing' = Owing \ {c} /\ c \in Owing
  BY <1>1, BoundsAssumption DEF NoteFailedStart, Idle, Shape, Owing
<1>3. Holding' = Holding /\ Pending' = Pending
  BY <1>1, BoundsAssumption DEF NoteFailedStart, Idle, Shape, Holding, Pending
<1>4. Cardinality(Owing') = Cardinality(Owing) - 1
  <2> HIDE DEF c
  <2> QED BY <1>2, OneLess DEF Owing
<1>5. Shape' /\ Placed' /\ NoLostWakeup'
  BY <1>1, NoteReleaseWakes, BoundsAssumption DEF NoteFailedStart, Idle, Shape, Placed
<1>6. released' = released + 1 /\ admitted' = admitted /\ slots' = slots
  BY DEF NoteFailedStart, NoteRelease
<1>7. SlotsOut' /\ ReleasesOwed' /\ AdmissionsLeft'
  BY <1>3, <1>4, <1>6, SizesAreNatural DEF Shape, SlotsOut, ReleasesOwed, AdmissionsLeft
<1> QED BY <1>5, <1>7

LEMMA FinishRequestInv ==
  ASSUME IInv, NEW c \in Conns, FinishRequest(c)
  PROVE  IInv'
<1> USE DEF IInv
<1>1. Shape' /\ Placed' /\ NoLostWakeup'
  BY BoundsAssumption DEF FinishRequest, Shape, Placed, NoLostWakeup
<1>2. Holding' = Holding /\ Owing' = Owing
  BY DEF FinishRequest, Shape, Holding, Owing
<1>3. Pending' = Pending
  BY DEF FinishRequest, Shape, Placed, Pending
<1> QED BY <1>1, <1>2, <1>3 DEF FinishRequest, SlotsOut, ReleasesOwed, AdmissionsLeft

LEMMA ReleaseSlotInv ==
  ASSUME IInv, NEW c \in Conns, ReleaseSlot(c)
  PROVE  IInv'
<1> USE DEF IInv
<1>1. Holding' = Holding \ {c} /\ c \in Holding
  BY BoundsAssumption DEF ReleaseSlot, Shape, Placed, Holding
<1>2. Owing' = Owing /\ Pending' = Pending
  BY DEF ReleaseSlot, Shape, Owing, Pending
<1>3. Cardinality(Holding') = Cardinality(Holding) - 1
  BY <1>1, OneLess DEF Holding
<1>4. slots' = slots + 1 /\ slots' \in 0..MaxConnections
  BY BoundsAssumption DEF ReleaseSlot, GiveBack, Shape
<1>5. Shape' /\ Placed' /\ NoLostWakeup'
  BY <1>4, BoundsAssumption DEF ReleaseSlot, Shape, Placed, NoLostWakeup
<1>6. SlotsOut'
  BY <1>3, <1>4, SizesAreNatural, BoundsAssumption DEF Shape, SlotsOut
<1>7. ReleasesOwed' /\ AdmissionsLeft'
  BY <1>2 DEF ReleaseSlot, ReleasesOwed, AdmissionsLeft
<1> QED BY <1>5, <1>6, <1>7

LEMMA NoteInv ==
  ASSUME IInv, NEW c \in Conns, Note(c)
  PROVE  IInv'
<1> USE DEF IInv
<1>1. Owing' = Owing \ {c} /\ c \in Owing
  BY BoundsAssumption DEF Note, Shape, Placed, Owing
<1>2. Holding' = Holding /\ Pending' = Pending
  BY DEF Note, Shape, Holding, Pending
<1>3. Cardinality(Owing') = Cardinality(Owing) - 1
  BY <1>1, OneLess DEF Owing
<1>4. Shape' /\ Placed' /\ NoLostWakeup'
  BY NoteReleaseWakes, BoundsAssumption DEF Note, Shape, Placed
<1>5. released' = released + 1 /\ admitted' = admitted /\ slots' = slots
  BY DEF Note, NoteRelease
<1>6. SlotsOut' /\ ReleasesOwed' /\ AdmissionsLeft'
  BY <1>2, <1>3, <1>5, SizesAreNatural DEF Shape, SlotsOut, ReleasesOwed, AdmissionsLeft
<1> QED BY <1>4, <1>6

\* The caller of wait_for_release touches nothing but its own state.
LEMMA WaiterInv ==
  ASSUME IInv, (\E n \in 1..MaxAdmissions : Call(n)) \/ Deadline \/ CheckCount
  PROVE  IInv'
<1> USE DEF IInv
<1>1. UNCHANGED <<socket, loop, thread, slots, released, admitted>>
  BY DEF Call, Deadline, CheckCount
<1> DEFINE W == [st : {"out", "awake", "asleep"}, goal : 0..MaxAdmissions, late : BOOLEAN]
<1>2. waiter' \in W /\ NoLostWakeup'
  <2>1. ASSUME NEW n \in 1..MaxAdmissions, Call(n)
        PROVE  waiter' \in W /\ NoLostWakeup'
    <3>1. n \in 0..MaxAdmissions
      BY BoundsAssumption
    <3> QED BY <2>1, <3>1 DEF Call, NoLostWakeup
  <2>2. ASSUME Deadline
        PROVE  waiter' \in W /\ NoLostWakeup'
    BY <2>2 DEF Deadline, Shape, NoLostWakeup
  <2>3. ASSUME CheckCount
        PROVE  waiter' \in W /\ NoLostWakeup'
    <3>1. CASE released >= waiter.goal \/ waiter.late
      <4>1. waiter' = NotWaiting
        BY <2>3, <3>1 DEF CheckCount
      <4>2. 0 \in 0..MaxAdmissions
        BY BoundsAssumption
      <4> QED BY <4>1, <4>2 DEF NotWaiting, NoLostWakeup
    <3>2. CASE ~(released >= waiter.goal \/ waiter.late)
      <4>1. waiter' = [waiter EXCEPT !.st = "asleep"] /\ released' = released
        BY <2>3, <3>2 DEF CheckCount
      <4>2. waiter \in W /\ waiter.goal \in Nat /\ released \in Nat
        BY BoundsAssumption DEF Shape
      <4>3. waiter' \in W /\ waiter'.goal = waiter.goal
        BY <4>1, <4>2
      <4>4. released < waiter.goal
        BY <3>2, <4>2
      <4> QED BY <4>1, <4>3, <4>4 DEF NoLostWakeup
    <3> QED BY <3>1, <3>2
  <2> QED BY <2>1, <2>2, <2>3
<1>3. Holding' = Holding /\ Owing' = Owing /\ Pending' = Pending
  BY <1>1 DEF Holding, Owing, Pending
<1> QED
  BY <1>1, <1>2, <1>3 DEF Shape, Placed, SlotsOut, ReleasesOwed, AdmissionsLeft

LEMMA StutterInv ==
  ASSUME IInv, UNCHANGED vars
  PROVE  IInv'
BY DEF IInv, vars, Shape, Placed, SlotsOut, ReleasesOwed, AdmissionsLeft, NoLostWakeup,
       Holding, Owing, Pending

THEOREM Inductive == Spec => []IInv
<1>1. IInv /\ [Next]_vars => IInv'
  BY ConnectInv, GetRequestInv, AdmitInv, RejectInv, StartThreadInv, StartFailsInv,
     NoteFailedStartInv, FinishRequestInv, ReleaseSlotInv, NoteInv, WaiterInv, StutterInv
     DEF Next, Serving
<1> QED BY InitInv, <1>1, PTL DEF Spec

-----------------------------------------------------------------------------
(* What follows from it.                                                   *)

\* The server's state has the shape its fields have; in particular neither counter
\* passes the number of admissions.
THEOREM TypeCorrect == Spec => []TypeOK
<1>1. IInv => TypeOK
  BY SizesAreNatural, BoundsAssumption
     DEF IInv, Shape, ReleasesOwed, AdmissionsLeft, TypeOK
<1> QED BY <1>1, Inductive, PTL

\* A slot is out exactly while a connection holds it, whichever way its serving
\* ends, and who is being served has its socket.
THEOREM NoSlotLost == Spec => []SlotsAccounted
<1>1. IInv => SlotsAccounted
  BY DEF IInv, SlotsOut, Placed, SlotsAccounted
<1> QED BY <1>1, Inductive, PTL

\* Whoever has seen n releases counted can rely on n slots being back.
THEOREM CountedReleasesAreBack == Spec => []CountedIsBack
<1>1. IInv => CountedIsBack
  <2> SUFFICES ASSUME IInv PROVE CountedIsBack
    OBVIOUS
  <2>1. Cardinality(Holding) <= Cardinality(Owing)
    <3>1. Owing \in SUBSET Conns /\ Holding \in SUBSET Owing
      BY HoldingIsOwing DEF IInv, Owing
    <3> QED BY <3>1, SizeIsNatural, FS_Subset
  <2> QED
    BY <2>1, SizesAreNatural, BoundsAssumption
       DEF IInv, Shape, SlotsOut, ReleasesOwed, CountedIsBack
<1> QED BY <1>1, Inductive, PTL

\* Nobody sleeps in wait_for_release once its goal is reached.
THEOREM WakeupsAreNotLost == Spec => []NoLostWakeup
<1>1. IInv => NoLostWakeup
  BY DEF IInv
<1> QED BY <1>1, Inductive, PTL

=============================================================================

----------------------------- MODULE BoundedHttp -----------------------------
(***************************************************************************)
(* The connection slots of BoundedThreadingHTTPServer                      *)
(* (room/bounded_http.py), the server under the broker and the gateway.    *)
(*                                                                         *)
(* The serving loop is one thread: it accepts a connection, takes a slot   *)
(* without blocking or refuses, and starts a thread for the connection.    *)
(* That thread serves, closes the socket, gives the slot back and counts   *)
(* the release, each in a step of its own.  A caller of wait_for_release   *)
(* sleeps on the condition variable until the count has reached its goal   *)
(* or its deadline has passed.                                             *)
(***************************************************************************)
EXTENDS Integers, FiniteSets

CONSTANTS
  Conns,            \* client connections
  MaxConnections,   \* max_connections
  MaxAdmissions,    \* bound: how many connections are ever given a slot
  None              \* no connection

ASSUME BoundsAssumption ==
  MaxConnections \in Nat \ {0} /\ MaxAdmissions \in Nat /\ IsFiniteSet(Conns) /\ None \notin Conns

VARIABLES
  socket,    \* socket[c]: "none", in the kernel's "queue", or accepted and "open"
  loop,      \* the serving loop: what it does next, and with which connection
  thread,    \* thread[c]: what the connection's thread does next
  slots,     \* value of the BoundedSemaphore
  released,  \* _release_count
  admitted,  \* history: successful acquires
  waiter     \* the caller of wait_for_release

vars == <<socket, loop, thread, slots, released, admitted, waiter>>

Idle == [at |-> "select", conn |-> None]

NotWaiting == [st |-> "out", goal |-> 0, late |-> FALSE]

Init ==
  /\ socket = [c \in Conns |-> "none"]
  /\ loop = Idle
  /\ thread = [c \in Conns |-> "none"]
  /\ slots = MaxConnections
  /\ released = 0
  /\ admitted = 0
  /\ waiter = NotWaiting

-----------------------------------------------------------------------------
(* Giving a slot back.  The semaphore is bounded: a release too many would *)
(* raise, and SlotsAccounted says that there is none.                      *)

GiveBack == slots < MaxConnections /\ slots' = slots + 1

\* Mutant: notify_all is forgotten.
StaysAsleep(w) == w

Woken(w) == IF w.st = "asleep" THEN [w EXCEPT !.st = "awake"] ELSE w

NoteRelease ==
  /\ released' = released + 1
  /\ waiter' = Woken(waiter)

-----------------------------------------------------------------------------
(* A client connects.  A client whose socket was closed comes back as      *)
(* another member of Conns, while its first thread still holds its slot.   *)

Connect(c) ==
  /\ socket[c] = "none"
  /\ thread[c] = "none"
  /\ admitted + Cardinality({d \in Conns : socket[d] # "none"}) < MaxAdmissions
  /\ socket' = [socket EXCEPT ![c] = "queue"]
  /\ UNCHANGED <<loop, thread, slots, released, admitted, waiter>>

-----------------------------------------------------------------------------
(* The serving loop.                                                       *)

GoTo(at) == loop' = [loop EXCEPT !.at = at]

GetRequest(c) ==
  /\ loop.at = "select"
  /\ socket[c] = "queue"
  /\ socket' = [socket EXCEPT ![c] = "open"]
  /\ loop' = [at |-> "admit", conn |-> c]
  /\ UNCHANGED <<thread, slots, released, admitted, waiter>>

\* Mutant: a slot is taken whether or not there is one.
AcquireAlways == slots' = slots - 1 /\ admitted' = admitted + 1

\* The acquire that does not block.
Acquire == slots > 0 /\ slots' = slots - 1 /\ admitted' = admitted + 1

Admit ==
  /\ loop.at = "admit"
  /\ Acquire
  /\ GoTo("start")
  /\ UNCHANGED <<socket, thread, released, waiter>>

\* Mutant: a refusal counts as a release.
RejectAndCount ==
  /\ loop.at = "admit"
  /\ slots = 0
  /\ socket' = [socket EXCEPT ![loop.conn] = "none"]
  /\ loop' = Idle
  /\ NoteRelease
  /\ UNCHANGED <<thread, slots, admitted>>

\* The whole of _reject_overloaded, whether or not its sendall fails.
RejectOverloaded ==
  /\ loop.at = "admit"
  /\ slots = 0
  /\ socket' = [socket EXCEPT ![loop.conn] = "none"]
  /\ loop' = Idle
  /\ UNCHANGED <<thread, slots, released, admitted, waiter>>

StartThread ==
  /\ loop.at = "start"
  /\ thread' = [thread EXCEPT ![loop.conn] = "serve"]
  /\ loop' = Idle
  /\ UNCHANGED <<socket, slots, released, admitted, waiter>>

\* Mutant: a slot is only given back by a thread.
StartFailsKeepingSlot ==
  /\ loop.at = "start"
  /\ GoTo("note")
  /\ UNCHANGED <<socket, thread, slots, released, admitted, waiter>>

\* No thread can be started: the slot is given back, the release counted, and
\* the base class, which the exception reaches, closes the socket.
StartFails ==
  /\ loop.at = "start"
  /\ GiveBack
  /\ GoTo("note")
  /\ UNCHANGED <<socket, thread, released, admitted, waiter>>

\* Mutant: the exception is not raised again, so nobody closes the socket.
NoteAndSwallow ==
  /\ loop.at = "note"
  /\ NoteRelease
  /\ loop' = Idle
  /\ UNCHANGED <<socket, thread, slots, admitted>>

NoteFailedStart ==
  /\ loop.at = "note"
  /\ NoteRelease
  /\ socket' = [socket EXCEPT ![loop.conn] = "none"]
  /\ loop' = Idle
  /\ UNCHANGED <<thread, slots, admitted>>

-----------------------------------------------------------------------------
(* The connection's thread.                                                *)

\* The handler answers, raises or meets the deadline of a socket operation;
\* on every way out the base class closes the socket.
FinishRequest(c) ==
  /\ thread[c] = "serve"
  /\ socket' = [socket EXCEPT ![c] = "none"]
  /\ thread' = [thread EXCEPT ![c] = "release"]
  /\ UNCHANGED <<loop, slots, released, admitted, waiter>>

ReleaseSlot(c) ==
  /\ thread[c] = "release"
  /\ GiveBack
  /\ thread' = [thread EXCEPT ![c] = "note"]
  /\ UNCHANGED <<socket, loop, released, admitted, waiter>>

Note(c) ==
  /\ thread[c] = "note"
  /\ NoteRelease
  /\ thread' = [thread EXCEPT ![c] = "none"]
  /\ UNCHANGED <<socket, loop, slots, admitted>>

-----------------------------------------------------------------------------
(* wait_for_release.                                                       *)

Call(n) ==
  /\ waiter.st = "out"
  /\ waiter' = [st |-> "awake", goal |-> n, late |-> FALSE]
  /\ UNCHANGED <<socket, loop, thread, slots, released, admitted>>

\* Its deadline passes; a caller that is asleep wakes up.
Deadline ==
  /\ waiter.st # "out"
  /\ ~waiter.late
  /\ waiter' = [waiter EXCEPT !.st = "awake", !.late = TRUE]
  /\ UNCHANGED <<socket, loop, thread, slots, released, admitted>>

\* The test of the while loop, under the condition's lock: return or sleep.
CheckCount ==
  /\ waiter.st = "awake"
  /\ waiter' = IF released >= waiter.goal \/ waiter.late
                 THEN NotWaiting
                 ELSE [waiter EXCEPT !.st = "asleep"]
  /\ UNCHANGED <<socket, loop, thread, slots, released, admitted>>

-----------------------------------------------------------------------------
Serving ==
  \/ \E c \in Conns : GetRequest(c)
  \/ Admit \/ RejectOverloaded \/ StartThread \/ StartFails \/ NoteFailedStart

Next ==
  \/ \E c \in Conns : Connect(c) \/ FinishRequest(c) \/ ReleaseSlot(c) \/ Note(c)
  \/ Serving
  \/ \E n \in 1..MaxAdmissions : Call(n)
  \/ Deadline
  \/ CheckCount

\* The loop and the threads are running threads, and the kernel's queue hands
\* connections out in turn.  That FinishRequest comes is an assumption about peers
\* and handlers: the deadline is per socket operation, and bounds neither a request
\* that trickles in nor what a handler waits for.  No deadline of a waiter is assumed.
Fairness ==
  /\ WF_vars(Serving)
  /\ \A c \in Conns :
       SF_vars(GetRequest(c)) /\ WF_vars(FinishRequest(c)) /\ WF_vars(ReleaseSlot(c)) /\ WF_vars(Note(c))
  /\ WF_vars(CheckCount)

Spec == Init /\ [][Next]_vars /\ Fairness

-----------------------------------------------------------------------------
Holding ==
  {c \in Conns : thread[c] \in {"serve", "release"} \/ (loop.conn = c /\ loop.at = "start")}

\* The server's state has the shape its fields have.
TypeOK ==
  /\ socket \in [Conns -> {"none", "queue", "open"}]
  /\ loop \in [at : {"select", "admit", "start", "note"}, conn : Conns \cup {None}]
  /\ thread \in [Conns -> {"none", "serve", "release", "note"}]
  /\ slots \in 0..MaxConnections
  /\ released \in 0..MaxAdmissions
  /\ admitted \in 0..MaxAdmissions
  /\ waiter \in [st : {"out", "awake", "asleep"}, goal : 0..MaxAdmissions, late : BOOLEAN]

\* A slot is out exactly while a connection holds it, so no way out of serving
\* leaks a slot or gives it back twice, and a slot out has its socket open or
\* its release imminent.
SlotsAccounted ==
  /\ slots + Cardinality(Holding) = MaxConnections
  /\ \A c \in Conns : thread[c] = "serve" => socket[c] = "open"

\* A release that is counted is a slot that is already back: whoever has seen
\* n releases can rely on n slots having come back.
CountedIsBack == admitted - released >= MaxConnections - slots

\* Nobody sleeps in wait_for_release once its goal is reached.
NoLostWakeup == waiter.st = "asleep" => released < waiter.goal

\* If handlers end, every connection the server has in hand is closed and every
\* thread ends, also when threads cannot be started.
ConnectionsEnd ==
  /\ \A c \in Conns : socket[c] \in {"queue", "open"} ~> socket[c] = "none"
  /\ \A c \in Conns : thread[c] # "none" ~> thread[c] = "none"

=============================================================================

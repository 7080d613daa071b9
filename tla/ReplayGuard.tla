----------------------------- MODULE ReplayGuard ----------------------------
(***************************************************************************)
(* room/auth.py: the request window and the nonce store of POST /run, as   *)
(* room/server.py uses them.                                               *)
(*                                                                         *)
(* A request thread reads the wall clock three steps apart: once to check  *)
(* the signed window, once more on entering reserve (before the lock), and *)
(* then it waits for the guard's lock.  Other threads and the clock move   *)
(* in between.  The store forgets: it drops expired entries from its head, *)
(* evicts the oldest entry beyond max_entries, and lives in the process's  *)
(* memory, so a restart empties it.  The wall clock is taken never to be   *)
(* set back.                                                               *)
(***************************************************************************)
EXTENDS Integers, Sequences, FiniteSets

CONSTANTS
  Requests,     \* signed requests in circulation; each may be sent any number of times
  Request,      \* Requests -> their signed claims [nonce, issued_at, expires_at]
  Nonces,
  Threads,      \* request threads of the one gunicorn worker
  Skew,         \* KATA_ROOM_MAX_CLOCK_SKEW_SECONDS
  Lifetime,     \* KATA_ROOM_MAX_REQUEST_LIFETIME_SECONDS
  MaxEntries,   \* max_entries of the ReplayGuard
  MaxClock,     \* bound on the clock
  MaxRestarts,  \* bound on restarts of the room
  None

\* request_clock_skew_seconds clamps to >= 0, request_lifetime_seconds to >= 1.
ASSUME PolicyAssumption ==
  /\ Skew \in Nat /\ Lifetime \in Nat \ {0} /\ MaxEntries \in Nat \ {0}
  /\ MaxClock \in Nat /\ MaxRestarts \in Nat
ASSUME RequestAssumption ==
  /\ Request \in [Requests -> [nonce : Nonces, issued_at : Int, expires_at : Int]]
  /\ None \notin Requests /\ None \notin Int

VARIABLES
  clock,     \* int(time.time())
  seen,      \* _seen: the OrderedDict, oldest first
  pc,        \* of a request thread: "idle", "validated", "reserving"
  req,       \* the request the thread handles
  now,       \* the `current` reserve read before it waits for the lock
  restarts,
  \* history
  last,      \* nonce -> expiry it was last reserved with, None if not since the last restart
  others,    \* nonce -> nonces reserved since then, counted up to MaxEntries
  ran,       \* requests that were admitted to execution
  replayed   \* requests admitted more than once

vars == <<clock, seen, pc, req, now, restarts, last, others, ran, replayed>>

Entry == [nonce : Nonces, expires_at : Int]

TypeOK ==
  /\ clock \in Nat
  /\ seen \in Seq(Entry)
  /\ pc \in [Threads -> {"idle", "validated", "reserving"}]
  /\ req \in [Threads -> Requests \cup {None}]
  /\ now \in [Threads -> Nat]
  /\ restarts \in Nat
  /\ last \in [Nonces -> Int \cup {None}]
  /\ others \in [Nonces -> 0..MaxEntries]
  /\ ran \subseteq Requests
  /\ replayed \subseteq Requests

Init ==
  /\ clock = 0
  /\ seen = <<>>
  /\ pc = [th \in Threads |-> "idle"]
  /\ req = [th \in Threads |-> None]
  /\ now = [th \in Threads |-> 0]
  /\ restarts = 0
  /\ last = [n \in Nonces |-> None]
  /\ others = [n \in Nonces |-> 0]
  /\ ran = {}
  /\ replayed = {}

\* validate_request_window at wall-clock time `current`.
InWindow(r, current) ==
  /\ Request[r].issued_at <= current + Skew
  /\ Request[r].expires_at > Request[r].issued_at
  /\ Request[r].expires_at - Request[r].issued_at <= Lifetime
  /\ Request[r].expires_at >= current - Skew

\* A signed request arrives; outside its window it is answered 400 and leaves
\* no trace.
Validate(th, r) ==
  /\ pc[th] = "idle"
  /\ InWindow(r, clock)
  /\ pc' = [pc EXCEPT ![th] = "validated"]
  /\ req' = [req EXCEPT ![th] = r]
  /\ UNCHANGED <<clock, seen, now, restarts, last, others, ran, replayed>>

\* reserve reads the clock again, then waits for the lock.
EnterReserve(th) ==
  /\ pc[th] = "validated"
  /\ now' = [now EXCEPT ![th] = clock]
  /\ pc' = [pc EXCEPT ![th] = "reserving"]
  /\ UNCHANGED <<clock, seen, req, restarts, last, others, ran, replayed>>

\* Mutant: an entry is dropped in its last second.
ExpiredEarly(entry, current) == entry.expires_at <= current

\* The pruning loop pops expired entries from the head of the store, and stops
\* at the first one that has not expired, or past the end.
Expired(entry, current) == entry.expires_at < current
StopsAt(s, i, current) ==
  /\ i <= Len(s) => ~Expired(s[i], current)
  /\ \A k \in 1..i - 1 : Expired(s[k], current)

Suffix(s, i) == SubSeq(s, i, Len(s))

\* Mutant: only the newest entry is looked at.
KnowsNewest(s, n) == Len(s) > 0 /\ s[Len(s)].nonce = n

Knows(s, n) == \E i \in 1..Len(s) : s[i].nonce = n

\* Mutant: the bound is applied one entry late.
EvictLate(s) == IF Len(s) > MaxEntries + 1 THEN Suffix(s, Len(s) - MaxEntries + 1) ELSE s

\* Insertion, and eviction of the oldest entries beyond max_entries.
Evict(s)     == IF Len(s) > MaxEntries THEN Suffix(s, Len(s) - MaxEntries + 1) ELSE s
\* Mutant: the nonce is stored without its expiry.
InsertNonceOnly(s, e) == Evict(Append(s, [nonce |-> e.nonce]))

Insert(s, e) == Evict(Append(s, e))

\* A nonce the store knows is refused (409); only the pruning remains.
Refuse(n, kept) ==
  /\ Knows(kept, n)
  /\ seen' = kept
  /\ UNCHANGED <<last, others, ran, replayed>>

\* Any other is inserted, and its request runs.
Admit(r, n, kept) ==
  /\ ~Knows(kept, n)
  /\ seen' = Insert(kept, [nonce |-> n, expires_at |-> Request[r].expires_at])
  /\ last' = [last EXCEPT ![n] = Request[r].expires_at]
  /\ others' = [m \in Nonces |-> IF m = n THEN 0
                                 ELSE IF others[m] < MaxEntries THEN others[m] + 1
                                 ELSE MaxEntries]
  /\ ran' = ran \cup {r}
  /\ replayed' = IF r \in ran THEN replayed \cup {r} ELSE replayed

\* The locked part of reserve: prune, then refuse or admit.
Reserve(th) ==
  /\ pc[th] = "reserving"
  /\ \E i \in 1..Len(seen) + 1 :
       /\ StopsAt(seen, i, now[th])
       /\ LET r == req[th]
              n == Request[r].nonce
              kept == Suffix(seen, i)
          IN Refuse(n, kept) \/ Admit(r, n, kept)
  /\ pc' = [pc EXCEPT ![th] = "idle"]
  /\ req' = [req EXCEPT ![th] = None]
  /\ now' = [now EXCEPT ![th] = 0]
  /\ UNCHANGED <<clock, restarts>>

\* The room restarts: the store and every request in progress are gone.
Restart ==
  /\ restarts < MaxRestarts
  /\ restarts' = restarts + 1
  /\ seen' = <<>>
  /\ pc' = [th \in Threads |-> "idle"]
  /\ req' = [th \in Threads |-> None]
  /\ now' = [th \in Threads |-> 0]
  /\ last' = [n \in Nonces |-> None]
  /\ others' = [n \in Nonces |-> 0]
  /\ UNCHANGED <<clock, ran, replayed>>

Tick ==
  /\ clock < MaxClock
  /\ clock' = clock + 1
  /\ UNCHANGED <<seen, pc, req, now, restarts, last, others, ran, replayed>>

Next ==
  \/ \E th \in Threads, r \in Requests : Validate(th, r)
  \/ \E th \in Threads : EnterReserve(th) \/ Reserve(th)
  \/ Restart
  \/ Tick

Spec == Init /\ [][Next]_vars

-----------------------------------------------------------------------------
(* Properties.                                                             *)

\* Whatever arrives, the store never holds more than max_entries nonces, and
\* never the same nonce twice.
StoreBounded ==
  /\ Len(seen) <= MaxEntries
  /\ \A i, k \in 1..Len(seen) : seen[i].nonce = seen[k].nonce => i = k

\* What the store still owes to nonce n: the room has not restarted since it
\* was reserved, its expiry has not passed, and fewer than MaxEntries others
\* were reserved after it.
Protected(n) ==
  /\ last[n] # None
  /\ clock <= last[n]
  /\ others[n] < MaxEntries

\* A protected nonce is in the store, with the expiry it was reserved with, and
\* only nonces reserved after it are behind it: whichever threads pruned with
\* whichever stale clock readings in between.
ProtectedIsSeen ==
  \A n \in Nonces : Protected(n) =>
    \E i \in 1..Len(seen) : /\ seen[i] = [nonce |-> n, expires_at |-> last[n]]
                            /\ Len(seen) - i <= others[n]

\* reserve never admits a protected nonce: until it expires, is crowded out by
\* MaxEntries later ones or the room restarts, a nonce is used once.
SingleUse ==
  [][\A th \in Threads :
       /\ pc[th] = "reserving" /\ pc'[th] = "idle" /\ restarts' = restarts
       /\ Protected(Request[req[th]].nonce)
       => UNCHANGED <<last, others, ran, replayed>>]_vars

\* What the README says of the guard: a request is executed at most once.
NoReplay == replayed = {}

=============================================================================

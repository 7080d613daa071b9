-------------------------- MODULE CapabilityLedger --------------------------
(***************************************************************************)
(* What room/broker.py promises, without its tables, threads or locks: a   *)
(* grant belongs to one holder (one opening of a job) for good, and may be *)
(* spent only while that holder is open, only on operations of its role,   *)
(* only until its time is over, and never beyond the operation's allowance.*)
(* (broker.py:20-21: "A capability is worth exactly the calls it has left, *)
(* and it is worthless the moment the job ends.")                          *)
(***************************************************************************)
EXTENDS Integers

CONSTANTS Holders, Grants, Roles, Operations, RoleOf, Allowance, Lifetime, MaxNow,
          None

VARIABLES
  state,   \* of a holder: "new", "open", "ended"
  holder,  \* grant -> its holder, or None while it is not granted
  terms,   \* grant -> [role, until], or None
  used,    \* (grant, operation) -> times spent
  now

ledger == <<state, holder, terms, used, now>>

Init ==
  /\ state = [h \in Holders |-> "new"]
  /\ holder = [g \in Grants |-> None]
  /\ terms = [g \in Grants |-> None]
  /\ used = [k \in Grants \X Operations |-> 0]
  /\ now = 0

Open(h) ==
  /\ state[h] = "new"
  /\ state' = [state EXCEPT ![h] = "open"]
  /\ UNCHANGED <<holder, terms, used, now>>

End(h) ==
  /\ state[h] = "open"
  /\ state' = [state EXCEPT ![h] = "ended"]
  /\ UNCHANGED <<holder, terms, used, now>>

Grant(h, g, r) ==
  /\ state[h] = "open"
  /\ holder[g] = None
  /\ holder' = [holder EXCEPT ![g] = h]
  /\ terms' = [terms EXCEPT ![g] = [role |-> r, until |-> now + Lifetime]]
  /\ UNCHANGED <<state, used, now>>

Spend(g, op) ==
  /\ holder[g] # None
  /\ state[holder[g]] = "open"
  /\ terms[g].role = RoleOf[op]
  /\ now <= terms[g].until
  /\ used[<<g, op>>] < Allowance[op]
  /\ used' = [used EXCEPT ![<<g, op>>] = @ + 1]
  /\ UNCHANGED <<state, holder, terms, now>>

Advance ==
  /\ now < MaxNow
  /\ now' = now + 1
  /\ UNCHANGED <<state, holder, terms, used>>

Next ==
  \/ \E h \in Holders : Open(h) \/ End(h)
  \/ \E h \in Holders, g \in Grants, r \in Roles : Grant(h, g, r)
  \/ \E g \in Grants, op \in Operations : Spend(g, op)
  \/ Advance

Spec == Init /\ [][Next]_ledger

=============================================================================

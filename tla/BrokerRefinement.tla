-------------------------- MODULE BrokerRefinement --------------------------
(***************************************************************************)
(* Broker implements CapabilityLedger.  A holder is a _Job object, and the *)
(* mapping looks through the broker's indirection: the holder of a token   *)
(* is the object it was minted for, open while _jobs still points to it,   *)
(* and what was spent is what that object has billed.                      *)
(***************************************************************************)
EXTENDS Broker

StateOf(o) == IF jobId[o] = Null THEN "new" ELSE IF Live(o) THEN "open" ELSE "ended"

TermsOf(t) ==
  IF capability[t] = Null THEN Null
  ELSE [role |-> capability[t].role, until |-> capability[t].expires_at]

UsedOf(k) == IF issuedTo[k[1]] = Null THEN 0 ELSE calls[issuedTo[k[1]]][k]

Ledger == INSTANCE CapabilityLedger WITH
  Holders    <- Objs,
  Grants     <- Tokens,
  Roles      <- ROLES,
  RoleOf     <- [op \in Operations |-> OpSpec[op].role],
  Allowance  <- [op \in Operations |-> OpSpec[op].max_calls],
  Lifetime   <- TTL,
  MaxNow     <- MaxClock,
  None       <- Null,
  state      <- [o \in Objs |-> StateOf(o)],
  holder     <- issuedTo,
  terms      <- [t \in Tokens |-> TermsOf(t)],
  used       <- [k \in Tokens \X Operations |-> UsedOf(k)],
  now        <- clock

\* The broker only does what the ledger allows: resolving a token through
\* _tokens, _jobs and the job's own capabilities, with bills kept in the job
\* object, grants exactly what a direct ledger of grants would (open_job,
\* close_job, issue, dispatch).
ImplementsLedger == Ledger!Spec

=============================================================================

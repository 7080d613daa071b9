------------------------------- MODULE Broker -------------------------------
(***************************************************************************)
(* room/broker.py: the trusted credential broker.                          *)
(*                                                                         *)
(* One Broker object serves the runner process.  Its two tables (_jobs and *)
(* _tokens) are guarded by one lock, so open_job, issue, close_job and the *)
(* admission part of dispatch are each one atomic step.  The provider call *)
(* itself runs OUTSIDE the lock with the decrypted key in the caller's     *)
(* frame, and _record takes the lock again afterwards: a dispatch is four  *)
(* steps (admission, entry into the handler, its return, the record), and  *)
(* close_job, reopening of the same job id, expiry and other dispatches    *)
(* may fall between any two of them.  close() is a loop of close_job calls *)
(* over a snapshot of the job ids taken without the lock.                  *)
(*                                                                         *)
(* A _Job is a Python object: a thread inside a handler keeps it alive     *)
(* after close_job dropped it from _jobs.  Objs are those objects; a job   *)
(* id that is opened again gets a fresh one.                               *)
(***************************************************************************)
EXTENDS Integers, Sequences, FiniteSets

CONSTANTS
  JobIds,      \* job identifiers a profile may use
  Objs,        \* _Job objects: how many times a job may be opened
  Tokens,      \* capability tokens, each minted at most once (128 random bits)
  Threads,     \* threads that call dispatch and close
  Providers,
  Keys,        \* decrypted provider keys
  Credentials, \* what open_job may be given: provider -> key or Null
  Operations,  \* names of the profile's operations
  OpSpec,      \* Operations -> OperationSpec
  FaultCodes,  \* `code` attributes of the exceptions a handler may raise
  NoCode,      \* an exception without an integer `code`
  TTL,         \* capability_ttl_seconds
  MaxClock,    \* bound on the clock
  Null         \* Python's None, a missing dict entry or an empty key

ROLE_AGENT     == "agent"
ROLE_EVALUATOR == "evaluator"
ROLES          == {ROLE_AGENT, ROLE_EVALUATOR}

\* What OperationSpec.__post_init__ accepts: a positive call ceiling, a known
\* role, and no evaluator operation on the network.
OperationSpec ==
  {s \in [role : ROLES, provider : Providers,
          max_calls : Nat \ {0}, http_exposed : BOOLEAN] :
     s.role = ROLE_EVALUATOR => ~s.http_exposed}

ASSUME OpSpecAssumption == OpSpec \in [Operations -> OperationSpec]
ASSUME CredentialsAssumption ==
  Credentials \subseteq [Providers -> Keys \cup {Null}]
ASSUME ClockAssumption == TTL \in Nat /\ MaxClock \in Nat

VARIABLES
  jobs,          \* _jobs: job id -> _Job object or Null
  tokens,        \* _tokens: token -> job id or Null
  jobId,         \* _Job.job_id; Null for an object not created yet
  credentials,   \* _Job.credentials: provider -> key or Null
  capabilities,  \* _Job.capabilities, as the set of its tokens
  capability,    \* the frozen Capability minted with a token, or Null
  calls,         \* _Job.calls: (token, operation) -> count
  records,       \* _Job.records
  clock,         \* _now()
  pc,            \* where a thread is: idle, admitted, in a handler, before _record,
                 \* in close()
  frame,         \* the locals of dispatch: job, token, operation, api_key, status
  todo,          \* job ids close() still has to visit
  \* history, read by no action
  issuedTo,      \* the _Job object a token was minted for
  given,         \* the credentials open_job received
  spent,         \* (token, operation) -> number of dispatches admitted and billed
  returned,      \* the records close_job handed to its caller, or Null
  target         \* the _Job objects that were live when close() was called

program == <<jobs, tokens, jobId, credentials, capabilities, capability, calls,
             records, clock, pc, frame, todo>>
history == <<issuedTo, given, spent, returned, target>>
vars    == <<program, history>>

Capability == [job_id : JobIds, role : ROLES, expires_at : Nat]

\* _classify: the status bucket of an exception, from its numeric code only.
Classify(code) ==
  CASE code = NoCode          -> "unreachable"
    [] code \in 200..299      -> "ok"
    [] code = 402             -> "payment_required"
    [] code \in {401, 403}    -> "unauthorized"
    [] code = 429             -> "rate_limited"
    [] code \in (400..499) \ {401, 402, 403, 429} -> "bad_request"
    [] OTHER                  -> "provider_error"

\* How a handler ends, as the status dispatch records: "ok" for a returned
\* result (a dict, which the caller gets, or not, which it does not), "denied"
\* for a BrokerDenied, and the bucket of any other exception.
Statuses == {"ok", "denied"} \cup {Classify(c) : c \in FaultCodes}

Frame == [obj : Objs, token : Tokens, op : Operations, key : Keys,
          status : Statuses \cup {Null}]

\* None is none of the values it stands in for the absence of.
ASSUME NullAssumption ==
  /\ Null \notin JobIds \cup Objs \cup Keys \cup Statuses
  /\ Null \notin Capability
  /\ Null \notin Frame

TypeOK ==
  /\ jobs \in [JobIds -> Objs \cup {Null}]
  /\ tokens \in [Tokens -> JobIds \cup {Null}]
  /\ jobId \in [Objs -> JobIds \cup {Null}]
  /\ credentials \in [Objs -> [Providers -> Keys \cup {Null}]]
  /\ capabilities \in [Objs -> SUBSET Tokens]
  /\ capability \in [Tokens -> Capability \cup {Null}]
  /\ calls \in [Objs -> [Tokens \X Operations -> Nat]]
  /\ records \in [Objs -> Seq([operation : Operations, status : Statuses])]
  /\ clock \in Nat
  /\ pc \in [Threads -> {"idle", "admitted", "handler", "record", "closing"}]
  /\ frame \in [Threads -> Frame \cup {Null}]
  /\ todo \in [Threads -> SUBSET JobIds]
  /\ issuedTo \in [Tokens -> Objs \cup {Null}]
  /\ given \in [Objs -> [Providers -> Keys \cup {Null}]]
  /\ spent \in [Tokens \X Operations -> Nat]
  /\ returned \in [Objs -> Seq([operation : Operations, status : Statuses]) \cup {Null}]
  /\ target \in [Threads -> SUBSET Objs]

NoCredentials == [p \in Providers |-> Null]
NoCalls       == [k \in Tokens \X Operations |-> 0]

Init ==
  /\ jobs = [j \in JobIds |-> Null]
  /\ tokens = [t \in Tokens |-> Null]
  /\ jobId = [o \in Objs |-> Null]
  /\ credentials = [o \in Objs |-> NoCredentials]
  /\ capabilities = [o \in Objs |-> {}]
  /\ capability = [t \in Tokens |-> Null]
  /\ calls = [o \in Objs |-> NoCalls]
  /\ records = [o \in Objs |-> <<>>]
  /\ clock = 0
  /\ pc = [th \in Threads |-> "idle"]
  /\ frame = [th \in Threads |-> Null]
  /\ todo = [th \in Threads |-> {}]
  /\ issuedTo = [t \in Tokens |-> Null]
  /\ given = [o \in Objs |-> NoCredentials]
  /\ spent = NoCalls
  /\ returned = [o \in Objs |-> Null]
  /\ target = [th \in Threads |-> {}]

Live(o)   == \E j \in JobIds : jobs[j] = o
Closed(o) == jobId[o] # Null /\ ~Live(o)

-----------------------------------------------------------------------------
(* Job lifecycle.                                                          *)

\* open_job: refused (BrokerConfigurationError, nothing changed) while the job
\* id is open; otherwise a fresh _Job object holds a copy of the credentials.
OpenJob(j, o, creds) ==
  /\ jobs[j] = Null
  /\ jobId[o] = Null
  /\ jobs' = [jobs EXCEPT ![j] = o]
  /\ jobId' = [jobId EXCEPT ![o] = j]
  /\ credentials' = [credentials EXCEPT ![o] = creds]
  /\ given' = [given EXCEPT ![o] = creds]
  /\ UNCHANGED <<tokens, capabilities, capability, calls, records, clock, pc,
                 frame, todo, issuedTo, spent, returned, target>>

\* What is left of a _Job's capabilities, and of its credentials, on close.
CapabilitiesOnClose(o) == {}
\* Mutant: close_job does not overwrite the keys.
CredentialsKeptOnClose(o) == credentials[o]

CredentialsOnClose(o)  == NoCredentials

\* Mutant: close_job forgets to pop the job's tokens.
TokensKeptOnClose(o) == tokens

\* The tokens close_job pops from _tokens: those in the job's capabilities.
TokensOnClose(o) ==
  [t \in Tokens |-> IF t \in capabilities[o] THEN Null ELSE tokens[t]]

\* Mutant: a job with a call in flight is left open.
DoCloseWhenQuiet(j) ==
  LET o == jobs[j] IN
    IF \E th \in Threads : frame[th] # Null /\ frame[th].obj = o
      THEN UNCHANGED <<jobs, tokens, capabilities, credentials, returned>>
      ELSE /\ jobs' = [jobs EXCEPT ![j] = Null]
           /\ tokens' = [t \in Tokens |-> IF t \in capabilities[o] THEN Null ELSE tokens[t]]
           /\ capabilities' = [capabilities EXCEPT ![o] = {}]
           /\ credentials' = [credentials EXCEPT ![o] = NoCredentials]
           /\ returned' = [returned EXCEPT ![o] = records[o]]

\* The body of close_job for an open job id: one critical section.
DoClose(j) ==
  LET o == jobs[j] IN
    /\ jobs' = [jobs EXCEPT ![j] = Null]
    /\ tokens' = TokensOnClose(o)
    /\ capabilities' = [capabilities EXCEPT ![o] = CapabilitiesOnClose(o)]
    /\ credentials' = [credentials EXCEPT ![o] = CredentialsOnClose(o)]
    /\ returned' = [returned EXCEPT ![o] = records[o]]

\* close_job of an open job; on an unknown id it changes nothing.
CloseJob(j) ==
  /\ jobs[j] # Null
  /\ DoClose(j)
  /\ UNCHANGED <<jobId, capability, calls, records, clock, pc, frame, 
                 todo, issuedTo, given, spent, target>>

\* close: the job ids are copied without the lock ...
CloseAllBegin(th) ==
  /\ pc[th] = "idle"
  /\ pc' = [pc EXCEPT ![th] = "closing"]
  /\ todo' = [todo EXCEPT ![th] = {j \in JobIds : jobs[j] # Null}]
  /\ target' = [target EXCEPT ![th] = {o \in Objs : Live(o)}]
  /\ UNCHANGED <<jobs, tokens, jobId, credentials, capabilities, capability,
                 calls, records, clock, frame, issuedTo, given, spent,
                 returned>>

\* ... and closed one by one; an id may have been closed, or closed and opened
\* again, since the snapshot.
CloseAllStep(th) ==
  /\ pc[th] = "closing"
  /\ \E j \in todo[th] :
       /\ todo' = [todo EXCEPT ![th] = @ \ {j}]
       /\ \/ jobs[j] # Null /\ DoClose(j)
          \/ jobs[j] = Null /\ UNCHANGED <<jobs, tokens, capabilities,
                                           credentials, returned>>
  /\ UNCHANGED <<jobId, capability, calls, records, clock, pc, frame,
                 issuedTo, given, spent, target>>

CloseAllEnd(th) ==
  /\ pc[th] = "closing" /\ todo[th] = {}
  /\ pc' = [pc EXCEPT ![th] = "idle"]
  /\ target' = [target EXCEPT ![th] = {}]
  /\ UNCHANGED <<jobs, tokens, jobId, credentials, capabilities, capability,
                 calls, records, clock, frame, todo, issuedTo, given,
                 spent, returned>>

-----------------------------------------------------------------------------
(* Capabilities.                                                           *)

ExpiresAt == clock + TTL

\* issue: mint one capability for a live job.
Issue(j, t, role) ==
  /\ jobs[j] # Null
  /\ capability[t] = Null
  /\ capability' = [capability EXCEPT ![t] = [job_id |-> j, role |-> role,
                                              expires_at |-> ExpiresAt]]
  /\ capabilities' = [capabilities EXCEPT ![jobs[j]] = @ \cup {t}]
  /\ tokens' = [tokens EXCEPT ![t] = j]
  /\ issuedTo' = [issuedTo EXCEPT ![t] = jobs[j]]
  /\ UNCHANGED <<jobs, jobId, credentials, calls, records, clock, pc, frame,
                 todo, given, spent, returned, target>>

\* Mutant: the capability is trusted by itself, without the two tables.
AuthorizeByCapability(t) ==
  {o \in Objs : /\ capability[t] # Null
                /\ jobs[capability[t].job_id] = o
                /\ clock <= capability[t].expires_at}

\* _authorize, as the set of the _Job objects it may return (at most one):
\* token -> job id -> live object -> its own capability, unexpired.
Authorize(t) ==
  {o \in Objs : /\ tokens[t] # Null
                /\ jobs[tokens[t]] = o
                /\ t \in capabilities[o]
                /\ clock <= capability[t].expires_at}

-----------------------------------------------------------------------------
(* dispatch.                                                               *)

\* Mutant: the role is not compared.
MayInvokeAnyRole(t, op, over_http) == over_http => OpSpec[op].http_exposed

\* The checks on the operation a capability of this role may ask for.
MayInvoke(t, op, over_http) ==
  /\ OpSpec[op].role = capability[t].role
  /\ over_http => OpSpec[op].http_exposed

\* Mutant: one call too many.
UnderQuotaInclusive(o, t, op) == calls[o][<<t, op>>] <= OpSpec[op].max_calls

UnderQuota(o, t, op) == calls[o][<<t, op>>] < OpSpec[op].max_calls

\* Mutant: any key of the job will do.
KeyForAnyProvider(o, op) ==
  LET keys == {credentials[o][p] : p \in Providers} \ {Null}
  IN IF keys = {} THEN Null ELSE CHOOSE k \in keys : TRUE

\* api_key = job.credentials.get(spec.provider)
KeyFor(o, op) == credentials[o][OpSpec[op].provider]

\* Mutant: a missing key is not noticed.
AdmissibleWithoutKey(o, t, op, over_http, payload_ok) ==
  /\ o \in Authorize(t)
  /\ MayInvoke(t, op, over_http)
  /\ payload_ok
  /\ UnderQuota(o, t, op)

\* Everything dispatch checks before it bills; payload_ok: the payload is a dict.
Admissible(o, t, op, over_http, payload_ok) ==
  /\ o \in Authorize(t)
  /\ MayInvoke(t, op, over_http)
  /\ payload_ok
  /\ UnderQuota(o, t, op)
  /\ KeyFor(o, op) # Null

\* Mutant: the call is billed to every token of the job.
BillWholeJob(o, t, op) ==
  [calls EXCEPT ![o] = [k \in Tokens \X Operations |->
     IF k[1] \in capabilities[o] /\ k[2] = op THEN calls[o][k] + 1 ELSE calls[o][k]]]

Bill(o, t, op) == [calls EXCEPT ![o][<<t, op>>] = @ + 1]

\* The locked part of dispatch: check, take the key and bill.  A refusal
\* (BrokerDenied, always the same) changes nothing: the guard fails.
DispatchAdmit(th, o, t, op, over_http, payload_ok) ==
  /\ pc[th] = "idle"
  /\ Admissible(o, t, op, over_http, payload_ok)
  /\ calls' = Bill(o, t, op)
  /\ pc' = [pc EXCEPT ![th] = "admitted"]
  /\ frame' = [frame EXCEPT ![th] = [obj |-> o, token |-> t, op |-> op,
                                     key |-> KeyFor(o, op), status |-> Null]]
  /\ spent' = [spent EXCEPT ![<<t, op>>] = @ + 1]
  /\ UNCHANGED <<jobs, tokens, jobId, credentials, capabilities, capability,
                 records, clock, todo, issuedTo, given, returned, target>>

\* handler(api_key, payload), after the lock was released: nothing is looked at
\* again, so the job may have been closed or the token have expired meanwhile.
EnterHandler(th) ==
  /\ pc[th] = "admitted"
  /\ pc' = [pc EXCEPT ![th] = "handler"]
  /\ UNCHANGED <<jobs, tokens, jobId, credentials, capabilities, capability,
                 calls, records, clock, frame, todo, history>>

\* The handler returns or raises; the thread now waits for the lock.
HandlerReturn(th) ==
  /\ pc[th] = "handler"
  /\ \E st \in Statuses : frame' = [frame EXCEPT ![th].status = st]
  /\ pc' = [pc EXCEPT ![th] = "record"]
  /\ UNCHANGED <<jobs, tokens, jobId, credentials, capabilities, capability,
                 calls, records, clock, todo, history>>

\* Mutant: a call that failed is not recorded.
WithRecordIfOk(o, op, status) ==
  IF status = "ok" THEN Append(records[o], [operation |-> op, status |-> status])
  ELSE records[o]

\* The records of a job after a call that ended with this status.
WithRecord(o, op, status) ==
  Append(records[o], [operation |-> op, status |-> status])

\* _record on the job object dispatch holds (dropped from _jobs or not), and
\* the end of dispatch.
RecordAndReply(th) ==
  /\ pc[th] = "record"
  /\ LET f == frame[th] IN
       /\ records' = [records EXCEPT ![f.obj] = WithRecord(f.obj, f.op, f.status)]
  /\ frame' = [frame EXCEPT ![th] = Null]
  /\ pc' = [pc EXCEPT ![th] = "idle"]
  /\ UNCHANGED <<jobs, tokens, jobId, credentials, capabilities, capability,
                 calls, clock, todo, history>>

\* quota: what a live capability is told, per operation of its role.
QuotaView(o, t) ==
  [op \in {p \in Operations : OpSpec[p].role = capability[t].role} |->
     LET used == calls[o][<<t, op>>] IN
       [used      |-> used,
        remaining |-> IF OpSpec[op].max_calls > used
                        THEN OpSpec[op].max_calls - used ELSE 0]]

Tick ==
  /\ clock < MaxClock
  /\ clock' = clock + 1
  /\ UNCHANGED <<jobs, tokens, jobId, credentials, capabilities, capability,
                 calls, records, pc, frame, todo, history>>

-----------------------------------------------------------------------------
Lifecycle ==
  \/ \E j \in JobIds, o \in Objs, creds \in Credentials :
       OpenJob(j, o, creds)
  \/ \E j \in JobIds : CloseJob(j)
  \/ \E th \in Threads : CloseAllBegin(th) \/ CloseAllStep(th) \/ CloseAllEnd(th)
  \/ \E j \in JobIds, t \in Tokens, role \in ROLES : Issue(j, t, role)

Dispatch ==
  \/ \E th \in Threads, o \in Objs, t \in Tokens, op \in Operations,
        over_http, payload_ok \in BOOLEAN :
       DispatchAdmit(th, o, t, op, over_http, payload_ok)
  \/ \E th \in Threads : EnterHandler(th) \/ HandlerReturn(th) \/ RecordAndReply(th)

Next == Lifecycle \/ Dispatch \/ Tick

Spec == Init /\ [][Next]_vars

\* The lock is held only for bounded work, and close() is a plain loop.  That a
\* handler returns is an assumption about the profile's handlers (a provider
\* call with a timeout): the broker enforces none.  Nothing makes a profile
\* open or close a job, or an agent dispatch.
Fairness ==
  \A th \in Threads : /\ WF_vars(EnterHandler(th))
                      /\ WF_vars(HandlerReturn(th))
                      /\ WF_vars(RecordAndReply(th))
                      /\ WF_vars(CloseAllStep(th))
                      /\ WF_vars(CloseAllEnd(th))

FairSpec == Spec /\ Fairness

-----------------------------------------------------------------------------
(* Properties.                                                             *)

\* _tokens, _jobs and each job's capabilities are three tables that always
\* agree: a token is indexed exactly while the very object it was minted for is
\* live under its job id, and a dropped object keeps no capability.  issue and
\* close_job each update all three.
TablesAgree ==
  /\ \A t \in Tokens, j \in JobIds :
       tokens[t] = j <=> issuedTo[t] # Null /\ jobs[j] = issuedTo[t]
  /\ \A o \in Objs, t \in Tokens :
       t \in capabilities[o] <=> issuedTo[t] = o /\ Live(o)

\* A dispatch only ever holds, and its handler only ever runs with, the key that
\* open_job received, for the operation's provider, in the job the presented
\* token was minted for, and the operation has the token's role: also when that
\* job has been closed, or its id reopened with another contestant's keys, since
\* the call was admitted.
OwnKeyOnly ==
  \A th \in Threads : frame[th] # Null =>
    LET f == frame[th] IN
      /\ issuedTo[f.token] = f.obj
      /\ f.key = given[f.obj][OpSpec[f.op].provider]
      /\ OpSpec[f.op].role = capability[f.token].role

\* No capability is ever admitted more often than the operation's ceiling, however
\* many threads present it at the same time; a handler is entered at most once
\* per admission.
QuotaNeverExceeded ==
  \A t \in Tokens, op \in Operations : spent[<<t, op>>] <= OpSpec[op].max_calls

\* What GET /v1/quota reports to a live capability is the number of dispatches
\* this capability was really admitted for (billed before the handler is
\* entered), and used and remaining add up to the ceiling, for exactly the operations of its role.
QuotaViewIsTruthful ==
  \A t \in Tokens, o \in Objs : o \in Authorize(t) =>
    LET view == QuotaView(o, t) IN
      \A op \in Operations :
        IF op \in DOMAIN view
          THEN /\ view[op].used = spent[<<t, op>>]
               /\ view[op].used + view[op].remaining = OpSpec[op].max_calls
          ELSE spent[<<t, op>>] = 0

InFlight(o, op) ==
  {th \in Threads : frame[th] # Null /\ frame[th].obj = o /\ frame[th].op = op}

RecordsOf(o, op) == {i \in DOMAIN records[o] : records[o][i].operation = op}

\* The calls billed in a job object for an operation: the first, the second, ...
\* of each token.
BillsOf(o, op) == UNION {{t} \X (1..calls[o][<<t, op>>]) : t \in Tokens}

\* Every billed call is accounted for: in a job object, the calls billed for an
\* operation are the ones recorded plus the ones still in flight (admitted, in
\* the handler, or waiting to record).  Billing happens before the handler,
\* recording on each of its ways out.
BilledIsAccounted ==
  \A o \in Objs, op \in Operations :
    Cardinality(BillsOf(o, op))
      = Cardinality(RecordsOf(o, op)) + Cardinality(InFlight(o, op))

\* close() ends every job that was open when it was called: what is still live
\* of those is still on its list, so nothing of them is left when it returns.
CloseReachesSnapshot ==
  \A th \in Threads : pc[th] = "closing" =>
    \A o \in target[th] : Live(o) => jobId[o] \in todo[th]

\* A capability buys nothing more from the moment its job ends or its time is
\* over, for good: no dispatch is admitted and billed with a token whose own job
\* object is closed (even if the job id is open again) or which has expired.
\* Only admission is protected: the handler of a dispatch admitted before may
\* still be entered after (EnterHandler looks at neither).
DeadTokenStaysDead ==
  [][\A t \in Tokens, op \in Operations :
       spent'[<<t, op>>] # spent[<<t, op>>] =>
         /\ issuedTo[t] # Null
         /\ Live(issuedTo[t])
         /\ clock <= capability[t].expires_at]_vars

HoldsKey(o) ==
  \/ \E p \in Providers : credentials[o][p] # Null
  \/ \E th \in Threads : frame[th] # Null /\ frame[th].obj = o

\* Once a job is closed, its keys are eventually neither in the broker's job
\* object nor in the frame of a dispatch that was in flight when it closed.  The
\* copy the request handler itself decrypted (server.py) is not the broker's.
KeysEventuallyGone ==
  \A o \in Objs : Closed(o) ~> (Closed(o) /\ ~HoldsKey(o))

=============================================================================

---------------------------- MODULE BrokerProofs ----------------------------
(***************************************************************************)
(* Proofs about Broker, for any number of jobs, tokens, threads, keys and  *)
(* operations.  IInv is the inductive invariant: the tables agree, a job   *)
(* object bills only its own tokens, one per admitted dispatch, a live    *)
(* job still has the keys it was opened with, and a call in flight holds   *)
(* the key of its own job.  On top of it, three invariants of their own:   *)
(* tokens are billed in their role, bills balance with records and calls   *)
(* in flight, and a close() lists what it has to end.  Last, that Broker   *)
(* implements CapabilityLedger.                                            *)
(***************************************************************************)
EXTENDS BrokerRefinement, FiniteSetTheorems, TLAPS

\* Two open job ids never share a _Job object, and the object knows its id.
ObjectsNotShared ==
  \A j \in JobIds : jobs[j] # Null => jobId[jobs[j]] = j

\* A token has a capability exactly when it was minted, and then for a job
\* object that exists; no dispatch of an unminted token was
\* ever admitted.
Minted ==
  \A t \in Tokens :
    /\ capability[t] = Null <=> issuedTo[t] = Null
    /\ issuedTo[t] # Null => jobId[issuedTo[t]] # Null
    /\ issuedTo[t] = Null => \A op \in Operations : spent[<<t, op>>] = 0

\* A job object's bill lists its own tokens only, with the dispatches
\* they were admitted for.
BillsAreAdmissions ==
  \A o \in Objs, t \in Tokens, op \in Operations :
    calls[o][<<t, op>>] = IF issuedTo[t] = o THEN spent[<<t, op>>] ELSE 0

KeysAsGiven == \A o \in Objs : Live(o) => credentials[o] = given[o]

\* A thread has a frame exactly while it is inside a dispatch, and knows how
\* the handler ended once it has.
FramesMatchPc ==
  \A th \in Threads :
    /\ frame[th] # Null <=> pc[th] \in {"admitted", "handler", "record"}
    /\ pc[th] = "record" => frame[th].status # Null

IInv == /\ TypeOK
        /\ TablesAgree
        /\ ObjectsNotShared
        /\ Minted
        /\ BillsAreAdmissions
        /\ QuotaNeverExceeded
        /\ KeysAsGiven
        /\ FramesMatchPc
        /\ OwnKeyOnly

USE NullAssumption, OpSpecAssumption, CredentialsAssumption, ClockAssumption DEF OperationSpec

-----------------------------------------------------------------------------
(* Type correctness.                                                       *)

\* Whatever close_job leaves of a job object is well typed.
LEMMA DoCloseType ==
  ASSUME TypeOK, NEW j \in JobIds, jobs[j] # Null, DoClose(j)
  PROVE  /\ jobs' \in [JobIds -> Objs \cup {Null}]
         /\ tokens' \in [Tokens -> JobIds \cup {Null}]
         /\ capabilities' \in [Objs -> SUBSET Tokens]
         /\ credentials' \in [Objs -> [Providers -> Keys \cup {Null}]]
         /\ returned' \in [Objs -> Seq([operation : Operations, status : Statuses])
                                     \cup {Null}]
<1>1. jobs[j] \in Objs
  BY DEF TypeOK
<1> QED
  BY <1>1 DEF TypeOK, DoClose, TokensOnClose, CapabilitiesOnClose,
              CredentialsOnClose, NoCredentials

\* Each action of the broker keeps every variable well typed.
LEMMA TypeStep ==
  ASSUME TypeOK, FramesMatchPc, [Next]_vars
  PROVE  TypeOK'
<1>1. ASSUME NEW j \in JobIds, NEW o \in Objs, NEW creds \in Credentials,
             OpenJob(j, o, creds)
      PROVE  TypeOK'
  BY <1>1 DEF TypeOK, OpenJob
<1>2. ASSUME NEW j \in JobIds, CloseJob(j)
      PROVE  TypeOK'
  <2>1. jobs[j] # Null /\ DoClose(j)
    BY <1>2 DEF CloseJob
  <2> QED
    BY <1>2, <2>1, DoCloseType DEF TypeOK, CloseJob
<1>3. ASSUME NEW th \in Threads, CloseAllBegin(th)
      PROVE  TypeOK'
  BY <1>3 DEF TypeOK, CloseAllBegin
<1>4. ASSUME NEW th \in Threads, CloseAllStep(th)
      PROVE  TypeOK'
  <2>1. PICK j \in todo[th] :
          /\ todo' = [todo EXCEPT ![th] = @ \ {j}]
          /\ \/ jobs[j] # Null /\ DoClose(j)
             \/ jobs[j] = Null /\ UNCHANGED <<jobs, tokens, capabilities,
                                              credentials, returned>>
    BY <1>4 DEF CloseAllStep
  <2>2. j \in JobIds
    BY DEF TypeOK
  <2>3. todo' \in [Threads -> SUBSET JobIds]
    BY <2>1 DEF TypeOK
  <2>4. CASE jobs[j] # Null /\ DoClose(j)
    BY <1>4, <2>2, <2>3, <2>4, DoCloseType DEF TypeOK, CloseAllStep
  <2>5. CASE UNCHANGED <<jobs, tokens, capabilities, credentials, returned>>
    BY <1>4, <2>3, <2>5 DEF TypeOK, CloseAllStep
  <2> QED
    BY <2>1, <2>4, <2>5
<1>5. ASSUME NEW th \in Threads, CloseAllEnd(th)
      PROVE  TypeOK'
  BY <1>5 DEF TypeOK, CloseAllEnd
<1>6. ASSUME NEW j \in JobIds, NEW t \in Tokens, NEW role \in ROLES, Issue(j, t, role)
      PROVE  TypeOK'
  <2>1. jobs[j] \in Objs
    BY <1>6 DEF TypeOK, Issue
  <2>2. [job_id |-> j, role |-> role, expires_at |-> ExpiresAt] \in Capability
    BY DEF TypeOK, Capability, ExpiresAt
  <2>3. /\ capability' \in [Tokens -> Capability \cup {Null}]
        /\ tokens' \in [Tokens -> JobIds \cup {Null}]
    BY <1>6, <2>2 DEF TypeOK, Issue
  <2>4. /\ capabilities' \in [Objs -> SUBSET Tokens]
        /\ issuedTo' \in [Tokens -> Objs \cup {Null}]
    BY <1>6, <2>1 DEF TypeOK, Issue
  <2> QED
    BY <1>6, <2>3, <2>4 DEF TypeOK, Issue
<1>7. ASSUME NEW th \in Threads, NEW o \in Objs, NEW t \in Tokens,
             NEW op \in Operations, NEW h \in BOOLEAN, NEW d \in BOOLEAN,
             DispatchAdmit(th, o, t, op, h, d)
      PROVE  TypeOK'
  <2>1. KeyFor(o, op) \in Keys
    BY <1>7 DEF TypeOK, DispatchAdmit, Admissible, KeyFor
  <2>2. [obj |-> o, token |-> t, op |-> op, key |-> KeyFor(o, op), status |-> Null]
          \in Frame
    BY <2>1 DEF Frame
  <2>3. calls' \in [Objs -> [Tokens \X Operations -> Nat]]
    BY <1>7 DEF TypeOK, DispatchAdmit, Bill
  <2>4. spent' \in [Tokens \X Operations -> Nat]
    BY <1>7 DEF TypeOK, DispatchAdmit
  <2> QED
    BY <1>7, <2>2, <2>3, <2>4 DEF TypeOK, DispatchAdmit
<1>8. ASSUME NEW th \in Threads, HandlerReturn(th)
      PROVE  TypeOK'
  <2>1. frame[th] \in Frame
    BY <1>8 DEF TypeOK, FramesMatchPc, HandlerReturn
  <2>2. PICK st \in Statuses : frame' = [frame EXCEPT ![th].status = st]
    BY <1>8 DEF HandlerReturn
  <2>3. [frame[th] EXCEPT !.status = st] \in Frame
    BY <2>1 DEF Frame
  <2>4. frame' \in [Threads -> Frame \cup {Null}]
    BY <2>2, <2>3 DEF TypeOK
  <2>5. pc' \in [Threads -> {"idle", "admitted", "handler", "record", "closing"}]
    BY <1>8 DEF TypeOK, HandlerReturn
  <2> QED
    BY <1>8, <2>4, <2>5 DEF TypeOK, HandlerReturn, history
<1>9. ASSUME NEW th \in Threads, RecordAndReply(th)
      PROVE  TypeOK'
  <2> DEFINE f == frame[th]
             r == [operation |-> f.op, status |-> f.status]
  <2>1. f \in Frame /\ f.status # Null
    BY <1>9 DEF TypeOK, FramesMatchPc, RecordAndReply
  <2>2. f.obj \in Objs /\ r \in [operation : Operations, status : Statuses]
    BY <2>1 DEF Frame
  <2>3. records[f.obj] \in Seq([operation : Operations, status : Statuses])
    BY <2>2 DEF TypeOK
  <2>4. Append(records[f.obj], r) \in Seq([operation : Operations, status : Statuses])
    BY <2>2, <2>3
  <2>5. records' = [records EXCEPT ![f.obj] = Append(records[f.obj], r)]
    BY <1>9 DEF RecordAndReply, WithRecord
  <2>6. records' \in [Objs -> Seq([operation : Operations, status : Statuses])]
    BY <2>4, <2>5 DEF TypeOK
  <2> QED
    BY <1>9, <2>6 DEF TypeOK, RecordAndReply, history
<1>10. ASSUME Tick
       PROVE  TypeOK'
  <2>1. clock' \in Nat
    BY <1>10 DEF TypeOK, Tick
  <2> QED
    BY <1>10, <2>1 DEF TypeOK, Tick, history
<1>11. ASSUME UNCHANGED vars
       PROVE  TypeOK'
  BY <1>11 DEF TypeOK, vars, program, history
<1>12. ASSUME NEW th \in Threads, EnterHandler(th)
       PROVE  TypeOK'
  BY <1>12 DEF TypeOK, EnterHandler, history
<1> QED
  BY <1>1, <1>2, <1>3, <1>4, <1>5, <1>6, <1>7, <1>8, <1>9, <1>10, <1>11, <1>12
     DEF Next, Lifecycle, Dispatch

-----------------------------------------------------------------------------
(* The inductive invariant.                                                *)

\* The broker starts with empty tables.
LEMMA InitInv == Init => IInv
<1> SUFFICES ASSUME Init PROVE IInv
  OBVIOUS
<1>1. TypeOK
  BY DEF Init, TypeOK, NoCredentials, NoCalls
<1>2. TablesAgree /\ ObjectsNotShared /\ Minted
  BY DEF Init, TablesAgree, ObjectsNotShared, Minted, Live, NoCalls
<1>3. BillsAreAdmissions /\ QuotaNeverExceeded
  BY DEF Init, BillsAreAdmissions, QuotaNeverExceeded, NoCalls
<1>4. KeysAsGiven /\ FramesMatchPc /\ OwnKeyOnly
  BY DEF Init, KeysAsGiven, FramesMatchPc, OwnKeyOnly, Live
<1> QED
  BY <1>1, <1>2, <1>3, <1>4 DEF IInv

\* open_job: the new object is fresh, so no token, frame or bill refers to it.
LEMMA OpenJobInv ==
  ASSUME IInv, TypeOK', NEW j \in JobIds, NEW o \in Objs, NEW creds \in Credentials,
         OpenJob(j, o, creds)
  PROVE  IInv'
<1> USE DEF IInv
<1>1. ~Live(o) /\ \A t \in Tokens : issuedTo[t] # o
  BY DEF OpenJob, Live, ObjectsNotShared, Minted
<1>2. \A x \in Objs : Live(x)' <=> Live(x) \/ x = o
  BY DEF OpenJob, Live, TypeOK
<1>3. TablesAgree'
  BY <1>1, <1>2 DEF OpenJob, TablesAgree, TypeOK
<1>4. ObjectsNotShared' /\ Minted'
  BY <1>1 DEF OpenJob, ObjectsNotShared, Minted, TypeOK, Live
<1>5. BillsAreAdmissions' /\ QuotaNeverExceeded'
  BY DEF OpenJob, BillsAreAdmissions, QuotaNeverExceeded
<1>6. KeysAsGiven'
  BY <1>2 DEF OpenJob, KeysAsGiven, TypeOK
<1>7. FramesMatchPc' /\ OwnKeyOnly'
  <2>1. \A x \in Objs : x # o => given'[x] = given[x]
    BY DEF OpenJob, TypeOK
  <2>2. \A th \in Threads : frame[th] # Null => frame[th].obj \in Objs /\ frame[th].obj # o
    BY <1>1 DEF OwnKeyOnly, TypeOK, Frame
  <2> QED
    BY <2>1, <2>2 DEF OpenJob, FramesMatchPc, OwnKeyOnly
<1> QED
  BY <1>3, <1>4, <1>5, <1>6, <1>7

\* The body of close_job: exactly the tokens of the closed object leave the
\* index, and every other job keeps its tokens and keys.
LEMMA DoCloseInv ==
  ASSUME IInv, NEW j \in JobIds, jobs[j] # Null, DoClose(j),
         UNCHANGED <<jobId, capability, calls, issuedTo, given, spent>>
  PROVE  TablesAgree' /\ ObjectsNotShared' /\ Minted' /\ KeysAsGiven'
<1> USE DEF IInv
<1> DEFINE o == jobs[j]
<1>1. o \in Objs
  BY DEF TypeOK
<1>2. jobs' = [jobs EXCEPT ![j] = Null]
  BY DEF DoClose
<1>3. \A i \in JobIds : jobs[i] = o => i = j
  BY <1>1 DEF ObjectsNotShared
<1>4. \A x \in Objs : Live(x)' <=> Live(x) /\ x # o
  BY <1>1, <1>2, <1>3 DEF Live, TypeOK
<1>5. \A t \in Tokens : t \in capabilities[o] <=> issuedTo[t] = o
  BY <1>1 DEF TablesAgree, Live
<1>6. \A t \in Tokens : tokens'[t] = IF issuedTo[t] = o THEN Null ELSE tokens[t]
  BY <1>5 DEF DoClose, TokensOnClose
<1>7. \A t \in Tokens, i \in JobIds :
        tokens'[t] = i <=> issuedTo[t] # Null /\ jobs'[i] = issuedTo[t]
  BY <1>1, <1>2, <1>3, <1>6 DEF TablesAgree, TypeOK
<1>8. \A x \in Objs : capabilities'[x] = IF x = o THEN {} ELSE capabilities[x]
  BY <1>1 DEF DoClose, CapabilitiesOnClose, TypeOK
<1>9. \A x \in Objs, t \in Tokens :
        t \in capabilities'[x] <=> issuedTo[t] = x /\ Live(x)'
  BY <1>4, <1>8 DEF TablesAgree
<1>10. TablesAgree'
  BY <1>7, <1>9 DEF TablesAgree
<1>11. ObjectsNotShared' /\ Minted'
  BY <1>2 DEF ObjectsNotShared, Minted, TypeOK
<1>12. KeysAsGiven'
  BY <1>1, <1>4 DEF DoClose, KeysAsGiven, TypeOK
<1> QED
  BY <1>10, <1>11, <1>12

\* close_job changes nothing else that IInv speaks of.
LEMMA CloseJobInv ==
  ASSUME IInv, TypeOK', NEW j \in JobIds, CloseJob(j)
  PROVE  IInv'
<1> USE DEF IInv
<1>1. TablesAgree' /\ ObjectsNotShared' /\ Minted' /\ KeysAsGiven'
  BY DoCloseInv DEF CloseJob
<1>2. BillsAreAdmissions' /\ QuotaNeverExceeded'
  BY DEF CloseJob, BillsAreAdmissions, QuotaNeverExceeded
<1>3. FramesMatchPc' /\ OwnKeyOnly'
  BY DEF CloseJob, FramesMatchPc, OwnKeyOnly
<1> QED
  BY <1>1, <1>2, <1>3

\* close(): its own bookkeeping touches none of the tables; its step is a
\* close_job or nothing.
LEMMA CloseAllInv ==
  ASSUME IInv, TypeOK', NEW th \in Threads,
         CloseAllBegin(th) \/ CloseAllStep(th) \/ CloseAllEnd(th)
  PROVE  IInv'
<1> USE DEF IInv
<1>1. BillsAreAdmissions' /\ QuotaNeverExceeded'
  BY DEF CloseAllBegin, CloseAllStep, CloseAllEnd, BillsAreAdmissions,
         QuotaNeverExceeded
<1>2. FramesMatchPc' /\ OwnKeyOnly'
  BY DEF CloseAllBegin, CloseAllStep, CloseAllEnd, FramesMatchPc, OwnKeyOnly, TypeOK
<1>3. ASSUME UNCHANGED <<jobs, tokens, capabilities, credentials>>,
             UNCHANGED <<jobId, capability, issuedTo, given, spent>>
      PROVE  TablesAgree' /\ ObjectsNotShared' /\ Minted' /\ KeysAsGiven'
  BY <1>3 DEF TablesAgree, ObjectsNotShared, Minted, KeysAsGiven, Live
<1>4. CASE CloseAllBegin(th) \/ CloseAllEnd(th)
  BY <1>1, <1>2, <1>3, <1>4 DEF CloseAllBegin, CloseAllEnd
<1>5. CASE CloseAllStep(th)
  <2>1. PICK j \in todo[th] :
          \/ jobs[j] # Null /\ DoClose(j)
          \/ UNCHANGED <<jobs, tokens, capabilities, credentials, returned>>
    BY <1>5 DEF CloseAllStep
  <2>2. j \in JobIds
    BY DEF TypeOK
  <2>3. UNCHANGED <<jobId, capability, calls, issuedTo, given, spent>>
    BY <1>5 DEF CloseAllStep
  <2>4. TablesAgree' /\ ObjectsNotShared' /\ Minted' /\ KeysAsGiven'
    BY <1>3, <2>1, <2>2, <2>3, DoCloseInv
  <2> QED
    BY <1>1, <1>2, <2>4
<1> QED
  BY <1>4, <1>5

\* issue: a fresh token, indexed to the object that is live under the job id.
LEMMA IssueInv ==
  ASSUME IInv, TypeOK', NEW j \in JobIds, NEW t \in Tokens, NEW role \in ROLES,
         Issue(j, t, role)
  PROVE  IInv'
<1> USE DEF IInv
<1>1. jobs[j] \in Objs /\ Live(jobs[j])
  BY DEF Issue, TypeOK, Live
<1>2. issuedTo[t] = Null /\ \A op \in Operations : spent[<<t, op>>] = 0
  BY DEF Issue, Minted
<1>3. \A i \in JobIds : jobs[i] = jobs[j] => i = j
  BY <1>1 DEF ObjectsNotShared
<1>4. \A x \in Objs : Live(x)' <=> Live(x)
  BY DEF Issue, Live
<1>5. issuedTo' = [issuedTo EXCEPT ![t] = jobs[j]] /\ tokens' = [tokens EXCEPT ![t] = j]
      /\ capabilities' = [capabilities EXCEPT ![jobs[j]] = @ \cup {t}]
  BY DEF Issue
<1>6. TablesAgree'
  <2>1. \A u \in Tokens, i \in JobIds :
          tokens'[u] = i <=> issuedTo'[u] # Null /\ jobs'[i] = issuedTo'[u]
    BY <1>1, <1>3, <1>5 DEF TablesAgree, TypeOK, Issue
  <2>2. \A x \in Objs, u \in Tokens :
          u \in capabilities'[x] <=> issuedTo'[u] = x /\ Live(x)'
    BY <1>1, <1>2, <1>4, <1>5 DEF TablesAgree, TypeOK
  <2> QED
    BY <2>1, <2>2 DEF TablesAgree
<1>7. ObjectsNotShared' /\ KeysAsGiven'
  BY <1>4 DEF Issue, ObjectsNotShared, KeysAsGiven
<1>8. Minted'
  <2>1. capability'[t] # Null
    <3> DEFINE c == [job_id |-> j, role |-> role, expires_at |-> ExpiresAt]
    <3>1. capability'[t] = c
      BY DEF Issue, TypeOK
    <3>2. c \in Capability
      BY DEF Capability, ExpiresAt, TypeOK
    <3> QED
      BY <3>1, <3>2
  <2>2. \A u \in Tokens : u # t => capability'[u] = capability[u] /\ issuedTo'[u] = issuedTo[u]
    BY <1>5 DEF Issue, TypeOK
  <2>3. issuedTo'[t] = jobs[j] /\ jobs[j] # Null /\ jobId[jobs[j]] # Null
    BY <1>1, <1>5 DEF TypeOK, ObjectsNotShared
  <2> QED
    BY <2>1, <2>2, <2>3 DEF Issue, Minted
<1>9. BillsAreAdmissions' /\ QuotaNeverExceeded'
  BY <1>1, <1>2, <1>5 DEF Issue, BillsAreAdmissions, QuotaNeverExceeded, TypeOK
<1>10. FramesMatchPc' /\ OwnKeyOnly'
  <2>1. \A u \in Tokens : u # t => capability'[u] = capability[u] /\ issuedTo'[u] = issuedTo[u]
    BY DEF Issue, TypeOK
  <2>2. \A th \in Threads : frame[th] # Null => frame[th].token \in Tokens /\ frame[th].obj \in Objs
    BY DEF TypeOK, Frame
  <2>3. \A th \in Threads : frame[th] # Null => frame[th].token # t
    BY <1>2, <2>2 DEF OwnKeyOnly
  <2> QED
    BY <2>1, <2>2, <2>3 DEF Issue, FramesMatchPc, OwnKeyOnly
<1> QED
  BY <1>6, <1>7, <1>8, <1>9, <1>10

\* What DeadTokenStaysDead asks of a token that is admitted and billed.
Alive(t) == /\ issuedTo[t] # Null
            /\ Live(issuedTo[t])
            /\ clock <= capability[t].expires_at

\* _authorize returns the live object the token was minted for.
LEMMA AuthorizeFacts ==
  ASSUME IInv, NEW o \in Objs, NEW t \in Tokens, o \in Authorize(t)
  PROVE  issuedTo[t] = o /\ Live(o) /\ Alive(t)
<1>1. t \in capabilities[o]
  BY DEF Authorize
<1>2. issuedTo[t] = o /\ Live(o)
  BY <1>1 DEF IInv, TablesAgree
<1> QED
  BY <1>2 DEF Authorize, Alive

\* The only token with one more admission is the one presented, and it is alive.
LEMMA AdmitSpendsAlive ==
  ASSUME IInv, NEW th \in Threads, NEW o \in Objs, NEW t \in Tokens,
         NEW op \in Operations, NEW h \in BOOLEAN, NEW d \in BOOLEAN,
         DispatchAdmit(th, o, t, op, h, d)
  PROVE  \A u \in Tokens, p \in Operations :
           spent'[<<u, p>>] # spent[<<u, p>>] => Alive(u)
<1>1. Alive(t)
  BY AuthorizeFacts DEF DispatchAdmit, Admissible
<1>2. spent' = [spent EXCEPT ![<<t, op>>] = @ + 1]
  BY DEF DispatchAdmit
<1>3. \A k \in Tokens \X Operations : k # <<t, op>> => spent'[k] = spent[k]
  BY <1>2 DEF IInv, TypeOK
<1> QED
  BY <1>1, <1>3

\* Admission bills below the ceiling and copies the key of the live job.
LEMMA DispatchAdmitInv ==
  ASSUME IInv, TypeOK', NEW th \in Threads, NEW o \in Objs, NEW t \in Tokens,
         NEW op \in Operations, NEW h \in BOOLEAN, NEW d \in BOOLEAN,
         DispatchAdmit(th, o, t, op, h, d)
  PROVE  IInv'
<1> USE DEF IInv
<1> DEFINE f == [obj |-> o, token |-> t, op |-> op, key |-> KeyFor(o, op),
                 status |-> Null]
<1>1. /\ issuedTo[t] = o /\ Live(o)
      /\ OpSpec[op].role = capability[t].role
      /\ calls[o][<<t, op>>] < OpSpec[op].max_calls
      /\ KeyFor(o, op) \in Keys
  <2>1. issuedTo[t] = o /\ Live(o)
    BY AuthorizeFacts DEF DispatchAdmit, Admissible
  <2>2. KeyFor(o, op) \in Keys
    BY DEF DispatchAdmit, Admissible, KeyFor, TypeOK
  <2> QED
    BY <2>1, <2>2 DEF DispatchAdmit, Admissible, MayInvoke, UnderQuota
<1>2. TablesAgree' /\ ObjectsNotShared' /\ KeysAsGiven'
  BY DEF DispatchAdmit, TablesAgree, ObjectsNotShared, KeysAsGiven, Live
<1>3. calls' = [calls EXCEPT ![o] = [calls[o] EXCEPT ![<<t, op>>] = @ + 1]]
      /\ spent' = [spent EXCEPT ![<<t, op>>] = @ + 1]
  BY DEF DispatchAdmit, Bill
<1>4. Minted'
  BY <1>1, <1>3 DEF DispatchAdmit, Minted, TypeOK
<1>5. BillsAreAdmissions'
  <2> SUFFICES ASSUME NEW x \in Objs, NEW u \in Tokens, NEW p \in Operations
               PROVE  calls'[x][<<u, p>>]
                        = IF issuedTo'[u] = x THEN spent'[<<u, p>>] ELSE 0
    BY DEF BillsAreAdmissions
  <2>1. calls[x][<<u, p>>] = IF issuedTo[u] = x THEN spent[<<u, p>>] ELSE 0
    BY DEF BillsAreAdmissions
  <2>2. issuedTo' = issuedTo
    BY DEF DispatchAdmit
  <2>3. CASE u = t /\ p = op
    BY <1>1, <1>3, <2>1, <2>2, <2>3 DEF TypeOK
  <2>4. CASE ~(u = t /\ p = op)
    BY <1>3, <2>1, <2>2, <2>4 DEF TypeOK
  <2> QED
    BY <2>3, <2>4
<1>6. QuotaNeverExceeded'
  <2>1. spent[<<t, op>>] < OpSpec[op].max_calls
    BY <1>1 DEF BillsAreAdmissions
  <2>2. OpSpec[op].max_calls \in Nat /\ spent[<<t, op>>] \in Nat
    BY DEF TypeOK
  <2>3. spent'[<<t, op>>] = spent[<<t, op>>] + 1
    BY <1>3 DEF TypeOK
  <2>4. \A k \in Tokens \X Operations : k # <<t, op>> => spent'[k] = spent[k]
    BY <1>3 DEF TypeOK
  <2>5. spent'[<<t, op>>] <= OpSpec[op].max_calls
    BY <2>1, <2>2, <2>3
  <2> SUFFICES ASSUME NEW u \in Tokens, NEW p \in Operations
               PROVE  spent'[<<u, p>>] <= OpSpec[p].max_calls
    BY DEF QuotaNeverExceeded
  <2>6. CASE <<u, p>> = <<t, op>>
    BY <2>5, <2>6
  <2>7. CASE <<u, p>> # <<t, op>>
    BY <2>4, <2>7 DEF QuotaNeverExceeded
  <2> QED
    BY <2>6, <2>7
<1>7. f \in Frame
  BY <1>1 DEF Frame
<1>8. frame' = [frame EXCEPT ![th] = f] /\ pc' = [pc EXCEPT ![th] = "admitted"]
  BY DEF DispatchAdmit
<1>9. FramesMatchPc'
  BY <1>7, <1>8 DEF FramesMatchPc, TypeOK
<1>10. OwnKeyOnly'
  <2>1. f.key = given[o][OpSpec[op].provider]
    BY <1>1 DEF KeyFor, KeysAsGiven
  <2>2. UNCHANGED <<issuedTo, given, capability>>
    BY DEF DispatchAdmit
  <2> QED
    BY <1>1, <1>8, <2>1, <2>2 DEF OwnKeyOnly, TypeOK
<1> QED
  BY <1>2, <1>4, <1>5, <1>6, <1>9, <1>10

\* The steps that leave the tables alone: only frames, records or the clock.
LEMMA QuietInv ==
  ASSUME IInv, TypeOK',
         \/ \E th \in Threads :
              EnterHandler(th) \/ HandlerReturn(th) \/ RecordAndReply(th)
         \/ Tick
         \/ UNCHANGED vars
  PROVE  IInv'
<1> USE DEF IInv
<1>1. UNCHANGED <<jobs, tokens, jobId, credentials, capabilities, capability,
                  calls, issuedTo, given, spent>>
  BY DEF EnterHandler, HandlerReturn, RecordAndReply, Tick, vars, program, history
<1>2. TablesAgree' /\ ObjectsNotShared' /\ Minted' /\ KeysAsGiven'
  BY <1>1 DEF TablesAgree, ObjectsNotShared, Minted, KeysAsGiven, Live
<1>3. BillsAreAdmissions' /\ QuotaNeverExceeded'
  BY <1>1 DEF BillsAreAdmissions, QuotaNeverExceeded
<1>4. FramesMatchPc' /\ OwnKeyOnly'
  <2>1. ASSUME NEW th \in Threads, HandlerReturn(th)
        PROVE  FramesMatchPc' /\ OwnKeyOnly'
    <3>1. frame[th] \in Frame
      BY <2>1 DEF HandlerReturn, FramesMatchPc, TypeOK
    <3>2. PICK st \in Statuses : frame' = [frame EXCEPT ![th] = [frame[th] EXCEPT !.status = st]]
      BY <2>1 DEF HandlerReturn
    <3> DEFINE g == [frame[th] EXCEPT !.status = st]
    <3>3. g \in Frame /\ g.status # Null
      BY <3>1 DEF Frame
    <3>4. g.obj = frame[th].obj /\ g.token = frame[th].token /\ g.op = frame[th].op
          /\ g.key = frame[th].key
      BY <3>1 DEF Frame
    <3>5. pc' = [pc EXCEPT ![th] = "record"]
      BY <2>1 DEF HandlerReturn
    <3>6. \A x \in Threads : frame'[x] = IF x = th THEN g ELSE frame[x]
      BY <3>2 DEF TypeOK
    <3>7. FramesMatchPc'
      BY <3>3, <3>5, <3>6 DEF FramesMatchPc, TypeOK
    <3>8. OwnKeyOnly'
      <4> SUFFICES ASSUME NEW x \in Threads, frame'[x] # Null
                   PROVE  /\ issuedTo[frame'[x].token] = frame'[x].obj
                          /\ frame'[x].key = given[frame'[x].obj][OpSpec[frame'[x].op].provider]
                          /\ OpSpec[frame'[x].op].role = capability[frame'[x].token].role
        BY <1>1 DEF OwnKeyOnly
      <4>1. frame[th] # Null
        BY <3>1
      <4>2. CASE x = th
        <5>1. frame'[x] = g
          BY <3>6, <4>2
        <5> HIDE DEF g
        <5> QED
          BY <3>4, <4>1, <5>1 DEF OwnKeyOnly
      <4>3. CASE x # th
        BY <3>6, <4>3 DEF OwnKeyOnly
      <4> QED
        BY <4>2, <4>3
    <3> QED
      BY <3>7, <3>8
  <2>2. ASSUME NEW th \in Threads, RecordAndReply(th)
        PROVE  FramesMatchPc' /\ OwnKeyOnly'
    <3>1. /\ frame' = [frame EXCEPT ![th] = Null]
          /\ pc' = [pc EXCEPT ![th] = "idle"]
          /\ UNCHANGED <<issuedTo, given, capability>>
      BY <2>2 DEF RecordAndReply, history
    <3>2. FramesMatchPc'
      BY <3>1 DEF FramesMatchPc, TypeOK
    <3>3. \A x \in Threads : frame'[x] # Null => frame'[x] = frame[x]
      BY <3>1 DEF TypeOK
    <3>4. OwnKeyOnly'
      BY <1>1, <3>1, <3>3 DEF OwnKeyOnly
    <3> QED
      BY <3>2, <3>4
  <2>3. ASSUME Tick \/ UNCHANGED vars
        PROVE  FramesMatchPc' /\ OwnKeyOnly'
    BY <1>1, <2>3 DEF Tick, vars, program, FramesMatchPc, OwnKeyOnly
  <2>4. ASSUME NEW th \in Threads, EnterHandler(th)
        PROVE  FramesMatchPc' /\ OwnKeyOnly'
    <3>1. /\ pc[th] = "admitted" /\ pc' = [pc EXCEPT ![th] = "handler"]
          /\ frame' = frame
      BY <2>4 DEF EnterHandler
    <3>2. FramesMatchPc'
      BY <3>1 DEF FramesMatchPc, TypeOK
    <3>3. OwnKeyOnly'
      BY <1>1, <3>1 DEF OwnKeyOnly
    <3> QED
      BY <3>2, <3>3
  <2> QED
    BY <2>1, <2>2, <2>3, <2>4
<1> QED
  BY <1>2, <1>3, <1>4

\* Every step of the broker preserves IInv.
LEMMA StepInv ==
  ASSUME IInv, [Next]_vars
  PROVE  IInv'
<1>1. TypeOK'
  BY TypeStep DEF IInv
<1> QED
  BY <1>1, OpenJobInv, CloseJobInv, CloseAllInv, IssueInv, DispatchAdmitInv, QuietInv
     DEF Next, Lifecycle, Dispatch

-----------------------------------------------------------------------------
(* The theorems.                                                           *)

\* The inductive invariant holds in every reachable state.
THEOREM Invariance == Spec => []IInv
<1>1. Init => IInv
  BY InitInv
<1>2. IInv /\ [Next]_vars => IInv'
  BY StepInv
<1> QED
  BY <1>1, <1>2, PTL DEF Spec

\* Every variable of the broker keeps its type.
THEOREM TypeCorrect == Spec => []TypeOK
<1>1. IInv => TypeOK
  BY DEF IInv
<1> QED
  BY <1>1, Invariance, PTL

\* The token index, the job table and the capabilities of each job always
\* agree.
THEOREM TablesStayConsistent == Spec => []TablesAgree
<1>1. IInv => TablesAgree
  BY DEF IInv
<1> QED
  BY <1>1, Invariance, PTL

\* No interleaving of dispatches drives a capability past its ceiling.
THEOREM QuotaHolds == Spec => []QuotaNeverExceeded
<1>1. IInv => QuotaNeverExceeded
  BY DEF IInv
<1> QED
  BY <1>1, Invariance, PTL

\* A call in flight holds the key of the job its token was minted for.
THEOREM KeysNeverCross == Spec => []OwnKeyOnly
<1>1. IInv => OwnKeyOnly
  BY DEF IInv
<1> QED
  BY <1>1, Invariance, PTL

\* No dispatch is admitted and billed once the token's job object is closed or its
\* time is over.
THEOREM DeadTokens == Spec => DeadTokenStaysDead
<1> DEFINE A == \A t \in Tokens, op \in Operations :
                  spent'[<<t, op>>] # spent[<<t, op>>] => Alive(t)
<1>1. ASSUME IInv, Next PROVE A
  <2>1. ASSUME NEW th \in Threads, NEW o \in Objs, NEW t \in Tokens,
               NEW op \in Operations, NEW h \in BOOLEAN, NEW d \in BOOLEAN,
               DispatchAdmit(th, o, t, op, h, d)
        PROVE  A
    BY <1>1, <2>1, AdmitSpendsAlive
  <2>2. CASE UNCHANGED spent
    BY <2>2
  <2>3. UNCHANGED spent \/ \E th \in Threads, o \in Objs, t \in Tokens,
          op \in Operations, over_http, payload_ok \in BOOLEAN :
            DispatchAdmit(th, o, t, op, over_http, payload_ok)
    BY <1>1 DEF Next, Lifecycle, Dispatch, OpenJob, CloseJob, CloseAllBegin,
       CloseAllStep, CloseAllEnd, Issue, EnterHandler, HandlerReturn,
       RecordAndReply, Tick, history
  <2> QED
    BY <2>1, <2>2, <2>3
<1>2. IInv /\ [Next]_vars => [A]_vars
  BY <1>1
<1> QED
  BY <1>2, Invariance, PTL DEF Spec, DeadTokenStaysDead, Alive

-----------------------------------------------------------------------------
(* The quota view.                                                         *)

\* A capability was only ever admitted to operations of its own role.
SpentInRole ==
  \A t \in Tokens, op \in Operations :
    spent[<<t, op>>] # 0 => OpSpec[op].role = capability[t].role

\* Admission compares the roles; a capability, once minted, is never changed.
LEMMA SpentInRoleStep == IInv /\ SpentInRole /\ [Next]_vars => SpentInRole'
<1> SUFFICES ASSUME IInv, SpentInRole, [Next]_vars PROVE SpentInRole'
  OBVIOUS
<1>1. ASSUME NEW th \in Threads, NEW o \in Objs, NEW t \in Tokens,
             NEW op \in Operations, NEW h \in BOOLEAN, NEW d \in BOOLEAN,
             DispatchAdmit(th, o, t, op, h, d)
      PROVE  SpentInRole'
  <2>1. OpSpec[op].role = capability[t].role
    BY <1>1 DEF DispatchAdmit, Admissible, MayInvoke
  <2>2. \A k \in Tokens \X Operations : k # <<t, op>> => spent'[k] = spent[k]
    BY <1>1 DEF DispatchAdmit, IInv, TypeOK
  <2>3. capability' = capability
    BY <1>1 DEF DispatchAdmit
  <2> QED
    BY <2>1, <2>2, <2>3 DEF SpentInRole
<1>2. ASSUME NEW j \in JobIds, NEW t \in Tokens, NEW role \in ROLES,
             Issue(j, t, role)
      PROVE  SpentInRole'
  <2>1. \A op \in Operations : spent[<<t, op>>] = 0
    BY <1>2 DEF Issue, IInv, Minted
  <2>2. \A u \in Tokens : u # t => capability'[u] = capability[u]
    BY <1>2 DEF Issue, IInv, TypeOK
  <2>3. spent' = spent
    BY <1>2 DEF Issue
  <2> QED
    BY <2>1, <2>2, <2>3 DEF SpentInRole
<1>3. CASE UNCHANGED <<spent, capability>>
  BY <1>3 DEF SpentInRole
<1>4. \/ UNCHANGED <<spent, capability>>
      \/ \E j \in JobIds, t \in Tokens, role \in ROLES : Issue(j, t, role)
      \/ \E th \in Threads, o \in Objs, t \in Tokens, op \in Operations,
            over_http, payload_ok \in BOOLEAN :
           DispatchAdmit(th, o, t, op, over_http, payload_ok)
  BY DEF Next, Lifecycle, Dispatch, OpenJob, CloseJob, CloseAllBegin,
     CloseAllStep, CloseAllEnd, EnterHandler, HandlerReturn, RecordAndReply,
     Tick, history, vars, program
<1> QED
  BY <1>1, <1>2, <1>3, <1>4

\* What quota tells a live capability is the number of its admitted dispatches.
THEOREM QuotaViewHolds == Spec => []QuotaViewIsTruthful
<1>1. Init => SpentInRole
  BY DEF Init, SpentInRole, NoCalls
<1>2. IInv /\ SpentInRole => QuotaViewIsTruthful
  <2> SUFFICES ASSUME IInv, SpentInRole, NEW t \in Tokens, NEW o \in Objs,
                      o \in Authorize(t), NEW op \in Operations
               PROVE  IF op \in DOMAIN QuotaView(o, t)
                        THEN /\ QuotaView(o, t)[op].used = spent[<<t, op>>]
                             /\ QuotaView(o, t)[op].used + QuotaView(o, t)[op].remaining
                                  = OpSpec[op].max_calls
                        ELSE spent[<<t, op>>] = 0
    BY DEF QuotaViewIsTruthful
  <2>1. issuedTo[t] = o
    BY AuthorizeFacts
  <2>2. calls[o][<<t, op>>] = spent[<<t, op>>]
    BY <2>1 DEF IInv, BillsAreAdmissions
  <2>3. spent[<<t, op>>] \in Nat /\ spent[<<t, op>>] <= OpSpec[op].max_calls
    BY DEF IInv, TypeOK, QuotaNeverExceeded
  <2>4. OpSpec[op].max_calls \in Nat
    OBVIOUS
  <2>5. CASE OpSpec[op].role = capability[t].role
    <3>1. op \in DOMAIN QuotaView(o, t)
      BY <2>5 DEF QuotaView
    <3>2. /\ QuotaView(o, t)[op].used = calls[o][<<t, op>>]
          /\ QuotaView(o, t)[op].remaining =
               IF OpSpec[op].max_calls > calls[o][<<t, op>>]
                 THEN OpSpec[op].max_calls - calls[o][<<t, op>>] ELSE 0
      BY <2>5 DEF QuotaView
    <3> QED
      BY <3>1, <3>2, <2>2, <2>3, <2>4
  <2>6. CASE OpSpec[op].role # capability[t].role
    <3>1. op \notin DOMAIN QuotaView(o, t)
      BY <2>6 DEF QuotaView
    <3> QED
      BY <3>1, <2>6 DEF SpentInRole
  <2> QED
    BY <2>5, <2>6
<1> QED
  BY <1>1, <1>2, SpentInRoleStep, Invariance, PTL DEF Spec

-----------------------------------------------------------------------------
(* Bills, records and calls in flight.                                     *)

\* The bills, the records and the calls in flight of an operation in a job
\* object are finitely many, and balance.
Balanced(o, op) ==
  /\ IsFiniteSet(BillsOf(o, op)) /\ IsFiniteSet(RecordsOf(o, op))
  /\ IsFiniteSet(InFlight(o, op))
  /\ Cardinality(BillsOf(o, op))
       = Cardinality(RecordsOf(o, op)) + Cardinality(InFlight(o, op))

AllBalanced == \A o \in Objs, op \in Operations : Balanced(o, op)

\* What is balanced depends on nothing but the three sets.
LEMMA BalanceIsKept ==
  ASSUME AllBalanced, NEW o \in Objs, NEW op \in Operations,
         BillsOf(o, op)' = BillsOf(o, op), RecordsOf(o, op)' = RecordsOf(o, op),
         InFlight(o, op)' = InFlight(o, op)
  PROVE  Balanced(o, op)'
BY DEF AllBalanced, Balanced

LEMMA BalanceInit == Init => AllBalanced
<1> SUFFICES ASSUME Init, NEW o \in Objs, NEW op \in Operations PROVE Balanced(o, op)
  BY DEF AllBalanced
<1>1. BillsOf(o, op) = {}
  <2>1. \A t \in Tokens : calls[o][<<t, op>>] = 0
    BY DEF Init, NoCalls
  <2>2. \A t \in Tokens : {t} \X (1..calls[o][<<t, op>>]) = {}
    BY <2>1
  <2> QED BY <2>2 DEF BillsOf
<1>2. RecordsOf(o, op) = {}
  BY DEF Init, RecordsOf
<1>3. InFlight(o, op) = {}
  BY DEF Init, InFlight
<1> QED BY <1>1, <1>2, <1>3, FS_EmptySet DEF Balanced

\* A set that gains or loses one element.
LEMMA OneMore ==
  ASSUME NEW S, NEW T, NEW x, IsFiniteSet(S), x \notin S, T = S \cup {x}
  PROVE  IsFiniteSet(T) /\ Cardinality(T) = Cardinality(S) + 1
BY FS_AddElement

LEMMA OneLess ==
  ASSUME NEW S, NEW T, NEW x, IsFiniteSet(S), x \in S, T = S \ {x}
  PROVE  IsFiniteSet(T) /\ Cardinality(T) = Cardinality(S) - 1
BY FS_RemoveElement

\* The bills made up of a table of counts c.
Bills(c, op) == UNION {{u} \X (1..c[<<u, op>>]) : u \in Tokens}

\* A bill is a token and a number up to the token's count.
LEMMA BillsMember ==
  ASSUME NEW c, NEW op, NEW b
  PROVE  b \in Bills(c, op) <=>
           \E u \in Tokens : \E i \in Int : b = <<u, i>> /\ i \in 1..c[<<u, op>>]
<1>1. ASSUME b \in Bills(c, op)
      PROVE  \E u \in Tokens : \E i \in Int : b = <<u, i>> /\ i \in 1..c[<<u, op>>]
  <2>1. PICK u \in Tokens : b \in {u} \X (1..c[<<u, op>>])
    BY <1>1 DEF Bills
  <2>2. b = <<u, b[2]>> /\ b[2] \in 1..c[<<u, op>>]
    BY <2>1
  <2> QED BY <2>2
<1>2. ASSUME NEW u \in Tokens, NEW i \in Int, b = <<u, i>>, i \in 1..c[<<u, op>>]
      PROVE  b \in Bills(c, op)
  <2>1. b \in {u} \X (1..c[<<u, op>>])
    BY <1>2
  <2> QED BY <2>1 DEF Bills
<1> QED BY <1>1, <1>2

\* Admission adds one bill and one call in flight.
LEMMA AdmitBalance ==
  ASSUME IInv, AllBalanced, NEW th \in Threads, NEW o \in Objs, NEW t \in Tokens,
         NEW op \in Operations, NEW h \in BOOLEAN, NEW d \in BOOLEAN,
         DispatchAdmit(th, o, t, op, h, d)
  PROVE  AllBalanced'
<1> DEFINE n == calls[o][<<t, op>>]
<1>1. /\ calls \in [Objs -> [Tokens \X Operations -> Nat]]
      /\ frame \in [Threads -> Frame \cup {Null}]
      /\ n \in Nat
  <2>1. calls \in [Objs -> [Tokens \X Operations -> Nat]]
    BY DEF IInv, TypeOK
  <2>2. <<t, op>> \in Tokens \X Operations
    OBVIOUS
  <2>3. calls[o] \in [Tokens \X Operations -> Nat]
    BY <2>1
  <2>4. n \in Nat
    BY <2>2, <2>3
  <2> QED BY <2>1, <2>4 DEF IInv, TypeOK
<1>2. /\ calls' = [calls EXCEPT ![o][<<t, op>>] = @ + 1]
      /\ records' = records
      /\ frame[th] = Null
  BY DEF DispatchAdmit, Bill, IInv, FramesMatchPc
<1>3. /\ frame'[th] # Null /\ frame'[th].obj = o /\ frame'[th].op = op
      /\ \A x \in Threads \ {th} : frame'[x] = frame[x]
  <2> DEFINE f == [obj |-> o, token |-> t, op |-> op, key |-> KeyFor(o, op),
                   status |-> Null]
  <2>1. frame' = [frame EXCEPT ![th] = f]
    BY DEF DispatchAdmit
  <2>2. f \in Frame
    BY DEF DispatchAdmit, Admissible, KeyFor, IInv, TypeOK, Frame
  <2> QED BY <1>1, <2>1, <2>2
<1>4. ASSUME NEW p \in Objs, NEW q \in Operations
      PROVE  Balanced(p, q)'
  <2>1. RecordsOf(p, q)' = RecordsOf(p, q)
    BY <1>2 DEF RecordsOf
  <2>2. CASE p = o /\ q = op
    <3>1. InFlight(o, op)' = InFlight(o, op) \cup {th} /\ th \notin InFlight(o, op)
      BY <1>2, <1>3 DEF InFlight
    <3>2. \A u \in Tokens : calls'[o][<<u, op>>] = IF u = t THEN n + 1
                                                  ELSE calls[o][<<u, op>>]
      BY <1>1, <1>2
    <3>3. \A u \in Tokens, i \in Int :
            i \in 1..calls'[o][<<u, op>>] <=>
              i \in 1..calls[o][<<u, op>>] \/ (u = t /\ i = n + 1)
      <4> SUFFICES ASSUME NEW u \in Tokens, NEW i \in Int
                   PROVE  i \in 1..calls'[o][<<u, op>>] <=>
                            i \in 1..calls[o][<<u, op>>] \/ (u = t /\ i = n + 1)
        OBVIOUS
      <4>1. CASE u = t
        <5>1. i \in 1..(n + 1) <=> i \in 1..n \/ i = n + 1
          <6>1. n \in Nat
            BY <1>1
          <6> HIDE DEF n
          <6> QED BY <6>1
        <5> QED BY <3>2, <4>1, <5>1
      <4>2. CASE u # t
        BY <3>2, <4>2
      <4> QED BY <4>1, <4>2
    <3>4. /\ BillsOf(o, op)' = BillsOf(o, op) \cup {<<t, n + 1>>}
          /\ <<t, n + 1>> \notin BillsOf(o, op)
      <4> DEFINE before == calls[o]
                 after  == calls'[o]
      <4>1. BillsOf(o, op) = Bills(before, op) /\ BillsOf(o, op)' = Bills(after, op)
        BY DEF BillsOf, Bills
      <4>2. \A u \in Tokens, i \in Int :
              i \in 1..after[<<u, op>>] <=>
                i \in 1..before[<<u, op>>] \/ (u = t /\ i = n + 1)
        BY <3>3
      <4>3. before[<<t, op>>] = n /\ n \in Nat
        BY <1>1
      <4> HIDE DEF before, after, n
      <4>4. n + 1 \in Int /\ n + 1 \notin 1..n
        BY <4>3
      <4>5. <<t, n + 1>> \notin Bills(before, op)
        <5> SUFFICES ASSUME NEW u \in Tokens, NEW i \in Int, <<t, n + 1>> = <<u, i>>,
                            i \in 1..before[<<u, op>>]
                     PROVE  FALSE
          BY BillsMember
        <5>1. u = t /\ i = n + 1
          OBVIOUS
        <5> QED BY <4>3, <4>4, <5>1
      <4>6. ASSUME NEW b \in Bills(after, op)
            PROVE  b \in Bills(before, op) \/ b = <<t, n + 1>>
        <5>1. PICK u \in Tokens : \E i \in Int : b = <<u, i>> /\ i \in 1..after[<<u, op>>]
          BY <4>6, BillsMember
        <5>2. PICK i \in Int : b = <<u, i>> /\ i \in 1..after[<<u, op>>]
          BY <5>1
        <5>3. i \in 1..before[<<u, op>>] \/ (u = t /\ i = n + 1)
          BY <4>2, <5>2
        <5> QED BY <5>2, <5>3, BillsMember
      <4>7. <<t, n + 1>> \in Bills(after, op)
        <5>1. n + 1 \in 1..after[<<t, op>>]
          BY <4>2, <4>4
        <5> QED BY <4>4, <5>1, BillsMember
      <4>8. ASSUME NEW b \in Bills(before, op)
            PROVE  b \in Bills(after, op)
        <5>1. PICK u \in Tokens : \E i \in Int : b = <<u, i>> /\ i \in 1..before[<<u, op>>]
          BY <4>8, BillsMember
        <5>2. PICK i \in Int : b = <<u, i>> /\ i \in 1..before[<<u, op>>]
          BY <5>1
        <5>3. i \in 1..after[<<u, op>>]
          BY <4>2, <5>2
        <5> QED BY <5>2, <5>3, BillsMember
      <4> QED BY <4>1, <4>5, <4>6, <4>7, <4>8
    <3>5. Balanced(o, op)
      BY DEF AllBalanced
    <3>6. /\ IsFiniteSet(BillsOf(o, op)')
          /\ Cardinality(BillsOf(o, op)') = Cardinality(BillsOf(o, op)) + 1
      <4> DEFINE S == BillsOf(o, op)
                 T == BillsOf(o, op)'
                 x == <<t, n + 1>>
      <4>1. IsFiniteSet(S)
        BY <3>5 DEF Balanced
      <4>2. x \notin S /\ T = S \cup {x}
        BY <3>4
      <4> HIDE DEF S, T, x
      <4>3. IsFiniteSet(T) /\ Cardinality(T) = Cardinality(S) + 1
        BY <4>1, <4>2, OneMore
      <4> QED BY <4>3 DEF S, T
    <3>7. /\ IsFiniteSet(InFlight(o, op)')
          /\ Cardinality(InFlight(o, op)') = Cardinality(InFlight(o, op)) + 1
      <4>1. IsFiniteSet(InFlight(o, op))
        BY <3>5 DEF Balanced
      <4> QED BY <3>1, <4>1, OneMore
    <3>8. Cardinality(RecordsOf(o, op)) \in Nat /\ Cardinality(InFlight(o, op)) \in Nat
      BY <3>5, FS_CardinalityType DEF Balanced
    <3> QED BY <2>1, <2>2, <3>5, <3>6, <3>7, <3>8 DEF Balanced
  <2>3. CASE p # o \/ q # op
    <3>1. \A u \in Tokens : calls'[p][<<u, q>>] = calls[p][<<u, q>>]
      BY <1>1, <1>2, <2>3
    <3>2. BillsOf(p, q)' = BillsOf(p, q)
      BY <3>1 DEF BillsOf
    <3>3. InFlight(p, q)' = InFlight(p, q)
      BY <1>2, <1>3, <2>3 DEF InFlight
    <3> QED BY <2>1, <3>2, <3>3, BalanceIsKept
  <2> QED BY <2>2, <2>3
<1> QED BY <1>4 DEF AllBalanced

\* Recording turns one call in flight into a record.
LEMMA RecordBalance ==
  ASSUME IInv, AllBalanced, NEW th \in Threads, RecordAndReply(th)
  PROVE  AllBalanced'
<1>1. /\ frame \in [Threads -> Frame \cup {Null}] /\ frame[th] # Null
      /\ records \in [Objs -> Seq([operation : Operations, status : Statuses])]
      /\ frame[th].status # Null
  BY DEF RecordAndReply, IInv, TypeOK, FramesMatchPc
<1>2. PICK o \in Objs, op \in Operations, st \in Statuses :
        frame[th].obj = o /\ frame[th].op = op /\ frame[th].status = st
  BY <1>1 DEF Frame
<1> DEFINE n == Len(records[o])
<1>3. /\ calls' = calls
      /\ records' = [records EXCEPT ![o] = Append(records[o],
                                             [operation |-> op, status |-> st])]
      /\ frame' = [frame EXCEPT ![th] = Null]
  BY <1>2 DEF RecordAndReply, WithRecord
<1>4. frame'[th] = Null /\ \A x \in Threads \ {th} : frame'[x] = frame[x]
  BY <1>1, <1>3
<1>5. /\ n \in Nat /\ DOMAIN records[o] = 1..n /\ DOMAIN records'[o] = 1..(n + 1)
      /\ \A i \in 1..n : records'[o][i] = records[o][i]
      /\ records'[o][n + 1].operation = op
      /\ \A p \in Objs \ {o} : records'[p] = records[p]
  BY <1>1, <1>2, <1>3
<1> HIDE DEF n
<1>6. ASSUME NEW p \in Objs, NEW q \in Operations
      PROVE  Balanced(p, q)'
  <2>1. BillsOf(p, q)' = BillsOf(p, q)
    BY <1>3 DEF BillsOf
  <2>2. CASE p = o /\ q = op
    <3>1. InFlight(o, op)' = InFlight(o, op) \ {th} /\ th \in InFlight(o, op)
      BY <1>1, <1>2, <1>4 DEF InFlight
    <3>2. RecordsOf(o, op)' = RecordsOf(o, op) \cup {n + 1} /\ n + 1 \notin RecordsOf(o, op)
      <4>1. n + 1 \notin 1..n /\ 1..(n + 1) = 1..n \cup {n + 1}
        BY <1>5
      <4> QED BY <1>5, <4>1 DEF RecordsOf
    <3>3. Balanced(o, op)
      BY DEF AllBalanced
    <3>4. /\ IsFiniteSet(RecordsOf(o, op)')
          /\ Cardinality(RecordsOf(o, op)') = Cardinality(RecordsOf(o, op)) + 1
      <4>1. IsFiniteSet(RecordsOf(o, op))
        BY <3>3 DEF Balanced
      <4> QED BY <3>2, <4>1, OneMore
    <3>5. /\ IsFiniteSet(InFlight(o, op)')
          /\ Cardinality(InFlight(o, op)') = Cardinality(InFlight(o, op)) - 1
      <4>1. IsFiniteSet(InFlight(o, op))
        BY <3>3 DEF Balanced
      <4> QED BY <3>1, <4>1, OneLess
    <3>6. Cardinality(RecordsOf(o, op)) \in Nat /\ Cardinality(InFlight(o, op)) \in Nat
      BY <3>3, FS_CardinalityType DEF Balanced
    <3> QED BY <2>1, <2>2, <3>3, <3>4, <3>5, <3>6 DEF Balanced
  <2>3. CASE p # o \/ q # op
    <3>1. InFlight(p, q)' = InFlight(p, q)
      BY <1>2, <1>4, <2>3 DEF InFlight
    <3>2. RecordsOf(p, q)' = RecordsOf(p, q)
      <4>1. CASE p # o
        BY <1>5, <4>1 DEF RecordsOf
      <4>2. CASE p = o /\ q # op
        <5>1. 1..(n + 1) = 1..n \cup {n + 1}
          BY <1>5
        <5> QED BY <1>5, <4>2, <5>1 DEF RecordsOf
      <4> QED BY <2>3, <4>1, <4>2
    <3> QED BY <2>1, <3>1, <3>2, BalanceIsKept
  <2> QED BY <2>2, <2>3
<1> QED BY <1>6 DEF AllBalanced

\* Every step of the broker keeps the balance.
LEMMA BalanceStep == IInv /\ AllBalanced /\ [Next]_vars => AllBalanced'
<1> SUFFICES ASSUME IInv, AllBalanced, [Next]_vars PROVE AllBalanced'
  OBVIOUS
<1>1. ASSUME NEW th \in Threads, HandlerReturn(th) PROVE AllBalanced'
  <2>1. calls' = calls /\ records' = records
    BY <1>1 DEF HandlerReturn
  <2>2. PICK st \in Statuses : frame' = [frame EXCEPT ![th].status = st]
    BY <1>1 DEF HandlerReturn
  <2>3. frame \in [Threads -> Frame \cup {Null}] /\ frame[th] \in Frame
    BY <1>1 DEF HandlerReturn, IInv, TypeOK, FramesMatchPc
  <2>4. /\ frame'[th] # Null /\ frame'[th].obj = frame[th].obj
        /\ frame'[th].op = frame[th].op
        /\ \A x \in Threads \ {th} : frame'[x] = frame[x]
    <3> DEFINE f == [frame[th] EXCEPT !.status = st]
    <3>1. f \in Frame /\ f.obj = frame[th].obj /\ f.op = frame[th].op
      BY <2>3 DEF Frame
    <3>2. frame'[th] = f /\ \A x \in Threads \ {th} : frame'[x] = frame[x]
      BY <2>2, <2>3
    <3> QED BY <3>1, <3>2
  <2>5. frame[th] # Null
    BY <2>3
  <2>6. \A o \in Objs, op \in Operations : InFlight(o, op)' = InFlight(o, op)
    BY <2>4, <2>5 DEF InFlight
  <2>7. \A o \in Objs, op \in Operations : /\ BillsOf(o, op)' = BillsOf(o, op)
                                           /\ RecordsOf(o, op)' = RecordsOf(o, op)
    BY <2>1 DEF BillsOf, RecordsOf
  <2> QED BY <2>6, <2>7, BalanceIsKept DEF AllBalanced
<1>2. CASE UNCHANGED <<calls, records, frame>>
  <2>1. \A o \in Objs, op \in Operations : /\ BillsOf(o, op)' = BillsOf(o, op)
                                           /\ RecordsOf(o, op)' = RecordsOf(o, op)
                                           /\ InFlight(o, op)' = InFlight(o, op)
    BY <1>2 DEF BillsOf, RecordsOf, InFlight
  <2> QED BY <2>1, BalanceIsKept DEF AllBalanced
<1>3. Lifecycle \/ Tick \/ UNCHANGED vars => UNCHANGED <<calls, records, frame>>
  BY DEF Lifecycle, OpenJob, CloseJob, CloseAllBegin, CloseAllStep, CloseAllEnd,
     Issue, Tick, vars, program
<1>4. \A th \in Threads : EnterHandler(th) => UNCHANGED <<calls, records, frame>>
  BY DEF EnterHandler
<1> QED BY <1>1, <1>2, <1>3, <1>4, AdmitBalance, RecordBalance DEF Next, Dispatch

\* Every billed call of a job ends in its records or is still in flight, for any
\* number of tokens and threads.
THEOREM BillsAreAccounted == Spec => []BilledIsAccounted
<1>1. AllBalanced => BilledIsAccounted
  BY DEF AllBalanced, Balanced, BilledIsAccounted
<1> QED BY <1>1, BalanceInit, BalanceStep, Invariance, PTL DEF Spec

-----------------------------------------------------------------------------
(* close().                                                                *)

\* A close() in progress looks for job objects that exist, and those still
\* live are on its list under their own job id.
SnapshotSound ==
  \A th \in Threads : pc[th] = "closing" =>
    \A o \in target[th] : /\ jobId[o] # Null
                          /\ Live(o) => jobId[o] \in todo[th]

\* A live object is listed under the id it was opened with.
LEMMA LiveUnderItsId ==
  ASSUME IInv, NEW o \in Objs, Live(o)
  PROVE  jobId[o] \in JobIds /\ jobs[jobId[o]] = o
<1>1. PICK j \in JobIds : jobs[j] = o
  BY DEF Live
<1> QED
  BY <1>1 DEF IInv, TypeOK, ObjectsNotShared

\* A step of close() only crosses off an id it leaves closed.
LEMMA CloseAllKeepsSnapshot ==
  ASSUME IInv, SnapshotSound, NEW x \in Threads, CloseAllStep(x)
  PROVE  SnapshotSound'
<1>1. PICK j \in todo[x] :
        /\ todo' = [todo EXCEPT ![x] = @ \ {j}]
        /\ \/ jobs[j] # Null /\ DoClose(j)
           \/ jobs[j] = Null /\ UNCHANGED jobs
  BY DEF CloseAllStep
<1>2. j \in JobIds
  BY <1>1 DEF IInv, TypeOK
<1>3. jobs'[j] = Null /\ \A i \in JobIds : jobs'[i] # Null => jobs'[i] = jobs[i]
  BY <1>1, <1>2 DEF DoClose, IInv, TypeOK
<1>4. \A o \in Objs : Live(o)' => Live(o)
  BY <1>3, NullAssumption DEF Live
<1>5. \A o \in Objs : Live(o)' => jobId[o] # j
  <2> SUFFICES ASSUME NEW o \in Objs, Live(o)' PROVE jobId[o] # j
    OBVIOUS
  <2>1. PICK i \in JobIds : jobs'[i] = o
    BY DEF Live
  <2>2. jobs[i] = o /\ i # j
    BY <1>3, <2>1, NullAssumption
  <2> QED
    BY <2>2, NullAssumption DEF IInv, ObjectsNotShared
<1>6. UNCHANGED <<jobId, target, pc>>
  BY DEF CloseAllStep
<1> SUFFICES ASSUME NEW th \in Threads, pc'[th] = "closing", NEW o \in target'[th]
             PROVE  jobId'[o] # Null /\ (Live(o)' => jobId'[o] \in todo'[th])
  BY DEF SnapshotSound
<1>7. o \in Objs /\ jobId[o] # Null /\ (Live(o) => jobId[o] \in todo[th])
  BY <1>6 DEF SnapshotSound, IInv, TypeOK
<1>8. todo'[th] = IF th = x THEN todo[th] \ {j} ELSE todo[th]
  BY <1>1 DEF IInv, TypeOK
<1> QED
  BY <1>4, <1>5, <1>6, <1>7, <1>8

LEMMA SnapshotInit == Init => SnapshotSound
  BY DEF Init, SnapshotSound

\* No step of the broker hides a job from a close() that has to end it.
LEMMA SnapshotStep == IInv /\ SnapshotSound /\ [Next]_vars => SnapshotSound'
<1> SUFFICES ASSUME IInv, SnapshotSound, [Next]_vars PROVE SnapshotSound'
  OBVIOUS
<1>1. ASSUME NEW j \in JobIds, NEW n \in Objs, NEW creds \in Credentials,
             OpenJob(j, n, creds)
      PROVE  SnapshotSound'
  <2>1. UNCHANGED <<pc, target, todo>> /\ jobId[n] = Null
    BY <1>1 DEF OpenJob
  <2>2. \A o \in Objs \ {n} : jobId'[o] = jobId[o]
    BY <1>1 DEF OpenJob, IInv, TypeOK
  <2>3. \A o \in Objs \ {n} : Live(o)' => Live(o)
    BY <1>1 DEF OpenJob, Live, IInv, TypeOK
  <2>4. \A th \in Threads : pc[th] = "closing" => target[th] \subseteq Objs \ {n}
    BY <2>1 DEF SnapshotSound, IInv, TypeOK
  <2> QED
    BY <2>1, <2>2, <2>3, <2>4 DEF SnapshotSound
<1>2. ASSUME NEW j \in JobIds, CloseJob(j)
      PROVE  SnapshotSound'
  <2>1. UNCHANGED <<pc, target, todo, jobId>>
    BY <1>2 DEF CloseJob
  <2>2. \A o \in Objs : Live(o)' => Live(o)
    BY <1>2, NullAssumption DEF CloseJob, DoClose, Live, IInv, TypeOK
  <2>3. \A th \in Threads : target[th] \subseteq Objs
    BY DEF IInv, TypeOK
  <2> QED
    BY <2>1, <2>2, <2>3 DEF SnapshotSound
<1>3. ASSUME NEW x \in Threads, CloseAllBegin(x)
      PROVE  SnapshotSound'
  <2>1. UNCHANGED <<jobs, jobId>>
    BY <1>3 DEF CloseAllBegin
  <2>2. \A th \in Threads \ {x} : /\ pc'[th] = pc[th] /\ target'[th] = target[th]
                                  /\ todo'[th] = todo[th]
    BY <1>3 DEF CloseAllBegin, IInv, TypeOK
  <2>3. /\ target'[x] = {o \in Objs : Live(o)}
        /\ todo'[x] = {j \in JobIds : jobs[j] # Null}
    BY <1>3 DEF CloseAllBegin, IInv, TypeOK
  <2>4. \A o \in target'[x] : jobId[o] # Null /\ jobId[o] \in todo'[x]
    BY <2>3, LiveUnderItsId, NullAssumption
  <2>5. \A o : Live(o)' <=> Live(o)
    BY <2>1 DEF Live
  <2> QED
    BY <2>1, <2>2, <2>4, <2>5 DEF SnapshotSound
<1>4. ASSUME NEW x \in Threads, CloseAllEnd(x)
      PROVE  SnapshotSound'
  <2>1. UNCHANGED <<jobs, jobId, todo>> /\ pc'[x] # "closing"
    BY <1>4 DEF CloseAllEnd, IInv, TypeOK
  <2>2. \A th \in Threads \ {x} : pc'[th] = pc[th] /\ target'[th] = target[th]
    BY <1>4 DEF CloseAllEnd, IInv, TypeOK
  <2>3. \A o : Live(o)' <=> Live(o)
    BY <2>1 DEF Live
  <2> QED
    BY <2>1, <2>2, <2>3 DEF SnapshotSound
<1>5. ASSUME UNCHANGED <<jobs, jobId, target, todo>>,
             \A th \in Threads : pc'[th] = "closing" => pc[th] = "closing"
      PROVE  SnapshotSound'
  <2>1. \A o : Live(o)' <=> Live(o)
    BY <1>5 DEF Live
  <2> QED
    BY <1>5, <2>1 DEF SnapshotSound
<1>6. ASSUME NEW x \in Threads, NEW s \in {"idle", "admitted", "handler", "record"},
             pc' = [pc EXCEPT ![x] = s], UNCHANGED <<jobs, jobId, target, todo>>
      PROVE  SnapshotSound'
  <2>1. \A th \in Threads : pc'[th] = "closing" => pc[th] = "closing"
    BY <1>6 DEF IInv, TypeOK
  <2> QED
    BY <1>5, <1>6, <2>1
<1>7. ASSUME NEW x \in Threads, NEW o \in Objs, NEW t \in Tokens,
             NEW op \in Operations, NEW h \in BOOLEAN, NEW d \in BOOLEAN,
             DispatchAdmit(x, o, t, op, h, d)
      PROVE  SnapshotSound'
  BY <1>6, <1>7 DEF DispatchAdmit
<1>8. ASSUME NEW x \in Threads,
             EnterHandler(x) \/ HandlerReturn(x) \/ RecordAndReply(x)
      PROVE  SnapshotSound'
  <2>1. CASE HandlerReturn(x)
    <3>1. pc' = [pc EXCEPT ![x] = "record"] /\ UNCHANGED <<jobs, jobId, target, todo>>
      BY <2>1 DEF HandlerReturn, history
    <3> QED BY <1>6, <3>1
  <2>2. CASE RecordAndReply(x)
    <3>1. pc' = [pc EXCEPT ![x] = "idle"] /\ UNCHANGED <<jobs, jobId, target, todo>>
      BY <2>2 DEF RecordAndReply, history
    <3> QED BY <1>6, <3>1
  <2>3. CASE EnterHandler(x)
    <3>1. pc' = [pc EXCEPT ![x] = "handler"] /\ UNCHANGED <<jobs, jobId, target, todo>>
      BY <2>3 DEF EnterHandler, history
    <3> QED BY <1>6, <3>1
  <2> QED BY <1>8, <2>1, <2>2, <2>3
<1>9. ASSUME NEW j \in JobIds, NEW t \in Tokens, NEW role \in ROLES,
             Issue(j, t, role)
      PROVE  SnapshotSound'
  BY <1>5, <1>9 DEF Issue
<1>10. CASE Tick \/ UNCHANGED vars
  BY <1>5, <1>10 DEF Tick, vars, program, history
<1> QED
  BY <1>1, <1>2, <1>3, <1>4, <1>7, <1>8, <1>9, <1>10, CloseAllKeepsSnapshot
     DEF Next, Lifecycle, Dispatch

\* close() ends every job that was open when it was called, whatever is closed
\* and opened again under the same ids meanwhile.
THEOREM CloseReachesAll == Spec => []CloseReachesSnapshot
<1>1. SnapshotSound => CloseReachesSnapshot
  BY DEF SnapshotSound, CloseReachesSnapshot
<1> QED
  BY <1>1, SnapshotInit, SnapshotStep, Invariance, PTL DEF Spec

-----------------------------------------------------------------------------
(* Broker implements CapabilityLedger: initial states map to initial       *)
(* states, and under IInv each step maps to a ledger step or to a stutter. *)

stateBar == [o \in Objs |-> StateOf(o)]
termsBar == [t \in Tokens |-> TermsOf(t)]
usedBar  == [k \in Tokens \X Operations |-> UsedOf(k)]

\* The ledger's variables, as the mapping computes them.
Bars == <<stateBar, issuedTo, termsBar, usedBar, clock>>

\* Nothing is granted at the start.
LEMMA RefineInit == Init => Ledger!Init
<1> SUFFICES ASSUME Init PROVE Ledger!Init
  OBVIOUS
<1>1. stateBar = [o \in Objs |-> "new"]
  BY DEF Init, stateBar, StateOf
<1>2. termsBar = [t \in Tokens |-> Null]
  BY DEF Init, termsBar, TermsOf
<1>3. usedBar = [k \in Tokens \X Operations |-> 0]
  BY DEF Init, usedBar, UsedOf
<1> QED
  BY <1>1, <1>2, <1>3 DEF Init, Ledger!Init, stateBar, termsBar, usedBar

\* What was used of a token is exactly its admissions, whatever happened to
\* the job since.
LEMMA UsedIsSpent == IInv => usedBar = spent
<1> SUFFICES ASSUME IInv PROVE usedBar = spent
  OBVIOUS
<1>1. \A t \in Tokens, op \in Operations : UsedOf(<<t, op>>) = spent[<<t, op>>]
  <2> SUFFICES ASSUME NEW t \in Tokens, NEW op \in Operations
               PROVE  UsedOf(<<t, op>>) = spent[<<t, op>>]
    OBVIOUS
  <2>1. CASE issuedTo[t] = Null
    BY <2>1 DEF IInv, UsedOf, Minted
  <2>2. CASE issuedTo[t] # Null
    BY <2>2 DEF IInv, TypeOK, UsedOf, BillsAreAdmissions
  <2> QED
    BY <2>1, <2>2
<1>2. \A k \in Tokens \X Operations : UsedOf(k) = spent[k]
  BY <1>1
<1>3. spent = [k \in Tokens \X Operations |-> spent[k]]
  BY DEF IInv, TypeOK
<1> QED
  BY <1>2, <1>3 DEF usedBar

\* The same of the next state.
LEMMA UsedIsSpentNext == (IInv => usedBar = spent)'
  BY UsedIsSpent, PTL

\* open_job opens a new holder.
LEMMA RefineOpen ==
  ASSUME IInv, IInv', NEW j \in JobIds, NEW o \in Objs, NEW creds \in Credentials,
         OpenJob(j, o, creds)
  PROVE  Ledger!Open(o)
<1>1. ~Live(o)
  BY DEF IInv, OpenJob, Live, ObjectsNotShared
<1>2. \A x \in Objs : Live(x)' <=> Live(x) \/ x = o
  BY DEF IInv, OpenJob, Live, TypeOK
<1>3. \A x \in Objs : jobId'[x] = IF x = o THEN j ELSE jobId[x]
  BY DEF IInv, OpenJob, TypeOK
<1>4. \A x \in Objs : StateOf(x)' = IF x = o THEN "open" ELSE StateOf(x)
  BY <1>2, <1>3 DEF StateOf
<1>5. StateOf(o) = "new"
  BY DEF OpenJob, StateOf
<1>6. stateBar' = [stateBar EXCEPT ![o] = "open"] /\ stateBar[o] = "new"
  BY <1>4, <1>5 DEF stateBar
<1>7. termsBar' = termsBar
  BY DEF OpenJob, termsBar, TermsOf
<1>8. usedBar' = usedBar
  BY UsedIsSpent, UsedIsSpentNext DEF OpenJob
<1> QED
  BY <1>6, <1>7, <1>8 DEF OpenJob, Ledger!Open, stateBar, termsBar, usedBar

\* close_job, and a step of close(), ends the holder.
LEMMA RefineClose ==
  ASSUME IInv, IInv', NEW j \in JobIds, jobs[j] # Null, DoClose(j),
         UNCHANGED <<jobId, capability, clock, issuedTo, spent>>
  PROVE  \E h \in Objs : Ledger!End(h)
<1> DEFINE o == jobs[j]
<1>1. o \in Objs /\ Live(o) /\ jobId[o] # Null
  BY DEF IInv, TypeOK, Live, ObjectsNotShared
<1>2. \A x \in Objs : Live(x)' <=> Live(x) /\ x # o
  BY <1>1 DEF IInv, TypeOK, Live, DoClose, ObjectsNotShared
<1>3. \A x \in Objs : StateOf(x)' = IF x = o THEN "ended" ELSE StateOf(x)
  BY <1>1, <1>2 DEF StateOf
<1>4. StateOf(o) = "open"
  BY <1>1 DEF StateOf
<1>5. stateBar' = [stateBar EXCEPT ![o] = "ended"] /\ stateBar[o] = "open"
  BY <1>1, <1>3, <1>4 DEF stateBar
<1>6. termsBar' = termsBar
  BY DEF termsBar, TermsOf
<1>7. usedBar' = usedBar
  BY UsedIsSpent, UsedIsSpentNext
<1>8. Ledger!End(o)
  BY <1>5, <1>6, <1>7 DEF Ledger!End, stateBar, termsBar, usedBar
<1> QED
  BY <1>1, <1>8

\* issue is a grant by the live object of the job id.
LEMMA RefineIssue ==
  ASSUME IInv, IInv', NEW j \in JobIds, NEW t \in Tokens, NEW role \in ROLES,
         Issue(j, t, role)
  PROVE  \E h \in Objs : Ledger!Grant(h, t, role)
<1> DEFINE o == jobs[j]
           c == [job_id |-> j, role |-> role, expires_at |-> ExpiresAt]
<1>1. o \in Objs /\ Live(o) /\ jobId[o] # Null
  BY DEF IInv, TypeOK, Live, ObjectsNotShared, Issue
<1>2. issuedTo[t] = Null
  BY DEF IInv, Issue, Minted
<1>3. stateBar[o] = "open"
  BY <1>1 DEF stateBar, StateOf
<1>4. stateBar' = stateBar
  BY DEF Issue, stateBar, StateOf, Live
<1>5. capability' = [capability EXCEPT ![t] = c] /\ c # Null
  BY DEF Issue, Capability, ExpiresAt, IInv, TypeOK
<1>6. \A u \in Tokens : TermsOf(u)' = IF u = t THEN [role |-> role, until |-> clock + TTL]
                                              ELSE TermsOf(u)
  BY <1>5 DEF TermsOf, ExpiresAt, IInv, TypeOK
<1>7. termsBar' = [termsBar EXCEPT ![t] = [role |-> role, until |-> clock + TTL]]
  BY <1>6 DEF termsBar
<1>8. usedBar' = usedBar
  BY UsedIsSpent, UsedIsSpentNext DEF Issue
<1>9. Ledger!Grant(o, t, role)
  BY <1>2, <1>3, <1>4, <1>7, <1>8 DEF Issue, Ledger!Grant, stateBar, termsBar, usedBar
<1> QED
  BY <1>1, <1>9

\* An admitted dispatch spends the grant once.
LEMMA RefineDispatch ==
  ASSUME IInv, IInv', NEW th \in Threads, NEW o \in Objs, NEW t \in Tokens,
         NEW op \in Operations, NEW h \in BOOLEAN, NEW d \in BOOLEAN,
         DispatchAdmit(th, o, t, op, h, d)
  PROVE  Ledger!Spend(t, op)
<1>1. issuedTo[t] = o /\ Live(o) /\ Alive(t)
  BY AuthorizeFacts DEF DispatchAdmit, Admissible
<1>2. o # Null /\ jobId[o] # Null
  BY <1>1 DEF IInv, Minted
<1>3. stateBar[o] = "open"
  BY <1>1, <1>2 DEF stateBar, StateOf
<1>4. capability[t] # Null
  BY <1>1, <1>2 DEF IInv, Minted
<1>5. termsBar[t] = [role |-> capability[t].role, until |-> capability[t].expires_at]
  BY <1>4 DEF termsBar, TermsOf
<1>6. OpSpec[op].role = capability[t].role
  BY DEF DispatchAdmit, Admissible, MayInvoke
<1>7. usedBar[<<t, op>>] < OpSpec[op].max_calls
  <2>1. calls[o][<<t, op>>] < OpSpec[op].max_calls
    BY DEF DispatchAdmit, Admissible, UnderQuota
  <2>2. usedBar[<<t, op>>] = calls[o][<<t, op>>]
    BY <1>1, UsedIsSpent DEF IInv, BillsAreAdmissions
  <2> QED
    BY <2>1, <2>2
<1>8. usedBar' = [usedBar EXCEPT ![<<t, op>>] = @ + 1]
  BY UsedIsSpent, UsedIsSpentNext DEF DispatchAdmit
<1>9. stateBar' = stateBar /\ termsBar' = termsBar
  BY DEF DispatchAdmit, stateBar, termsBar, StateOf, TermsOf, Live
<1>10. clock <= termsBar[t].until /\ termsBar[t].role = OpSpec[op].role
  BY <1>1, <1>5, <1>6 DEF Alive
<1> QED
  BY <1>1, <1>2, <1>3, <1>7, <1>8, <1>9, <1>10
     DEF DispatchAdmit, Ledger!Spend, stateBar, termsBar, usedBar

\* The steps the ledger does not see.
LEMMA RefineQuiet ==
  ASSUME IInv, IInv', UNCHANGED <<jobs, jobId, capability, issuedTo, spent, clock>>
  PROVE  UNCHANGED Bars
<1>1. stateBar' = stateBar /\ termsBar' = termsBar
  BY DEF stateBar, termsBar, StateOf, TermsOf, Live
<1>2. usedBar' = usedBar
  BY UsedIsSpent, UsedIsSpentNext
<1> QED
  BY <1>1, <1>2 DEF Bars

\* The clock is the ledger's.
LEMMA RefineTick ==
  ASSUME IInv, IInv', Tick
  PROVE  Ledger!Advance
<1>1. stateBar' = stateBar /\ termsBar' = termsBar
  BY DEF Tick, stateBar, termsBar, StateOf, TermsOf, Live, history
<1>2. usedBar' = usedBar
  BY UsedIsSpent, UsedIsSpentNext DEF Tick, history
<1> QED
  BY <1>1, <1>2 DEF Tick, history, Ledger!Advance, stateBar, termsBar, usedBar

\* Every step of the broker is a step of the ledger or a stutter.
LEMMA RefineStep ==
  ASSUME IInv, IInv', [Next]_vars
  PROVE  Ledger!Next \/ UNCHANGED Bars
<1>1. ASSUME NEW j \in JobIds, NEW o \in Objs, NEW creds \in Credentials,
             OpenJob(j, o, creds)
      PROVE  Ledger!Next
  BY <1>1, RefineOpen DEF Ledger!Next
<1>2. ASSUME NEW j \in JobIds, CloseJob(j)
      PROVE  Ledger!Next
  BY <1>2, RefineClose DEF CloseJob, Ledger!Next
<1>3. ASSUME NEW th \in Threads, CloseAllBegin(th) \/ CloseAllEnd(th)
      PROVE  UNCHANGED Bars
  BY <1>3, RefineQuiet DEF CloseAllBegin, CloseAllEnd
<1>4. ASSUME NEW th \in Threads, CloseAllStep(th)
      PROVE  Ledger!Next \/ UNCHANGED Bars
  <2>1. PICK j \in todo[th] :
          \/ jobs[j] # Null /\ DoClose(j)
          \/ UNCHANGED <<jobs, tokens, capabilities, credentials, returned>>
    BY <1>4 DEF CloseAllStep
  <2>2. j \in JobIds
    BY DEF IInv, TypeOK
  <2>3. UNCHANGED <<jobId, capability, clock, issuedTo, spent>>
    BY <1>4 DEF CloseAllStep
  <2>4. CASE jobs[j] # Null /\ DoClose(j)
    BY <2>2, <2>3, <2>4, RefineClose DEF Ledger!Next
  <2>5. CASE UNCHANGED <<jobs, tokens, capabilities, credentials, returned>>
    BY <2>3, <2>5, RefineQuiet
  <2> QED
    BY <2>1, <2>4, <2>5
<1>5. ASSUME NEW j \in JobIds, NEW t \in Tokens, NEW role \in ROLES, Issue(j, t, role)
      PROVE  Ledger!Next
  BY <1>5, RefineIssue DEF Ledger!Next
<1>6. ASSUME NEW th \in Threads, NEW o \in Objs, NEW t \in Tokens,
             NEW op \in Operations, NEW h \in BOOLEAN, NEW d \in BOOLEAN,
             DispatchAdmit(th, o, t, op, h, d)
      PROVE  Ledger!Next
  <2>1. Ledger!Spend(t, op)
    BY <1>6, RefineDispatch
  <2> QED
    BY <2>1 DEF Ledger!Next
<1>7. ASSUME NEW th \in Threads,
             EnterHandler(th) \/ HandlerReturn(th) \/ RecordAndReply(th)
      PROVE  UNCHANGED Bars
  BY <1>7, RefineQuiet DEF EnterHandler, HandlerReturn, RecordAndReply, history
<1>8. ASSUME Tick
      PROVE  Ledger!Next
  BY <1>8, RefineTick DEF Ledger!Next
<1>9. ASSUME UNCHANGED vars
      PROVE  UNCHANGED Bars
  BY <1>9, RefineQuiet DEF vars, program, history
<1> QED
  BY <1>1, <1>2, <1>3, <1>4, <1>5, <1>6, <1>7, <1>8, <1>9
     DEF Next, Lifecycle, Dispatch

\* The broker, with its token index, job table, per-object bills and key-holding
\* threads, implements the ledger of grants: for any number of jobs, tokens,
\* threads and operations.
THEOREM BrokerImplementsLedger == Spec => ImplementsLedger
<1>1. Init => Ledger!Init
  BY RefineInit
<1>2. IInv /\ IInv' /\ [Next]_vars => [Ledger!Next]_(Ledger!ledger)
  BY RefineStep DEF Bars, Ledger!ledger, stateBar, termsBar, usedBar
<1> QED
  BY <1>1, <1>2, Invariance, PTL DEF Spec, ImplementsLedger, Ledger!Spec

=============================================================================

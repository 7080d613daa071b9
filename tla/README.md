# Verification of the TEE room runner

TLA+ models of the room runner in `src/`: the trusted part of a competition
that runs a contestant's code in a confidential machine, with the contestant's
own provider keys, and returns an attested result. The modules here are
model-checked with TLC on small instances, and the safety of every one of them is
proved for every instance with TLAPS. Liveness is model-checked only.

```
tlc  -workers 2 -config MCBroker.cfg MCBroker      # any MC*.cfg with its module
tlapm BrokerProofs.tla                             # any *Proofs.tla
```

## 1. The system

| component | code | state | operations | module |
|---|---|---|---|---|
| Trusted broker | `room/broker.py` | `_jobs`, `_tokens`, and per `_Job` its credentials, capabilities, `calls`, `records`; one lock | `open_job`, `issue`, `dispatch` (`_authorize`, `_record`), `quota`, `close_job`, `close` | `Broker`, `CapabilityLedger`, `BrokerRefinement` |
| Replay guard | `room/auth.py` | `_seen`, an ordered map nonce -> expiry; one lock | `validate_request_window`, `reserve` | `ReplayGuard` |
| Sealed-room service | `room/server.py`, `room/attest.py` | `CREDENTIAL_SPEC` (constant), the guard, a thread per request | `POST /run`, `bind_and_quote` | `RoomRun`, `Evidence` |
| Sealing, credential contract | `room/sealing.py`, `room/profile.py` | none | `resolve_sealed_credential`, the parsers, `credential_spec_for` | `Credential`; its outcomes in `RoomRun` |
| Bundles | `room/bundle.py` | none | `extract_submission_bundle`, `credential_bundle_binding` | `KataSeal`; by outcome in `RoomRun` |
| Inference gateway | `room/inference_gateway.py` | one outcome file per job, shared by two processes | forwarding with retries, recording, `summarize_job_inference` | `GatewayJob` |
| Inference network | `room/inference_network.py` | process variables; a Docker network and its endpoints | `start_inference_gateway_once`, `start_broker_once`, `ensure_inference_network_once`, `ensure_broker_network_once` | `InferenceNetwork` |
| Bounded HTTP server | `room/bounded_http.py` | slots, release count, waiters | accept or refuse, serve, release, `wait_for_release` | `BoundedHttp` |
| Miner sealing tool | `kata_seal.py` | files of a bundle | checks of keys and providers, binding, verification of the room, atomic write | `Credential`, `KataSeal` |
| Run verifier | `verify_run.py` | none | recomputes what the quote must carry | `Evidence` |
| SDK wrapper, identifiers | `room/dstack.py`, `room/ids.py` | none | | - |
| Image and deployment | `build.sh`, `Dockerfile.base` | none | one worker, eight threads | - |

How they interact. A validator sends a signed request to `POST /run`. The
service checks its window and reserves its nonce in the **replay guard**, opens
the **sealed credential**, unpacks the **bundle** and compares its binding, and
hands both to a profile, which is not in this repository. The nonce is the job
id from then on. The profile prepares the **network**, opens a job at the
**broker** or signs a route for the **gateway**, runs the agent in a container,
and closes the job. When it has returned, the service has the **gateway**'s
outcomes of the job summarized, through a directory the two processes share,
and the result quoted. Broker and gateway serve agents through the **bounded
server**. Before all that the miner has sealed its keys for the room with the
**sealing tool**, in the bundle the validator will send; after it the validator
checks the quote with the **verifier**.

`Dockerfile.base:25-27` runs one worker with eight threads, so the broker, the
guard, the network flags and the gateway are used by concurrent threads. The
threads are there so that health checks are answered during a long job; that
only one `/run` is under way at a time is a convention of the caller which no
code enforces, and the models do not assume it.

Behaviours that are hard to test, and what each component has to get right:

* *Broker.* A dispatch leaves the lock for the provider call with a job object
  and a key in its frame. Meanwhile the job may be closed, its id opened again
  for another contestant, its capability expire. Tables must agree, calls be
  billed before they run and never past a ceiling, keys never cross jobs,
  closed jobs' tokens never be admitted again, and every billed call be recorded
  in its job.
* *Replay guard.* Three clock readings per request, eviction at capacity,
  restarts. A reserved nonce must not be admitted again.
* *Room service.* A failure is attested as the contestant's (a score of zero)
  or answered as an error of the room; every step up to the quote may fail either way.
* *Gateway.* Retries, timeouts, two processes on one file, calls that outlive
  their job or come after it, since a signed route never expires. The attested
  summary must contain what the agent was answered.
* *Network.* Process flags without a lock over a daemon that survives restarts.
  An agent must only be attached to a network that is sealed and was probed.
* *Sealing.* The tool may fail, be killed or lose its power at any step, with a
  submitted ciphertext already there; and it checks by its own code what the
  room will check by other code, in a bundle that packers and runs of the agent
  change. The miner must find out before the room does.
* *Evidence.* Parts of answers and quotes can be put together at will; what
  verifies must have been attested, whole.
* *Bounded server.* Slots given back on every way out; waits without lost
  wake-ups.

`PROJECT.json` lists every such hazard at its line, with the properties that
cover it.

## 2. The modules

**`Broker.tla`** has one variable per field (`jobs`, `tokens`, and functions of
`_Job` objects: `jobId`, `credentials`, `capabilities`, `calls`, `records`) plus
each thread's dispatch or `close` in progress, `returned` (what `close_job`
gave back) and the history `spent` (admissions billed per token and operation). A
job object is distinct from its id, since a thread inside a handler keeps a
closed object alive. Actions: `OpenJob`, `Issue`, `CloseJob`; `CloseAllBegin`,
`CloseAllStep`, `CloseAllEnd` (`close` copies the ids without the lock);
`DispatchAdmit` (the locked checks and the bill), `EnterHandler` (after the
unlock: the job may be closed or the capability expire in between),
`HandlerReturn`, `RecordAndReply`; `Tick`. Refusals change nothing and are the absence of
`DispatchAdmit`. A handler returns, fails with or without an HTTP code, or
answers something that is not a dict (`Statuses`). The HTTP surface is a
dispatch with `over_http`. Keys are model values, payloads a Boolean (a dict or
not).

**`CapabilityLedger.tla`** is what the broker promises, without tables,
objects or threads: jobs that are opened and closed, capabilities that are
granted, spent and die with their job, each with a ceiling per operation.
**`BrokerRefinement.tla`** maps the broker onto it.

**`ReplayGuard.tla`** models a request from its window check to the decision of
`reserve`: `Validate` (first clock reading), `EnterReserve` (`reserve` reads
the clock before it waits for the lock), `Reserve` (prune the expired prefix,
look the nonce up, evict, insert), `Restart`, `Tick`. The history variables
`last`, `others`, `ran`, `replayed` remember the protection each nonce is owed.

**`RoomRun.tla`** instantiates the guard (`Guard == INSTANCE ReplayGuard`) and
continues a request with `CredentialRaises`/`CredentialResolved`,
`BundleChecked`/`BundleFault`, `ProfileReturns`/`ProfileFails`,
`Quoted`/`QuoteFails`, `Respond`. A request's body is what its sealed field,
its bundle and the validator's digest may be: absent, unreadable, broken or
one of two contents. `mode` is the profile's `credential_failure_mode`.
`faulted` remembers the threads that met a fault of the room. Requests refused
before the reservation leave no trace.

**`GatewayJob.tla`** has a stage per call and a file per job: `Reject` (a route
the room did not sign, a body too large), `Receive` (at any time, also after the
job's profile has ended: the route's signature does not expire), `Attempt` (every
status, a connection never made, one lost after sending), `Retry`,
`OpenFile`/`WriteLine`/`RecordFails` (open and append are two system calls, and
the file may be unlinked in between), `Relay` and `RelayFails`; `GatewayDies` at
any time, with the files left behind; and the room's `ProfileEnds`,
`ReadOutcomes`, `RemoveFile`. `status` is what is recorded and `answer` what the
agent gets, which differ for a provider that cannot be reached: 0 is recorded and
502 answered (`AnswerTo`). The check of the configured routes, header filters and token
counts are left out.

**`InferenceNetwork.tla`** has the process variables (`ready`, `process`,
`broker`), the daemon's `net`, `endpoints`, `containers`, and a program counter
per request thread. A profile uses one `service`: the gateway, a process
(`CheckGateway`, `SpawnGateway`), or the broker, a thread that is started after
its port was bound (`CheckBroker`, `BindBroker`, `ServeBroker`). The rest is the
same code twice, with its own flag and probe: a `docker` command is one
action that may fail (`CheckReady`, `RemoveNetwork`, `CreateNetwork`,
`RequireInternal`, `Connect`, `Probe`, `MarkReady`), but for the loops of `Clean`
and `Disconnect`. Each of these lists elements and goes through the list with a
command for each; it is one action that may miss any of them, as a command that
fails or an element that came after the listing would.
`StartAgent` and `FinishAgent` stand for the profile; `GatewayDies` and
`Restart` for the environment. A restart leaves the dead runner's endpoint and
the running agents behind.

**`Credential.tla`** holds the contract of a credential as operators, each from
its own code: what a profile must declare (`Declares`, `SpecFor`), what the room
parses (`ParsesSet`, `ParsesSingle`, `RoomTakesKey`) and what the tool checks
(`ParseProviders`, `CollectKeys`, `ToolTakesKey`, `AcceptsMulti`,
`AcceptsSingle`). A key is its length and its most troublesome character.

**`KataSeal.tla`** extends it with the tool at work: `Start`, `BindBundle`,
`Encrypt` (for a public key document that is anybody's, verified or not),
`CreateTemp`, `Write`, `Sync`, `Replace` and its ways out `GiveUp`, `Fail`,
`Kill`, `PowerLoss`; the miner's `EditAgent`, `RunAgent`, `ClearStray`; and the
room as the predicate `Accepts` on what a packer may send: the credential opens
and parses, the bundle can be extracted (`Extractable`: the limits on the archive,
on the number of files and on their bytes, and no link out of the bundle), it can
be bound, and the bindings agree. `files` is the bundle directory by path: texts,
links to files and to directories inside the submission, outside it, or to the
caches, ciphertexts whole or in part. A directory is there if it has a file in it,
so a link to the caches dangles once a packer leaves them out. `Sizes` and
`ArchiveSize` are parameters: what compression makes of a directory is not
computed. `unsynced` is what a power loss may truncate; the file system is
taken to keep renames. `Binding` is the function from paths to contents that
`credential_bundle_binding` hashes, read in one step.

**`Evidence.tla`** has the room's `quotes` and what it `attested`. A hash is its
input, so equal only if that is; but how `report_data` is put together is kept:
nonce and project key are concatenated without a length, and the nonce, which
is reserved as text, is hashed as the bytes it spells. `Forget` is the guard
losing a nonce in any way `ReplayGuard` allows.

**`BoundedHttp.tla`** separates the serving loop (`GetRequest`, `Admit`,
`RejectOverloaded`, `StartThread`, `StartFails`, `NoteFailedStart`), each
connection's thread (`FinishRequest`, `ReleaseSlot`, `Note`) and the caller of
`wait_for_release` (`Call`, `Deadline`, `CheckCount`).

`MC*.tla` give the constants; operators introduced as "Mutant" in a module are
plausible bugs of the definition after them, used to show that each property
can fail.

## 3. What is model-checked

| run | what it asks | size |
|---|---|---|
| `MCBroker.cfg` | `TablesAgree`, `OwnKeyOnly`, `QuotaNeverExceeded`, `QuotaViewIsTruthful`, `BilledIsAccounted`, `CloseReachesSnapshot`, `DeadTokenStaysDead`, `ImplementsLedger` | 2 job ids, 2 objects, 2 tokens, 2 threads, 2 operations |
| `MCBrokerLive.cfg` | `KeysEventuallyGone` | one id opened twice, 2 threads |
| `MCReplayGuard.cfg` | `StoreBounded`, `ProtectedIsSeen`, `SingleUse` | 5 requests over 3 nonces, capacity 2, 2 threads, one restart |
| `MCReplayGuardOnce.cfg` | finding: `NoReplay` | capacity 3, no restart |
| `MCRoomRun.cfg` | `OwnBundleOnly`, `FailureIsContestants`, `FaultIsEvidence`, `JobIdExclusive` | every body, both modes, 2 threads, one restart |
| `MCGatewayJob.cfg` | `AnsweredIsCounted`, `CountedOnce`, `LastAttemptDecides`, `OrphanOnlyFromLateCall`, `EveryCallEnds` | 2 calls of a job, 2 attempts |
| `MCGatewayJobDrop.cfg` | finding: `DropIsRetried` | same |
| `MCInferenceNetwork.cfg` | `SealedAgents`, `AgentsOnlyAfterProbe` | either service, 3 threads, 2 restarts |
| `MCInferenceNetworkReset.cfg` | finding: `AgentsStayConnected` | 2 threads |
| `MCKataSeal.cfg` | `WrittenAtomically`, `SealedIsAccepted`, `AcceptedIsBound`, `SealedToRoom` | 2 seals, one edit, 25 commands, 5 profiles, 2 agent files, a cache, 2 temporaries; at most 3 files and 4 bytes in an archive of 4 |
| `MCEvidence.cfg` | `VerifiedIsAttested`, `OneAnswerPerNonce` | 4 nonces, 3 project keys, 8 answers, 2 runs |
| `MCBoundedHttp.cfg` | `SlotsAccounted`, `CountedIsBack`, `NoLostWakeup`, `ConnectionsEnd` | 3 clients, 2 slots, 4 admissions |

Each passing run but `MCBrokerLive` and `MCEvidence` also checks its module's
`TypeOK`; `Evidence`'s is proved.

*Bounds.* Two threads suffice for a race over one lock, file or flag: every
property speaks of one token, nonce, call or agent and whoever interferes with
it. Two job objects let an id be reopened while a thread still holds the first
object, and two credentials, one of them without the second provider's key, let
a wrong key be seen. A ceiling of one (`SearchCalls`) or two makes the limit
reachable; `TTL = 0` and `MaxClock = 1` put a capability at, and past, its
expiry. The guard's clock runs to 4 with `Skew = 1`, `Lifetime = 2`, past the
end of every window; capacity 2 with three nonces forces eviction; one nonce is
signed twice with different windows. Two attempts give a retried and an
exhausted call (three attempts passed as well). Three clients for two slots
give a refusal and a reconnection while a slot is still being returned. Two
seals let a ciphertext take the place of another and a temporary of the first be
bound into the second; one edit between any two steps is a bundle that changed
under the tool, or a cache or a leftover that came or went. The bundle starts with
its cache or without. Its two files, the ciphertext and the cache are one file too
many for the room, the longer version of a file is too many bytes, and a link in
the place of a file makes an archive with the cache too large, so each limit alone
refuses some of what the tool seals. The commands have
keys at both bounds and one past them, with each kind of character, and
providers and lanes that do and do not fit. Nonces of two lengths, a project key
that continues the shorter one, and one nonce in two spellings are what makes
`report_data` ambiguous; two runs are two answers to confuse.
`Objs`, `Tokens`, `MaxClock`, `MaxRestarts`, `MaxAdmissions`, `MaxVersion`,
`MaxSeals`, `MaxEdits`, `MaxRuns` bound what is
unbounded in the code; they stop the model and never an action in progress,
which is why deadlock is not checked. None of the components waits for a lock
while it holds another.

*Symmetry* is used only in runs without liveness.

*Fairness.* `Broker!FairSpec`: a thread that was admitted enters its handler, a
handler returns, its outcome is recorded, and a `close` that began goes on;
nothing makes anybody open, issue, dispatch or close. That handlers return is an
assumption about the profiles' handlers, which the broker does not enforce.
`GatewayJob`: an attempt ends, a backoff ends by its sleep, and summarizing a file
by its length; no agent is obliged to call nor a profile to end. `BoundedHttp`: the
loop and the threads run, a handler ends, and the kernel's queue hands connections
out in turn (strong fairness of `GetRequest`). That attempts and handlers end
is more than their timeouts guarantee: those of `urlopen` and of the server's
sockets are per socket operation, so a peer that keeps trickling bytes is assumed
away, and so is a handler that waits for something else without end. The other
modules state safety only.

*What three of the properties do not say.* `KeysEventuallyGone` is about the
broker's objects and frames, not about the copy of the credential in the frame of
`server._run`. `DeadTokenStaysDead` protects admission and billing: a dispatch that
was admitted before its job was closed may enter its handler after.
`ReplayGuard` takes the wall clock never to be set back.

## 4. What is proved

Every invariant and every action property the runs check, and the refinement of
the ledger, hold for all values of the constants. Each `*Proofs` module has one
inductive invariant, `IInv`, with one lemma per action or kind of action.

| properties | theorems | in |
|---|---|---|
| `TypeOK` | `TypeCorrect` | every `*Proofs` module |
| `TablesAgree`, `QuotaNeverExceeded`, `OwnKeyOnly`, `QuotaViewIsTruthful`, `DeadTokenStaysDead` | `TablesStayConsistent`, `QuotaHolds`, `KeysNeverCross`, `QuotaViewHolds`, `DeadTokens` | `BrokerProofs` |
| `BilledIsAccounted`, `CloseReachesSnapshot`, `ImplementsLedger` | `BillsAreAccounted`, `CloseReachesAll`, `BrokerImplementsLedger` | `BrokerProofs` |
| `StoreBounded`, `ProtectedIsSeen`, `SingleUse` | `StoreStaysBounded`, `ProtectedStaysSeen`, `NonceUsedOnce` | `ReplayGuardProofs` |
| `OwnBundleOnly`, `FailureIsContestants`, `FaultIsEvidence`, `JobIdExclusive`; the guard's specification and `SingleUse` | `RunsOwnBundleOnly`, `BlamesContestantsOnly`, `FaultsBecomeEvidence`, `NonceNamesOneJob`; `ImplementsGuard`, `NonceUsedOnce` | `RoomRunProofs` |
| `AnsweredIsCounted`, `CountedOnce`, `LastAttemptDecides`, `OrphanOnlyFromLateCall` | `ToldIsAttested`, `NoCallCountedTwice`, `OutcomeIsLastAttempt`, `OrphansAreLate` | `GatewayJobProofs` |
| `SealedAgents`, `AgentsOnlyAfterProbe` | `AgentsAreSealed`, `NoAgentUnprobed` | `InferenceNetworkProofs` |
| `WrittenAtomically`, `SealedIsAccepted`, `AcceptedIsBound`, `SealedToRoom` | `SubmittedIsWhole`, `ToolSealsWhatRoomAccepts`, `RoomAcceptsWhatWasBound`, `VerifiedSealIsToRoom` | `KataSealProofs` |
| `VerifiedIsAttested`, `OneAnswerPerNonce` | `AnswersAreAttested`, `OneAnswerVerifies` | `EvidenceProofs` |
| `SlotsAccounted`, `CountedIsBack`, `NoLostWakeup` | `NoSlotLost`, `CountedReleasesAreBack`, `WakeupsAreNotLost` | `BoundedHttpProofs` |

*Assumptions* are the named ones of the modules, which TLC evaluates in the runs:
what the constructors of the code accept (`OpSpecAssumption`, `PolicyAssumption`,
`AttemptsAssumption`), what the data is (`RequestAssumption`, `BodyAssumption`,
`CommandsAssumption`, `NoncesAssumption`, ...), that the bounds are numbers, and
that the value standing for None, or for a broken or unreadable input, is none of
the proper values. Where numbers of things are compared, `BoundedHttp` assumes
finitely many connections; `Broker` needs no such assumption, since what its
steps build up stays finite.

**Broker.** `IInv` adds to the properties that no object is in the table
twice (`ObjectsNotShared`), that a token in use was minted once for an object
of its job (`Minted`), that `calls` equals the admissions the history saw
(`BillsAreAdmissions`), that an object's keys are those `open_job` was given
or gone (`KeysAsGiven`), and that a thread's frame is as its program counter
says (`FramesMatchPc`). The heart of it: `_authorize` goes through two tables,
and that both lead to the object a token was minted for follows from
`TablesAgree`, `Minted` and `ObjectsNotShared` together, which `close_job` must
re-establish in one locked step. On top of `IInv`, `QuotaViewHolds` needs that a
token is only ever billed for operations of its role (`SpentInRole`);
`BillsAreAccounted` that bills, records and calls in flight are finite sets of
which a step adds to or removes from exactly one on each side (`AllBalanced`);
and `CloseReachesAll` that what a `close` looks for exists, so that no object
opened later is mistaken for it (`SnapshotSound`). For `BrokerImplementsLedger`,
every step of the broker is a step of the ledger or a stutter, and `IInv`
supplies what the mapping needs.

**Replay guard.** The invariant says of each nonce still protected (not expired,
and fewer than `max_entries` other nonces admitted since) where in the store it
can be; the argument is that pruning stops at the first entry that is not
expired, and an eviction needs `max_entries` newer ones. `ThreadsSound` bounds
the clock readings of threads on their way through `reserve`.

**Room service.** `RoomRunProofs` uses the guard's lemmas through an instance of
`ReplayGuardProofs`: the room's steps are, to the guard's variables, steps of the
guard (`ImplementsGuard`), so its invariant is half of `IInv` and `NonceUsedOnce`
carries over. The other half, `Sound`, says for each stage of a request what has
been established of its body by then; a step of one thread leaves the others'
alone (`OneThread`). `JobIdExclusive` takes both: a run starts only by a
reservation that found its nonce unknown, and a protected nonce is known wherever
the pruning stops.

**Gateway.** The invariant follows a call: while it writes, its handle is to the
job's file or to one already removed (`Linked`); from the record on, its line is
in the file, and once the room has read that, in the summary (`Told`); before the
record it is in neither, and a line is in one of the two at most (`Counted`);
its attempts are transient until the one that decides (`Tried`); what is under
way after the profile's return, or was received after it, counts as late
(`Outlived`). That recorded and answered status go together is `AnswerTo`, in the
one step that answers.

**Inference network.** That a network with agents is sealed rests on who has
inspected it: an open network was there before, has no endpoints and was passed by
no thread (`Untouched`). That agents run after a probe only rests on where threads
are and on the flag any of them may have set (`Vouched`).

**Sealing.** `Temporaries` ties the tool's files to the step it is at, what is
`unsynced` and what earlier runs left behind; `Numbered` the ciphertexts on the
disk to those made; `Bound` each of these to a command the tool accepts and to the
bundle it was hashed from; `Cached` says that caches hold no links. That the tool's
checks of a command and the room's of a payload agree is `ToolAgreesWithRoom`; that equal bindings mean equal regular files, and the other
way round, `SameBindingSameFiles` and `SameFilesSameBinding`.

**Evidence.** The type invariant is inductive and says that the quotes are
exactly those of the attested answers. `PartsOfEqualLength` (two concatenations
with first parts of one length are equal only part by part) is where the length
of the nonce comes in. `OneAnswerVerifies` needs that a nonce was attested for
twice only if the guard had forgotten it (`NoncesSpent`).

**Bounded server.** The counters are tied to sets of connections: the slots that
are out to those that hold one, the releases owed to those that owe one, the
bound on admissions to those still to be admitted. A step moves one connection,
which is in one place only (`Placed`).

*Only model-checked:* `KeysEventuallyGone`, `EveryCallEnds` and `ConnectionsEnd`,
since liveness under fairness (and ENABLED) is out of the prover's reach. So is
induction over data: no theorem depends on what a recursive definition computes.
`BilledIsAccounted` therefore counts bills as a set of pairs of a token and a
number, and not as a sum over tokens. The findings of section 5 are
counterexamples of runs.

## 5. Findings

Each is a run whose single property states what the repository says, with a
counterexample of the code.

1. `NoReplay` (`auth.py:103`, against `README.md:50`). `reserve` forgets a
   nonce once its `expires_at` has passed, but the window accepts the request
   for another clock skew. In those seconds the same signed request runs twice.
2. `DropIsRetried` (`inference_gateway.py:456`, against the comment at 457).
   `urlopen` turns only errors of *sending* into `URLError`; a reset or a
   timeout while waiting for the response is neither retried nor recorded nor
   answered.
3. `AgentsStayConnected` (`inference_network.py:207`, against 115 and
   202-203). Of two threads that both find the network not ready, the slower
   removes the containers and endpoints of the agent of the faster. If its
   reset fails after that, the flag is set over a network that is gone.

Where the code does less than its text says in other places, the property
states what it does do, with the exception named in it:

* `broker.py:297`: a call admitted before `close_job` keeps the key in its frame
  until the provider answers, where `README.md:222` has the keys overwritten
  with the job. `KeysEventuallyGone` is what holds.
* `sealing.py:96`: a failing key service is attested as the contestant's
  unreadable credential, where `server.py:151-152` would tell the two apart.
  `FailureIsContestants` allows this fault and no other.
* `bundle.py:80`: a link to a directory is skipped before links are refused, so
  it is in no binding, where `bundle.py:72-74` includes every file.
  `AcceptedIsBound` allows for it.
* `bundle.py:51-57`: the room's limits on a bundle, and its refusal of links out
  of it, are checked nowhere in the tool, which refuses a bundle only for what
  cannot be bound (`kata_seal.py:468`, 492). Nor is a link to a directory of caches
  that the packer leaves out. `SealedIsAccepted` has both as conditions on what is sent, and shows
  that there are no others.
* `attest.py:40`, `server.py:102`: the report data of a run has no prefix of its own,
  so a nonce and a project key can spell that of a public key document, whose key
  is then the digest of a result: nobody holds its secret. `SealedToRoom` names it.
* `inference_network.py:241`: the second of two threads that start the broker
  fails on its port and with it its run, where line 239 says "Idempotent".
  `AgentsOnlyAfterProbe` shows that nothing worse follows.
* `attest.py:40`, `server.py:217`: a nonce of another length, or in the other
  case, is another nonce to the guard but not to `report_data`.
  `VerifiedIsAttested` and `OneAnswerPerNonce` say what that leaves to a
  verifier; one who sends nonces of one length in lower case is left with all
  of it.

## 6. What is not modelled

* Cryptography (HMAC, sealing, quotes) and the profile itself: preconditions or
  nondeterministic outcomes.
* Of `extract_submission_bundle`, how an archive's size follows from its members,
  archives that are no tar or no base64, and names of members other than links;
  of the gateway, the check of its configured routes, header filters,
  token counts and summary buckets: functions of one input, reduced to outcomes.
* Loading a profile's class and fetching keys from the SDK, but for their
  failures.
* Of `kata_seal.py`, prompts, messages and `--out` with a path outside the
  bundle. A key is what remains after `load_api_key` has stripped it.
* A file changed while its bundle is being hashed.
* What a validator does after a 500: its nonce is reserved by then
  (`server.py:224`), so it must sign anew. `SingleUse` implies the refusal.
* `ghcr_login`; `dstack.py` and `ids.py` (a call into an SDK, one pattern).
* A `KeyboardInterrupt` in the serving loop ends the process and is not a step.

## 7. Plan

Done, in this order: broker and its ledger, replay guard, the room's run,
gateway, network, bounded server; proofs of the first two; then the broker's
side of the network, the gateway's death, the credential contract, the sealing
tool, the evidence and its proof; then the proofs of all other safety properties.

Next:

1. The records `close_job` returns (`broker.py:212`): how much of a job's bills
   they are sure to contain.
2. The guard's specification stated of `RoomRun` for runs too, and the broker's
   job of a run composed with `RoomRun` through the nonce.
3. What the exceptions in `AcceptedIsBound` and `OneAnswerPerNonce` come to under
   the conventions of the repository's own tools (nonces of one length and case,
   no links): proved as corollaries.

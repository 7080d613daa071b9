----------------------------- MODULE GatewayJob -----------------------------
(***************************************************************************)
(* room/inference_gateway.py: a job's inference calls and the summary of   *)
(* their outcomes that is attested with the job's result.                  *)
(*                                                                         *)
(* The gateway and the room are two processes that share one directory.    *)
(* Each gateway thread forwards one call, with retries, appends the        *)
(* outcome to the job's file and only then answers the agent.  When the    *)
(* profile has returned, the room reads the job's file and removes it.     *)
(* The agent may be gone by then while a gateway thread still waits for    *)
(* its provider, and a route's signature never expires, so a call may even *)
(* arrive after the profile ended: appending races with reading and        *)
(* removing, and an append to a file already removed goes nowhere.  The    *)
(* gateway may also die, with whatever it was doing, while the files stay. *)
(***************************************************************************)
EXTENDS Integers, Sequences, FiniteSets

CONSTANTS
  Calls,        \* requests agents send, each on a connection of its own
  Jobs,
  JobOf,        \* Calls -> Jobs: the job named by the call's signed route
  Statuses,     \* statuses providers answer with
  MaxAttempts,  \* resolve_max_attempts()
  Null

\* _RETRYABLE_UPSTREAM_STATUS
Retryable == {502, 503, 504}

ASSUME CallsAssumption == JobOf \in [Calls -> Jobs]
\* resolve_max_attempts answers 1..4; a provider's status is an HTTP status.
ASSUME AttemptsAssumption ==
  MaxAttempts \in 1..4 /\ Statuses \subseteq 200..599
ASSUME NullAssumption == Null \notin Int /\ Null \notin Seq([call : Calls, status : Int])

VARIABLES
  stage,    \* how far do_POST has got with a call
  attempt,  \* the attempt being made
  status,   \* the outcome to be recorded, Null before
  handle,   \* the open outcome file: "none", "linked", "unlinked" (removed since)
  file,     \* job -> its outcome file, Null if there is none
  run,      \* job -> where the room is with it
  summary,  \* job -> the outcomes that were attested, or Null
  \* history
  upstream, \* what each attempt of a call came to
  answer,   \* the HTTP status the agent was given, Null before
  inTime,   \* calls answered with their outcome while their job's profile was running
  late,     \* calls in progress when their job's profile ended, or received since
  lost      \* calls whose outcome could not be written (OSError)

state   == <<stage, attempt, status, handle, file, run, summary>>
history == <<upstream, answer, inTime, late, lost>>
vars    == <<state, history>>

\* An attempt that never reached the provider, recorded as status 0, and one
\* whose connection was lost after the request was sent.
UNREACHABLE == 0
DROPPED     == -1

Outcome == [call : Calls, status : Int]
Stages  == {"unsent", "trying", "backoff", "recording", "writing", "relaying",
            "answered", "unanswered", "aborted", "rejected", "killed"}

TypeOK ==
  /\ stage \in [Calls -> Stages]
  /\ attempt \in [Calls -> 0..MaxAttempts]
  /\ status \in [Calls -> Statuses \cup {UNREACHABLE, 401, 502, Null}]
  /\ handle \in [Calls -> {"none", "linked", "unlinked"}]
  /\ file \in [Jobs -> Seq(Outcome) \cup {Null}]
  /\ run \in [Jobs -> {"running", "returned", "read", "summarized", "failed"}]
  /\ summary \in [Jobs -> Seq(Outcome) \cup {Null}]
  /\ upstream \in [Calls -> Seq(Statuses \cup {UNREACHABLE, DROPPED})]
  /\ answer \in [Calls -> Statuses \cup {401, 403, 413, 502, Null}]
  /\ inTime \subseteq Calls /\ late \subseteq Calls /\ lost \subseteq Calls

Init ==
  /\ stage = [c \in Calls |-> "unsent"]
  /\ attempt = [c \in Calls |-> 0]
  /\ status = [c \in Calls |-> Null]
  /\ handle = [c \in Calls |-> "none"]
  /\ file = [j \in Jobs |-> Null]
  /\ run = [j \in Jobs |-> "running"]
  /\ summary = [j \in Jobs |-> Null]
  /\ upstream = [c \in Calls |-> <<>>]
  /\ answer = [c \in Calls |-> Null]
  /\ inTime = {} /\ late = {} /\ lost = {}

InProgress(c) ==
  stage[c] \notin {"unsent", "answered", "unanswered", "aborted", "rejected", "killed"}

Goto(c, s) == stage' = [stage EXCEPT ![c] = s]

-----------------------------------------------------------------------------
(* _forward.                                                               *)

\* The outcome is known: it is recorded next, and then the agent is answered.
Conclude(c, st) ==
  /\ status' = [status EXCEPT ![c] = st]
  /\ Goto(c, "recording")

\* A call whose route is not one this room signed (403) or whose body is over
\* the transport limit (413): it is turned away and counts for no job.
Reject(c) ==
  /\ stage[c] = "unsent"
  /\ Goto(c, "rejected")
  /\ \E st \in {403, 413} : answer' = [answer EXCEPT ![c] = st]
  /\ UNCHANGED <<attempt, status, handle, file, run, summary, upstream, inTime, late, lost>>

\* A call with a valid route, which is one whether or not its job's profile
\* still runs: it is refused without a miner key (401) or an enabled provider
\* (502), or forwarded.
Receive(c) ==
  /\ stage[c] = "unsent"
  /\ \/ \E st \in {401, 502} : Conclude(c, st) /\ UNCHANGED attempt
     \/ /\ attempt' = [attempt EXCEPT ![c] = 1]
        /\ Goto(c, "trying")
        /\ UNCHANGED status
  /\ late' = IF run[JobOf[c]] = "running" THEN late ELSE late \cup {c}
  /\ UNCHANGED <<handle, file, run, summary, upstream, answer, inTime, lost>>

\* Mutants: the attempts are not counted; every error is transient.
RetriesUnbounded(c, st)  == st \in Retryable
RetriesAnyError(c, st) == st >= 400 /\ attempt[c] < MaxAttempts

Retries(c, st) == st \in Retryable /\ attempt[c] < MaxAttempts

\* What follows an attempt that came to `result`.  A status that is not retried
\* is the call's outcome; so is 0 when no attempt reached the provider.
AfterAttempt(c, result) ==
  \/ /\ result \in Statuses /\ Retries(c, result)
     /\ Goto(c, "backoff") /\ UNCHANGED status
  \/ /\ result \in Statuses /\ ~Retries(c, result)
     /\ Conclude(c, result)
  \/ /\ result = UNREACHABLE /\ attempt[c] < MaxAttempts
     /\ Goto(c, "backoff") /\ UNCHANGED status
  \/ /\ result = UNREACHABLE /\ attempt[c] = MaxAttempts
     /\ Conclude(c, UNREACHABLE)
  \/ /\ result = DROPPED
     /\ Goto(c, "aborted") /\ UNCHANGED status

\* urlopen returns a response, raises HTTPError with its status, or URLError
\* when the request cannot be sent (UNREACHABLE).  Once the request is sent,
\* a connection that is reset or times out before or within the response raises
\* neither (ConnectionResetError, TimeoutError, IncompleteRead): nothing catches
\* it, and the server drops the agent's connection.
Attempt(c) ==
  /\ stage[c] = "trying"
  /\ \E result \in Statuses \cup {UNREACHABLE, DROPPED} :
       /\ AfterAttempt(c, result)
       /\ upstream' = [upstream EXCEPT ![c] = Append(@, result)]
  /\ UNCHANGED <<attempt, handle, file, run, summary, answer, inTime, late, lost>>

\* Mutant: the retry calls _forward again, which starts counting afresh.
RetryAfresh(c) ==
  /\ stage[c] = "backoff"
  /\ attempt' = [attempt EXCEPT ![c] = 1]
  /\ upstream' = [upstream EXCEPT ![c] = <<>>]
  /\ Goto(c, "trying")
  /\ UNCHANGED <<status, handle, file, run, summary, answer, inTime, late, lost>>

\* The backoff is over.
Retry(c) ==
  /\ stage[c] = "backoff"
  /\ attempt' = [attempt EXCEPT ![c] = @ + 1]
  /\ Goto(c, "trying")
  /\ UNCHANGED <<status, handle, file, run, summary, history>>

-----------------------------------------------------------------------------
(* _record_job_outcome, in the gateway process.                            *)

\* Mutant: the file is opened for writing, which truncates it.
OpenFileForWriting(c) ==
  /\ stage[c] = "recording"
  /\ file' = [file EXCEPT ![JobOf[c]] = <<>>]
  /\ handle' = [handle EXCEPT ![c] = "linked"]
  /\ Goto(c, "writing")
  /\ UNCHANGED <<attempt, status, run, summary, history>>

\* The file is opened for appending, and created if there is none ...
OpenFile(c) ==
  /\ stage[c] = "recording"
  /\ file' = [file EXCEPT ![JobOf[c]] = IF @ = Null THEN <<>> ELSE @]
  /\ handle' = [handle EXCEPT ![c] = "linked"]
  /\ Goto(c, "writing")
  /\ UNCHANGED <<attempt, status, run, summary, history>>

\* ... one line is written to what was opened ...
Line(c) == [call |-> c, status |-> status[c]]

WriteLine(c) ==
  /\ stage[c] = "writing"
  /\ file' = [file EXCEPT ![JobOf[c]] = IF handle[c] = "linked" THEN Append(@, Line(c))
                                        ELSE @]
  /\ handle' = [handle EXCEPT ![c] = "none"]
  /\ Goto(c, "relaying")
  /\ UNCHANGED <<attempt, status, run, summary, history>>

\* ... and an OSError in either step is passed over.
RecordFails(c) ==
  /\ stage[c] \in {"recording", "writing"}
  /\ handle' = [handle EXCEPT ![c] = "none"]
  /\ lost' = lost \cup {c}
  /\ Goto(c, "relaying")
  /\ UNCHANGED <<attempt, status, file, run, summary, upstream, answer, inTime, late>>

\* What the agent is told of a recorded outcome: the provider's status, or the
\* gateway's own 502 for a provider that could not be reached.
AnswerTo(st) == IF st = UNREACHABLE THEN 502 ELSE st

\* The agent gets its answer ...
Relay(c) ==
  /\ stage[c] = "relaying"
  /\ Goto(c, "answered")
  /\ answer' = [answer EXCEPT ![c] = AnswerTo(status[c])]
  /\ inTime' = IF run[JobOf[c]] = "running" THEN inTime \cup {c} ELSE inTime
  /\ UNCHANGED <<attempt, status, handle, file, run, summary, upstream, late, lost>>

\* ... unless it is gone, or the body of the provider's error cannot be read: the
\* exception ends the connection, with the outcome already recorded.
RelayFails(c) ==
  /\ stage[c] = "relaying"
  /\ Goto(c, "unanswered")
  /\ UNCHANGED <<attempt, status, handle, file, run, summary, history>>

\* The gateway's process dies.  Whoever had a call under way gets no answer, and
\* what was opened is closed; the next run starts a new gateway, which knows
\* nothing of those calls.
GatewayDies ==
  /\ \E c \in Calls : InProgress(c)
  /\ stage' = [c \in Calls |-> IF InProgress(c) THEN "killed" ELSE stage[c]]
  /\ handle' = [c \in Calls |-> "none"]
  /\ UNCHANGED <<attempt, status, file, run, summary, history>>

-----------------------------------------------------------------------------
(* The room's process.                                                     *)

\* PROFILE.run returns a result whose provenance will carry the summary, or it
\* fails and nothing is summarized.
ProfileEnds(j) ==
  /\ run[j] = "running"
  /\ \E how \in {"returned", "failed"} : run' = [run EXCEPT ![j] = how]
  /\ late' = late \cup {c \in Calls : JobOf[c] = j /\ InProgress(c)}
  /\ UNCHANGED <<stage, attempt, status, handle, file, summary, upstream, answer,
                 inTime, lost>>

\* summarize_job_inference reads what the file holds (nothing if there is none)
ReadOutcomes(j) ==
  /\ run[j] = "returned"
  /\ summary' = [summary EXCEPT ![j] = IF file[j] = Null THEN <<>> ELSE file[j]]
  /\ run' = [run EXCEPT ![j] = "read"]
  /\ UNCHANGED <<stage, attempt, status, handle, file, history>>

\* and removes the file, under the hands of whoever has it open.
Unlinked(j) ==
  [c \in Calls |-> IF JobOf[c] = j /\ handle[c] = "linked" THEN "unlinked" ELSE handle[c]]

\* Mutant: the file is read but not removed.
KeepFile(j) ==
  /\ run[j] = "read"
  /\ run' = [run EXCEPT ![j] = "summarized"]
  /\ UNCHANGED <<stage, attempt, status, handle, file, summary, history>>

RemoveFile(j) ==
  /\ run[j] = "read"
  /\ file' = [file EXCEPT ![j] = Null]
  /\ handle' = Unlinked(j)
  /\ run' = [run EXCEPT ![j] = "summarized"]
  /\ UNCHANGED <<stage, attempt, status, summary, history>>

-----------------------------------------------------------------------------
Forward(c) ==
  \/ Attempt(c) \/ Retry(c)
  \/ OpenFile(c) \/ WriteLine(c) \/ RecordFails(c)
  \/ Relay(c) \/ RelayFails(c)

Next ==
  \/ \E c \in Calls : Reject(c) \/ Receive(c) \/ Forward(c)
  \/ GatewayDies
  \/ \E j \in Jobs : ProfileEnds(j) \/ ReadOutcomes(j) \/ RemoveFile(j)

\* A backoff sleeps at most a few seconds, and summarizing is a loop over a file.
\* That an attempt ends is an assumption about providers: the timeout of urlopen
\* is per socket operation, so one that keeps trickling its response could hold
\* an attempt forever.  Nothing makes an agent call or a profile end.
Fairness ==
  /\ \A c \in Calls : WF_vars(Forward(c))
  /\ \A j \in Jobs : WF_vars(ReadOutcomes(j)) /\ WF_vars(RemoveFile(j))

Spec == Init /\ [][Next]_vars /\ Fairness

-----------------------------------------------------------------------------
(* Properties.                                                             *)

\* The attested summary cannot miss what the agent was told: a call whose outcome
\* the agent had while the profile was running is in it, with a status the answer
\* follows from (the same one, or unreachable for the gateway's own 502), unless
\* the disk refused the record, and even if the gateway died since.  This is what
\* recording before relaying is for.
AnsweredIsCounted ==
  \A j \in Jobs : summary[j] # Null =>
    \A c \in inTime \ lost : JobOf[c] = j =>
      \E i \in DOMAIN summary[j] :
        /\ summary[j][i].call = c
        /\ \/ answer[c] = summary[j][i].status
           \/ answer[c] = 502 /\ summary[j][i].status = UNREACHABLE

\* A call is counted once, however often it was tried, and a line that made it
\* into a summary is not left in a file for another.
Mentions(s, c) == IF s = Null THEN 0 ELSE Cardinality({i \in DOMAIN s : s[i].call = c})

CountedOnce ==
  \A c \in Calls :
    LET j == JobOf[c] IN
      /\ Mentions(file[j], c) <= 1
      /\ run[j] = "summarized" => Mentions(file[j], c) + Mentions(summary[j], c) <= 1

\* A provider is asked again only after a failure that is transient, never more
\* than MaxAttempts times, and what is recorded is what the last attempt came to.
LastAttemptDecides ==
  \A c \in Calls : upstream[c] # <<>> =>
    /\ Len(upstream[c]) <= MaxAttempts
    /\ \A i \in 1..Len(upstream[c]) - 1 : upstream[c][i] \in Retryable \cup {UNREACHABLE}
    /\ LET result == upstream[c][Len(upstream[c])] IN
         status[c] # Null => status[c] = result

\* An outcome file that is there once the job was summarized was left by calls
\* that were under way when the profile ended, or that came after it, and has
\* the outcomes of no others: none that the summary should have had.
OrphanOnlyFromLateCall ==
  \A j \in Jobs : run[j] = "summarized" /\ file[j] # Null =>
    /\ \E c \in late : JobOf[c] = j
    /\ \A i \in DOMAIN file[j] : file[j][i].call \in late /\ JobOf[file[j][i].call] = j

\* Every call the gateway takes comes to an end.
EveryCallEnds == \A c \in Calls : InProgress(c) ~> ~InProgress(c)

\* What the gateway says of a connection that is dropped or times out before
\* the response (inference_gateway.py:457, "safe to retry", and the record
\* after the last attempt): no call ends unanswered before its attempts are
\* used up.
DropIsRetried == \A c \in Calls : stage[c] = "aborted" => attempt[c] = MaxAttempts

=============================================================================

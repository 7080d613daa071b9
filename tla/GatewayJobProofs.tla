-------------------------- MODULE GatewayJobProofs --------------------------
(***************************************************************************)
(* That the attested summary of a job has every outcome its agent was told *)
(* of in time, each at most once and each the last attempt's, and that a   *)
(* file left behind holds outcomes of late calls only; for any calls, jobs *)
(* and attempts, whenever calls arrive and whenever the gateway dies.      *)
(*                                                                         *)
(* The invariant follows a call through the gateway.  Linked says when it  *)
(* holds the job's file open and what became of that file since, Recorded  *)
(* and Told where its line is by the time its agent has the answer, and    *)
(* Counted that until then it has none.                                    *)
(***************************************************************************)
EXTENDS GatewayJob, FiniteSetTheorems, SequenceTheorems, TLAPS

\* A call has its job's file open while it writes; that file is still the job's, or it
\* was removed when the job was summarized.
Linked ==
  \A c \in Calls :
    /\ stage[c] = "writing" <=> handle[c] # "none"
    /\ handle[c] = "linked" => file[JobOf[c]] # Null
    /\ handle[c] = "unlinked" => run[JobOf[c]] = "summarized"

\* Whatever is in progress when its job is over was so when the profile ended, or came
\* later.
Outlived ==
  /\ \A c \in Calls : run[JobOf[c]] # "running" /\ InProgress(c) => c \in late
  /\ OrphanOnlyFromLateCall

\* The line of a call is among the outcomes s.
Recorded(c, s) == s # Null /\ \E i \in DOMAIN s : s[i] = Line(c)

\* An outcome is recorded before it is relayed, so what was relayed in time is in the
\* file until the room reads it, and in the summary from then on.
Told ==
  /\ \A j \in Jobs : summary[j] # Null => run[j] \in {"read", "summarized"}
  /\ \A c \in Calls :
       /\ stage[c] \in {"recording", "writing", "relaying", "answered"} => status[c] # Null
       /\ c \in inTime => stage[c] = "answered"
       /\ stage[c] = "answered" => answer[c] = AnswerTo(status[c])
       /\ /\ run[JobOf[c]] \in {"running", "returned"}
          /\ stage[c] \in {"relaying", "answered"}
          /\ c \notin lost
          => Recorded(c, file[JobOf[c]])
       /\ c \in inTime \ lost /\ summary[JobOf[c]] # Null => Recorded(c, summary[JobOf[c]])

Absent(c, s) == s # Null => \A i \in DOMAIN s : s[i].call # c
AtMostOnce(c, s) ==
  s # Null => \A i, k \in DOMAIN s : s[i].call = c /\ s[k].call = c => i = k

\* A call has no line before it writes one, and then one at most.
Counted ==
  \A c \in Calls :
    LET j == JobOf[c] IN
      /\ AtMostOnce(c, file[j]) /\ AtMostOnce(c, summary[j])
      /\ stage[c] \in {"unsent", "trying", "backoff", "recording", "writing"} =>
           Absent(c, file[j]) /\ Absent(c, summary[j])
      /\ run[j] = "summarized" => Absent(c, file[j]) \/ Absent(c, summary[j])

AllTransient(c) ==
  \A i \in 1..Len(upstream[c]) : upstream[c][i] \in Retryable \cup {UNREACHABLE}

\* The attempts of a call so far: all of them transient until the one that decides.
Tried ==
  /\ \A c \in Calls :
       /\ stage[c] = "unsent" => upstream[c] = <<>> /\ status[c] = Null
       /\ stage[c] = "trying" =>
            /\ attempt[c] \in 1..MaxAttempts /\ Len(upstream[c]) = attempt[c] - 1
            /\ status[c] = Null /\ AllTransient(c)
       /\ stage[c] = "backoff" =>
            /\ attempt[c] \in 1..MaxAttempts - 1 /\ Len(upstream[c]) = attempt[c]
            /\ status[c] = Null /\ AllTransient(c)
  /\ LastAttemptDecides

IInv == TypeOK /\ Linked /\ Outlived /\ Told /\ Counted /\ Tried

-----------------------------------------------------------------------------
(* Outcomes, and adding one.                                               *)

LEMMA EmptyIsNoNull == <<>> \in Seq(Outcome) /\ <<>> # Null /\ DOMAIN <<>> = {}
<1>1. <<>> \in Seq(Outcome) /\ DOMAIN <<>> = {}
  OBVIOUS
<1> QED BY <1>1, NullAssumption DEF Outcome

LEMMA OneMoreLine ==
  ASSUME NEW s \in Seq(Outcome), NEW line \in Outcome
  PROVE  LET t == Append(s, line) IN
           /\ t \in Seq(Outcome) /\ t # Null
           /\ \A i \in DOMAIN s : i \in DOMAIN t /\ t[i] = s[i]
           /\ \E k \in DOMAIN t : t[k] = line
           /\ \A i \in DOMAIN t \ DOMAIN s : t[i] = line /\ i = Len(s) + 1
<1> DEFINE t == Append(s, line)
<1>1. /\ t \in Seq(Outcome) /\ Len(t) = Len(s) + 1 /\ t[Len(s) + 1] = line
      /\ \A i \in 1..Len(s) : t[i] = s[i]
      /\ DOMAIN s = 1..Len(s) /\ DOMAIN t = 1..Len(s) + 1 /\ Len(s) \in Nat
  BY AppendProperties
<1>2. t # Null
  BY <1>1, NullAssumption DEF Outcome
<1> HIDE DEF t
<1> QED BY <1>1, <1>2 DEF t

\* Its line added, a call that had none has one, and others what they had.
LEMMA AddedLine ==
  ASSUME NEW s \in Seq(Outcome), NEW c \in Calls, Line(c) \in Outcome
  PROVE  /\ Append(s, Line(c)) \in Seq(Outcome) /\ Append(s, Line(c)) # Null
         /\ Recorded(c, Append(s, Line(c)))
         /\ Absent(c, s) => AtMostOnce(c, Append(s, Line(c)))
         /\ \A d \in Calls : Recorded(d, s) => Recorded(d, Append(s, Line(c)))
         /\ \A d \in Calls \ {c} : AtMostOnce(d, s) => AtMostOnce(d, Append(s, Line(c)))
         /\ \A d \in Calls \ {c} : Absent(d, s) => Absent(d, Append(s, Line(c)))
         /\ \A i \in DOMAIN Append(s, Line(c)) :
              \/ Append(s, Line(c))[i] = Line(c)
              \/ i \in DOMAIN s /\ Append(s, Line(c))[i] = s[i]
<1> DEFINE t == Append(s, Line(c))
<1>1. /\ t \in Seq(Outcome) /\ t # Null
      /\ \A i \in DOMAIN s : i \in DOMAIN t /\ t[i] = s[i]
      /\ \E k \in DOMAIN t : t[k] = Line(c)
      /\ \A i \in DOMAIN t \ DOMAIN s : t[i] = Line(c) /\ i = Len(s) + 1
  BY OneMoreLine
<1>2. s # Null
  BY NullAssumption DEF Outcome
<1>3. Line(c).call = c
  BY DEF Line
<1> HIDE DEF t
<1>4. Recorded(c, t)
  BY <1>1 DEF Recorded
<1>5. Absent(c, s) => AtMostOnce(c, t)
  BY <1>1, <1>2 DEF Absent, AtMostOnce
<1>6. \A d \in Calls : Recorded(d, s) => Recorded(d, t)
  BY <1>1 DEF Recorded
<1>7. \A d \in Calls \ {c} : AtMostOnce(d, s) => AtMostOnce(d, t)
  BY <1>1, <1>2, <1>3 DEF AtMostOnce
<1>8. \A d \in Calls \ {c} : Absent(d, s) => Absent(d, t)
  BY <1>1, <1>2, <1>3 DEF Absent
<1>9. \A i \in DOMAIN t : t[i] = Line(c) \/ (i \in DOMAIN s /\ t[i] = s[i])
  BY <1>1
<1> QED BY <1>1, <1>4, <1>5, <1>6, <1>7, <1>8, <1>9 DEF t

-----------------------------------------------------------------------------
(* The invariant at the start, and through each step.                      *)

LEMMA InitInv == Init => IInv
<1> SUFFICES ASSUME Init PROVE IInv
  OBVIOUS
<1>1. TypeOK
  BY EmptyIsNoNull, AttemptsAssumption DEF Init, TypeOK, Stages
<1>2. Linked /\ Outlived
  BY CallsAssumption DEF Init, Linked, Outlived, OrphanOnlyFromLateCall
<1>3. Told
  BY CallsAssumption DEF Init, Told
<1>4. Counted
  BY CallsAssumption DEF Init, Counted, AtMostOnce, Absent
<1>5. Tried
  BY DEF Init, Tried, LastAttemptDecides
<1> QED BY <1>1, <1>2, <1>3, <1>4, <1>5 DEF IInv

\* Nobody's answer but c's changes.
OthersAnswered(c) == \A d \in Calls \ {c} : answer'[d] = answer[d]

\* A step that takes a call to stage s, where its outcome is not recorded yet.
Advances(c, s) ==
  /\ stage[c] \in {"unsent", "trying", "backoff"}
  /\ stage' = [stage EXCEPT ![c] = s]
  /\ \A d \in Calls \ {c} : status'[d] = status[d]
  /\ s = "recording" => status'[c] # Null
  /\ \/ stage[c] # "unsent" \/ s = "rejected"
     \/ run[JobOf[c]] = "running" \/ c \in late'
  /\ \A d \in late : d \in late'
  /\ OthersAnswered(c)
  /\ UNCHANGED <<handle, file, run, summary, inTime, lost>>

\* Before a call's outcome is recorded, it touches nothing that others see.
LEMMA BeforeRecording ==
  ASSUME IInv, NEW c \in Calls,
         NEW s \in {"trying", "backoff", "recording", "aborted", "rejected"},
         Advances(c, s)
  PROVE  Linked' /\ Outlived' /\ Told' /\ Counted'
<1>0. /\ stage[c] \in {"unsent", "trying", "backoff"}
      /\ stage' = [stage EXCEPT ![c] = s]
      /\ \A d \in Calls \ {c} : status'[d] = status[d]
      /\ s = "recording" => status'[c] # Null
      /\ \/ stage[c] # "unsent" \/ s = "rejected"
         \/ run[JobOf[c]] = "running" \/ c \in late'
      /\ \A d \in late : d \in late'
      /\ OthersAnswered(c)
      /\ UNCHANGED <<handle, file, run, summary, inTime, lost>>
  BY DEF Advances
<1>1. /\ stage'[c] = s /\ \A d \in Calls \ {c} : stage'[d] = stage[d]
      /\ JobOf[c] \in Jobs
  <2>1. stage \in [Calls -> Stages]
    BY DEF IInv, TypeOK
  <2> QED BY <1>0, <2>1, CallsAssumption
<1>2. Linked'
  BY <1>0, <1>1 DEF IInv, Linked
<1>3. Outlived'
  <2>1. \A d \in Calls \ {c} : InProgress(d)' = InProgress(d)
    BY <1>1 DEF InProgress
  <2>2. run[JobOf[c]] # "running" /\ s # "rejected" => c \in late'
    BY <1>0 DEF IInv, Outlived, InProgress
  <2>3. \A d \in Calls : run[JobOf[d]] # "running" /\ InProgress(d)' => d \in late'
    BY <1>0, <1>1, <2>1, <2>2 DEF IInv, Outlived, InProgress
  <2>4. OrphanOnlyFromLateCall'
    BY <1>0 DEF IInv, Outlived, OrphanOnlyFromLateCall
  <2> QED BY <1>0, <2>3, <2>4 DEF Outlived
<1>4. Told'
  <2>1. c \notin inTime
    BY <1>0 DEF IInv, Told
  <2>2. \A d \in Calls \ {c} : /\ Recorded(d, file[JobOf[d]])' <=> Recorded(d, file[JobOf[d]])
                               /\ Recorded(d, summary[JobOf[d]])' <=> Recorded(d, summary[JobOf[d]])
    BY <1>0 DEF Recorded, Line
  <2> QED BY <1>0, <1>1, <2>1, <2>2 DEF IInv, Told, OthersAnswered
<1>5. Counted'
  BY <1>0, <1>1 DEF IInv, Counted, AtMostOnce, Absent
<1> QED BY <1>2, <1>3, <1>4, <1>5

\* Attempts are only counted, and answers only decided, before the recording.
LEMMA TriedIsKept ==
  ASSUME IInv, UNCHANGED <<attempt, status, upstream>>,
         \A c \in Calls : stage'[c] \in {"unsent", "trying", "backoff"} => stage'[c] = stage[c]
  PROVE  Tried'
BY DEF IInv, Tried, AllTransient, LastAttemptDecides

LEMMA RejectInv ==
  ASSUME IInv, NEW c \in Calls, Reject(c)
  PROVE  IInv'
<1>1. stage[c] = "unsent" /\ stage' = [stage EXCEPT ![c] = "rejected"]
      /\ UNCHANGED <<attempt, status, handle, file, run, summary, upstream, inTime, late, lost>>
  BY DEF Reject, Goto
<1>5. PICK st \in {403, 413} : answer' = [answer EXCEPT ![c] = st]
  BY DEF Reject
<1>2. TypeOK'
  <2>1. answer' \in [Calls -> Statuses \cup {401, 403, 413, 502, Null}]
    BY <1>5 DEF IInv, TypeOK
  <2> QED BY <1>1, <2>1 DEF IInv, TypeOK, Stages
<1>3. Linked' /\ Outlived' /\ Told' /\ Counted'
  <2>1. OthersAnswered(c)
    BY <1>5 DEF IInv, TypeOK, OthersAnswered
  <2>2. \A d \in Calls \ {c} : status'[d] = status[d]
    BY <1>1
  <2>3. \A d \in late : d \in late'
    BY <1>1
  <2>4. Advances(c, "rejected")
    BY <1>1, <2>1, <2>2, <2>3 DEF Advances
  <2> QED BY <2>4, BeforeRecording
<1>4. Tried'
  BY <1>1, TriedIsKept DEF IInv, TypeOK
<1> QED BY <1>2, <1>3, <1>4 DEF IInv

LEMMA ReceiveInv ==
  ASSUME IInv, NEW c \in Calls, Receive(c)
  PROVE  IInv'
<1>1. stage[c] = "unsent"
      /\ UNCHANGED <<handle, file, run, summary, upstream, answer, inTime, lost>>
  BY DEF Receive
<1>5. /\ \A d \in late : d \in late'
      /\ late' \subseteq Calls
      /\ run[JobOf[c]] # "running" => c \in late'
  BY DEF Receive, IInv, TypeOK
<1>2. upstream[c] = <<>> /\ status[c] = Null
  BY <1>1 DEF IInv, Tried
<1>3. ASSUME NEW st \in {401, 502}, Conclude(c, st), UNCHANGED attempt
      PROVE  IInv'
  <2>1. stage' = [stage EXCEPT ![c] = "recording"] /\ status' = [status EXCEPT ![c] = st]
    BY <1>3 DEF Conclude, Goto
  <2>2. TypeOK'
    <3>1. stage' \in [Calls -> Stages]
      BY <2>1 DEF IInv, TypeOK, Stages
    <3>2. st \in Statuses \cup {UNREACHABLE, 401, 502, Null}
      OBVIOUS
    <3>3. status' \in [Calls -> Statuses \cup {UNREACHABLE, 401, 502, Null}]
      BY <2>1, <3>2 DEF IInv, TypeOK
    <3> QED BY <1>1, <1>3, <1>5, <3>1, <3>3 DEF IInv, TypeOK
  <2>3. status'[c] # Null /\ \A d \in Calls \ {c} : status'[d] = status[d]
    <3>1. DOMAIN status = Calls
      BY DEF IInv, TypeOK
    <3>2. status'[c] = st /\ \A d \in Calls \ {c} : status'[d] = status[d]
      BY <2>1, <3>1
    <3>3. st # Null
      BY NullAssumption
    <3> QED BY <3>2, <3>3
  <2>4. Linked' /\ Outlived' /\ Told' /\ Counted'
    <3>1. OthersAnswered(c)
      BY <1>1 DEF OthersAnswered
    <3>2. stage' = [stage EXCEPT ![c] = "recording"]
      BY <2>1
    <3>3. Advances(c, "recording")
      BY <1>1, <1>5, <2>3, <3>1, <3>2 DEF Advances
    <3> QED BY <3>3, BeforeRecording
  <2>5. Tried'
    <3>1. stage'[c] = "recording" /\ \A d \in Calls \ {c} : stage'[d] = stage[d]
      BY <2>1 DEF IInv, TypeOK
    <3>2. \A d \in Calls \ {c} : AllTransient(d)' <=> AllTransient(d)
      BY <1>1 DEF AllTransient
    <3>3. LastAttemptDecides'
      BY <1>1, <1>2, <2>3 DEF IInv, Tried, LastAttemptDecides
    <3> QED BY <1>1, <1>3, <2>3, <3>1, <3>2, <3>3 DEF IInv, Tried
  <2> QED BY <2>2, <2>4, <2>5 DEF IInv
<1>4. ASSUME attempt' = [attempt EXCEPT ![c] = 1], Goto(c, "trying"), UNCHANGED status
      PROVE  IInv'
  <2>1. stage' = [stage EXCEPT ![c] = "trying"]
    BY <1>4 DEF Goto
  <2>2. TypeOK'
    BY <1>1, <1>4, <1>5, <2>1, AttemptsAssumption DEF IInv, TypeOK, Stages
  <2>3. Linked' /\ Outlived' /\ Told' /\ Counted'
    <3>1. Advances(c, "trying")
      BY <1>1, <1>4, <1>5, <2>1 DEF Advances, OthersAnswered
    <3> QED BY <3>1, BeforeRecording
  <2>4. Tried'
    BY <1>1, <1>2, <1>4, <2>1, AttemptsAssumption
       DEF IInv, TypeOK, Tried, AllTransient, LastAttemptDecides
  <2> QED BY <2>2, <2>3, <2>4 DEF IInv
<1> QED BY <1>3, <1>4 DEF Receive

LEMMA AttemptInv ==
  ASSUME IInv, NEW c \in Calls, Attempt(c)
  PROVE  IInv'
<1>1. PICK result \in Statuses \cup {UNREACHABLE, DROPPED} :
        AfterAttempt(c, result) /\ upstream' = [upstream EXCEPT ![c] = Append(@, result)]
  BY DEF Attempt
<1>2. stage[c] = "trying" /\ UNCHANGED <<attempt, handle, file, run, summary, answer, inTime, late, lost>>
  BY DEF Attempt
<1> DEFINE Results == Statuses \cup {UNREACHABLE, DROPPED}
<1>3. /\ upstream[c] \in Seq(Results) /\ attempt[c] \in 1..MaxAttempts
      /\ Len(upstream[c]) = attempt[c] - 1 /\ status[c] = Null /\ AllTransient(c)
  BY <1>2 DEF IInv, TypeOK, Tried
<1>4. /\ upstream'[c] \in Seq(Results) /\ Len(upstream'[c]) = attempt[c]
      /\ upstream'[c][attempt[c]] = result
      /\ \A i \in 1..attempt[c] - 1 : upstream'[c][i] = upstream[c][i]
      /\ \A d \in Calls \ {c} : upstream'[d] = upstream[d]
  <2>1. upstream'[c] = Append(upstream[c], result)
    BY <1>1 DEF IInv, TypeOK
  <2>2. \A d \in Calls \ {c} : upstream'[d] = upstream[d]
    BY <1>1 DEF IInv, TypeOK
  <2>3. attempt[c] - 1 + 1 = attempt[c]
    BY <1>3, AttemptsAssumption
  <2> QED BY <1>3, <2>1, <2>2, <2>3, AppendProperties
\* What becomes of the call: another attempt, an outcome, or neither.
<1>5. \/ /\ stage' = [stage EXCEPT ![c] = "backoff"] /\ UNCHANGED status
         /\ attempt[c] \in 1..MaxAttempts - 1 /\ result \in Retryable \cup {UNREACHABLE}
      \/ /\ stage' = [stage EXCEPT ![c] = "recording"] /\ status' = [status EXCEPT ![c] = result]
         /\ result \in Statuses \cup {UNREACHABLE}
      \/ stage' = [stage EXCEPT ![c] = "aborted"] /\ UNCHANGED status
  BY <1>1, <1>3, AttemptsAssumption DEF AfterAttempt, Retries, Conclude, Goto
<1>6. result \in Int /\ result # Null
  BY AttemptsAssumption, NullAssumption DEF UNREACHABLE, DROPPED
<1>7. TypeOK'
  <2>1. upstream' \in [Calls -> Seq(Results)]
    BY <1>1, <1>4 DEF IInv, TypeOK
  <2>2. stage' \in [Calls -> Stages]
    <3>1. PICK s \in {"backoff", "recording", "aborted"} : stage' = [stage EXCEPT ![c] = s]
      BY <1>5
    <3>2. stage \in [Calls -> Stages] /\ s \in Stages
      BY DEF IInv, TypeOK, Stages
    <3> QED BY <3>1, <3>2
  <2>3. status' \in [Calls -> Statuses \cup {UNREACHABLE, 401, 502, Null}]
    BY <1>5 DEF IInv, TypeOK
  <2> QED BY <1>2, <2>1, <2>2, <2>3 DEF IInv, TypeOK
<1>8. Linked' /\ Outlived' /\ Told' /\ Counted'
  <2>1. \A d \in Calls \ {c} : status'[d] = status[d]
    BY <1>5 DEF IInv, TypeOK
  <2>2. stage' = [stage EXCEPT ![c] = "recording"] => status'[c] = result
    BY <1>5 DEF IInv, TypeOK
  <2>6. OthersAnswered(c)
    BY <1>2 DEF OthersAnswered
  <2>3. PICK s \in {"backoff", "recording", "aborted"} : stage' = [stage EXCEPT ![c] = s]
    BY <1>5
  <2>4. s = "recording" => status'[c] # Null
    BY <1>6, <2>2, <2>3
  <2>5. Advances(c, s)
    BY <1>2, <2>1, <2>3, <2>4, <2>6 DEF Advances
  <2> QED BY <2>5, BeforeRecording
<1>9. Tried'
  <2>1. \A i \in 1..attempt[c] - 1 : upstream'[c][i] \in Retryable \cup {UNREACHABLE}
    BY <1>3, <1>4 DEF AllTransient
  <2>2. ASSUME NEW d \in Calls \ {c}
        PROVE  /\ stage'[d] = stage[d] /\ status'[d] = status[d] /\ attempt'[d] = attempt[d]
               /\ upstream'[d] = upstream[d]
    BY <1>2, <1>4, <1>5 DEF IInv, TypeOK
  <2>3. /\ stage'[c] \in {"backoff", "recording", "aborted"} /\ attempt'[c] = attempt[c]
        /\ stage'[c] = "backoff" =>
             attempt[c] \in 1..MaxAttempts - 1 /\ result \in Retryable \cup {UNREACHABLE}
        /\ stage'[c] = "backoff" => status'[c] = Null
        /\ status'[c] # Null => status'[c] = result
    BY <1>2, <1>3, <1>5 DEF IInv, TypeOK
  <2>4. stage'[c] = "backoff" => AllTransient(c)'
    BY <1>3, <1>4, <2>1, <2>3 DEF AllTransient
  <2>5. LastAttemptDecides'
    <3>1. ASSUME NEW d \in Calls \ {c}
          PROVE  upstream'[d] # <<>> =>
                   /\ Len(upstream'[d]) <= MaxAttempts
                   /\ \A i \in 1..Len(upstream'[d]) - 1 : upstream'[d][i] \in Retryable \cup {UNREACHABLE}
                   /\ status'[d] # Null => status'[d] = upstream'[d][Len(upstream'[d])]
      BY <2>2 DEF IInv, Tried, LastAttemptDecides
    <3>2. /\ Len(upstream'[c]) <= MaxAttempts
          /\ \A i \in 1..Len(upstream'[c]) - 1 : upstream'[c][i] \in Retryable \cup {UNREACHABLE}
          /\ status'[c] # Null => status'[c] = upstream'[c][Len(upstream'[c])]
      BY <1>3, <1>4, <2>1, <2>3, AttemptsAssumption
    <3> QED BY <3>1, <3>2 DEF LastAttemptDecides
  <2>6. ASSUME NEW d \in Calls \ {c}
        PROVE  AllTransient(d)' <=> AllTransient(d)
    BY <2>2 DEF AllTransient
  <2> QED BY <1>4, <2>2, <2>3, <2>4, <2>5, <2>6 DEF IInv, Tried
<1> QED BY <1>7, <1>8, <1>9 DEF IInv

LEMMA RetryInv ==
  ASSUME IInv, NEW c \in Calls, Retry(c)
  PROVE  IInv'
<1>1. stage[c] = "backoff" /\ stage' = [stage EXCEPT ![c] = "trying"]
      /\ attempt' = [attempt EXCEPT ![c] = attempt[c] + 1]
      /\ UNCHANGED <<status, handle, file, run, summary, upstream, answer, inTime, late, lost>>
  BY DEF Retry, Goto, history
<1>2. attempt[c] \in 1..MaxAttempts - 1 /\ attempt[c] + 1 \in 1..MaxAttempts
  BY <1>1, AttemptsAssumption DEF IInv, Tried
<1>3. TypeOK'
  BY <1>1, <1>2, AttemptsAssumption DEF IInv, TypeOK, Stages
<1>4. Linked' /\ Outlived' /\ Told' /\ Counted'
  <2>1. Advances(c, "trying")
    BY <1>1 DEF Advances, OthersAnswered
  <2> QED BY <2>1, BeforeRecording
<1>5. Tried'
  <2>1. /\ stage'[c] = "trying" /\ attempt'[c] = attempt[c] + 1
        /\ \A d \in Calls \ {c} : stage'[d] = stage[d] /\ attempt'[d] = attempt[d]
    BY <1>1 DEF IInv, TypeOK
  <2>2. Len(upstream[c]) = attempt'[c] - 1 /\ status[c] = Null /\ AllTransient(c)
    BY <1>1, <1>2, <2>1, AttemptsAssumption DEF IInv, Tried
  <2> QED
    BY <1>1, <1>2, <2>1, <2>2 DEF IInv, Tried, AllTransient, LastAttemptDecides
<1> QED BY <1>3, <1>4, <1>5 DEF IInv

LEMMA OpenFileInv ==
  ASSUME IInv, NEW c \in Calls, OpenFile(c)
  PROVE  IInv'
<1> DEFINE j == JobOf[c]
<1>1. stage[c] = "recording" /\ stage' = [stage EXCEPT ![c] = "writing"]
      /\ handle' = [handle EXCEPT ![c] = "linked"]
      /\ file' = [file EXCEPT ![j] = IF file[j] = Null THEN <<>> ELSE file[j]]
      /\ UNCHANGED <<attempt, status, run, summary, upstream, answer, inTime, late, lost>>
  BY DEF OpenFile, Goto, history
<1>2. j \in Jobs /\ \A d \in Calls : JobOf[d] \in Jobs
  BY CallsAssumption
<1>3. /\ stage'[c] = "writing" /\ handle'[c] = "linked"
      /\ \A d \in Calls \ {c} : stage'[d] = stage[d] /\ handle'[d] = handle[d]
  BY <1>1 DEF IInv, TypeOK
<1>4. /\ file' \in [Jobs -> Seq(Outcome) \cup {Null}] /\ file'[j] # Null
      /\ \A k \in Jobs : file[k] # Null => file'[k] = file[k]
      /\ \A k \in Jobs : file[k] = Null => file'[k] = Null \/ (k = j /\ file'[k] = <<>>)
  BY <1>1, <1>2, EmptyIsNoNull DEF IInv, TypeOK
<1>5. TypeOK'
  BY <1>1, <1>4 DEF IInv, TypeOK, Stages
<1>6. Linked'
  BY <1>1, <1>2, <1>3, <1>4 DEF IInv, Linked
<1>7. Outlived'
  <2>1. \A d \in Calls : InProgress(d)' <=> InProgress(d)
    BY <1>1, <1>3 DEF InProgress
  <2>2. run[j] # "running" => c \in late
    BY <1>1 DEF IInv, Outlived, InProgress
  <2>3. \A k \in Jobs : run[k] = "summarized" /\ file'[k] # Null =>
          /\ \E d \in late : JobOf[d] = k
          /\ \A i \in DOMAIN file'[k] : file'[k][i].call \in late /\ JobOf[file'[k][i].call] = k
    <3> SUFFICES ASSUME NEW k \in Jobs, run[k] = "summarized", file'[k] # Null
                 PROVE  /\ \E d \in late : JobOf[d] = k
                        /\ \A i \in DOMAIN file'[k] : /\ file'[k][i].call \in late
                                                      /\ JobOf[file'[k][i].call] = k
      OBVIOUS
    <3>1. CASE file[k] # Null
      BY <1>4, <3>1 DEF IInv, Outlived, OrphanOnlyFromLateCall
    <3>2. CASE file[k] = Null
      BY <1>4, <2>2, <3>2, EmptyIsNoNull
    <3> QED BY <3>1, <3>2
  <2> QED BY <1>1, <2>1, <2>3 DEF IInv, Outlived, OrphanOnlyFromLateCall
<1>8. Told'
  <2>1. \A d \in Calls : Recorded(d, file[JobOf[d]]) => Recorded(d, file[JobOf[d]])'
    BY <1>1, <1>2, <1>4 DEF Recorded, Line
  <2>2. \A d \in Calls : Recorded(d, summary[JobOf[d]]) => Recorded(d, summary[JobOf[d]])'
    BY <1>1 DEF Recorded, Line
  <2> QED BY <1>1, <1>3, <2>1, <2>2 DEF IInv, Told
<1>9. Counted'
  <2>1. \A d \in Calls : Absent(d, file[JobOf[d]]) => Absent(d, file'[JobOf[d]])
    BY <1>2, <1>4, EmptyIsNoNull DEF Absent
  <2>2. \A d \in Calls : AtMostOnce(d, file[JobOf[d]]) => AtMostOnce(d, file'[JobOf[d]])
    BY <1>2, <1>4, EmptyIsNoNull DEF AtMostOnce
  <2> QED BY <1>1, <1>3, <2>1, <2>2 DEF IInv, Counted
<1>10. Tried'
  BY <1>1, <1>3, TriedIsKept
<1> QED BY <1>5, <1>6, <1>7, <1>8, <1>9, <1>10 DEF IInv

\* The write goes to the job's file, or to one that was removed and counts for nothing.
LEMMA WriteLineInv ==
  ASSUME IInv, NEW c \in Calls, WriteLine(c)
  PROVE  IInv'
<1> DEFINE j == JobOf[c]
           longer == Append(file[j], Line(c))
<1>1. stage[c] = "writing" /\ stage' = [stage EXCEPT ![c] = "relaying"]
      /\ handle' = [handle EXCEPT ![c] = "none"]
      /\ file' = [file EXCEPT ![j] = IF handle[c] = "linked" THEN longer ELSE file[j]]
      /\ UNCHANGED <<attempt, status, run, summary, upstream, answer, inTime, late, lost>>
  BY DEF WriteLine, Goto, history
<1>2. j \in Jobs /\ \A d \in Calls : JobOf[d] \in Jobs
  BY CallsAssumption
<1>3. /\ stage'[c] = "relaying" /\ handle'[c] = "none"
      /\ \A d \in Calls \ {c} : stage'[d] = stage[d] /\ handle'[d] = handle[d]
  BY <1>1 DEF IInv, TypeOK
<1>4. Line(c) \in Outcome
  <2>1. status[c] # Null /\ status[c] \in Statuses \cup {UNREACHABLE, 401, 502, Null}
    BY <1>1 DEF IInv, TypeOK, Told
  <2>2. \A st \in Statuses : st \in Int
    BY AttemptsAssumption
  <2>3. status[c] \in Int
    BY <2>1, <2>2 DEF UNREACHABLE
  <2> QED BY <2>3 DEF Line, Outcome
<1>5. handle[c] = "linked" => file[j] \in Seq(Outcome)
  BY <1>2 DEF IInv, TypeOK, Linked
<1>6. Absent(c, file[j]) /\ Absent(c, summary[j])
  BY <1>1 DEF IInv, Counted
\* What the file of the call's job holds afterwards.
<1>7. /\ file' \in [Jobs -> Seq(Outcome) \cup {Null}]
      /\ file'[j] = Null <=> file[j] = Null
      /\ \A k \in Jobs \ {j} : file'[k] = file[k]
      /\ AtMostOnce(c, file'[j])
      /\ handle[c] = "linked" => Recorded(c, file'[j])
      /\ handle[c] # "linked" => file'[j] = file[j]
      /\ \A d \in Calls : Recorded(d, file[j]) => Recorded(d, file'[j])
      /\ \A d \in Calls \ {c} : AtMostOnce(d, file[j]) => AtMostOnce(d, file'[j])
      /\ \A d \in Calls \ {c} : Absent(d, file[j]) => Absent(d, file'[j])
      /\ file[j] # Null => \A i \in DOMAIN file'[j] :
           file'[j][i] = Line(c) \/ (i \in DOMAIN file[j] /\ file'[j][i] = file[j][i])
  <2>1. CASE handle[c] = "linked"
    <3>1. file' = [file EXCEPT ![j] = longer]
      BY <1>1, <2>1
    <3>2. file[j] \in Seq(Outcome) /\ file[j] # Null
      BY <1>5, <2>1 DEF IInv, Linked
    <3>3. /\ longer \in Seq(Outcome) /\ longer # Null /\ Recorded(c, longer)
          /\ Absent(c, file[j]) => AtMostOnce(c, longer)
          /\ \A d \in Calls : Recorded(d, file[j]) => Recorded(d, longer)
          /\ \A d \in Calls \ {c} : AtMostOnce(d, file[j]) => AtMostOnce(d, longer)
          /\ \A d \in Calls \ {c} : Absent(d, file[j]) => Absent(d, longer)
          /\ \A i \in DOMAIN longer : longer[i] = Line(c) \/ (i \in DOMAIN file[j] /\ longer[i] = file[j][i])
      BY <1>4, <3>2, AddedLine
    <3> HIDE DEF longer
    <3>4. /\ file' \in [Jobs -> Seq(Outcome) \cup {Null}] /\ file'[j] = longer
          /\ \A k \in Jobs \ {j} : file'[k] = file[k]
      BY <1>2, <3>1, <3>3 DEF IInv, TypeOK
    <3> QED BY <1>6, <2>1, <3>2, <3>3, <3>4
  <2>2. CASE handle[c] # "linked"
    <3>1. file' = file
      BY <1>1, <1>2, <2>2 DEF IInv, TypeOK
    <3>2. AtMostOnce(c, file[j])
      BY DEF IInv, Counted
    <3> QED BY <2>2, <3>1, <3>2 DEF IInv, TypeOK
  <2> QED BY <2>1, <2>2
<1> HIDE DEF longer
<1>8. TypeOK'
  BY <1>1, <1>7 DEF IInv, TypeOK, Stages
<1>9. Linked'
  BY <1>1, <1>2, <1>3, <1>7 DEF IInv, Linked
<1>10. Outlived'
  <2>1. \A d \in Calls : InProgress(d)' <=> InProgress(d)
    BY <1>1, <1>3 DEF InProgress
  <2>2. run[j] # "running" => c \in late
    BY <1>1 DEF IInv, Outlived, InProgress
  <2>3. Line(c).call = c
    BY DEF Line
  <2>4. \A k \in Jobs : run[k] = "summarized" /\ file'[k] # Null =>
          /\ \E d \in late : JobOf[d] = k
          /\ \A i \in DOMAIN file'[k] : file'[k][i].call \in late /\ JobOf[file'[k][i].call] = k
    <3> SUFFICES ASSUME NEW k \in Jobs, run[k] = "summarized", file'[k] # Null
                 PROVE  /\ \E d \in late : JobOf[d] = k
                        /\ \A i \in DOMAIN file'[k] : /\ file'[k][i].call \in late
                                                      /\ JobOf[file'[k][i].call] = k
      OBVIOUS
    <3>1. file[k] # Null
      BY <1>7
    <3>2. /\ \E d \in late : JobOf[d] = k
          /\ \A i \in DOMAIN file[k] : file[k][i].call \in late /\ JobOf[file[k][i].call] = k
      BY <3>1 DEF IInv, Outlived, OrphanOnlyFromLateCall
    <3>3. CASE k = j
      <4> SUFFICES ASSUME NEW i \in DOMAIN file'[j]
                   PROVE  file'[j][i].call \in late /\ JobOf[file'[j][i].call] = j
        BY <3>2, <3>3
      <4>1. file'[j][i] = Line(c) \/ (i \in DOMAIN file[j] /\ file'[j][i] = file[j][i])
        BY <1>7, <3>1, <3>3
      <4> QED BY <2>2, <2>3, <3>2, <3>3, <4>1
    <3>4. CASE k # j
      BY <1>7, <3>2, <3>4
    <3> QED BY <3>3, <3>4
  <2> QED BY <1>1, <2>1, <2>4 DEF IInv, Outlived, OrphanOnlyFromLateCall
<1>11. Told'
  <2>1. \A d \in Calls : Recorded(d, file[JobOf[d]]) => Recorded(d, file'[JobOf[d]])
    BY <1>2, <1>7
  <2>2. run[j] \in {"running", "returned"} => handle[c] = "linked"
    BY <1>1, <1>2 DEF IInv, TypeOK, Linked
  <2>3. \A d \in Calls : (Recorded(d, file[JobOf[d]]))' <=> Recorded(d, file'[JobOf[d]])
    BY <1>1 DEF Recorded, Line
  <2>4. \A d \in Calls : (Recorded(d, summary[JobOf[d]]))' <=> Recorded(d, summary[JobOf[d]])
    BY <1>1 DEF Recorded, Line
  <2> QED BY <1>1, <1>3, <1>7, <2>1, <2>2, <2>3, <2>4 DEF IInv, Told
<1>12. Counted'
  <2>1. /\ \A d \in Calls : AtMostOnce(d, file'[JobOf[d]])
        /\ \A d \in Calls \ {c} : Absent(d, file[JobOf[d]]) => Absent(d, file'[JobOf[d]])
    BY <1>2, <1>7 DEF IInv, Counted
  <2> QED BY <1>1, <1>3, <1>6, <2>1 DEF IInv, Counted
<1>13. Tried'
  BY <1>1, <1>3, TriedIsKept
<1> QED BY <1>8, <1>9, <1>10, <1>11, <1>12, <1>13 DEF IInv

\* The rest of a call, and its loss, leave the files and summaries as they are.
LEMMA RecordFailsInv ==
  ASSUME IInv, NEW c \in Calls, RecordFails(c)
  PROVE  IInv'
<1>1. stage[c] \in {"recording", "writing"} /\ stage' = [stage EXCEPT ![c] = "relaying"]
      /\ handle' = [handle EXCEPT ![c] = "none"] /\ lost' = lost \cup {c}
      /\ UNCHANGED <<attempt, status, file, run, summary, upstream, answer, inTime, late>>
  BY DEF RecordFails, Goto
<1>2. /\ stage'[c] = "relaying" /\ handle'[c] = "none"
      /\ \A d \in Calls \ {c} : stage'[d] = stage[d] /\ handle'[d] = handle[d]
  BY <1>1 DEF IInv, TypeOK
<1>3. TypeOK' /\ Linked'
  BY <1>1, <1>2 DEF IInv, TypeOK, Stages, Linked
<1>4. Outlived'
  BY <1>1, <1>2 DEF IInv, Outlived, OrphanOnlyFromLateCall, InProgress
<1>5. Told'
  BY <1>1, <1>2 DEF IInv, Told, Recorded, Line
<1>6. Counted'
  BY <1>1, <1>2 DEF IInv, Counted, Absent, AtMostOnce
<1>7. Tried'
  BY <1>1, <1>2, TriedIsKept
<1> QED BY <1>3, <1>4, <1>5, <1>6, <1>7 DEF IInv

LEMMA RelayInv ==
  ASSUME IInv, NEW c \in Calls, Relay(c)
  PROVE  IInv'
<1>1. stage[c] = "relaying" /\ stage' = [stage EXCEPT ![c] = "answered"]
      /\ inTime' = (IF run[JobOf[c]] = "running" THEN inTime \cup {c} ELSE inTime)
      /\ answer' = [answer EXCEPT ![c] = AnswerTo(status[c])]
      /\ UNCHANGED <<attempt, status, handle, file, run, summary, upstream, late, lost>>
  BY DEF Relay, Goto
<1>2. stage'[c] = "answered" /\ \A d \in Calls \ {c} : stage'[d] = stage[d]
  BY <1>1 DEF IInv, TypeOK
<1>8. answer'[c] = AnswerTo(status[c]) /\ \A d \in Calls \ {c} : answer'[d] = answer[d]
  BY <1>1 DEF IInv, TypeOK
<1>3. TypeOK' /\ Linked'
  <2>1. AnswerTo(status[c]) \in Statuses \cup {401, 403, 413, 502, Null}
    BY DEF IInv, TypeOK, AnswerTo
  <2>2. answer' \in [Calls -> Statuses \cup {401, 403, 413, 502, Null}]
    BY <1>1, <2>1 DEF IInv, TypeOK
  <2> QED BY <1>1, <1>2, <2>2 DEF IInv, TypeOK, Stages, Linked
<1>4. Outlived'
  BY <1>1, <1>2 DEF IInv, Outlived, OrphanOnlyFromLateCall, InProgress
<1>5. Told'
  <2>1. run[JobOf[c]] = "running" => summary[JobOf[c]] = Null
    BY CallsAssumption DEF IInv, Told
  <2>2. \A d \in Calls : /\ Recorded(d, file[JobOf[d]])' <=> Recorded(d, file[JobOf[d]])
                         /\ Recorded(d, summary[JobOf[d]])' <=> Recorded(d, summary[JobOf[d]])
    BY <1>1 DEF Recorded, Line
  <2>3. \A d \in Calls : stage'[d] = "answered" => answer'[d] = AnswerTo(status[d])
    BY <1>2, <1>8 DEF IInv, Told
  <2> QED BY <1>1, <1>2, <2>1, <2>2, <2>3 DEF IInv, Told
<1>6. Counted'
  BY <1>1, <1>2 DEF IInv, Counted, Absent, AtMostOnce
<1>7. Tried'
  BY <1>1, <1>2, TriedIsKept
<1> QED BY <1>3, <1>4, <1>5, <1>6, <1>7 DEF IInv

\* A call whose answer does not get through was recorded all the same.
LEMMA RelayFailsInv ==
  ASSUME IInv, NEW c \in Calls, RelayFails(c)
  PROVE  IInv'
<1>1. stage[c] = "relaying" /\ stage' = [stage EXCEPT ![c] = "unanswered"]
      /\ UNCHANGED <<attempt, status, handle, file, run, summary, upstream, answer,
                     inTime, late, lost>>
  BY DEF RelayFails, Goto, history
<1>2. stage'[c] = "unanswered" /\ \A d \in Calls \ {c} : stage'[d] = stage[d]
  BY <1>1 DEF IInv, TypeOK
<1>3. TypeOK' /\ Linked'
  BY <1>1, <1>2 DEF IInv, TypeOK, Stages, Linked
<1>4. Outlived'
  BY <1>1, <1>2 DEF IInv, Outlived, OrphanOnlyFromLateCall, InProgress
<1>5. Told'
  BY <1>1, <1>2 DEF IInv, Told, Recorded, Line
<1>6. Counted'
  BY <1>1, <1>2 DEF IInv, Counted, Absent, AtMostOnce
<1>7. Tried'
  BY <1>1, <1>2, TriedIsKept
<1> QED BY <1>3, <1>4, <1>5, <1>6, <1>7 DEF IInv

LEMMA GatewayDiesInv ==
  ASSUME IInv, GatewayDies
  PROVE  IInv'
<1>1. /\ stage' = [c \in Calls |-> IF InProgress(c) THEN "killed" ELSE stage[c]]
      /\ handle' = [c \in Calls |-> "none"]
      /\ UNCHANGED <<attempt, status, file, run, summary, upstream, answer, inTime, late, lost>>
  BY DEF GatewayDies, history
<1>2. \A c \in Calls : /\ handle'[c] = "none"
                       /\ stage'[c] = IF InProgress(c) THEN "killed" ELSE stage[c]
  BY <1>1
<1>3. TypeOK'
  BY <1>1 DEF IInv, TypeOK, Stages
<1>4. Linked'
  BY <1>2 DEF Linked, InProgress
<1>5. Outlived'
  BY <1>1, <1>2 DEF IInv, Outlived, OrphanOnlyFromLateCall, InProgress
<1>6. Told'
  BY <1>1, <1>2 DEF IInv, Told, Recorded, Line, InProgress
<1>7. Counted'
  BY <1>1, <1>2 DEF IInv, Counted, Absent, AtMostOnce, InProgress
<1>8. Tried'
  BY <1>1, <1>2, TriedIsKept DEF InProgress
<1> QED BY <1>3, <1>4, <1>5, <1>6, <1>7, <1>8 DEF IInv

LEMMA ProfileEndsInv ==
  ASSUME IInv, NEW j \in Jobs, ProfileEnds(j)
  PROVE  IInv'
<1>1. PICK how \in {"returned", "failed"} : run' = [run EXCEPT ![j] = how]
  BY DEF ProfileEnds
<1>2. run[j] = "running" /\ late' = late \cup {c \in Calls : JobOf[c] = j /\ InProgress(c)}
      /\ UNCHANGED <<stage, attempt, status, handle, file, summary, upstream, answer, inTime, lost>>
  BY DEF ProfileEnds
<1>3. run'[j] = how /\ \A k \in Jobs \ {j} : run'[k] = run[k]
  BY <1>1 DEF IInv, TypeOK
<1>4. \A c \in Calls : JobOf[c] \in Jobs
  BY CallsAssumption
<1>5. TypeOK' /\ Linked'
  BY <1>1, <1>2, <1>3, <1>4 DEF IInv, TypeOK, Linked
<1>6. Outlived'
  BY <1>2, <1>3, <1>4 DEF IInv, Outlived, OrphanOnlyFromLateCall, InProgress
<1>7. Told'
  BY <1>2, <1>3, <1>4 DEF IInv, Told, Recorded, Line
<1>8. Counted'
  BY <1>2, <1>3, <1>4 DEF IInv, Counted, Absent, AtMostOnce
<1>9. Tried'
  BY <1>2, TriedIsKept
<1> QED BY <1>5, <1>6, <1>7, <1>8, <1>9 DEF IInv

\* The summary is what the file holds, so it has what was told.
LEMMA ReadOutcomesInv ==
  ASSUME IInv, NEW j \in Jobs, ReadOutcomes(j)
  PROVE  IInv'
<1>1. run[j] = "returned" /\ run' = [run EXCEPT ![j] = "read"]
      /\ summary' = [summary EXCEPT ![j] = IF file[j] = Null THEN <<>> ELSE file[j]]
      /\ UNCHANGED <<stage, attempt, status, handle, file, upstream, answer, inTime, late, lost>>
  BY DEF ReadOutcomes, history
<1>2. /\ run'[j] = "read" /\ \A k \in Jobs \ {j} : run'[k] = run[k] /\ summary'[k] = summary[k]
      /\ file[j] = Null => summary'[j] = <<>>
      /\ file[j] # Null => summary'[j] = file[j]
  BY <1>1 DEF IInv, TypeOK
<1>3. \A c \in Calls : JobOf[c] \in Jobs
  BY CallsAssumption
<1>4. TypeOK'
  BY <1>1, EmptyIsNoNull DEF IInv, TypeOK
<1>5. Linked' /\ Outlived'
  BY <1>1, <1>2, <1>3 DEF IInv, Linked, Outlived, OrphanOnlyFromLateCall, InProgress
<1>6. Told'
  <2>1. ASSUME NEW c \in inTime \ lost, JobOf[c] = j
        PROVE  Recorded(c, summary'[j])
    <3>1. c \in Calls /\ stage[c] = "answered"
      BY DEF IInv, TypeOK, Told
    <3>2. Recorded(c, file[j])
      BY <1>1, <2>1, <3>1 DEF IInv, Told
    <3> QED BY <1>2, <3>2 DEF Recorded
  <2>2. \A c \in Calls : /\ Recorded(c, file[JobOf[c]])' <=> Recorded(c, file[JobOf[c]])
                         /\ Recorded(c, summary[JobOf[c]])' <=> Recorded(c, summary'[JobOf[c]])
    BY <1>1 DEF Recorded, Line
  <2> QED BY <1>1, <1>2, <1>3, <2>1, <2>2 DEF IInv, Told
<1>7. Counted'
  <2>1. \A c \in Calls : /\ Absent(c, file[j]) => Absent(c, summary'[j])
                         /\ AtMostOnce(c, file[j]) => AtMostOnce(c, summary'[j])
    BY <1>2, EmptyIsNoNull DEF Absent, AtMostOnce
  <2> QED BY <1>1, <1>2, <1>3, <2>1 DEF IInv, Counted
<1>8. Tried'
  BY <1>1, TriedIsKept
<1> QED BY <1>4, <1>5, <1>6, <1>7, <1>8 DEF IInv

LEMMA RemoveFileInv ==
  ASSUME IInv, NEW j \in Jobs, RemoveFile(j)
  PROVE  IInv'
<1>1. run[j] = "read" /\ run' = [run EXCEPT ![j] = "summarized"]
      /\ file' = [file EXCEPT ![j] = Null] /\ handle' = Unlinked(j)
      /\ UNCHANGED <<stage, attempt, status, summary, upstream, answer, inTime, late, lost>>
  BY DEF RemoveFile, history
<1>2. /\ run'[j] = "summarized" /\ file'[j] = Null
      /\ \A k \in Jobs \ {j} : run'[k] = run[k] /\ file'[k] = file[k]
  BY <1>1 DEF IInv, TypeOK
<1>3. \A c \in Calls : JobOf[c] \in Jobs
  BY CallsAssumption
<1>4. \A c \in Calls : handle'[c] = IF JobOf[c] = j /\ handle[c] = "linked" THEN "unlinked"
                                     ELSE handle[c]
  BY <1>1 DEF Unlinked
<1>5. TypeOK'
  BY <1>1 DEF IInv, TypeOK, Unlinked
<1>6. Linked'
  BY <1>1, <1>2, <1>3, <1>4 DEF IInv, Linked
<1>7. Outlived'
  BY <1>1, <1>2, <1>3 DEF IInv, Outlived, OrphanOnlyFromLateCall, InProgress
<1>8. Told'
  <2>1. \A c \in Calls : /\ Recorded(c, file[JobOf[c]])' <=> Recorded(c, file'[JobOf[c]])
                         /\ Recorded(c, summary[JobOf[c]])' <=> Recorded(c, summary[JobOf[c]])
    BY <1>1 DEF Recorded, Line
  <2> QED BY <1>1, <1>2, <1>3, <2>1 DEF IInv, Told
<1>9. Counted'
  BY <1>1, <1>2, <1>3 DEF IInv, Counted, Absent, AtMostOnce
<1>10. Tried'
  BY <1>1, TriedIsKept
<1> QED BY <1>5, <1>6, <1>7, <1>8, <1>9, <1>10 DEF IInv

LEMMA StutterInv ==
  ASSUME IInv, UNCHANGED vars
  PROVE  IInv'
<1> USE DEF IInv, vars, state, history
<1>1. TypeOK' /\ Linked'
  BY DEF TypeOK, Linked
<1>2. Outlived'
  BY DEF Outlived, OrphanOnlyFromLateCall, InProgress
<1>3. Told'
  BY DEF Told, Recorded, Line
<1>4. Counted'
  BY DEF Counted, Absent, AtMostOnce
<1>5. Tried'
  BY TriedIsKept
<1> QED BY <1>1, <1>2, <1>3, <1>4, <1>5

THEOREM Inductive == Spec => []IInv
<1>1. IInv /\ [Next]_vars => IInv'
  BY RejectInv, ReceiveInv, AttemptInv, RetryInv, OpenFileInv, WriteLineInv, RecordFailsInv,
     RelayInv, RelayFailsInv, GatewayDiesInv, ProfileEndsInv, ReadOutcomesInv, RemoveFileInv, StutterInv
     DEF Next, Forward
<1> QED BY InitInv, <1>1, PTL DEF Spec

-----------------------------------------------------------------------------
(* What follows from it.                                                   *)

\* The calls, the files and the summaries have the shape they should.
THEOREM TypeCorrect == Spec => []TypeOK
<1>1. IInv => TypeOK
  BY DEF IInv
<1> QED BY <1>1, Inductive, PTL

\* A call whose agent had its outcome while the profile was running is in the attested
\* summary, with a status that the answer follows from, unless its record was refused,
\* however the gateway's threads and death interleave with the room's reading and
\* removing.
THEOREM ToldIsAttested == Spec => []AnsweredIsCounted
<1>1. IInv => AnsweredIsCounted
  <2> SUFFICES ASSUME IInv, NEW j \in Jobs, summary[j] # Null,
                      NEW c \in inTime \ lost, JobOf[c] = j
               PROVE  \E i \in DOMAIN summary[j] :
                        /\ summary[j][i].call = c
                        /\ \/ answer[c] = summary[j][i].status
                           \/ answer[c] = 502 /\ summary[j][i].status = UNREACHABLE
    BY DEF AnsweredIsCounted
  <2>1. c \in Calls
    BY DEF IInv, TypeOK
  <2>2. PICK i \in DOMAIN summary[j] : summary[j][i] = Line(c)
    BY <2>1 DEF IInv, Told, Recorded
  <2>3. answer[c] = AnswerTo(status[c])
    BY <2>1 DEF IInv, Told
  <2> QED BY <2>2, <2>3 DEF Line, AnswerTo
<1> QED BY <1>1, Inductive, PTL

LEMMA MentionsOfAbsent ==
  ASSUME NEW s, NEW c, Absent(c, s)
  PROVE  Mentions(s, c) = 0
<1>1. CASE s = Null
  BY <1>1 DEF Mentions
<1>2. CASE s # Null
  <2>1. {i \in DOMAIN s : s[i].call = c} = {}
    BY <1>2 DEF Absent
  <2> QED BY <1>2, <2>1, FS_EmptySet DEF Mentions
<1> QED BY <1>1, <1>2

LEMMA MentionsAtMostOnce ==
  ASSUME NEW s, NEW c, AtMostOnce(c, s)
  PROVE  Mentions(s, c) \in {0, 1}
<1>1. CASE Absent(c, s)
  BY <1>1, MentionsOfAbsent
<1>2. CASE ~Absent(c, s)
  <2>1. s # Null /\ \E k \in DOMAIN s : s[k].call = c
    BY <1>2 DEF Absent
  <2>2. PICK k \in DOMAIN s : s[k].call = c
    BY <2>1
  <2>3. {i \in DOMAIN s : s[i].call = c} = {k}
    BY <2>1, <2>2 DEF AtMostOnce
  <2> QED BY <2>1, <2>3, FS_Singleton DEF Mentions
<1> QED BY <1>1, <1>2

\* A call is counted once, however often it was tried, and never in a summary and
\* again in a file left for another.
THEOREM NoCallCountedTwice == Spec => []CountedOnce
<1>1. IInv => CountedOnce
  <2> SUFFICES ASSUME IInv, NEW c \in Calls
               PROVE  LET j == JobOf[c] IN
                        /\ Mentions(file[j], c) <= 1
                        /\ run[j] = "summarized" =>
                             Mentions(file[j], c) + Mentions(summary[j], c) <= 1
    BY DEF CountedOnce
  <2> DEFINE j == JobOf[c]
  <2>1. Mentions(file[j], c) \in {0, 1} /\ Mentions(summary[j], c) \in {0, 1}
    BY MentionsAtMostOnce DEF IInv, Counted
  <2>2. run[j] = "summarized" => Mentions(file[j], c) = 0 \/ Mentions(summary[j], c) = 0
    BY MentionsOfAbsent DEF IInv, Counted
  <2> QED BY <2>1, <2>2
<1> QED BY <1>1, Inductive, PTL

\* A provider is asked again only after a transient failure and never too often, and
\* the outcome that is recorded is the last attempt's.
THEOREM OutcomeIsLastAttempt == Spec => []LastAttemptDecides
<1>1. IInv => LastAttemptDecides
  BY DEF IInv, Tried
<1> QED BY <1>1, Inductive, PTL

\* A file that is there once a job was summarized has the outcomes of late calls only.
THEOREM OrphansAreLate == Spec => []OrphanOnlyFromLateCall
<1>1. IInv => OrphanOnlyFromLateCall
  BY DEF IInv, Outlived
<1> QED BY <1>1, Inductive, PTL

=============================================================================

----------------------- MODULE InferenceNetworkProofs -----------------------
(***************************************************************************)
(* That no agent is ever on a network with a way out, and that none runs   *)
(* before a probe of this process has passed, for any number of request    *)
(* threads and restarts.                                                   *)
(*                                                                         *)
(* Neither property is inductive: that a network with an agent is sealed   *)
(* rests on which threads have inspected it, and that an agent runs after  *)
(* a probe on the flag, which any thread may have set for it.  Untouched   *)
(* says how little can have happened while the network is open; Vouched    *)
(* what each thread's place, and the flag, say of the service.             *)
(***************************************************************************)
EXTENDS InferenceNetwork, TLAPS

\* A thread that has inspected the network and not yet finished with it.
Inspected == {"connect", "probe", "mark", "agent", "running"}

\* An absent network has no endpoints; an open one, which can only be one that was
\* there before, has none either, nobody who inspected it and no flag.
Untouched ==
  /\ net # "internal" => endpoints = {}
  /\ net = "open" => ~ready /\ \A th \in Threads : pc[th] \notin Inspected

\* The service of the profile has been seen to answer.  A gateway may have died
\* since; a broker that serves does so until the restart.
Probed == service = "broker" => broker = "serving"

\* Who is past the probe, or past the flag that a probe has set, may rely on it.
Vouched ==
  /\ ready => Probed
  /\ \A th \in Threads :
       /\ pc[th] = "mark" => Probed
       /\ pc[th] \in {"agent", "running"} => ready
  /\ fresh \subseteq {th \in Threads : pc[th] = "running"}

IInv == TypeOK /\ Untouched /\ Vouched

-----------------------------------------------------------------------------
(* The invariant at the start, and through each step.                      *)

LEMMA InitInv == Init => IInv
<1> SUFFICES ASSUME Init PROVE IInv
  OBVIOUS
<1>1. TypeOK
  BY DEF Init, TypeOK, Steps
<1>2. Untouched /\ Vouched
  BY DEF Init, Untouched, Vouched, Inspected
<1> QED BY <1>1, <1>2 DEF IInv

\* The steps of the two start helpers, which touch no network.
LEMMA ServiceInv ==
  ASSUME IInv, NEW th \in Threads,
         \/ Begin(th) \/ CheckGateway(th) \/ SpawnGateway(th)
         \/ CheckBroker(th) \/ BindBroker(th) \/ ServeBroker(th)
  PROVE  IInv'
<1> USE DEF IInv, TypeOK, Steps, Untouched, Vouched, Probed, Inspected, Goto, Raise,
            flags, docker
<1>1. CASE Begin(th)
  BY <1>1 DEF Begin
<1>2. CASE CheckGateway(th)
  BY <1>2 DEF CheckGateway
<1>3. CASE SpawnGateway(th)
  BY <1>3 DEF SpawnGateway
<1>4. CASE CheckBroker(th)
  BY <1>4 DEF CheckBroker
<1>5. CASE BindBroker(th)
  BY <1>5 DEF BindBroker
<1>6. CASE ServeBroker(th)
  BY <1>6 DEF ServeBroker
<1> QED BY <1>1, <1>2, <1>3, <1>4, <1>5, <1>6

\* The steps that take the network down: endpoints only disappear, and with them
\* the network.
LEMMA TakeDownInv ==
  ASSUME IInv, NEW th \in Threads,
         \/ CheckReady(th) \/ Clean(th) \/ Disconnect(th) \/ RemoveNetwork(th)
  PROVE  IInv'
<1> USE DEF IInv, TypeOK, Steps, Untouched, Vouched, Probed, Inspected, Goto, flags, docker
<1>1. CASE CheckReady(th)
  BY <1>1 DEF CheckReady
<1>2. CASE Clean(th)
  BY <1>2 DEF Clean
<1>3. CASE Disconnect(th)
  BY <1>3 DEF Disconnect
<1>4. CASE RemoveNetwork(th)
  BY <1>4 DEF RemoveNetwork
<1> QED BY <1>1, <1>2, <1>3, <1>4

\* The steps that set it up: only a network that was seen to be internal gets
\* endpoints, and it cannot have been opened since.
LEMMA SetUpInv ==
  ASSUME IInv, NEW th \in Threads,
         \/ CreateNetwork(th) \/ RequireInternal(th) \/ Connect(th)
         \/ Probe(th) \/ MarkReady(th)
  PROVE  IInv'
<1> USE DEF IInv, TypeOK, Steps, Untouched, Vouched, Inspected, Goto, Raise, flags, docker
<1>1. CASE CreateNetwork(th)
  BY <1>1 DEF CreateNetwork, Probed
<1>2. CASE RequireInternal(th)
  BY <1>2 DEF RequireInternal, Probed
<1>3. CASE Connect(th)
  BY <1>3 DEF Connect, Probed
<1>4. CASE Probe(th)
  <2>1. pc'[th] = "mark" => Probed
    BY <1>4 DEF Probe, Reachable, Answers, Probed
  <2> QED BY <1>4, <2>1 DEF Probe, Probed
<1>5. CASE MarkReady(th)
  BY <1>5 DEF MarkReady, Probed
<1> QED BY <1>1, <1>2, <1>3, <1>4, <1>5

\* The agent's own steps.
LEMMA AgentInv ==
  ASSUME IInv, NEW th \in Threads, StartAgent(th) \/ FinishAgent(th)
  PROVE  IInv'
<1> USE DEF IInv, TypeOK, Steps, Untouched, Vouched, Probed, Inspected, Goto, Raise, flags
<1>1. CASE StartAgent(th)
  <2>1. net # "open"
    BY <1>1 DEF StartAgent
  <2>2. th \in Agents
    BY DEF Agents
  <2> QED BY <1>1, <2>1, <2>2 DEF StartAgent
<1>2. CASE FinishAgent(th)
  BY <1>2 DEF FinishAgent
<1> QED BY <1>1, <1>2

LEMMA GatewayDiesInv ==
  ASSUME IInv, GatewayDies
  PROVE  IInv'
BY DEF GatewayDies, IInv, TypeOK, Untouched, Vouched, Probed, docker

\* What a restart leaves on the daemon is what was there, under another name.
LEMMA RestartInv ==
  ASSUME IInv, Restart
  PROVE  IInv'
<1>1. Orphaned({}) = {}
  BY DEF Orphaned
<1>2. ASSUME NEW there \in SUBSET ({OWN, DEAD} \cup Agents)
      PROVE  Orphaned(there) \subseteq {DEAD, ORPHAN}
  BY DEF Orphaned
<1>3. ORPHAN \in Agents
  BY DEF Agents
<1>4. endpoints' \subseteq {OWN, DEAD} \cup Agents
  BY <1>2, <1>3 DEF Restart, IInv, TypeOK
<1>5. containers' \subseteq Agents
  <2>1. OWN \notin Agents /\ DEAD \notin Agents
    BY NamesAssumption DEF Agents, OWN, DEAD, ORPHAN
  <2>2. containers \subseteq Agents /\ containers' = Orphaned(containers)
    BY DEF Restart, IInv, TypeOK
  <2> QED BY <1>3, <2>1, <2>2 DEF Orphaned
<1>6. TypeOK'
  <2>1. pc' \in [Threads -> Steps]
    BY DEF Restart, Steps
  <2>2. restarts' \in Nat /\ service' \in {"gateway", "broker"} /\ net' = net
    BY DEF Restart, IInv, TypeOK
  <2> QED BY <1>4, <1>5, <2>1, <2>2 DEF Restart, IInv, TypeOK
<1>7. Untouched' /\ Vouched'
  BY <1>1 DEF Restart, IInv, Untouched, Vouched, Inspected
<1> QED BY <1>6, <1>7 DEF IInv

LEMMA StutterInv ==
  ASSUME IInv, UNCHANGED vars
  PROVE  IInv'
BY DEF IInv, vars, TypeOK, Untouched, Vouched, Probed

THEOREM Inductive == Spec => []IInv
<1>1. IInv /\ [Next]_vars => IInv'
  BY ServiceInv, TakeDownInv, SetUpInv, AgentInv, GatewayDiesInv, RestartInv, StutterInv
     DEF Next
<1> QED BY InitInv, <1>1, PTL DEF Spec

-----------------------------------------------------------------------------
(* What follows from it.                                                   *)

\* The flags, the threads and the daemon's objects have the shape they should.
THEOREM TypeCorrect == Spec => []TypeOK
<1>1. IInv => TypeOK
  BY DEF IInv
<1> QED BY <1>1, Inductive, PTL

\* No agent is ever attached to a network with a way out, whatever was there before,
\* whichever docker command fails, and however threads and restarts interleave.
THEOREM AgentsAreSealed == Spec => []SealedAgents
<1>1. IInv => SealedAgents
  BY DEF IInv, Untouched, SealedAgents
<1> QED BY <1>1, Inductive, PTL

\* An agent of this process runs only once a probe of this process has passed.
THEOREM NoAgentUnprobed == Spec => []AgentsOnlyAfterProbe
<1>1. IInv => AgentsOnlyAfterProbe
  BY DEF IInv, Vouched, Probed, AgentsOnlyAfterProbe
<1> QED BY <1>1, Inductive, PTL

=============================================================================

-------------------------- MODULE InferenceNetwork --------------------------
(***************************************************************************)
(* room/inference_network.py: the sealed Docker network of the agents, and *)
(* the once-only helpers with which a profile prepares it and the service  *)
(* its agents use: the gateway's process, or the broker's thread.          *)
(*                                                                         *)
(* The network and the agents' containers live on the Docker daemon and    *)
(* survive a restart of the runner, whose old endpoint stays behind with   *)
(* the gateway's alias.  The "once" of the helpers are process variables   *)
(* that request threads read and write without a lock.  Each docker        *)
(* command is a step of its own that may fail; but for the two loops over  *)
(* what docker lists, which are one step each that may miss any element.   *)
(* A room runs one profile, whose agents use one of the two services.      *)
(*                                                                         *)
(* What a profile does around the helpers (starting its agent's container  *)
(* and removing it) is not in this repository; StartAgent and FinishAgent  *)
(* do what the docstrings say of it.                                       *)
(***************************************************************************)
EXTENDS Integers, FiniteSets

CONSTANTS
  Threads,      \* request threads; the agent a thread runs has its name
  MaxRestarts   \* bound on restarts of the runner

ASSUME RestartsAssumption == MaxRestarts \in Nat

\* Who is on the network besides those agents: the runner, and what a restart
\* leaves behind, the dead runner and orphaned agents.
OWN    == "runner"
DEAD   == "dead_runner"
ORPHAN == "orphaned_agent"

Agents == Threads \cup {ORPHAN}

ASSUME NamesAssumption == {OWN, DEAD, ORPHAN} \cap Threads = {}

VARIABLES
  service,    \* what the profile's agents use: "gateway" or "broker"
  ready,      \* _inference_network_ready or _broker_network_ready
  process,    \* _gateway_process: "none", "alive", or "dead" (poll() answers)
  listening,  \* a gateway process serves the gateway's port
  broker,     \* _broker_server: "none", "bound" (its port), or "serving" (its thread)
  pc,         \* the next step of each thread
  net,        \* INF_NET: "absent", "internal", or "open" (not --internal)
  endpoints,  \* who is connected to it
  containers, \* agent containers on the daemon
  restarts,
  fresh       \* history: agents started since the last restart and not finished

vars == <<service, ready, process, listening, broker, pc, net, endpoints, containers,
          restarts, fresh>>
docker == <<net, endpoints, containers>>
flags  == <<service, ready, process, listening, broker>>

Steps == {"idle", "gateway", "spawn", "broker", "bind", "serve", "check", "clean", "disconnect", "remove",
          "create", "inspect", "connect", "probe", "mark", "agent", "running"}

TypeOK ==
  /\ service \in {"gateway", "broker"}
  /\ ready \in BOOLEAN
  /\ process \in {"none", "alive", "dead"}
  /\ listening \in BOOLEAN
  /\ broker \in {"none", "bound", "serving"}
  /\ pc \in [Threads -> Steps]
  /\ net \in {"absent", "internal", "open"}
  /\ endpoints \subseteq {OWN, DEAD} \cup Agents
  /\ containers \subseteq Agents
  /\ restarts \in Nat
  /\ fresh \subseteq Threads

\* A network of that name may be there already, sealed or not.
Init ==
  /\ service \in {"gateway", "broker"}
  /\ ready = FALSE
  /\ process = "none" /\ listening = FALSE
  /\ broker = "none"
  /\ pc = [th \in Threads |-> "idle"]
  /\ net \in {"absent", "internal", "open"}
  /\ endpoints = {}
  /\ containers = {}
  /\ restarts = 0
  /\ fresh = {}

Goto(th, step) == pc' = [pc EXCEPT ![th] = step]

\* A step that raises: the profile fails and the request is answered 500.
Raise(th) == Goto(th, "idle")

-----------------------------------------------------------------------------
(* start_inference_gateway_once.                                           *)

Begin(th) ==
  /\ pc[th] = "idle"
  /\ Goto(th, service)
  /\ UNCHANGED <<flags, docker, restarts, fresh>>

CheckGateway(th) ==
  /\ pc[th] = "gateway"
  /\ Goto(th, IF process = "alive" THEN "check" ELSE "spawn")
  /\ UNCHANGED <<flags, docker, restarts, fresh>>

\* Mutant: that it was started is stored instead of the process.
SpawnGatewayFlag(th) ==
  /\ pc[th] = "spawn"
  /\ process' = "started"
  /\ listening' = TRUE
  /\ Goto(th, "check")
  /\ UNCHANGED <<service, ready, broker, docker, restarts, fresh>>

\* Popen; a second gateway cannot bind the port and dies.
SpawnGateway(th) ==
  /\ pc[th] = "spawn"
  /\ process' = IF listening THEN "dead" ELSE "alive"
  /\ listening' = TRUE
  /\ Goto(th, "check")
  /\ UNCHANGED <<service, ready, broker, docker, restarts, fresh>>

GatewayDies ==
  /\ listening
  /\ listening' = FALSE
  /\ process' = "dead"
  /\ UNCHANGED <<service, ready, broker, pc, docker, restarts, fresh>>

-----------------------------------------------------------------------------
(* start_broker_once.                                                      *)

\* The variable is read without a lock ...
CheckBroker(th) ==
  /\ pc[th] = "broker"
  /\ Goto(th, IF broker = "none" THEN "bind" ELSE "check")
  /\ UNCHANGED <<flags, docker, restarts, fresh>>

\* ... the server binds its port, which only one can, and is stored, ...
BindBroker(th) ==
  /\ pc[th] = "bind"
  /\ \/ /\ broker = "none"
        /\ broker' = "bound"
        /\ Goto(th, "serve")
     \/ /\ broker # "none"
        /\ Raise(th) /\ UNCHANGED broker
  /\ UNCHANGED <<service, ready, process, listening, docker, restarts, fresh>>

\* ... and its thread is started.  If it cannot be, the server stays stored and
\* nobody ever serves it.
ServeBroker(th) ==
  /\ pc[th] = "serve"
  /\ \/ broker' = "serving" /\ Goto(th, "check")
     \/ Raise(th) /\ UNCHANGED broker
  /\ UNCHANGED <<service, ready, process, listening, docker, restarts, fresh>>

-----------------------------------------------------------------------------
(* ensure_inference_network_once and ensure_broker_network_once, which     *)
(* differ in the flag they keep and the service they probe.                *)

\* Mutant: a service that was started counts as a network that is ready.
CheckStartedOnly(th) ==
  /\ pc[th] = "check"
  /\ Goto(th, IF (listening \/ broker # "none") /\ net # "absent" THEN "agent" ELSE "clean")
  /\ UNCHANGED <<flags, docker, restarts, fresh>>

CheckReady(th) ==
  /\ pc[th] = "check"
  /\ Goto(th, IF ready THEN "agent" ELSE "clean")
  /\ UNCHANGED <<flags, docker, restarts, fresh>>

\* cleanup_stale_agent_containers: best effort on every agent container.  An element
\* whose command fails, or that was not there when docker listed them, stays.
Clean(th) ==
  /\ pc[th] = "clean"
  /\ \E removed \in SUBSET containers :
       /\ containers' = containers \ removed
       /\ endpoints' = endpoints \ removed
  /\ Goto(th, "disconnect")
  /\ UNCHANGED <<flags, net, restarts, fresh>>

\* Every endpoint listed is disconnected, best effort likewise ...
Disconnect(th) ==
  /\ pc[th] = "disconnect"
  /\ \E removed \in SUBSET endpoints : endpoints' = endpoints \ removed
  /\ Goto(th, "remove")
  /\ UNCHANGED <<flags, net, containers, restarts, fresh>>

\* ... and the network removed, which Docker refuses while it has endpoints.
RemoveNetwork(th) ==
  /\ pc[th] = "remove"
  /\ \/ endpoints = {} /\ net' = "absent"
     \/ UNCHANGED net
  /\ Goto(th, "create")
  /\ UNCHANGED <<flags, endpoints, containers, restarts, fresh>>

\* docker network create --internal; an existing one is left as it is.
CreateNetwork(th) ==
  /\ pc[th] = "create"
  /\ \/ /\ net' = IF net = "absent" THEN "internal" ELSE net
        /\ Goto(th, "inspect")
     \/ Raise(th) /\ UNCHANGED net
  /\ UNCHANGED <<flags, endpoints, containers, restarts, fresh>>

\* Mutant: a network that exists is trusted.
RequireNetwork(th) ==
  /\ pc[th] = "inspect"
  /\ \/ net # "absent" /\ Goto(th, "connect")
     \/ Raise(th)
  /\ UNCHANGED <<flags, docker, restarts, fresh>>

\* _require_internal_network
RequireInternal(th) ==
  /\ pc[th] = "inspect"
  /\ \/ net = "internal" /\ Goto(th, "connect")
     \/ Raise(th)
  /\ UNCHANGED <<flags, docker, restarts, fresh>>

\* The runner joins with the gateway's alias; it may be connected already.
Connect(th) ==
  /\ pc[th] = "connect"
  /\ \/ /\ net # "absent"
        /\ endpoints' = endpoints \cup {OWN}
        /\ Goto(th, "probe")
     \/ Raise(th) /\ UNCHANGED endpoints
  /\ UNCHANGED <<flags, net, containers, restarts, fresh>>

\* Mutant: a server that holds its port passes for one that answers.
AnswersOnceBound == IF service = "gateway" THEN listening ELSE broker # "none"

\* Whether the service of the profile answers /healthz.
Answers == IF service = "gateway" THEN listening ELSE broker = "serving"

\* _verify_gateway_reachable and _verify_broker_reachable: a throwaway container
\* resolves the alias, to any endpoint that holds it, and asks for the health.
Reachable == net # "absent" /\ OWN \in endpoints /\ Answers

Probe(th) ==
  /\ pc[th] = "probe"
  /\ \/ Reachable /\ Goto(th, "mark")
     \/ Raise(th)
  /\ UNCHANGED <<flags, docker, restarts, fresh>>

MarkReady(th) ==
  /\ pc[th] = "mark"
  /\ ready' = TRUE
  /\ Goto(th, "agent")
  /\ UNCHANGED <<service, process, listening, broker, docker, restarts, fresh>>

-----------------------------------------------------------------------------
(* The profile, and the runner's restart.                                  *)

StartAgent(th) ==
  /\ pc[th] = "agent"
  /\ \/ /\ net # "absent"
        /\ containers' = containers \cup {th}
        /\ endpoints' = endpoints \cup {th}
        /\ fresh' = fresh \cup {th}
        /\ Goto(th, "running")
     \/ Raise(th) /\ UNCHANGED <<containers, endpoints, fresh>>
  /\ UNCHANGED <<flags, net, restarts>>

FinishAgent(th) ==
  /\ pc[th] = "running"
  /\ containers' = containers \ {th}
  /\ endpoints' = endpoints \ {th}
  /\ fresh' = fresh \ {th}
  /\ Goto(th, "idle")
  /\ UNCHANGED <<flags, net, restarts>>

\* What is on the daemon after the runner died, of what was before.
Orphaned(there) ==
  (there \cap {DEAD, ORPHAN})
    \cup (IF OWN \in there THEN {DEAD} ELSE {})
    \cup (IF there \cap Threads # {} THEN {ORPHAN} ELSE {})

\* The runner's container is replaced: its processes and variables are gone, its
\* endpoint and the agents it was running stay on the daemon.
Restart ==
  /\ restarts < MaxRestarts
  /\ restarts' = restarts + 1
  /\ ready' = FALSE /\ process' = "none" /\ listening' = FALSE /\ broker' = "none"
  /\ pc' = [th \in Threads |-> "idle"]
  /\ endpoints' = Orphaned(endpoints)
  /\ containers' = Orphaned(containers)
  /\ fresh' = {}
  /\ UNCHANGED <<service, net>>

-----------------------------------------------------------------------------
Next ==
  \/ \E th \in Threads :
       \/ Begin(th) \/ CheckGateway(th) \/ SpawnGateway(th)
       \/ CheckBroker(th) \/ BindBroker(th) \/ ServeBroker(th)
       \/ CheckReady(th) \/ Clean(th) \/ Disconnect(th) \/ RemoveNetwork(th)
       \/ CreateNetwork(th) \/ RequireInternal(th) \/ Connect(th)
       \/ Probe(th) \/ MarkReady(th)
       \/ StartAgent(th) \/ FinishAgent(th)
  \/ GatewayDies
  \/ Restart

Spec == Init /\ [][Next]_vars

-----------------------------------------------------------------------------
(* Properties.                                                             *)

\* No agent is ever attached to a network with a way out, whatever was there
\* before the runner started, whichever docker command fails and however the
\* threads and restarts interleave.
SealedAgents == endpoints \cap Agents # {} => net = "internal"

\* An agent of this process runs only once a probe of this process has passed:
\* another thread's unfinished reset, or the gateway's start, is not enough.  And
\* no run is let through to a broker nobody serves: a start that lost the race for
\* the port, or whose thread could not be started, fails closed for as long as the
\* process lives (inference_network.py:297, "a silent zero is impossible").
AgentsOnlyAfterProbe ==
  fresh # {} => ready /\ (service = "broker" => broker = "serving")

\* What ensure_inference_network_once guarantees (inference_network.py:200-203,
\* "an agent can actually reach the gateway", "no silent zero-score") and what
\* its cleanup relies on (line 115, "when no agent is running"): an agent that
\* was let through stays connected, and so does the runner with its alias.
AgentsStayConnected == fresh # {} => fresh \cup {OWN} \subseteq endpoints

=============================================================================

------------------------------ MODULE MCBroker ------------------------------
(***************************************************************************)
(* Broker for TLC: one agent operation and one evaluator operation, on two *)
(* providers, with tight ceilings.                                         *)
(***************************************************************************)
EXTENDS BrokerRefinement, TLC

CONSTANTS
  p1, p2,      \* providers
  k1, k2, k3,  \* keys
  SearchCalls  \* ceiling of the agent operation

\* Two contestants: one sealed a key for each provider, one only for the first.
MCCredentials == {(p1 :> k1 @@ p2 :> k2), (p1 :> k3 @@ p2 :> Null)}

MCOperations == {"search", "judge"}

MCOpSpec ==
  [op \in MCOperations |->
     IF op = "search"
       THEN [role |-> ROLE_AGENT, provider |-> p1, max_calls |-> SearchCalls,
             http_exposed |-> TRUE]
       ELSE [role |-> ROLE_EVALUATOR, provider |-> p2, max_calls |-> 1,
             http_exposed |-> FALSE]]

Symmetry == Permutations(JobIds) \cup Permutations(Objs) \cup Permutations(Tokens) \cup Permutations(Threads)

=============================================================================

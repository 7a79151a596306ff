------------------------- MODULE ResumeGraphProofs -------------------------
(* Facts about the resume graph, for every set of Clients and every bound.   *)
EXTENDS ResumeGraph, TLAPS

\* The edges of the graph lead from states to states (resume_graph).
LEMMA GraphStates ==
    ASSUME NEW edge \in Graph
    PROVE  edge.from \in State /\ edge.to \in State
  BY DEF Graph, Edge, State

\* What a transition writes is a node again (_enter).
LEMMA EnterNode ==
    ASSUME NEW node \in Node, NEW to \in State, NEW payload \in Payload
    PROVE  Enter(node, to, payload) \in Node
<1>1. (IF payload.event = "ownership_acquired" THEN payload.token ELSE node.token)
          \in Token \cup {NoToken}
  BY DEF Payload, Plain, Node
<1>2. (IF payload.event = "verification_passed" THEN payload.evidence ELSE node.evidence)
          \in Evidence
  BY DEF Payload, Plain, Node
<1>3. QED
  BY <1>1, <1>2 DEF Enter, Node

\* An accepted event gives a machine (Machine.send).
LEMMA AdvancedMachine ==
    ASSUME NEW m \in Machine, NEW payload \in Payload, NEW edge \in Graph
    PROVE  Advanced(m, payload, edge) \in Machine
<1>1. m.node \in Node /\ m.log \in Seq(Graph)
  BY DEF Machine
<1>2. Enter(m.node, edge.to, payload) \in Node
  BY <1>1, GraphStates, EnterNode
<1>3. Append(m.log, edge) \in Seq(Graph)
  BY <1>1
<1>4. QED
  BY <1>2, <1>3 DEF Advanced, Machine

\* The new machine, which created the attempt, is restorable (ResumeMachine.create).
LEMMA NewRestorable ==
    ASSUME NoOne \notin Client, MaxGen \in Nat, NEW claimant
    PROVE  NewMachine \in Machine /\ Restorable(NewMachine, claimant)
<1>1. Created \in Node
  BY DEF Created, Node, State, Evidence, NoEvidence
<1>2. QED
  BY <1>1 DEF NewMachine, Machine, Restorable, Legal, IsPath, Created, Holding

\* One more edge at the end of a path is a path.
LEMMA PathGrows ==
    ASSUME NEW log \in Seq(Graph), NEW edge \in Graph, IsPath(log, edge.from)
    PROVE  IsPath(Append(log, edge), edge.to)
<1> DEFINE new == Append(log, edge)
<1>1. /\ new \in Seq(Graph)
      /\ Len(new) = Len(log) + 1
      /\ new[Len(log) + 1] = edge
      /\ \A i \in 1 .. Len(log) : new[i] = log[i]
      /\ Len(log) \in Nat
  OBVIOUS
<1>2. ASSUME NEW i \in 1 .. Len(new)
      PROVE  new[i].from = IF i = 1 THEN "created" ELSE new[i - 1].to
  <2>1. CASE i = Len(log) + 1
    <3>1. CASE log = <<>>
      BY <1>1, <2>1, <3>1 DEF IsPath
    <3>2. CASE log # <<>>
      <4>1. Len(log) \in 1 .. Len(log) /\ Len(log) # 0
        BY <1>1, <3>2
      <4>2. new[i - 1] = log[Len(log)] /\ i # 1
        BY <1>1, <2>1, <4>1
      <4>3. QED
        BY <1>1, <2>1, <3>2, <4>2 DEF IsPath
    <3>3. QED
      BY <3>1, <3>2
  <2>2. CASE i \in 1 .. Len(log)
    <3>1. new[i] = log[i]
      BY <1>1, <2>2
    <3>2. i # 1 => new[i - 1] = log[i - 1]
      BY <1>1, <2>2
    <3>3. log[i].from = IF i = 1 THEN "created" ELSE log[i - 1].to
      BY <2>2 DEF IsPath
    <3>4. QED
      BY <3>1, <3>2, <3>3
  <2>3. QED
    BY <1>1, <2>1, <2>2
<1>3. new # <<>> /\ new[Len(new)] = edge
  BY <1>1
<1>4. QED
  BY <1>2, <1>3 DEF IsPath

\* An accepted event keeps the machine restorable (send and restore agree).
LEMMA AcceptedRestorable ==
    ASSUME NEW m \in Machine, NEW claimant, NEW payload, NEW edge \in Graph,
           Restorable(m, claimant), Accepted(m, claimant, payload, edge)
    PROVE  Restorable(Advanced(m, payload, edge), claimant)
<1>1. Legal(Enter(m.node, edge.to, payload), claimant)
  BY DEF Accepted
<1>2. m.log \in Seq(Graph) /\ IsPath(m.log, edge.from)
  BY DEF Machine, Restorable, Accepted
<1>3. IsPath(Append(m.log, edge), edge.to)
  BY <1>2, PathGrows
<1>4. Enter(m.node, edge.to, payload).state = edge.to
  BY DEF Enter
<1>5. QED
  BY <1>1, <1>3, <1>4 DEF Restorable, Advanced

\* The validator accepts whatever the guards let through, once a rollback has the
\* error that caused it - which the validator itself does not ask (legal_state_facts).
LEMMA GuardsSufficient ==
    ASSUME NoOne \notin Client,
           NEW node \in Node, NEW claimant, NEW payload \in Payload, NEW edge \in Graph,
           Legal(node, claimant), Guard(node, claimant, payload),
           node.state = "rolling_back" => node.error,
           edge.from = node.state, edge.event = payload.event
    PROVE  Legal(Enter(node, edge.to, payload), claimant)
<1> DEFINE next == Enter(node, edge.to, payload)
<1> USE DEF Enter
<1>1. next.state \in Holding => next.token # NoToken
  <2>1. CASE payload.event = "ownership_acquired"
    <3>1. payload.token \in Token
      BY <2>1 DEF Payload, Plain
    <3>2. QED
      BY <2>1, <3>1 DEF Token, NoToken
  <2>2. CASE payload.event # "ownership_acquired"
    <3>1. edge.to \in Holding => edge.from \in Holding
      BY <2>2 DEF Graph, Edge, Holding
    <3>2. QED
      BY <2>2, <3>1 DEF Legal
  <2>3. QED
    BY <2>1, <2>2
<1>2. next.token # NoToken => next.token.holder = claimant
  BY DEF Legal, Guard
<1>3. next.state = "completed" =>
          next.verified /\ GoodEvidence(next.evidence, next.token, claimant)
  <2>1. edge.to = "completed" => edge.event = "verification_passed"
    BY DEF Graph, Edge
  <2>2. QED
    BY <2>1 DEF Guard
<1>4. next.state \in {"rejected", "failed", "attention"} => next.error
  <2>1. edge.to \in {"rejected", "failed", "attention"} =>
            \/ edge.event \in SetsError
            \/ edge.event = "rollback_completed" /\ edge.from = "rolling_back"
    BY DEF Graph, Edge, SetsError
  <2>2. "rollback_completed" \notin ClearsError
    BY DEF ClearsError
  <2>3. CASE payload.event \in SetsError
    BY <2>3
  <2>4. CASE payload.event = "rollback_completed" /\ edge.from = "rolling_back"
    BY <2>2, <2>4
  <2>5. QED
    BY <2>1, <2>3, <2>4
<1>5. QED
  BY <1>1, <1>2, <1>3, <1>4 DEF Legal
=============================================================================

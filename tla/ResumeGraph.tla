---------------------------- MODULE ResumeGraph ----------------------------
(***************************************************************************)
(* The state machine of one resume (datanode/runtime_fsm/resume.py): its   *)
(* graph, its guards, what a transition writes into the node, and what the *)
(* node's validator and the restore of a snapshot demand.  Everything here *)
(* is a constant operator; ResumeMachine runs it and ResumeAttempt persists*)
(* it.  A node keeps what guards and validator read: the state, the token, *)
(* the verification evidence and whether an error is set.                  *)
(***************************************************************************)
EXTENDS Naturals, Sequences

CONSTANTS
    Client,    \* who may claim and resume
    NoOne,     \* no client
    MaxGen     \* bound: the largest generation

State == {"created", "preflighting", "acquiring", "restoring", "verifying",
          "completed", "rejected", "rolling_back", "failed", "attention"}

Terminal == {"completed", "rejected", "failed", "attention"}

Holding == {"restoring", "verifying", "completed", "rolling_back"}

Token == [holder : Client, gen : 0 .. MaxGen]
NoToken == [holder |-> NoOne, gen |-> 0]

\* Writer counts above one stand for two.
Evidence == [gen : 0 .. MaxGen, holder : Client \cup {NoOne},
             trigger : 0 .. 2, bullet : 0 .. 2]
NoEvidence == [gen |-> 0, holder |-> NoOne, trigger |-> 0, bullet |-> 0]

Node == [state : State, token : Token \cup {NoToken},
         verified : BOOLEAN, evidence : Evidence, error : BOOLEAN]

Created == [state |-> "created", token |-> NoToken,
            verified |-> FALSE, evidence |-> NoEvidence, error |-> FALSE]

-----------------------------------------------------------------------------
(* Events.  A payload is well formed: the adapter parsed it.                 *)

Plain == {"processing_started", "preflight_rejected", "ownership_failed",
          "restore_completed", "restore_failed", "verification_failed",
          "rollback_uncertain"}

Payload ==
    [event : Plain]
        \cup [event : {"preflight_passed"}, stable : BOOLEAN]
        \cup [event : {"ownership_acquired"}, token : Token]
        \cup [event : {"verification_passed"}, evidence : Evidence]
        \cup [event : {"rollback_completed"}, kept : BOOLEAN]

Edge(from, event, to) == [from |-> from, event |-> event, to |-> to]

Graph ==
    {Edge("created", "processing_started", "preflighting"),
     Edge("preflighting", "preflight_passed", "acquiring"),
     Edge("preflighting", "preflight_rejected", "rejected"),
     Edge("acquiring", "ownership_acquired", "restoring"),
     Edge("acquiring", "ownership_failed", "failed"),
     Edge("restoring", "restore_completed", "verifying"),
     Edge("restoring", "restore_failed", "rolling_back"),
     Edge("verifying", "verification_passed", "completed"),
     Edge("verifying", "verification_failed", "rolling_back"),
     Edge("rolling_back", "rollback_completed", "failed"),
     Edge("rolling_back", "rollback_uncertain", "attention")}

\* At most one writer of a role, and nobody else holds the tunnel.
GoodEvidence(evidence, token, claimant) ==
    /\ evidence.gen = token.gen
    /\ evidence.trigger <= 1
    /\ evidence.bullet <= 1
    /\ evidence.holder \in {NoOne, claimant}

\* Mutant: the number of writers is not compared.
GuardAnyWriters(node, claimant, payload) ==
    /\ payload.event = "preflight_passed" => payload.stable
    /\ payload.event = "ownership_acquired" => payload.token.holder = claimant
    /\ payload.event = "verification_passed" =>
          node.token # NoToken /\ payload.evidence.gen = node.token.gen
    /\ payload.event = "rollback_completed" => payload.kept

Guard(node, claimant, payload) ==
    /\ payload.event = "preflight_passed" => payload.stable
    /\ payload.event = "ownership_acquired" => payload.token.holder = claimant
    /\ payload.event = "verification_passed" =>
          node.token # NoToken /\ GoodEvidence(payload.evidence, node.token, claimant)
    /\ payload.event = "rollback_completed" => payload.kept

SetsError == {"preflight_rejected", "ownership_failed", "restore_failed",
              "verification_failed", "rollback_uncertain"}
ClearsError == {"preflight_passed", "ownership_acquired", "verification_passed"}

Enter(node, to, payload) ==
    [state |-> to,
     token |-> IF payload.event = "ownership_acquired" THEN payload.token ELSE node.token,
     verified |-> node.verified \/ payload.event = "verification_passed",
     evidence |-> IF payload.event = "verification_passed" THEN payload.evidence
                  ELSE node.evidence,
     error |-> \/ payload.event \in SetsError
               \/ node.error /\ payload.event \notin ClearsError]

\* The validator of the node (legal_state_facts).
Legal(node, claimant) ==
    /\ node.state \in Holding => node.token # NoToken
    /\ node.token # NoToken => node.token.holder = claimant
    /\ node.state = "completed" =>
          node.verified /\ GoodEvidence(node.evidence, node.token, claimant)
    /\ node.state \in {"rejected", "failed", "attention"} => node.error

-----------------------------------------------------------------------------
(* The machine: a node and the log of the transitions it took.               *)

Machine == [node : Node, log : Seq(Graph)]

NewMachine == [node |-> Created, log |-> <<>>]

\* An event is accepted when the graph has an edge for it, the guard holds and
\* the validator takes the new node; otherwise the machine stays as it was.
Accepted(machine, claimant, payload, edge) ==
    /\ edge.from = machine.node.state
    /\ edge.event = payload.event
    /\ Guard(machine.node, claimant, payload)
    /\ Legal(Enter(machine.node, edge.to, payload), claimant)

Accepts(machine, claimant, payload) ==
    \E edge \in Graph : Accepted(machine, claimant, payload, edge)

\* Mutant: the log misses the transition.
AdvancedUnlogged(machine, payload, edge) ==
    [node |-> Enter(machine.node, edge.to, payload), log |-> machine.log]

Advanced(machine, payload, edge) ==
    [node |-> Enter(machine.node, edge.to, payload),
     log |-> Append(machine.log, edge)]

\* The log is a path of the graph from "created" to the state of the node.
IsPath(log, state) ==
    /\ \A i \in 1 .. Len(log) :
          log[i].from = IF i = 1 THEN "created" ELSE log[i - 1].to
    /\ state = IF log = <<>> THEN "created" ELSE log[Len(log)].to

\* What ResumeMachine.restore accepts.
Restorable(machine, claimant) ==
    /\ Legal(machine.node, claimant)
    /\ IsPath(machine.log, machine.node.state)
=============================================================================

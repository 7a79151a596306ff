--------------------------- MODULE ResumeMachine ---------------------------
(* One resume as its state machine promises it: every step is one edge.      *)
EXTENDS ResumeGraph

CONSTANT claimant    \* the Client that resumes

VARIABLE machine

Init == machine = NewMachine

\* An accepted event advances the machine by its edge of the graph.
Send(payload) ==
    \E edge \in Graph :
        /\ Accepted(machine, claimant, payload, edge)
        /\ machine' = Advanced(machine, payload, edge)

Next == \E payload \in Payload : Send(payload)

Spec == Init /\ [][Next]_machine

-----------------------------------------------------------------------------
TypeOK == machine \in Machine

\* Any machine that can be reached is a snapshot that restore takes back.
AlwaysRestorable == Restorable(machine, claimant)

\* The validator of the node never refuses what the guards let through, so
\* ResumeMachine.send fails only on a guard, on the graph or on the disk.
GuardsSuffice ==
    \A edge \in Graph :
        edge.from = machine.node.state =>
            \A payload \in Payload :
                edge.event = payload.event /\ Guard(machine.node, claimant, payload)
                => Legal(Enter(machine.node, edge.to, payload), claimant)
=============================================================================

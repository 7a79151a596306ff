--------------------------- MODULE ResumeAttempt ---------------------------
(***************************************************************************)
(* The worker of a resume (ControlService.resume, resume_attempt.py).      *)
(*                                                                         *)
(* A worker does its I/O - plan, claim, restore the panes, verify, save    *)
(* the tunnel - and reports every step to its state machine, which writes  *)
(* a snapshot to the disk before the next step may happen.  A step, a      *)
(* write and the process itself may fail at any place.  Several workers    *)
(* run at a time, on one Client or on several; they share the tunnel's     *)
(* occupancy at the Hub (the abstract one of TunnelOwner, which Occupancy  *)
(* implements), the tunnel file of their Client, and the directory of the  *)
(* snapshots, which each new attempt prunes.                               *)
(***************************************************************************)
EXTENDS ResumeGraph, FiniteSets

CONSTANTS
    Attempt,     \* the attempts
    Claimant,    \* Claimant[a] is the Client that makes the attempt a
    NoSnapshot,  \* no file
    Keep,        \* how many snapshots the newest attempt leaves
    Fault,       \* a subset of {"disk", "lost", "interrupt", "crash"}
    MaxEpoch     \* bound: how often the generation counter restarts

ASSUME ResumeAttemptAssumption ==
    /\ NoOne \notin Client
    /\ NoSnapshot \notin Machine
    /\ Claimant \in [Attempt -> Client]
    /\ Keep \in Nat \ {0}
    /\ MaxGen \in Nat
    /\ MaxEpoch \in Nat

VARIABLES
    owner, generation, epoch, given,    \* the tunnel's occupancy
    late,      \* attempts whose claim timed out and that still may run
    pc,        \* where the worker of each attempt is
    machine,   \* the machine in its memory
    disk,      \* the snapshot of each attempt
    older,     \* <<x, y>>: the snapshot of x was written before the one of y
    token,     \* the generation its claim returned
    saved,     \* ownership_generation in each Client's tunnel file
    agents     \* the agents of the tunnel run in each Client's panes

occupancy == <<owner, generation, epoch, given>>
record == <<machine, disk, older>>
vars == <<occupancy, late, pc, record, token, saved, agents>>

Hub == INSTANCE TunnelOwner

Place == {"new", "begin", "plan", "claim", "acquired", "restore", "restored",
          "verify", "save", "passed", "restore_failed", "verification_failed",
          "rollback", "returned", "raised", "dead"}

Ended == {"returned", "raised", "dead"}

TypeOK ==
    /\ owner \in Client \cup {NoOne}
    /\ generation \in 0 .. MaxGen
    /\ epoch \in 0 .. MaxEpoch
    /\ given \in SUBSET ((0 .. MaxEpoch) \X (1 .. MaxGen) \X Client)
    /\ late \in SUBSET Attempt
    /\ pc \in [Attempt -> Place]
    /\ machine \in [Attempt -> Machine]
    /\ disk \in [Attempt -> Machine \cup {NoSnapshot}]
    /\ older \in SUBSET (Attempt \X Attempt)
    /\ token \in [Attempt -> 0 .. MaxGen]
    /\ saved \in [Client -> 0 .. MaxGen]
    /\ agents \in [Client -> BOOLEAN]

Init ==
    /\ Hub!Init
    /\ late = {}
    /\ pc = [a \in Attempt |-> "new"]
    /\ machine = [a \in Attempt |-> NewMachine]
    /\ disk = [a \in Attempt |-> NoSnapshot]
    /\ older = {}
    /\ token = [a \in Attempt |-> 0]
    /\ saved = [c \in Client |-> 0]
    /\ agents = [c \in Client |-> FALSE]

Goto(a, place) == pc' = [pc EXCEPT ![a] = place]

-----------------------------------------------------------------------------
(* Recording an event.                                                       *)

\* The order of the snapshots once the one of a is the last written.
Newest(a) ==
    {p \in older : a \notin {p[1], p[2]}}
        \cup {<<x, a>> : x \in {y \in Attempt \ {a} : disk[y] # NoSnapshot}}

\* A snapshot replaces the older one of its attempt in one step.
Write(a, snapshot) ==
    /\ disk' = [disk EXCEPT ![a] = snapshot]
    /\ older' = Newest(a)

\* Mutants: after a failed write the machine stays advanced, or starts anew.
RecordKeeps(a, payload, done, failed, interrupted) ==
    \/ \E edge \in Graph :
          /\ Accepted(machine[a], Claimant[a], payload, edge)
          /\ machine' = [machine EXCEPT ![a] = Advanced(@, payload, edge)]
          /\ \/ Write(a, machine'[a]) /\ Goto(a, done)
             \/ "disk" \in Fault /\ Goto(a, failed) /\ UNCHANGED <<disk, older>>
    \/ /\ ~Accepts(machine[a], Claimant[a], payload)
       /\ Goto(a, failed)
       /\ UNCHANGED record

RecordResets(a, payload, done, failed, interrupted) ==
    \/ \E edge \in Graph :
          /\ Accepted(machine[a], Claimant[a], payload, edge)
          /\ \/ /\ machine' = [machine EXCEPT ![a] = Advanced(@, payload, edge)]
                /\ Write(a, machine'[a])
                /\ Goto(a, done)
             \/ /\ "disk" \in Fault
                /\ machine' = [machine EXCEPT ![a] = NewMachine]
                /\ Goto(a, failed)
                /\ UNCHANGED <<disk, older>>
    \/ /\ ~Accepts(machine[a], Claimant[a], payload)
       /\ Goto(a, failed)
       /\ UNCHANGED record

\* ResumeMachine.send.  An event that is not accepted or not written leaves
\* the machine as it was - but a Ctrl-C during the write is no Exception, so
\* the machine stays advanced, whether the file was replaced or not.
Record(a, payload, done, failed, interrupted) ==
    \/ \E edge \in Graph :
          /\ Accepted(machine[a], Claimant[a], payload, edge)
          /\ \/ /\ machine' = [machine EXCEPT ![a] = Advanced(@, payload, edge)]
                /\ Write(a, machine'[a])
                /\ Goto(a, done)
             \/ /\ "disk" \in Fault
                /\ Goto(a, failed)
                /\ UNCHANGED record
             \/ /\ "interrupt" \in Fault
                /\ machine' = [machine EXCEPT ![a] = Advanced(@, payload, edge)]
                /\ Write(a, machine'[a]) \/ UNCHANGED <<disk, older>>
                /\ Goto(a, interrupted)
    \/ /\ ~Accepts(machine[a], Claimant[a], payload)
       /\ Goto(a, failed)
       /\ UNCHANGED record

outside == <<occupancy, late, token, saved, agents>>

Event(name) == [event |-> name]

-----------------------------------------------------------------------------
(* The steps of the worker.                                                  *)

\* The first snapshot is written, then all but the newest Keep are deleted -
\* those of attempts that still run among them.
Start(a) ==
    /\ pc[a] = "new"
    /\ \/ LET kept == {x \in Attempt :
                          Cardinality({y \in Attempt : <<x, y>> \in Newest(a)}) < Keep}
          IN  /\ disk' = [x \in Attempt |-> IF x = a THEN NewMachine
                                            ELSE IF x \in kept THEN disk[x]
                                            ELSE NoSnapshot]
              /\ older' = Newest(a) \cap (kept \X kept)
              /\ Goto(a, "begin")
       \/ /\ "disk" \in Fault
          /\ Goto(a, "raised")
          /\ UNCHANGED <<disk, older>>
       \/ /\ "interrupt" \in Fault
          /\ Goto(a, "raised")
          /\ Write(a, NewMachine) \/ UNCHANGED <<disk, older>>
    /\ UNCHANGED <<outside, machine>>

Begin(a) ==
    /\ pc[a] = "begin"
    /\ Record(a, Event("processing_started"), "plan", "raised", "raised")
    /\ UNCHANGED outside

\* Mutant: a preflight that could not be recorded goes on to the claim.
PreflightOpen(a) ==
    /\ pc[a] = "plan"
    /\ \/ Record(a, [event |-> "preflight_passed", stable |-> TRUE], "claim", "claim", "raised")
       \/ Record(a, Event("preflight_rejected"), "raised", "raised", "raised")
    /\ UNCHANGED outside

\* A safe plan opens the claim; an unsafe one, and a preflight that fails, are
\* recorded and refused.  The worker itself vouches for stable revisions.
Preflight(a) ==
    /\ pc[a] = "plan"
    /\ \/ Record(a, [event |-> "preflight_passed", stable |-> TRUE], "claim", "raised", "raised")
       \/ Record(a, Event("preflight_rejected"), "raised", "raised", "raised")
    /\ UNCHANGED outside

\* A Client that holds the tunnel keeps its generation.
ClaimBy(c) ==
    \/ generation < MaxGen /\ Hub!Take(c)
    \/ owner = c /\ generation > 0 /\ UNCHANGED occupancy

Acquire(a) ==
    /\ pc[a] = "claim"
    /\ ClaimBy(Claimant[a])
    /\ token' = [token EXCEPT ![a] = generation']
    /\ Goto(a, "acquired")
    /\ UNCHANGED <<late, record, saved, agents>>

\* The claim fails, or its answer is lost and the script may yet run.
AcquireFails(a) ==
    /\ pc[a] = "claim"
    /\ \/ UNCHANGED late
       \/ "lost" \in Fault /\ late' = late \cup {a}
    /\ Record(a, Event("ownership_failed"), "raised", "raised", "raised")
    /\ UNCHANGED <<occupancy, token, saved, agents>>

LateClaim(a) ==
    /\ a \in late
    /\ ClaimBy(Claimant[a])
    /\ late' = late \ {a}
    /\ UNCHANGED <<pc, record, token, saved, agents>>

\* The token on record names the attempt's own Client, whatever the Hub
\* answered.  A failure here leaves without the failure path.
Acquired(a) ==
    /\ pc[a] = "acquired"
    /\ Record(a, [event |-> "ownership_acquired",
                  token |-> [holder |-> Claimant[a], gen |-> token[a]]],
              "restore", "raised", "raised")
    /\ UNCHANGED outside

\* The panes are started one by one: a failure may leave some of them.
Restore(a) ==
    /\ pc[a] = "restore"
    /\ \/ /\ agents' = [agents EXCEPT ![Claimant[a]] = TRUE]
          /\ Goto(a, "restored") \/ Goto(a, "restore_failed")
       \/ /\ Goto(a, "restore_failed")
          /\ UNCHANGED agents
    /\ UNCHANGED <<occupancy, late, record, token, saved>>

Restored(a) ==
    /\ pc[a] = "restored"
    /\ Record(a, Event("restore_completed"), "verify", "restore_failed", "restore_failed")
    /\ UNCHANGED outside

\* The occupancy is read again; the panes are not looked at.
Unchanged(a) ==
    /\ owner \in {NoOne, Claimant[a]}
    /\ generation \in {0, token[a]}

Verify(a) ==
    /\ pc[a] = "verify"
    /\ Unchanged(a)
    /\ Goto(a, "save")
    /\ UNCHANGED <<outside, record>>

\* The occupancy changed or could not be read; after a Ctrl-C in this report
\* the outer handler reports the failure once more.
VerifyFails(a) ==
    /\ pc[a] = "verify"
    /\ Record(a, Event("verification_failed"), "rollback", "rollback", "verification_failed")
    /\ UNCHANGED outside

\* The tunnel file may be written and the event log after it fail.
Save(a) ==
    /\ pc[a] = "save"
    /\ \/ /\ saved' = [saved EXCEPT ![Claimant[a]] = token[a]]
          /\ Goto(a, "passed") \/ Goto(a, "verification_failed")
       \/ /\ Goto(a, "verification_failed")
          /\ UNCHANGED saved
    /\ UNCHANGED <<occupancy, late, record, token, agents>>

\* Mutant: the last report is best effort, as those of the failure path are.
PassedSwallowed(a) ==
    /\ pc[a] = "passed"
    /\ Record(a, [event |-> "verification_passed",
                  evidence |-> [gen |-> token[a], holder |-> Claimant[a],
                                trigger |-> 0, bullet |-> 0]],
              "returned", "returned", "verification_failed")
    /\ UNCHANGED outside

\* verify_resume hands over no writers, so both counts are 0.
Passed(a) ==
    /\ pc[a] = "passed"
    /\ Record(a, [event |-> "verification_passed",
                  evidence |-> [gen |-> token[a], holder |-> Claimant[a],
                                trigger |-> 0, bullet |-> 0]],
              "returned", "verification_failed", "verification_failed")
    /\ UNCHANGED outside

\* The failure path after the claim: report, keep the occupancy, raise.  A
\* report that is refused or not written is swallowed.
ReportFailure(a) ==
    /\ pc[a] \in {"restore_failed", "verification_failed"}
    /\ Record(a, Event(pc[a]), "rollback", "rollback", "raised")
    /\ UNCHANGED outside

Rollback(a) ==
    /\ pc[a] = "rollback"
    /\ Record(a, [event |-> "rollback_completed", kept |-> TRUE], "raised", "raised", "raised")
    /\ UNCHANGED outside

-----------------------------------------------------------------------------
(* Faults and the rest of the system.                                        *)

Crash(a) ==
    /\ "crash" \in Fault
    /\ pc[a] \notin Ended \cup {"new"}
    /\ Goto(a, "dead")
    /\ UNCHANGED <<outside, record>>

\* Other commands of any Client claim, and owners drop or remove the tunnel.
OthersClaim(c) ==
    /\ generation < MaxGen
    /\ Hub!Take(c)
    /\ UNCHANGED <<late, pc, record, token, saved, agents>>

OwnerLeaves ==
    /\ generation > 0 => epoch < MaxEpoch
    /\ Hub!Lapse
    /\ UNCHANGED <<late, pc, record, token, saved, agents>>

\* An agent exits, or its panes are closed.
AgentExits(c) ==
    /\ agents[c]
    /\ agents' = [agents EXCEPT ![c] = FALSE]
    /\ UNCHANGED <<occupancy, late, pc, record, token, saved>>

-----------------------------------------------------------------------------
Work(a) ==
    \/ Start(a)
    \/ Begin(a)
    \/ Preflight(a)
    \/ Acquire(a)
    \/ AcquireFails(a)
    \/ Acquired(a)
    \/ Restore(a)
    \/ Restored(a)
    \/ Verify(a)
    \/ VerifyFails(a)
    \/ Save(a)
    \/ Passed(a)
    \/ ReportFailure(a)
    \/ Rollback(a)

Next ==
    \/ \E a \in Attempt : Work(a) \/ LateClaim(a) \/ Crash(a)
    \/ \E c \in Client : OthersClaim(c) \/ AgentExits(c)
    \/ OwnerLeaves

Spec == Init /\ [][Next]_vars

-----------------------------------------------------------------------------
(* Properties.                                                               *)

Attempted(a) == INSTANCE ResumeMachine WITH claimant <- Claimant[a], machine <- machine[a]

\* The machine of every attempt moves by the edges of its graph only, whatever
\* fails around it (ResumeMachine.send).
MachinesStep ==
    /\ \A a \in Attempt : Attempted(a)!Init
    /\ [][\A a \in Attempt : Attempted(a)!Next \/ UNCHANGED machine[a]]_vars

\* ResumeMachine.restore takes every snapshot that is on the disk.
SnapshotsRestorable ==
    \A a \in Attempt :
        disk[a] # NoSnapshot => Restorable(disk[a], Claimant[a])

\* resume.py:357: the machine "persists every successful pure state transition":
\* a snapshot that was not pruned is the machine in memory.
MemoryOnDisk ==
    \A a \in Attempt : disk[a] \in {NoSnapshot, machine[a]}

\* The claim and the panes wait for their event: a worker claims when its record
\* says "acquiring" and starts panes when it says "restoring" (resume_attempt.py:4).
Gate == [claim |-> "acquiring", acquired |-> "acquiring", restore |-> "restoring"]

GatedByRecord ==
    \A a \in Attempt :
        pc[a] \in DOMAIN Gate /\ disk[a] # NoSnapshot => disk[a].node.state = Gate[pc[a]]

\* A token on record was granted to the attempt's Client by the Hub.
RecordedTokenGranted ==
    \A a \in Attempt :
        disk[a] # NoSnapshot /\ disk[a].node.token # NoToken =>
            \E e \in 0 .. MaxEpoch : <<e, disk[a].node.token.gen, Claimant[a]>> \in given

\* What the command tells its caller is what the record says: success if and
\* only if it is completed.
ReportMatchesRecord ==
    \A a \in Attempt : disk[a] # NoSnapshot =>
        /\ pc[a] = "returned" => disk[a].node.state = "completed"
        /\ pc[a] = "raised" => disk[a].node.state # "completed"

\* The invariant behind MemoryOnDisk and ReportMatchesRecord, where no Ctrl-C
\* separates the record from the machine: a machine completes as its command
\* returns.
MemoryInv ==
    /\ MemoryOnDisk
    /\ \A a \in Attempt : pc[a] = "returned" <=> machine[a].node.state = "completed"
=============================================================================

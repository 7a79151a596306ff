------------------------ MODULE ResumeAttemptProofs ------------------------
(* What the worker of a resume guarantees, for every set of attempts and     *)
(* Clients, every bound and every combination of faults.                     *)
EXTENDS MCResumeAttempt, ResumeGraphProofs

-----------------------------------------------------------------------------
(* The inductive invariant.                                                  *)

\* Machines in memory are restorable, and so are the snapshots.
RecordsLegal ==
    \A a \in Attempt :
        /\ Restorable(machine[a], Claimant[a])
        /\ disk[a] # NoSnapshot => Restorable(disk[a], Claimant[a])

\* The state of the machine while its worker is between two reports.
Where == [x \in {"begin", "plan", "claim", "acquired", "restore", "restored"} |->
              IF x = "begin" THEN "created"
              ELSE IF x = "plan" THEN "preflighting"
              ELSE IF x \in {"claim", "acquired"} THEN "acquiring"
              ELSE "restoring"]

\* There the last report was written: memory and disk agree, unless pruned.
WorkRecorded ==
    \A a \in Attempt : pc[a] \in DOMAIN Where =>
        /\ machine[a].node.state = Where[pc[a]]
        /\ disk[a] \in {NoSnapshot, machine[a]}

\* A worker that did not start has a new machine.
NewIsNew == \A a \in Attempt : pc[a] = "new" => machine[a] = NewMachine

Granted(a, gen) == \E e \in 0 .. MaxEpoch : <<e, gen, Claimant[a]>> \in given

\* Tokens in the workers' hands, in memory and on the disk were granted.
TokensGranted ==
    \A a \in Attempt :
        /\ pc[a] = "acquired" => Granted(a, token[a])
        /\ machine[a].node.token # NoToken => Granted(a, machine[a].node.token.gen)
        /\ disk[a] # NoSnapshot /\ disk[a].node.token # NoToken =>
              Granted(a, disk[a].node.token.gen)

\* The occupancy's current term was given to its owner.
CurrentGiven == generation > 0 => <<epoch, generation, owner>> \in given

AttemptInv ==
    /\ TypeOK
    /\ RecordsLegal
    /\ WorkRecorded
    /\ NewIsNew
    /\ TokensGranted
    /\ CurrentGiven

\* Every machine moves by one accepted event or stays.
MachinesMove ==
    \A a \in Attempt :
        \/ \E payload \in Payload, edge \in Graph :
              /\ Accepted(machine[a], Claimant[a], payload, edge)
              /\ machine'[a] = Advanced(machine[a], payload, edge)
        \/ machine'[a] = machine[a]

-----------------------------------------------------------------------------
LEMMA InitInv == Init => AttemptInv
<1> SUFFICES ASSUME Init PROVE AttemptInv
  OBVIOUS
<1> USE DEF Init, Hub!Init
<1>1. \A a \in Attempt : NewMachine \in Machine /\ Restorable(NewMachine, Claimant[a])
  BY NewRestorable, ResumeAttemptAssumption DEF ResumeAttemptAssumption
<1>2. TypeOK
  <2>1. machine \in [Attempt -> Machine]
    BY <1>1
  <2>2. MaxGen \in Nat /\ MaxEpoch \in Nat
    BY ResumeAttemptAssumption DEF ResumeAttemptAssumption
  <2>3. QED
    BY <2>1, <2>2 DEF TypeOK, Place
<1>3. RecordsLegal
  BY <1>1 DEF RecordsLegal
<1>4. WorkRecorded /\ NewIsNew
  BY DEF WorkRecorded, NewIsNew, Where
<1>5. TokensGranted
  BY DEF TokensGranted, NewMachine, Created
<1>6. CurrentGiven
  BY DEF CurrentGiven
<1>7. QED
  BY <1>2, <1>3, <1>4, <1>5, <1>6 DEF AttemptInv

\* What a report leaves behind, whichever way it goes (ResumeMachine.send).
LEMMA RecordEffect ==
    ASSUME TypeOK, NEW a \in Attempt, NEW payload \in Payload,
           NEW done \in Place, NEW failed \in Place, NEW interrupted \in Place,
           Record(a, payload, done, failed, interrupted)
    PROVE  /\ machine' \in [Attempt -> Machine]
           /\ disk' \in [Attempt -> Machine \cup {NoSnapshot}]
           /\ older' \in SUBSET (Attempt \X Attempt)
           /\ pc' \in [Attempt -> Place]
           /\ \A x \in Attempt \ {a} :
                 machine'[x] = machine[x] /\ disk'[x] = disk[x] /\ pc'[x] = pc[x]
           /\ disk'[a] \in {disk[a], machine'[a]}
           /\ \/ /\ pc'[a] \in {failed, interrupted}
                 /\ machine'[a] = machine[a]
              \/ /\ pc'[a] \in {done, interrupted}
                 /\ pc'[a] # interrupted => disk'[a] = machine'[a]
                 /\ \E edge \in Graph :
                       /\ Accepted(machine[a], Claimant[a], payload, edge)
                       /\ machine'[a] = Advanced(machine[a], payload, edge)
<1> USE DEF TypeOK
<1>1. Newest(a) \in SUBSET (Attempt \X Attempt)
  <2>1. {<<x, a>> : x \in {y \in Attempt \ {a} : disk[y] # NoSnapshot}} \subseteq Attempt \X Attempt
    OBVIOUS
  <2>2. QED
    BY <2>1 DEF Newest
<1>2. CASE UNCHANGED record /\ Goto(a, failed)
  BY <1>2 DEF record, Goto
<1>3. CASE \E edge \in Graph :
                /\ Accepted(machine[a], Claimant[a], payload, edge)
                /\ machine' = [machine EXCEPT ![a] = Advanced(@, payload, edge)]
                /\ \/ Write(a, machine'[a]) /\ (Goto(a, done) \/ Goto(a, interrupted))
                   \/ UNCHANGED <<disk, older>> /\ Goto(a, interrupted)
  <2>1. PICK edge \in Graph :
                /\ Accepted(machine[a], Claimant[a], payload, edge)
                /\ machine' = [machine EXCEPT ![a] = Advanced(@, payload, edge)]
                /\ \/ Write(a, machine'[a]) /\ (Goto(a, done) \/ Goto(a, interrupted))
                   \/ UNCHANGED <<disk, older>> /\ Goto(a, interrupted)
    BY <1>3
  <2>2. Advanced(machine[a], payload, edge) \in Machine
    BY AdvancedMachine
  <2>3. /\ machine' \in [Attempt -> Machine]
        /\ machine'[a] = Advanced(machine[a], payload, edge)
        /\ \A x \in Attempt \ {a} : machine'[x] = machine[x]
    BY <2>1, <2>2
  <2>4. CASE Write(a, machine'[a]) /\ (Goto(a, done) \/ Goto(a, interrupted))
    BY <1>1, <2>1, <2>3, <2>4 DEF Write, Goto
  <2>5. CASE UNCHANGED <<disk, older>> /\ Goto(a, interrupted)
    BY <2>1, <2>3, <2>5 DEF Goto
  <2>6. QED
    BY <2>1, <2>4, <2>5
<1>4. QED
  BY <1>2, <1>3 DEF Record

\* A report keeps the invariant when the place it leads to fits its event, and a
\* token that is reported was granted.
LEMMA ReportKeeps ==
    ASSUME AttemptInv, NEW a \in Attempt, NEW payload \in Payload,
           NEW done \in Place, NEW failed \in Place, NEW interrupted \in Place,
           Record(a, payload, done, failed, interrupted),
           UNCHANGED <<occupancy, token, saved, agents>>,
           late' \in SUBSET Attempt,
           failed \notin DOMAIN Where, interrupted \notin DOMAIN Where,
           done # "new", failed # "new", interrupted # "new", done # "acquired",
           done \in DOMAIN Where =>
               \A edge \in Graph : edge.from = machine[a].node.state
                  /\ edge.event = payload.event => edge.to = Where[done],
           payload.event = "ownership_acquired" => Granted(a, payload.token.gen)
    PROVE  AttemptInv' /\ MachinesMove
<1> USE DEF AttemptInv
<1>1. TypeOK
  OBVIOUS
<1>2. /\ machine' \in [Attempt -> Machine]
      /\ disk' \in [Attempt -> Machine \cup {NoSnapshot}]
      /\ older' \in SUBSET (Attempt \X Attempt)
      /\ pc' \in [Attempt -> Place]
      /\ \A x \in Attempt \ {a} :
            machine'[x] = machine[x] /\ disk'[x] = disk[x] /\ pc'[x] = pc[x]
      /\ disk'[a] \in {disk[a], machine'[a]}
      /\ \/ /\ pc'[a] \in {failed, interrupted}
            /\ machine'[a] = machine[a]
         \/ /\ pc'[a] \in {done, interrupted}
            /\ pc'[a] # interrupted => disk'[a] = machine'[a]
            /\ \E edge \in Graph :
                  /\ Accepted(machine[a], Claimant[a], payload, edge)
                  /\ machine'[a] = Advanced(machine[a], payload, edge)
  BY <1>1, RecordEffect
<1>3. machine[a] \in Machine /\ Restorable(machine[a], Claimant[a])
  BY DEF TypeOK, RecordsLegal
<1>4. TypeOK'
  BY <1>2 DEF TypeOK, occupancy
<1>5. RecordsLegal'
  <2>1. Restorable(machine'[a], Claimant[a])
    BY <1>2, <1>3, AcceptedRestorable
  <2>2. QED
    BY <1>2, <2>1 DEF RecordsLegal
<1>6. WorkRecorded'
  <2>1. ASSUME pc'[a] \in DOMAIN Where
        PROVE  machine'[a].node.state = Where[pc'[a]] /\ disk'[a] = machine'[a]
    <3>1. PICK edge \in Graph :
              /\ Accepted(machine[a], Claimant[a], payload, edge)
              /\ machine'[a] = Advanced(machine[a], payload, edge)
      BY <1>2, <2>1
    <3>2. pc'[a] = done /\ disk'[a] = machine'[a]
      BY <1>2, <2>1
    <3>3. edge.to = Where[done]
      BY <2>1, <3>1, <3>2 DEF Accepted
    <3>4. QED
      BY <3>1, <3>2, <3>3 DEF Advanced, Enter
  <2>2. QED
    BY <1>2, <2>1 DEF WorkRecorded
<1>7. NewIsNew'
  BY <1>2 DEF NewIsNew
<1>8. TokensGranted'
  <2>1. given' = given
    BY DEF occupancy
  <2>2. machine'[a].node.token # NoToken => Granted(a, machine'[a].node.token.gen)
    BY <1>2 DEF TokensGranted, Advanced, Enter
  <2>3. pc'[a] # "acquired"
    BY <1>2 DEF Where
  <2>4. QED
    BY <1>2, <2>1, <2>2, <2>3 DEF TokensGranted, Granted
<1>9. CurrentGiven'
  BY DEF CurrentGiven, occupancy
<1>10. MachinesMove
  BY <1>2 DEF MachinesMove
<1>11. QED
  BY <1>4, <1>5, <1>6, <1>7, <1>8, <1>9, <1>10

\* What a claim does to the occupancy (the script's claim branch).
LEMMA ClaimEffect ==
    ASSUME AttemptInv, NEW c \in Client, ClaimBy(c)
    PROVE  /\ owner' \in Client \cup {NoOne} /\ generation' \in 0 .. MaxGen
           /\ epoch' \in 0 .. MaxEpoch
           /\ given' \in SUBSET ((0 .. MaxEpoch) \X (1 .. MaxGen) \X Client)
           /\ given \subseteq given'
           /\ CurrentGiven'
           /\ <<epoch, generation', c>> \in given'
<1> USE DEF AttemptInv, TypeOK
<1>1. MaxGen \in Nat /\ MaxEpoch \in Nat
  BY ResumeAttemptAssumption DEF ResumeAttemptAssumption
<1>2. CASE generation < MaxGen /\ Hub!Take(c)
  BY <1>1, <1>2 DEF Hub!Take, CurrentGiven
<1>3. CASE owner = c /\ generation > 0 /\ UNCHANGED occupancy
  BY <1>1, <1>3 DEF occupancy, CurrentGiven
<1>4. QED
  BY <1>2, <1>3 DEF ClaimBy

\* A step that leaves the records alone keeps the invariant when the worker
\* does not enter another state of its machine.
LEMMA OutsideKeeps ==
    ASSUME AttemptInv, TypeOK', UNCHANGED record, CurrentGiven', given \subseteq given',
           \A x \in Attempt : pc'[x] \in DOMAIN Where =>
              pc[x] \in DOMAIN Where /\ Where[pc[x]] = Where[pc'[x]],
           \A x \in Attempt : pc'[x] = "new" => pc[x] = "new",
           \A x \in Attempt : pc'[x] = "acquired" =>
              \/ pc[x] = "acquired" /\ token'[x] = token[x]
              \/ Granted(x, token[x])'
    PROVE  AttemptInv' /\ MachinesMove
<1> USE DEF AttemptInv, record
<1>1. RecordsLegal'
  BY DEF RecordsLegal
<1>2. WorkRecorded'
  BY DEF WorkRecorded
<1>3. NewIsNew'
  BY DEF NewIsNew
<1>4. TokensGranted'
  BY DEF TokensGranted, Granted
<1>5. MachinesMove
  BY DEF MachinesMove
<1>6. QED
  BY <1>1, <1>2, <1>3, <1>4, <1>5

LEMMA StartKeeps ==
    ASSUME AttemptInv, NEW a \in Attempt, Start(a)
    PROVE  AttemptInv' /\ MachinesMove
<1> USE DEF AttemptInv
<1> USE DEF Start
<1>1. UNCHANGED <<outside, machine>> /\ pc[a] = "new" /\ machine[a] = NewMachine
  BY DEF NewIsNew
<1>2. Newest(a) \in SUBSET (Attempt \X Attempt)
  <2>1. {<<x, a>> : x \in {y \in Attempt \ {a} : disk[y] # NoSnapshot}} \subseteq Attempt \X Attempt
    OBVIOUS
  <2>2. QED
    BY <2>1 DEF Newest, TypeOK
<1>3. /\ disk' \in [Attempt -> Machine \cup {NoSnapshot}]
      /\ older' \in SUBSET (Attempt \X Attempt)
      /\ pc' \in [Attempt -> Place]
      /\ \A x \in Attempt \ {a} : disk'[x] \in {disk[x], NoSnapshot} /\ pc'[x] = pc[x]
      /\ pc'[a] \in {"begin", "raised"}
      /\ disk'[a] \in {disk[a], NewMachine}
      /\ pc'[a] = "begin" => disk'[a] = NewMachine
  <2>1. NewMachine \in Machine
    BY <1>1 DEF TypeOK
  <2>2. \/ /\ \E kept \in SUBSET Attempt :
                 /\ disk' = [x \in Attempt |-> IF x = a THEN NewMachine
                                               ELSE IF x \in kept THEN disk[x]
                                               ELSE NoSnapshot]
                 /\ older' = Newest(a) \cap (kept \X kept)
           /\ Goto(a, "begin")
        \/ Goto(a, "raised") /\ UNCHANGED <<disk, older>>
        \/ Goto(a, "raised") /\ Write(a, NewMachine)
    OBVIOUS
  <2>3. CASE \E kept \in SUBSET Attempt :
                 /\ disk' = [x \in Attempt |-> IF x = a THEN NewMachine
                                               ELSE IF x \in kept THEN disk[x]
                                               ELSE NoSnapshot]
                 /\ older' = Newest(a) \cap (kept \X kept)
                 /\ Goto(a, "begin")
    BY <1>2, <2>1, <2>3 DEF TypeOK, Goto, Place
  <2>4. CASE Goto(a, "raised") /\ UNCHANGED <<disk, older>>
    BY <2>4 DEF TypeOK, Goto, Place
  <2>5. CASE Goto(a, "raised") /\ Write(a, NewMachine)
    BY <1>2, <2>1, <2>5 DEF TypeOK, Goto, Place, Write
  <2>6. QED
    BY <2>2, <2>3, <2>4, <2>5
<1>4. TypeOK'
  BY <1>1, <1>3 DEF TypeOK, outside, occupancy
<1>5. RecordsLegal'
  BY <1>1, <1>3 DEF RecordsLegal
<1>6. WorkRecorded'
  <2>1. NewMachine.node.state = Where["begin"] /\ "raised" \notin DOMAIN Where
    BY DEF NewMachine, Created, Where
  <2>2. QED
    BY <1>1, <1>3, <2>1 DEF WorkRecorded
<1>7. NewIsNew'
  BY <1>1, <1>3 DEF NewIsNew
<1>8. TokensGranted'
  <2>1. NewMachine.node.token = NoToken
    BY DEF NewMachine, Created
  <2>2. given' = given /\ token' = token
    BY <1>1 DEF outside, occupancy
  <2>3. QED
    BY <1>1, <1>3, <2>1, <2>2 DEF TokensGranted, Granted
<1>9. CurrentGiven' /\ MachinesMove
  BY <1>1 DEF CurrentGiven, MachinesMove, outside, occupancy
<1>10. QED
  BY <1>4, <1>5, <1>6, <1>7, <1>8, <1>9

\* Payloads that the worker sends.
LEMMA PlainPayload ==
    ASSUME NEW name \in Plain
    PROVE  Event(name) \in Payload /\ Event(name).event = name
  BY DEF Event, Payload

LEMMA WhereDomain ==
    /\ {"begin", "plan", "claim", "acquired", "restore", "restored"} = DOMAIN Where
    /\ Where["begin"] = "created" /\ Where["plan"] = "preflighting"
    /\ Where["claim"] = "acquiring" /\ Where["acquired"] = "acquiring"
    /\ Where["restore"] = "restoring" /\ Where["restored"] = "restoring"
  BY DEF Where

LEMMA BeginKeeps ==
    ASSUME AttemptInv, NEW a \in Attempt, Begin(a)
    PROVE  AttemptInv' /\ MachinesMove
<1>1. Event("processing_started") \in Payload /\ Event("processing_started").event = "processing_started"
  BY PlainPayload DEF Plain
<1>2. \A edge \in Graph : edge.event = "processing_started" => edge.to = "preflighting"
  BY DEF Graph, Edge
<1>3. "plan" \in Place /\ "raised" \in Place
  BY DEF Place
<1>4. late' \in SUBSET Attempt /\ UNCHANGED <<occupancy, token, saved, agents>>
  BY DEF Begin, outside, AttemptInv, TypeOK
<1>5. Record(a, Event("processing_started"), "plan", "raised", "raised")
  BY DEF Begin
<1>6. QED
  BY <1>1, <1>2, <1>3, <1>4, <1>5, WhereDomain, ReportKeeps

LEMMA PreflightKeeps ==
    ASSUME AttemptInv, NEW a \in Attempt, Preflight(a)
    PROVE  AttemptInv' /\ MachinesMove
<1>1. Event("preflight_rejected") \in Payload /\ Event("preflight_rejected").event = "preflight_rejected"
  BY PlainPayload DEF Plain
<1>2. [event |-> "preflight_passed", stable |-> TRUE] \in Payload
  BY DEF Payload
<1>3. \A edge \in Graph : edge.event = "preflight_passed" => edge.to = "acquiring"
  BY DEF Graph, Edge
<1>4. "claim" \in Place /\ "raised" \in Place
  BY DEF Place
<1>5. late' \in SUBSET Attempt /\ UNCHANGED <<occupancy, token, saved, agents>>
  BY DEF Preflight, outside, AttemptInv, TypeOK
<1>6. CASE Record(a, [event |-> "preflight_passed", stable |-> TRUE], "claim", "raised", "raised")
  BY <1>2, <1>3, <1>4, <1>5, <1>6, WhereDomain, ReportKeeps
<1>7. CASE Record(a, Event("preflight_rejected"), "raised", "raised", "raised")
  BY <1>1, <1>4, <1>5, <1>7, WhereDomain, ReportKeeps
<1>8. QED
  BY <1>6, <1>7 DEF Preflight

LEMMA AcquireFailsKeeps ==
    ASSUME AttemptInv, NEW a \in Attempt, AcquireFails(a)
    PROVE  AttemptInv' /\ MachinesMove
<1>1. Event("ownership_failed") \in Payload /\ Event("ownership_failed").event = "ownership_failed"
  BY PlainPayload DEF Plain
<1>2. "raised" \in Place
  BY DEF Place
<1>3. late' \in SUBSET Attempt /\ UNCHANGED <<occupancy, token, saved, agents>>
  BY DEF AcquireFails, AttemptInv, TypeOK
<1>4. Record(a, Event("ownership_failed"), "raised", "raised", "raised")
  BY DEF AcquireFails
<1>5. QED
  BY <1>1, <1>2, <1>3, <1>4, WhereDomain, ReportKeeps

LEMMA AcquiredKeeps ==
    ASSUME AttemptInv, NEW a \in Attempt, Acquired(a)
    PROVE  AttemptInv' /\ MachinesMove
<1> DEFINE payload == [event |-> "ownership_acquired",
                       token |-> [holder |-> Claimant[a], gen |-> token[a]]]
<1>1. payload \in Payload
  <2>1. [holder |-> Claimant[a], gen |-> token[a]] \in Token
    BY ResumeAttemptAssumption DEF ResumeAttemptAssumption, Token, AttemptInv, TypeOK
  <2>2. QED
    BY <2>1 DEF Payload
<1>2. \A edge \in Graph : edge.event = "ownership_acquired" => edge.to = "restoring"
  BY DEF Graph, Edge
<1>3. "restore" \in Place /\ "raised" \in Place
  BY DEF Place
<1>4. late' \in SUBSET Attempt /\ UNCHANGED <<occupancy, token, saved, agents>>
  BY DEF Acquired, outside, AttemptInv, TypeOK
<1>5. Record(a, payload, "restore", "raised", "raised") /\ Granted(a, payload.token.gen)
  BY DEF Acquired, AttemptInv, TokensGranted
<1>6. payload.event = "ownership_acquired"
  OBVIOUS
<1> HIDE DEF payload
<1>7. QED
  BY <1>1, <1>2, <1>3, <1>4, <1>5, <1>6, WhereDomain, ReportKeeps

LEMMA RestoredKeeps ==
    ASSUME AttemptInv, NEW a \in Attempt, Restored(a)
    PROVE  AttemptInv' /\ MachinesMove
<1>1. Event("restore_completed") \in Payload /\ Event("restore_completed").event = "restore_completed"
  BY PlainPayload DEF Plain
<1>2. "verify" \in Place /\ "restore_failed" \in Place
  BY DEF Place
<1>3. late' \in SUBSET Attempt /\ UNCHANGED <<occupancy, token, saved, agents>>
  BY DEF Restored, outside, AttemptInv, TypeOK
<1>4. Record(a, Event("restore_completed"), "verify", "restore_failed", "restore_failed")
  BY DEF Restored
<1>5. QED
  BY <1>1, <1>2, <1>3, <1>4, WhereDomain, ReportKeeps

LEMMA VerifyFailsKeeps ==
    ASSUME AttemptInv, NEW a \in Attempt, VerifyFails(a)
    PROVE  AttemptInv' /\ MachinesMove
<1>1. Event("verification_failed") \in Payload /\ Event("verification_failed").event = "verification_failed"
  BY PlainPayload DEF Plain
<1>2. "rollback" \in Place /\ "verification_failed" \in Place
  BY DEF Place
<1>3. late' \in SUBSET Attempt /\ UNCHANGED <<occupancy, token, saved, agents>>
  BY DEF VerifyFails, outside, AttemptInv, TypeOK
<1>4. Record(a, Event("verification_failed"), "rollback", "rollback", "verification_failed")
  BY DEF VerifyFails
<1>5. QED
  BY <1>1, <1>2, <1>3, <1>4, WhereDomain, ReportKeeps

LEMMA PassedKeeps ==
    ASSUME AttemptInv, NEW a \in Attempt, Passed(a)
    PROVE  AttemptInv' /\ MachinesMove
<1> DEFINE payload == [event |-> "verification_passed",
                       evidence |-> [gen |-> token[a], holder |-> Claimant[a],
                                     trigger |-> 0, bullet |-> 0]]
<1>1. payload \in Payload
  <2>1. [gen |-> token[a], holder |-> Claimant[a], trigger |-> 0, bullet |-> 0] \in Evidence
    BY ResumeAttemptAssumption DEF ResumeAttemptAssumption, Evidence, AttemptInv, TypeOK
  <2>2. QED
    BY <2>1 DEF Payload
<1>2. "returned" \in Place /\ "verification_failed" \in Place
  BY DEF Place
<1>3. late' \in SUBSET Attempt /\ UNCHANGED <<occupancy, token, saved, agents>>
  BY DEF Passed, outside, AttemptInv, TypeOK
<1>4. Record(a, payload, "returned", "verification_failed", "verification_failed")
  BY DEF Passed
<1>5. payload.event # "ownership_acquired"
  OBVIOUS
<1> HIDE DEF payload
<1>6. QED
  BY <1>1, <1>2, <1>3, <1>4, <1>5, WhereDomain, ReportKeeps

LEMMA ReportFailureKeeps ==
    ASSUME AttemptInv, NEW a \in Attempt, ReportFailure(a)
    PROVE  AttemptInv' /\ MachinesMove
<1>1. pc[a] \in {"restore_failed", "verification_failed"}
  BY DEF ReportFailure
<1>2. Event(pc[a]) \in Payload /\ Event(pc[a]).event = pc[a]
  BY <1>1, PlainPayload DEF Plain
<1>3. "rollback" \in Place /\ "raised" \in Place
  BY DEF Place
<1>4. late' \in SUBSET Attempt /\ UNCHANGED <<occupancy, token, saved, agents>>
  BY DEF ReportFailure, outside, AttemptInv, TypeOK
<1>5. Record(a, Event(pc[a]), "rollback", "rollback", "raised")
  BY DEF ReportFailure
<1>6. QED
  BY <1>1, <1>2, <1>3, <1>4, <1>5, WhereDomain, ReportKeeps

LEMMA RollbackKeeps ==
    ASSUME AttemptInv, NEW a \in Attempt, Rollback(a)
    PROVE  AttemptInv' /\ MachinesMove
<1>1. [event |-> "rollback_completed", kept |-> TRUE] \in Payload
  BY DEF Payload
<1>2. "raised" \in Place
  BY DEF Place
<1>3. late' \in SUBSET Attempt /\ UNCHANGED <<occupancy, token, saved, agents>>
  BY DEF Rollback, outside, AttemptInv, TypeOK
<1>4. Record(a, [event |-> "rollback_completed", kept |-> TRUE], "raised", "raised", "raised")
  BY DEF Rollback
<1>5. QED
  BY <1>1, <1>2, <1>3, <1>4, WhereDomain, ReportKeeps

-----------------------------------------------------------------------------
(* The steps that report nothing.                                            *)

LEMMA AcquireKeeps ==
    ASSUME AttemptInv, NEW a \in Attempt, Acquire(a)
    PROVE  AttemptInv' /\ MachinesMove
<1> USE DEF AttemptInv
<1>1. ClaimBy(Claimant[a]) /\ Claimant[a] \in Client
  BY ResumeAttemptAssumption DEF Acquire, ResumeAttemptAssumption
<1>2. /\ owner' \in Client \cup {NoOne} /\ generation' \in 0 .. MaxGen
      /\ epoch' \in 0 .. MaxEpoch
      /\ given' \in SUBSET ((0 .. MaxEpoch) \X (1 .. MaxGen) \X Client)
      /\ given \subseteq given'
      /\ CurrentGiven'
      /\ <<epoch, generation', Claimant[a]>> \in given'
  BY <1>1, ClaimEffect
<1>3. /\ pc[a] = "claim" /\ pc' = [pc EXCEPT ![a] = "acquired"]
      /\ token' = [token EXCEPT ![a] = generation']
      /\ UNCHANGED <<late, record, saved, agents>>
  BY DEF Acquire, Goto
<1>4. TypeOK'
  BY <1>2, <1>3 DEF TypeOK, Place, record
<1>5. Granted(a, token[a])'
  BY <1>2, <1>3 DEF Granted, TypeOK
<1>6. \A x \in Attempt \ {a} : pc'[x] = pc[x] /\ token'[x] = token[x]
  BY <1>3 DEF TypeOK
<1>7. pc'[a] = "acquired"
  BY <1>3 DEF TypeOK
<1>8. QED
  BY <1>2, <1>3, <1>4, <1>5, <1>6, <1>7, WhereDomain, OutsideKeeps

LEMMA LateClaimKeeps ==
    ASSUME AttemptInv, NEW a \in Attempt, LateClaim(a)
    PROVE  AttemptInv' /\ MachinesMove
<1> USE DEF AttemptInv
<1>1. ClaimBy(Claimant[a]) /\ Claimant[a] \in Client
  BY ResumeAttemptAssumption DEF LateClaim, ResumeAttemptAssumption
<1>2. /\ owner' \in Client \cup {NoOne} /\ generation' \in 0 .. MaxGen
      /\ epoch' \in 0 .. MaxEpoch
      /\ given' \in SUBSET ((0 .. MaxEpoch) \X (1 .. MaxGen) \X Client)
      /\ given \subseteq given'
      /\ CurrentGiven'
  BY <1>1, ClaimEffect
<1>3. late' \in SUBSET Attempt
  BY DEF LateClaim, TypeOK
<1>4. UNCHANGED <<pc, record, token, saved, agents>>
  BY DEF LateClaim
<1>5. TypeOK'
  BY <1>2, <1>3, <1>4 DEF TypeOK, record
<1>6. QED
  BY <1>2, <1>4, <1>5, OutsideKeeps

LEMMA OthersClaimKeeps ==
    ASSUME AttemptInv, NEW c \in Client, OthersClaim(c)
    PROVE  AttemptInv' /\ MachinesMove
<1> USE DEF AttemptInv
<1>1. ClaimBy(c)
  BY DEF OthersClaim, ClaimBy
<1>2. /\ owner' \in Client \cup {NoOne} /\ generation' \in 0 .. MaxGen
      /\ epoch' \in 0 .. MaxEpoch
      /\ given' \in SUBSET ((0 .. MaxEpoch) \X (1 .. MaxGen) \X Client)
      /\ given \subseteq given'
      /\ CurrentGiven'
  BY <1>1, ClaimEffect
<1>3. UNCHANGED <<late, pc, record, token, saved, agents>>
  BY DEF OthersClaim
<1>4. TypeOK'
  BY <1>2, <1>3 DEF TypeOK, record
<1>5. QED
  BY <1>2, <1>3, <1>4, OutsideKeeps

LEMMA OwnerLeavesKeeps ==
    ASSUME AttemptInv, OwnerLeaves
    PROVE  AttemptInv' /\ MachinesMove
<1> USE DEF AttemptInv
<1>1. MaxGen \in Nat /\ MaxEpoch \in Nat
  BY ResumeAttemptAssumption DEF ResumeAttemptAssumption
<1>2. /\ owner' \in Client \cup {NoOne} /\ generation' \in 0 .. MaxGen
      /\ epoch' \in 0 .. MaxEpoch
      /\ given' = given
      /\ generation' = 0
  BY <1>1 DEF OwnerLeaves, Hub!Lapse, TypeOK
<1>3. UNCHANGED <<late, pc, record, token, saved, agents>>
  BY DEF OwnerLeaves
<1>4. CurrentGiven'
  BY <1>2 DEF CurrentGiven
<1>5. TypeOK'
  BY <1>2, <1>3 DEF TypeOK, record
<1>6. QED
  BY <1>2, <1>3, <1>4, <1>5, OutsideKeeps

LEMMA RestoreKeeps ==
    ASSUME AttemptInv, NEW a \in Attempt, Restore(a)
    PROVE  AttemptInv' /\ MachinesMove
<1> USE DEF AttemptInv
<1>1. /\ pc[a] = "restore" /\ (Goto(a, "restored") \/ Goto(a, "restore_failed"))
      /\ agents' \in [Client -> BOOLEAN]
      /\ UNCHANGED <<occupancy, late, record, token, saved>>
  BY DEF Restore, TypeOK
<1>2. /\ pc' \in [Attempt -> Place]
      /\ pc'[a] \in {"restored", "restore_failed"}
      /\ \A x \in Attempt \ {a} : pc'[x] = pc[x]
  BY <1>1 DEF TypeOK, Place, Goto
<1>3. TypeOK'
  BY <1>1, <1>2 DEF TypeOK, record, occupancy
<1>4. given \subseteq given' /\ CurrentGiven'
  BY <1>1 DEF CurrentGiven, occupancy
<1>5. QED
  BY <1>1, <1>2, <1>3, <1>4, WhereDomain, OutsideKeeps

LEMMA VerifyKeeps ==
    ASSUME AttemptInv, NEW a \in Attempt, Verify(a)
    PROVE  AttemptInv' /\ MachinesMove
<1> USE DEF AttemptInv
<1>1. Goto(a, "save") /\ UNCHANGED <<outside, record>>
  BY DEF Verify
<1>2. /\ pc' \in [Attempt -> Place]
      /\ pc'[a] = "save"
      /\ \A x \in Attempt \ {a} : pc'[x] = pc[x]
  BY <1>1 DEF TypeOK, Place, Goto
<1>3. TypeOK'
  BY <1>1, <1>2 DEF TypeOK, outside, record, occupancy
<1>4. given \subseteq given' /\ CurrentGiven' /\ token' = token
  BY <1>1 DEF CurrentGiven, outside, occupancy
<1>5. QED
  BY <1>1, <1>2, <1>3, <1>4, WhereDomain, OutsideKeeps

LEMMA SaveKeeps ==
    ASSUME AttemptInv, NEW a \in Attempt, Save(a)
    PROVE  AttemptInv' /\ MachinesMove
<1> USE DEF AttemptInv
<1>1. /\ Goto(a, "passed") \/ Goto(a, "verification_failed")
      /\ saved' \in [Client -> 0 .. MaxGen]
      /\ UNCHANGED <<occupancy, late, record, token, agents>>
  BY DEF Save, TypeOK
<1>2. /\ pc' \in [Attempt -> Place]
      /\ pc'[a] \in {"passed", "verification_failed"}
      /\ \A x \in Attempt \ {a} : pc'[x] = pc[x]
  BY <1>1 DEF TypeOK, Place, Goto
<1>3. TypeOK'
  BY <1>1, <1>2 DEF TypeOK, record, occupancy
<1>4. given \subseteq given' /\ CurrentGiven'
  BY <1>1 DEF CurrentGiven, occupancy
<1>5. QED
  BY <1>1, <1>2, <1>3, <1>4, WhereDomain, OutsideKeeps

LEMMA CrashKeeps ==
    ASSUME AttemptInv, NEW a \in Attempt, Crash(a)
    PROVE  AttemptInv' /\ MachinesMove
<1> USE DEF AttemptInv
<1>1. Goto(a, "dead") /\ UNCHANGED <<outside, record>>
  BY DEF Crash
<1>2. /\ pc' \in [Attempt -> Place]
      /\ pc'[a] = "dead"
      /\ \A x \in Attempt \ {a} : pc'[x] = pc[x]
  BY <1>1 DEF TypeOK, Place, Goto
<1>3. TypeOK'
  BY <1>1, <1>2 DEF TypeOK, outside, record, occupancy
<1>4. given \subseteq given' /\ CurrentGiven' /\ token' = token
  BY <1>1 DEF CurrentGiven, outside, occupancy
<1>5. QED
  BY <1>1, <1>2, <1>3, <1>4, WhereDomain, OutsideKeeps

LEMMA AgentExitsKeeps ==
    ASSUME AttemptInv, NEW c \in Client, AgentExits(c)
    PROVE  AttemptInv' /\ MachinesMove
<1> USE DEF AttemptInv
<1>1. /\ agents' \in [Client -> BOOLEAN]
      /\ UNCHANGED <<occupancy, late, pc, record, token, saved>>
  BY DEF AgentExits, TypeOK
<1>2. TypeOK' /\ given \subseteq given' /\ CurrentGiven'
  BY <1>1 DEF TypeOK, record, occupancy, CurrentGiven
<1>3. QED
  BY <1>1, <1>2, OutsideKeeps

-----------------------------------------------------------------------------
(* The step and the theorems.                                                *)

LEMMA StepKeeps ==
    ASSUME AttemptInv, [Next]_vars
    PROVE  AttemptInv' /\ MachinesMove
<1>1. ASSUME NEW a \in Attempt, Work(a)
      PROVE  AttemptInv' /\ MachinesMove
  <2>1. CASE Start(a)
    BY <2>1, StartKeeps
  <2>2. CASE Begin(a)
    BY <2>2, BeginKeeps
  <2>3. CASE Preflight(a)
    BY <2>3, PreflightKeeps
  <2>4. CASE Acquire(a)
    BY <2>4, AcquireKeeps
  <2>5. CASE AcquireFails(a)
    BY <2>5, AcquireFailsKeeps
  <2>6. CASE Acquired(a)
    BY <2>6, AcquiredKeeps
  <2>7. CASE Restore(a)
    BY <2>7, RestoreKeeps
  <2>8. CASE Restored(a)
    BY <2>8, RestoredKeeps
  <2>9. CASE Verify(a)
    BY <2>9, VerifyKeeps
  <2>10. CASE VerifyFails(a)
    BY <2>10, VerifyFailsKeeps
  <2>11. CASE Save(a)
    BY <2>11, SaveKeeps
  <2>12. CASE Passed(a)
    BY <2>12, PassedKeeps
  <2>13. CASE ReportFailure(a)
    BY <2>13, ReportFailureKeeps
  <2>14. CASE Rollback(a)
    BY <2>14, RollbackKeeps
  <2>15. QED
    BY <1>1, <2>1, <2>2, <2>3, <2>4, <2>5, <2>6, <2>7, <2>8, <2>9, <2>10, <2>11,
       <2>12, <2>13, <2>14 DEF Work
<1>2. CASE UNCHANGED vars
  <2>1. TypeOK' /\ given \subseteq given' /\ CurrentGiven' /\ UNCHANGED <<record, pc, token>>
    BY <1>2 DEF AttemptInv, TypeOK, CurrentGiven, vars, record, occupancy
  <2>2. QED
    BY <2>1, OutsideKeeps
<1>3. QED
  BY <1>1, <1>2, LateClaimKeeps, CrashKeeps, OthersClaimKeeps, AgentExitsKeeps,
     OwnerLeavesKeeps DEF Next

\* Whatever fails and whoever else runs, the invariant holds: records are legal,
\* the next step of a worker waits for its record, tokens were granted.
THEOREM AttemptInvariant == Spec => []AttemptInv
<1>1. AttemptInv /\ [Next]_vars => AttemptInv'
  BY StepKeeps
<1>2. QED
  BY InitInv, <1>1, PTL DEF Spec

\* Type correctness of the worker.
THEOREM AttemptTypes == Spec => []TypeOK
<1>1. AttemptInv => TypeOK
  BY DEF AttemptInv
<1>2. QED
  BY AttemptInvariant, <1>1, PTL

\* ResumeMachine.restore takes every snapshot, in spite of failed and
\* interrupted writes, crashes and prunes.
THEOREM AttemptRestorable == Spec => []SnapshotsRestorable
<1>1. AttemptInv => SnapshotsRestorable
  BY DEF AttemptInv, RecordsLegal, SnapshotsRestorable
<1>2. QED
  BY AttemptInvariant, <1>1, PTL

\* A worker claims and starts panes only after the snapshot that announces it
\* is on the disk (resume_attempt.py:4).
THEOREM AttemptGated == Spec => []GatedByRecord
<1>1. AttemptInv => GatedByRecord
  <2>1. ASSUME AttemptInv, NEW a \in Attempt, pc[a] \in DOMAIN Gate, disk[a] # NoSnapshot
        PROVE  disk[a].node.state = Gate[pc[a]]
    <3>1. pc[a] \in DOMAIN Where /\ Where[pc[a]] = Gate[pc[a]]
      BY <2>1, WhereDomain DEF Gate
    <3>2. machine[a].node.state = Where[pc[a]] /\ disk[a] = machine[a]
      BY <2>1, <3>1 DEF AttemptInv, WorkRecorded
    <3>3. QED
      BY <3>1, <3>2
  <2>2. QED
    BY <2>1 DEF GatedByRecord
<1>2. QED
  BY AttemptInvariant, <1>1, PTL

\* A token in a snapshot was granted to the attempt's Client by the Hub, however
\* often the tunnel changed hands or the counter restarted.
THEOREM AttemptTokens == Spec => []RecordedTokenGranted
<1>1. AttemptInv => RecordedTokenGranted
  BY DEF AttemptInv, TokensGranted, Granted, RecordedTokenGranted
<1>2. QED
  BY AttemptInvariant, <1>1, PTL

\* The machine of every attempt moves by accepted events only.
THEOREM AttemptMoves == Spec => [][MachinesMove]_vars
<1>1. AttemptInv /\ [Next]_vars => [MachinesMove]_vars
  BY StepKeeps
<1>2. QED
  BY AttemptInvariant, <1>1, PTL DEF Spec

\* The vocabulary of ResumeGraph is the same in the machine of an attempt.
LEMMA SameGraph ==
    ASSUME NEW a \in Attempt
    PROVE  /\ Attempted(a)!NewMachine = NewMachine
           /\ Attempted(a)!Payload = Payload /\ Attempted(a)!Graph = Graph
           /\ \A m, who, payload, edge :
                 /\ Attempted(a)!Accepted(m, who, payload, edge)
                      <=> Accepted(m, who, payload, edge)
                 /\ Attempted(a)!Advanced(m, payload, edge) = Advanced(m, payload, edge)
<1>1. /\ Attempted(a)!NoToken = NoToken /\ Attempted(a)!NoEvidence = NoEvidence
      /\ Attempted(a)!Token = Token /\ Attempted(a)!Evidence = Evidence
      /\ Attempted(a)!Plain = Plain /\ Attempted(a)!Holding = Holding
      /\ Attempted(a)!SetsError = SetsError /\ Attempted(a)!ClearsError = ClearsError
  BY DEF NoToken, Attempted!NoToken, NoEvidence, Attempted!NoEvidence, Token,
     Attempted!Token, Evidence, Attempted!Evidence, Plain, Attempted!Plain, Holding,
     Attempted!Holding, SetsError, Attempted!SetsError, ClearsError, Attempted!ClearsError
<1>2. Attempted(a)!NewMachine = NewMachine
  BY <1>1 DEF NewMachine, Attempted!NewMachine, Created, Attempted!Created
<1>3. Attempted(a)!Payload = Payload
  BY <1>1 DEF Payload, Attempted!Payload
<1>4. Attempted(a)!Graph = Graph
  BY DEF Graph, Attempted!Graph, Edge, Attempted!Edge
<1>5. ASSUME NEW m, NEW to, NEW payload
      PROVE  Attempted(a)!Enter(m, to, payload) = Enter(m, to, payload)
  BY <1>1 DEF Enter, Attempted!Enter
<1>6. ASSUME NEW node, NEW who, NEW payload
      PROVE  /\ Attempted(a)!Guard(node, who, payload) <=> Guard(node, who, payload)
             /\ Attempted(a)!Legal(node, who) <=> Legal(node, who)
  BY <1>1 DEF Guard, Attempted!Guard, Legal, Attempted!Legal, GoodEvidence,
     Attempted!GoodEvidence
<1>7. QED
  BY <1>2, <1>3, <1>4, <1>5, <1>6 DEF Accepted, Attempted!Accepted, Advanced,
     Attempted!Advanced

\* The worker of every attempt implements the machine of ResumeMachine: it starts
\* new and moves by the edges of its graph, whatever fails around it.
THEOREM AttemptImplements == Spec => MachinesStep
<1> DEFINE Moves == \A a \in Attempt : Attempted(a)!Next \/ UNCHANGED machine[a]
<1>1. Init => \A a \in Attempt : Attempted(a)!Init
  BY SameGraph DEF Init, Attempted!Init
<1>2. MachinesMove => Moves
  <2> SUFFICES ASSUME MachinesMove, NEW a \in Attempt, machine'[a] # machine[a]
               PROVE  Attempted(a)!Next
    OBVIOUS
  <2>1. PICK payload \in Payload, edge \in Graph :
            /\ Accepted(machine[a], Claimant[a], payload, edge)
            /\ machine'[a] = Advanced(machine[a], payload, edge)
    BY DEF MachinesMove
  <2>2. QED
    BY <2>1, SameGraph DEF Attempted!Next, Attempted!Send
<1> HIDE DEF Moves
<1>3. [MachinesMove]_vars => [Moves]_vars
  BY <1>2
<1>4. Spec => Init
  BY DEF Spec
<1> USE DEF Moves
<1>5. QED
  BY <1>1, <1>3, <1>4, AttemptMoves, PTL DEF MachinesStep

-----------------------------------------------------------------------------
(* Memory, disk and report, where Ctrl-C is not pressed.                     *)

\* An event that is recorded is in memory and on the disk, or in neither; only
\* the last one completes the machine, and it ends the command.
LEMMA RecordMemory ==
    ASSUME TypeOK, MemoryInv, "interrupt" \notin Fault,
           NEW a \in Attempt, NEW payload \in Payload,
           NEW done \in Place, NEW failed \in Place, NEW interrupted \in Place,
           Record(a, payload, done, failed, interrupted),
           pc[a] # "returned", failed # "returned",
           done = "returned" <=> payload.event = "verification_passed"
    PROVE  MemoryInv'
<1>1. machine \in [Attempt -> Machine] /\ disk \in [Attempt -> Machine \cup {NoSnapshot}]
      /\ pc \in [Attempt -> Place]
  BY DEF TypeOK
<1>2. machine[a].node.state # "completed"
  BY DEF MemoryInv
<1>3. CASE UNCHANGED record /\ Goto(a, failed)
  BY <1>1, <1>2, <1>3 DEF MemoryInv, MemoryOnDisk, record, Goto
<1>4. CASE \E edge \in Graph :
              /\ Accepted(machine[a], Claimant[a], payload, edge)
              /\ machine' = [machine EXCEPT ![a] = Advanced(@, payload, edge)]
              /\ Write(a, machine'[a]) /\ Goto(a, done)
  <2>1. PICK edge \in Graph :
              /\ Accepted(machine[a], Claimant[a], payload, edge)
              /\ machine' = [machine EXCEPT ![a] = Advanced(@, payload, edge)]
              /\ Write(a, machine'[a]) /\ Goto(a, done)
    BY <1>4
  <2>2. /\ machine'[a] = Advanced(machine[a], payload, edge)
        /\ \A b \in Attempt \ {a} : machine'[b] = machine[b]
    BY <1>1, <2>1
  <2>3. disk'[a] = machine'[a] /\ \A b \in Attempt \ {a} : disk'[b] = disk[b]
    BY <1>1, <2>1 DEF Write
  <2>4. pc'[a] = done /\ \A b \in Attempt \ {a} : pc'[b] = pc[b]
    BY <1>1, <2>1 DEF Goto
  <2>5. machine'[a].node.state = edge.to
    BY <2>2 DEF Advanced, Enter
  <2>6. edge.to = "completed" <=> payload.event = "verification_passed"
    BY <2>1 DEF Accepted, Graph, Edge
  <2>7. QED
    BY <2>2, <2>3, <2>4, <2>5, <2>6 DEF MemoryInv, MemoryOnDisk
<1>5. QED
  BY <1>3, <1>4 DEF Record

\* A step that leaves the records alone, and ends no command with success.
LEMMA QuietMemory ==
    ASSUME MemoryInv, UNCHANGED record,
           \A a \in Attempt : pc'[a] = "returned" <=> pc[a] = "returned"
    PROVE  MemoryInv'
  BY DEF MemoryInv, MemoryOnDisk, record

\* The first snapshot is the new machine; a prune deletes snapshots.
LEMMA StartMemory ==
    ASSUME AttemptInv, MemoryInv, "interrupt" \notin Fault, NEW a \in Attempt, Start(a)
    PROVE  MemoryInv'
<1>1. machine[a] = NewMachine /\ UNCHANGED machine /\ pc[a] = "new"
  BY DEF Start, AttemptInv, NewIsNew
<1>2. \A b \in Attempt : disk'[b] \in {disk[b], NoSnapshot} \/ (b = a /\ disk'[b] = NewMachine)
  BY DEF Start
<1>3. pc'[a] \in {"begin", "raised"} /\ \A b \in Attempt \ {a} : pc'[b] = pc[b]
  BY DEF Start, Goto, AttemptInv, TypeOK
<1>4. QED
  BY <1>1, <1>2, <1>3 DEF MemoryInv, MemoryOnDisk

\* No step of a worker, of another command or of a fault disturbs it.
LEMMA MemoryStep ==
    ASSUME AttemptInv, MemoryInv, "interrupt" \notin Fault, [Next]_vars
    PROVE  MemoryInv'
<1>1. TypeOK /\ pc \in [Attempt -> Place]
  BY DEF AttemptInv, TypeOK
<1>2. \A name \in Plain : Event(name) \in Payload /\ Event(name).event = name
  BY PlainPayload
<1>3. {"plan", "claim", "restore", "verify", "returned", "raised", "restore_failed",
       "verification_failed", "rollback"} \subseteq Place
  BY DEF Place
<1>4. ASSUME NEW a \in Attempt, Work(a)
      PROVE  MemoryInv'
  <2>1. CASE Start(a)
    BY <2>1, StartMemory
  <2>2. CASE Begin(a)
    BY <1>1, <1>2, <1>3, <2>2, RecordMemory DEF Begin, Plain
  <2>3. CASE Preflight(a)
    <3>1. [event |-> "preflight_passed", stable |-> TRUE] \in Payload
      BY DEF Payload
    <3>2. QED
      BY <1>1, <1>2, <1>3, <2>3, <3>1, RecordMemory DEF Preflight, Plain
  <2>4. CASE Acquire(a) \/ Restore(a) \/ Verify(a) \/ Save(a)
    BY <1>1, <2>4, QuietMemory DEF Acquire, Restore, Verify, Save, Goto
  <2>5. CASE AcquireFails(a)
    BY <1>1, <1>2, <1>3, <2>5, RecordMemory DEF AcquireFails, Plain
  <2>6. CASE Acquired(a)
    <3>1. [event |-> "ownership_acquired",
           token |-> [holder |-> Claimant[a], gen |-> token[a]]] \in Payload
      <4>1. [holder |-> Claimant[a], gen |-> token[a]] \in Token
        BY <1>1, ResumeAttemptAssumption DEF Token, TypeOK
      <4>2. QED
        BY <4>1 DEF Payload
    <3>2. QED
      BY <1>1, <1>3, <2>6, <3>1, RecordMemory DEF Acquired
  <2>7. CASE Restored(a)
    BY <1>1, <1>2, <1>3, <2>7, RecordMemory DEF Restored, Plain
  <2>8. CASE VerifyFails(a)
    BY <1>1, <1>2, <1>3, <2>8, RecordMemory DEF VerifyFails, Plain
  <2>9. CASE Passed(a)
    <3>1. [event |-> "verification_passed",
           evidence |-> [gen |-> token[a], holder |-> Claimant[a],
                         trigger |-> 0, bullet |-> 0]] \in Payload
      <4>1. [gen |-> token[a], holder |-> Claimant[a], trigger |-> 0, bullet |-> 0] \in Evidence
        BY <1>1, ResumeAttemptAssumption DEF Evidence, TypeOK
      <4>2. QED
        BY <4>1 DEF Payload
    <3>2. QED
      BY <1>1, <1>3, <2>9, <3>1, RecordMemory DEF Passed
  <2>10. CASE ReportFailure(a)
    BY <1>1, <1>2, <1>3, <2>10, RecordMemory DEF ReportFailure, Plain
  <2>11. CASE Rollback(a)
    <3>1. [event |-> "rollback_completed", kept |-> TRUE] \in Payload
      BY DEF Payload
    <3>2. QED
      BY <1>1, <1>3, <2>11, <3>1, RecordMemory DEF Rollback
  <2>12. QED
    BY <1>4, <2>1, <2>2, <2>3, <2>4, <2>5, <2>6, <2>7, <2>8, <2>9, <2>10, <2>11 DEF Work
<1>5. ASSUME NEW a \in Attempt, Crash(a)
      PROVE  MemoryInv'
  BY <1>1, <1>5, QuietMemory DEF Crash, Goto, Ended
<1>6. CASE \/ \E a \in Attempt : LateClaim(a)
           \/ \E who \in Client : OthersClaim(who) \/ AgentExits(who)
           \/ OwnerLeaves \/ UNCHANGED vars
  BY <1>6, QuietMemory DEF LateClaim, OthersClaim, AgentExits, OwnerLeaves, vars
<1>7. QED
  BY <1>4, <1>5, <1>6 DEF Next

LEMMA MemoryInitial ==
    ASSUME Init
    PROVE  MemoryInv
  BY DEF Init, MemoryInv, MemoryOnDisk, NewMachine, Created

\* The inductive invariant of memory and record holds throughout.
LEMMA MemoryAlways ==
    ASSUME "interrupt" \notin Fault
    PROVE  CrashOrInterrupt => [](play = "crash" => AttemptInv /\ MemoryInv)
<1> DEFINE Inv == play = "crash" => AttemptInv /\ MemoryInv
           Begins == \/ play = "crash" /\ Init
                     \/ play = "interrupt" /\ Nervous!Init
           Goes == /\ play' = play
                   /\ \/ play = "crash" /\ Next
                      \/ play = "interrupt" /\ Nervous!Next
<1>1. Begins => Inv
  BY InitInv, MemoryInitial
<1>2. Inv /\ [Goes]_<<vars, play>> => Inv'
  BY StepKeeps, MemoryStep
<1>3. CrashOrInterrupt => Begins /\ [][Goes]_<<vars, play>>
  BY DEF CrashOrInterrupt
<1> HIDE DEF Inv, Begins, Goes
<1>4. CrashOrInterrupt => []Inv
  BY <1>1, <1>2, <1>3, PTL
<1>5. QED
  BY <1>4 DEF Inv

\* Where Ctrl-C is not pressed, a snapshot that was not pruned is the machine in
\* memory, whichever write, claim or process failed (ResumeMachine.send).
THEOREM MemoryAlwaysKept ==
    ASSUME "interrupt" \notin Fault
    PROVE  CrashOrInterrupt => []MemoryKept
<1> DEFINE Inv == play = "crash" => AttemptInv /\ MemoryInv
<1>1. Inv => MemoryKept
  BY DEF MemoryKept, MemoryInv
<1>2. CrashOrInterrupt => []Inv
  BY MemoryAlways
<1> HIDE DEF Inv
<1>3. QED
  BY <1>1, <1>2, PTL

\* There a command reports success if and only if its record is completed
\* (ControlService.resume).
THEOREM ReportsAlwaysTrue ==
    ASSUME "interrupt" \notin Fault
    PROVE  CrashOrInterrupt => []ReportTrue
<1> DEFINE Inv == play = "crash" => AttemptInv /\ MemoryInv
<1>1. Inv => ReportTrue
  BY DEF ReportTrue, ReportMatchesRecord, MemoryInv, MemoryOnDisk
<1>2. CrashOrInterrupt => []Inv
  BY MemoryAlways
<1> HIDE DEF Inv
<1>3. QED
  BY <1>1, <1>2, PTL
=============================================================================

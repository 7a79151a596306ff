---------------------------- MODULE PartsProofs -----------------------------
(* The six modules that MCParts plays, for every value of their constants.   *)
EXTENDS MCParts, ResumeGraphProofs, FiniteSetTheorems

\* The bounds are numbers.
LEMMA Numbers ==
    /\ MaxAgents \in Nat /\ MaxFaults \in Nat /\ MaxWorld \in Nat
    /\ MaxRows \in Nat /\ MaxRows > 0 /\ MaxClaims \in Nat /\ MaxClaims > 0
    /\ MaxCuts \in Nat /\ MaxChange \in Nat /\ MaxTime \in Nat /\ MaxCommand \in Nat
    /\ MaxTick \in Nat /\ MaxBlind \in Nat /\ MaxMessage \in Nat /\ MaxMessage > 0
  BY PartsAssumption

-----------------------------------------------------------------------------
(* RemoteBullet.                                                             *)

\* The vocabulary of the module's steps.
BulletSteps(p) ==
    \/ Bullet!Begin(p) \/ Bullet!RouteKept(p) \/ Bullet!RouteRepaired(p)
    \/ Bullet!RouteRefused(p) \/ Bullet!Jump(p) \/ Bullet!JumpFails(p)
    \/ Bullet!Fence(p) \/ Bullet!FenceFails(p) \/ Bullet!Sweep(p)
    \/ Bullet!SweepFails(p) \/ Bullet!Import(p) \/ Bullet!ImportFails(p)
    \/ Bullet!Writers(p) \/ Bullet!WritersSuffice(p) \/ Bullet!StartBound(p)
    \/ Bullet!StartModel(p) \/ Bullet!StartsNothing(p)

LEMMA BulletInitial ==
    ASSUME Bullet!Init
    PROVE  Bullet!BulletInv
<1>1. Bullet!TypeOK
  BY Numbers DEF Bullet!Init, Bullet!TypeOK, Bullet!Idle, Bullet!Place, Bullet!Agent,
       Bullet!Nowhere, Bullet!Nobody, Bullet!Kinds, Bullet!Steps
<1>2. Bullet!ShowsLast /\ \A p \in Command : Bullet!Prepared(p)
  BY DEF Bullet!Init, Bullet!Idle, Bullet!ShowsLast, Bullet!Prepared, Bullet!Nobody
<1>3. QED
  BY <1>1, <1>2 DEF Bullet!BulletInv

\* A step with a call that failed.
LEMMA BulletUnsure ==
    ASSUME Bullet!TypeOK, NEW p \in Command, NEW step \in Bullet!Steps
    PROVE  [v9 EXCEPT ![p].at = step, ![p].unsure = TRUE]
             \in [Command -> [at : Bullet!Steps, kind : Bullet!Kinds, unsure : BOOLEAN]]
<1> DEFINE Jobs == [Command -> [at : Bullet!Steps, kind : Bullet!Kinds, unsure : BOOLEAN]]
           there == [v9 EXCEPT ![p].at = step]
<1>1. there \in Jobs
  BY DEF Bullet!TypeOK
<1>2. [there EXCEPT ![p].unsure = TRUE] \in Jobs
  <2> HIDE DEF there
  <2> QED  BY <1>1
<1>3. QED
  BY <1>2

\* What a command does to its own place.
LEMMA BulletJobs ==
    ASSUME Bullet!TypeOK, NEW p \in Command, BulletSteps(p)
    PROVE  v9' \in [Command -> [at : Bullet!Steps, kind : Bullet!Kinds, unsure : BOOLEAN]]
<1> USE DEF Bullet!TypeOK, Bullet!Steps, Bullet!Kinds, Bullet!Goes, Bullet!Stops, Bullet!Idle
<1>1. CASE Bullet!Begin(p)
  <2>1. PICK k \in Bullet!Kinds :
           v9' = [v9 EXCEPT ![p] = [Bullet!Idle EXCEPT !.at = "route", !.kind = k]]
    BY <1>1 DEF Bullet!Begin
  <2>2. [Bullet!Idle EXCEPT !.at = "route", !.kind = k]
          \in [at : Bullet!Steps, kind : Bullet!Kinds, unsure : BOOLEAN]
    OBVIOUS
  <2>3. QED
    <3> DEFINE next == [Bullet!Idle EXCEPT !.at = "route", !.kind = k]
    <3> HIDE DEF next
    <3>1. v9' = [v9 EXCEPT ![p] = next]
      BY <2>1 DEF next
    <3>2. next \in [at : Bullet!Steps, kind : Bullet!Kinds, unsure : BOOLEAN]
      BY <2>2 DEF next
    <3>3. QED
      BY <3>1, <3>2
<1>2. CASE Bullet!RouteKept(p)
  BY <1>2 DEF Bullet!RouteKept
<1>3. CASE Bullet!RouteRepaired(p)
  BY <1>3 DEF Bullet!RouteRepaired
<1>4. CASE Bullet!RouteRefused(p)
  BY <1>4 DEF Bullet!RouteRefused
<1>5. CASE Bullet!Jump(p)
  BY <1>5 DEF Bullet!Jump
<1>6. CASE Bullet!JumpFails(p)
  BY <1>6 DEF Bullet!JumpFails
<1>7. CASE Bullet!Fence(p)
  BY <1>7 DEF Bullet!Fence
<1>8. CASE Bullet!FenceFails(p)
  <2>1. \/ v9' = [v9 EXCEPT ![p] = Bullet!Idle]
        \/ v9' = [v9 EXCEPT ![p].at = "start", ![p].unsure = TRUE]
    BY <1>8 DEF Bullet!FenceFails
  <2>2. CASE v9' = [v9 EXCEPT ![p] = Bullet!Idle]
    BY <2>2
  <2>3. CASE v9' = [v9 EXCEPT ![p].at = "start", ![p].unsure = TRUE]
    <3>1. "start" \in Bullet!Steps
      OBVIOUS
    <3> HIDE DEF Bullet!TypeOK, Bullet!Steps, Bullet!Kinds
    <3>2. QED
      BY <2>3, <3>1, BulletUnsure
  <2>4. QED
    BY <2>1, <2>2, <2>3
<1>9. CASE Bullet!Sweep(p)
  BY <1>9 DEF Bullet!Sweep
<1>10. CASE Bullet!SweepFails(p)
  <2>1. \/ v9' = [v9 EXCEPT ![p] = Bullet!Idle]
        \/ v9' = [v9 EXCEPT ![p].at = "import", ![p].unsure = TRUE]
        \/ v9' = [v9 EXCEPT ![p].at = "writers", ![p].unsure = TRUE]
    BY <1>10 DEF Bullet!SweepFails
  <2>2. CASE v9' = [v9 EXCEPT ![p] = Bullet!Idle]
    BY <2>2
  <2>3. ASSUME NEW step \in {"import", "writers"},
               v9' = [v9 EXCEPT ![p].at = step, ![p].unsure = TRUE]
        PROVE  v9' \in [Command -> [at : Bullet!Steps, kind : Bullet!Kinds, unsure : BOOLEAN]]
    <3>1. step \in Bullet!Steps
      OBVIOUS
    <3> HIDE DEF Bullet!TypeOK, Bullet!Steps, Bullet!Kinds
    <3>2. QED
      BY <2>3, <3>1, BulletUnsure
  <2>4. QED
    BY <2>1, <2>2, <2>3
<1>11. CASE Bullet!Import(p)
  BY <1>11 DEF Bullet!Import
<1>12. CASE Bullet!ImportFails(p)
  BY <1>12 DEF Bullet!ImportFails
<1>13. CASE Bullet!Writers(p)
  BY <1>13 DEF Bullet!Writers
<1>14. CASE Bullet!WritersSuffice(p)
  BY <1>14 DEF Bullet!WritersSuffice
<1>15. CASE Bullet!StartBound(p)
  BY <1>15 DEF Bullet!StartBound, Bullet!Starts
<1>16. CASE Bullet!StartModel(p)
  BY <1>16 DEF Bullet!StartModel, Bullet!Starts
<1>17. CASE Bullet!StartsNothing(p)
  BY <1>17 DEF Bullet!StartsNothing
<1>18. QED
  BY <1>1, <1>2, <1>3, <1>4, <1>5, <1>6, <1>7, <1>8, <1>9, <1>10, <1>11, <1>12, <1>13,
     <1>14, <1>15, <1>16, <1>17 DEF BulletSteps

\* Ending agents.
LEMMA BulletKills ==
    ASSUME Bullet!TypeOK, NEW these, Bullet!Kills(these)
    PROVE  /\ v4' \in SUBSET (1 .. v10') /\ v6' \in SUBSET Bullet!Agent
           /\ v5' \in [Bullet!Agent -> Bullet!Place]
           /\ v8' \in v4' \cup {Bullet!Nobody}
           /\ v7' = v7 => (v8' # Bullet!Nobody => v7' = v5'[v8'])
           /\ v10' \in 0 .. MaxAgents
  BY DEF Bullet!TypeOK, Bullet!Kills, Bullet!Nobody

\* Starting one.
LEMMA BulletStarts ==
    ASSUME Bullet!TypeOK, NEW p \in Command, Bullet!Starts(p)
    PROVE  /\ v4' \in SUBSET (1 .. v10') /\ v10' \in Bullet!Agent
           /\ v5' \in [Bullet!Agent -> Bullet!Place]
           /\ v8' \in v4' \cup {Bullet!Nobody}
           /\ v7' = v5'[v8']
           /\ v10' \in 0 .. MaxAgents
<1>1. v10 \in 0 .. MaxAgents /\ v10 < MaxAgents /\ v10' = v10 + 1
  BY DEF Bullet!TypeOK, Bullet!Starts
<1>2. v10' \in Bullet!Agent /\ v10' \in 0 .. MaxAgents /\ 1 .. v10 \subseteq 1 .. v10' /\ v10' \in 1 .. v10'
  BY <1>1, Numbers DEF Bullet!Agent
<1>3. v4' \in SUBSET (1 .. v10')
  BY <1>2 DEF Bullet!TypeOK, Bullet!Starts
<1>4. v7 \in Bullet!Place
  BY DEF Bullet!TypeOK, Bullet!Starts
<1>5. v5' \in [Bullet!Agent -> Bullet!Place] /\ v5'[v10'] = v7
  BY <1>2, <1>4 DEF Bullet!TypeOK, Bullet!Starts
<1>6. QED
  BY <1>2, <1>3, <1>5 DEF Bullet!Starts

\* What the world and the calls that fail count.
LEMMA BulletCounts ==
    ASSUME Bullet!TypeOK
    PROVE  /\ Bullet!Fault => v11' \in 0 .. MaxFaults
           /\ v12 < MaxWorld /\ v12' = v12 + 1 => v12' \in 0 .. MaxWorld
  BY Numbers DEF Bullet!TypeOK, Bullet!Fault

LEMMA BulletTypes ==
    ASSUME Bullet!TypeOK, [Bullet!Next]_(Bullet!vars)
    PROVE  Bullet!TypeOK'
<1> DEFINE Agents == /\ v4' \in SUBSET (1 .. v10') /\ v6' \in SUBSET Bullet!Agent
                     /\ v5' \in [Bullet!Agent -> Bullet!Place]
                     /\ v8' \in v4' \cup {Bullet!Nobody}
                     /\ v8' # Bullet!Nobody => v7' = v5'[v8']
                     /\ v10' \in 0 .. MaxAgents
           Rest == /\ v1' \in BOOLEAN /\ v2' \in Bullet!Place /\ v3' \in SUBSET Bullet!Place
                   /\ v7' \in Bullet!Place \cup {Bullet!Nowhere}
                   /\ v11' \in 0 .. MaxFaults /\ v12' \in 0 .. MaxWorld
           Jobs == v9' \in [Command -> [at : Bullet!Steps, kind : Bullet!Kinds, unsure : BOOLEAN]]
<1>1. SUFFICES Agents /\ Rest /\ Jobs
  BY DEF Bullet!TypeOK
<1>2. CASE UNCHANGED Bullet!vars
  BY <1>2 DEF Bullet!vars, Bullet!agents, Bullet!TypeOK
<1>3. ASSUME NEW p \in Command, BulletSteps(p) PROVE Agents /\ Rest /\ Jobs
  <2> USE <1>3
  <2>1. Jobs
    BY BulletJobs
  <2>2. CASE \/ Bullet!Begin(p) \/ Bullet!RouteKept(p) \/ Bullet!RouteRepaired(p)
             \/ Bullet!RouteRefused(p) \/ Bullet!JumpFails(p) \/ Bullet!FenceFails(p)
             \/ Bullet!SweepFails(p) \/ Bullet!Import(p) \/ Bullet!ImportFails(p)
             \/ Bullet!WritersSuffice(p) \/ Bullet!StartsNothing(p)
    <3>1. UNCHANGED <<v1, v4, v5, v6, v7, v8, v10, v12>> /\ (UNCHANGED v11 \/ Bullet!Fault)
      BY <2>2 DEF Bullet!Begin, Bullet!RouteKept, Bullet!RouteRepaired, Bullet!RouteRefused,
           Bullet!JumpFails, Bullet!FenceFails, Bullet!SweepFails, Bullet!Import,
           Bullet!ImportFails, Bullet!WritersSuffice, Bullet!StartsNothing, Bullet!agents
    <3>2. v2' \in Bullet!Place /\ v3' \in SUBSET Bullet!Place
      BY <2>2 DEF Bullet!Begin, Bullet!RouteKept, Bullet!RouteRepaired, Bullet!RouteRefused,
           Bullet!JumpFails, Bullet!FenceFails, Bullet!SweepFails, Bullet!Import,
           Bullet!ImportFails, Bullet!WritersSuffice, Bullet!StartsNothing, Bullet!TypeOK
    <3>3. v11' \in 0 .. MaxFaults
      BY <3>1, BulletCounts DEF Bullet!TypeOK
    <3>4. Agents
      BY <3>1 DEF Bullet!TypeOK
    <3>5. Rest
      BY <3>1, <3>2, <3>3 DEF Bullet!TypeOK
    <3>6. QED
      BY <2>1, <3>4, <3>5
  <2>3. CASE Bullet!Jump(p)
    <3>1. UNCHANGED <<v1, v2, v3, v4, v5, v6, v8, v10, v11, v12>>
      BY <2>3 DEF Bullet!Jump, Bullet!agents
    <3>2. v7' \in Bullet!Place \cup {Bullet!Nowhere} /\ (v7 \in Bullet!Place => v7' = v7 \/ v7 = Bullet!Nowhere)
      BY <2>3 DEF Bullet!Jump, Bullet!TypeOK
    <3>3. v8 # Bullet!Nobody => v7' = v7
      <4>1. v8 # Bullet!Nobody => v8 \in Bullet!Agent /\ v7 = v5[v8]
        BY Numbers DEF Bullet!TypeOK, Bullet!Agent
      <4>2. v8 # Bullet!Nobody => v7 \in Bullet!Place
        BY <4>1 DEF Bullet!TypeOK
      <4>3. Bullet!Nowhere \notin Bullet!Place
        BY PartsAssumption DEF Bullet!Place, Bullet!Nowhere
      <4>4. QED
        BY <2>3, <4>2, <4>3 DEF Bullet!Jump
    <3>4. Agents
      BY <3>1, <3>3 DEF Bullet!TypeOK
    <3>5. Rest
      BY <3>1, <3>2 DEF Bullet!TypeOK
    <3>6. QED
      BY <2>1, <3>4, <3>5
  <2>4. CASE Bullet!Fence(p) \/ Bullet!Sweep(p) \/ Bullet!Writers(p)
    <3>1. PICK these : Bullet!Kills(these)
      BY <2>4 DEF Bullet!Fence, Bullet!Sweep, Bullet!Writers
    <3>2. UNCHANGED <<v1, v2, v3, v7, v11, v12>>
      BY <2>4 DEF Bullet!Fence, Bullet!Sweep, Bullet!Writers
    <3>3. QED
      BY <2>1, <3>1, <3>2, BulletKills DEF Bullet!TypeOK
  <2>5. CASE Bullet!StartBound(p) \/ Bullet!StartModel(p)
    <3>1. Bullet!Starts(p)
      BY <2>5 DEF Bullet!StartBound, Bullet!StartModel
    <3>2. UNCHANGED <<v1, v2, v7, v11, v12>> /\ v7 \in Bullet!Place
      BY <3>1 DEF Bullet!Starts, Bullet!TypeOK
    <3>3. v6' \in SUBSET Bullet!Agent /\ v3' \in SUBSET Bullet!Place
      BY <2>5, <3>1, <3>2, BulletStarts DEF Bullet!StartBound, Bullet!StartModel, Bullet!TypeOK
    <3>4. QED
      BY <2>1, <3>1, <3>2, <3>3, BulletStarts DEF Bullet!TypeOK
  <2>6. QED
    BY <2>2, <2>3, <2>4, <2>5 DEF BulletSteps
<1>4. CASE Bullet!Clean
  <2>1. PICK these : Bullet!Kills(these)
    BY <1>4 DEF Bullet!Clean, Bullet!Cleans
  <2>2. UNCHANGED <<v1, v2, v3, v7, v9, v11>> /\ v12' \in 0 .. MaxWorld
    BY <1>4, BulletCounts DEF Bullet!Clean
  <2>3. QED
    BY <2>1, <2>2, BulletKills DEF Bullet!TypeOK
<1>5. CASE Bullet!Drop
  <2>1. UNCHANGED <<v1, v2, v3, v5, v6, v9, v10>> /\ v12' \in 0 .. MaxWorld
    BY <1>5, BulletCounts DEF Bullet!Drop
  <2>2. v11' \in 0 .. MaxFaults
    BY <1>5, BulletCounts DEF Bullet!Drop, Bullet!TypeOK
  <2>3. v4' \subseteq v4 /\ v7' = Bullet!Nowhere /\ v8' = Bullet!Nobody
    BY <1>5 DEF Bullet!Drop
  <2>4. QED
    BY <2>1, <2>2, <2>3 DEF Bullet!TypeOK
<1>6. CASE Bullet!Break
  <2>1. UNCHANGED <<v1, v2, v3, v5, v6, v9, v10, v11>> /\ v12' \in 0 .. MaxWorld
    BY <1>6, BulletCounts DEF Bullet!Break
  <2>2. v4' \subseteq v4 /\ v7' = Bullet!Nowhere /\ v8' = Bullet!Nobody
    BY <1>6 DEF Bullet!Break
  <2>3. QED
    BY <2>1, <2>2 DEF Bullet!TypeOK
<1>7. CASE Bullet!Move
  <2>1. UNCHANGED <<v1, v2, v4, v5, v6, v7, v8, v9, v10, v11>> /\ v12' \in 0 .. MaxWorld
    BY <1>7, BulletCounts DEF Bullet!Move, Bullet!agents
  <2>2. v3' \in SUBSET Bullet!Place
    BY <1>7 DEF Bullet!Move, Bullet!TypeOK
  <2>3. QED
    BY <2>1, <2>2 DEF Bullet!TypeOK
<1>8. QED
  BY <1>2, <1>3, <1>4, <1>5, <1>6, <1>7 DEF Bullet!Next, Bullet!Step, BulletSteps

\* A command does not step while another one is under way.
LEMMA BulletAlone ==
    ASSUME Bullet!TypeOK, Bullet!OneCommand, Bullet!OneCommand',
           NEW p \in Command, BulletSteps(p), NEW q \in Command, q # p
    PROVE  v9'[q].at = "idle"
<1>1. v9'[q] = v9[q]
  BY DEF BulletSteps, Bullet!TypeOK, Bullet!Goes, Bullet!Stops, Bullet!Begin, Bullet!RouteKept,
    Bullet!RouteRepaired, Bullet!RouteRefused, Bullet!Jump, Bullet!JumpFails, Bullet!Fence,
    Bullet!FenceFails, Bullet!Sweep, Bullet!SweepFails, Bullet!Import, Bullet!ImportFails,
    Bullet!Writers, Bullet!WritersSuffice, Bullet!StartBound, Bullet!StartModel,
    Bullet!Starts, Bullet!StartsNothing
<1>2. CASE Bullet!Begin(p)
  <2>1. v9'[p].at = "route"
    BY <1>2 DEF Bullet!Begin, Bullet!TypeOK, Bullet!Idle
  <2>2. QED
    BY <2>1 DEF Bullet!OneCommand
<1>3. CASE ~Bullet!Begin(p)
  <2>1. v9[p].at # "idle"
    BY <1>3 DEF BulletSteps, Bullet!RouteKept,
      Bullet!RouteRepaired, Bullet!RouteRefused, Bullet!Jump, Bullet!JumpFails, Bullet!Fence,
      Bullet!FenceFails, Bullet!Sweep, Bullet!SweepFails, Bullet!Import, Bullet!ImportFails,
      Bullet!Writers, Bullet!WritersSuffice, Bullet!StartBound, Bullet!StartModel,
      Bullet!Starts, Bullet!StartsNothing
  <2>2. QED
    BY <1>1, <2>1 DEF Bullet!OneCommand
<1>4. QED
  BY <1>2, <1>3

\* A call of a command fails, and the command goes on.
Falters(p, step) == v9' = [v9 EXCEPT ![p].at = step, ![p].unsure = TRUE]

\* How a command advances.
LEMMA BulletGoes ==
    ASSUME Bullet!TypeOK, NEW p \in Command
    PROVE  /\ \A step : Bullet!Goes(p, step) =>
                /\ v9'[p].at = step /\ v9'[p].kind = v9[p].kind
                /\ v9'[p].unsure = v9[p].unsure
           /\ Bullet!Stops(p) => v9'[p].at = "idle"
           /\ \A step : Falters(p, step) =>
                v9'[p].at = step /\ v9'[p].kind = v9[p].kind /\ v9'[p].unsure
  BY DEF Bullet!TypeOK, Bullet!Goes, Bullet!Stops, Bullet!Idle, Falters

\* What is killed is gone from the tunnel's run point, and from its writers.
LEMMA BulletFewer ==
    ASSUME Bullet!TypeOK, NEW these, Bullet!Kills(these), UNCHANGED v2
    PROVE  /\ Bullet!Here(v2)' = Bullet!Here(v2) \ these
           /\ Bullet!Fenced' = Bullet!Fenced \ these
  BY DEF Bullet!Kills, Bullet!Here, Bullet!Fenced

\* The other steps of a command.
LEMMA BulletPrepares ==
    ASSUME Bullet!BulletInv, NEW p \in Command, BulletSteps(p)
    PROVE  Bullet!Prepared(p)'
<1> USE DEF Bullet!BulletInv
<1>0. Bullet!TypeOK /\ Bullet!Prepared(p)
  OBVIOUS
<1>1. CASE v9'[p].at \in {"idle", "route", "jump", "sweep"}
  BY <1>1 DEF Bullet!Prepared
<1>2. CASE Bullet!Jump(p)
  <2>1. v8 # Bullet!Nobody => v8' # Bullet!Nobody
    BY <1>2 DEF Bullet!Jump, Bullet!agents
  <2>2. \/ v9'[p].at = "fence" /\ v9'[p].kind # "resume"
        \/ v9'[p].at = "writers" /\ v8 # Bullet!Nobody
        \/ v9'[p].at = "sweep"
    BY <1>2, BulletGoes DEF Bullet!Jump
  <2>3. QED
    BY <2>1, <2>2 DEF Bullet!Prepared
<1>3. CASE Bullet!Fence(p)
  <2>1. v9[p].kind # "resume" /\ v9[p].kind \in Bullet!Kinds
    BY <1>3 DEF Bullet!Fence, Bullet!Prepared, Bullet!TypeOK
  <2>2. v9'[p].at = "sweep" \/ (v9'[p].at = "start" /\ v9'[p].kind = "model")
    <3> DEFINE step == IF v9[p].kind = "rebuild" THEN "sweep" ELSE "start"
    <3>1. Bullet!Goes(p, step)
      BY <1>3 DEF Bullet!Fence
    <3>2. v9'[p].at = step /\ v9'[p].kind = v9[p].kind
      <4> HIDE DEF step
      <4> QED  BY <1>0, <3>1, BulletGoes
    <3>3. QED
      BY <2>1, <3>2 DEF Bullet!Kinds
  <2>3. QED
    BY <2>2 DEF Bullet!Prepared
<1>4. CASE Bullet!FenceFails(p)
  <2>1. v9[p].kind # "resume" /\ v9[p].kind \in Bullet!Kinds
    BY <1>4 DEF Bullet!FenceFails, Bullet!Prepared, Bullet!TypeOK
  <2>2. v9'[p].at = "idle" \/ (v9'[p].at = "start" /\ v9'[p].kind = "model")
    <3>1. \/ Bullet!Stops(p)
          \/ /\ v9[p].kind = "model"
             /\ Falters(p, "start")
      BY <1>4, <2>1 DEF Bullet!FenceFails, Bullet!Kinds, Falters
    <3>2. CASE Bullet!Stops(p)
      BY <1>0, <3>2, BulletGoes
    <3>3. CASE v9[p].kind = "model" /\ Falters(p, "start")
      BY <3>3, BulletGoes
    <3>4. QED
      BY <3>1, <3>2, <3>3
  <2>3. QED
    BY <2>2 DEF Bullet!Prepared
<1>5. CASE Bullet!Sweep(p)
  <2>1. (v9'[p].at = "import" /\ v8' = Bullet!Nobody) \/ v9'[p].at = "writers"
    <3>1. \/ v8' = Bullet!Nobody /\ Bullet!Goes(p, "import")
          \/ Bullet!Goes(p, "writers")
      BY <1>5 DEF Bullet!Sweep, Bullet!Goes
    <3>2. QED
      BY <3>1, BulletGoes
  <2>2. UNCHANGED v2 /\ Bullet!Kills(Bullet!Swept)
    BY <1>5 DEF Bullet!Sweep
  <2>3. v2 \in Container => Bullet!Here(v2)' = {}
    BY <2>2, BulletFewer DEF Bullet!Swept
  <2>4. v2' \in Container => Bullet!Here(v2)' = {}
    BY <2>2, <2>3
  <2>5. QED
    BY <2>1, <2>4 DEF Bullet!Prepared
<1>6. CASE Bullet!SweepFails(p)
  <2>1. \/ v9'[p].at = "idle"
        \/ v9'[p].at = "import" /\ v9'[p].unsure /\ v8 = Bullet!Nobody
        \/ v9'[p].at = "writers" /\ v9'[p].unsure
    <3>1. \/ Bullet!Stops(p)
          \/ Falters(p, "import") /\ v8 = Bullet!Nobody
          \/ Falters(p, "writers")
      BY <1>6 DEF Bullet!SweepFails, Falters
    <3>2. QED
      BY <3>1, BulletGoes
  <2>2. v8' = v8
    BY <1>6 DEF Bullet!SweepFails, Bullet!agents
  <2>3. QED
    BY <2>1, <2>2 DEF Bullet!Prepared
<1>7. CASE Bullet!Import(p)
  <2>1. v9'[p].at = "writers" /\ v9'[p].kind = v9[p].kind /\ v9'[p].unsure = v9[p].unsure
    BY <1>7, BulletGoes DEF Bullet!Import
  <2>2. UNCHANGED <<v2, v4, v5, v6, v7, v8>> /\ v9[p].at = "import"
    BY <1>7 DEF Bullet!Import, Bullet!agents
  <2>3. QED
    BY <2>1, <2>2 DEF Bullet!Prepared, Bullet!Here
<1>8. CASE Bullet!Writers(p)
  <2>1. v9'[p].at = "start" /\ v9'[p].kind = v9[p].kind /\ v9'[p].unsure = v9[p].unsure
    BY <1>8, BulletGoes DEF Bullet!Writers
  <2>2. UNCHANGED <<v2, v6, v7, v8>> /\ v9[p].at = "writers" /\ v8 = Bullet!Nobody
    BY <1>8 DEF Bullet!Writers, Bullet!Kills, Bullet!StartsAnew
  <2>3. Bullet!Fenced' = {} /\ Bullet!Here(v2)' \subseteq Bullet!Here(v2)
    BY <1>8, <2>2, BulletFewer DEF Bullet!Writers
  <2>4. ASSUME NEW n \in v6, Bullet!Here(v2) = {n} PROVE FALSE
    <3>1. Bullet!Fenced = {n}
      BY <2>4 DEF Bullet!Fenced
    <3>2. Bullet!Cardinality({n}) = 1
      BY FS_Singleton DEF Cardinality, Bullet!Cardinality
    <3>3. Bullet!Cardinality(Bullet!Fenced) # 1
      BY <1>8 DEF Bullet!Writers, Bullet!StartsAnew
    <3>4. QED
      BY <3>1, <3>2, <3>3
  <2>5. v9'[p].kind # "model" /\ ~v9'[p].unsure /\ v7' = v2' /\ v2' \in Container
          => Bullet!Here(v2)' = {}
    BY <2>1, <2>2, <2>3, <2>4 DEF Bullet!Prepared
  <2>6. QED
    BY <2>1, <2>2, <2>3, <2>5 DEF Bullet!Prepared
<1>9. CASE \/ Bullet!Begin(p) \/ Bullet!RouteKept(p) \/ Bullet!RouteRepaired(p)
           \/ Bullet!RouteRefused(p) \/ Bullet!JumpFails(p) \/ Bullet!ImportFails(p)
           \/ Bullet!WritersSuffice(p) \/ Bullet!StartBound(p) \/ Bullet!StartModel(p)
           \/ Bullet!StartsNothing(p)
  <2>1. CASE Bullet!Begin(p)
    <3>1. v9'[p].at = "route"
      BY <2>1 DEF Bullet!Begin, Bullet!TypeOK, Bullet!Idle
    <3>2. QED
      BY <1>1, <3>1
  <2>2. CASE ~Bullet!Begin(p)
    BY <1>1, <1>9, <2>2, BulletGoes DEF Bullet!RouteKept, Bullet!RouteRepaired,
      Bullet!RouteRefused, Bullet!JumpFails, Bullet!ImportFails, Bullet!WritersSuffice,
      Bullet!StartBound, Bullet!StartModel, Bullet!Starts, Bullet!StartsNothing
  <2>3. QED
    BY <2>1, <2>2
<1>10. QED
  BY <1>2, <1>3, <1>4, <1>5, <1>6, <1>7, <1>8, <1>9 DEF BulletSteps

\* What the pane shows was started last, unless it is the newest with the session:
\* of the agents at its place, ending it leaves one with the session at most.
LEMMA BulletCleans ==
    ASSUME Bullet!TypeOK, Bullet!ShowsLast, NEW youngest \in Bullet!Agent,
           Bullet!Cleans(youngest), v8 # Bullet!Nobody, v8' = Bullet!Nobody, v7 = v2
    PROVE  \/ (Bullet!Here(v2) \ {n \in Bullet!Here(v2) \ Bullet!Legal(Bullet!Here(v2)) : n <= youngest}) = {}
           \/ \E n \in v6 : Bullet!Here(v2) \ {m \in Bullet!Here(v2) \ Bullet!Legal(Bullet!Here(v2)) : m <= youngest} = {n}
<1> DEFINE here == Bullet!Here(v2)
           legal == Bullet!Legal(here)
           ended == {n \in here \ legal : n <= youngest}
<1>1. v8 \in here /\ v8 = v10
  BY DEF Bullet!TypeOK, Bullet!ShowsLast, Bullet!Here
<1>2. here \subseteq 1 .. v10 /\ v10 \in Nat
  <2>1. v4 \subseteq 1 .. v10 /\ v10 \in 0 .. MaxAgents
    BY DEF Bullet!TypeOK
  <2>2. v10 \in Nat
    BY <2>1, Numbers
  <2>3. here \subseteq v4
    BY DEF Bullet!Here
  <2>4. QED
    BY <2>1, <2>2, <2>3
<1>3. v8 \in ended
  BY DEF Bullet!Cleans, Bullet!Kills
<1>4. youngest >= v10 /\ youngest \in Nat
  BY <1>1, <1>2, <1>3, Numbers DEF Bullet!Agent
<1>5. \A n \in here : n <= youngest
  BY <1>2, <1>4
<1>6. here \ ended \subseteq legal
  BY <1>5
<1>7. here \cap v6 # {}
  <2>1. SUFFICES ASSUME here \cap v6 = {} PROVE FALSE
    OBVIOUS
  <2>2. legal = Bullet!Newest(here)
    BY <2>1 DEF Bullet!Legal
  <2>3. \A m \in here : m <= v8
    BY <1>1, <1>2
  <2>4. v8 \in legal
    BY <1>1, <2>2, <2>3 DEF Bullet!Newest
  <2>5. QED
    BY <1>3, <2>4
<1>8. legal = Bullet!Newest(here \cap v6)
  BY <1>7 DEF Bullet!Legal
<1>9. \A m, n \in legal : m = n
  BY <1>2, <1>8 DEF Bullet!Newest
<1>10. legal \subseteq v6
  BY <1>8 DEF Bullet!Newest
<1>11. QED
  BY <1>6, <1>9, <1>10

\* Nothing that happens outside a command disturbs what it has prepared.
LEMMA BulletWorld ==
    ASSUME Bullet!BulletInv, NEW p \in Command,
           Bullet!Clean \/ Bullet!Drop \/ Bullet!Break \/ Bullet!Move
    PROVE  Bullet!Prepared(p)'
<1>1. Bullet!TypeOK /\ Bullet!ShowsLast /\ Bullet!Prepared(p)
  BY DEF Bullet!BulletInv
<1>2. UNCHANGED <<v2, v5, v6, v9>> /\ v4' \subseteq v4 /\ v8' \in {v8, Bullet!Nobody}
  BY DEF Bullet!Clean, Bullet!Cleans, Bullet!Kills, Bullet!Drop, Bullet!Break, Bullet!Move,
       Bullet!agents
<1>3. Bullet!Here(v2)' \subseteq Bullet!Here(v2) /\ Bullet!Fenced' \subseteq Bullet!Fenced
  BY <1>2 DEF Bullet!Here, Bullet!Fenced
<1>4. CASE v7' # v2'
  BY <1>1, <1>2, <1>3, <1>4 DEF Bullet!Prepared
<1>5. CASE v7' = v2' /\ v8' = v8 /\ v7' = v7
  BY <1>1, <1>2, <1>3, <1>5 DEF Bullet!Prepared
<1>6. CASE Bullet!Drop \/ Bullet!Break
  <2>1. v7' = "shell"
    BY <1>6 DEF Bullet!Drop, Bullet!Break, Bullet!Nowhere
  <2>2. v2' \in Container => v7' # v2'
    BY <2>1, PartsAssumption
  <2>3. QED
    BY <1>1, <1>2, <1>3, <2>2 DEF Bullet!Prepared
<1>7. CASE Bullet!Clean
  <2>1. PICK youngest \in Bullet!Agent : Bullet!Cleans(youngest)
    BY <1>7 DEF Bullet!Clean
  <2>2. UNCHANGED v7 /\ v8' \in {v8, Bullet!Nobody}
    BY <1>7 DEF Bullet!Clean, Bullet!Cleans, Bullet!Kills
  <2>3. SUFFICES ASSUME v8 # Bullet!Nobody, v8' = Bullet!Nobody, v7 = v2
                 PROVE  Bullet!Prepared(p)'
    BY <1>2, <1>4, <1>5, <2>2
  <2>4. Bullet!Here(v2)' = {} \/ \E n \in v6 : Bullet!Here(v2)' = {n}
    BY <1>1, <1>2, <2>1, <2>3, BulletCleans, BulletFewer DEF Bullet!Cleans
  <2>5. v9[p].kind # "model" => v9[p].at \notin {"import", "start"}
    BY <1>1, <2>3 DEF Bullet!Prepared
  <2>6. v9[p].at = "fence" => v9[p].kind # "resume"
    BY <1>1 DEF Bullet!Prepared
  <2>7. QED
    BY <1>2, <2>4, <2>5, <2>6 DEF Bullet!Prepared
<1>8. CASE Bullet!Move
  BY <1>4, <1>5, <1>8 DEF Bullet!Move
<1>9. QED
  BY <1>6, <1>7, <1>8

LEMMA BulletStep ==
    ASSUME Bullet!BulletInv, Bullet!OneCommand, Bullet!OneCommand',
           [Bullet!Next]_(Bullet!vars)
    PROVE  Bullet!BulletInv'
<1>1. Bullet!TypeOK'
  BY BulletTypes DEF Bullet!BulletInv
<1>2. Bullet!ShowsLast'
  BY DEF Bullet!BulletInv, Bullet!ShowsLast, Bullet!Next, Bullet!vars, Bullet!agents,
    Bullet!Step, Bullet!Begin, Bullet!RouteKept,
    Bullet!RouteRepaired, Bullet!RouteRefused, Bullet!Jump, Bullet!JumpFails, Bullet!Fence,
    Bullet!FenceFails, Bullet!Sweep, Bullet!SweepFails, Bullet!Import, Bullet!ImportFails,
    Bullet!Writers, Bullet!WritersSuffice, Bullet!StartBound, Bullet!StartModel,
    Bullet!Starts, Bullet!StartsNothing, Bullet!Kills, Bullet!Clean, Bullet!Cleans,
    Bullet!Drop, Bullet!Break, Bullet!Move
<1>3. ASSUME NEW q \in Command PROVE Bullet!Prepared(q)'
  <2>1. CASE UNCHANGED Bullet!vars
    BY <2>1 DEF Bullet!BulletInv, Bullet!vars, Bullet!agents, Bullet!Prepared, Bullet!Here,
         Bullet!Fenced
  <2>2. CASE \E p \in Command : BulletSteps(p)
    <3>1. PICK p \in Command : BulletSteps(p)
      BY <2>2
    <3>2. CASE p = q
      BY <3>1, <3>2, BulletPrepares
    <3>3. CASE p # q
      <4>1. v9'[q].at = "idle"
        BY <3>1, <3>3, BulletAlone DEF Bullet!BulletInv
      <4>2. QED
        BY <4>1 DEF Bullet!Prepared
    <3>4. QED
      BY <3>2, <3>3
  <2>3. CASE Bullet!Clean \/ Bullet!Drop \/ Bullet!Break \/ Bullet!Move
    BY <2>3, BulletWorld
  <2>4. QED
    BY <2>1, <2>2, <2>3 DEF Bullet!Next, Bullet!Step, BulletSteps
<1>4. QED
  BY <1>1, <1>2, <1>3 DEF Bullet!BulletInv

\* The steps that the properties are about.
LEMMA BulletStartsAlone ==
    ASSUME Bullet!BulletInv
    PROVE  Bullet!StartsTheOne /\ Bullet!StartsTheOnly
<1>1. ASSUME NEW p \in Command, Bullet!StartBound(p), v7 = v2
      PROVE  /\ Bullet!Here(v7) \cap v6 = {}
             /\ v7 \in Container /\ ~v9[p].unsure => Bullet!Here(v7) = {}
  <2>1. v9[p].at = "start" /\ v9[p].kind # "model" /\ v8 = Bullet!Nobody
    BY <1>1 DEF Bullet!StartBound, Bullet!Starts
  <2>2. Bullet!Prepared(p)
    BY DEF Bullet!BulletInv
  <2>3. QED
    BY <1>1, <2>1, <2>2 DEF Bullet!Prepared, Bullet!Fenced
<1>2. QED
  BY <1>1 DEF Bullet!StartsTheOne, Bullet!StartsTheOnly

-----------------------------------------------------------------------------
(* Binding.                                                                  *)

Entry == Bind!Session \cup {Bind!None}

BoundJob ==
    [at : {"idle", "next", "prove", "commit"}, kind : {"freeze", "model"},
     side : Bind!Side, todo : SUBSET Bind!Side, data : Bind!Data, was : Bind!Data,
     found : Entry, spot : Bind!Spot, attempt : [Bind!Side -> Bind!States]]

\* The types, with the sets named.
LEMMA BindingTypes ==
    Bind!TypeOK <=>
        /\ v1 \in 0 .. MaxTime /\ v2 \in {"opencode", "native"}
        /\ v3 \in [Bind!Pane -> Bind!Spot]
        /\ v4 \in [Bind!Pane -> [start : 0 .. MaxTime, session : Entry, named : BOOLEAN]]
        /\ v5 \in [Bind!Spot -> SUBSET Bind!Session]
        /\ v6 \in Bind!Data /\ v7 \in Bind!Spot
        /\ v8 \in [Freezer -> BoundJob]
        /\ v9 \in 0 .. MaxCommand /\ v10 \in BOOLEAN
  BY DEF Bind!TypeOK, Entry, BoundJob

LEMMA BindingIdle == Bind!Idle \in BoundJob /\ Bind!Idle.at = "idle"
<1>1. Bind!Blank \in Bind!Data
  BY DEF Bind!Blank, Bind!Data, Bind!Spot
<1>2. [s \in Bind!Side |-> "created"] \in [Bind!Side -> Bind!States]
  BY DEF Bind!States
<1>3. QED
  BY <1>1, <1>2 DEF Bind!Idle, BoundJob, Entry, Bind!Side, Bind!Spot

LEMMA BindingInitial ==
    ASSUME Bind!Init
    PROVE  Bind!FreezeInv /\ Bind!EntryInv
<1>1. v6 \in Bind!Data /\ v7 \in Bind!Spot /\ v7 = v6.place
  BY DEF Bind!Init, Bind!Data, Bind!Pane, Bind!Side
<1>2. v4 \in [Bind!Pane -> [start : 0 .. MaxTime, session : Entry, named : BOOLEAN]]
  BY Numbers DEF Bind!Init, Bind!Down, Entry
<1>3. Bind!TypeOK
  BY <1>1, <1>2, Numbers, BindingTypes, BindingIdle DEF Bind!Init, Bind!Spot
<1>4. Bind!NamedBegun
  BY DEF Bind!Init, Bind!NamedBegun, Bind!Down
<1>5. \A j \in Freezer : v8[j].at = "idle"
  BY BindingIdle DEF Bind!Init
<1>6. QED
  BY <1>1, <1>3, <1>4, <1>5 DEF Bind!FreezeInv, Bind!EntryInv, Bind!OneAtATime

\* The agents and sessions of the panes.
PaneSteps ==
    \/ \E p \in Bind!Pane : Bind!Start(p) \/ Bind!Prompt(p) \/ Bind!Exit(p)
    \/ \E s \in Bind!Side : Bind!Continue(s)
    \/ Bind!MoveBullet

LEMMA BindingPanes ==
    ASSUME Bind!TypeOK, Bind!NamedBegun, PaneSteps
    PROVE  /\ Bind!TypeOK' /\ Bind!NamedBegun'
           /\ Bind!SessionsBegun \subseteq Bind!SessionsBegun'
           /\ UNCHANGED <<v6, v7, v8, v9, v10>>
<1> DEFINE Agents == [Bind!Pane -> [start : 0 .. MaxTime, session : Entry, named : BOOLEAN]]
<1>0. /\ v1 \in 0 .. MaxTime /\ v3 \in [Bind!Pane -> Bind!Spot] /\ v4 \in Agents
      /\ v5 \in [Bind!Spot -> SUBSET Bind!Session] /\ v6 \in Bind!Data
  BY BindingTypes
<1>1. UNCHANGED <<v2, v6, v7, v8, v9, v10>>
  BY DEF PaneSteps, Bind!Start, Bind!Prompt, Bind!Exit, Bind!Continue, Bind!MoveBullet
<1>2. Bind!Tick => v1' \in 0 .. MaxTime /\ v1' \in Bind!Session
  BY <1>0, Numbers DEF Bind!Tick, Bind!Session
<1>3. SUFFICES /\ v1' \in 0 .. MaxTime /\ v3' \in [Bind!Pane -> Bind!Spot]
               /\ v4' \in Agents /\ v5' \in [Bind!Spot -> SUBSET Bind!Session]
               /\ Bind!NamedBegun' /\ Bind!SessionsBegun \subseteq Bind!SessionsBegun'
  BY <1>1, BindingTypes DEF Bind!TypeOK, Entry
<1>4. CASE \E p \in Bind!Pane : Bind!Start(p)
  <2>1. PICK p \in Bind!Pane : Bind!Start(p)
    BY <1>4
  <2>2. UNCHANGED <<v3, v5>> /\ Bind!Tick
    BY <2>1 DEF Bind!Start
  <2> DEFINE agent == [Bind!Down EXCEPT !.start = v1']
  <2>3. /\ agent \in [start : 0 .. MaxTime, session : Entry, named : BOOLEAN]
        /\ ~agent.named
    BY <1>2, <2>2 DEF Bind!Down, Entry
  <2> HIDE DEF agent
  <2>4. v4' = [v4 EXCEPT ![p] = agent] /\ v4' \in Agents
    BY <1>0, <2>1, <2>3 DEF Bind!Start, agent
  <2>5. Bind!NamedBegun'
    BY <1>0, <2>2, <2>3, <2>4 DEF Bind!NamedBegun, Bind!SessionsBegun
  <2>6. QED
    BY <1>0, <1>2, <2>2, <2>4, <2>5 DEF Bind!SessionsBegun
<1>5. CASE \E s \in Bind!Side : Bind!Continue(s)
  <2>1. PICK s \in Bind!Side : Bind!Continue(s)
    BY <1>5
  <2>2. UNCHANGED <<v3, v5>> /\ Bind!Tick /\ s \in Bind!Pane /\ v6[s] \in v5[v3[s]]
    BY <2>1 DEF Bind!Continue, Bind!Pane
  <2>3. v4' = [v4 EXCEPT ![s] = [start |-> v1', session |-> v6[s], named |-> TRUE]]
    BY <2>1 DEF Bind!Continue
  <2>4. v6[s] \in Entry
    BY <1>0 DEF Bind!Data, Bind!Side, Entry
  <2>5. v4' \in Agents
    BY <1>0, <1>2, <2>2, <2>3, <2>4
  <2>6. v6[s] \in Bind!SessionsBegun
    BY <1>0, <2>2 DEF Bind!SessionsBegun, Bind!Spot
  <2>7. Bind!NamedBegun'
    BY <1>0, <2>2, <2>3, <2>6 DEF Bind!NamedBegun, Bind!SessionsBegun
  <2>8. QED
    BY <1>0, <1>2, <2>2, <2>5, <2>7 DEF Bind!SessionsBegun
<1>6. CASE \E p \in Bind!Pane : Bind!Prompt(p)
  <2>1. PICK p \in Bind!Pane : Bind!Prompt(p)
    BY <1>6
  <2>2. UNCHANGED v3 /\ Bind!Tick
    BY <2>1 DEF Bind!Prompt
  <2>3. v4' = [v4 EXCEPT ![p].session = v1']
    BY <2>1 DEF Bind!Prompt
  <2>4. v4' \in Agents
    BY <1>0, <1>2, <2>2, <2>3 DEF Entry
  <2>5. v3[p] \in Bind!Spot /\ v5' = [v5 EXCEPT ![v3[p]] = v5[v3[p]] \cup {v1'}]
    BY <1>0, <2>1 DEF Bind!Prompt
  <2>6. v5' \in [Bind!Spot -> SUBSET Bind!Session]
    BY <1>0, <1>2, <2>2, <2>5
  <2>7. Bind!SessionsBegun' = Bind!SessionsBegun \cup {v1'}
    BY <1>0, <2>5 DEF Bind!SessionsBegun, Bind!Spot
  <2>8. \A q \in Bind!Pane : /\ v4'[q].named = v4[q].named
                             /\ v4'[q].session \in {v4[q].session, v1'}
    BY <1>0, <2>3
  <2>9. Bind!NamedBegun'
    BY <2>7, <2>8 DEF Bind!NamedBegun
  <2>10. QED
    BY <1>0, <1>2, <2>2, <2>4, <2>6, <2>7, <2>9
<1>7. CASE \E p \in Bind!Pane : Bind!Exit(p)
  <2>1. PICK p \in Bind!Pane : Bind!Exit(p)
    BY <1>7
  <2>2. UNCHANGED <<v1, v3, v5>>
    BY <2>1 DEF Bind!Exit
  <2>3. v4' = [v4 EXCEPT ![p] = [start |-> 0, session |-> Bind!None, named |-> FALSE]]
    BY <2>1 DEF Bind!Exit, Bind!Down
  <2>4. v4' \in Agents
    BY <1>0, <2>3, Numbers DEF Entry
  <2>5. Bind!NamedBegun'
    BY <1>0, <2>2, <2>3 DEF Bind!NamedBegun, Bind!SessionsBegun
  <2>6. QED
    BY <1>0, <2>2, <2>4, <2>5 DEF Bind!SessionsBegun
<1>8. CASE Bind!MoveBullet
  <2>1. UNCHANGED <<v1, v4, v5>> /\ v3' \in [Bind!Pane -> Bind!Spot]
    BY <1>0, <1>8 DEF Bind!MoveBullet
  <2>2. Bind!NamedBegun'
    BY <2>1 DEF Bind!NamedBegun, Bind!SessionsBegun
  <2>3. QED
    BY <1>0, <2>1, <2>2 DEF Bind!SessionsBegun
<1>9. QED
  BY <1>4, <1>5, <1>6, <1>7, <1>8 DEF PaneSteps

\* What is found in a pane was begun.
LEMMA BindingFound ==
    ASSUME Bind!TypeOK, Bind!NamedBegun, NEW s \in Bind!Side, NEW other
    PROVE  Bind!Discovered(s, other) \subseteq Bind!SessionsBegun
<1>1. v5["local"] \subseteq Bind!SessionsBegun /\ v5["box"] \subseteq Bind!SessionsBegun
  BY DEF Bind!SessionsBegun
<1>2. s \in Bind!Pane
  BY DEF Bind!Pane
<1>3. \A p \in Bind!Pane : v4[p].named => v4[p].session \in Bind!SessionsBegun
  BY DEF Bind!NamedBegun
<1>4. Bind!Recent(s) \subseteq Bind!SessionsBegun
  BY <1>1 DEF Bind!Recent
<1>5. Bind!FoundOpenCode(s, other) \subseteq Bind!SessionsBegun
  BY <1>2, <1>3, <1>4 DEF Bind!FoundOpenCode
<1>6. Bind!FoundNative(s) \subseteq Bind!SessionsBegun
  BY <1>2, <1>3, <1>4 DEF Bind!FoundNative
<1>7. ASSUME NEW x \in Bind!Spot PROVE Bind!FoundRemote(x) \subseteq Bind!SessionsBegun
  <2>1. v5[x] \subseteq Bind!SessionsBegun
    BY <1>1 DEF Bind!Spot
  <2>2. Bind!Last(x) \subseteq Bind!Pane
    BY DEF Bind!Last
  <2>3. QED
    BY <1>3, <2>1, <2>2 DEF Bind!FoundRemote
<1>8. v3[s] \in Bind!Spot
  BY <1>2, BindingTypes
<1>9. QED
  BY <1>5, <1>6, <1>7, <1>8 DEF Bind!Discovered

\* The steps of a command.
FreezeSteps(j) ==
    \/ Bind!Begin(j) \/ Bind!Request(j) \/ Bind!Prove(j) \/ Bind!Commit(j)
    \/ Bind!RejectCommit(j) \/ Bind!FailCommit(j) \/ Bind!Save(j) \/ Bind!GiveUp(j)
    \/ Bind!Crash(j)

\* A command moves itself alone.
Moves(j, next) == v8' = [v8 EXCEPT ![j] = next]

\* The attempt for side s of a command ends.
Ends(old, s, state) ==
    [old EXCEPT !.attempt[s] = state, !.at = "next", !.found = Bind!None, !.spot = "local"]

LEMMA BindingEnds ==
    ASSUME NEW old \in BoundJob, NEW s \in Bind!Side, NEW state \in Bind!States
    PROVE  /\ Ends(old, s, state) \in BoundJob
           /\ Ends(old, s, state).at = "next"
           /\ Ends(old, s, state).todo = old.todo
           /\ Ends(old, s, state).data = old.data
           /\ Ends(old, s, state).was = old.was
           /\ Ends(old, s, state).kind = old.kind
           /\ Ends(old, s, state).side = old.side
           /\ Ends(old, s, state).attempt = [old.attempt EXCEPT ![s] = state]
<1>1. [old.attempt EXCEPT ![s] = state] \in [Bind!Side -> Bind!States]
  BY DEF BoundJob
<1>2. QED
  BY <1>1 DEF Ends, BoundJob, Entry, Bind!Spot

LEMMA BindingAttempts ==
    ASSUME Bind!TypeOK, NEW j \in Freezer, NEW s, NEW state
    PROVE  Bind!Attempts(j, s, state) = [v8 EXCEPT ![j] = Ends(v8[j], s, state)]
  BY DEF Bind!Attempts, Bind!TypeOK, Ends

\* The record of a command that has begun.
Begun(kind, todo) ==
    [Bind!Idle EXCEPT !.at = "next", !.kind = kind, !.todo = todo, !.data = v6, !.was = v6]

LEMMA BindingBegun ==
    ASSUME NEW kind \in {"freeze", "model"}, NEW todo \in SUBSET Bind!Side, v6 \in Bind!Data
    PROVE  /\ Begun(kind, todo) \in BoundJob
           /\ Begun(kind, todo).at = "next"
           /\ Begun(kind, todo).data = v6 /\ Begun(kind, todo).was = v6
           /\ Begun(kind, todo).attempt = [s \in Bind!Side |-> "created"]
           /\ Begun(kind, todo).todo \subseteq Bind!Side
<1>1. [s \in Bind!Side |-> "created"] \in [Bind!Side -> Bind!States]
  BY DEF Bind!States
<1>2. QED
  BY <1>1 DEF Begun, Bind!Idle, BoundJob, Entry, Bind!Side, Bind!Spot

\* AttemptsHold and EntryHolds of a record.
Holds(r) ==
    /\ \A s \in Bind!Side : IF r.attempt[s] = "bound" THEN r.data[s] \in Bind!SessionsBegun
                            ELSE r.data[s] = r.was[s]
    /\ \A s \in r.todo : r.attempt[s] = "created"
    /\ r.at \in {"prove", "commit"} => r.side \notin r.todo /\ r.attempt[r.side] = "proving"
    /\ r.at = "commit" => r.found \in Bind!SessionsBegun

Leads(r, entry, file) ==
    IF r.attempt["bullet"] = "bound" THEN entry = r.data.place
    ELSE entry = file.place /\ r.data.place = file.place

LEMMA BindingHolds ==
    ASSUME NEW j \in Freezer
    PROVE  /\ Bind!AttemptsHold(j) <=> Holds(v8[j])
           /\ Bind!EntryHolds(j) <=> Leads(v8[j], v7, v6)
  BY DEF Bind!AttemptsHold, Bind!EntryHolds, Holds, Leads

\* What the entry and the file are to a command.
Fits(j) == IF v8[j].at = "idle" THEN v7 = v6.place ELSE Leads(v8[j], v7, v6)

\* A command becomes next, and stays in order; ended, it leaves the entry so.
Becomes(j, next) ==
    /\ next \in BoundJob /\ v8' = [v8 EXCEPT ![j] = next]
    /\ next.at # "idle" => Holds(next) /\ (Fits(j) => Leads(next, v7', v6'))
    /\ next.at = "idle" /\ v10' /\ Fits(j) => v7' = v6'.place

\* An attempt that does not end "bound" leaves all as it was.
LEMMA BindingUnbound ==
    ASSUME Bind!FreezeInv, NEW j \in Freezer, v8[j].at \in {"prove", "commit"},
           NEW state \in {"rejected", "failed"}, UNCHANGED <<v6, v7>>,
           v8' = Bind!Attempts(j, v8[j].side, state)
    PROVE  \E next \in BoundJob : Becomes(j, next)
<1> DEFINE old == v8[j]
           next == Ends(old, old.side, state)
<1>1. Bind!TypeOK /\ old \in BoundJob /\ old.side \in Bind!Side
  BY BindingTypes DEF Bind!FreezeInv, BoundJob
<1>2. state \in Bind!States /\ state # "bound" /\ state # "created"
  BY DEF Bind!States
<1>3. v8' = [v8 EXCEPT ![j] = next]
  BY <1>1, BindingAttempts
<1>4. /\ next \in BoundJob /\ next.at = "next" /\ next.todo = old.todo
      /\ next.data = old.data /\ next.was = old.was
      /\ next.attempt = [old.attempt EXCEPT ![old.side] = state]
  BY <1>1, <1>2, BindingEnds
<1>5. Holds(old)
  BY BindingHolds DEF Bind!FreezeInv
<1>6. old.attempt \in [Bind!Side -> Bind!States] /\ old.todo \subseteq Bind!Side
  BY <1>1 DEF BoundJob
<1>7. old.attempt[old.side] = "proving" /\ old.side \notin old.todo
  BY <1>5 DEF Holds
<1> HIDE DEF next, old
<1>8. \A s \in Bind!Side : next.attempt[s] = IF s = old.side THEN state ELSE old.attempt[s]
  BY <1>1, <1>4, <1>6
<1>9. \A s \in Bind!Side : next.attempt[s] = "bound" <=> old.attempt[s] = "bound"
  BY <1>2, <1>7, <1>8
<1>10. Holds(next)
  BY <1>4, <1>5, <1>6, <1>7, <1>8, <1>9 DEF Holds
<1>11. "bullet" \in Bind!Side
  BY DEF Bind!Side
<1>12. Fits(j) => Leads(next, v7', v6')
  BY <1>4, <1>9, <1>11 DEF Fits, Leads, old
<1>13. QED
  BY <1>3, <1>4, <1>10, <1>12 DEF Becomes

LEMMA BindingRequest ==
    ASSUME Bind!FreezeInv, NEW j \in Freezer, Bind!Request(j)
    PROVE  \E next \in BoundJob : Becomes(j, next)
<1> DEFINE old == v8[j]
           s == Bind!NextSide(j)
           asked == [old EXCEPT !.todo = old.todo \ {s}, !.side = s]
<1>1. Bind!TypeOK /\ old \in BoundJob /\ old.todo # {}
  BY BindingTypes DEF Bind!FreezeInv, Bind!Request
<1>2. s \in old.todo /\ s \in Bind!Side
  BY <1>1 DEF Bind!NextSide, Bind!Side, BoundJob
<1> DEFINE refused == [asked EXCEPT !.attempt[s] = "rejected"]
           proving == [asked EXCEPT !.attempt[s] = "proving", !.at = "prove"]
<1>3. asked \in BoundJob
  BY <1>1, <1>2 DEF BoundJob
<1>4. v8' = [v8 EXCEPT ![j] = refused] \/ v8' = [v8 EXCEPT ![j] = proving]
  <2> DEFINE all == [v8 EXCEPT ![j].todo = @ \ {s}, ![j].side = s]
  <2>1. v8 \in [Freezer -> BoundJob]
    BY <1>1, BindingTypes
  <2>2. all = [v8 EXCEPT ![j] = asked]
    BY <2>1
  <2>3. \/ v8' = [all EXCEPT ![j].attempt[s] = "rejected"]
        \/ v8' = [all EXCEPT ![j].attempt[s] = "proving", ![j].at = "prove"]
    BY DEF Bind!Request
  <2> HIDE DEF all, asked
  <2>4. QED
    BY <2>1, <2>2, <2>3
<1>5. Holds(old)
  BY BindingHolds DEF Bind!FreezeInv, Bind!Request
<1>6. old.attempt \in [Bind!Side -> Bind!States] /\ old.todo \subseteq Bind!Side
  BY <1>1 DEF BoundJob
<1>7. old.attempt[s] = "created" /\ old.at = "next"
  BY <1>2, <1>5 DEF Holds, Bind!Request
<1>8. ASSUME NEW next \in {refused, proving}
      PROVE  /\ next.todo = old.todo \ {s} /\ next.side = s
             /\ next.data = old.data /\ next.was = old.was
             /\ next.at \in {"next", "prove"}
             /\ \A t \in Bind!Side : t # s => next.attempt[t] = old.attempt[t]
             /\ next.attempt[s] \in {"rejected", "proving"}
             /\ next.at = "prove" => next.attempt[s] = "proving"
             /\ next \in BoundJob
  <2>1. [old.attempt EXCEPT ![s] = "rejected"] \in [Bind!Side -> Bind!States]
    BY <1>6 DEF Bind!States
  <2>2. [old.attempt EXCEPT ![s] = "proving"] \in [Bind!Side -> Bind!States]
    BY <1>6 DEF Bind!States
  <2>3. CASE next = refused
    BY <1>1, <1>2, <1>3, <1>6, <1>7, <2>1, <2>3 DEF BoundJob
  <2>4. CASE next = proving
    BY <1>1, <1>2, <1>3, <1>6, <1>7, <2>2, <2>4 DEF BoundJob
  <2>5. QED
    BY <2>3, <2>4
<1> HIDE DEF refused, proving
<1>9. ASSUME NEW next \in {refused, proving} PROVE Holds(next) /\ (Fits(j) => Leads(next, v7', v6'))
  <2>1. \A t \in Bind!Side : next.attempt[t] = "bound" <=> old.attempt[t] = "bound"
    BY <1>2, <1>7, <1>8, <1>9
  <2>2. Holds(next)
    BY <1>2, <1>5, <1>6, <1>8, <1>9, <2>1 DEF Holds
  <2>3. UNCHANGED <<v6, v7>> /\ "bullet" \in Bind!Side
    BY DEF Bind!Request, Bind!Side
  <2>4. Fits(j) => Leads(next, v7', v6')
    BY <1>7, <1>8, <1>9, <2>1, <2>3 DEF Fits, Leads
  <2>5. QED
    BY <2>2, <2>4
<1>10. QED
  BY <1>4, <1>8, <1>9 DEF Becomes

LEMMA BindingProve ==
    ASSUME Bind!FreezeInv, NEW j \in Freezer, Bind!Prove(j)
    PROVE  \E next \in BoundJob : Becomes(j, next)
<1> DEFINE old == v8[j]
           s == old.side
           found == Bind!Discovered(s, old.data[Bind!Opposite(s)])
<1>1. Bind!TypeOK /\ old \in BoundJob /\ s \in Bind!Side /\ old.at = "prove"
  BY BindingTypes DEF Bind!FreezeInv, Bind!Prove, BoundJob
<1>2. UNCHANGED <<v6, v7>>
  BY DEF Bind!Prove
<1>3. CASE v8' = Bind!Attempts(j, s, "rejected")
  BY <1>1, <1>2, <1>3, BindingUnbound
<1>4. CASE \E x \in found : v8' = [v8 EXCEPT ![j].at = "commit", ![j].found = x,
                                            ![j].spot = v3[s]]
  <2>1. PICK x \in found : v8' = [v8 EXCEPT ![j].at = "commit", ![j].found = x,
                                            ![j].spot = v3[s]]
    BY <1>4
  <2> DEFINE next == [old EXCEPT !.at = "commit", !.found = x, !.spot = v3[s]]
  <2>2. x \in Bind!SessionsBegun
    BY <1>1, <2>1, BindingFound DEF Bind!FreezeInv
  <2>3. Bind!SessionsBegun \subseteq Entry
    BY <1>1, BindingTypes DEF Bind!SessionsBegun, Entry, Bind!Spot
  <2>4. v3[s] \in Bind!Spot
    BY <1>1, BindingTypes DEF Bind!Pane
  <2>5. v8' = [v8 EXCEPT ![j] = next]
    BY <1>1, <2>1 DEF Bind!TypeOK
  <2>6. /\ next \in BoundJob /\ next.at = "commit" /\ next.found = x
        /\ next.todo = old.todo /\ next.side = old.side /\ next.data = old.data
        /\ next.was = old.was /\ next.attempt = old.attempt
    BY <1>1, <2>2, <2>3, <2>4 DEF BoundJob
  <2>7. Holds(old)
    BY <1>1, BindingHolds DEF Bind!FreezeInv
  <2> HIDE DEF next
  <2>8. Holds(next)
    BY <1>1, <2>2, <2>6, <2>7 DEF Holds
  <2>9. Fits(j) => Leads(next, v7', v6')
    BY <1>1, <1>2, <2>6 DEF Fits, Leads
  <2>10. QED
    BY <2>5, <2>6, <2>8, <2>9 DEF Becomes
<1>5. QED
  BY <1>3, <1>4 DEF Bind!Prove

LEMMA BindingCommit ==
    ASSUME Bind!FreezeInv, NEW j \in Freezer, Bind!Commit(j)
    PROVE  \E next \in BoundJob : Becomes(j, next)
<1> DEFINE old == v8[j]
           s == old.side
           data == Bind!Projected(j)
           ended == Ends(old, s, "bound")
           next == [ended EXCEPT !.data = data]
<1>1. Bind!TypeOK /\ old \in BoundJob /\ s \in Bind!Side /\ old.at = "commit"
  BY BindingTypes DEF Bind!FreezeInv, Bind!Commit, BoundJob
<1>2. Holds(old)
  BY <1>1, BindingHolds DEF Bind!FreezeInv
<1>3. old.data \in Bind!Data /\ old.found \in Entry /\ old.spot \in Bind!Spot
  BY <1>1 DEF BoundJob
<1>4. /\ data \in Bind!Data
      /\ \A t \in Bind!Side : data[t] = IF t = s THEN old.found ELSE old.data[t]
      /\ data.place = IF s = "bullet" THEN old.spot ELSE old.data.place
  BY <1>1, <1>3 DEF Bind!Projected, Bind!Data, Entry, Bind!Side
<1>5. /\ ended \in BoundJob /\ ended.at = "next" /\ ended.todo = old.todo
      /\ ended.was = old.was /\ ended.attempt = [old.attempt EXCEPT ![s] = "bound"]
  <2>1. "bound" \in Bind!States
    BY DEF Bind!States
  <2>2. QED
    BY <1>1, <2>1, BindingEnds
<1>6. v8' = [v8 EXCEPT ![j] = next]
  <2>1. Bind!Attempts(j, s, "bound") = [v8 EXCEPT ![j] = ended]
    BY <1>1, BindingAttempts
  <2>2. v8' = [Bind!Attempts(j, s, "bound") EXCEPT ![j].data = data]
    BY DEF Bind!Commit
  <2> HIDE DEF ended, data
  <2>3. QED
    BY <1>1, <2>1, <2>2, BindingTypes
<1> HIDE DEF ended, data
<1>7. /\ next \in BoundJob /\ next.at = "next" /\ next.todo = old.todo /\ next.data = data
      /\ next.was = old.was /\ next.attempt = [old.attempt EXCEPT ![s] = "bound"]
  BY <1>4, <1>5 DEF BoundJob
<1> HIDE DEF next
<1>8. old.attempt \in [Bind!Side -> Bind!States] /\ old.todo \subseteq Bind!Side
  BY <1>1 DEF BoundJob
<1>9. \A t \in Bind!Side : next.attempt[t] = IF t = s THEN "bound" ELSE old.attempt[t]
  BY <1>1, <1>7, <1>8
<1>10. Holds(next)
  BY <1>1, <1>2, <1>4, <1>7, <1>8, <1>9 DEF Holds
<1>11. /\ v6' = v6
       /\ v7' = IF s = "bullet" THEN old.spot ELSE v7
  BY DEF Bind!Commit
<1>12. Fits(j) => Leads(next, v7', v6')
  BY <1>1, <1>4, <1>7, <1>9, <1>11 DEF Fits, Leads, Bind!Side
<1>13. QED
  BY <1>6, <1>7, <1>10, <1>12 DEF Becomes

\* A command that begins, and the ways to end.
LEMMA BindingEdges ==
    ASSUME Bind!FreezeInv, NEW j \in Freezer,
           Bind!Begin(j) \/ Bind!Save(j) \/ Bind!GiveUp(j) \/ Bind!Crash(j)
    PROVE  \E next \in BoundJob : Becomes(j, next)
<1>1. v6 \in Bind!Data
  BY BindingTypes DEF Bind!FreezeInv
<1>2. CASE Bind!Begin(j)
  <2>1. PICK todo \in SUBSET Bind!Side, kind \in {"freeze", "model"} :
            v8' = [v8 EXCEPT ![j] = Begun(kind, todo)]
    BY <1>2 DEF Bind!Begin, Begun
  <2> DEFINE next == Begun(kind, todo)
  <2>2. /\ next \in BoundJob /\ next.at = "next" /\ next.data = v6 /\ next.was = v6
        /\ next.attempt = [s \in Bind!Side |-> "created"] /\ next.todo \subseteq Bind!Side
    BY <1>1, BindingBegun
  <2> HIDE DEF next
  <2>3. Holds(next)
    BY <2>2 DEF Holds
  <2>4. v8[j].at = "idle" /\ UNCHANGED <<v6, v7>> /\ "bullet" \in Bind!Side
    BY <1>2 DEF Bind!Begin, Bind!Side
  <2>5. Fits(j) => Leads(next, v7', v6')
    BY <2>2, <2>4 DEF Fits, Leads
  <2>6. QED
    BY <2>1, <2>2, <2>3, <2>5 DEF Becomes, next
<1>3. CASE Bind!Save(j)
  <2>1. v8' = [v8 EXCEPT ![j] = Bind!Idle] /\ v6' = v8[j].data /\ v7' = v7
    BY <1>3 DEF Bind!Save
  <2>2. v8[j].at # "idle"
    BY <1>3 DEF Bind!Save, Bind!Ended
  <2>3. Fits(j) => v7' = v6'.place
    BY <2>1, <2>2 DEF Fits, Leads
  <2>4. QED
    BY <2>1, <2>3, BindingIdle DEF Becomes
<1>4. CASE Bind!GiveUp(j)
  <2>1. v8' = [v8 EXCEPT ![j] = Bind!Idle] /\ UNCHANGED <<v6, v7>>
    BY <1>4 DEF Bind!GiveUp
  <2>2. v8[j].at # "idle" /\ (v10' => v8[j].attempt["bullet"] # "bound")
    BY <1>4 DEF Bind!GiveUp, Bind!Ended
  <2>3. v10' /\ Fits(j) => v7' = v6'.place
    BY <2>1, <2>2 DEF Fits, Leads
  <2>4. QED
    BY <2>1, <2>3, BindingIdle DEF Becomes
<1>5. CASE Bind!Crash(j)
  BY <1>5, BindingIdle DEF Bind!Crash, Becomes
<1>6. QED
  BY <1>2, <1>3, <1>4, <1>5

LEMMA BindingCommands ==
    ASSUME Bind!FreezeInv, NEW j \in Freezer, FreezeSteps(j)
    PROVE  /\ \E next \in BoundJob : Becomes(j, next)
           /\ UNCHANGED <<v1, v2, v3, v4, v5>>
           /\ v6' \in Bind!Data /\ v7' \in Bind!Spot /\ v9' \in 0 .. MaxCommand
           /\ Bind!TypeOK => v10' \in BOOLEAN
<1>1. /\ Bind!TypeOK /\ v8[j] \in BoundJob /\ v6 \in Bind!Data /\ v7 \in Bind!Spot
      /\ v9 \in 0 .. MaxCommand /\ v10 \in BOOLEAN
  BY BindingTypes DEF Bind!FreezeInv
<1>2. v8[j].data \in Bind!Data /\ v8[j].spot \in Bind!Spot
  BY <1>1 DEF BoundJob
<1>3. UNCHANGED <<v1, v2, v3, v4, v5>>
  BY DEF FreezeSteps, Bind!Begin, Bind!Request, Bind!Prove, Bind!Commit, Bind!RejectCommit,
       Bind!FailCommit, Bind!Save, Bind!GiveUp, Bind!Crash, Bind!panes
<1>4. v6' \in Bind!Data /\ v7' \in Bind!Spot
  BY <1>1, <1>2 DEF FreezeSteps, Bind!Begin, Bind!Request, Bind!Prove, Bind!Commit,
       Bind!RejectCommit, Bind!FailCommit, Bind!Save, Bind!GiveUp, Bind!Crash
<1>5. v9' = v9 \/ (v9 < MaxCommand /\ v9' = v9 + 1)
  BY DEF FreezeSteps, Bind!Begin, Bind!Request, Bind!Prove, Bind!Commit,
       Bind!RejectCommit, Bind!FailCommit, Bind!Save, Bind!GiveUp, Bind!Crash
<1>6. v9' \in 0 .. MaxCommand
  BY <1>1, <1>5, Numbers
<1>7. v10' \in BOOLEAN
  BY <1>1 DEF FreezeSteps, Bind!Begin, Bind!Request, Bind!Prove, Bind!Commit,
       Bind!RejectCommit, Bind!FailCommit, Bind!Save, Bind!GiveUp, Bind!Crash
<1>8. ASSUME Bind!RejectCommit(j) \/ Bind!FailCommit(j)
      PROVE  \E next \in BoundJob : Becomes(j, next)
  BY <1>8, BindingUnbound DEF Bind!RejectCommit, Bind!FailCommit
<1>9. QED
  BY <1>3, <1>4, <1>6, <1>7, <1>8, BindingRequest, BindingProve, BindingCommit, BindingEdges
     DEF FreezeSteps

LEMMA BindingStep ==
    ASSUME Bind!FreezeInv, [Bind!Next]_(Bind!vars)
    PROVE  Bind!FreezeInv'
<1>1. CASE UNCHANGED Bind!vars
  BY <1>1 DEF Bind!vars, Bind!panes, Bind!FreezeInv, Bind!TypeOK, Bind!NamedBegun,
       Bind!SessionsBegun, Bind!AttemptsHold
<1>2. CASE PaneSteps
  <2>1. /\ Bind!TypeOK' /\ Bind!NamedBegun' /\ UNCHANGED v8
        /\ Bind!SessionsBegun \subseteq Bind!SessionsBegun'
    BY <1>2, BindingPanes DEF Bind!FreezeInv
  <2>2. ASSUME NEW j \in Freezer, v8'[j].at # "idle" PROVE Bind!AttemptsHold(j)'
    BY <2>1, <2>2 DEF Bind!FreezeInv, Bind!AttemptsHold
  <2>3. QED
    BY <2>1, <2>2 DEF Bind!FreezeInv
<1>3. CASE \E j \in Freezer : FreezeSteps(j)
  <2>1. PICK j \in Freezer : FreezeSteps(j)
    BY <1>3
  <2>2. PICK next \in BoundJob : Becomes(j, next)
    BY <2>1, BindingCommands
  <2>3. Bind!TypeOK /\ Bind!NamedBegun /\ v8 \in [Freezer -> BoundJob]
    BY BindingTypes DEF Bind!FreezeInv
  <2>4. v8' = [v8 EXCEPT ![j] = next] /\ v8' \in [Freezer -> BoundJob]
    BY <2>2, <2>3 DEF Becomes
  <2>5. /\ UNCHANGED <<v1, v2, v3, v4, v5>> /\ v6' \in Bind!Data /\ v7' \in Bind!Spot
        /\ v9' \in 0 .. MaxCommand /\ v10' \in BOOLEAN
    BY <2>1, <2>3, BindingCommands
  <2>6. Bind!TypeOK'
    BY <2>3, <2>4, <2>5 DEF Bind!TypeOK, Entry, BoundJob
  <2>7. Bind!NamedBegun' /\ Bind!SessionsBegun' = Bind!SessionsBegun
    BY <2>3, <2>5 DEF Bind!NamedBegun, Bind!SessionsBegun
  <2>8. ASSUME NEW i \in Freezer, v8'[i].at # "idle" PROVE Bind!AttemptsHold(i)'
    <3>1. CASE i = j
      <4>1. Holds(v8'[i])
        BY <2>2, <2>3, <2>4, <2>8, <3>1 DEF Becomes
      <4>2. QED
        BY <2>7, <4>1 DEF Holds, Bind!AttemptsHold
    <3>2. CASE i # j
      <4>1. v8'[i] = v8[i]
        BY <2>3, <2>4, <3>2
      <4>2. QED
        BY <2>7, <2>8, <4>1 DEF Bind!FreezeInv, Bind!AttemptsHold
    <3>3. QED
      BY <3>1, <3>2
  <2>9. QED
    BY <2>6, <2>7, <2>8 DEF Bind!FreezeInv
<1>4. QED
  BY <1>1, <1>2, <1>3 DEF Bind!Next, PaneSteps, FreezeSteps

\* Whether commands have been kept apart.
LEMMA BindingApart ==
    ASSUME Bind!FreezeInv, Bind!EntryInv, NEW j \in Freezer, FreezeSteps(j), v10'
    PROVE  /\ v10 /\ Fits(j)
           /\ \A i \in Freezer \ {j} : v8[i].at = "idle"
<1>1. v10 \in BOOLEAN
  BY BindingTypes DEF Bind!FreezeInv
<1>2. v10
  BY <1>1 DEF FreezeSteps, Bind!Begin, Bind!Request, Bind!Prove, Bind!Commit,
       Bind!RejectCommit, Bind!FailCommit, Bind!Save, Bind!GiveUp, Bind!Crash
<1>3. CASE Bind!Begin(j)
  <2>1. \A i \in Freezer : v8[i].at = "idle"
    BY <1>3 DEF Bind!Begin
  <2>2. QED
    BY <1>2, <2>1 DEF Bind!EntryInv, Fits
<1>4. CASE ~Bind!Begin(j)
  <2>1. v8[j].at # "idle"
    BY <1>4 DEF FreezeSteps, Bind!Request, Bind!Prove, Bind!Commit, Bind!Ended,
       Bind!RejectCommit, Bind!FailCommit, Bind!Save, Bind!GiveUp, Bind!Crash
  <2>2. \A i \in Freezer \ {j} : v8[i].at = "idle"
    BY <1>2, <2>1 DEF Bind!EntryInv, Bind!OneAtATime
  <2>3. Leads(v8[j], v7, v6)
    BY <1>2, <2>1, BindingHolds DEF Bind!EntryInv
  <2>4. QED
    BY <1>2, <2>1, <2>2, <2>3 DEF Fits
<1>5. QED
  BY <1>3, <1>4

LEMMA BindingEntryStep ==
    ASSUME Bind!FreezeInv, Bind!EntryInv, [Bind!Next]_(Bind!vars)
    PROVE  Bind!EntryInv'
<1>1. CASE UNCHANGED <<v6, v7, v8, v10>>
  BY <1>1 DEF Bind!EntryInv, Bind!OneAtATime, Bind!EntryHolds
<1>2. CASE \E j \in Freezer : FreezeSteps(j)
  <2>1. PICK j \in Freezer : FreezeSteps(j)
    BY <1>2
  <2>2. PICK next \in BoundJob : Becomes(j, next)
    BY <2>1, BindingCommands
  <2>3. v8 \in [Freezer -> BoundJob] /\ v8' = [v8 EXCEPT ![j] = next]
    BY <2>2, BindingTypes DEF Bind!FreezeInv, Becomes
  <2>4. SUFFICES ASSUME v10' PROVE Bind!EntryInv'
    BY DEF Bind!EntryInv
  <2>5. v10 /\ Fits(j) /\ \A i \in Freezer \ {j} : v8[i].at = "idle"
    BY <2>1, <2>4, BindingApart
  <2>6. v8'[j] = next /\ \A i \in Freezer \ {j} : v8'[i].at = "idle"
    BY <2>3, <2>5
  <2>7. next.at # "idle" => Leads(next, v7', v6')
    BY <2>2, <2>5 DEF Becomes
  <2>8. next.at = "idle" => v7' = v6'.place
    BY <2>2, <2>4, <2>5 DEF Becomes
  <2>9. QED
    BY <2>6, <2>7, <2>8 DEF Bind!EntryInv, Bind!OneAtATime, Bind!EntryHolds, Leads
<1>3. CASE PaneSteps
  BY <1>1, <1>3, BindingPanes DEF Bind!FreezeInv
<1>4. QED
  BY <1>1, <1>2, <1>3 DEF Bind!Next, PaneSteps, FreezeSteps, Bind!vars

\* The step that saves a command's data.
LEMMA BindingSaves ==
    ASSUME Bind!FreezeInv, [Bind!Next]_(Bind!vars)
    PROVE  Bind!KeepsOldBinding
<1>1. SUFFICES ASSUME NEW j \in Freezer, v8[j].at # "idle", v6' # v6, v8'[j].at = "idle"
               PROVE  \A s \in Bind!Side :
                         IF v8[j].attempt[s] = "bound"
                           THEN v6'[s] \in v5["local"] \cup v5["box"]
                           ELSE v6'[s] = v8[j].was[s]
  BY DEF Bind!KeepsOldBinding
<1>2. v8 \in [Freezer -> BoundJob]
  BY BindingTypes DEF Bind!FreezeInv
<1>3. PICK i \in Freezer : Bind!Save(i)
  <2>1. ~PaneSteps
    BY <1>1, BindingPanes DEF Bind!FreezeInv
  <2>2. QED
    BY <1>1, <2>1 DEF Bind!Next, PaneSteps, Bind!vars, Bind!Begin, Bind!Request, Bind!Prove,
         Bind!Commit, Bind!RejectCommit, Bind!FailCommit, Bind!GiveUp, Bind!Crash
<1>4. i = j
  BY <1>1, <1>2, <1>3 DEF Bind!Save
<1>5. v6' = v8[j].data
  BY <1>3, <1>4 DEF Bind!Save
<1>6. QED
  BY <1>1, <1>5 DEF Bind!FreezeInv, Bind!AttemptsHold, Bind!SessionsBegun

-----------------------------------------------------------------------------
(* NativeStore.                                                              *)

LEMMA RowsAreSequences ==
    ASSUME NEW s
    PROVE  s \in Native!Rows <=> s \in Seq(Client) /\ Len(s) <= MaxRows
<1>1. s \in Native!Rows => s \in Seq(Client) /\ Len(s) <= MaxRows
  BY Numbers DEF Native!Rows, Native!SeqOf
<1>2. s \in Seq(Client) /\ Len(s) <= MaxRows => s \in Native!Rows
  BY Numbers DEF Native!Rows, Native!SeqOf
<1>3. QED
  BY <1>1, <1>2

LEMMA PrefixReflexive ==
    ASSUME NEW s \in Seq(Client)
    PROVE  Native!IsPrefix(s, s)
  BY DEF Native!IsPrefix

LEMMA PrefixTransitive ==
    ASSUME NEW s \in Seq(Client), NEW t \in Seq(Client), NEW u \in Seq(Client),
           Native!IsPrefix(s, t), Native!IsPrefix(t, u)
    PROVE  Native!IsPrefix(s, u)
<1>1. Len(s) <= Len(t) /\ Len(t) <= Len(u)
  BY DEF Native!IsPrefix
<1>2. \A i \in 1 .. Len(s) : s[i] = t[i]
  BY <1>1 DEF Native!IsPrefix
<1>3. QED
  BY <1>1, <1>2 DEF Native!IsPrefix

LEMMA PrefixAppended ==
    ASSUME NEW s \in Seq(Client), NEW t \in Seq(Client), NEW c \in Client,
           Native!IsPrefix(s, t)
    PROVE  Native!IsPrefix(s, t \o <<c>>)
  BY DEF Native!IsPrefix

Imports ==
    [at : {"idle", "claimed", "ready", "staged", "replaced", "done"},
     gen : 0 .. MaxClaims, chosen : Native!Rows, was : Native!Rows,
     seen : SUBSET Native!Exports]

LEMMA NativeTypes ==
    Native!TypeOK <=>
        /\ v1 \in [Client -> Native!Rows]
        /\ v2 \in [Client -> [Client -> Native!Exports]]
        /\ v3 \in [Client -> Native!Exports]
        /\ v4 \in SUBSET Client /\ v5 \in SUBSET Client
        /\ v6 \in [number : 0 .. MaxClaims, of : Client]
        /\ v7 \in [Client -> Imports]
        /\ v8 \in 0 .. MaxCuts
  BY DEF Native!TypeOK, Imports

\* ContinuesAll and ImportHolds of a record, a file and an Agent that runs or not.
Sees(r, history) == \A h \in r.seen : h # Torn /\ Native!IsPrefix(h, history)

Good(r, history, runs) ==
    /\ r.at = "done" => Sees(r, history)
    /\ r.at \in {"ready", "staged"} => history = r.was /\ Native!IsPrefix(r.was, r.chosen)
    /\ r.at = "replaced" => history = r.chosen
    /\ r.at \in {"ready", "staged", "replaced"} => ~runs /\ Sees(r, r.chosen)

LEMMA NativeGood ==
    Native!ImportInv <=>
        Native!TypeOK /\ \A c \in Client : Good(v7[c], v1[c], c \in v5)
  BY DEF Native!ImportInv, Native!ContinuesAll, Native!ImportHolds, Native!SeenIn, Good, Sees

LEMMA ShortRows == <<>> \in Native!Rows /\ \A c \in Client : <<c>> \in Native!Rows
<1>1. <<>> \in Seq(Client) /\ Len(<<>>) = 0
  OBVIOUS
<1>2. ASSUME NEW c \in Client PROVE <<c>> \in Seq(Client) /\ Len(<<c>>) = 1
  OBVIOUS
<1>3. <<>> \in Native!Rows
  <2>1. Len(<<>>) <= MaxRows
    BY <1>1, Numbers
  <2>2. QED
    BY <1>1, <2>1, RowsAreSequences
<1>4. ASSUME NEW c \in Client PROVE <<c>> \in Native!Rows
  <2>1. Len(<<c>>) <= MaxRows
    BY <1>2, Numbers
  <2>2. QED
    BY <1>2, <2>1, RowsAreSequences
<1>5. QED
  BY <1>3, <1>4

\* The record of an import that has begun.
Claimed(g) == [Native!Idle EXCEPT !.at = "claimed", !.gen = g]

LEMMA NativeIdle ==
    /\ Native!Idle \in Imports /\ Native!Idle.at = "idle"
    /\ \A g \in 0 .. MaxClaims : Claimed(g) \in Imports /\ Claimed(g).at = "claimed"
<1>1. 0 \in 0 .. MaxClaims
  BY Numbers
<1>2. Native!Idle \in Imports /\ Native!Idle.at = "idle"
  BY <1>1, ShortRows DEF Native!Idle, Imports
<1>3. ASSUME NEW g \in 0 .. MaxClaims PROVE Claimed(g) \in Imports /\ Claimed(g).at = "claimed"
  BY <1>2 DEF Claimed, Imports
<1>4. QED
  BY <1>2, <1>3

LEMMA NativeInitial ==
    ASSUME Native!Init
    PROVE  Native!ImportInv
<1>1. PICK c \in Client :
        /\ v1 = [d \in Client |-> IF d = c THEN <<c>> ELSE Native!None]
        /\ v2 = [d \in Client |-> [s \in Client |-> Native!None]]
        /\ v3 = [d \in Client |-> Native!None]
        /\ v4 = {} /\ v5 = {c} /\ v6 = [number |-> 1, of |-> c]
        /\ v7 = [d \in Client |-> Native!Idle] /\ v8 = 0
  BY DEF Native!Init
<1>2. <<c>> \in Native!Rows /\ Native!None \in Native!Rows /\ Native!None \in Native!Exports
  BY ShortRows DEF Native!None, Native!Exports
<1>3. v1 \in [Client -> Native!Rows]
  BY <1>1, <1>2
<1>4. v2 \in [Client -> [Client -> Native!Exports]] /\ v3 \in [Client -> Native!Exports]
  BY <1>1, <1>2
<1>5. 1 \in 0 .. MaxClaims /\ v8 \in 0 .. MaxCuts
  BY <1>1, Numbers
<1>6. v6 \in [number : 0 .. MaxClaims, of : Client]
  BY <1>1, <1>5
<1>7. v7 \in [Client -> Imports] /\ \A d \in Client : v7[d].at = "idle"
  BY <1>1, NativeIdle
<1>8. Native!TypeOK
  BY <1>1, <1>3, <1>4, <1>5, <1>6, <1>7, NativeTypes
<1>9. QED
  BY <1>7, <1>8, NativeGood DEF Good

\* The steps of the scripts.
CarrySteps(c) ==
    \/ Native!Park(c) \/ Native!Export(c) \/ Native!UploadPointer(c)
    \/ Native!UploadRevision(c) \/ Native!BreakOff(c)
    \/ \E s \in Client : Native!Download(c, s)

LEMMA NativeCarries ==
    ASSUME Native!TypeOK, NEW c \in Client, CarrySteps(c)
    PROVE  /\ Native!TypeOK' /\ UNCHANGED <<v1, v6, v7>> /\ v5' \subseteq v5
<1>1. UNCHANGED <<v1, v6, v7>> /\ v5' \subseteq v5
  BY DEF CarrySteps, Native!Park, Native!Export, Native!UploadPointer, Native!UploadRevision,
       Native!BreakOff, Native!Download
<1>2. /\ v1[c] \in Native!Exports /\ v2[c][c] \in Native!Exports
      /\ Torn \in Native!Exports /\ \A s \in Client : v3[s] \in Native!Exports
  BY NativeTypes DEF Native!Exports
<1>3. v2' \in [Client -> [Client -> Native!Exports]]
  BY <1>2, NativeTypes DEF CarrySteps, Native!Park, Native!Export, Native!UploadPointer,
       Native!UploadRevision, Native!BreakOff, Native!Download
<1>4. v3' \in [Client -> Native!Exports]
  BY <1>2, NativeTypes DEF CarrySteps, Native!Park, Native!Export, Native!UploadPointer,
       Native!UploadRevision, Native!BreakOff, Native!Download
<1>5. v4' \in SUBSET Client
  BY NativeTypes DEF CarrySteps, Native!Park, Native!Export, Native!UploadPointer,
       Native!UploadRevision, Native!BreakOff, Native!Download
<1>6. v8' = v8 \/ (v8 < MaxCuts /\ v8' = v8 + 1)
  BY DEF CarrySteps, Native!Park, Native!Export, Native!UploadPointer,
       Native!UploadRevision, Native!BreakOff, Native!Download
<1>7. v8' \in 0 .. MaxCuts
  BY <1>6, Numbers, NativeTypes
<1>8. QED
  BY <1>1, <1>3, <1>4, <1>5, <1>7, NativeTypes DEF Native!TypeOK, Imports

\* The import of c becomes next, and its file history.
Turns(c, next, history) ==
    /\ next \in Imports /\ v7' = [v7 EXCEPT ![c] = next]
    /\ history \in Native!Rows /\ v1' = [v1 EXCEPT ![c] = history]
    /\ Good(next, history, c \in v5')
    /\ \/ Native!IsPrefix(v1[c], history)
       \/ v7[c].at = "replaced" /\ history = v7[c].was

\* What the lemmas on the single steps begin with.
LEMMA NativeFacts ==
    ASSUME Native!ImportInv, NEW c \in Client
    PROVE  /\ v1[c] \in Native!Rows /\ v1[c] \in Seq(Client)
           /\ v1 = [v1 EXCEPT ![c] = v1[c]] /\ v7 = [v7 EXCEPT ![c] = v7[c]]
           /\ v7[c] \in Imports /\ Good(v7[c], v1[c], c \in v5)
           /\ v7[c].chosen \in Native!Rows /\ v7[c].chosen \in Seq(Client)
           /\ v7[c].was \in Native!Rows
           /\ Native!IsPrefix(v1[c], v1[c])
           /\ \A h \in v7[c].seen : h # Torn => h \in Seq(Client)
           /\ \A h \in Native!Found(c) : h # Torn => h \in Native!Rows /\ h \in Seq(Client)
           /\ Native!Found(c) \subseteq Native!Exports
<1>1. /\ v1 \in [Client -> Native!Rows] /\ v7 \in [Client -> Imports]
      /\ v2 \in [Client -> [Client -> Native!Exports]]
      /\ Good(v7[c], v1[c], c \in v5)
  BY NativeGood, NativeTypes
<1>2. /\ v1[c] \in Native!Rows /\ v7[c] \in Imports
      /\ v1 = [v1 EXCEPT ![c] = v1[c]] /\ v7 = [v7 EXCEPT ![c] = v7[c]]
  BY <1>1
<1>3. /\ v7[c].chosen \in Native!Rows /\ v7[c].was \in Native!Rows
      /\ v7[c].seen \subseteq Native!Exports
  BY <1>2 DEF Imports
<1>4. Native!Found(c) \subseteq Native!Exports
  BY <1>1 DEF Native!Found
<1>5. \A h \in Native!Exports : h # Torn => h \in Native!Rows
  BY DEF Native!Exports
<1>6. QED
  BY <1>1, <1>2, <1>3, <1>4, <1>5, RowsAreSequences, PrefixReflexive

LEMMA NativeAdd ==
    ASSUME Native!ImportInv, NEW c \in Client, Native!Add(c)
    PROVE  Turns(c, v7[c], v1[c] \o <<c>>)
<1> DEFINE longer == v1[c] \o <<c>>
<1>1. v1[c] \in Seq(Client) /\ Len(v1[c]) < MaxRows
  BY NativeFacts DEF Native!Add
<1>2. longer \in Seq(Client) /\ Len(longer) = Len(v1[c]) + 1
  BY <1>1
<1>3. Len(longer) <= MaxRows
  BY <1>1, <1>2, Numbers
<1>4. longer \in Native!Rows
  BY <1>2, <1>3, RowsAreSequences
<1>5. v1' = [v1 EXCEPT ![c] = longer] /\ UNCHANGED <<v5, v7>> /\ c \in v5
  BY NativeTypes DEF Native!Add, Native!ImportInv
<1>6. Native!IsPrefix(v1[c], longer)
  BY <1>1, PrefixAppended, PrefixReflexive
<1>7. Good(v7[c], v1[c], TRUE)
  BY <1>5, NativeFacts DEF Good
<1>8. ASSUME v7[c].at = "done" PROVE Sees(v7[c], longer)
  <2>1. Sees(v7[c], v1[c])
    BY <1>7, <1>8 DEF Good
  <2>2. SUFFICES ASSUME NEW h \in v7[c].seen PROVE h # Torn /\ Native!IsPrefix(h, longer)
    BY DEF Sees
  <2>3. h # Torn /\ Native!IsPrefix(h, v1[c])
    BY <2>1 DEF Sees
  <2>4. h \in Seq(Client)
    BY <2>3, NativeFacts
  <2>5. QED
    BY <1>1, <2>3, <2>4, PrefixAppended
<1>9. Good(v7[c], longer, c \in v5')
  BY <1>5, <1>7, <1>8 DEF Good
<1>10. QED
  BY <1>4, <1>5, <1>6, <1>9, NativeFacts DEF Turns

\* An import that decides has seen what is on disk.
LEMMA NativeDecides ==
    ASSUME Native!ImportInv, NEW c \in Client, Native!Readable(c),
           NEW h \in Native!Winners(Native!Found(c))
    PROVE  /\ h \in Native!Found(c) /\ h \in Native!Rows /\ h \in Seq(Client)
           /\ \A g \in Native!Found(c) : g # Torn /\ g \in Seq(Client) /\ Native!IsPrefix(g, h)
  BY NativeFacts DEF Native!Winners, Native!Readable

LEMMA NativeKeepLocal ==
    ASSUME Native!ImportInv, NEW c \in Client, Native!KeepLocal(c)
    PROVE  \E next \in Imports : Turns(c, next, v1[c])
<1> DEFINE next == [v7[c] EXCEPT !.at = "done", !.seen = Native!Found(c)]
<1>1. v7' = [v7 EXCEPT ![c] = next] /\ v1' = v1
  BY NativeTypes DEF Native!KeepLocal, Native!ImportInv
<1>2. next \in Imports /\ next.at = "done" /\ next.seen = Native!Found(c)
  BY NativeFacts DEF Imports
<1> HIDE DEF next
<1>3. Sees(next, v1[c])
  <2>1. SUFFICES ASSUME NEW g \in Native!Found(c) PROVE g # Torn /\ Native!IsPrefix(g, v1[c])
    BY <1>2 DEF Sees
  <2>2. Native!Readable(c)
    BY DEF Native!KeepLocal
  <2>3. PICK h \in Native!Winners(Native!Found(c)) : Native!IsPrefix(h, v1[c])
    BY <2>1 DEF Native!KeepLocal
  <2>4. h \in Seq(Client) /\ g # Torn /\ g \in Seq(Client) /\ Native!IsPrefix(g, h)
    BY <2>2, NativeDecides
  <2>5. QED
    BY <2>3, <2>4, NativeFacts, PrefixTransitive
<1>4. Good(next, v1[c], c \in v5')
  BY <1>2, <1>3 DEF Good
<1>5. QED
  BY <1>1, <1>2, <1>4, NativeFacts DEF Turns

LEMMA NativeChoose ==
    ASSUME Native!ImportInv, NEW c \in Client, Native!Choose(c)
    PROVE  \E next \in Imports : Turns(c, next, v1[c])
<1>1. PICK h \in Native!Winners(Native!Found(c)) :
          /\ Native!IsStrictPrefix(v1[c], h)
          /\ v7' = [v7 EXCEPT ![c].at = "ready", ![c].chosen = h,
                              ![c].was = v1[c], ![c].seen = Native!Found(c)]
  BY DEF Native!Choose
<1> DEFINE next == [v7[c] EXCEPT !.at = "ready", !.chosen = h, !.was = v1[c],
                                 !.seen = Native!Found(c)]
<1>2. Native!Readable(c) /\ c \notin v5 /\ UNCHANGED <<v1, v5>>
  BY DEF Native!Choose, Native!AgentStopped
<1>3. v7' = [v7 EXCEPT ![c] = next]
  BY <1>1, NativeTypes DEF Native!ImportInv
<1>4. h \in Native!Rows /\ \A g \in Native!Found(c) : g # Torn /\ Native!IsPrefix(g, h)
  BY <1>2, NativeDecides
<1>5. /\ next \in Imports /\ next.at = "ready" /\ next.chosen = h /\ next.was = v1[c]
      /\ next.seen = Native!Found(c)
  BY <1>4, NativeFacts DEF Imports
<1> HIDE DEF next
<1>6. Good(next, v1[c], c \in v5')
  BY <1>1, <1>2, <1>4, <1>5 DEF Good, Sees, Native!IsStrictPrefix
<1>7. QED
  BY <1>2, <1>3, <1>5, <1>6, NativeFacts DEF Turns

\* Between the places of an import.
LEMMA NativeAdvance ==
    ASSUME Native!ImportInv, NEW c \in Client,
           NEW from \in {"ready", "staged", "replaced"}, NEW to \in {"staged", "replaced", "done"},
           Native!Advance(c, from, to)
    PROVE  \E next \in Imports :
              /\ v7' = [v7 EXCEPT ![c] = next] /\ v7[c].at = from
              /\ next.at = to /\ next.chosen = v7[c].chosen
              /\ next.was = v7[c].was /\ next.seen = v7[c].seen
<1> DEFINE next == [v7[c] EXCEPT !.at = to]
<1>1. v7' = [v7 EXCEPT ![c] = next] /\ v7[c].at = from
  BY NativeTypes DEF Native!Advance, Native!ImportInv
<1>2. v7[c] \in Imports
  BY NativeFacts
<1>3. /\ next \in Imports /\ next.at = to /\ next.chosen = v7[c].chosen
      /\ next.was = v7[c].was /\ next.seen = v7[c].seen
  BY <1>2 DEF Imports
<1>4. QED
  BY <1>1, <1>3

LEMMA NativeReplaces ==
    ASSUME Native!ImportInv, NEW c \in Client,
           Native!Stage(c) \/ Native!Replace(c) \/ Native!Finish(c)
    PROVE  \E next \in Imports, history \in Native!Rows : Turns(c, next, history)
<1>0. Good(v7[c], v1[c], c \in v5)
  BY NativeFacts
<1>1. CASE Native!Stage(c)
  <2>1. Native!Advance(c, "ready", "staged") /\ UNCHANGED <<v1, v5>>
    BY <1>1 DEF Native!Stage
  <2>2. PICK next \in Imports :
            /\ v7' = [v7 EXCEPT ![c] = next] /\ v7[c].at = "ready"
            /\ next.at = "staged" /\ next.chosen = v7[c].chosen
            /\ next.was = v7[c].was /\ next.seen = v7[c].seen
    BY <2>1, NativeAdvance
  <2>3. Good(next, v1[c], c \in v5')
    BY <1>0, <2>1, <2>2 DEF Good, Sees
  <2>4. QED
    BY <2>1, <2>2, <2>3, NativeFacts DEF Turns
<1>2. CASE Native!Replace(c)
  <2>1. /\ Native!Advance(c, "staged", "replaced") /\ UNCHANGED v5
        /\ v1' = [v1 EXCEPT ![c] = v7[c].chosen]
    BY <1>2 DEF Native!Replace
  <2>2. PICK next \in Imports :
            /\ v7' = [v7 EXCEPT ![c] = next] /\ v7[c].at = "staged"
            /\ next.at = "replaced" /\ next.chosen = v7[c].chosen
            /\ next.was = v7[c].was /\ next.seen = v7[c].seen
    BY <2>1, NativeAdvance
  <2>3. Good(next, v7[c].chosen, c \in v5')
    BY <1>0, <2>1, <2>2 DEF Good, Sees
  <2>4. Native!IsPrefix(v1[c], v7[c].chosen)
    BY <1>0, <2>2 DEF Good
  <2>5. QED
    BY <2>1, <2>2, <2>3, <2>4, NativeFacts DEF Turns
<1>3. CASE Native!Finish(c)
  <2>1. Native!Advance(c, "replaced", "done") /\ UNCHANGED v1
    BY <1>3 DEF Native!Finish
  <2>2. PICK next \in Imports :
            /\ v7' = [v7 EXCEPT ![c] = next] /\ v7[c].at = "replaced"
            /\ next.at = "done" /\ next.chosen = v7[c].chosen
            /\ next.was = v7[c].was /\ next.seen = v7[c].seen
    BY <2>1, NativeAdvance
  <2>3. Good(next, v1[c], c \in v5')
    BY <1>0, <2>2 DEF Good, Sees
  <2>4. QED
    BY <2>1, <2>2, <2>3, NativeFacts DEF Turns
<1>4. QED
  BY <1>1, <1>2, <1>3

\* An import that begins anew, or ends without having decided.
LEMMA NativeRestarts ==
    ASSUME Native!ImportInv, NEW c \in Client,
           Native!Claim(c) \/ Native!Refuse(c) \/ Native!Overtaken(c) \/ Native!Crash(c)
    PROVE  \E next \in Imports, history \in Native!Rows : Turns(c, next, history)
<1>1. CASE Native!Claim(c)
  <2>1. v6'.number \in 0 .. MaxClaims
    BY <1>1, Numbers, NativeTypes DEF Native!Claim, Native!ImportInv
  <2>2. v7' = [v7 EXCEPT ![c] = Claimed(v6'.number)] /\ UNCHANGED v1
    BY <1>1 DEF Native!Claim, Claimed
  <2>3. Claimed(v6'.number) \in Imports /\ Good(Claimed(v6'.number), v1[c], c \in v5')
    BY <2>1, NativeIdle DEF Good
  <2>4. QED
    BY <2>2, <2>3, NativeFacts DEF Turns
<1>2. CASE Native!Refuse(c) \/ Native!Crash(c)
  <2>1. v7' = [v7 EXCEPT ![c] = Native!Idle] /\ UNCHANGED v1
    BY <1>2 DEF Native!Refuse, Native!Crash, Native!Abandon
  <2>2. Good(Native!Idle, v1[c], c \in v5')
    BY NativeIdle DEF Good
  <2>3. QED
    BY <2>1, <2>2, NativeFacts, NativeIdle DEF Turns
<1>3. CASE Native!Overtaken(c)
  <2>1. v7' = [v7 EXCEPT ![c] = Native!Idle]
    BY <1>3 DEF Native!Overtaken, Native!Abandon
  <2>2. \A history : Good(Native!Idle, history, c \in v5')
    BY NativeIdle DEF Good
  <2>3. CASE v7[c].at = "replaced"
    <3>1. v1' = [v1 EXCEPT ![c] = v7[c].was]
      BY <1>3, <2>3 DEF Native!Overtaken
    <3>2. QED
      BY <2>1, <2>2, <2>3, <3>1, NativeFacts, NativeIdle DEF Turns
  <2>4. CASE v7[c].at # "replaced"
    <3>1. UNCHANGED v1
      BY <1>3, <2>4 DEF Native!Overtaken
    <3>2. QED
      BY <2>1, <2>2, <3>1, NativeFacts, NativeIdle DEF Turns
  <2>5. QED
    BY <2>3, <2>4
<1>4. QED
  BY <1>1, <1>2, <1>3

ImportSteps(c) ==
    \/ Native!Add(c) \/ Native!Claim(c) \/ Native!Refuse(c) \/ Native!KeepLocal(c)
    \/ Native!Choose(c) \/ Native!Stage(c) \/ Native!Replace(c) \/ Native!Finish(c)
    \/ Native!Overtaken(c) \/ Native!Crash(c)

LEMMA NativeTurns ==
    ASSUME Native!ImportInv, NEW c \in Client, ImportSteps(c)
    PROVE  \E next \in Imports, history \in Native!Rows : Turns(c, next, history)
<1>1. CASE Native!Add(c)
  BY <1>1, NativeAdd DEF Turns
<1>2. CASE Native!KeepLocal(c) \/ Native!Choose(c)
  BY <1>2, NativeKeepLocal, NativeChoose, NativeFacts
<1>3. QED
  BY <1>1, <1>2, NativeReplaces, NativeRestarts DEF ImportSteps

LEMMA NativeStep ==
    ASSUME Native!ImportInv, [Native!Next]_(Native!vars)
    PROVE  Native!ImportInv' /\ Native!KeepsRows
<1>0. Native!TypeOK /\ \A c \in Client : Good(v7[c], v1[c], c \in v5)
  BY NativeGood
<1>1. CASE UNCHANGED Native!vars
  <2>1. UNCHANGED <<v1, v2, v3, v4, v5, v6, v7, v8>>
    BY <1>1 DEF Native!vars
  <2>2. Native!TypeOK'
    BY <1>0, <2>1 DEF Native!TypeOK
  <2>3. \A c \in Client : Good(v7'[c], v1'[c], c \in v5')
    BY <1>0, <2>1
  <2>4. Native!KeepsRows
    BY <2>1, NativeFacts DEF Native!KeepsRows
  <2>5. QED
    BY <2>2, <2>3, <2>4 DEF Native!ImportInv, Native!ContinuesAll, Native!ImportHolds,
         Native!SeenIn, Good, Sees
<1>2. CASE \E c \in Client : CarrySteps(c)
  <2>1. Native!TypeOK' /\ UNCHANGED <<v1, v7>> /\ v5' \subseteq v5
    BY <1>0, <1>2, NativeCarries
  <2>2. \A c \in Client : Good(v7'[c], v1'[c], c \in v5')
    BY <1>0, <2>1 DEF Good
  <2>3. Native!KeepsRows
    BY <2>1, NativeFacts DEF Native!KeepsRows
  <2>4. QED
    BY <2>1, <2>2, <2>3 DEF Native!ImportInv, Native!ContinuesAll, Native!ImportHolds,
         Native!SeenIn, Good, Sees
<1>3. CASE \E c \in Client : ImportSteps(c)
  <2>1. PICK c \in Client : ImportSteps(c)
    BY <1>3
  <2>2. PICK next \in Imports, history \in Native!Rows : Turns(c, next, history)
    BY <2>1, NativeTurns
  <2>3. v1 \in [Client -> Native!Rows] /\ v7 \in [Client -> Imports]
    BY <1>0, NativeTypes
  <2>4. /\ v1' = [v1 EXCEPT ![c] = history] /\ v7' = [v7 EXCEPT ![c] = next]
        /\ Good(next, history, c \in v5')
        /\ \/ Native!IsPrefix(v1[c], history)
           \/ v7[c].at = "replaced" /\ history = v7[c].was
    BY <2>2 DEF Turns
  <2>5. v1' \in [Client -> Native!Rows] /\ v7' \in [Client -> Imports]
    BY <2>2, <2>3, <2>4
  <2>6. UNCHANGED <<v2, v3, v4, v8>> /\ v5' \in {v5, v5 \cup {c}}
    BY <2>1 DEF ImportSteps, Native!Add, Native!Claim, Native!Refuse, Native!KeepLocal,
         Native!Choose, Native!Stage, Native!Replace, Native!Finish, Native!Overtaken,
         Native!Crash
  <2>7. v6' \in [number : 0 .. MaxClaims, of : Client]
    <3>1. v6 \in [number : 0 .. MaxClaims, of : Client]
      BY <1>0, NativeTypes
    <3>2. CASE Native!Claim(c)
      BY <3>1, <3>2, Numbers DEF Native!Claim
    <3>3. CASE ~Native!Claim(c)
      BY <2>1, <3>1, <3>3 DEF ImportSteps, Native!Add, Native!Refuse, Native!KeepLocal,
           Native!Choose, Native!Stage, Native!Replace, Native!Finish, Native!Overtaken,
           Native!Crash
    <3>4. QED
      BY <3>2, <3>3
  <2>8. Native!TypeOK'
    BY <1>0, <2>5, <2>6, <2>7, NativeTypes DEF Native!TypeOK, Imports
  <2>9. ASSUME NEW d \in Client PROVE Good(v7'[d], v1'[d], d \in v5')
    <3>1. CASE d = c
      BY <2>3, <2>4, <3>1
    <3>2. CASE d # c
      BY <1>0, <2>3, <2>4, <2>6, <3>2
    <3>3. QED
      BY <3>1, <3>2
  <2>10. ASSUME NEW d \in Client
         PROVE  \/ Native!IsPrefix(v1[d], v1'[d])
                \/ v7[d].at = "replaced" /\ v1'[d] = v7[d].was
    <3>1. CASE d = c
      BY <2>3, <2>4, <3>1
    <3>2. CASE d # c
      BY <2>3, <2>4, <3>2, NativeFacts
    <3>3. QED
      BY <3>1, <3>2
  <2>11. QED
    BY <2>8, <2>9, <2>10 DEF Native!ImportInv, Native!ContinuesAll, Native!ImportHolds,
         Native!SeenIn, Native!KeepsRows, Good, Sees
<1>4. QED
  BY <1>1, <1>2, <1>3 DEF Native!Next, CarrySteps, ImportSteps

-----------------------------------------------------------------------------
(* Takeover.                                                                 *)

Probes == [at : Take!Places, lease : Take!Leases, writers : [Take!Side -> Take!Statuses]]
Caches == [fresh : BOOLEAN, lease : Take!Leases, action : Take!Actions]
Resumes == [at : {"idle", "handoff", "resume", "refused", "held"}, shown : Take!Actions]

LEMMA TakeTypes ==
    Take!TypeOK <=>
        /\ v1 \in {Me, Other, NoOne}
        /\ v2 \in SUBSET Take!Side /\ v3 \in SUBSET Take!Side
        /\ v4 \in [Take!Side -> Take!Kinds]
        /\ v5 \in [{"tick", "resume"} -> Probes]
        /\ v6 \in Caches /\ v7 \in Resumes
        /\ v8 \in SUBSET {"tick", "cache", "shown"}
        /\ v9 \in 0 .. MaxChange
  BY DEF Take!TypeOK, Probes, Caches, Resumes

LEMMA TakeDecisions ==
    /\ \A h : Take!LeaseOf(h) \in Take!Leases
    /\ \A s : Take!WriterOf(s) \in Take!Statuses
    /\ \A facts : Take!Verdict(facts) \in Take!Actions
    /\ Take!CachedPlan \in Take!Actions \cup {v6.action}
  BY DEF Take!LeaseOf, Take!Leases, Take!WriterOf, Take!Statuses, Take!Verdict, Take!Actions,
       Take!Decided, Take!CachedPlan, Take!Plan

LEMMA TakeNothing ==
    /\ Take!Nothing \in Probes /\ Take!Nothing.at = "start"
    /\ \A lease \in Take!Leases :
          LET read == [Take!Nothing EXCEPT !.at = "lease", !.lease = lease] IN
          read \in Probes /\ read.at = "lease" /\ read.lease = lease
<1>1. Take!Nothing \in Probes /\ Take!Nothing.at = "start"
  BY DEF Take!Nothing, Probes, Take!Places, Take!Leases, Take!Statuses
<1>2. QED
  BY <1>1 DEF Probes, Take!Places

\* A probe that has found things as they are decides as they are.
LEMMA TakeVerdicts ==
    ASSUME NEW facts, facts.lease = Take!LeaseOf(v1),
           \A s \in Take!Side : facts.writers[s] = Take!WriterOf(s)
    PROVE  Take!Verdict(facts) = Take!Verdict(Take!Facts)
<1>1. /\ Take!Facts.lease = facts.lease
      /\ \A s \in Take!Side : Take!Facts.writers[s] = facts.writers[s]
  BY DEF Take!Facts
<1>2. Take!Decided(facts.lease, facts.writers)
        = Take!Decided(Take!Facts.lease, Take!Facts.writers)
  BY <1>1 DEF Take!Decided
<1>3. QED
  BY <1>1, <1>2 DEF Take!Verdict

LEMMA TakeInitial ==
    ASSUME Take!Init
    PROVE  Take!PlanInv
<1>1. v5["tick"] = Take!Nothing /\ v5["resume"] = Take!Nothing
  BY DEF Take!Init
<1>2. v6 \in Caches
  BY DEF Take!Init, Take!NoFacts, Caches, Take!Leases, Take!Actions
<1>3. Take!TypeOK
  <2>1. v5 \in [{"tick", "resume"} -> Probes]
    BY TakeNothing DEF Take!Init
  <2>2. v7 \in Resumes
    BY DEF Take!Init, Resumes, Take!Actions
  <2>3. v9 \in 0 .. MaxChange
    BY Numbers DEF Take!Init
  <2>4. QED
    BY <1>2, <2>1, <2>2, <2>3, TakeTypes DEF Take!Init
<1>4. QED
  BY <1>1, <1>3 DEF Take!PlanInv, Take!Init, Take!TickCurrent, Take!CacheCurrent,
       Take!ProbeAsked, Take!ShownCurrent, Take!PlanHonoured

\* The world changes: nothing that was gathered is current any more.
LEMMA TakeWorld ==
    ASSUME Take!PlanInv, Take!Become, v1' \in {v1, Other, NoOne}, v2' \in SUBSET Take!Side,
           v3' \in SUBSET Take!Side, v4' \in [Take!Side -> Take!Kinds]
    PROVE  Take!PlanInv'
<1>1. UNCHANGED <<v5, v6, v7>> /\ v8' = {} /\ v9 < MaxChange /\ v9' = v9 + 1
  BY DEF Take!Become, Take!Change
<1>2. Take!TypeOK'
  BY <1>1, TakeTypes, Numbers DEF Take!TypeOK, Take!PlanInv, Probes, Caches, Resumes
<1>3. QED
  BY <1>1, <1>2 DEF Take!PlanInv, Take!TickCurrent, Take!CacheCurrent, Take!ProbeAsked,
       Take!ShownCurrent, Take!PlanHonoured

\* A probe goes on while the world stays.
LEMMA TakeProbe ==
    ASSUME Take!PlanInv, NEW w \in {"tick", "resume"}, NEW next \in Probes,
           v5' = [v5 EXCEPT ![w] = next],
           UNCHANGED <<v1, v2, v3, v4, v6, v7>>,
           w = "resume" => v7.at \in {"handoff", "resume"},
           \/ v8' = {} /\ v9 < MaxChange /\ v9' = v9 + 1
           \/ /\ UNCHANGED v9
              /\ v8' = v8 \/ (w = "tick" /\ v8' = v8 \cup {"tick"})
              /\ (IF w = "tick" THEN "tick" ELSE "shown") \in v8' => Take!Matches(w)'
    PROVE  Take!PlanInv'
<1>1. v5 \in [{"tick", "resume"} -> Probes] /\ v9 \in 0 .. MaxChange
  BY TakeTypes DEF Take!PlanInv
<1>2. v5'[w] = next /\ \A u \in {"tick", "resume"} \ {w} : v5'[u] = v5[u]
  BY <1>1
<1>3. Take!TypeOK'
  <2>1. v9' \in 0 .. MaxChange
    BY <1>1, Numbers
  <2>2. v8' \in SUBSET {"tick", "cache", "shown"}
    BY TakeTypes DEF Take!PlanInv
  <2>3. v5' \in [{"tick", "resume"} -> Probes]
    BY <1>1
  <2>4. QED
    BY <2>1, <2>2, <2>3, TakeTypes DEF Take!TypeOK, Take!PlanInv, Probes, Caches, Resumes
<1>4. \A u \in {"tick", "resume"} \ {w} : Take!Matches(u) => Take!Matches(u)'
  BY <1>2 DEF Take!Matches, Take!WriterOf
<1>5. Take!TickCurrent'
  BY <1>4 DEF Take!PlanInv, Take!TickCurrent
<1>6. Take!CacheCurrent'
  BY DEF Take!PlanInv, Take!CacheCurrent, Take!Verdict, Take!Facts, Take!WriterOf,
       Take!Supported, Take!Decided
<1>7. Take!ProbeAsked'
  BY <1>2 DEF Take!PlanInv, Take!ProbeAsked
<1>8. Take!ShownCurrent'
  BY <1>4 DEF Take!PlanInv, Take!ShownCurrent, Take!Verdict, Take!Facts, Take!WriterOf,
       Take!Supported, Take!Decided, Take!Plan, Take!Frozen
<1>9. Take!PlanHonoured'
  BY DEF Take!PlanInv, Take!PlanHonoured
<1>10. QED
  BY <1>3, <1>5, <1>6, <1>7, <1>8, <1>9 DEF Take!PlanInv

\* The holder is read, or a Hub that is silent makes it this Client.
LEMMA TakeReads ==
    ASSUME Take!PlanInv, NEW w \in {"tick", "resume"}, Take!ReadLease(w)
    PROVE  Take!PlanInv'
<1>1. UNCHANGED <<v1, v2, v3, v4, v6, v7>> /\ (w = "resume" => v7.at \in {"handoff", "resume"})
  BY DEF Take!ReadLease, Take!world
<1>2. PICK lease \in Take!Leases :
        /\ v5' = Take!Lease(w, lease)
        /\ \/ /\ lease = Take!LeaseOf(v1) /\ UNCHANGED v9
              /\ v8' = IF w = "tick" THEN v8 \cup {"tick"} ELSE v8
           \/ v8' = {} /\ v9 < MaxChange /\ v9' = v9 + 1
  BY TakeDecisions DEF Take!ReadLease, Take!Change, Take!Leases
<1> DEFINE read == [Take!Nothing EXCEPT !.at = "lease", !.lease = lease]
<1>3. read \in Probes /\ read.at = "lease" /\ read.lease = lease
  BY TakeNothing
<1>4. v5' = [v5 EXCEPT ![w] = read]
  BY <1>2 DEF Take!Lease
<1> HIDE DEF read
<1>5. v5'[w] = read
  BY <1>4, TakeTypes DEF Take!PlanInv
<1>6. CASE lease = Take!LeaseOf(v1) /\ UNCHANGED v9
           /\ v8' = IF w = "tick" THEN v8 \cup {"tick"} ELSE v8
  <2>1. Take!Matches(w)'
    BY <1>1, <1>3, <1>5, <1>6 DEF Take!Matches, Take!LeaseOf
  <2>2. v8' = v8 \/ (w = "tick" /\ v8' = v8 \cup {"tick"})
    BY <1>6
  <2>3. QED
    BY <1>1, <1>3, <1>4, <1>6, <2>1, <2>2, TakeProbe
<1>7. CASE v8' = {} /\ v9 < MaxChange /\ v9' = v9 + 1
  BY <1>1, <1>3, <1>4, <1>7, TakeProbe
<1>8. QED
  BY <1>2, <1>6, <1>7

\* A side is counted, or its machine does not answer.
LEMMA TakeCounts ==
    ASSUME Take!PlanInv, NEW w \in {"tick", "resume"}, Take!ProbeSide(w)
    PROVE  Take!PlanInv'
<1>1. UNCHANGED <<v1, v2, v3, v4, v6, v7>>
  BY DEF Take!ProbeSide, Take!world
<1>2. PICK s \in Take!Side :
        /\ v5[w].at = (IF s = "trigger" THEN "lease" ELSE "trigger")
        /\ \/ /\ v5' = [v5 EXCEPT ![w].at = s, ![w].writers[s] = Take!WriterOf(s)]
              /\ UNCHANGED <<v8, v9>>
           \/ /\ v8' = {} /\ v9 < MaxChange /\ v9' = v9 + 1
              /\ v5' = [v5 EXCEPT ![w].at = s]
  BY DEF Take!ProbeSide, Take!Change
<1>3. v5 \in [{"tick", "resume"} -> Probes] /\ v5[w] \in Probes
  BY TakeTypes DEF Take!PlanInv
<1>4. w = "resume" => v7.at \in {"handoff", "resume"}
  BY <1>2, TakeNothing DEF Take!PlanInv, Take!ProbeAsked
<1>5. CASE /\ v5' = [v5 EXCEPT ![w].at = s, ![w].writers[s] = Take!WriterOf(s)]
           /\ UNCHANGED <<v8, v9>>
  <2>1. /\ v5' = [v5 EXCEPT ![w] = v5'[w]] /\ v5'[w] \in Probes
        /\ v5'[w].at = s /\ v5'[w].lease = v5[w].lease
        /\ \A t \in Take!Side : v5'[w].writers[t] =
              IF t = s THEN Take!WriterOf(s) ELSE v5[w].writers[t]
    BY <1>3, <1>5, TakeDecisions DEF Probes, Take!Places, Take!Side
  <2>2. \A t \in Take!Side : UNCHANGED Take!WriterOf(t)
    BY <1>1 DEF Take!WriterOf
  <2>3. Take!Matches(w) => Take!Matches(w)'
    BY <1>1, <1>2, <2>1, <2>2 DEF Take!Matches, Take!LeaseOf, Take!Side
  <2>4. (IF w = "tick" THEN "tick" ELSE "shown") \in v8 => Take!Matches(w)
    BY <1>4 DEF Take!PlanInv, Take!TickCurrent, Take!ShownCurrent
  <2>5. QED
    BY <1>1, <1>4, <1>5, <2>1, <2>3, <2>4, TakeProbe
<1>6. CASE /\ v8' = {} /\ v9 < MaxChange /\ v9' = v9 + 1
           /\ v5' = [v5 EXCEPT ![w].at = s]
  <2>1. v5' = [v5 EXCEPT ![w] = v5'[w]] /\ v5'[w] \in Probes
    BY <1>3, <1>6 DEF Probes, Take!Places, Take!Side
  <2>2. QED
    BY <1>1, <1>4, <1>6, <2>1, TakeProbe
<1>7. QED
  BY <1>2, <1>5, <1>6

\* What the cache holds was gathered from the world as it is, if its facts were.
LEMMA TakeWrites ==
    ASSUME Take!PlanInv, Take!WriteCache
    PROVE  Take!PlanInv'
<1>1. /\ UNCHANGED <<v1, v2, v3, v4, v7, v9>> /\ v5["tick"].at = "bullet"
      /\ v6' = [fresh |-> TRUE, lease |-> v5["tick"].lease, action |-> Take!Verdict(v5["tick"])]
      /\ v8' = (v8 \ {"cache"}) \cup {x \in {"cache"} : "tick" \in v8}
      /\ v5' = [v5 EXCEPT !["tick"] = Take!Nothing]
  BY DEF Take!WriteCache, Take!world
<1>2. v5 \in [{"tick", "resume"} -> Probes] /\ v5["tick"] \in Probes
  BY TakeTypes DEF Take!PlanInv
<1>3. v5'["tick"] = Take!Nothing /\ v5'["resume"] = v5["resume"]
  BY <1>1, <1>2
<1>4. Take!TypeOK'
  <2>1. v6' \in Caches
    BY <1>1, <1>2, TakeDecisions DEF Caches, Probes
  <2>2. v5' \in [{"tick", "resume"} -> Probes]
    BY <1>1, <1>2, TakeNothing
  <2>3. v8' \in SUBSET {"tick", "cache", "shown"}
    BY <1>1, TakeTypes DEF Take!PlanInv
  <2>4. QED
    BY <1>1, <2>1, <2>2, <2>3, TakeTypes DEF Take!TypeOK, Take!PlanInv, Probes, Caches, Resumes
<1>5. "tick" \in v8 => Take!Matches("tick")
  BY DEF Take!PlanInv, Take!TickCurrent
<1>6. Take!CacheCurrent'
  <2>1. SUFFICES ASSUME "tick" \in v8
                 PROVE  v6'.lease = Take!LeaseOf(v1) /\ v6'.action = Take!Verdict(Take!Facts)
    BY <1>1 DEF Take!CacheCurrent, Take!Verdict, Take!Facts, Take!WriterOf, Take!Supported,
         Take!Decided, Take!LeaseOf
  <2>2. /\ v5["tick"].lease = Take!LeaseOf(v1)
        /\ \A s \in Take!Side : v5["tick"].writers[s] = Take!WriterOf(s)
    BY <1>1, <1>5, <2>1 DEF Take!Matches, Take!Side
  <2>3. QED
    BY <1>1, <2>2, TakeVerdicts
<1>7. Take!TickCurrent'
  BY <1>3, TakeNothing DEF Take!TickCurrent, Take!Matches
<1>8. Take!ProbeAsked'
  BY <1>1, <1>3 DEF Take!PlanInv, Take!ProbeAsked
<1>9. Take!ShownCurrent'
  BY <1>1, <1>3 DEF Take!PlanInv, Take!ShownCurrent, Take!Matches, Take!Verdict, Take!Facts,
     Take!WriterOf, Take!Supported, Take!Decided, Take!Plan, Take!Frozen, Take!LeaseOf
<1>10. Take!PlanHonoured'
  BY <1>1 DEF Take!PlanInv, Take!PlanHonoured
<1>11. QED
  BY <1>4, <1>6, <1>7, <1>8, <1>9, <1>10 DEF Take!PlanInv

LEMMA TakeAges ==
    ASSUME Take!PlanInv, Take!Age
    PROVE  Take!PlanInv'
<1>1. /\ UNCHANGED <<v1, v2, v3, v4, v5, v7, v8, v9>>
      /\ v6' = [v6 EXCEPT !.fresh = FALSE]
  BY DEF Take!Age, Take!world
<1>2. v6' \in Caches /\ v6'.lease = v6.lease /\ v6'.action = v6.action
  BY <1>1, TakeTypes DEF Take!PlanInv, Caches
<1>3. Take!TypeOK'
  BY <1>1, <1>2, TakeTypes DEF Take!TypeOK, Take!PlanInv, Probes, Caches, Resumes
<1>4. QED
  BY <1>1, <1>2, <1>3 DEF Take!PlanInv, Take!TickCurrent, Take!CacheCurrent, Take!ProbeAsked,
     Take!ShownCurrent, Take!PlanHonoured, Take!Matches, Take!Verdict, Take!Facts,
     Take!WriterOf, Take!Supported, Take!Decided, Take!Plan, Take!Frozen, Take!LeaseOf

\* A plan that is shown from current facts is what those facts decide, or a
\* take-over from the foreign holder they name.
LEMMA TakeAsks ==
    ASSUME Take!PlanInv, Take!Ask
    PROVE  Take!PlanInv'
<1>1. /\ UNCHANGED <<v1, v2, v3, v4, v5, v6, v9>> /\ v7.at \in {"idle", "refused", "held"}
      /\ v8' = (v8 \ {"shown"}) \cup {x \in {"shown"} : "cache" \in v8}
  BY DEF Take!Ask, Take!world
<1>2. PICK how \in {"handoff", "resume"} : v7' = [at |-> how, shown |-> Take!CachedPlan]
  BY DEF Take!Ask
<1>3. v6.action \in Take!Actions
  BY TakeTypes DEF Take!PlanInv, Caches
<1>4. Take!TypeOK'
  <2>1. v7' \in Resumes
    BY <1>2, <1>3, TakeDecisions DEF Resumes
  <2>2. v8' \in SUBSET {"tick", "cache", "shown"}
    BY <1>1, TakeTypes DEF Take!PlanInv
  <2>3. QED
    BY <1>1, <2>1, <2>2, TakeTypes DEF Take!TypeOK, Take!PlanInv, Probes, Caches, Resumes
<1>5. v5["resume"] = Take!Nothing
  BY <1>1 DEF Take!PlanInv, Take!ProbeAsked
<1>6. Take!Matches("resume")'
  BY <1>1, <1>5, TakeNothing DEF Take!Matches
<1>7. "cache" \in v8 /\ Take!CachedPlan # "stop" =>
        Take!LeaseOf(v1) = "foreign" \/ Take!Plan(Take!Verdict(Take!Facts)) # "stop"
  BY DEF Take!PlanInv, Take!CacheCurrent, Take!CachedPlan
<1>8. Take!ShownCurrent'
  <2>1. UNCHANGED <<Take!LeaseOf(v1), Take!Plan(Take!Verdict(Take!Facts))>>
    BY <1>1 DEF Take!Verdict, Take!Facts, Take!WriterOf, Take!Supported, Take!Decided,
       Take!Plan, Take!Frozen, Take!LeaseOf
  <2>2. QED
    BY <1>1, <1>2, <1>6, <1>7, <2>1 DEF Take!ShownCurrent
<1>9. Take!TickCurrent' /\ Take!CacheCurrent'
  BY <1>1 DEF Take!PlanInv, Take!TickCurrent, Take!CacheCurrent, Take!Matches, Take!Verdict,
     Take!Facts, Take!WriterOf, Take!Supported, Take!Decided, Take!LeaseOf
<1>10. Take!ProbeAsked' /\ Take!PlanHonoured'
  BY <1>1, <1>2, <1>5 DEF Take!ProbeAsked, Take!PlanHonoured
<1>11. QED
  BY <1>4, <1>8, <1>9, <1>10 DEF Take!PlanInv

\* A command that was shown a plan as possible and finds things as they are is
\* refused only for a side without a session, or one that cannot be carried.
LEMMA TakeRefuses ==
    ASSUME Take!PlanInv, Take!Refuse
    PROVE  Take!PlanInv'
<1>1. /\ UNCHANGED <<v1, v2, v3, v4, v6, v8, v9>> /\ v5["resume"].at = "bullet"
      /\ Take!Plan(Take!Verdict(v5["resume"])) = "stop"
      /\ v7' = [v7 EXCEPT !.at = "refused"]
      /\ v5' = [v5 EXCEPT !["resume"] = Take!Nothing]
  BY DEF Take!Refuse, Take!world
<1>2. /\ v5 \in [{"tick", "resume"} -> Probes] /\ v7 \in Resumes
  BY TakeTypes DEF Take!PlanInv
<1>3. /\ v5'["resume"] = Take!Nothing /\ v5'["tick"] = v5["tick"]
      /\ v7'.at = "refused" /\ v7'.shown = v7.shown
  BY <1>1, <1>2 DEF Resumes
<1>4. Take!TypeOK'
  <2>1. v7' \in Resumes
    BY <1>1, <1>2 DEF Resumes
  <2>2. v5' \in [{"tick", "resume"} -> Probes]
    BY <1>1, <1>2, TakeNothing
  <2>3. QED
    BY <1>1, <2>1, <2>2, TakeTypes DEF Take!TypeOK, Take!PlanInv, Probes, Caches, Resumes
<1>5. Take!PlanHonoured'
  <2>1. SUFFICES ASSUME v7.shown # "stop", "shown" \in v8
                 PROVE  \E s \in Take!Side : v4[s] \in {"unbound", "other"}
    BY <1>1, <1>3 DEF Take!PlanHonoured
  <2>2. v7.at \in {"handoff", "resume"}
    BY <1>1, TakeNothing DEF Take!PlanInv, Take!ProbeAsked
  <2>3. /\ Take!Matches("resume")
        /\ Take!LeaseOf(v1) = "foreign" \/ Take!Plan(Take!Verdict(Take!Facts)) # "stop"
    BY <2>1, <2>2 DEF Take!PlanInv, Take!ShownCurrent
  <2>4. /\ v5["resume"].lease = Take!LeaseOf(v1)
        /\ \A s \in Take!Side : v5["resume"].writers[s] = Take!WriterOf(s)
    BY <1>1, <2>3 DEF Take!Matches, Take!Side
  <2>5. Take!Verdict(v5["resume"]) = Take!Verdict(Take!Facts)
    BY <2>4, TakeVerdicts
  <2>6. v5["resume"].lease = "foreign"
    BY <1>1, <2>3, <2>4, <2>5
  <2>7. CASE Take!Frozen
    <3>1. Take!Verdict(v5["resume"]) = "stop"
      BY <1>1, <2>7 DEF Take!Plan
    <3>2. QED
      BY <2>6, <3>1 DEF Take!Verdict, Take!Supported
  <2>8. CASE ~Take!Frozen
    BY <2>8 DEF Take!Frozen
  <2>9. QED
    BY <2>7, <2>8
<1>6. Take!TickCurrent' /\ Take!CacheCurrent'
  BY <1>1, <1>3 DEF Take!PlanInv, Take!TickCurrent, Take!CacheCurrent, Take!Matches,
     Take!Verdict, Take!Facts, Take!WriterOf, Take!Supported, Take!Decided, Take!LeaseOf
<1>7. Take!ProbeAsked' /\ Take!ShownCurrent'
  BY <1>3 DEF Take!ProbeAsked, Take!ShownCurrent
<1>8. QED
  BY <1>4, <1>5, <1>6, <1>7 DEF Take!PlanInv

LEMMA TakeProceeds ==
    ASSUME Take!PlanInv, Take!Proceed
    PROVE  Take!PlanInv'
<1>1. /\ UNCHANGED <<v2, v3, v4, v6, v9>> /\ v5["resume"].at = "bullet"
      /\ v5' = [v5 EXCEPT !["resume"] = Take!Nothing]
      /\ \/ v7' = [v7 EXCEPT !.at = "resume"] /\ UNCHANGED <<v1, v8>>
         \/ v7' = [v7 EXCEPT !.at = "held"] /\ v1' = Me /\ v8' = {}
  BY DEF Take!Proceed
<1>2. /\ v5 \in [{"tick", "resume"} -> Probes] /\ v7 \in Resumes
  BY TakeTypes DEF Take!PlanInv
<1>3. /\ v5'["resume"] = Take!Nothing /\ v5'["tick"] = v5["tick"]
      /\ v7'.at \in {"resume", "held"} /\ v7'.shown = v7.shown
  BY <1>1, <1>2 DEF Resumes
<1>4. Take!TypeOK'
  <2>1. v7' \in Resumes
    BY <1>1, <1>2 DEF Resumes
  <2>2. v5' \in [{"tick", "resume"} -> Probes]
    BY <1>1, <1>2, TakeNothing
  <2>3. v1' \in {Me, Other, NoOne} /\ v8' \in SUBSET {"tick", "cache", "shown"}
    BY <1>1, TakeTypes DEF Take!PlanInv
  <2>4. QED
    BY <1>1, <2>1, <2>2, <2>3, TakeTypes DEF Take!TypeOK, Take!PlanInv, Probes, Caches, Resumes
<1>5. v7.at \in {"handoff", "resume"}
  BY <1>1, TakeNothing DEF Take!PlanInv, Take!ProbeAsked
<1>6. CASE v1' = Me /\ v8' = {}
  BY <1>3, <1>4, <1>6 DEF Take!PlanInv, Take!TickCurrent, Take!CacheCurrent, Take!ProbeAsked,
     Take!ShownCurrent, Take!PlanHonoured
<1>7. CASE UNCHANGED <<v1, v8>>
  <2>1. Take!TickCurrent' /\ Take!CacheCurrent'
    BY <1>1, <1>3, <1>7 DEF Take!PlanInv, Take!TickCurrent, Take!CacheCurrent, Take!Matches,
       Take!Verdict, Take!Facts, Take!WriterOf, Take!Supported, Take!Decided, Take!LeaseOf
  <2>2. Take!Matches("resume")'
    BY <1>3, TakeNothing DEF Take!Matches
  <2>3. UNCHANGED <<Take!LeaseOf(v1), Take!Plan(Take!Verdict(Take!Facts))>>
    BY <1>1, <1>7 DEF Take!Verdict, Take!Facts, Take!WriterOf, Take!Supported, Take!Decided,
       Take!Plan, Take!Frozen, Take!LeaseOf
  <2>4. Take!ShownCurrent'
    BY <1>3, <1>5, <1>7, <2>2, <2>3 DEF Take!PlanInv, Take!ShownCurrent
  <2>5. QED
    BY <1>3, <1>4, <2>1, <2>4 DEF Take!PlanInv, Take!ProbeAsked, Take!PlanHonoured
<1>8. QED
  BY <1>1, <1>6, <1>7

\* No step of the facts, the command or the world disturbs the invariant.
LEMMA TakeStep ==
    ASSUME Take!PlanInv, Take!Next
    PROVE  Take!PlanInv'
<1>1. v1 \in {Me, Other, NoOne} /\ v2 \in SUBSET Take!Side /\ v3 \in SUBSET Take!Side
      /\ v4 \in [Take!Side -> Take!Kinds]
  BY TakeTypes DEF Take!PlanInv
<1>2. CASE \E w \in {"tick", "resume"} : Take!ReadLease(w) \/ Take!ProbeSide(w)
  BY <1>2, TakeReads, TakeCounts
<1>3. CASE Take!HolderMoves
  BY <1>1, <1>3, TakeWorld DEF Take!HolderMoves
<1>4. CASE Take!ProcessesChange
  BY <1>1, <1>4, TakeWorld DEF Take!ProcessesChange
<1>5. CASE Take!HistoriesChange
  BY <1>1, <1>5, TakeWorld DEF Take!HistoriesChange
<1>6. CASE Take!Freeze
  <2>1. v4' \in [Take!Side -> Take!Kinds]
    BY <1>1, <1>6 DEF Take!Freeze, Take!Kinds
  <2>2. QED
    BY <1>1, <1>6, <2>1, TakeWorld DEF Take!Freeze
<1>7. QED
  BY <1>2, <1>3, <1>4, <1>5, <1>6, TakeWrites, TakeAges, TakeAsks, TakeRefuses, TakeProceeds
     DEF Take!Next

\* Nor does one that leaves the module's state alone.
LEMMA TakeStays ==
    ASSUME Take!PlanInv, UNCHANGED Take!vars
    PROVE  Take!PlanInv'
  BY DEF Take!vars, Take!world, Take!PlanInv, Take!TypeOK, Take!TickCurrent,
     Take!CacheCurrent, Take!ProbeAsked, Take!ShownCurrent, Take!PlanHonoured, Take!Matches,
     Take!Verdict, Take!Facts, Take!WriterOf, Take!Supported, Take!Decided, Take!Plan,
     Take!Frozen, Take!LeaseOf

-----------------------------------------------------------------------------
(* ResumeMachine.                                                            *)

\* What the guards rely on and the validator does not demand: a machine that
\* rolls back has an error, and only one that failed before the token was
\* written ends without one.
RollbackHasError == machine.node.state = "rolling_back" => machine.node.error

MachineInv == TypeOK /\ AlwaysRestorable /\ RollbackHasError

LEMMA MachineInit ==
    ASSUME NoOne \notin Client, MaxGen \in Nat, Init
    PROVE  MachineInv
<1>1. NewMachine \in Machine /\ Restorable(NewMachine, claimant)
  BY NewRestorable
<1>2. QED
  BY <1>1 DEF Init, MachineInv, TypeOK, AlwaysRestorable, RollbackHasError, NewMachine, Created

LEMMA MachineStep ==
    ASSUME MachineInv, [Next]_machine
    PROVE  MachineInv'
<1>1. CASE Next
  <2>1. PICK payload \in Payload, edge \in Graph :
            /\ Accepted(machine, claimant, payload, edge)
            /\ machine' = Advanced(machine, payload, edge)
    BY <1>1 DEF Next, Send
  <2>2. machine \in Machine /\ Restorable(machine, claimant)
    BY DEF MachineInv, TypeOK, AlwaysRestorable
  <2>3. machine' \in Machine
    BY <2>1, <2>2, AdvancedMachine
  <2>4. Restorable(machine', claimant)
    BY <2>1, <2>2, AcceptedRestorable
  <2>5. edge.to = "rolling_back" => edge.event \in SetsError
    BY DEF Graph, Edge, SetsError
  <2>6. RollbackHasError'
    BY <2>1, <2>5 DEF RollbackHasError, Accepted, Advanced, Enter
  <2>7. QED
    BY <2>3, <2>4, <2>6 DEF MachineInv, TypeOK, AlwaysRestorable
<1>2. CASE UNCHANGED machine
  BY <1>2 DEF MachineInv, TypeOK, AlwaysRestorable, RollbackHasError
<1>3. QED
  BY <1>1, <1>2

\* Where the invariant holds, the validator refuses nothing that the guards
\* accept (_enter, send).
LEMMA MachineGuards ==
    ASSUME NoOne \notin Client, MaxGen \in Nat, MachineInv
    PROVE  GuardsSuffice
<1> SUFFICES ASSUME MachineInv, NEW payload \in Payload, NEW edge \in Graph,
                    edge.from = machine.node.state, edge.event = payload.event,
                    Guard(machine.node, claimant, payload)
             PROVE  Legal(Enter(machine.node, edge.to, payload), claimant)
  BY DEF GuardsSuffice
<1>1. machine.node \in Node
  BY DEF MachineInv, TypeOK, Machine
<1>2. Legal(machine.node, claimant)
  BY DEF MachineInv, AlwaysRestorable, Restorable
<1>3. machine.node.state = "rolling_back" => machine.node.error
  BY DEF MachineInv, RollbackHasError
<1>4. QED
  BY <1>1, <1>2, <1>3, GuardsSufficient

\* ResumeMachine.restore takes back every machine that send can reach.
THEOREM MachineRestorable ==
    ASSUME NoOne \notin Client, MaxGen \in Nat
    PROVE  Spec => []AlwaysRestorable
<1>1. Init => MachineInv
  BY MachineInit
<1>2. MachineInv /\ [Next]_machine => MachineInv'
  BY MachineStep
<1>3. MachineInv => AlwaysRestorable
  BY DEF MachineInv
<1>4. QED
  BY <1>1, <1>2, <1>3, PTL DEF Spec

-----------------------------------------------------------------------------
(* Snapshots.  The module's variables are v1 written, v2 store, v3 due,      *)
(* v4 tree, v5 hubTree, v6 now, v7 log, v8 hubLog, v9 pane, v10 holder,      *)
(* v11 tick, v12 export, v13 resume, v14 blind, v15 orderly and v16 goal.    *)

\* The vocabulary of the module's steps.
SnapAction(c) ==
    \/ Shots!Write(c) \/ Shots!Redraw(c) \/ Shots!Park(c) \/ Shots!Look(c) \/ Shots!Sample(c)
    \/ Shots!WriteExport(c) \/ Shots!FailExport(c) \/ Shots!Upload(c)
    \/ (\E s \in Client : Shots!Download(c, s))
    \/ Shots!SyncTicks(c) \/ Shots!SyncWinner(c)
    \/ Shots!Claim(c) \/ Shots!Import(c) \/ Shots!Fail(c)

\* The types of the functions that a step updates.
LEMMA SnapTyped ==
    ASSUME Shots!TypeOK
    PROVE  /\ v2 \in [Client -> SUBSET Shots!Message] /\ v3 \in SUBSET Client
           /\ v4 \in [Client -> [Client -> SUBSET Shots!Message]]
           /\ v5 \in [Client -> SUBSET Shots!Message]
           /\ v7 \in [Client -> [Client -> 0 .. MaxTick]] /\ v8 \in [Client -> 0 .. MaxTick]
           /\ v6 \in 0 .. MaxTick
           /\ v9 \in [Client -> {"gone", "same", "changed"}] /\ v10 \in Client
           /\ v11 \in [Client -> {"idle", "own", "foreign", "blind", "export"}]
           /\ v12 \in [Client -> SUBSET Shots!Message]
           /\ v13 \in [Client -> {"idle", "ticks", "synced", "claimed", "done"}]
           /\ v16 \in [Client -> SUBSET Shots!Message] /\ v1 \in SUBSET Shots!Message
  BY DEF Shots!TypeOK

\* A new message is one more.
LEMMA SnapNumbered ==
    ASSUME Shots!TypeOK, Shots!MessagesInv
    PROVE  /\ 1 \in v1
           /\ Shots!Cardinality(v1) + 1 \notin v1
           /\ \A m \in Shots!Message : m = Shots!Cardinality(v1) + 1 =>
                 v1 \cup {m} = 1 .. m /\ m \in 1 .. MaxMessage
<1>1. PICK n \in 1 .. MaxMessage : v1 = 1 .. n
  BY DEF Shots!MessagesInv
<1>2. n \in Nat /\ n > 0
  BY <1>1, Numbers
<1>3. Shots!Cardinality(v1) = n
  <2>1. Cardinality(v1) = n
    BY <1>1, <1>2, FS_Interval
  <2>2. QED
    BY <2>1 DEF Cardinality, Shots!Cardinality
<1>4. QED
  BY <1>1, <1>2, <1>3, Numbers DEF Shots!Message

\* The parts of the invariant about what was written, and about copies of the
\* logs, change with what they speak of.
LEMMA SnapMessagesFrame ==
    ASSUME Shots!MessagesInv, v1' = v1,
           \A c \in Client : v16'[c] \in {v16[c], v1, {}}
    PROVE  Shots!MessagesInv'
  BY DEF Shots!MessagesInv

LEMMA SnapTimesFrame ==
    ASSUME Shots!TimesInv, UNCHANGED <<v7, v8, v6>>
    PROVE  Shots!TimesInv'
<1>1. \A s \in Client : Shots!Times(s)' = Shots!Times(s)
  BY DEF Shots!Times
<1>2. QED
  BY <1>1 DEF Shots!TimesInv

LEMMA SnapTurnFrame ==
    ASSUME Shots!TurnInv, UNCHANGED <<v13, v10>>,
           \A d \in Client : v12'[d] # {} => v11'[d] = "export",
           \A d \in Client : v11'[d] = "foreign" =>
              (v11[d] = "foreign" /\ v9[d] # "gone") \/ v9'[d] = "gone"
    PROVE  Shots!TurnInv'
  BY DEF Shots!TurnInv, Shots!Switches

LEMMA SnapKeepsFrame ==
    ASSUME Shots!SwitchKeepsAll, UNCHANGED v16,
           \A d \in Client : v2[d] \subseteq v2'[d],
           \A d \in Client : v13'[d] = "done" => v13[d] = "done"
    PROVE  Shots!SwitchKeepsAll'
  BY DEF Shots!SwitchKeepsAll

LEMMA SnapHolderFrame ==
    ASSUME Shots!HolderInv, UNCHANGED <<v1, v2, v7, v6, v10>>,
           v9'[v10] = "changed" \/ v9'[v10] = v9[v10],
           v13[v10] = "claimed" => v13'[v10] = "claimed"
    PROVE  Shots!HolderInv'
  BY DEF Shots!HolderInv, Shots!Ahead, Shots!Whole

\* What somebody knows of a log is in it.
LEMMA SnapCopies ==
    ASSUME Shots!TypeOK, Shots!TimesInv
    PROVE  \A c, s \in Client :
              /\ v7[c][s] \in Nat /\ v8[s] \in Nat
              /\ v7[c][s] <= v7[s][s] /\ v8[s] <= v7[s][s] /\ v7[s][s] <= v6
              /\ c # s => v7[c][s] <= v8[s]
<1>1. SUFFICES ASSUME NEW c \in Client, NEW s \in Client
               PROVE  /\ v7[c][s] \in Nat /\ v8[s] \in Nat
                      /\ v7[c][s] <= v7[s][s] /\ v8[s] <= v7[s][s]
                      /\ v7[s][s] <= v6
                      /\ c # s => v7[c][s] <= v8[s]
  OBVIOUS
<1>2. v7[c][s] \in Shots!Times(s) /\ v8[s] \in Shots!Times(s)
  BY DEF Shots!Times
<1>3. v7[s][s] \in Nat
  BY SnapTyped, Numbers
<1>4. QED
  BY <1>2, <1>3 DEF Shots!TimesInv

\* Whoever is ahead as far as c knows has every message.
LEMMA SnapLeaders ==
    ASSUME Shots!TypeOK, Shots!TimesInv, NEW c \in Client, NEW s \in Client,
           \E t \in Client : Shots!Leads(c, t),
           \A t \in Client : v7[c][t] <= v7[c][s]
    PROVE  Shots!Whole(s) /\ v7[c][s] > 0
  BY SnapCopies DEF Shots!Leads

\* A switch goes on: the messages and the logs are the same, and what is carried
\* stays carried.
LEMMA SnapCourseFrame ==
    ASSUME Shots!TypeOK, Shots!TimesInv, UNCHANGED <<v1, v2, v7, v6, v16, v13>>,
           \A d \in Client : Shots!Whole(d) /\ Shots!Carried(d) => Shots!Carried(d)',
           \A c, s \in Client :
              c # s /\ Shots!Whole(s) /\ Shots!Carried(s) /\ v1 \subseteq v4[c][s]
              => v1 \subseteq v4'[c][s],
           NEW c \in Client, Shots!OnCourse(c) => Shots!OnCourseInv(c)
    PROVE  Shots!OnCourse(c)' => Shots!OnCourseInv(c)'
<1>1. SUFFICES ASSUME Shots!OnCourse(c)'
               PROVE  Shots!OnCourseInv(c)'
  OBVIOUS
<1>2. Shots!OnCourse(c) /\ Shots!OnCourseInv(c)
  BY <1>1 DEF Shots!OnCourse, Shots!Switches
<1>3. Shots!Ahead' /\ \E t \in Client : Shots!Leads(c, t)'
  BY <1>2 DEF Shots!OnCourseInv, Shots!Ahead, Shots!Leads, Shots!Whole
<1>4. \A d \in Client : d # c /\ Shots!Whole(d)' => Shots!Carried(d)'
  BY <1>2 DEF Shots!OnCourseInv, Shots!Whole
<1>5. ASSUME v13[c] # "ticks", NEW s \in Client, s # c,
             \A t \in Client : v7[c][t] <= v7[c][s]
      PROVE  v1 \subseteq v4'[c][s]
  <2>1. v1 \subseteq v4[c][s]
    BY <1>2, <1>5 DEF Shots!OnCourseInv
  <2>2. Shots!Whole(s)
    BY <1>2, <1>5, SnapLeaders DEF Shots!OnCourseInv
  <2>3. QED
    BY <1>2, <1>5, <2>1, <2>2 DEF Shots!OnCourseInv
<1>6. QED
  BY <1>3, <1>4, <1>5 DEF Shots!OnCourseInv

\* A table whose entry is replaced is still a table.
LEMMA SnapEntry ==
    ASSUME NEW S, NEW T, NEW f \in [S -> [S -> T]], NEW x \in S, NEW y \in S, NEW v \in T
    PROVE  /\ [f EXCEPT ![x][y] = v] \in [S -> [S -> T]]
           /\ \A i, j \in S :
                 [f EXCEPT ![x][y] = v][i][j] = IF i = x /\ j = y THEN v ELSE f[i][j]
<1> DEFINE row == [f[x] EXCEPT ![y] = v]
<1>1. row \in [S -> T] /\ \A j \in S : row[j] = IF j = y THEN v ELSE f[x][j]
  OBVIOUS
<1>2. [f EXCEPT ![x][y] = v] = [f EXCEPT ![x] = row]
  OBVIOUS
<1> HIDE DEF row
<1>3. QED
  BY <1>1, <1>2

\* Max is the largest element, where there is one.
LEMMA SnapLargest ==
    ASSUME NEW S \in SUBSET Nat, NEW x \in S, \A y \in S : y <= x
    PROVE  Shots!Max(S) = x
<1>1. Shots!Max(S) \in S /\ \A y \in S : Shots!Max(S) >= y
  BY DEF Shots!Max
<1>2. Shots!Max(S) \in Nat /\ x \in Nat /\ Shots!Max(S) >= x /\ Shots!Max(S) <= x
  BY <1>1
<1>3. QED
  BY <1>2

\* The Client that c takes for the last active one is the last in its copies.
LEMMA SnapLatest ==
    ASSUME Shots!TypeOK, Shots!TimesInv, NEW c \in Client, \E t \in Client : Shots!Leads(c, t)
    PROVE  /\ Shots!Latest(c) \in Client /\ v7[c][Shots!Latest(c)] > 0
           /\ \A s \in Client : v7[c][s] <= v7[c][Shots!Latest(c)]
<1>1. PICK t \in Client : v7[c][t] > 0 /\ \A s \in Client : v7[c][s] <= v7[c][t]
  BY DEF Shots!Leads
<1> DEFINE times == {v7[c][s] : s \in Client}
           newest == Shots!Max(times)
           last == CHOOSE s \in Client : v7[c][s] = newest
<1>2. times \in SUBSET Nat /\ v7[c][t] \in times /\ \A v \in times : v <= v7[c][t]
  BY <1>1, SnapCopies
<1>3. Shots!Latest(c) = CASE newest = 0 -> NoClient
                    [] newest > 0 /\ v7[c][c] = newest -> c
                    [] OTHER -> last
  BY DEF Shots!Latest
<1>4. newest = v7[c][t] /\ v7[c][t] \in Nat
  <2> HIDE DEF times
  <2>1. QED
    BY <1>1, <1>2, SnapLargest
<1> HIDE DEF newest
<1>5. last \in Client /\ v7[c][last] = newest
  BY <1>4, Zenon
<1> HIDE DEF last
<1>6. Shots!Latest(c) \in Client /\ v7[c][Shots!Latest(c)] = newest
  <2>1. newest > 0 /\ newest # 0
    BY <1>1, <1>4
  <2>2. QED
    BY <1>3, <1>5, <2>1
<1>7. QED
  BY <1>1, <1>4, <1>6

\* Every step keeps the types.
LEMMA SnapTypes ==
    ASSUME Shots!SwitchInv, NEW c \in Client, SnapAction(c), v15'
    PROVE  Shots!TypeOK'
<1>1. Shots!TypeOK /\ Shots!MessagesInv
  BY DEF Shots!SwitchInv
<1>0. v15' \in BOOLEAN
  <2>1. CASE v15' = v15
    BY <1>1, <2>1, Zenon DEF Shots!TypeOK
  <2>2. CASE Shots!Write(c) \/ Shots!SyncTicks(c) \/ Shots!Import(c) \/ Shots!Fail(c)
    BY <2>2, Zenon DEF Shots!Write, Shots!SyncTicks, Shots!Import, Shots!Fail
  <2>3. CASE Shots!Sample(c)
    <3>1. v15' = FALSE \/ v15' = v15
      BY <2>3, Zenon DEF Shots!Sample
    <3>2. QED
      BY <2>1, <3>1, Zenon
  <2>4. QED
    BY <2>1, <2>2, <2>3, Zenon DEF SnapAction, Shots!Redraw, Shots!Park, Shots!Look,
       Shots!WriteExport, Shots!FailExport, Shots!Upload,
       Shots!Download, Shots!SyncWinner, Shots!Claim, Shots!ghosts
<1>2. CASE Shots!Write(c)
  <2>1. PICK m \in Shots!Message : /\ m = Shots!Cardinality(v1) + 1
                                   /\ v1' = v1 \cup {m}
                                   /\ v2' = [v2 EXCEPT ![c] = v2[c] \cup {m}]
    BY <1>2 DEF Shots!Write, Shots!Set
  <2>2. /\ v1' \in SUBSET Shots!Message /\ v3' \in SUBSET Client
        /\ v2' \in [Client -> SUBSET Shots!Message]
        /\ v9' \in [Client -> {"gone", "same", "changed"}]
    BY <1>1, <1>2, <2>1, SnapTyped DEF Shots!Write, Shots!Set
  <2>3. QED
    BY <1>0, <1>1, <1>2, <2>2 DEF Shots!Write, Shots!TypeOK, Shots!trees
<1>3. CASE Shots!Redraw(c) \/ Shots!Park(c)
  BY <1>1, <1>3 DEF Shots!Redraw, Shots!Park, Shots!Set, Shots!TypeOK, Shots!sessions,
     Shots!trees, Shots!ghosts
<1>4. CASE Shots!Look(c)
  <2>1. v14' \in 0 .. MaxBlind
    BY <1>1, <1>4, Numbers DEF Shots!Look, Shots!TypeOK
  <2>2. QED
    BY <1>1, <1>4, <2>1 DEF Shots!Look, Shots!Set, Shots!TypeOK, Shots!sessions,
       Shots!trees
<1>5. CASE Shots!Sample(c)
  <2>1. v6' \in 0 .. MaxTick
    <3>1. v6' = v6 \/ (v6 < MaxTick /\ v6' = v6 + 1)
      BY <1>5 DEF Shots!Sample
    <3>2. QED
      BY <1>1, <3>1, SnapTyped, Numbers
  <2>2. v9' \in [Client -> {"gone", "same", "changed"}]
    <3>1. v9' = v9 \/ v9' = [v9 EXCEPT ![c] = "same"]
      BY <1>5 DEF Shots!Sample, Shots!Set
    <3>2. QED
      BY <1>1, <3>1, SnapTyped
  <2>3. /\ v11' \in [Client -> {"idle", "own", "foreign", "blind", "export"}]
        /\ v12' \in [Client -> SUBSET Shots!Message]
    <3>1. /\ v11' = [v11 EXCEPT ![c] = "idle"] \/ v11' = [v11 EXCEPT ![c] = "export"]
          /\ v12' = v12 \/ v12' = [v12 EXCEPT ![c] = v2[c]]
      BY <1>5 DEF Shots!Sample, Shots!Set
    <3>2. v11' \in [Client -> {"idle", "own", "foreign", "blind", "export"}]
      BY <1>1, <3>1 DEF Shots!TypeOK
    <3>3. v12' \in [Client -> SUBSET Shots!Message]
      BY <1>1, <3>1 DEF Shots!TypeOK
    <3>4. QED
      BY <3>2, <3>3
  <2>4. v7' \in [Client -> [Client -> 0 .. MaxTick]]
    <3>1. v7' = v7 \/ v7' = [v7 EXCEPT ![c][c] = v6']
      BY <1>5 DEF Shots!Sample
    <3>2. [v7 EXCEPT ![c][c] = v6'] \in [Client -> [Client -> 0 .. MaxTick]]
      BY <1>1, <2>1, SnapTyped, SnapEntry
    <3>3. QED
      BY <1>1, <3>1, <3>2, SnapTyped
  <2>5. v16' \in [Client -> SUBSET Shots!Message]
    <3>1. v16' = v16 \/ v16' = [d \in Client |-> {}]
      BY <1>5 DEF Shots!Sample
    <3>2. QED
      BY <1>1, <3>1, SnapTyped
  <2>6. UNCHANGED <<v1, v2, v3, v4, v5, v8, v10, v13, v14>>
    BY <1>5 DEF Shots!Sample, Shots!sessions
  <2>7. QED
    BY <1>0, <1>1, <2>1, <2>2, <2>3, <2>4, <2>5, <2>6 DEF Shots!TypeOK
<1>6. CASE Shots!WriteExport(c) \/ Shots!FailExport(c)
  <2>1. /\ v4' = [v4 EXCEPT ![c][c] = v12[c]] \/ v4' = v4
        /\ v3' = v3 \ {c} \/ v3' = v3
        /\ v12' = [v12 EXCEPT ![c] = {}]
        /\ v11' = [v11 EXCEPT ![c] = "idle"]
        /\ UNCHANGED <<v1, v2, v5, v6, v7, v8, v9, v10, v13, Shots!ghosts>>
    BY <1>6 DEF Shots!WriteExport, Shots!FailExport, Shots!Set, Shots!sessions,
       Shots!trees
  <2>2. /\ v3' \in SUBSET Client
        /\ v12' \in [Client -> SUBSET Shots!Message]
        /\ v11' \in [Client -> {"idle", "own", "foreign", "blind", "export"}]
    BY <1>1, <2>1, SnapTyped
  <2>3. v4' \in [Client -> [Client -> SUBSET Shots!Message]]
    <3>1. v12[c] \in SUBSET Shots!Message
      BY <1>1, SnapTyped
    <3>2. [v4 EXCEPT ![c][c] = v12[c]] \in [Client -> [Client -> SUBSET Shots!Message]]
      BY <1>1, <3>1, SnapTyped, SnapEntry
    <3>3. QED
      BY <1>1, <2>1, <3>2, SnapTyped
  <2>4. QED
    BY <1>0, <1>1, <2>1, <2>2, <2>3 DEF Shots!TypeOK, Shots!ghosts
<1>7. CASE Shots!Upload(c) \/ \E s \in Client : Shots!Download(c, s)
  <2>1. CASE Shots!Upload(c)
    BY <1>1, <2>1 DEF Shots!Upload, Shots!Set, Shots!TypeOK, Shots!sessions, Shots!ghosts
  <2>2. ASSUME NEW s \in Client, Shots!Download(c, s)
        PROVE  Shots!TypeOK'
    BY <1>1, <2>2 DEF Shots!Download, Shots!TypeOK, Shots!sessions, Shots!ghosts
  <2>3. QED
    BY <1>7, <2>1, <2>2
<1>8. CASE Shots!SyncTicks(c)
  <2>1. v8' \in [Client -> 0 .. MaxTick]
    BY <1>1, <1>8 DEF Shots!SyncTicks, Shots!Set, Shots!TypeOK
  <2>2. v7' \in [Client -> [Client -> 0 .. MaxTick]]
    BY <1>1, <1>8 DEF Shots!SyncTicks, Shots!Set, Shots!TypeOK
  <2>3. v16' \in [Client -> SUBSET Shots!Message]
    BY <1>1, <1>8 DEF Shots!SyncTicks, Shots!Set, Shots!TypeOK
  <2>4. v13' \in [Client -> {"idle", "ticks", "synced", "claimed", "done"}]
    BY <1>1, <1>8 DEF Shots!SyncTicks, Shots!Set, Shots!TypeOK
  <2>5. QED
    BY <1>1, <1>8, <2>1, <2>2, <2>3, <2>4 DEF Shots!SyncTicks, Shots!TypeOK,
       Shots!sessions
<1>9. CASE Shots!SyncWinner(c)
  <2>1. v4' = v4 \/ \E s : v4' = [v4 EXCEPT ![c][s] = v5[s]]
    BY <1>9 DEF Shots!SyncWinner
  <2>2. v4' \in [Client -> [Client -> SUBSET Shots!Message]]
    <3>1. v4 \in [Client -> [Client -> SUBSET Shots!Message]]
          /\ v5 \in [Client -> SUBSET Shots!Message]
      BY <1>1, SnapTyped
    <3>2. ASSUME NEW s, v4' = [v4 EXCEPT ![c][s] = v5[s]]
          PROVE  v4' \in [Client -> [Client -> SUBSET Shots!Message]]
      <4>1. CASE s \in Client
        BY <3>1, <3>2, <4>1
      <4>2. CASE s \notin Client
        <5>1. v4' = v4
          BY <3>1, <3>2, <4>2
        <5>2. QED
          BY <3>1, <5>1
      <4>3. QED
        BY <4>1, <4>2
    <3>3. QED
      BY <2>1, <3>1, <3>2
  <2>3. v13' = [v13 EXCEPT ![c] = "synced"]
    BY <1>9 DEF Shots!SyncWinner, Shots!Set
  <2>4. v13' \in [Client -> {"idle", "ticks", "synced", "claimed", "done"}]
    BY <1>1, <2>3 DEF Shots!TypeOK
  <2>5. UNCHANGED <<v1, v2, v3, v5, v6, v7, v8, v9, v10, v11, v12, v14, v15, v16>>
    BY <1>9 DEF Shots!SyncWinner, Shots!sessions, Shots!ghosts
  <2>6. QED
    BY <1>1, <2>2, <2>4, <2>5 DEF Shots!TypeOK
<1>10. CASE Shots!Claim(c)
  BY <1>1, <1>10 DEF Shots!Claim, Shots!Set, Shots!TypeOK, Shots!sessions, Shots!trees,
     Shots!ghosts
<1>11. CASE Shots!Import(c)
  <2>1. PICK file \in Shots!Chosen(c) \cup {f \in {{}} : Shots!Chosen(c) = {}} :
           v2' = [v2 EXCEPT ![c] = v2[c] \cup file]
    BY <1>11 DEF Shots!Import, Shots!Set
  <2>2. file \subseteq Shots!Message
    <3>1. v16[c] = v1 /\ v13[c] = "claimed"
      BY <1>11, Zenon DEF Shots!Import
    <3>2. Shots!OnCourse(c)
      BY <3>1 DEF Shots!OnCourse, Shots!Switches
    <3>3. Shots!Latest(c) \in Client
      BY <3>2, SnapLatest DEF Shots!SwitchInv, Shots!OnCourseInv
    <3>4. \A s \in Client : v4[c][s] \subseteq Shots!Message
      BY <1>1, SnapTyped
    <3>5. \A f \in Shots!Newest(c) : f \subseteq Shots!Message
      BY <3>4 DEF Shots!Newest
    <3>6. QED
      BY <2>1, <3>3, <3>4, <3>5 DEF Shots!Chosen
  <2>3. v2' \in [Client -> SUBSET Shots!Message]
    BY <1>1, <2>1, <2>2, SnapTyped
  <2>4. /\ v3' \in SUBSET Client
        /\ v9' \in [Client -> {"gone", "same", "changed"}]
        /\ v13' \in [Client -> {"idle", "ticks", "synced", "claimed", "done"}]
    <3>1. /\ v3' = v3 \/ v3' = v3 \cup {c}
          /\ v9' = v9 \/ v9' = [v9 EXCEPT ![c] = "changed"]
          /\ v13' = [v13 EXCEPT ![c] = "done"]
      BY <1>11 DEF Shots!Import, Shots!Set
    <3>2. QED
      BY <1>1, <3>1, SnapTyped
  <2>5. QED
    BY <1>0, <1>1, <1>11, <2>3, <2>4 DEF Shots!Import, Shots!TypeOK, Shots!trees
<1>12. CASE Shots!Fail(c)
  BY <1>1, <1>12 DEF Shots!Fail, Shots!Set, Shots!TypeOK, Shots!sessions, Shots!trees
<1>13. QED
  BY <1>2, <1>3, <1>4, <1>5, <1>6, <1>7, <1>8, <1>9, <1>10, <1>11, <1>12 DEF SnapAction

\* Panes, looks and exports: what is written, and what is logged, stays.
LEMMA SnapQuiet ==
    ASSUME Shots!SwitchInv, NEW c \in Client, v15',
           \/ Shots!Redraw(c) \/ Shots!Park(c) \/ Shots!Look(c)
           \/ Shots!WriteExport(c) \/ Shots!FailExport(c)
    PROVE  Shots!SwitchInv'
<1>1. Shots!TypeOK /\ Shots!TypeOK'
  BY SnapTypes DEF Shots!SwitchInv, SnapAction
<1>2. UNCHANGED <<v1, v2, v7, v8, v5, v6, v16, v13, v10>>
  BY DEF Shots!Redraw, Shots!Park, Shots!Look, Shots!WriteExport, Shots!FailExport,
     Shots!sessions, Shots!trees, Shots!ghosts
<1>3. Shots!MessagesInv' /\ Shots!TimesInv' /\ Shots!SwitchKeepsAll'
  BY <1>2, SnapMessagesFrame, SnapTimesFrame, SnapKeepsFrame DEF Shots!SwitchInv
<1>4. Shots!TurnInv' /\ Shots!HolderInv'
  <2>1. /\ \A d \in Client : v12'[d] # {} => v11'[d] = "export"
        /\ \A d \in Client : v11'[d] = "foreign" =>
              (v11[d] = "foreign" /\ v9[d] # "gone") \/ v9'[d] = "gone"
    <3>1. Shots!TurnInv
      BY DEF Shots!SwitchInv
    <3>2. CASE Shots!Redraw(c) \/ Shots!Park(c)
      BY <1>1, <3>1, <3>2, SnapTyped DEF Shots!Redraw, Shots!Park, Shots!Set,
         Shots!TurnInv
    <3>3. CASE Shots!Look(c)
      BY <1>1, <3>1, <3>3, SnapTyped DEF Shots!Look, Shots!Set, Shots!TurnInv
    <3>4. CASE Shots!WriteExport(c) \/ Shots!FailExport(c)
      BY <1>1, <3>1, <3>4, SnapTyped DEF Shots!WriteExport, Shots!FailExport,
         Shots!Set, Shots!TurnInv
    <3>5. QED
      BY <3>2, <3>3, <3>4
  <2>2. v9'[v10] = "changed" \/ v9'[v10] = v9[v10]
    BY <1>1, SnapTyped DEF Shots!Redraw, Shots!Park, Shots!Look, Shots!WriteExport,
       Shots!FailExport, Shots!Set
  <2>3. Shots!TurnInv'
    BY <1>2, <2>1, SnapTurnFrame DEF Shots!SwitchInv
  <2>4. Shots!HolderInv'
    BY <1>2, <2>2, SnapHolderFrame DEF Shots!SwitchInv
  <2>5. QED
    BY <2>3, <2>4
<1>5. ASSUME NEW k \in Client
      PROVE  Shots!OnCourse(k)' => Shots!OnCourseInv(k)'
  <2>1. CASE Shots!Redraw(c) \/ Shots!Park(c) \/ Shots!Look(c)
    <3>1. UNCHANGED <<v4, v5, v12>>
      BY <2>1 DEF Shots!Redraw, Shots!Park, Shots!Look, Shots!trees
    <3>2. \A d \in Client : Shots!Whole(d) /\ Shots!Carried(d) => Shots!Carried(d)'
      BY <1>2, <3>1 DEF Shots!Carried
    <3>3. QED
      BY <1>1, <1>2, <3>1, <3>2, SnapCourseFrame DEF Shots!SwitchInv
  <2>2. CASE Shots!WriteExport(c) \/ Shots!FailExport(c)
    <3>1. /\ v4' = [v4 EXCEPT ![c][c] = v12[c]] \/ v4' = v4
          /\ v12' = [v12 EXCEPT ![c] = {}]
          /\ v12[c] = {} => v4' = v4
      BY <2>2 DEF Shots!WriteExport, Shots!FailExport, Shots!Set, Shots!trees
    <3>2. \A e, s \in Client :
             \/ v4'[e][s] = v4[e][s]
             \/ e = c /\ s = c /\ v12[c] # {} /\ v4'[e][s] = v12[c]
      <4>1. v4 \in [Client -> [Client -> SUBSET Shots!Message]]
        BY <1>1, SnapTyped
      <4>2. \A e, s \in Client :
               [v4 EXCEPT ![c][c] = v12[c]][e][s]
                 = IF e = c /\ s = c THEN v12[c] ELSE v4[e][s]
        BY <4>1
      <4>3. CASE v4' = v4
        BY <4>3
      <4>4. CASE v4' = [v4 EXCEPT ![c][c] = v12[c]]
        BY <3>1, <4>2, <4>4
      <4>5. QED
        BY <3>1, <4>3, <4>4
    <3>3. \A d \in Client : Shots!Whole(d) /\ Shots!Carried(d) => Shots!Carried(d)'
      BY <1>1, <1>2, <3>1, <3>2, SnapTyped DEF Shots!Carried
    <3>4. \A e, s \in Client :
             e # s /\ Shots!Whole(s) /\ Shots!Carried(s) /\ v1 \subseteq v4[e][s]
             => v1 \subseteq v4'[e][s]
      BY <3>2
    <3>5. QED
      BY <1>1, <1>2, <3>3, <3>4, SnapCourseFrame DEF Shots!SwitchInv
  <2>3. QED
    BY <2>1, <2>2
<1>6. QED
  BY <1>1, <1>3, <1>4, <1>5 DEF Shots!SwitchInv

\* Upload: the Hub knows of a Client what the Client knows.
LEMMA SnapUpload ==
    ASSUME Shots!SwitchInv, NEW c \in Client, v15', Shots!Upload(c)
    PROVE  Shots!SwitchInv'
<1>1. Shots!TypeOK /\ Shots!TypeOK'
  BY SnapTypes DEF Shots!SwitchInv, SnapAction
<1>2. /\ UNCHANGED <<v1, v2, v7, v4, v6, v16, v13, v10, v9, v11, v12>>
      /\ v5' = [v5 EXCEPT ![c] = v4[c][c]]
      /\ v8' = [v8 EXCEPT ![c] = v7[c][c]]
  BY DEF Shots!Upload, Shots!Set, Shots!sessions, Shots!ghosts
<1>3. Shots!MessagesInv' /\ Shots!SwitchKeepsAll'
  BY <1>2, SnapMessagesFrame, SnapKeepsFrame DEF Shots!SwitchInv
<1>4. Shots!TurnInv' /\ Shots!HolderInv'
  <2>1. Shots!TurnInv'
    BY <1>2 DEF Shots!SwitchInv, Shots!TurnInv, Shots!Switches
  <2>2. Shots!HolderInv'
    BY <1>2 DEF Shots!SwitchInv, Shots!HolderInv, Shots!Ahead, Shots!Whole
  <2>3. QED
    BY <2>1, <2>2
<1>5. Shots!TimesInv'
  <2>1. \A s \in Client : v8'[s] = IF s = c THEN v7[c][c] ELSE v8[s]
    BY <1>1, <1>2, SnapTyped
  <2>2. \A s \in Client : Shots!Times(s)' \subseteq Shots!Times(s)
    BY <1>2, <2>1 DEF Shots!Times
  <2>3. \A d, s \in Client : d # s => v7[d][s] <= v8'[s]
    BY <1>1, <2>1, SnapCopies DEF Shots!SwitchInv
  <2>4. QED
    BY <1>2, <2>2, <2>3 DEF Shots!TimesInv, Shots!SwitchInv
<1>6. \A k \in Client : Shots!OnCourse(k)' => Shots!OnCourseInv(k)'
  <2>1. \A d \in Client : Shots!Whole(d) /\ Shots!Carried(d) => Shots!Carried(d)'
    BY <1>1, <1>2, SnapTyped DEF Shots!Carried
  <2>2. QED
    BY <1>1, <1>2, <2>1, SnapCourseFrame DEF Shots!SwitchInv
<1>7. QED
  BY <1>1, <1>3, <1>4, <1>5, <1>6 DEF Shots!SwitchInv

\* What is brought down of a Client that may be ahead is its whole export.
LEMMA SnapDownload ==
    ASSUME Shots!SwitchInv, NEW c \in Client, NEW s \in Client, v15', Shots!Download(c, s)
    PROVE  Shots!SwitchInv'
<1>1. Shots!TypeOK /\ Shots!TypeOK' /\ Shots!TimesInv /\ Shots!MessagesInv
  BY SnapTypes DEF Shots!SwitchInv, SnapAction
<1>2. /\ UNCHANGED <<v1, v2, v5, v6, v8, v9, v10, v11, v12,
                     v13, v16>>
      /\ s # c
  BY DEF Shots!Download, Shots!sessions, Shots!ghosts
<1>3. \A e, r \in Client : v7'[e][r] = IF e = c /\ r = s THEN v8[s] ELSE v7[e][r]
  BY <1>1, SnapTyped DEF Shots!Download
<1>4. \A e, r \in Client :
         v4'[e][r] = IF e = c /\ r = s /\ v5[s] # {} THEN v5[s] ELSE v4[e][r]
  BY <1>1, SnapTyped DEF Shots!Download
<1>5. \A e, r \in Client :
         /\ v7'[e][r] \in Nat /\ v7[e][r] \in Nat /\ v8[r] \in Nat
         /\ v7'[e][e] = v7[e][e] /\ v7'[e][r] <= v7[r][r]
         /\ v7[e][r] <= v7'[e][r] /\ (e # r => v7'[e][r] <= v8[r])
  BY <1>1, <1>2, <1>3, SnapCopies
<1>6. Shots!MessagesInv' /\ Shots!SwitchKeepsAll' /\ Shots!TurnInv'
  BY <1>2, SnapMessagesFrame, SnapKeepsFrame DEF Shots!SwitchInv, Shots!TurnInv,
     Shots!Switches
<1>7. Shots!Ahead => Shots!Ahead'
  BY <1>2, <1>5 DEF Shots!Ahead, Shots!Whole
<1>8. Shots!HolderInv'
  BY <1>2, <1>7 DEF Shots!SwitchInv, Shots!HolderInv, Shots!Whole
<1>9. Shots!TimesInv'
  <2>1. \A r \in Client : Shots!Times(r)' \subseteq Shots!Times(r)
    BY <1>2, <1>3 DEF Shots!Times
  <2>2. QED
    BY <1>1, <1>2, <1>5, <2>1 DEF Shots!TimesInv
<1>10. ASSUME NEW k \in Client, Shots!OnCourse(k)'
       PROVE  Shots!OnCourseInv(k)'
  <2>1. Shots!OnCourse(k) /\ Shots!OnCourseInv(k)
    BY <1>2, <1>10 DEF Shots!SwitchInv, Shots!OnCourse, Shots!Switches
  <2>2. Shots!Ahead'
    BY <1>7, <2>1 DEF Shots!OnCourseInv
  <2>3. PICK t \in Client : Shots!Leads(k, t)
    BY <2>1 DEF Shots!OnCourseInv
  <2>4. \E u \in Client : Shots!Leads(k, u)'
    <3>1. CASE k = c /\ v8[s] > v7[c][t] /\ s # t
      <4>1. Shots!Whole(s)
        BY <1>1, <1>5, <2>3, <3>1, SnapCopies DEF Shots!Leads
      <4>2. v7'[c][s] = v8[s] /\ v7[c][t] \in Nat
        BY <1>3, <1>5
      <4>3. \A r \in Client : v7'[c][r] <= v7'[c][s]
        BY <1>3, <1>5, <2>3, <3>1, <4>2 DEF Shots!Leads
      <4>4. \A r \in Client : Shots!Whole(r) \/ v7'[r][r] < v7'[c][s]
        BY <1>5, <2>3, <3>1, <4>2 DEF Shots!Leads
      <4>5. Shots!Leads(c, s)'
        BY <1>2, <1>5, <3>1, <4>1, <4>2, <4>3, <4>4 DEF Shots!Leads, Shots!Whole
      <4>6. QED
        BY <3>1, <4>5
    <3>2. CASE ~(k = c /\ v8[s] > v7[c][t] /\ s # t)
      <4>1. \A r \in Client : v7'[k][r] <= v7'[k][t]
        BY <1>3, <1>5, <2>3, <3>2 DEF Shots!Leads
      <4>2. \A r \in Client : Shots!Whole(r) \/ v7'[r][r] < v7'[k][t]
        BY <1>5, <2>3 DEF Shots!Leads
      <4>3. v7'[k][t] > 0
        BY <1>5, <2>3 DEF Shots!Leads
      <4>4. Shots!Leads(k, t)'
        BY <1>2, <2>3, <4>1, <4>2, <4>3 DEF Shots!Leads, Shots!Whole
      <4>5. QED
        BY <4>4
    <3>3. QED
      BY <3>1, <3>2
  <2>5. \A d \in Client : d # k /\ Shots!Whole(d)' => Shots!Carried(d)'
    BY <1>2, <1>4, <2>1 DEF Shots!OnCourseInv, Shots!Carried, Shots!Whole
  <2>6. ASSUME v13'[k] # "ticks", NEW r \in Client, r # k,
               \A u \in Client : v7'[k][u] <= v7'[k][r]
        PROVE  v1' \subseteq v4'[k][r]
    <3>1. Shots!Whole(r)
      BY <1>2, <1>5, <2>4, <2>6 DEF Shots!Leads, Shots!Whole
    <3>2. Shots!Carried(r)
      BY <2>1, <2>6, <3>1 DEF Shots!OnCourseInv
    <3>3. CASE k = c /\ r = s
      BY <1>1, <1>2, <1>4, <3>2, <3>3, SnapNumbered DEF Shots!Carried
    <3>4. CASE ~(k = c /\ r = s)
      <4>1. \A u \in Client : v7[k][u] <= v7[k][r]
        BY <1>3, <1>5, <2>6, <3>4
      <4>2. QED
        BY <1>2, <1>4, <2>1, <2>6, <3>4, <4>1 DEF Shots!OnCourseInv
    <3>5. QED
      BY <3>3, <3>4
  <2>7. QED
    BY <2>2, <2>4, <2>5, <2>6 DEF Shots!OnCourseInv
<1>11. QED
  BY <1>1, <1>6, <1>8, <1>9, <1>10 DEF Shots!SwitchInv

\* A message is written where the tunnel is held, and no switch is on course then.
LEMMA SnapWrite ==
    ASSUME Shots!SwitchInv, NEW c \in Client, v15', Shots!Write(c)
    PROVE  Shots!SwitchInv'
<1>1. Shots!TypeOK /\ Shots!TypeOK' /\ Shots!MessagesInv
  BY SnapTypes DEF Shots!SwitchInv, SnapAction
<1>2. UNCHANGED <<v7, v8, v4, v5, v6, v10, v11, v12, v13, v16>>
  BY DEF Shots!Write, Shots!trees
<1>3. PICK m \in Shots!Message : /\ m = Shots!Cardinality(v1) + 1
                                 /\ v1' = v1 \cup {m}
                                 /\ v2' = [v2 EXCEPT ![c] = v2[c] \cup {m}]
                                 /\ v9' = [v9 EXCEPT ![c] = "changed"]
  BY DEF Shots!Write, Shots!Set
<1>4. m \notin v1 /\ v1' = 1 .. m /\ m \in 1 .. MaxMessage
  BY <1>1, <1>3, SnapNumbered
<1>5. v10 = c /\ v13[c] # "claimed" /\ v9[c] # "gone"
  BY Zenon DEF Shots!Write
<1>6. Shots!MessagesInv' /\ Shots!TimesInv'
  BY <1>1, <1>2, <1>3, <1>4, SnapTimesFrame DEF Shots!SwitchInv, Shots!MessagesInv
<1>7. Shots!TurnInv'
  <2>1. Shots!TurnInv
    BY DEF Shots!SwitchInv
  <2>2. \A d \in Client : v9'[d] = IF d = c THEN "changed" ELSE v9[d]
    BY <1>1, <1>3, SnapTyped
  <2>3. QED
    BY <1>2, <1>5, <2>1, <2>2, SnapTurnFrame DEF Shots!TurnInv
<1>8. Shots!HolderInv'
  BY <1>1, <1>2, <1>3, <1>5, SnapTyped DEF Shots!SwitchInv, Shots!HolderInv, Shots!Whole
<1>9. Shots!SwitchKeepsAll'
  BY <1>1, <1>2, <1>3, SnapTyped, SnapKeepsFrame DEF Shots!SwitchInv
<1>10. \A k \in Client : ~Shots!OnCourse(k)'
  BY <1>1, <1>2, <1>3, <1>4 DEF Shots!OnCourse, Shots!MessagesInv
<1>11. QED
  BY <1>1, <1>6, <1>7, <1>8, <1>9, <1>10 DEF Shots!SwitchInv

\* One that switches is the only one that does.
LEMMA SnapSwitch ==
    ASSUME Shots!SwitchInv, NEW c \in Client, Shots!Switches(c)
    PROVE  /\ \A d \in Client : Shots!Switches(d) => d = c
           /\ \A d \in Client : v13[d] = "claimed" => d = c
  BY DEF Shots!SwitchInv, Shots!TurnInv, Shots!Switches

\* A claim makes the one that switches the holder.
LEMMA SnapClaim ==
    ASSUME Shots!SwitchInv, NEW c \in Client, v15', Shots!Claim(c)
    PROVE  Shots!SwitchInv'
<1>1. Shots!TypeOK /\ Shots!TypeOK' /\ Shots!TurnInv
  BY SnapTypes DEF Shots!SwitchInv, SnapAction
<1>2. /\ UNCHANGED <<v1, v2, v4, v5, v7, v8, v6, v9, v11, v12, v16>>
      /\ v13[c] = "synced" /\ v10' = c
  BY DEF Shots!Claim, Shots!sessions, Shots!trees, Shots!ghosts
<1>3. \A d \in Client : v13'[d] = IF d = c THEN "claimed" ELSE v13[d]
  BY <1>1, SnapTyped DEF Shots!Claim, Shots!Set
<1>4. /\ \A d \in Client : Shots!Switches(d) => d = c
      /\ \A d \in Client : v13[d] = "claimed" => d = c
      /\ \A d \in Client : Shots!Switches(d)' = Shots!Switches(d)
  BY <1>2, <1>3, SnapSwitch DEF Shots!Switches
<1>5. Shots!MessagesInv' /\ Shots!TimesInv' /\ Shots!SwitchKeepsAll'
  BY <1>2, <1>3, SnapMessagesFrame, SnapTimesFrame, SnapKeepsFrame DEF Shots!SwitchInv
<1>6. Shots!TurnInv' /\ Shots!HolderInv'
  <2>1. Shots!TurnInv'
    BY <1>1, <1>2, <1>3, <1>4 DEF Shots!TurnInv, Shots!Switches
  <2>2. Shots!HolderInv'
    BY <1>2, <1>3 DEF Shots!HolderInv
  <2>3. QED
    BY <2>1, <2>2
<1>7. ASSUME NEW k \in Client, Shots!OnCourse(k)'
      PROVE  Shots!OnCourseInv(k)'
  <2>1. Shots!OnCourse(k) /\ Shots!OnCourseInv(k) /\ k = c
    BY <1>2, <1>4, <1>7 DEF Shots!SwitchInv, Shots!OnCourse
  <2>2. QED
    BY <1>2, <2>1 DEF Shots!OnCourseInv, Shots!Ahead, Shots!Whole, Shots!Leads,
       Shots!Carried
<1>8. QED
  BY <1>1, <1>5, <1>6, <1>7 DEF Shots!SwitchInv

\* A switch that fails before its claim leaves everything as it was.
LEMMA SnapFail ==
    ASSUME Shots!SwitchInv, NEW c \in Client, v15', Shots!Fail(c)
    PROVE  Shots!SwitchInv'
<1>1. Shots!TypeOK /\ Shots!TypeOK' /\ Shots!TurnInv
  BY SnapTypes DEF Shots!SwitchInv, SnapAction
<1>2. /\ UNCHANGED <<v1, v2, v4, v5, v7, v8, v6, v9, v11, v12, v10>>
      /\ v13[c] # "claimed"
  <2>1. v13[c] # "claimed"
    BY Zenon DEF Shots!Fail
  <2>2. QED
    BY <2>1 DEF Shots!Fail, Shots!sessions, Shots!trees
<1>3. \A d \in Client : /\ v13'[d] = IF d = c THEN "idle" ELSE v13[d]
                        /\ v16'[d] = IF d = c THEN {} ELSE v16[d]
  BY <1>1, SnapTyped DEF Shots!Fail, Shots!Set
<1>4. Shots!MessagesInv' /\ Shots!TimesInv'
  BY <1>2, <1>3, SnapMessagesFrame, SnapTimesFrame DEF Shots!SwitchInv
<1>5. Shots!TurnInv' /\ Shots!HolderInv' /\ Shots!SwitchKeepsAll'
  <2>1. Shots!TurnInv'
    BY <1>1, <1>2, <1>3 DEF Shots!TurnInv, Shots!Switches
  <2>2. Shots!HolderInv'
    BY <1>1, <1>2, <1>3, SnapTyped DEF Shots!SwitchInv, Shots!HolderInv, Shots!Whole,
       Shots!Ahead
  <2>3. Shots!SwitchKeepsAll'
    BY <1>2, <1>3 DEF Shots!SwitchInv, Shots!SwitchKeepsAll
  <2>4. QED
    BY <2>1, <2>2, <2>3
<1>6. ASSUME NEW k \in Client, Shots!OnCourse(k)'
      PROVE  Shots!OnCourseInv(k)'
  <2>1. Shots!OnCourse(k) /\ Shots!OnCourseInv(k) /\ k # c
    BY <1>2, <1>3, <1>6 DEF Shots!SwitchInv, Shots!OnCourse, Shots!Switches
  <2>2. QED
    BY <1>2, <1>3, <2>1 DEF Shots!OnCourseInv, Shots!Ahead, Shots!Whole, Shots!Leads,
       Shots!Carried
<1>7. QED
  BY <1>1, <1>4, <1>5, <1>6 DEF Shots!SwitchInv

\* Two Clients are not logged at the same time.
LEMMA SnapOneFirst ==
    ASSUME Shots!TypeOK, Shots!TimesInv, NEW c \in Client, NEW s \in Client, NEW r \in Client,
           v7[c][s] > 0,
           \A u \in Client : v7[c][u] <= v7[c][s],
           \A u \in Client : v7[c][u] <= v7[c][r]
    PROVE  r = s
<1>1. v7[c][s] = v7[c][r] /\ v7[c][s] # 0
  BY SnapCopies
<1>2. v7[c][s] \in Shots!Times(s) /\ v7[c][r] \in Shots!Times(r)
  BY DEF Shots!Times
<1>3. QED
  BY <1>1, <1>2 DEF Shots!TimesInv

\* The export that is brought down is that of the Client ahead.
LEMMA SnapWinner ==
    ASSUME Shots!SwitchInv, NEW c \in Client, v15', Shots!SyncWinner(c)
    PROVE  Shots!SwitchInv'
<1>1. Shots!TypeOK /\ Shots!TypeOK' /\ Shots!TurnInv /\ Shots!TimesInv /\ Shots!MessagesInv
  BY SnapTypes DEF Shots!SwitchInv, SnapAction
<1> DEFINE s == Shots!Latest(c)
<1>2. /\ UNCHANGED <<v1, v2, v5, v7, v8, v6, v9, v11, v12, v16, v10>>
      /\ v13[c] = "ticks"
      /\ v4' = IF s \in {c, NoClient} \/ v5[s] = {} THEN v4
                 ELSE [v4 EXCEPT ![c][s] = v5[s]]
  BY DEF Shots!SyncWinner, Shots!sessions, Shots!ghosts
<1>3. \A d \in Client : v13'[d] = IF d = c THEN "synced" ELSE v13[d]
  BY <1>1, SnapTyped DEF Shots!SyncWinner, Shots!Set
<1>4. /\ \A d \in Client : Shots!Switches(d) => d = c
      /\ \A d \in Client : Shots!Switches(d)' = Shots!Switches(d)
  BY <1>2, <1>3, SnapSwitch DEF Shots!Switches
<1>5. Shots!MessagesInv' /\ Shots!TimesInv' /\ Shots!SwitchKeepsAll'
  BY <1>2, <1>3, SnapMessagesFrame, SnapTimesFrame, SnapKeepsFrame DEF Shots!SwitchInv
<1>6. Shots!TurnInv' /\ Shots!HolderInv'
  <2>1. Shots!TurnInv'
    BY <1>1, <1>2, <1>3, <1>4 DEF Shots!TurnInv
  <2>2. Shots!HolderInv'
    BY <1>1, <1>2, <1>3, SnapTyped DEF Shots!SwitchInv, Shots!HolderInv, Shots!Whole,
       Shots!Ahead
  <2>3. QED
    BY <2>1, <2>2
<1>7. ASSUME NEW k \in Client, Shots!OnCourse(k)'
      PROVE  Shots!OnCourseInv(k)'
  <2>1. Shots!OnCourse(c) /\ Shots!OnCourseInv(c) /\ k = c
    BY <1>2, <1>4, <1>7 DEF Shots!SwitchInv, Shots!OnCourse
  <2>2. s \in Client /\ v7[c][s] > 0 /\ \A r \in Client : v7[c][r] <= v7[c][s]
    BY <1>1, <2>1, SnapLatest DEF Shots!OnCourseInv
  <2> HIDE DEF s
  <2>3. Shots!Whole(s)
    BY <1>1, <2>1, <2>2, SnapLeaders DEF Shots!OnCourseInv
  <2>4. Shots!Ahead' /\ \E t \in Client : Shots!Leads(c, t)'
    BY <1>2, <2>1 DEF Shots!OnCourseInv, Shots!Ahead, Shots!Leads, Shots!Whole
  <2>5. \A d \in Client : v4'[d][d] = v4[d][d]
    BY <1>1, <1>2, <2>2, SnapTyped
  <2>6. \A d \in Client : d # c /\ Shots!Whole(d)' => Shots!Carried(d)'
    BY <1>2, <2>1, <2>5 DEF Shots!OnCourseInv, Shots!Carried, Shots!Whole
  <2>7. ASSUME NEW r \in Client, r # c, \A u \in Client : v7[c][u] <= v7[c][r]
        PROVE  v1 \subseteq v4'[c][r]
    <3>1. r = s
      BY <1>1, <2>2, <2>7, SnapOneFirst
    <3>2. v1 \subseteq v5[s] /\ v5[s] # {}
      BY <1>1, <2>1, <2>3, <2>7, <3>1, SnapNumbered DEF Shots!OnCourseInv, Shots!Carried
    <3>3. v4' = [v4 EXCEPT ![c][s] = v5[s]]
      BY <1>2, <2>2, <2>7, <3>1, <3>2, PartsAssumption
    <3>4. v4'[c][s] = v5[s]
      BY <1>1, <2>2, <3>3, SnapTyped
    <3>5. QED
      BY <3>1, <3>2, <3>4
  <2>8. QED
    BY <1>2, <2>1, <2>4, <2>6, <2>7 DEF Shots!OnCourseInv
<1>8. QED
  BY <1>1, <1>5, <1>6, <1>7 DEF Shots!SwitchInv

\* A switch begins: all there is to know of the logs is on the Hub.
LEMMA SnapTicks ==
    ASSUME Shots!SwitchInv, NEW c \in Client, v15', Shots!SyncTicks(c)
    PROVE  Shots!SwitchInv'
<1>1. /\ Shots!TypeOK /\ Shots!TypeOK' /\ Shots!TurnInv /\ Shots!TimesInv
      /\ Shots!MessagesInv /\ Shots!HolderInv
  BY SnapTypes DEF Shots!SwitchInv, SnapAction
<1>2. /\ UNCHANGED <<v1, v2, v4, v5, v6, v9, v11, v12, v10>>
      /\ \E sent \in BOOLEAN :
            v8' = IF sent THEN [v8 EXCEPT ![c] = v7[c][c]] ELSE v8
  BY DEF Shots!SyncTicks, Shots!Set, Shots!sessions
<1>3. Shots!CaughtUp(c)
  BY Zenon DEF Shots!SyncTicks
<1>4. /\ \A d \in Client : v13'[d] = IF d = c THEN "ticks" ELSE v13[d]
      /\ \A d \in Client : v16'[d] = v1 \/ v16'[d] = v16[d] \/ v16'[d] = {}
  <2>1. /\ v13' = [v13 EXCEPT ![c] = "ticks"]
        /\ \E g \in {v1, {}} : v16' = [v16 EXCEPT ![c] = g]
    BY DEF Shots!SyncTicks, Shots!Set
  <2>2. QED
    BY <1>1, <2>1, SnapTyped
<1>5. \A d \in Client : ~Shots!Switches(d) /\ (Shots!Switches(d)' => d = c)
  BY <1>3, <1>4 DEF Shots!CaughtUp, Shots!Switches
<1>6. /\ \A d \in Client : v8[d] = v7[d][d] /\ v8'[d] = v8[d]
      /\ \A d, s \in Client : v7'[d][s] = IF d = c THEN v7[s][s] ELSE v7[d][s]
  <2>1. \A d \in Client : v8[d] = v7[d][d]
    BY <1>3 DEF Shots!CaughtUp
  <2>2. \A d \in Client : v8'[d] = v8[d]
    BY <1>1, <1>2, <2>1, SnapTyped
  <2>3. v7' = [v7 EXCEPT ![c] = [s \in Client |-> IF s = c THEN v7[c][c] ELSE v8[s]]]
    BY DEF Shots!SyncTicks, Shots!Set
  <2>4. QED
    BY <1>1, <2>1, <2>2, <2>3, SnapTyped
<1>7. Shots!TimesInv'
  <2>1. \A s \in Client : v7[s][s] \in Shots!Times(s) /\ Shots!Times(s)' \subseteq Shots!Times(s)
    BY <1>2, <1>6 DEF Shots!Times
  <2>2. \A s \in Client : v7'[s][s] = v7[s][s]
    BY <1>6
  <2>3. \A d, s \in Client : d # s => v7'[d][s] <= v8'[s]
    BY <1>1, <1>6, SnapCopies
  <2>4. QED
    BY <1>1, <1>2, <2>1, <2>2, <2>3 DEF Shots!TimesInv
<1>8. Shots!MessagesInv'
  BY <1>1, <1>2, <1>4, SnapMessagesFrame
<1>9. Shots!TurnInv'
  <2>1. \A d \in Client : v11[d] = "foreign" => d = c
    BY <1>3 DEF Shots!CaughtUp
  <2>2. \A d \in Client : v13'[d] # "claimed"
    BY <1>4, <1>5 DEF Shots!Switches
  <2>3. QED
    BY <1>1, <1>2, <1>5, <2>1, <2>2 DEF Shots!TurnInv
<1>10. Shots!Ahead /\ Shots!Whole(v10)
  BY <1>1, <1>3, <1>5, SnapTyped DEF Shots!HolderInv, Shots!CaughtUp, Shots!Switches
<1>11. Shots!Ahead' /\ Shots!HolderInv'
  <2>1. Shots!Ahead'
    BY <1>2, <1>6, <1>10 DEF Shots!Ahead, Shots!Whole
  <2>2. QED
    BY <1>2, <1>10, <2>1 DEF Shots!HolderInv, Shots!Whole
<1>12. Shots!SwitchKeepsAll'
  <2>1. \A d \in Client : d # c => v16'[d] = v16[d]
    BY <1>1, SnapTyped DEF Shots!SyncTicks, Shots!Set
  <2>2. QED
    BY <1>2, <1>4, <2>1 DEF Shots!SwitchInv, Shots!SwitchKeepsAll
<1>13. ASSUME NEW k \in Client, Shots!OnCourse(k)'
       PROVE  Shots!OnCourseInv(k)'
  <2>1. k = c
    BY <1>5, <1>13 DEF Shots!OnCourse
  <2>2. PICK t \in Client : v7[t][t] = v6 /\ Shots!Whole(t) /\ v6 > 0
    BY <1>10 DEF Shots!Ahead
  <2>3. \A s \in Client : v7'[c][s] = v7[s][s] /\ v7[s][s] <= v7[t][t]
    BY <1>1, <1>6, <2>2, SnapCopies
  <2>4. \A s \in Client : Shots!Whole(s) \/ v7[s][s] < v7[t][t]
    <3>1. ASSUME NEW s \in Client, s # t
          PROVE  v7[s][s] < v7[t][t]
      <4>1. v7[s][s] \in Shots!Times(s) /\ v7[t][t] \in Shots!Times(t) /\ v7[t][t] # 0
        BY <2>2 DEF Shots!Times
      <4>2. v7[s][s] # v7[t][t]
        BY <1>1, <3>1, <4>1 DEF Shots!TimesInv
      <4>3. QED
        BY <1>1, <2>3, <4>2, SnapCopies
    <3>2. QED
      BY <2>2, <3>1
  <2>5. Shots!Leads(c, t)'
    BY <1>2, <1>6, <2>2, <2>3, <2>4 DEF Shots!Leads, Shots!Whole
  <2>6. ASSUME NEW d \in Client, d # c, Shots!Whole(d)
        PROVE  Shots!Carried(d)
    <3>1. v4[d][d] = v2[d] /\ v5[d] = v4[d][d] /\ v11[d] = "idle"
      BY <1>1, <1>3, <2>6, SnapNumbered DEF Shots!CaughtUp, Shots!Whole
    <3>2. QED
      BY <1>1, <2>6, <3>1 DEF Shots!Carried, Shots!Whole, Shots!TurnInv
  <2>7. v13'[c] = "ticks"
    BY <1>4
  <2>8. QED
    BY <1>2, <1>11, <2>1, <2>5, <2>6, <2>7 DEF Shots!OnCourseInv, Shots!Whole,
       Shots!Carried
<1>14. QED
  BY <1>1, <1>7, <1>8, <1>9, <1>11, <1>12, <1>13 DEF Shots!SwitchInv

\* What is logged as active has every message.
LEMMA SnapSample ==
    ASSUME Shots!SwitchInv, NEW c \in Client, v15', Shots!Sample(c)
    PROVE  Shots!SwitchInv'
<1>1. /\ Shots!TypeOK /\ Shots!TypeOK' /\ Shots!TurnInv /\ Shots!TimesInv
      /\ Shots!MessagesInv /\ Shots!HolderInv
  BY SnapTypes DEF Shots!SwitchInv, SnapAction
<1>2. /\ UNCHANGED <<v1, v2, v4, v5, v8, v10, v13>>
      /\ v11[c] \in {"own", "foreign", "blind"}
  BY DEF Shots!Sample, Shots!sessions
<1>3. v16' = v16
  BY Zenon DEF Shots!Sample
<1>4. /\ \A d \in Client : d # c => v11'[d] = v11[d] /\ v12'[d] = v12[d]
      /\ \/ v11'[c] = "export" /\ v12'[c] = v2[c]
         \/ v11'[c] = "idle" /\ v12'[c] = v12[c]
  <2>1. \/ v11' = [v11 EXCEPT ![c] = "export"] /\ v12' = [v12 EXCEPT ![c] = v2[c]]
        \/ v11' = [v11 EXCEPT ![c] = "idle"] /\ v12' = v12
    BY DEF Shots!Sample, Shots!Set
  <2>2. QED
    BY <1>1, <2>1, SnapTyped
<1>5. /\ \A d \in Client : v12'[d] # {} => v11'[d] = "export"
      /\ \A d \in Client : v11'[d] = "foreign" => v11[d] = "foreign" /\ d # c
      /\ \A d \in Client : Shots!Whole(d) /\ Shots!Carried(d) => Shots!Carried(d)'
  BY <1>1, <1>2, <1>4 DEF Shots!TurnInv, Shots!Carried, Shots!Whole
<1>6. Shots!MessagesInv' /\ Shots!SwitchKeepsAll'
  BY <1>2, <1>3, SnapMessagesFrame, SnapKeepsFrame DEF Shots!SwitchInv
<1>7. CASE v9[c] # "changed"
  <2>1. UNCHANGED <<v6, v7, v9>>
    BY <1>7 DEF Shots!Sample, Shots!Counts
  <2>2. Shots!TimesInv' /\ Shots!HolderInv'
    BY <1>1, <1>2, <2>1, SnapTimesFrame, SnapHolderFrame
  <2>3. Shots!TurnInv'
    BY <1>1, <1>2, <1>5, <2>1 DEF Shots!TurnInv, Shots!Switches
  <2>4. \A k \in Client : Shots!OnCourse(k)' => Shots!OnCourseInv(k)'
    BY <1>1, <1>2, <1>3, <1>5, <2>1, SnapCourseFrame DEF Shots!SwitchInv
  <2>5. QED
    BY <1>1, <1>6, <2>2, <2>3, <2>4 DEF Shots!SwitchInv
<1>8. CASE v9[c] = "changed"
  <2>1. /\ v6' = v6 + 1 /\ v7' = [v7 EXCEPT ![c][c] = v6']
        /\ v9' = [v9 EXCEPT ![c] = "same"]
    BY <1>8 DEF Shots!Sample, Shots!Counts, Shots!Set
  <2>2. ~Shots!Unexpected(c)
    BY <1>8, Zenon DEF Shots!Sample, Shots!Counts
  <2>3. v10 = c /\ ~Shots!Switches(c) /\ v13[c] # "claimed"
    BY <1>1, <1>2, <1>8, <2>2 DEF Shots!Unexpected, Shots!TurnInv, Shots!Switches
  <2>4. Shots!Whole(c)
    BY <1>1, <2>3 DEF Shots!HolderInv
  <2>5. /\ v6 \in Nat /\ v6' \in 0 .. MaxTick
        /\ v7 \in [Client -> [Client -> 0 .. MaxTick]]
    BY <1>1, SnapTyped, Numbers DEF Shots!TypeOK
  <2>6. \A d, s \in Client : v7'[d][s] = IF d = c /\ s = c THEN v6' ELSE v7[d][s]
    BY <2>1, <2>5
  <2>7. \A d \in Client : v9'[d] = IF d = c THEN "same" ELSE v9[d]
    BY <1>1, <2>1, SnapTyped
  <2>8. Shots!TimesInv'
    <3>1. \A s \in Client : Shots!Times(s) \subseteq 0 .. v7[s][s] /\ v7[s][s] <= v6
      BY <1>1 DEF Shots!TimesInv
    <3>2. \A s \in Client : v7[s][s] \in Nat
      BY <1>1, SnapCopies
    <3>3. \A s \in Client :
             \/ Shots!Times(s)' \subseteq Shots!Times(s)
             \/ s = c /\ Shots!Times(s)' \subseteq Shots!Times(s) \cup {v6'}
      BY <1>2, <2>6 DEF Shots!Times
    <3>4. \A s \in Client : v6' \notin Shots!Times(s)
      BY <2>1, <2>5, <3>1, <3>2
    <3>5. \A s \in Client : Shots!Times(s)' \subseteq 0 .. v7'[s][s] /\ v7'[s][s] <= v6'
      BY <2>1, <2>5, <2>6, <3>1, <3>2, <3>3
    <3>6. \A d, s \in Client : d # s => v7'[d][s] <= v8'[s]
      BY <1>1, <1>2, <2>6 DEF Shots!TimesInv
    <3>7. \A s, t \in Client : s # t => Shots!Times(s)' \cap Shots!Times(t)' \subseteq {0}
      BY <1>1, <3>3, <3>4 DEF Shots!TimesInv
    <3>8. QED
      BY <3>5, <3>6, <3>7 DEF Shots!TimesInv
  <2>9. Shots!Ahead'
    BY <1>2, <2>1, <2>4, <2>5, <2>6 DEF Shots!Ahead, Shots!Whole
  <2>10. Shots!HolderInv' /\ Shots!TurnInv'
    <3>1. Shots!HolderInv'
      BY <1>2, <2>3, <2>4, <2>9 DEF Shots!HolderInv, Shots!Whole
    <3>2. Shots!TurnInv'
      BY <1>1, <1>2, <1>5, <2>7 DEF Shots!TurnInv, Shots!Switches
    <3>3. QED
      BY <3>1, <3>2
  <2>11. ASSUME NEW k \in Client, Shots!OnCourse(k)'
         PROVE  Shots!OnCourseInv(k)'
    <3>1. Shots!OnCourse(k) /\ Shots!OnCourseInv(k) /\ k # c
      BY <1>2, <1>3, <2>3, <2>11 DEF Shots!SwitchInv, Shots!OnCourse, Shots!Switches
    <3>2. PICK t \in Client : Shots!Leads(k, t)
      BY <3>1 DEF Shots!OnCourseInv
    <3>3. Shots!Leads(k, t)'
      BY <1>2, <2>4, <2>6, <3>1, <3>2 DEF Shots!Leads, Shots!Whole
    <3>4. \A d \in Client : d # k /\ Shots!Whole(d)' => Shots!Carried(d)'
      BY <1>2, <1>5, <3>1 DEF Shots!OnCourseInv, Shots!Whole
    <3>5. v13[k] # "ticks" => \A s \in Client :
             s # k /\ (\A u \in Client : v7'[k][u] <= v7'[k][s])
             => v1' \subseteq v4'[k][s]
      BY <1>2, <2>6, <3>1 DEF Shots!OnCourseInv
    <3>6. QED
      BY <1>2, <2>9, <3>3, <3>4, <3>5 DEF Shots!OnCourseInv
  <2>12. QED
    BY <1>1, <1>6, <2>8, <2>10, <2>11 DEF Shots!SwitchInv
<1>9. QED
  BY <1>7, <1>8

\* A resume that is on course imports an export with every message.
LEMMA SnapImport ==
    ASSUME Shots!SwitchInv, NEW c \in Client, v15', Shots!Import(c)
    PROVE  Shots!SwitchInv'
<1>1. Shots!TypeOK /\ Shots!TypeOK' /\ Shots!TurnInv /\ Shots!TimesInv /\ Shots!MessagesInv
  BY SnapTypes DEF Shots!SwitchInv, SnapAction
<1>2. /\ UNCHANGED <<v1, v4, v5, v6, v7, v8, v10, v11, v12, v16>>
      /\ v13[c] = "claimed"
  BY DEF Shots!Import, Shots!trees
<1>3. v16[c] = v1
  BY Zenon DEF Shots!Import
<1>4. Shots!OnCourseInv(c) /\ v10 = c /\ \A d \in Client : Shots!Switches(d) => d = c
  BY <1>1, <1>2, <1>3, SnapSwitch DEF Shots!SwitchInv, Shots!OnCourse, Shots!Switches,
     Shots!TurnInv
<1> DEFINE s == Shots!Latest(c)
<1>5. PICK file \in Shots!Chosen(c) \cup {f \in {{}} : Shots!Chosen(c) = {}} :
         /\ v2' = [v2 EXCEPT ![c] = v2[c] \cup file]
         /\ v9' = v9 \/ v9' = [v9 EXCEPT ![c] = "changed"]
  BY DEF Shots!Import, Shots!Set
<1>6. s \in Client /\ v7[c][s] > 0 /\ \A r \in Client : v7[c][r] <= v7[c][s]
  BY <1>1, <1>4, SnapLatest DEF Shots!OnCourseInv
<1>7. s # c /\ v4[c][s] # {} => Shots!Chosen(c) = {v4[c][s]}
  BY <1>6, PartsAssumption DEF Shots!Chosen
<1> HIDE DEF s
<1>8. \A d \in Client : v2'[d] = IF d = c THEN v2[c] \cup file ELSE v2[d]
  BY <1>1, <1>5, SnapTyped
<1>9. v1 \subseteq v2'[c]
  <2>1. CASE s = c
    BY <1>1, <1>4, <1>6, <1>8, <2>1, SnapLeaders DEF Shots!OnCourseInv, Shots!Whole
  <2>2. CASE s # c
    <3>1. v1 \subseteq v4[c][s] /\ v4[c][s] # {}
      BY <1>1, <1>2, <1>4, <1>6, <2>2, SnapNumbered DEF Shots!OnCourseInv
    <3>2. file = v4[c][s]
      BY <1>5, <1>7, <2>2, <3>1
    <3>3. QED
      BY <1>8, <3>1, <3>2
  <2>3. QED
    BY <2>1, <2>2
<1>10. \A d \in Client : v13'[d] = IF d = c THEN "done" ELSE v13[d]
  BY <1>1, SnapTyped DEF Shots!Import, Shots!Set
<1>11. Shots!MessagesInv' /\ Shots!TimesInv' /\ Shots!SwitchKeepsAll'
  <2>1. Shots!SwitchKeepsAll'
    BY <1>2, <1>3, <1>8, <1>9, <1>10 DEF Shots!SwitchInv, Shots!SwitchKeepsAll
  <2>2. QED
    BY <1>1, <1>2, <2>1, SnapMessagesFrame, SnapTimesFrame
<1>12. Shots!HolderInv'
  <2>1. Shots!Ahead'
    BY <1>2, <1>4, <1>8 DEF Shots!OnCourseInv, Shots!Ahead, Shots!Whole
  <2>2. QED
    BY <1>2, <1>4, <1>9, <2>1 DEF Shots!HolderInv, Shots!Whole
<1>13. \A d \in Client : ~Shots!Switches(d)'
  BY <1>4, <1>10 DEF Shots!Switches
<1>14. Shots!TurnInv'
  <2>1. \A d \in Client : d # c => v9'[d] = v9[d]
    BY <1>1, <1>5, SnapTyped
  <2>2. \A d \in Client : v13'[d] # "claimed"
    BY <1>13 DEF Shots!Switches
  <2>3. QED
    BY <1>1, <1>2, <1>4, <1>13, <2>1, <2>2 DEF Shots!TurnInv
<1>15. QED
  BY <1>1, <1>11, <1>12, <1>13, <1>14 DEF Shots!SwitchInv, Shots!OnCourse

LEMMA SnapStarts ==
    ASSUME Shots!Init
    PROVE  Shots!SwitchInv
<1>1. v10 \in Client /\ v1 = {1} /\ 1 \in Shots!Message /\ Shots!Message = 1 .. MaxMessage
  BY Numbers DEF Shots!Init, Shots!Message
<1>2. Shots!TypeOK
  BY <1>1, Numbers, SMTT(60) DEF Shots!Init, Shots!TypeOK
<1>3. Shots!MessagesInv
  <2>1. {1} = 1 .. 1 /\ 1 \in 1 .. MaxMessage
    BY Numbers
  <2>2. \A c \in Client : v16[c] = {}
    BY DEF Shots!Init
  <2>3. QED
    BY <1>1, <2>1, <2>2 DEF Shots!MessagesInv
<1>4. Shots!TimesInv
  <2>1. v6 = 0 /\ \A c, s \in Client : v7[c][s] = 0 /\ v8[s] = 0
    BY DEF Shots!Init
  <2>2. \A s \in Client : Shots!Times(s) = {0}
    BY <2>1 DEF Shots!Times
  <2>3. QED
    BY <2>1, <2>2 DEF Shots!TimesInv
<1>5. \A c \in Client : v13[c] = "idle" /\ v12[c] = {} /\ v11[c] = "idle"
  BY DEF Shots!Init
<1>6. Shots!TurnInv /\ Shots!SwitchKeepsAll /\ \A c \in Client : ~Shots!OnCourse(c)
  BY <1>1, <1>5 DEF Shots!TurnInv, Shots!SwitchKeepsAll, Shots!OnCourse, Shots!Switches
<1>7. Shots!HolderInv
  BY <1>1 DEF Shots!Init, Shots!HolderInv, Shots!Whole
<1>8. QED
  BY <1>2, <1>3, <1>4, <1>6, <1>7 DEF Shots!SwitchInv

LEMMA SnapSteps ==
    ASSUME Shots!SwitchInv, Shots!Next, v15'
    PROVE  Shots!SwitchInv'
  BY SnapWrite, SnapQuiet, SnapSample, SnapUpload, SnapDownload, SnapTicks, SnapWinner,
     SnapClaim, SnapImport, SnapFail DEF Shots!Next

LEMMA SnapStutters ==
    ASSUME Shots!SwitchInv, UNCHANGED Shots!vars
    PROVE  Shots!SwitchInv'
<1>1. /\ UNCHANGED <<v1, v2, v3, v4, v5, v6, v7, v8, v9, v10>>
      /\ UNCHANGED <<v11, v12, v13, v14, v15, v16>>
  BY DEF Shots!vars, Shots!sessions, Shots!trees, Shots!ghosts
<1>2. Shots!TypeOK' /\ Shots!MessagesInv' /\ Shots!TimesInv' /\ Shots!TurnInv'
  BY <1>1, SnapMessagesFrame, SnapTimesFrame DEF Shots!SwitchInv, Shots!TypeOK,
     Shots!TurnInv, Shots!Switches
<1>3. Shots!HolderInv' /\ Shots!SwitchKeepsAll'
  BY <1>1 DEF Shots!SwitchInv, Shots!HolderInv, Shots!Whole, Shots!Ahead,
     Shots!SwitchKeepsAll
<1>4. \A c \in Client : Shots!OnCourse(c)' => Shots!OnCourseInv(c)'
  BY <1>1 DEF Shots!SwitchInv, Shots!OnCourse, Shots!Switches, Shots!OnCourseInv,
     Shots!Ahead, Shots!Whole, Shots!Leads, Shots!Carried
<1>5. QED
  BY <1>2, <1>3, <1>4 DEF Shots!SwitchInv

-----------------------------------------------------------------------------
(* The properties of the run, for every behaviour of the parts.              *)

\* A behaviour begins as one of the modules does.
LEMMA PartsBegin ==
    ASSUME PartsInit
    PROVE  /\ Init
           /\ play = "bullet" => Bullet!Init
           /\ play = "snapshots" => Shots!Init
           /\ play = "native" => Native!Init
           /\ play = "takeover" => Take!Init
           /\ play = "binding" => Bind!Init
  BY DEF PartsInit, Still, Init

\* It goes on as that module does.
LEMMA PartsGoOn ==
    ASSUME [PartsNext]_parts
    PROVE  /\ UNCHANGED play
           /\ [Next]_machine
           /\ play = "bullet" => [Bullet!Next]_(Bullet!vars)
           /\ play = "snapshots" => (Shots!Next /\ v15') \/ UNCHANGED Shots!vars
           /\ play = "native" => [Native!Next]_(Native!vars)
           /\ play = "takeover" => Take!Next \/ UNCHANGED Take!vars
           /\ play = "binding" => [Bind!Next]_(Bind!vars)
<1>1. CASE PartsNext
  BY <1>1 DEF PartsNext, PlayMachine, PlayBullet, PlaySnapshots, PlayNative, PlayTakeover,
     PlayBinding
<1>2. CASE UNCHANGED parts
  BY <1>2 DEF parts, from1, from11, from13, Bullet!vars, Bullet!agents,
     Shots!vars, Shots!sessions, Shots!trees, Shots!ghosts, Native!vars,
     Take!vars, Take!world, Bind!vars, Bind!panes
<1>3. QED
  BY <1>1, <1>2

\* The validator never refuses what the guards accept (ResumeMachine.send).
THEOREM MachineSuffices ==
    ASSUME NoOne \notin Client, MaxGen \in Nat
    PROVE  PartsSpec => []GuardsSuffice
<1>1. PartsInit => MachineInv
  BY PartsBegin, MachineInit
<1>2. MachineInv /\ [PartsNext]_parts => MachineInv'
  BY PartsGoOn, MachineStep
<1>3. MachineInv => GuardsSuffice
  BY MachineGuards
<1>4. QED
  BY <1>1, <1>2, <1>3, PTL DEF PartsSpec

\* No command on the bullet overlaps another.
CommandsApart == play = "bullet" => Bullet!OneCommand

\* The inductive invariant of the bullet holds throughout.
LEMMA BulletAlways ==
    PartsSpec /\ []CommandsApart => [](play = "bullet" => Bullet!BulletInv)
<1> DEFINE Inv == play = "bullet" => Bullet!BulletInv
<1>1. PartsInit => Inv
  BY PartsBegin, BulletInitial
<1>2. Inv /\ CommandsApart /\ CommandsApart' /\ [PartsNext]_parts => Inv'
  BY PartsGoOn, BulletStep DEF CommandsApart
<1> HIDE DEF Inv
<1>3. PartsSpec /\ []CommandsApart => []Inv
  BY <1>1, <1>2, PTL DEF PartsSpec
<1>4. QED
  BY <1>3 DEF Inv

\* While commands on the bullet do not overlap, a resume or a rebuild starts the
\* only agent at the run point that names the bound session, whatever remote
\* calls failed (_fence_remote_bullet).
THEOREM BulletWritesAlone == PartsSpec /\ []CommandsApart => OneWriter
<1> DEFINE Inv == play = "bullet" => Bullet!BulletInv
           One == play = "bullet" => Bullet!StartsTheOne
<1>1. Inv => One
  BY BulletStartsAlone
<1>2. One => [One]_parts
  OBVIOUS
<1>3. PartsSpec /\ []CommandsApart => []Inv
  BY BulletAlways
<1> HIDE DEF Inv
<1>4. QED
  BY <1>1, <1>2, <1>3, PTL DEF OneWriter

\* Where its scan and its kill got through, it starts the only agent in the
\* container at all (orphan.py).
THEOREM BulletIsSwept == PartsSpec /\ []CommandsApart => StartsAlone
<1> DEFINE Inv == play = "bullet" => Bullet!BulletInv
           Alone == play = "bullet" => Bullet!StartsTheOnly
<1>1. Inv => Alone
  BY BulletStartsAlone
<1>2. Alone => [Alone]_parts
  OBVIOUS
<1>3. PartsSpec /\ []CommandsApart => []Inv
  BY BulletAlways
<1> HIDE DEF Inv
<1>4. QED
  BY <1>1, <1>2, <1>3, PTL DEF StartsAlone

\* Where every switch waits for the exports before it, a resume continues the
\* session with every message: no Client is overtaken by the stale session of
\* another (the snapshots of auto_snapshot and resume's choice among them).
THEOREM SwitchAlwaysKeepsAll == PartsSpec => []SwitchKeepsAll
<1> DEFINE Inv == play = "snapshots" => Shots!SwitchInv
<1>1. PartsInit => Inv
  BY PartsBegin, SnapStarts
<1>2. Inv /\ [PartsNext]_parts => Inv'
  BY PartsGoOn, SnapSteps, SnapStutters
<1>3. Inv => SwitchKeepsAll
  BY DEF SwitchKeepsAll, Shots!SwitchInv
<1> HIDE DEF Inv
<1>4. QED
  BY <1>1, <1>2, <1>3, PTL DEF PartsSpec

\* A native session file only grows at its end, but for the rows that an
\* overtaken import takes out again (cli.py: the native import of a resume).
THEOREM RowsAlwaysKept == PartsSpec => RowsKept
<1> DEFINE Inv == play = "native" => Native!ImportInv
           Kept == play = "native" => Native!KeepsRows
<1>1. PartsInit => Inv
  BY PartsBegin, NativeInitial
<1>2. Inv /\ [PartsNext]_parts => Inv'
  BY PartsGoOn, NativeStep
<1>3. Inv /\ [PartsNext]_parts => [Kept]_parts
  BY PartsGoOn, NativeStep
<1> HIDE DEF Inv
<1>4. QED
  BY <1>1, <1>2, <1>3, PTL DEF PartsSpec, RowsKept

\* A finished import continues every export it had when it decided.
THEOREM ImportsContinueAll == PartsSpec => []ContinuesAll
<1> DEFINE Inv == play = "native" => Native!ImportInv
<1>1. PartsInit => Inv
  BY PartsBegin, NativeInitial
<1>2. Inv /\ [PartsNext]_parts => Inv'
  BY PartsGoOn, NativeStep
<1>3. Inv => ContinuesAll
  BY DEF ContinuesAll, Native!ImportInv
<1> HIDE DEF Inv
<1>4. QED
  BY <1>1, <1>2, <1>3, PTL DEF PartsSpec

\* What the web page showed as possible is refused, if nothing happened since,
\* only for a side without a session or one that cannot be carried.
THEOREM PlanAlwaysHonoured == PartsSpec => []PlanHonoured
<1> DEFINE Inv == play = "takeover" => Take!PlanInv
<1>1. PartsInit => Inv
  BY PartsBegin, TakeInitial
<1>2. Inv /\ [PartsNext]_parts => Inv'
  BY PartsGoOn, TakeStep, TakeStays
<1>3. Inv => PlanHonoured
  BY DEF PlanHonoured, Take!PlanInv
<1> HIDE DEF Inv
<1>4. QED
  BY <1>1, <1>2, <1>3, PTL DEF PartsSpec

\* A freeze saves a side it proved with a session that exists, and leaves the
\* other sides as they were when it began (freeze_tunnel).
THEOREM FreezeKeepsOldBinding == PartsSpec => OldBindingKept
<1> DEFINE Inv == play = "binding" => Bind!FreezeInv
           Kept == play = "binding" => Bind!KeepsOldBinding
<1>1. PartsInit => Inv
  BY PartsBegin, BindingInitial
<1>2. Inv /\ [PartsNext]_parts => Inv'
  BY PartsGoOn, BindingStep
<1>3. Inv /\ [PartsNext]_parts => [Kept]_parts
  BY PartsGoOn, BindingSaves
<1> HIDE DEF Inv
<1>4. QED
  BY <1>1, <1>2, <1>3, PTL DEF PartsSpec, OldBindingKept

\* Between commands the script of the bullet leads where the tunnel's file says,
\* unless commands overlapped or ended early.
THEOREM EntryAlwaysAgrees == PartsSpec => []EntryAgrees
<1> DEFINE Inv == play = "binding" => Bind!FreezeInv /\ Bind!EntryInv
<1>1. PartsInit => Inv
  BY PartsBegin, BindingInitial
<1>2. Inv /\ [PartsNext]_parts => Inv'
  BY PartsGoOn, BindingStep, BindingEntryStep
<1>3. Inv => EntryAgrees
  BY DEF EntryAgrees, Bind!EntryInv, Bind!EntryAgrees
<1> HIDE DEF Inv
<1>4. QED
  BY <1>1, <1>2, <1>3, PTL DEF PartsSpec
=============================================================================

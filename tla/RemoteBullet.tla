---------------------------- MODULE RemoteBullet ----------------------------
(***************************************************************************)
(* The bullet of a tunnel on a remote server (recovery.py: the route, the  *)
(* fence and the import; orphan.py; cli.py: _apply_resume_legacy,          *)
(* _apply_rebuild_legacy, _apply_model_legacy, _start_side).               *)
(*                                                                         *)
(* The bullet's agent runs at a run point: the server itself or one of its *)
(* containers.  A pane of the Client reaches it over a chain of ssh and    *)
(* docker exec; when the chain breaks, the agent may live on.  Before a    *)
(* command starts an agent it finds the run point that has the session,    *)
(* joins it, and ends what runs there.  Every one of these remote calls    *)
(* may fail.                                                               *)
(***************************************************************************)
EXTENDS Naturals, FiniteSetsExt

CONSTANTS
    Server,        \* the run point outside all containers
    Container,     \* the run points in containers
    Job,           \* processes of the Client that run commands
    MaxAgents,     \* bound: agents that are ever started
    MaxFaults,     \* bound: remote calls that fail
    MaxWorld       \* bound: chains that break, sessions that move, patrols

Place == Container \cup {Server}
Agent == 1 .. MaxAgents      \* numbered as they are started
Nowhere == "shell"
Nobody == 0

VARIABLES
    snapshot,   \* whether the Client keeps a snapshot of the session
    route,      \* runtime.container in the tunnel's file
    copies,     \* run points whose database has the bound session
    lives,      \* the agents that run
    place,      \* where each agent runs
    named,      \* agents with the session's id on their command line
    pane,       \* where the chain of the bullet's pane ends
    tui,        \* the agent that the pane shows
    job,        \* what each process does
    started,    \* how many agents have been started
    faults, world

agents == <<lives, place, named, started>>
vars == <<snapshot, route, copies, agents, pane, tui, job, faults, world>>

Kinds == {"resume", "rebuild", "model"}
Steps == {"idle", "route", "jump", "fence", "sweep", "import", "writers", "start"}

TypeOK ==
    /\ snapshot \in BOOLEAN
    /\ route \in Place /\ copies \in SUBSET Place
    /\ lives \in SUBSET (1 .. started) /\ named \in SUBSET Agent
    /\ place \in [Agent -> Place]
    /\ pane \in Place \cup {Nowhere}
    /\ tui \in lives \cup {Nobody}
    /\ tui # Nobody => pane = place[tui]
    /\ job \in [Job -> [at : Steps, kind : Kinds, unsure : BOOLEAN]]
    /\ started \in 0 .. MaxAgents
    /\ faults \in 0 .. MaxFaults /\ world \in 0 .. MaxWorld

Idle == [at |-> "idle", kind |-> "resume", unsure |-> FALSE]

Init ==
    /\ snapshot \in BOOLEAN
    /\ route \in Place /\ copies = {route}
    /\ lives = {} /\ named = {} /\ place = [n \in Agent |-> route]
    /\ pane = Nowhere /\ tui = Nobody
    /\ job = [p \in Job |-> Idle]
    /\ started = 0
    /\ faults = 0 /\ world = 0

-----------------------------------------------------------------------------
Goes(p, step) == job' = [job EXCEPT ![p].at = step]
Stops(p) == job' = [job EXCEPT ![p] = Idle]

\* ssh or docker fails, or takes longer than 12 seconds.
Fault == faults < MaxFaults /\ faults' = faults + 1

Here(x) == {n \in lives : place[n] = x}

\* Agents end; the pane of one of them is back at the shell of its run point.
Kills(these) ==
    /\ lives' = lives \ these
    /\ tui' = IF tui \in these THEN Nobody ELSE tui
    /\ UNCHANGED <<place, named, started>>

\* fence_remote_bullet finds the agents that name the session; sweep_run_point
\* finds every agent, but only in a container.
Fenced == Here(route) \cap named
\* Mutant: only the agents that name the session are swept.
SweptNamed == Fenced
Swept == IF route \in Container THEN Here(route) ELSE {}

Begin(p) ==
    /\ job[p].at = "idle"
    /\ \E k \in Kinds :
          job' = [job EXCEPT ![p] = [Idle EXCEPT !.at = "route", !.kind = k]]
    /\ UNCHANGED <<snapshot, route, copies, agents, pane, tui, faults, world>>

-----------------------------------------------------------------------------
(* The route: reconcile_remote_runtime and what its callers make of it. *)

RouteKept(p) ==
    /\ job[p].at = "route"
    /\ \/ route \in copies /\ UNCHANGED faults
       \/ copies = {} /\ (snapshot \/ job[p].kind # "resume") /\ UNCHANGED faults
       \/ Cardinality(copies) > 1 /\ job[p].kind = "rebuild" /\ UNCHANGED faults
       \/ Fault
    /\ Goes(p, "jump")
    /\ UNCHANGED <<snapshot, route, copies, agents, pane, tui, world>>

\* The session is not where the tunnel's file has it, and at one other place.
RouteRepaired(p) ==
    /\ job[p].at = "route"
    /\ route \notin copies /\ Cardinality(copies) = 1
    /\ route' \in copies
    /\ Goes(p, "jump")
    /\ UNCHANGED <<snapshot, copies, agents, pane, tui, faults, world>>

\* The session is at several other places, or nowhere and not in a snapshot.
RouteRefused(p) ==
    /\ job[p].at = "route" /\ route \notin copies
    /\ \/ Cardinality(copies) > 1 /\ job[p].kind # "rebuild"
       \/ copies = {} /\ ~snapshot /\ job[p].kind = "resume"
    /\ Stops(p)
    /\ UNCHANGED <<snapshot, route, copies, agents, pane, tui, faults, world>>

\* _ensure_remote_jump: a pane that has a chain keeps it, wherever it ends.
Jump(p) ==
    /\ job[p].at = "jump"
    /\ pane' = IF pane = Nowhere THEN route ELSE pane
    /\ Goes(p, CASE job[p].kind # "resume" -> "fence"
                 [] tui # Nobody -> "writers"
                 [] OTHER -> "sweep")
    /\ UNCHANGED <<snapshot, route, copies, agents, tui, faults, world>>

JumpFails(p) ==
    /\ job[p].at = "jump" /\ pane = Nowhere
    /\ Fault /\ Stops(p)
    /\ UNCHANGED <<snapshot, route, copies, agents, pane, tui, world>>

-----------------------------------------------------------------------------
(* Fence, sweep and import. *)

\* Rebuild and model fence before all else.
Fence(p) ==
    /\ job[p].at = "fence"
    /\ Kills(Fenced)
    /\ Goes(p, IF job[p].kind = "rebuild" THEN "sweep" ELSE "start")
    /\ UNCHANGED <<snapshot, route, copies, pane, faults, world>>

\* A rebuild stops at a fence that fails; model goes on.
FenceFails(p) ==
    /\ job[p].at = "fence" /\ Fault
    /\ IF job[p].kind = "rebuild" THEN Stops(p)
       ELSE job' = [job EXCEPT ![p].at = "start", ![p].unsure = TRUE]
    /\ UNCHANGED <<snapshot, route, copies, agents, pane, tui, world>>

Sweep(p) ==
    /\ job[p].at = "sweep"
    /\ Kills(Swept)
    /\ Goes(p, IF tui' = Nobody THEN "import" ELSE "writers")
    /\ UNCHANGED <<snapshot, route, copies, pane, faults, world>>

\* A rebuild stops at a scan that fails; a resume goes on.  Both go on when the
\* kill after the scan fails, for its outcome is not read.
SweepFails(p) ==
    /\ job[p].at = "sweep" /\ route \in Container /\ Fault
    /\ \/ job[p].kind = "rebuild" /\ Stops(p)
       \/ /\ job[p].kind = "resume" \/ Swept # {}
          /\ job' = [job EXCEPT ![p].at = IF tui = Nobody THEN "import" ELSE "writers",
                                ![p].unsure = TRUE]
    /\ UNCHANGED <<snapshot, route, copies, agents, pane, tui, world>>

\* ensure_remote_session: a session that is missing at the run point is
\* imported from the Client's snapshot, if it has one.
Import(p) ==
    /\ job[p].at = "import"
    /\ copies' = IF snapshot THEN copies \cup {route} ELSE copies
    /\ Goes(p, "writers")
    /\ UNCHANGED <<snapshot, route, agents, pane, tui, faults, world>>

ImportFails(p) ==
    /\ job[p].at = "import" /\ Fault /\ Stops(p)
    /\ UNCHANGED <<snapshot, route, copies, agents, pane, tui, world>>

-----------------------------------------------------------------------------
(* _start_side and _fence_remote_bullet. *)

\* A session with one agent is left to it; with several, all are ended.
StartsAnew == tui = Nobody /\ Cardinality(Fenced) # 1

\* Mutant: a check that fails counts as no writer.
WritersBlind(p) ==
    /\ job[p].at = "writers" /\ tui = Nobody
    /\ \/ Kills(Fenced) /\ UNCHANGED faults
       \/ UNCHANGED <<agents, tui>> /\ Fault
    /\ Goes(p, "start")
    /\ UNCHANGED <<snapshot, route, copies, pane, world>>

Writers(p) ==
    /\ job[p].at = "writers" /\ StartsAnew
    /\ Kills(Fenced)
    /\ Goes(p, "start")
    /\ UNCHANGED <<snapshot, route, copies, pane, faults, world>>

WritersSuffice(p) ==
    /\ job[p].at = "writers"
    /\ \/ ~StartsAnew /\ UNCHANGED faults
       \/ Fault
    /\ Stops(p)
    /\ UNCHANGED <<snapshot, route, copies, agents, pane, tui, world>>

\* The command goes to where the pane's chain ends.
Starts(p) ==
    /\ job[p].at = "start" /\ pane # Nowhere /\ tui = Nobody
    /\ started < MaxAgents /\ started' = started + 1
    /\ lives' = lives \cup {started'}
    /\ place' = [place EXCEPT ![started'] = pane]
    /\ tui' = started'
    /\ Stops(p)
    /\ UNCHANGED <<snapshot, route, pane, faults, world>>

\* An agent for a session that is not there ends at once.
StartBound(p) ==
    /\ job[p].kind # "model" /\ pane \in copies
    /\ Starts(p)
    /\ named' = named \cup {started'}
    /\ UNCHANGED copies

\* dt model starts a session of its own and freezes it: now this one is bound.
StartModel(p) ==
    /\ job[p].kind = "model"
    /\ Starts(p)
    /\ \/ copies' = {pane} /\ named' = {}
       \/ UNCHANGED <<copies, named>>      \* the freeze fails

StartsNothing(p) ==
    /\ job[p].at = "start"
    /\ \/ pane = Nowhere \/ tui # Nobody
       \/ job[p].kind # "model" /\ pane \notin copies
    /\ Stops(p)
    /\ UNCHANGED <<snapshot, route, copies, agents, pane, tui, faults, world>>

-----------------------------------------------------------------------------
(* Orphans. *)

\* Of the agents at a run point one is legal: the newest that names the
\* session, or the newest of all.
Newest(these) == {n \in these : \A m \in these : m <= n}
Legal(these) == Newest(IF these \cap named # {} THEN these \cap named ELSE these)

\* The others end, if they are old enough.
Cleans(youngest) ==
    Kills({n \in Here(route) \ Legal(Here(route)) : n <= youngest})

\* dt orphans --clean.  (The patrol of a tick only reports the orphans of a
\* tunnel whose sides are both bound.)
Clean ==
    /\ world < MaxWorld /\ world' = world + 1
    /\ route \in Container
    /\ \E youngest \in Agent : Cleans(youngest)
    /\ UNCHANGED <<snapshot, route, copies, pane, job, faults>>

\* dt drop and dt rm --kill: the agent is fenced, or not, and the pane ends.
Drop ==
    /\ world < MaxWorld /\ world' = world + 1
    /\ \/ lives' = lives \ Fenced /\ UNCHANGED faults
       \/ UNCHANGED lives /\ Fault
    /\ pane' = Nowhere /\ tui' = Nobody
    /\ UNCHANGED <<snapshot, route, copies, place, named, started, job>>

\* The pane's chain breaks; its agent ends with it, or lives on.
Break ==
    /\ world < MaxWorld /\ world' = world + 1
    /\ pane # Nowhere /\ pane' = Nowhere
    /\ tui' = Nobody
    /\ lives' \in {lives, lives \ {tui}}
    /\ UNCHANGED <<snapshot, route, copies, place, named, started, job, faults>>

\* A container is made anew, or its data are moved.
Move ==
    /\ world < MaxWorld /\ world' = world + 1
    /\ \E x \in Place : copies' \in {copies \ {x}, copies \cup {x}}
    /\ UNCHANGED <<snapshot, route, agents, pane, tui, job, faults>>

Step(p) ==
    \/ Begin(p) \/ RouteKept(p) \/ RouteRepaired(p) \/ RouteRefused(p)
    \/ Jump(p) \/ JumpFails(p) \/ Fence(p) \/ FenceFails(p)
    \/ Sweep(p) \/ SweepFails(p) \/ Import(p) \/ ImportFails(p)
    \/ Writers(p) \/ WritersSuffice(p) \/ StartBound(p) \/ StartModel(p)
    \/ StartsNothing(p)

Next == (\E p \in Job : Step(p)) \/ Clean \/ Drop \/ Break \/ Move

Spec == Init /\ [][Next]_vars

-----------------------------------------------------------------------------
StartsTheOne ==
    \A p \in Job :
        StartBound(p) /\ pane = route => Here(pane) \cap named = {}

\* A resume or a rebuild starts the one writer of its session: no other agent
\* at the run point has the session on its command line, whatever failed, if
\* the pane's chain ends where the tunnel's file says (cli.py:
\* _fence_remote_bullet).
OneWriter == [][StartsTheOne]_vars

StartsTheOnly ==
    \A p \in Job :
        StartBound(p) /\ pane = route /\ pane \in Container /\ ~job[p].unsure
        => Here(pane) = {}

\* If also its scan and its kill got through, its container has no other agent
\* at all, whoever left it there (orphan.py, S13).
StartsAlone == [][StartsTheOnly]_vars

-----------------------------------------------------------------------------
(* The inductive invariant, for commands that do not overlap.                *)

OneCommand == \A p, q \in Job : job[p].at # "idle" /\ job[q].at # "idle" => p = q

\* The pane shows no other agent than the one that was started last.
ShowsLast == tui # Nobody => tui = started

\* A resume does not fence.  A command that is about to continue the session
\* has ended its writers, and the pane shows none.  One whose calls got through,
\* with no agent left in the pane, has swept the container: when it looks for
\* writers it finds at most one with the session there, and then none.
Prepared(p) ==
    /\ job[p].at = "fence" => job[p].kind # "resume"
    /\ job[p].at = "start" /\ job[p].kind # "model" => Fenced = {}
    /\ job[p].at \in {"import", "start"} /\ job[p].kind # "model" => tui = Nobody
    /\ job[p].kind # "model" /\ ~job[p].unsure
       /\ pane = route /\ route \in Container /\ tui = Nobody
       => /\ job[p].at \in {"import", "start"} => Here(route) = {}
          /\ job[p].at = "writers" =>
                Here(route) = {} \/ \E n \in named : Here(route) = {n}

BulletInv == TypeOK /\ ShowsLast /\ \A p \in Job : Prepared(p)
=============================================================================

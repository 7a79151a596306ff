------------------------------ MODULE Binding -------------------------------
(* Freezing: which session runs in each of the two panes of a tunnel is      *)
(* found out, proven, and bound.  One attempt per side goes through its      *)
(* state machine on a copy of the tunnel's data; the command saves the data  *)
(* when it has tried all sides.  Commands are not kept apart by a lock.      *)
EXTENDS Naturals, FiniteSets

CONSTANTS
    Job,        \* processes of one Client that freeze, or change the model
    MaxTime,    \* bound: agents started and sessions begun
    MaxCommand  \* bound: commands begun

Side == {"trigger", "bullet"}
Pane == Side \cup {"other"}   \* a pane of another tunnel
Spot == {"local", "box"}      \* this Client, and a container on a server
None == 0
Session == 1 .. MaxTime       \* named after the time they were begun

Opposite(s) == IF s = "trigger" THEN "bullet" ELSE "trigger"

VARIABLES
    now,     \* the time: it advances with every start and every new session
    tool,    \* "opencode", or "native" for Codex, Claude and abc
    place,   \* where each pane's agent runs; the trigger's is on this Client
    agent,   \* the agent in each pane: its start, its session, whether its
             \* command line names the session
    begun,   \* the sessions there are, with the place where they were begun
    file,    \* the tunnel's file: the sessions of the sides, the bullet's place
    entry,   \* the bullet's place in the script that leads there
    job,
    commands,
    apart    \* no two commands have overlapped, and none ended early

panes == <<now, tool, place, agent, begun>>
vars == <<panes, file, entry, job, commands, apart>>

Down == [start |-> 0, session |-> None, named |-> FALSE]
Data == [trigger : Session \cup {None}, bullet : Session \cup {None}, place : Spot]
States == {"created", "proving", "committing", "bound", "rejected", "failed"}

Blank == [trigger |-> None, bullet |-> None, place |-> "local"]

\* found is what the attempt under way found in its pane, and where.
Idle ==
    [at |-> "idle", kind |-> "freeze", side |-> "trigger", todo |-> {},
     data |-> Blank, was |-> Blank, found |-> None, spot |-> "local",
     attempt |-> [s \in Side |-> "created"]]

TypeOK ==
    /\ now \in 0 .. MaxTime /\ tool \in {"opencode", "native"}
    /\ place \in [Pane -> Spot]
    /\ agent \in [Pane -> [start : 0 .. MaxTime, session : Session \cup {None},
                           named : BOOLEAN]]
    /\ begun \in [Spot -> SUBSET Session]
    /\ file \in Data /\ entry \in Spot
    /\ job \in [Job -> [at : {"idle", "next", "prove", "commit"},
                        kind : {"freeze", "model"},
                        side : Side, todo : SUBSET Side, data : Data, was : Data,
                        found : Session \cup {None}, spot : Spot,
                        attempt : [Side -> States]]]
    /\ commands \in 0 .. MaxCommand /\ apart \in BOOLEAN

Init ==
    /\ now = 0 /\ tool \in {"opencode", "native"}
    /\ place \in [Pane -> Spot] /\ place["trigger"] = "local"
    /\ agent = [p \in Pane |-> Down]
    /\ begun = [x \in Spot |-> {}]
    /\ entry = place["bullet"]
    /\ file = [trigger |-> None, bullet |-> None, place |-> entry]
    /\ job = [j \in Job |-> Idle]
    /\ commands = 0
    /\ apart = TRUE

-----------------------------------------------------------------------------
(* The panes. *)

Tick == now < MaxTime /\ now' = now + 1

Start(p) ==
    /\ agent[p] = Down /\ Tick
    /\ agent' = [agent EXCEPT ![p] = [Down EXCEPT !.start = now']]
    /\ UNCHANGED <<tool, place, begun, file, entry, job, commands, apart>>

\* The session of a side is continued; its id is on the command line.
Continue(s) ==
    /\ agent[s] = Down /\ file[s] # None /\ file[s] \in begun[place[s]] /\ Tick
    /\ agent' = [agent EXCEPT ![s] =
                    [start |-> now', session |-> file[s], named |-> TRUE]]
    /\ UNCHANGED <<tool, place, begun, file, entry, job, commands, apart>>

\* The first prompt begins the session.
Prompt(p) ==
    /\ agent[p] # Down /\ agent[p].session = None /\ Tick
    /\ agent' = [agent EXCEPT ![p].session = now']
    /\ begun' = [begun EXCEPT ![place[p]] = @ \cup {now'}]
    /\ UNCHANGED <<tool, place, file, entry, job, commands, apart>>

Exit(p) ==
    /\ agent[p] # Down
    /\ agent' = [agent EXCEPT ![p] = Down]
    /\ UNCHANGED <<now, tool, place, begun, file, entry, job, commands, apart>>

\* The bullet's pane is led to another place.
MoveBullet ==
    /\ agent["bullet"] = Down
    /\ \E x \in Spot : x # place["bullet"] /\ place' = [place EXCEPT !["bullet"] = x]
    /\ UNCHANGED <<now, tool, agent, begun, file, entry, job, commands, apart>>

-----------------------------------------------------------------------------
(* Which session runs in a pane. *)

\* The sessions that were begun in the directory since the agent of a pane
\* started.
Recent(s) == {x \in begun["local"] : x > agent[s].start}

\* On this Client: the session the command line names, or a recent one of
\* OpenCode that is not bound to the other side ...
FoundOpenCode(s, other) ==
    IF agent[s].named THEN {agent[s].session} ELSE Recent(s) \ {other}

\* ... or the only recent one of the other Agents.
FoundNative(s) ==
    IF agent[s].named THEN {agent[s].session}
    ELSE {x \in Recent(s) : Recent(s) = {x}}

\* At a server: that of the agent that started last, whoever's it is.
Last(x) == {p \in Pane : /\ agent[p] # Down /\ place[p] = x
                         /\ \A q \in Pane : agent[q] # Down /\ place[q] = x =>
                               agent[q].start <= agent[p].start}

FoundRemote(x) ==
    UNION {IF agent[p].named THEN {agent[p].session} ELSE begun[x] : p \in Last(x)}

\* What the pane of a side proves, next to the session bound to the other side.
Discovered(s, other) ==
    IF agent[s] = Down THEN {}
    ELSE IF place[s] # "local" THEN FoundRemote(place[s])
    ELSE IF tool = "opencode" THEN FoundOpenCode(s, other) ELSE FoundNative(s)

-----------------------------------------------------------------------------
(* A command and its attempts. *)

Begin(j) ==
    /\ job[j].at = "idle" /\ commands < MaxCommand
    /\ commands' = commands + 1
    /\ \E todo \in SUBSET Side \ {{}}, kind \in {"freeze", "model"} :
          /\ kind = "model" => tool = "opencode"
          /\ job' = [job EXCEPT ![j] =
                        [Idle EXCEPT !.at = "next", !.kind = kind, !.todo = todo,
                                     !.data = file, !.was = file]]
    /\ apart' = (apart /\ \A i \in Job : job[i].at = "idle")
    /\ UNCHANGED <<panes, file, entry>>

\* The trigger is tried before the bullet.
NextSide(j) == IF "trigger" \in job[j].todo THEN "trigger" ELSE "bullet"

Attempts(j, s, state) ==
    [job EXCEPT ![j].attempt[s] = state, ![j].at = "next",
                ![j].found = None, ![j].spot = "local"]

\* The tunnel's holder is read; a foreign one ends the attempt.  (A Hub that
\* does not answer does not.)
Request(j) ==
    LET s == NextSide(j)
        asked == [job EXCEPT ![j].todo = @ \ {s}, ![j].side = s] IN
    /\ job[j].at = "next" /\ job[j].todo # {}
    /\ \/ job' = [asked EXCEPT ![j].attempt[s] = "rejected"]
       \/ job' = [asked EXCEPT ![j].attempt[s] = "proving", ![j].at = "prove"]
    /\ UNCHANGED <<panes, file, entry, commands, apart>>

(* Mutant: a search that finds nothing leaves its copy with the session
   cleared. *)
ProveInPlace(j) ==
    LET s == job[j].side
        found == Discovered(s, job[j].data[Opposite(s)]) IN
    /\ job[j].at = "prove"
    /\ \/ \E x \in found : job' = [job EXCEPT ![j].at = "commit", ![j].found = x,
                                                ![j].spot = place[s]]
       \/ found = {} /\ job' = [Attempts(j, s, "rejected") EXCEPT ![j].data[s] = None]
    /\ UNCHANGED <<panes, file, entry, commands, apart>>

\* (The working copy of the data, in which a search may clear the session, is
\* thrown away when nothing is found.)
Prove(j) ==
    LET s == job[j].side
        found == Discovered(s, job[j].data[Opposite(s)]) IN
    /\ job[j].at = "prove"
    /\ \/ \E x \in found : job' = [job EXCEPT ![j].at = "commit", ![j].found = x,
                                                ![j].spot = place[s]]
       \/ found = {} /\ job' = Attempts(j, s, "rejected")
    /\ UNCHANGED <<panes, file, entry, commands, apart>>

\* The session is not that of the other side (the schema asks it once more).
CanProve(j) == job[j].found # job[j].data[Opposite(job[j].side)]

\* The data with the session that was found; with a bullet's the place where.
Projected(j) ==
    LET s == job[j].side IN
    [job[j].data EXCEPT ![s] = job[j].found,
                        !.place = IF s = "bullet" THEN job[j].spot ELSE @]

\* The entry of a bullet is written, and then the data are changed.
Commit(j) ==
    /\ job[j].at = "commit" /\ CanProve(j)
    /\ entry' = IF job[j].side = "bullet" THEN job[j].spot ELSE entry
    /\ job' = [Attempts(j, job[j].side, "bound") EXCEPT ![j].data = Projected(j)]
    /\ UNCHANGED <<panes, file, commands, apart>>

RejectCommit(j) ==
    /\ job[j].at = "commit" /\ ~CanProve(j)
    /\ job' = Attempts(j, job[j].side, "rejected")
    /\ UNCHANGED <<panes, file, entry, commands, apart>>

(* Mutant: the schema is asked after the entry was written. *)
FailCommitLate(j) ==
    /\ job[j].at = "commit" /\ CanProve(j)
    /\ job' = Attempts(j, job[j].side, "failed")
    /\ entry' = IF job[j].side = "bullet" THEN job[j].spot ELSE entry
    /\ UNCHANGED <<panes, file, commands, apart>>

\* The schema refuses the data, or the entry cannot be written.
FailCommit(j) ==
    /\ job[j].at = "commit" /\ CanProve(j)
    /\ job' = Attempts(j, job[j].side, "failed")
    /\ UNCHANGED <<panes, file, entry, commands, apart>>

Succeeded(j) == \A s \in Side : job[j].attempt[s] \in {"created", "bound"}

Ended(j) == job[j].at = "next" /\ job[j].todo = {}

\* dt freeze keeps the sides that were bound; dt model only all of them.
Save(j) ==
    /\ Ended(j)
    /\ job[j].kind = "freeze" \/ Succeeded(j)
    /\ file' = job[j].data
    /\ job' = [job EXCEPT ![j] = Idle]
    /\ UNCHANGED <<panes, entry, commands, apart>>

\* dt model that did not bind every side leaves the file, and an entry that it
\* has written, as they are.
GiveUp(j) ==
    /\ Ended(j) /\ job[j].kind = "model" /\ ~Succeeded(j)
    /\ job' = [job EXCEPT ![j] = Idle]
    /\ apart' = (apart /\ job[j].attempt["bullet"] # "bound")
    /\ UNCHANGED <<panes, file, entry, commands>>

Crash(j) ==
    /\ job[j].at # "idle"
    /\ job' = [job EXCEPT ![j] = Idle]
    /\ apart' = FALSE
    /\ UNCHANGED <<panes, file, entry, commands>>

Next ==
    \/ \E p \in Pane : Start(p) \/ Prompt(p) \/ Exit(p)
    \/ \E s \in Side : Continue(s)
    \/ MoveBullet
    \/ \E j \in Job :
          \/ Begin(j) \/ Request(j) \/ Prove(j) \/ Commit(j) \/ RejectCommit(j)
          \/ FailCommit(j) \/ Save(j) \/ GiveUp(j) \/ Crash(j)

Spec == Init /\ [][Next]_vars

-----------------------------------------------------------------------------
(* Properties. *)

KeepsOldBinding ==
    \A j \in Job :
        job[j].at # "idle" /\ file' # file /\ job'[j].at = "idle" =>
            \A s \in Side :
               IF job[j].attempt[s] = "bound"
                 THEN file'[s] \in begun["local"] \cup begun["box"]
                 ELSE file'[s] = job[j].was[s]

\* A side whose attempt did not end "bound" is saved as it was when the command
\* began, and one whose attempt did is saved with a session that was begun.
OldBindingKept == [][KeepsOldBinding]_vars

\* Between commands the entry leads where the tunnel's file says, unless
\* commands overlapped or ended early, or dt model gave up half-way.
EntryAgrees ==
    apart /\ (\A j \in Job : job[j].at = "idle") => entry = file.place

-----------------------------------------------------------------------------
(* The inductive invariant.                                                  *)

SessionsBegun == begun["local"] \cup begun["box"]

\* A command line names a session that was begun.
NamedBegun == \A p \in Pane : agent[p].named => agent[p].session \in SessionsBegun

\* A command changes its data by the attempts that end "bound", one per side.
AttemptsHold(j) ==
    /\ \A s \in Side : IF job[j].attempt[s] = "bound"
                         THEN job[j].data[s] \in SessionsBegun
                         ELSE job[j].data[s] = job[j].was[s]
    /\ \A s \in job[j].todo : job[j].attempt[s] = "created"
    /\ job[j].at \in {"prove", "commit"} =>
          job[j].side \notin job[j].todo /\ job[j].attempt[job[j].side] = "proving"
    /\ job[j].at = "commit" => job[j].found \in SessionsBegun

OneAtATime == \A i, j \in Job : job[i].at # "idle" /\ job[j].at # "idle" => i = j

\* The entry leads where the file says, or where it will once the command that
\* has bound the bullet saves its data.
EntryHolds(j) ==
    IF job[j].attempt["bullet"] = "bound"
      THEN entry = job[j].data.place
      ELSE entry = file.place /\ job[j].data.place = file.place

FreezeInv ==
    /\ TypeOK /\ NamedBegun
    /\ \A j \in Job : job[j].at # "idle" => AttemptsHold(j)

EntryInv ==
    apart =>
        /\ OneAtATime
        /\ (\A j \in Job : job[j].at = "idle") => entry = file.place
        /\ \A j \in Job : job[j].at # "idle" => EntryHolds(j)
=============================================================================

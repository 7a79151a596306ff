------------------------------ MODULE Takeover ------------------------------
(* Whether a Client may resume a tunnel: the facts it gathers about the      *)
(* tunnel's holder and its own processes, the verdict on them, the cache   *)
(* that the web page shows, and the resume that gathers and decides again.   *)
EXTENDS Naturals

CONSTANTS
    Me, Other, NoOne,  \* this Client, the other one, and no holder
    MaxChange          \* bound: changes of the world, probes that fail included

Side == {"trigger", "bullet"}

VARIABLES
    holder,     \* at the Hub
    doubled,    \* sides whose session two processes of this Client run
    diverged,   \* sides whose exported histories contradict each other
    side,       \* what runs on each side
    probe,      \* the facts that the tick, and the resume, have gathered so far
    cache,      \* the facts the tick wrote last
    resume,     \* where the operator's command is, and the plan it was shown
    current,    \* of the tick's facts, the cache and the plan shown: what was
                \* gathered from the world as it is
    changes

world == <<holder, doubled, diverged, side>>
vars == <<world, probe, cache, resume, current, changes>>

\* "other" is a program whose sessions cannot be carried, "server" is one in a
\* bullet that stays on its server; "unbound" has no session yet.
Kinds == {"agent", "other", "server", "unbound"}
Leases == {"owned", "free", "foreign"}
Statuses == {"ok", "duplicate", "unknown"}
Actions == {"claim", "resume", "stop"}
Places == {"start", "lease", "trigger", "bullet"}

Nothing == [at |-> "start", lease |-> "free", writers |-> [s \in Side |-> "unknown"]]
NoFacts == [fresh |-> FALSE, lease |-> "free", action |-> "stop"]

TypeOK ==
    /\ holder \in {Me, Other, NoOne}
    /\ doubled \in SUBSET Side /\ diverged \in SUBSET Side
    /\ side \in [Side -> Kinds]
    /\ probe \in [{"tick", "resume"} ->
                    [at : Places, lease : Leases, writers : [Side -> Statuses]]]
    /\ cache \in [fresh : BOOLEAN, lease : Leases, action : Actions]
    /\ resume \in [at : {"idle", "handoff", "resume", "refused", "held"},
                   shown : Actions]
    /\ current \in SUBSET {"tick", "cache", "shown"}
    /\ changes \in 0 .. MaxChange

Init ==
    /\ holder \in {Me, Other, NoOne}
    /\ doubled \in SUBSET Side /\ diverged = {}
    /\ side \in [Side -> Kinds] /\ side["trigger"] # "server"
    /\ probe = [w \in {"tick", "resume"} |-> Nothing]
    /\ cache = NoFacts
    /\ resume = [at |-> "idle", shown |-> "stop"]
    /\ current = {}
    /\ changes = 0

-----------------------------------------------------------------------------
(* The verdict. *)

LeaseOf(h) == CASE h = Me -> "owned" [] h = NoOne -> "free" [] OTHER -> "foreign"

\* Only a known Agent with a session can be looked for.
WriterOf(s) ==
    IF side[s] # "agent" THEN "unknown"
    ELSE IF s \in doubled THEN "duplicate" ELSE "ok"

Supported(s) == side[s] # "other"

\* What the writers and the holder ask for; a foreign holder is displaced.
Decided(lease, writers) ==
    IF \E s \in Side : writers[s] # "ok" THEN "stop"
    ELSE IF lease = "owned" THEN "resume" ELSE "claim"

\* No evidence of a foreign holder ever arrives here, so that its panes count
\* as not known, and are displaced whatever was found.
Verdict(facts) ==
    IF facts.lease = "foreign"
      THEN IF \A s \in Side : Supported(s) THEN "claim" ELSE "stop"
      ELSE IF diverged # {} THEN "stop" ELSE Decided(facts.lease, facts.writers)

Frozen == \A s \in Side : side[s] # "unbound"

\* plan_from_facts refuses a tunnel that is not frozen.
Plan(action) == IF Frozen THEN action ELSE "stop"

\* Mutant: the plan of the web page displaces whoever holds the tunnel.
CachedPlanAlways == IF ~cache.fresh THEN "stop"
                    ELSE IF cache.lease # "free" THEN "claim" ELSE Plan(cache.action)

\* The web page makes the plan of the cached facts, and displaces a foreign
\* holder in any case.
CachedPlan ==
    IF ~cache.fresh THEN "stop"
    ELSE IF cache.lease = "foreign" THEN "claim"
    ELSE Plan(cache.action)

-----------------------------------------------------------------------------
(* The facts, gathered one after the other by the tick and by a resume. *)

Change == changes < MaxChange /\ changes' = changes + 1

Lease(w, lease) ==
    [probe EXCEPT ![w] = [Nothing EXCEPT !.at = "lease", !.lease = lease]]

\* The holder is read first; a Hub that does not answer makes it this Client.
ReadLease(w) ==
    /\ probe[w].at = "start"
    /\ w = "resume" => resume.at \in {"handoff", "resume"}
    /\ \/ /\ probe' = Lease(w, LeaseOf(holder))
          /\ current' = IF w = "tick" THEN current \cup {"tick"} ELSE current
          /\ UNCHANGED changes
       \/ /\ Change
          /\ probe' = Lease(w, "owned")
          /\ current' = {}
    /\ UNCHANGED <<world, cache, resume>>

\* The processes of a side are counted; ps or the server may not answer.
ProbeSide(w) ==
    \E s \in Side :
        /\ probe[w].at = (IF s = "trigger" THEN "lease" ELSE "trigger")
        /\ \/ /\ probe' = [probe EXCEPT ![w].at = s, ![w].writers[s] = WriterOf(s)]
              /\ UNCHANGED <<current, changes>>
           \/ /\ Change /\ current' = {}
              /\ probe' = [probe EXCEPT ![w].at = s]
        /\ UNCHANGED <<world, cache, resume>>

\* The tick or the daemon writes what it gathered and the verdict.
WriteCache ==
    /\ probe["tick"].at = "bullet"
    /\ cache' = [fresh |-> TRUE, lease |-> probe["tick"].lease,
                 action |-> Verdict(probe["tick"])]
    /\ current' = (current \ {"cache"}) \cup {x \in {"cache"} : "tick" \in current}
    /\ probe' = [probe EXCEPT !["tick"] = Nothing]
    /\ UNCHANGED <<world, resume, changes>>

\* Three minutes later the cache no longer counts.
Age ==
    /\ cache.fresh
    /\ cache' = [cache EXCEPT !.fresh = FALSE]
    /\ UNCHANGED <<world, probe, resume, current, changes>>

-----------------------------------------------------------------------------
(* The operator sees the plan of the cache and resumes, or takes over.       *)

Ask ==
    /\ resume.at \in {"idle", "refused", "held"}
    /\ \E how \in {"handoff", "resume"} :
          resume' = [at |-> how, shown |-> CachedPlan]
    /\ current' = (current \ {"shown"}) \cup {x \in {"shown"} : "cache" \in current}
    /\ UNCHANGED <<world, probe, cache, changes>>

Refuse ==
    /\ probe["resume"].at = "bullet" /\ Plan(Verdict(probe["resume"])) = "stop"
    /\ resume' = [resume EXCEPT !.at = "refused"]
    /\ probe' = [probe EXCEPT !["resume"] = Nothing]
    /\ UNCHANGED <<world, cache, current, changes>>

\* A hand-over that may go ahead becomes a resume, which gathers again; a
\* resume claims, whether or not it holds the tunnel.
Proceed ==
    /\ probe["resume"].at = "bullet" /\ Plan(Verdict(probe["resume"])) # "stop"
    /\ IF resume.at = "handoff"
         THEN resume' = [resume EXCEPT !.at = "resume"] /\ UNCHANGED <<holder, current>>
         ELSE /\ resume' = [resume EXCEPT !.at = "held"]
              /\ holder' = Me
              /\ current' = {}
    /\ probe' = [probe EXCEPT !["resume"] = Nothing]
    /\ UNCHANGED <<doubled, diverged, side, cache, changes>>

-----------------------------------------------------------------------------
(* The world changes. *)

Become == Change /\ current' = {} /\ UNCHANGED <<probe, cache, resume>>

HolderMoves ==
    /\ \E h \in {Other, NoOne} : holder # h /\ holder' = h
    /\ Become /\ UNCHANGED <<doubled, diverged, side>>

ProcessesChange ==
    /\ \E d \in SUBSET Side : doubled # d /\ doubled' = d
    /\ Become /\ UNCHANGED <<holder, diverged, side>>

HistoriesChange ==
    /\ \E d \in SUBSET Side : diverged # d /\ diverged' = d
    /\ Become /\ UNCHANGED <<holder, doubled, side>>

Freeze ==
    /\ \E s \in Side : side[s] = "unbound" /\ side' = [side EXCEPT ![s] = "agent"]
    /\ Become /\ UNCHANGED <<holder, doubled, diverged>>

Next ==
    \/ \E w \in {"tick", "resume"} : ReadLease(w) \/ ProbeSide(w)
    \/ WriteCache \/ Age \/ Ask \/ Refuse \/ Proceed
    \/ HolderMoves \/ ProcessesChange \/ HistoriesChange \/ Freeze

Spec == Init /\ [][Next]_vars

-----------------------------------------------------------------------------
(* Properties. *)

\* What the web page showed was possible when the operator asked, and nothing
\* happened since the tick looked: the command refuses it only for a side that
\* has no session, or one that cannot be carried.
PlanHonoured ==
    resume.at = "refused" /\ resume.shown # "stop" /\ "shown" \in current =>
        \E s \in Side : side[s] \in {"unbound", "other"}

-----------------------------------------------------------------------------
(* The inductive invariant: what was gathered from the world as it is.       *)

\* What a probe has found so far is so.
Matches(w) ==
    /\ probe[w].at # "start" => probe[w].lease = LeaseOf(holder)
    /\ probe[w].at \in {"trigger", "bullet"} =>
          probe[w].writers["trigger"] = WriterOf("trigger")
    /\ probe[w].at = "bullet" => probe[w].writers["bullet"] = WriterOf("bullet")

\* The facts that a probe gathers if nothing goes wrong.
Facts == [lease |-> LeaseOf(holder), writers |-> [s \in Side |-> WriterOf(s)]]

TickCurrent == "tick" \in current => Matches("tick")

CacheCurrent ==
    "cache" \in current =>
        cache.lease = LeaseOf(holder) /\ cache.action = Verdict(Facts)

\* A probe belongs to the command that was asked for last.
ProbeAsked == resume.at \notin {"handoff", "resume"} => probe["resume"] = Nothing

\* What was shown as possible is what the command will decide too, or a
\* take-over from a foreign holder.
ShownCurrent ==
    "shown" \in current /\ resume.at \in {"handoff", "resume"} =>
        /\ Matches("resume")
        /\ resume.shown # "stop" =>
              LeaseOf(holder) = "foreign" \/ Plan(Verdict(Facts)) # "stop"

PlanInv ==
    TypeOK /\ TickCurrent /\ CacheCurrent /\ ProbeAsked /\ ShownCurrent /\ PlanHonoured
=============================================================================

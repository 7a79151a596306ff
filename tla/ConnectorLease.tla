--------------------------- MODULE ConnectorLease ---------------------------
(***************************************************************************)
(* Who serves the chat when several Clients may (daemon.py, hub.py; the    *)
(* topology client-failover).                                              *)
(*                                                                         *)
(* Every daemon asks the Hub for one lease, again and again; who gets it   *)
(* runs a connector, a child process that holds the WebSocket, and who     *)
(* loses it stops his.  A lease that is not renewed expires.  Its          *)
(* generation fences connectors: each of them claims again, for its        *)
(* daemon, before it handles a message, and ends if the generation is not  *)
(* the one it was started with.                                            *)
(***************************************************************************)
EXTENDS Naturals

CONSTANTS
    Daemon,       \* starts of daemons: each has an owner name of its own
    None,
    Inherits,     \* whether connectors inherit the daemon's SIGTERM handler (fork)
    MaxTroubles   \* bound: leases that expire although their daemon runs,
                  \* requests that fail, installations that cannot be read and
                  \* crashes of the Hub between its two writes

ASSUME ConnectorLeaseAssumption ==
    /\ None \notin Daemon
    /\ Inherits \in BOOLEAN
    /\ MaxTroubles \in Nat

VARIABLES
    lock,      \* at the Hub, locks/__feishu_ws__: owner and generation
    side,      \* at the Hub, ownership/__feishu_ws__.json: the generation
    fresh,     \* the lease is not older than FEISHU_LEASE_TTL
    late,      \* requests whose caller gave up and whose script may still run
    up,        \* the life of each daemon
    answer,    \* what its claim came to: a generation, or 0 if it was refused
    process,   \* the connector it supervises, and whether that runs
    waits,     \* it waits before it starts the next one
    stray,     \* generations of connectors that run without supervision
    granted,   \* ghost: the generations that were written, with their owners
    last,      \* ghost: the generation of the last message that was handled
    troubles,  \* how many of those there were
    torn       \* how many of them were such crashes

lease == <<lock, side, fresh, granted>>
manager == <<answer, waits>>
connectors == <<process, stray>>
counts == <<troubles, torn>>
vars == <<lease, late, up, manager, connectors, last, counts>>

TypeOK ==
    /\ lock \in [owner : Daemon \cup {None}, gen : Nat]
    /\ side \in Nat /\ fresh \in BOOLEAN
    /\ late \in SUBSET ({"claim", "release"} \X Daemon)
    /\ up \in [Daemon -> {"up", "ending", "down"}]
    /\ answer \in [Daemon -> Nat \cup {None}]
    /\ process \in [Daemon -> [gen : Nat, runs : BOOLEAN]]
    /\ waits \in [Daemon -> BOOLEAN]
    /\ stray \in [Daemon -> SUBSET (Nat \ {0})]
    /\ granted \in SUBSET ((Nat \ {0}) \X Daemon)
    /\ last \in Nat
    /\ troubles \in 0 .. MaxTroubles
    /\ torn \in 0 .. troubles

Free == [owner |-> None, gen |-> 0]

NoProcess == [gen |-> 0, runs |-> FALSE]

Init ==
    /\ lock = Free /\ side = 0 /\ fresh = FALSE
    /\ late = {}
    /\ up = [d \in Daemon |-> "up"]
    /\ answer = [d \in Daemon |-> None]
    /\ process = [d \in Daemon |-> NoProcess]
    /\ waits = [d \in Daemon |-> FALSE]
    /\ stray = [d \in Daemon |-> {}]
    /\ granted = {} /\ last = 0
    /\ troubles = 0 /\ torn = 0

-----------------------------------------------------------------------------
(* The script at the Hub, under its flock.                                   *)

Held(d) == lock.owner \notin {None, d} /\ fresh

\* Mutant: the other file is not asked.
NextGenOfLock(d) == IF lock.owner = d THEN lock.gen ELSE lock.gen + 1

\* Who holds the lease keeps the generation, also after it expired.  A release
\* empties the lock; the other file remembers the generation.
NextGen(d) ==
    IF lock.owner = d THEN lock.gen
    ELSE IF lock.owner = None /\ side > lock.gen THEN side + 1
    ELSE lock.gen + 1

WritesLock(d) ==
    /\ ~Held(d)
    /\ lock' = [owner |-> d, gen |-> NextGen(d)]
    /\ fresh' = TRUE
    /\ granted' = granted \cup {<<NextGen(d), d>>}

\* The claim is granted, with generation g.
Claims(d, g) ==
    /\ g = NextGen(d)
    /\ WritesLock(d)
    /\ side' = g

Trouble ==
    /\ troubles < MaxTroubles
    /\ troubles' = troubles + 1

Fault == Trouble /\ UNCHANGED torn

Tears == Trouble /\ torn' = torn + 1

\* A write of the lock that the other file does not follow: the Hub crashes, or
\* its disk is full and the lock is left empty.
TornClaim(d) ==
    /\ \/ WritesLock(d)
       \/ ~Held(d) /\ lock' = Free /\ fresh' = FALSE /\ UNCHANGED granted
    /\ UNCHANGED side

TornRelease(d) ==
    /\ lock.owner = d
    /\ lock' = Free /\ fresh' = FALSE
    /\ UNCHANGED <<side, granted>>

Lost(request) == late' \in {late, late \cup {request}} /\ UNCHANGED lease

\* The claim is refused; the Hub cannot be reached, another request has the
\* flock or the answer comes too late; or the files are torn.
ClaimFails(d) ==
    \/ Held(d) /\ UNCHANGED <<lease, late, counts>>
    \/ Fault /\ Lost(<<"claim", d>>)
    \/ Tears /\ TornClaim(d) /\ UNCHANGED late

Releases(d) ==
    IF lock.owner = d
    THEN lock' = Free /\ side' = lock.gen /\ fresh' = FALSE /\ UNCHANGED granted
    ELSE UNCHANGED lease

\* Whoever releases goes on, whatever came of it.
TriesRelease(d) ==
    \/ Releases(d) /\ UNCHANGED <<late, counts>>
    \/ Fault /\ Lost(<<"release", d>>)
    \/ Tears /\ TornRelease(d) /\ UNCHANGED late

\* The script of a request whose caller gave up.
RunLate ==
    \E d \in Daemon, kind \in {"claim", "release"} :
        /\ <<kind, d>> \in late
        /\ late' = late \ {<<kind, d>>}
        /\ \/ kind = "claim" /\ Held(d) /\ UNCHANGED lease
           \/ kind = "claim" /\ Claims(d, NextGen(d))
           \/ kind = "release" /\ Releases(d)
        /\ UNCHANGED <<up, manager, connectors, last, counts>>

\* The lease grows old: its daemon is gone, or slow.
ExpireAbandoned ==
    /\ fresh
    /\ lock.owner # None /\ up[lock.owner] \in {"ending", "down"}
    /\ fresh' = FALSE
    /\ UNCHANGED <<lock, side, granted, late, up, manager, connectors, last, counts>>

Expire ==
    /\ fresh
    /\ Fault
    /\ fresh' = FALSE
    /\ UNCHANGED <<lock, side, granted, late, up, manager, connectors, last>>

-----------------------------------------------------------------------------
(* ConnectorManager of a daemon.                                             *)

\* terminate and join(timeout=5), then the handle is dropped: a connector that
\* inherited the daemon's handler of SIGTERM runs on.
Terminates(d) ==
    /\ process' = [process EXCEPT ![d] = NoProcess]
    /\ stray' = IF process[d].runs /\ Inherits
                THEN [stray EXCEPT ![d] = @ \cup {process[d].gen}]
                ELSE stray

\* step: owns_lease.
ManagerClaims(d) ==
    /\ up[d] = "up"
    /\ answer[d] = None
    /\ \/ /\ Claims(d, NextGen(d))
          /\ answer' = [answer EXCEPT ![d] = NextGen(d)]
          /\ UNCHANGED <<late, counts>>
       \/ ClaimFails(d) /\ answer' = [answer EXCEPT ![d] = 0]
    /\ UNCHANGED <<up, waits, connectors, last>>

\* Mutant: a connector that has ended is taken for one that runs.
ManagerActsBlind(d) ==
    /\ up[d] = "up"
    /\ answer[d] # None
    /\ answer' = [answer EXCEPT ![d] = None]
    /\ \/ /\ answer[d] = 0
          /\ Terminates(d)
          /\ waits' = [waits EXCEPT ![d] = FALSE]
       \/ /\ answer[d] # 0
          /\ process[d] # NoProcess \/ waits[d]
          /\ UNCHANGED <<waits, connectors>>
       \/ /\ answer[d] # 0
          /\ process[d] = NoProcess /\ ~waits[d]
          /\ process' = [process EXCEPT ![d] = [gen |-> answer[d], runs |-> TRUE]]
          /\ UNCHANGED <<waits, stray>>
    /\ UNCHANGED <<lease, late, up, last, counts>>

\* step, with the answer: it stops, goes on, notices that its connector has
\* ended, waits, or starts one with the generation as its fence.
ManagerActs(d) ==
    /\ up[d] = "up"
    /\ answer[d] # None
    /\ answer' = [answer EXCEPT ![d] = None]
    /\ \/ /\ answer[d] = 0
          /\ Terminates(d)
          /\ waits' = [waits EXCEPT ![d] = FALSE]
       \/ /\ answer[d] # 0
          /\ process[d].runs \/ (process[d] = NoProcess /\ waits[d])
          /\ UNCHANGED <<waits, connectors>>
       \/ /\ answer[d] # 0
          /\ process[d] # NoProcess /\ ~process[d].runs
          /\ process' = [process EXCEPT ![d] = NoProcess]
          /\ waits' = [waits EXCEPT ![d] = TRUE]
          /\ UNCHANGED stray
       \/ /\ answer[d] # 0
          /\ process[d] = NoProcess /\ ~waits[d]
          /\ process' = [process EXCEPT ![d] = [gen |-> answer[d], runs |-> TRUE]]
          /\ UNCHANGED <<waits, stray>>
    /\ UNCHANGED <<lease, late, up, last, counts>>

BackoffEnds(d) ==
    /\ waits[d]
    /\ waits' = [waits EXCEPT ![d] = FALSE]
    /\ UNCHANGED <<lease, late, up, answer, connectors, last, counts>>

\* step: the installation was removed, or could not be read from the Hub.
NotInstalled(d) ==
    /\ up[d] = "up"
    /\ answer[d] = None
    /\ Fault
    /\ Terminates(d)
    /\ waits' = [waits EXCEPT ![d] = FALSE]
    /\ \/ Releases(d) /\ UNCHANGED late
       \/ Lost(<<"release", d>>)
    /\ UNCHANGED <<up, answer, last>>

-----------------------------------------------------------------------------
(* Connectors and daemons as processes.                                      *)

Runs(d, g) == process[d] = [gen |-> g, runs |-> TRUE] \/ g \in stray[d]

Exits(d, g) ==
    \/ /\ process[d] = [gen |-> g, runs |-> TRUE]
       /\ process' = [process EXCEPT ![d].runs = FALSE]
       /\ UNCHANGED stray
    \/ /\ g \in stray[d]
       /\ stray' = [stray EXCEPT ![d] = @ \ {g}]
       /\ UNCHANGED process

\* Mutant: the generation is not compared.
FenceValidAny(d, g) == TRUE

\* connector_fence_valid, of a claim that was granted: with the generation of
\* the start.
FenceValid(d, g) == NextGen(d) = g

\* on_message: it claims, and a connector that the fence stops ends.
Message(d, g) ==
    /\ Runs(d, g)
    /\ \/ /\ Claims(d, NextGen(d)) /\ UNCHANGED <<late, counts>>
          /\ IF FenceValid(d, g)
             THEN last' = g /\ UNCHANGED connectors
             ELSE Exits(d, g) /\ UNCHANGED last
       \/ ClaimFails(d) /\ Exits(d, g) /\ UNCHANGED last
    /\ UNCHANGED <<up, manager>>

\* The WebSocket ends, and the process with it: there is no automatic reconnect.
ConnectorExits(d, g) ==
    /\ Exits(d, g)
    /\ UNCHANGED <<lease, late, up, manager, last, counts>>

\* watch_parent: a connector whose daemon is gone ends.
OrphanEnds(d) ==
    /\ up[d] = "down"
    /\ stray[d] # {}
    /\ stray' = [stray EXCEPT ![d] = {}]
    /\ UNCHANGED <<lease, late, up, manager, process, last, counts>>

\* SIGTERM between two steps: manager.stop.
DaemonStops(d) ==
    /\ up[d] = "up"
    /\ answer[d] = None
    /\ up' = [up EXCEPT ![d] = "ending"]
    /\ Terminates(d)
    /\ waits' = [waits EXCEPT ![d] = FALSE]
    /\ TriesRelease(d)
    /\ UNCHANGED <<answer, last>>

\* A process that ends waits for the children it has.
DaemonEnds(d) ==
    /\ up[d] = "ending"
    /\ stray[d] = {}
    /\ up' = [up EXCEPT ![d] = "down"]
    /\ UNCHANGED <<lease, late, manager, connectors, last, counts>>

DaemonCrashes(d) ==
    /\ up[d] \in {"up", "ending"}
    /\ up' = [up EXCEPT ![d] = "down"]
    /\ process' = [process EXCEPT ![d] = NoProcess]
    /\ stray' = [stray EXCEPT ![d] = IF process[d].runs THEN @ \cup {process[d].gen} ELSE @]
    /\ answer' = [answer EXCEPT ![d] = None]
    /\ waits' = [waits EXCEPT ![d] = FALSE]
    /\ UNCHANGED <<lease, late, last, counts>>

-----------------------------------------------------------------------------
Generations(d) == {process[d].gen} \cup stray[d]

Messages == \E d \in Daemon : \E g \in Generations(d) : Message(d, g)

Next ==
    \/ RunLate \/ ExpireAbandoned \/ Expire \/ Messages
    \/ \E d \in Daemon :
          \/ ManagerClaims(d) \/ ManagerActs(d) \/ BackoffEnds(d) \/ NotInstalled(d)
          \/ \E g \in Generations(d) : ConnectorExits(d, g)
          \/ OrphanEnds(d)
          \/ DaemonStops(d) \/ DaemonEnds(d) \/ DaemonCrashes(d)

Spec == Init /\ [][Next]_vars

\* A daemon steps every two seconds, a back-off ends, a connector looks for its
\* daemon every two seconds, a lease that nobody renews expires, and the chat is
\* used: messages come to a connector that runs.
FairSpec ==
    /\ Spec
    /\ WF_vars(ExpireAbandoned) /\ WF_vars(Messages)
    /\ \A d \in Daemon :
          /\ WF_vars(ManagerClaims(d)) /\ WF_vars(ManagerActs(d))
          /\ WF_vars(BackoffEnds(d)) /\ WF_vars(OrphanEnds(d))

-----------------------------------------------------------------------------
(* Properties.                                                               *)

\* A generation names one owner, across releases, expiry, late requests and one
\* crash of the Hub between its two writes.
GenerationsUnique ==
    torn <= 1 => \A x, y \in granted : x[1] = y[1] => x[2] = y[2]

\* Messages are handled in the order of the generations: once a connector has
\* handled one, none of an older generation does, running or not.
HandledInOrder == [][torn <= 1 => last' >= last]_vars

\* While some daemon runs, the chat is served again and again: a connector runs
\* that passes its fence.
Serving == \E d \in Daemon : lock.owner = d /\ Runs(d, lock.gen)

Served == \A d \in Daemon : <>[](up[d] = "up") => []<>Serving

-----------------------------------------------------------------------------
(* What a document of the repository says, and the code does not.            *)

\* docs/feishu.md:46: a daemon "stops its connector when it loses ownership".
Supervised == \A d \in Daemon : up[d] = "up" => stray[d] = {}
=============================================================================

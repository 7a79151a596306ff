------------------------------ MODULE Recovery ------------------------------
(***************************************************************************)
(* Automatic recovery of dual tmux tunnels at one Client (recovery.py,     *)
(* cli.py: cmd_tick, cmd_health, cmd_recover; cron.py).                    *)
(*                                                                         *)
(* Cron starts a tick every minute, whether or not an earlier one still    *)
(* runs.  A tick visits the tunnels in order: it samples the panes, probes *)
(* the tunnel, and a tunnel that keeps failing its probes is resumed; a    *)
(* tunnel whose bullet makes no progress is rebuilt.  Failures, attempts   *)
(* and the times to wait are counted in one file per tunnel, which every   *)
(* observer reads as a whole, and writes as a whole when it is done.       *)
(*                                                                         *)
(* Times are kept relative to the present, in minutes: a timer counts down *)
(* to the moment the code compares the clock with, an age counts up from   *)
(* the moment something happened.                                          *)
(***************************************************************************)
EXTENDS Integers, Sequences, FiniteSetsExt

CONSTANTS
    Order,            \* the tunnels, in the order in which a tick visits them
    Tick,             \* processes that cron starts
    Look,             \* processes of dt health, dt recover --now and the console
    FailThreshold, MaxAttempts, Backoff, Circuit,
    MaxRebuilds, RebuildBackoff, Warmup, TurnWindow, TurnRecheck,
    Longest,          \* bound: minutes that the ghost since counts
    MaxAge,           \* bound: minutes that one observation takes
    MaxChanges,       \* bound: what operators and the tunnels do of their own
    MaxCrashes        \* bound: processes that are killed

Tunnel == {Order[i] : i \in DOMAIN Order}
Process == Tick \cup Look

\* The numbers wait in the order in which the code lists them.
ASSUME RecoveryAssumption ==
    /\ Order \in Seq(Tunnel) /\ Len(Order) > 0
    /\ Tick \cap Look = {}
    /\ FailThreshold \in Nat \ {0} /\ MaxAttempts \in Nat \ {0}
    /\ Backoff \in Seq(Nat \ {0}) /\ Len(Backoff) > 0
    /\ Longest \in Nat /\ \A n \in DOMAIN Backoff : Backoff[n] <= Longest
    /\ RebuildBackoff \in Seq(Nat \ {0}) /\ Len(RebuildBackoff) > 0
    /\ {Circuit, MaxRebuilds, Warmup, TurnWindow, TurnRecheck} \subseteq Nat
    /\ {MaxAge, MaxChanges, MaxCrashes} \subseteq Nat

VARIABLES
    health,     \* health/<name>.json of each tunnel
    torn,       \* tunnels whose file ends in the middle
    on,         \* auto_recover, in the tunnel's file
    up,         \* whether a probe of the tunnel would succeed
    quiet,      \* minutes since the trigger side last worked, up to TurnWindow
    settled,    \* minutes since the last resume, up to Warmup
    bullet,     \* what the evidence says of the bullet side
    due,        \* cron has yet to start the tick of this minute
    proc,       \* what each process does
    lost,       \* ghost: tunnels with a probe that was not counted, or counts lost
    failedRow,  \* ghost: probes of a tunnel that failed since one succeeded
    tried,      \* ghost: recoveries that failed since the tunnel was last up
    since,      \* ghost: minutes since the last of these was begun
    rebuilt,    \* ghost: automatic rebuilds since the bullet was seen to work
    changes, crashes

world == <<on, up, quiet, settled, bullet>>
ghosts == <<lost, failedRow, tried, since, rebuilt>>
files == <<health, torn>>
vars == <<files, world, due, proc, ghosts, changes, crashes>>

\* Timers stop at -MaxAge: no clock that a process has read is older.
Timer == Int
Counts == [failures : Nat, attempts : Nat, retry : Timer, circuit : Timer,
           rebuilds : 0 .. MaxRebuilds, rebuildRetry : Timer]

\* _default_state; the counts of rebuilds are absent from it.
DefaultState == [failures |-> 0, attempts |-> 0, retry |-> -MaxAge,
                 circuit |-> -MaxAge, rebuilds |-> 0, rebuildRetry |-> -MaxAge]

Steps == {"idle", "load", "probe", "decide", "recover", "now", "stall",
          "rebuild", "next"}

\* at: the step; i: the tunnel visited; age: of the clock that was read;
\* state: what was read of the file; auto, calm, warm: what was read of the
\* tunnel; ok: what the probe said.
Work == [at : Steps, i : DOMAIN Order, age : Nat, state : Counts, auto : BOOLEAN,
         calm : BOOLEAN, warm : BOOLEAN, ok : BOOLEAN]

Resting == [at |-> "idle", i |-> 1, age |-> 0, state |-> DefaultState,
            auto |-> TRUE, calm |-> TRUE, warm |-> FALSE, ok |-> TRUE]

TypeOK ==
    /\ health \in [Tunnel -> Counts] /\ torn \in SUBSET Tunnel
    /\ on \in [Tunnel -> BOOLEAN] /\ up \in [Tunnel -> BOOLEAN]
    /\ quiet \in [Tunnel -> 0 .. TurnWindow]
    /\ settled \in [Tunnel -> 0 .. Warmup]
    /\ bullet \in [Tunnel -> {"working", "idle", "stalled"}]
    /\ due \in BOOLEAN
    /\ proc \in [Process -> Work]
    /\ lost \in SUBSET Tunnel
    /\ failedRow \in [Tunnel -> 0 .. FailThreshold]
    /\ tried \in [Tunnel -> Nat] /\ since \in [Tunnel -> 0 .. Longest]
    /\ rebuilt \in [Tunnel -> Nat]
    /\ changes \in 0 .. MaxChanges /\ crashes \in 0 .. MaxCrashes

Init ==
    /\ health = [t \in Tunnel |-> DefaultState] /\ torn = {}
    /\ on = [t \in Tunnel |-> TRUE] /\ up = [t \in Tunnel |-> TRUE]
    /\ quiet = [t \in Tunnel |-> TurnWindow]
    /\ settled = [t \in Tunnel |-> Warmup]
    /\ bullet = [t \in Tunnel |-> "idle"]
    /\ due = FALSE
    /\ proc = [p \in Process |-> Resting]
    /\ lost = {}
    /\ failedRow = [t \in Tunnel |-> 0] /\ tried = [t \in Tunnel |-> 0]
    /\ since = [t \in Tunnel |-> Longest] /\ rebuilt = [t \in Tunnel |-> 0]
    /\ changes = 0 /\ crashes = 0

At(p) == Order[proc[p].i]
Observing(p) == proc[p].at \in {"probe", "decide", "recover"}

-----------------------------------------------------------------------------
(* The file of a tunnel. *)

ReadState(t) == IF t \in torn THEN DefaultState ELSE health[t]

\* Another process holds counts of t that it read earlier, and will save them.
HeldElsewhere(p, t) == \E q \in Process \ {p} : Observing(q) /\ At(q) = t

\* The file is written as a whole.
Saves(p, s) ==
    LET t == At(p) IN
    /\ health' = [health EXCEPT ![t] = s]
    /\ torn' = torn \ {t}
    /\ lost' = IF HeldElsewhere(p, t) THEN lost \cup {t} ELSE lost

\* Times are computed from a clock that p read before it probed.
In(p, minutes) == Max({minutes - proc[p].age, -MaxAge})
Before(p, timer) == timer + proc[p].age > 0

\* Mutant: a healthy probe forgets the rebuilds as well.
ResetAll(s) == DefaultState

Reset(s) == [s EXCEPT !.failures = 0, !.attempts = 0,
                      !.retry = -MaxAge, !.circuit = -MaxAge]

\* Mutant: failures count right after a resume, too.
CountAnyFailure(p, s) == [s EXCEPT !.failures = Min({@ + 1, FailThreshold})]

\* A failed probe counts, unless the agents have only just been resumed.
CountFailure(p, s) ==
    IF proc[p].warm THEN s
    ELSE [s EXCEPT !.failures = Min({@ + 1, FailThreshold})]

\* A failed recovery: the next one waits, and longer each time.
CountAttempt(p, s) ==
    [s EXCEPT !.attempts = Min({@ + 1, MaxAttempts}),
              !.retry = In(p, Backoff[Min({s.attempts + 1, Len(Backoff)})]),
              !.circuit = IF s.attempts + 1 >= MaxAttempts
                          THEN In(p, Circuit) ELSE -MaxAge]

-----------------------------------------------------------------------------
(* observe *)

Becomes(p, w) == proc' = [proc EXCEPT ![p] = w]

\* What p has read is forgotten, but for auto_recover.
Goes(p, step) ==
    Becomes(p, [Resting EXCEPT !.at = step, !.i = proc[p].i, !.auto = proc[p].auto])

\* A tick looks for a bullet that stalls when it has observed the tunnel.
Leaves(p) == IF p \in Tick THEN Goes(p, "stall") ELSE Becomes(p, Resting)

Moves(p) == Becomes(p, [Resting EXCEPT !.at = "next", !.i = proc[p].i])

\* A tick skips a tunnel that is not to be recovered if none of its panes
\* lives, which may be so when it is not up.
Pass(p) ==
    /\ proc[p].at = "load" /\ p \in Tick
    /\ ~up[At(p)] /\ ~on[At(p)]
    /\ Moves(p)
    /\ UNCHANGED <<files, world, due, ghosts, changes, crashes>>

\* A turn of the trigger side runs, here or at another Client, or has ended a
\* moment ago, if it is not calm; a tunnel is warm for a while once resumed.
Calm(t) == quiet[t] >= TurnWindow
Warm(t) == settled[t] < Warmup

\* The tunnel's file is read and its panes are sampled, then the clock and
\* the counts are read.
Begin(p) ==
    LET t == At(p) IN
    /\ proc[p].at = "load"
    /\ Becomes(p, [proc[p] EXCEPT !.at = "probe", !.age = 0,
                                  !.state = ReadState(t), !.auto = on[t],
                                  !.calm = Calm(t),
                                  !.warm = Warm(t)])
    /\ UNCHANGED <<files, world, due, ghosts, changes, crashes>>

\* The probes take their time.
Probe(p) ==
    LET t == At(p) IN
    /\ proc[p].at = "probe"
    /\ Becomes(p, [proc[p] EXCEPT !.at = "decide", !.ok = up[t]])
    /\ failedRow' = [failedRow EXCEPT ![t] =
           IF up[t] THEN 0
           ELSE IF proc[p].warm THEN @ ELSE Min({@ + 1, FailThreshold})]
    /\ tried' = [tried EXCEPT ![t] = IF up[t] THEN 0 ELSE @]
    /\ UNCHANGED <<files, world, due, lost, since, rebuilt, changes, crashes>>

SeesHealthy(p) ==
    /\ proc[p].at = "decide" /\ proc[p].ok
    /\ Saves(p, Reset(proc[p].state))
    /\ Leaves(p)
    /\ UNCHANGED <<world, due, failedRow, tried, since, rebuilt, changes, crashes>>

\* Mutant: after MaxAttempts the tunnel is given up.
HoldsForGood(p, s) ==
    \/ proc[p].warm \/ ~proc[p].auto \/ p \in Look
    \/ s.failures < FailThreshold \/ s.attempts >= MaxAttempts

\* What keeps observe from a recovery, in the code's order.
Holds(p, s) ==
    \/ proc[p].warm \/ ~proc[p].auto \/ p \in Look
    \/ s.failures < FailThreshold
    \/ Before(p, s.circuit) \/ Before(p, s.retry)

SeesFailure(p) ==
    LET s == CountFailure(p, proc[p].state) IN
    /\ proc[p].at = "decide" /\ ~proc[p].ok
    /\ Holds(p, s)
    /\ Saves(p, s)
    /\ Leaves(p)
    /\ UNCHANGED <<world, due, failedRow, tried, since, rebuilt, changes, crashes>>

\* Somebody works on the trigger side, or did a moment ago.  (The evidence is
\* read after the probes, and may be newer than the sample of this process.)
Defers(p) ==
    LET s == CountFailure(p, proc[p].state) IN
    /\ proc[p].at = "decide" /\ ~proc[p].ok
    /\ ~Holds(p, s) /\ (~proc[p].calm \/ ~Calm(At(p)))
    /\ Saves(p, [s EXCEPT !.retry = In(p, TurnRecheck)])
    /\ Leaves(p)
    /\ UNCHANGED <<world, due, failedRow, tried, since, rebuilt, changes, crashes>>

\* The status "recovering" is saved, and the tunnel is resumed.
Recovers(p) ==
    LET s == CountFailure(p, proc[p].state) IN
    /\ proc[p].at = "decide" /\ ~proc[p].ok
    /\ ~Holds(p, s) /\ proc[p].calm
    /\ Saves(p, s)
    /\ Becomes(p, [Resting EXCEPT !.at = "recover", !.i = proc[p].i,
                                  !.age = proc[p].age, !.state = s])
    /\ UNCHANGED <<world, due, failedRow, tried, since, rebuilt, changes, crashes>>

-----------------------------------------------------------------------------
(* recover_now *)

\* The tunnel was up already, or it is resumed and probes succeed.
Resumed(p) ==
    LET t == At(p) IN
    /\ up' = [up EXCEPT ![t] = TRUE]
    /\ settled' = [settled EXCEPT ![t] = IF up[t] THEN @ ELSE 0]
    /\ failedRow' = [failedRow EXCEPT ![t] = 0]
    /\ tried' = [tried EXCEPT ![t] = 0]
    /\ Leaves(p)
    /\ UNCHANGED <<on, quiet, bullet, due, since, rebuilt, changes, crashes>>

Restores(p) ==
    /\ proc[p].at = "recover"
    /\ Saves(p, Reset(proc[p].state))
    /\ Resumed(p)

\* dt recover --now counts what it found; the console does not.
RestoresNow(p) ==
    /\ proc[p].at = "now"
    /\ \/ Saves(p, Reset(ReadState(At(p))))
       \/ lost' = lost \cup {At(p)} /\ UNCHANGED files
    /\ Resumed(p)

Attempted(p) ==
    /\ tried' = [tried EXCEPT ![At(p)] = Min({@ + 1, MaxAttempts})]
    /\ since' = [since EXCEPT ![At(p)] = Min({proc[p].age, Longest})]

\* The tunnel is resumed and probes still fail: observe raises SystemExit, and
\* catches it.
Fails(p) ==
    LET t == At(p) IN
    /\ proc[p].at = "recover" /\ ~up[t]
    /\ settled' = [settled EXCEPT ![t] = 0]
    /\ Attempted(p)
    /\ Saves(p, CountAttempt(p, proc[p].state))
    /\ Leaves(p)
    /\ UNCHANGED <<on, up, quiet, bullet, due, failedRow, rebuilt, changes, crashes>>

\* The resume is refused or breaks off: a ControlError, which neither observe
\* nor the tick catches.
IsRefused(p) ==
    /\ proc[p].at = "recover" /\ ~up[At(p)]
    /\ Attempted(p)
    /\ Becomes(p, Resting)
    /\ UNCHANGED <<files, world, due, lost, failedRow, rebuilt, changes, crashes>>

-----------------------------------------------------------------------------
(* auto_rebuild_if_stalled *)

\* The bullet works again: what was counted of its rebuilds is forgotten.
SeesWorking(p) ==
    LET t == At(p) s == ReadState(t) IN
    /\ proc[p].at = "stall" /\ proc[p].auto /\ bullet[t] = "working"
    /\ IF s.rebuilds > 0
       THEN Saves(p, [s EXCEPT !.rebuilds = 0, !.rebuildRetry = -MaxAge])
       ELSE UNCHANGED <<files, lost>>
    /\ rebuilt' = [rebuilt EXCEPT ![t] = 0]
    /\ Moves(p)
    /\ UNCHANGED <<world, due, failedRow, tried, since, changes, crashes>>

\* The time to wait has passed, and the rebuilds of this episode are not used up.
Rebuilds(s) == s.rebuildRetry <= 0 /\ s.rebuilds < MaxRebuilds

LeavesBullet(p) ==
    LET t == At(p) IN
    /\ proc[p].at = "stall"
    /\ \/ ~proc[p].auto
       \/ bullet[t] = "idle"
       \/ bullet[t] = "stalled" /\ ~Rebuilds(ReadState(t))
    /\ Moves(p)
    /\ UNCHANGED <<files, world, due, ghosts, changes, crashes>>

\* The rebuild is counted before it is begun.
StartsRebuild(p) ==
    LET t == At(p) s == ReadState(t) IN
    /\ proc[p].at = "stall" /\ proc[p].auto /\ bullet[t] = "stalled"
    /\ Rebuilds(s)
    /\ Saves(p, [s EXCEPT !.rebuilds = @ + 1,
            !.rebuildRetry = RebuildBackoff[Min({s.rebuilds + 1, Len(RebuildBackoff)})]])
    /\ rebuilt' = [rebuilt EXCEPT ![t] = Min({@ + 1, MaxRebuilds + 1})]
    /\ Goes(p, "rebuild")
    /\ UNCHANGED <<world, due, failedRow, tried, since, changes, crashes>>

\* The bullet is started anew, or the rebuild is refused; what becomes of it
\* is seen in the evidence of a later tick.
EndsRebuild(p) ==
    /\ proc[p].at = "rebuild"
    /\ \E b \in {bullet[At(p)], "idle"} : bullet' = [bullet EXCEPT ![At(p)] = b]
    /\ Moves(p)
    /\ UNCHANGED <<files, on, up, quiet, settled, due, ghosts, changes, crashes>>

-----------------------------------------------------------------------------
(* Ticks, operators, time. *)

StartTick(p) ==
    /\ p \in Tick /\ proc[p].at = "idle" /\ due
    /\ Becomes(p, [Resting EXCEPT !.at = "load"])
    /\ due' = FALSE
    /\ UNCHANGED <<files, world, ghosts, changes, crashes>>

\* The next tunnel, or the end of the tick.
NextTunnel(p) ==
    /\ proc[p].at = "next"
    /\ IF proc[p].i < Len(Order)
       THEN Becomes(p, [Resting EXCEPT !.at = "load", !.i = proc[p].i + 1])
       ELSE Becomes(p, Resting)
    /\ UNCHANGED <<files, world, due, ghosts, changes, crashes>>

\* dt health or the console probes a tunnel; dt recover --now resumes one.
Asks(p) ==
    /\ p \in Look /\ proc[p].at = "idle"
    /\ changes < MaxChanges /\ changes' = changes + 1
    /\ \E i \in DOMAIN Order, step \in {"load", "now"} :
           Becomes(p, [Resting EXCEPT !.at = step, !.i = i])
    /\ UNCHANGED <<files, world, due, ghosts, crashes>>

\* dt recover --now ends with an error, and counts nothing.
GivesUp(p) ==
    /\ proc[p].at = "now" /\ ~up[At(p)]
    /\ \E s \in {0, settled[At(p)]} : settled' = [settled EXCEPT ![At(p)] = s]
    /\ Becomes(p, Resting)
    /\ UNCHANGED <<files, on, up, quiet, bullet, due, ghosts, changes, crashes>>

\* dt recover --enable, --disable.
SetEnabled(t) ==
    /\ changes < MaxChanges /\ changes' = changes + 1
    /\ on' = [on EXCEPT ![t] = ~@]
    /\ UNCHANGED <<files, up, quiet, settled, bullet, due, proc, ghosts, crashes>>

\* A tunnel breaks or comes back, somebody works on it, its bullet stalls.
World(t) ==
    /\ changes < MaxChanges /\ changes' = changes + 1
    /\ \/ up' = [up EXCEPT ![t] = ~@] /\ UNCHANGED <<quiet, bullet>>
       \/ quiet' = [quiet EXCEPT ![t] = 0] /\ UNCHANGED <<up, bullet>>
       \/ /\ \E b \in {"working", "stalled"} \ {bullet[t]} :
                 bullet' = [bullet EXCEPT ![t] = b]
          /\ UNCHANGED <<up, quiet>>
    /\ UNCHANGED <<files, on, settled, due, proc, ghosts, crashes>>

\* A process is killed; one that was writing leaves a file that nobody can
\* parse, and one that had probed has counted nothing.
Crash(p) ==
    LET t == At(p) IN
    /\ proc[p].at # "idle"
    /\ crashes < MaxCrashes /\ crashes' = crashes + 1
    /\ \/ proc[p].at \in {"decide", "recover", "stall"} /\ torn' = torn \cup {t}
       \/ UNCHANGED torn
    /\ lost' = IF Observing(p) \/ torn' # torn THEN lost \cup {t} ELSE lost
    /\ Becomes(p, Resting)
    /\ UNCHANGED <<health, world, due, failedRow, tried, since, rebuilt, changes>>

Passed(timer) == Max({timer - 1, -MaxAge})

Later(s) == [s EXCEPT !.retry = Passed(@), !.circuit = Passed(@),
                      !.rebuildRetry = Passed(@)]

Minute ==
    /\ \A p \in Process : Observing(p) => proc[p].age < MaxAge
    /\ due' = TRUE
    /\ health' = [t \in Tunnel |-> Later(health[t])]
    /\ proc' = [p \in Process |->
           IF Observing(p) THEN [proc[p] EXCEPT !.age = @ + 1, !.state = Later(@)]
           ELSE proc[p]]
    /\ quiet' = [t \in Tunnel |-> Min({quiet[t] + 1, TurnWindow})]
    /\ settled' = [t \in Tunnel |-> Min({settled[t] + 1, Warmup})]
    /\ since' = [t \in Tunnel |-> Min({since[t] + 1, Longest})]
    /\ UNCHANGED <<torn, on, up, bullet, lost, failedRow, tried, rebuilt,
                   changes, crashes>>

Step(p) ==
    \/ Pass(p) \/ Begin(p) \/ Probe(p)
    \/ SeesHealthy(p) \/ SeesFailure(p) \/ Defers(p) \/ Recovers(p)
    \/ Restores(p) \/ RestoresNow(p) \/ Fails(p) \/ IsRefused(p) \/ GivesUp(p)
    \/ SeesWorking(p) \/ LeavesBullet(p) \/ StartsRebuild(p) \/ EndsRebuild(p)
    \/ NextTunnel(p)

Next ==
    \/ \E p \in Process : Step(p) \/ StartTick(p) \/ Asks(p) \/ Crash(p)
    \/ \E t \in Tunnel : SetEnabled(t) \/ World(t)
    \/ Minute

Spec == Init /\ [][Next]_vars

\* Time passes, cron starts its ticks, and a process that runs goes on.
FairSpec ==
    /\ Spec
    /\ WF_vars(Minute)
    /\ \A p \in Process : WF_vars(Step(p))
    /\ WF_vars(\E p \in Tick : StartTick(p))

-----------------------------------------------------------------------------
Recovering(t) == \E p \in Tick : proc[p].at = "recover" /\ At(p) = t

\* A tunnel is resumed without being asked only after FailThreshold probes in
\* a row have failed, unless counts were lost: two observers overlapped, one
\* was killed, or the console resumed the tunnel.
RecoversAfterStreak ==
    [][\A p \in Tick : proc[p].at = "decide" /\ proc'[p].at = "recover" =>
           At(p) \in lost' \/ failedRow[At(p)] >= FailThreshold]_vars

\* A bullet that is never seen to work is rebuilt at most MaxRebuilds times,
\* unless counts were lost.
RebuildsAreFew == \A t \in Tunnel \ lost : rebuilt[t] <= MaxRebuilds

Observes(p, t) == Observing(p) /\ At(p) = t

\* Why the rebuilds are few: the file of a tunnel, and what its observers hold
\* of it, count every rebuild.
RebuildsCounted(t) ==
    /\ rebuilt[t] <= health[t].rebuilds
    /\ \A p \in Process : Observes(p, t) => rebuilt[t] <= proc[p].state.rebuilds

\* The processes that probe t or have probed it and not yet counted that.
Probing(t) == {p \in Process : Observes(p, t) /\ proc[p].at # "recover"}

\* The failures that p is about to count.
Pending(p) ==
    IF proc[p].at = "probe" THEN proc[p].state.failures
    ELSE IF proc[p].ok THEN 0 ELSE CountFailure(p, proc[p].state).failures

\* Why a recovery follows a streak: what is counted, or about to be counted by
\* the only prober of a tunnel, has been seen to fail in a row.
StreakCounted(t) ==
    /\ Probing(t) = {} =>
          /\ health[t].failures <= failedRow[t]
          /\ \A p \in Process : Observes(p, t) => proc[p].state.failures <= failedRow[t]
    /\ \A p \in Process : Probing(t) = {p} => Pending(p) <= failedRow[t]

\* Both hold of a tunnel until counts of it are lost.
RecoveryInv ==
    /\ TypeOK
    /\ torn \subseteq lost
    /\ \A t \in Tunnel \ lost : RebuildsCounted(t) /\ StreakCounted(t)

\* A tunnel that stays down, while nobody uses it, is resumed again and again,
\* unless the ticks always end before it, with an earlier tunnel.
StaysTried ==
    \A i \in DOMAIN Order :
        LET t == Order[i] IN
        <>[](~up[t] /\ on[t] /\ quiet[t] = TurnWindow)
        => []<>(\E j \in 1 .. i : Recovering(Order[j]))

\* README.md:42: failed attempts back off, longer each time.
FailedAttemptsBackOff ==
    [][\A p \in Tick : proc[p].at = "decide" /\ proc'[p].at = "recover" =>
           LET t == At(p) IN
           tried[t] > 0 => since[t] >= Backoff[Min({tried[t], Len(Backoff)})]]_vars
=============================================================================

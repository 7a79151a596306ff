--------------------------- MODULE MCBackground ---------------------------
(* What runs on a Client without being asked: the tick with its recovery, the *)
(* persist script with its lock, and the daemon's refresh of the Feishu       *)
(* installation.  They share nothing, and a behaviour plays one of them.      *)
EXTENDS MCRecovery

CONSTANTS
    Run, Waiting, NoRun, ReadsAge, MaxKills, MaxAges,  \* of PersistLock
    Daemon, MaxKeys,                                   \* of FeishuInstall
    One, Two   \* installations with one Client and with two: the Clients, the
               \* Client of each job, and the bound on faults

ASSUME BackgroundAssumption ==
    /\ NoRun \notin Run /\ {MaxKills, MaxAges, MaxKeys} \subseteq Nat
    /\ \A i \in {One, Two} :
          /\ i.faults \in Nat /\ i.home \in [DOMAIN i.home -> i.client]
          /\ Daemon \subseteq i.client

OneClient == [client |-> {"a"}, home |-> [p |-> "a", q |-> "a"], faults |-> 1]
TwoClients == [client |-> {"a", "b"}, home |-> [p |-> "a", q |-> "b"], faults |-> 0]

VARIABLES
    play,    \* of which of them the behaviour is: "tick", "lock", or one or two
             \* Clients of the installation: "one", "two"
    v1, v2, v3, v4, v5, v6, v7, v8, v9, v10, v11

from1 == <<v1, v2, v3, v4, v5, v6, v7, v8>>
from9 == <<v9, v10, v11>>
background == <<vars, play, from1, from9>>

Lock == INSTANCE PersistLock
           WITH dir <- v1, pid <- v2, aged <- v3, at <- v4, stale <- v5,
                crossed <- v6, kills <- v7, ages <- v8

Install(i) ==
    INSTANCE FeishuInstall
       WITH Client <- i.client, Job <- DOMAIN i.home, Home <- i.home,
            MaxFaults <- i.faults,
            vault <- v1, hub <- v2, route <- v3, waiting <- v4, bound <- v5,
            job <- v6, check <- v7, serves <- v8, torn <- v9, keys <- v10,
            faults <- v11

Off(x) == x = "off"

BackgroundInit ==
    /\ Init
    /\ \/ play = "tick" /\ Off(v1) /\ Off(v2) /\ Off(v3) /\ Off(v4) /\ Off(v5)
                        /\ Off(v6) /\ Off(v7) /\ Off(v8)
       \/ play = "lock" /\ Lock!Init
       \/ play = "one" /\ Install(One)!Init
       \/ play = "two" /\ Install(Two)!Init
    /\ play \in {"tick", "lock"} => Off(v9) /\ Off(v10) /\ Off(v11)

Ticks(Action) == play = "tick" /\ Action
Locks(Action) == play = "lock" /\ Action
Installs(one, two) ==
    \/ play = "one" /\ one
    \/ play = "two" /\ two

BackgroundNext ==
    /\ UNCHANGED play
    /\ \/ Ticks(Next) /\ UNCHANGED <<from1, from9>>
       \/ Locks(Lock!Next) /\ UNCHANGED <<vars, from9>>
       \/ Installs(Install(One)!Next, Install(Two)!Next) /\ UNCHANGED vars

BackgroundSpec ==
    /\ BackgroundInit /\ [][BackgroundNext]_background
    /\ WF_vars(Ticks(Minute))
    /\ \A p \in Process : WF_vars(Ticks(Step(p)))
    /\ WF_vars(Ticks(\E p \in Tick : StartTick(p)))
    /\ WF_from1(Locks(Lock!GetOld))
    /\ \A r \in Run :
          WF_from1(Locks(Lock!Begin(r))) /\ WF_from1(Locks(Lock!Goes(r)))
    /\ \A c \in Daemon :
          WF_from1(Installs(Install(One)!Refreshes(c), Install(Two)!Refreshes(c)))

\* The lock of a run of the persist script that was killed does not stop the
\* trees for good: again and again some run carries them (PersistLock).
TreesCarryOn == []<>(play = "lock" => Lock!Carrying)

\* Two runs carry the trees at once only after a take-over that removed the
\* lock of a live run (PersistLock).
OneCarries == play = "lock" => Lock!OneCarries

\* A Client can open the credentials it has whenever it has any, unless a
\* refresh was killed between its two files (FeishuInstall).
CredentialsOpen ==
    /\ play = "one" => Install(One)!CredentialsOpen
    /\ play = "two" => Install(Two)!CredentialsOpen

\* The daemon comes to serve an installation that stays on the Hub and that it
\* can open (FeishuInstall).
InstallationSpreads ==
    <>[](Installs(TRUE, TRUE) /\ Install(One)!Opens(v2))
    => <>[](Installs(TRUE, TRUE) /\ Daemon \subseteq v8)
===========================================================================

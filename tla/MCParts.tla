------------------------------ MODULE MCParts ------------------------------
(* Small instances of six modules that share nothing, checked in one run: a  *)
(* behaviour plays one of them.  Sixteen variables serve whichever module is *)
(* played; those it does not need stay "off".                                *)
EXTENDS ResumeMachine, TLC

CONSTANTS
    a, b,                                             \* two Clients
    Server, Container, Command, MaxAgents, MaxFaults, MaxWorld, \* of RemoteBullet
    NoClient, MaxMessage, MaxTick, MaxBlind,          \* of Snapshots
    Torn, MaxRows, MaxClaims, MaxCuts,                \* of NativeStore
    Me, Other, MaxChange,                             \* of Takeover
    Freezer, MaxTime, MaxCommand                      \* of Binding

ASSUME PartsAssumption ==
    /\ {MaxAgents, MaxFaults, MaxWorld, MaxTick, MaxBlind, MaxCuts, MaxChange, MaxTime,
        MaxCommand} \subseteq Nat
    /\ {MaxMessage, MaxRows, MaxClaims} \subseteq Nat \ {0}
    /\ Server \notin Container /\ "shell" \notin Container \cup {Server}
    /\ Me # Other /\ NoOne \notin {Me, Other}
    /\ NoClient \notin Client

TwoClients == {a, b}

\* No module tells one freezing command, or one container, from another.
Interchangeable == Permutations(Freezer) \cup Permutations(Container)

VARIABLES
    play,   \* which module the behaviour is of
    v1, v2, v3, v4, v5, v6, v7, v8, v9, v10, v11, v12, v13, v14, v15, v16

Bullet == INSTANCE RemoteBullet WITH
    Job <- Command,
    snapshot <- v1, route <- v2, copies <- v3, lives <- v4, place <- v5,
    named <- v6, pane <- v7, tui <- v8, job <- v9, started <- v10,
    faults <- v11, world <- v12

Shots == INSTANCE Snapshots WITH
    written <- v1, store <- v2, due <- v3, tree <- v4, hubTree <- v5,
    now <- v6, log <- v7, hubLog <- v8, pane <- v9, holder <- v10,
    tick <- v11, export <- v12, resume <- v13, blind <- v14, orderly <- v15,
    goal <- v16

Native == INSTANCE NativeStore WITH
    MaxGen <- MaxClaims,
    file <- v1, exports <- v2, hub <- v3, uploads <- v4, agent <- v5,
    gen <- v6, import <- v7, cuts <- v8

Take == INSTANCE Takeover WITH
    holder <- v1, doubled <- v2, diverged <- v3, side <- v4, probe <- v5,
    cache <- v6, resume <- v7, current <- v8, changes <- v9

Bind == INSTANCE Binding WITH
    Job <- Freezer,
    now <- v1, tool <- v2, place <- v3, agent <- v4, begun <- v5, file <- v6,
    entry <- v7, job <- v8, commands <- v9, apart <- v10

Off(x) == x = "off"

\* The variables that a module with so many does not need.
Spare(used) ==
    /\ used < 8 =>
          Off(v1) /\ Off(v2) /\ Off(v3) /\ Off(v4) /\ Off(v5) /\ Off(v6) /\
          Off(v7) /\ Off(v8)
    /\ used < 9 =>
          Off(v9)
    /\ used < 10 =>
          Off(v10)
    /\ used < 12 =>
          Off(v11) /\ Off(v12)
    /\ used < 16 =>
          Off(v13) /\ Off(v14) /\ Off(v15) /\ Off(v16)

\* The machine of ResumeMachine, where it is not played.
Still == machine = NewMachine

PartsInit ==
    \/ play = "machine" /\ Init /\ Spare(0)
    \/ play = "bullet" /\ Still /\ Bullet!Init /\ Spare(12)
    \/ play = "snapshots" /\ Still /\ Shots!Init /\ Spare(16)
    \/ play = "native" /\ Still /\ Native!Init /\ Spare(8)
    \/ play = "takeover" /\ Still /\ Take!Init /\ Spare(9)
    \/ play = "binding" /\ Still /\ Bind!Init /\ Spare(10)

from1 == <<v1, v2, v3, v4, v5, v6, v7, v8>>
from11 == <<v11, v12>>
from13 == <<v13, v14, v15, v16>>
parts == <<play, machine, from1, v9, v10, from11, from13>>

PlayMachine ==
    play = "machine" /\ Next /\ UNCHANGED <<from1, v9, v10, from11, from13>>

PlayBullet == play = "bullet" /\ Bullet!Next /\ UNCHANGED <<machine, from13>>

\* The behaviours of OrderlySpec: orderly stays true.
PlaySnapshots == play = "snapshots" /\ Shots!Next /\ v15' /\ UNCHANGED machine

PlayNative ==
    play = "native" /\ Native!Next /\ UNCHANGED <<machine, v9, v10, from11, from13>>

PlayTakeover ==
    play = "takeover" /\ Take!Next /\ UNCHANGED <<machine, v10, from11, from13>>

PlayBinding == play = "binding" /\ Bind!Next /\ UNCHANGED <<machine, from11, from13>>

\* A module moves the variables it has.
PartsNext ==
    /\ UNCHANGED play
    /\ \/ PlayMachine \/ PlayBullet \/ PlaySnapshots
       \/ PlayNative \/ PlayTakeover \/ PlayBinding

PartsSpec == PartsInit /\ [][PartsNext]_parts

-----------------------------------------------------------------------------
(* The properties of the modules, each where its module is played.           *)

\* A resume or a rebuild starts the only agent at the tunnel's run point that
\* names the bound session, whatever remote calls failed (RemoteBullet).
OneWriter == [][play = "bullet" => Bullet!StartsTheOne]_parts

\* Where the run point is a container and its scan and kill got through, the
\* agent that is started is the only one there at all (RemoteBullet).
StartsAlone == [][play = "bullet" => Bullet!StartsTheOnly]_parts

\* Where every switch waits for the exports before it, a resume continues the
\* session with every message, and no stale session overtakes it (Snapshots).
SwitchKeepsAll == play = "snapshots" => Shots!SwitchKeepsAll

\* A native session file only grows at its end, but for an import that was
\* overtaken and takes its own rows out again (NativeStore).
RowsKept == [][play = "native" => Native!KeepsRows]_parts

\* A finished native import continues a history that contains every export it
\* had on disk when it decided, none of them torn (NativeStore).
ContinuesAll == play = "native" => Native!ContinuesAll

\* What the web page showed was possible when the operator asked is refused,
\* if nothing has happened since, only for a side that has no session or one
\* that cannot be carried (Takeover).
PlanHonoured == play = "takeover" => Take!PlanHonoured

\* A side that a freeze could not prove keeps the binding it had, and one that
\* was proven is saved with a session that exists (Binding).
OldBindingKept == [][play = "binding" => Bind!KeepsOldBinding]_parts

\* Between commands the script of the bullet leads where the tunnel's file
\* says, unless commands overlapped or ended early (Binding).
EntryAgrees == play = "binding" => Bind!EntryAgrees
=============================================================================

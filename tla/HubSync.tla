------------------------------ MODULE HubSync ------------------------------
(***************************************************************************)
(* How the copies of one tunnel's file converge (hub.py: sync, push, pull, *)
(* merge_snapshot; cli.py: new, rm).                                       *)
(*                                                                         *)
(* Every Client and the Hub keep at most one live record and at most one   *)
(* tombstone of the tunnel.  A sync downloads both from the Hub, merges    *)
(* them with the local ones by their logical clocks, and uploads what the  *)
(* merge made of the downloaded copies; each transfer is a process of its  *)
(* own, without a lock, so anything may happen between two of them.        *)
(*                                                                         *)
(* Clocks have a resolution of one second, and rsync compares file times   *)
(* in seconds too: several events may fall into one.                       *)
(***************************************************************************)
EXTENDS Naturals, FiniteSets, FiniteSetsExt

CONSTANTS
    Client,
    Hub,
    None,         \* no file
    Hash,         \* Hash[i] orders the contents of event i among equal clocks
    Size,         \* the size of the file they make
    Kind,         \* the edits there are: a subset of {"stamped", "bare"}
    Command,      \* a subset of {"push", "pull", "pull_one"}
    MaxEvents,    \* bound: events that write a file with a clock of its own
    MaxCommands,  \* bound: pushes and pulls
    MaxCuts       \* bound: transfers that fail

ASSUME HubSyncAssumption ==
    /\ Hub \notin Client
    /\ MaxEvents \in Nat /\ MaxCommands \in Nat /\ MaxCuts \in Nat
    /\ Hash \in [1 .. MaxEvents -> Nat] /\ Size \in [1 .. MaxEvents -> Nat]
    /\ \A i, j \in 1 .. MaxEvents : Hash[i] = Hash[j] => i = j
    /\ None \notin [id : Nat, clock : Nat, mtime : Nat]

VARIABLES
    live,      \* the tunnel's file at each Client and the Hub
    tomb,      \* its tombstone
    snap,      \* what the sync of each Client downloaded
    prune,     \* what its merge found to delete at the Hub
    pc,        \* where the sync, push or pull of each Client is
    removing,  \* the tombstone that dt rm has yet to write at the Hub
    second, events, commands, cuts,
    facts      \* ghost: every record and tombstone that was written

files == <<live, tomb>>
work == <<snap, prune, pc>>
counts == <<second, events, commands, cuts>>
vars == <<files, work, removing, counts, facts>>

Replica == Client \cup {Hub}

\* A file: the event that gave it its contents, its clock and its file time.
File == [id : 1 .. MaxEvents, clock : Nat, mtime : Nat]

Place == {"idle", "tunnels", "merge", "up", "up_tombs", "prune",
          "push_tombs", "pull_tombs", "apply"}

Empty == [live |-> None, tomb |-> None]

TypeOK ==
    /\ live \in [Replica -> File \cup {None}]
    /\ tomb \in [Replica -> File \cup {None}]
    /\ snap \in [Client -> [live : File \cup {None}, tomb : File \cup {None}]]
    /\ prune \in [Client -> SUBSET {"live", "tomb"}]
    /\ pc \in [Client -> Place]
    /\ removing \in [Client -> File \cup {None}]
    /\ second \in Nat /\ events \in 0 .. MaxEvents
    /\ commands \in 0 .. MaxCommands /\ cuts \in 0 .. MaxCuts
    /\ facts \in SUBSET [kind : {"new", "edit", "tomb"}, by : Client,
                         id : 1 .. MaxEvents, clock : Nat]

Init ==
    /\ live = [r \in Replica |-> None]
    /\ tomb = [r \in Replica |-> None]
    /\ snap = [c \in Client |-> Empty]
    /\ prune = [c \in Client |-> {}]
    /\ pc = [c \in Client |-> "idle"]
    /\ removing = [c \in Client |-> None]
    /\ second = 1 /\ events = 0 /\ commands = 0 /\ cuts = 0
    /\ facts = {}

-----------------------------------------------------------------------------
(* Files and clocks.                                                         *)

Clock(file) == IF file = None THEN 0 ELSE file.clock

Same(x, y) == x # None /\ y # None /\ x.id = y.id

\* An event that writes a file: the second may have passed since the last one.
Happens ==
    /\ events < MaxEvents
    /\ events' = events + 1
    /\ second' \in IF events = 0 THEN {second} ELSE {second, second + 1}

\* The file it writes.
Stamp == [id |-> events', clock |-> second', mtime |-> second']

Known(kind, c) ==
    facts' = facts \cup {[kind |-> kind, by |-> c, id |-> events', clock |-> second']}

\* What rsync -a leaves at the target: a file of the same time and size that is
\* there already is taken for the same.
Sent(source, target) ==
    IF source = None THEN target
    ELSE IF target # None /\ target.mtime = source.mtime
              /\ Size[target.id] = Size[source.id]
         THEN target
    ELSE source

\* With --update a target that is newer stays.
SentIfNewer(source, target) ==
    IF source # None /\ target # None /\ target.mtime > source.mtime THEN target
    ELSE Sent(source, target)

-----------------------------------------------------------------------------
(* The merge of a snapshot.                                                  *)

\* Mutant: file times instead of the logical clocks.
BeatsFileTime(right, left) == right.mtime > left.mtime

\* The newer clock wins, equal clocks by the hash of the contents.
Beats(right, left) ==
    \/ right.clock > left.clock
    \/ right.clock = left.clock /\ Hash[right.id] > Hash[left.id]

\* Mutant: the winner keeps its file time.
TouchedNot(winner, left, right) == winner

Touched(winner, left, right) ==
    [winner EXCEPT !.mtime =
        Max({f.mtime : f \in {left, right} \ {None}}) + 1]

\* Both copies become the winner, one second newer than either was.
Converged(left, right) ==
    IF left = right \/ Same(left, right) THEN [left |-> left, right |-> right]
    ELSE LET winner == IF left = None \/ (right # None /\ Beats(right, left))
                       THEN right ELSE left
             copy == Touched(winner, left, right)
         IN  [left |-> copy, right |-> copy]

\* The local tombstone wins a tie.
NewerTomb(left, right) == IF Clock(right) > Clock(left) THEN right ELSE left

\* A tombstone at least as new as every record deletes them.
Deleted(c) ==
    LET newest == NewerTomb(tomb[c], snap[c].tomb)
    IN  newest # None /\ newest.clock >= Max({Clock(live[c]), Clock(snap[c].live)})

\* Mutant: the Hub's copy is left to the upload, which deletes nothing.
DeleteUnpruned(c) ==
    LET newest == NewerTomb(tomb[c], snap[c].tomb)
    IN  /\ live' = [live EXCEPT ![c] = None]
        /\ tomb' = [tomb EXCEPT ![c] = newest]
        /\ snap' = [snap EXCEPT ![c] = [live |-> None, tomb |-> newest]]
        /\ prune' = [prune EXCEPT ![c] = {}]

Delete(c) ==
    LET newest == NewerTomb(tomb[c], snap[c].tomb)
    IN  /\ live' = [live EXCEPT ![c] = None]
        /\ tomb' = [tomb EXCEPT ![c] = newest]
        /\ snap' = [snap EXCEPT ![c] = [live |-> None, tomb |-> newest]]
        /\ prune' = [prune EXCEPT ![c] = IF snap[c].live # None THEN {"live"} ELSE {}]

\* A newer record makes the tombstones void.
Keep(c) ==
    LET both == Converged(live[c], snap[c].live)
    IN  /\ live' = [live EXCEPT ![c] = both.left]
        /\ tomb' = [tomb EXCEPT ![c] = None]
        /\ snap' = [snap EXCEPT ![c] = [live |-> both.right, tomb |-> None]]
        /\ prune' = [prune EXCEPT ![c] = IF snap[c].tomb # None THEN {"tomb"} ELSE {}]

-----------------------------------------------------------------------------
(* The sync: six steps of one Client.                                        *)

Goto(c, place) == pc' = [pc EXCEPT ![c] = place]

DownTunnels(c) ==
    /\ pc[c] = "idle"
    /\ snap' = [snap EXCEPT ![c].live = live[Hub]]
    /\ Goto(c, "tunnels")
    /\ UNCHANGED <<files, prune, removing, counts, facts>>

DownTombs(c) ==
    /\ pc[c] = "tunnels"
    /\ snap' = [snap EXCEPT ![c].tomb = tomb[Hub]]
    /\ Goto(c, "merge")
    /\ UNCHANGED <<files, prune, removing, counts, facts>>

MergeSnapshot(c) ==
    /\ pc[c] = "merge"
    /\ \/ Deleted(c) /\ Delete(c)
       \/ ~Deleted(c) /\ Keep(c)
    /\ Goto(c, "up")
    /\ UNCHANGED <<removing, counts, facts>>

UpTunnels(c) ==
    /\ pc[c] = "up"
    /\ live' = [live EXCEPT ![Hub] = SentIfNewer(snap[c].live, live[Hub])]
    /\ Goto(c, "up_tombs")
    /\ UNCHANGED <<tomb, snap, prune, removing, counts, facts>>

UpTombs(c) ==
    /\ pc[c] = "up_tombs"
    /\ tomb' = [tomb EXCEPT ![Hub] = SentIfNewer(snap[c].tomb, tomb[Hub])]
    /\ Goto(c, "prune")
    /\ UNCHANGED <<live, snap, prune, removing, counts, facts>>

\* Whatever the Hub has by now is deleted.
Prune(c) ==
    /\ pc[c] = "prune"
    /\ live' = IF "live" \in prune[c] THEN [live EXCEPT ![Hub] = None] ELSE live
    /\ tomb' = IF "tomb" \in prune[c] THEN [tomb EXCEPT ![Hub] = None] ELSE tomb
    /\ snap' = [snap EXCEPT ![c] = Empty]
    /\ prune' = [prune EXCEPT ![c] = {}]
    /\ Goto(c, "idle")
    /\ UNCHANGED <<removing, counts, facts>>

Sync(c) ==
    \/ DownTunnels(c)
    \/ DownTombs(c)
    \/ MergeSnapshot(c)
    \/ UpTunnels(c)
    \/ UpTombs(c)
    \/ Prune(c)

\* A transfer fails, or the process ends: the rest is not done.
Cut(c) ==
    /\ cuts < MaxCuts
    /\ pc[c] # "idle"
    /\ cuts' = cuts + 1
    /\ snap' = [snap EXCEPT ![c] = Empty]
    /\ prune' = [prune EXCEPT ![c] = {}]
    /\ Goto(c, "idle")
    /\ UNCHANGED <<files, removing, second, events, commands, facts>>

-----------------------------------------------------------------------------
(* Push and pull: plain transfers, whatever the clocks say.                  *)

Begins(c, command) ==
    /\ command \in Command
    /\ commands < MaxCommands
    /\ commands' = commands + 1
    /\ pc[c] = "idle"
    /\ UNCHANGED <<second, events, cuts>>

PushTunnels(c) ==
    /\ Begins(c, "push")
    /\ live' = [live EXCEPT ![Hub] = Sent(live[c], live[Hub])]
    /\ Goto(c, "push_tombs")
    /\ UNCHANGED <<tomb, snap, prune, removing, facts>>

PushTombs(c) ==
    /\ pc[c] = "push_tombs"
    /\ tomb' = [tomb EXCEPT ![Hub] = Sent(tomb[c], tomb[Hub])]
    /\ Goto(c, "idle")
    /\ UNCHANGED <<live, snap, prune, removing, counts, facts>>

\* A pull of one tunnel leaves the tombstones at the Hub.
PullTunnels(c) ==
    /\ \/ Begins(c, "pull") /\ Goto(c, "pull_tombs")
       \/ Begins(c, "pull_one") /\ live[Hub] # None /\ Goto(c, "apply")
    /\ live' = [live EXCEPT ![c] = Sent(live[Hub], live[c])]
    /\ UNCHANGED <<tomb, snap, prune, removing, facts>>

PullTombs(c) ==
    /\ pc[c] = "pull_tombs"
    /\ tomb' = [tomb EXCEPT ![c] = Sent(tomb[Hub], tomb[c])]
    /\ Goto(c, "apply")
    /\ UNCHANGED <<live, snap, prune, removing, counts, facts>>

ApplyLocalTombstones(c) ==
    /\ pc[c] = "apply"
    /\ \/ /\ live[c] # None /\ tomb[c] # None
          /\ tomb[c].clock >= live[c].clock
          /\ live' = [live EXCEPT ![c] = None]
          /\ UNCHANGED tomb
       \/ /\ live[c] # None /\ tomb[c] # None
          /\ tomb[c].clock < live[c].clock
          /\ tomb' = [tomb EXCEPT ![c] = None]
          /\ UNCHANGED live
       \/ /\ None \in {live[c], tomb[c]}
          /\ UNCHANGED files
    /\ Goto(c, "idle")
    /\ UNCHANGED <<snap, prune, removing, counts, facts>>

Transfer(c) ==
    \/ PushTunnels(c)
    \/ PushTombs(c)
    \/ PullTunnels(c)
    \/ PullTombs(c)
    \/ ApplyLocalTombstones(c)

-----------------------------------------------------------------------------
(* What users and the other commands write.                                  *)

\* A command changes the tunnel.  Some (desc, use, rebuild) save it without a
\* new updated_at, which leaves its clock as it was.
Edit(c) ==
    /\ live[c] # None
    /\ Happens
    /\ \E kind \in Kind :
          live' = [live EXCEPT ![c] =
              IF kind = "bare" THEN [Stamp EXCEPT !.clock = live[c].clock] ELSE Stamp]
    /\ Known("edit", c)
    /\ UNCHANGED <<tomb, work, removing, commands, cuts>>

\* dt new: the tombstone that is here no longer applies.
New(c) ==
    /\ Happens
    /\ live' = [live EXCEPT ![c] = Stamp]
    /\ tomb' = [tomb EXCEPT ![c] = None]
    /\ Known("new", c)
    /\ UNCHANGED <<work, removing, commands, cuts>>

\* dt rm: the tombstone, then the tunnel's file, then the tombstone at the Hub.
Remove(c) ==
    /\ live[c] # None
    /\ removing[c] = None
    /\ Happens
    /\ live' = [live EXCEPT ![c] = None]
    /\ tomb' = [tomb EXCEPT ![c] = Stamp]
    /\ removing' = [removing EXCEPT ![c] = Stamp]
    /\ Known("tomb", c)
    /\ UNCHANGED <<work, commands, cuts>>

\* The Hub's tombstone is replaced by whatever arrives last, or never.
RemoveRemote(c) ==
    /\ removing[c] # None
    /\ \/ /\ second' \in {second, second + 1}
          /\ tomb' = [tomb EXCEPT ![Hub] = [removing[c] EXCEPT !.mtime = second']]
       \/ UNCHANGED <<tomb, second>>
    /\ removing' = [removing EXCEPT ![c] = None]
    /\ UNCHANGED <<live, work, events, commands, cuts, facts>>

User(c) ==
    \/ Edit(c)
    \/ New(c)
    \/ Remove(c)
    \/ RemoveRemote(c)

-----------------------------------------------------------------------------
Next == \E c \in Client : Sync(c) \/ Cut(c) \/ Transfer(c) \/ User(c)

Spec == Init /\ [][Next]_vars

\* The tick of every Client syncs once a minute; what began goes on.
Goes(c) == Sync(c) \/ PushTombs(c) \/ PullTombs(c) \/ ApplyLocalTombstones(c)

FairSpec == Spec /\ \A c \in Client : WF_vars(Goes(c))

-----------------------------------------------------------------------------
(* Properties.                                                               *)

\* A file at least as new as a fact.
Covers(file, f) == Clock(file) >= f.clock

\* Nothing a Client wrote gives way to something older at that Client,
\* whichever syncs of others ran in between (merge_snapshot).
OwnWritesKept ==
    \A f \in facts : Covers(live[f.by], f) \/ Covers(tomb[f.by], f)

Agreed == \A r \in Replica : live[r] = live[Hub] \/ Same(live[r], live[Hub])

\* A sync, push or pull that begins while no other is under way.
Alone ==
    \A c \in Client :
        pc[c] = "idle" /\ pc'[c] # "idle" => \A d \in Client \ {c} : pc[d] = "idle"

Apart == <>[][Alone]_vars

Tombs == {f \in facts : f.kind = "tomb"}

Lives == facts \ Tombs

\* However transfers, merges, edits and removals of several Clients overlapped:
\* once they no longer do, every Client and the Hub agree on the tunnel
\* (hub.sync; docs/deletion-consensus.md:8).
Converges == Apart => <>[]Agreed

\* ... and when nothing but syncs ran, what they agree on is the newest record,
\* or that it was deleted.
NewestWins ==
    Apart => <>[](/\ Agreed
                  /\ \/ /\ live[Hub] # None
                        /\ \A f \in facts : Covers(live[Hub], f)
                     \/ /\ live[Hub] = None
                        /\ \A f \in Lives : \E t \in Tombs : t.clock >= f.clock)

-----------------------------------------------------------------------------
(* The inductive invariant, where no pull and no bare edit happens.          *)

\* A file has the contents and the clock of an event that somebody wrote.
Recorded ==
    {file \in File : \E f \in facts : f.id = file.id /\ f.clock = file.clock} \cup {None}

FilesRecorded ==
    /\ live \in [Replica -> Recorded] /\ tomb \in [Replica -> Recorded]
    /\ snap \in [Client -> [live : Recorded, tomb : Recorded]]
    /\ removing \in [Client -> Recorded]

\* An event has one clock, which lies in the past.
EventsPast ==
    \A f \in facts :
        /\ f.id <= events /\ f.clock <= second
        /\ \A g \in facts : f.id = g.id => f.clock = g.clock

NothingPulled == \A c \in Client : pc[c] \notin {"pull_tombs", "apply"}

KeepInv == TypeOK /\ FilesRecorded /\ EventsPast /\ NothingPulled /\ OwnWritesKept
=============================================================================

--------------------------- MODULE HubSyncProofs ----------------------------
(* Syncs keep what their Client wrote, for every set of Clients and every    *)
(* bound, where nothing is pulled and every edit has a clock of its own.     *)
EXTENDS HubSync, TLAPS

\* The greatest of two numbers, or of one of them.
LEMMA MaxOf ==
    ASSUME NEW x \in Nat, NEW y \in Nat, NEW S \in SUBSET {x, y}, S # {}
    PROVE  Max(S) \in S /\ \A z \in S : Max(S) >= z
<1>1. \E w \in S : \A z \in S : w >= z
  <2>1. CASE x \notin S
    <3>1. y \in S /\ \A z \in S : z = y
      BY <2>1
    <3>2. QED
      BY <3>1
  <2>2. CASE y \notin S
    <3>1. x \in S /\ \A z \in S : z = x
      BY <2>2
    <3>2. QED
      BY <3>1
  <2>3. CASE x \in S /\ y \in S
    BY <2>3
  <2>4. QED
    BY <2>1, <2>2, <2>3
<1>2. QED
  BY <1>1 DEF Max

\* No file is None, and a recorded file is a file with a clock.
LEMMA RecordedFiles ==
    /\ None \notin File /\ None \in Recorded /\ Recorded \subseteq File \cup {None}
    /\ \A file \in Recorded : Clock(file) \in Nat
    /\ \A x, y \in Recorded : EventsPast /\ Same(x, y) => Clock(x) = Clock(y)
<1>1. None \notin File
  BY HubSyncAssumption DEF File
<1>2. QED
  BY <1>1 DEF Recorded, Clock, File, Same, EventsPast

\* What rsync leaves is one of the two files.
LEMMA Transfers ==
    ASSUME NEW source, NEW target
    PROVE  Sent(source, target) \in {source, target}
           /\ SentIfNewer(source, target) \in {source, target}
  BY DEF Sent, SentIfNewer

\* A step that copies recorded files, and takes no clock back at a Client.
LEMMA CopiesKeep ==
    ASSUME KeepInv, UNCHANGED <<facts, events>>, second' \in {second, second + 1},
           live' \in [Replica -> Recorded], tomb' \in [Replica -> Recorded],
           snap' \in [Client -> [live : Recorded, tomb : Recorded]],
           removing' \in [Client -> Recorded],
           prune' \in [Client -> SUBSET {"live", "tomb"}],
           pc' \in [Client -> Place \ {"pull_tombs", "apply"}],
           commands' \in 0 .. MaxCommands, cuts' \in 0 .. MaxCuts,
           \A c \in Client, f \in facts :
              Covers(live[c], f) \/ Covers(tomb[c], f)
              => Covers(live'[c], f) \/ Covers(tomb'[c], f)
    PROVE  KeepInv'
<1>1. Recorded' = Recorded /\ Recorded \subseteq File \cup {None}
  BY RecordedFiles DEF Recorded
<1>2. TypeOK'
  BY <1>1 DEF KeepInv, TypeOK
<1>3. FilesRecorded' /\ NothingPulled'
  BY <1>1 DEF FilesRecorded, NothingPulled
<1>4. EventsPast'
  <2>1. second \in Nat /\ facts \in SUBSET [kind : {"new", "edit", "tomb"}, by : Client,
                                            id : 1 .. MaxEvents, clock : Nat]
    BY DEF KeepInv, TypeOK
  <2>2. \A f \in facts : f.clock <= second'
    BY <2>1 DEF KeepInv, EventsPast
  <2>3. QED
    BY <2>2 DEF KeepInv, EventsPast
<1>5. OwnWritesKept'
  <2>1. \A f \in facts : f.by \in Client
    BY DEF KeepInv, TypeOK
  <2>2. SUFFICES ASSUME NEW f \in facts
                 PROVE  Clock(live'[f.by]) >= f.clock \/ Clock(tomb'[f.by]) >= f.clock
    BY DEF OwnWritesKept, Covers, Clock
  <2>3. QED
    BY <2>1 DEF KeepInv, OwnWritesKept, Covers
<1>6. QED
  BY <1>2, <1>3, <1>4, <1>5 DEF KeepInv

\* A Client downloads, uploads, prunes, ends a transfer or pushes: its own files
\* stay as they are.
LEMMA HubCopiesKeep ==
    ASSUME KeepInv, Command \subseteq {"push"}, NEW c \in Client,
           \/ DownTunnels(c) \/ DownTombs(c) \/ UpTunnels(c) \/ UpTombs(c) \/ Prune(c)
           \/ Cut(c) \/ Transfer(c)
    PROVE  KeepInv'
<1>1. /\ c \in Replica /\ Hub \in Replica /\ \A d \in Client : d \in Replica /\ d # Hub
      /\ None \in Recorded
  BY HubSyncAssumption, RecordedFiles DEF Replica
<1>2. /\ live \in [Replica -> Recorded] /\ tomb \in [Replica -> Recorded]
      /\ snap \in [Client -> [live : Recorded, tomb : Recorded]]
      /\ removing \in [Client -> Recorded]
      /\ prune \in [Client -> SUBSET {"live", "tomb"}]
      /\ pc \in [Client -> Place \ {"pull_tombs", "apply"}]
      /\ second \in Nat /\ commands \in 0 .. MaxCommands /\ cuts \in 0 .. MaxCuts
      /\ MaxCommands \in Nat /\ MaxCuts \in Nat
  BY HubSyncAssumption DEF KeepInv, TypeOK, FilesRecorded, NothingPulled
<1>3. Empty \in [live : Recorded, tomb : Recorded]
  BY <1>1 DEF Empty
<1>4. UNCHANGED <<facts, events, second, removing>>
  BY DEF DownTunnels, DownTombs, UpTunnels, UpTombs, Prune, Cut, Transfer, PushTunnels,
     PushTombs, PullTunnels, PullTombs, ApplyLocalTombstones, Begins, counts
<1>5. /\ ~PullTunnels(c) /\ ~PullTombs(c) /\ ~ApplyLocalTombstones(c)
  BY <1>2 DEF PullTunnels, PullTombs, ApplyLocalTombstones, Begins
<1>6. /\ commands' \in 0 .. MaxCommands /\ cuts' \in 0 .. MaxCuts
  BY <1>2, <1>5 DEF DownTunnels, DownTombs, UpTunnels, UpTombs, Prune, Cut, Transfer,
     PushTunnels, PushTombs, Begins, counts
<1>7. pc' \in [Client -> Place \ {"pull_tombs", "apply"}]
  BY <1>2, <1>5 DEF DownTunnels, DownTombs, UpTunnels, UpTombs, Prune, Cut, Transfer,
     PushTunnels, PushTombs, Goto, Place
<1>8. /\ live' \in [Replica -> Recorded] /\ tomb' \in [Replica -> Recorded]
      /\ \A d \in Client : live'[d] = live[d] /\ tomb'[d] = tomb[d]
  <2>1. /\ snap[c].live \in Recorded /\ snap[c].tomb \in Recorded
        /\ live[c] \in Recorded /\ tomb[c] \in Recorded
        /\ live[Hub] \in Recorded /\ tomb[Hub] \in Recorded
    BY <1>1, <1>2
  <2>2. CASE DownTunnels(c) \/ DownTombs(c) \/ Cut(c)
    BY <1>2, <2>2 DEF DownTunnels, DownTombs, Cut, files
  <2>3. CASE UpTunnels(c) \/ PushTunnels(c)
    <3>1. PICK file \in Recorded : live' = [live EXCEPT ![Hub] = file] /\ UNCHANGED tomb
      BY <2>1, <2>3, Transfers DEF UpTunnels, PushTunnels
    <3>2. QED
      BY <1>1, <1>2, <3>1
  <2>4. CASE UpTombs(c) \/ PushTombs(c)
    <3>1. PICK file \in Recorded : tomb' = [tomb EXCEPT ![Hub] = file] /\ UNCHANGED live
      BY <2>1, <2>4, Transfers DEF UpTombs, PushTombs
    <3>2. QED
      BY <1>1, <1>2, <3>1
  <2>5. CASE Prune(c)
    BY <1>1, <1>2, <2>5 DEF Prune
  <2>6. QED
    BY <1>5, <2>2, <2>3, <2>4, <2>5 DEF Transfer
<1>9. /\ snap' \in [Client -> [live : Recorded, tomb : Recorded]]
      /\ prune' \in [Client -> SUBSET {"live", "tomb"}]
  <2>1. CASE DownTunnels(c)
    BY <1>1, <1>2, <2>1 DEF DownTunnels
  <2>2. CASE DownTombs(c)
    BY <1>1, <1>2, <2>2 DEF DownTombs
  <2>3. CASE UpTunnels(c) \/ UpTombs(c) \/ Transfer(c)
    BY <1>2, <1>5, <2>3 DEF UpTunnels, UpTombs, Transfer, PushTunnels, PushTombs
  <2>4. CASE Prune(c) \/ Cut(c)
    BY <1>2, <1>3, <2>4 DEF Prune, Cut
  <2>5. QED
    BY <2>1, <2>2, <2>3, <2>4
<1>10. QED
  BY <1>2, <1>4, <1>6, <1>7, <1>8, <1>9, CopiesKeep DEF Covers

\* A file that a merge touches keeps its contents and its clock.
LEMMA TouchedRecorded ==
    ASSUME NEW winner \in Recorded \ {None}, NEW left \in Recorded, NEW right \in Recorded,
           winner \in {left, right}
    PROVE  /\ Touched(winner, left, right) \in Recorded
           /\ Clock(Touched(winner, left, right)) = Clock(winner)
<1> DEFINE times == {f.mtime : f \in {left, right} \ {None}}
<1>1. winner \in File /\ \A f \in {left, right} \ {None} : f.mtime \in Nat
  BY RecordedFiles DEF File
<1>2. Max(times) \in Nat
  <2>1. times # {}
    BY RecordedFiles
  <2>2. CASE left = None
    <3>1. times \in SUBSET {right.mtime, right.mtime} /\ right.mtime \in Nat
      BY <1>1, <2>2, RecordedFiles
    <3>2. QED
      BY <2>1, <3>1, MaxOf
  <2>3. CASE right = None
    <3>1. times \in SUBSET {left.mtime, left.mtime} /\ left.mtime \in Nat
      BY <1>1, <2>3, RecordedFiles
    <3>2. QED
      BY <2>1, <3>1, MaxOf
  <2>4. CASE left # None /\ right # None
    <3>1. times \in SUBSET {left.mtime, right.mtime}
      OBVIOUS
    <3>2. left.mtime \in Nat /\ right.mtime \in Nat
      BY <1>1, <2>4
    <3>3. QED
      BY <2>1, <3>1, <3>2, MaxOf
  <2>5. QED
    BY <2>2, <2>3, <2>4
<1> HIDE DEF times
<1> DEFINE later == Max(times) + 1
<1>3. later \in Nat
  BY <1>2
<1> HIDE DEF later
<1>4. [winner EXCEPT !.mtime = later] \in File
      /\ [winner EXCEPT !.mtime = later].id = winner.id
      /\ [winner EXCEPT !.mtime = later].clock = winner.clock
  BY <1>1, <1>3 DEF File
<1>5. Touched(winner, left, right) = [winner EXCEPT !.mtime = later]
  BY DEF Touched, later, times
<1>6. QED
  BY <1>1, <1>4, <1>5, RecordedFiles DEF Recorded, Clock

\* The two copies a merge makes of two files are recorded, and as new as either.
LEMMA ConvergedNewest ==
    ASSUME EventsPast, NEW left \in Recorded, NEW right \in Recorded
    PROVE  /\ Converged(left, right).left \in Recorded
           /\ Converged(left, right).right \in Recorded
           /\ Clock(Converged(left, right).left) >= Clock(left)
           /\ Clock(Converged(left, right).left) >= Clock(right)
<1>1. Clock(left) \in Nat /\ Clock(right) \in Nat
  BY RecordedFiles
<1>2. CASE left = right \/ Same(left, right)
  <2>1. Clock(left) = Clock(right)
    BY <1>2, RecordedFiles
  <2>2. QED
    BY <1>1, <1>2, <2>1 DEF Converged
<1>3. CASE ~(left = right \/ Same(left, right))
  <2> DEFINE winner == IF left = None \/ (right # None /\ Beats(right, left))
                         THEN right ELSE left
             copy == Touched(winner, left, right)
  <2>1. Converged(left, right) = [left |-> copy, right |-> copy]
    BY <1>3 DEF Converged
  <2>2. winner \in Recorded \ {None} /\ winner \in {left, right}
    BY <1>3
  <2>3. Clock(winner) >= Clock(left) /\ Clock(winner) >= Clock(right)
    <3>1. CASE left = None \/ right = None
      BY <1>1, <1>3, <3>1 DEF Clock
    <3>2. CASE left # None /\ right # None
      BY <1>1, <3>2 DEF Clock, Beats
    <3>3. QED
      BY <3>1, <3>2
  <2> HIDE DEF winner
  <2>4. copy \in Recorded /\ Clock(copy) = Clock(winner)
    BY <2>2, TouchedRecorded
  <2>5. Clock(copy) >= Clock(left) /\ Clock(copy) >= Clock(right)
    BY <2>3, <2>4
  <2> HIDE DEF copy
  <2>6. QED
    BY <2>1, <2>4, <2>5
<1>4. QED
  BY <1>2, <1>3

\* The newer tombstone is as new as either.
LEMMA NewerTombNewest ==
    ASSUME NEW left \in Recorded, NEW right \in Recorded
    PROVE  /\ NewerTomb(left, right) \in {left, right}
           /\ Clock(NewerTomb(left, right)) >= Clock(left)
  BY RecordedFiles DEF NewerTomb

\* The merge leaves at its Client a record or a tombstone as new as what it had.
LEMMA MergeKeeps ==
    ASSUME KeepInv, NEW c \in Client, MergeSnapshot(c)
    PROVE  KeepInv'
<1>1. c \in Replica /\ None \in Recorded
  BY RecordedFiles DEF Replica
<1>2. /\ live \in [Replica -> Recorded] /\ tomb \in [Replica -> Recorded]
      /\ snap \in [Client -> [live : Recorded, tomb : Recorded]]
      /\ prune \in [Client -> SUBSET {"live", "tomb"}]
      /\ facts \in SUBSET [kind : {"new", "edit", "tomb"}, by : Client,
                           id : 1 .. MaxEvents, clock : Nat]
      /\ EventsPast
  BY DEF KeepInv, TypeOK, FilesRecorded
<1> DEFINE l == live[c]
           t == tomb[c]
           sl == snap[c].live
           newest == NewerTomb(tomb[c], snap[c].tomb)
           both == Converged(live[c], snap[c].live)
<1>3. l \in Recorded /\ t \in Recorded /\ sl \in Recorded /\ snap[c].tomb \in Recorded
  BY <1>1, <1>2
<1>4. Clock(l) \in Nat /\ Clock(t) \in Nat /\ Clock(sl) \in Nat
  BY <1>3, RecordedFiles
<1>5. newest \in Recorded /\ Clock(newest) >= Clock(t) /\ Clock(newest) \in Nat
  BY <1>3, NewerTombNewest, RecordedFiles
<1>6. both.left \in Recorded /\ both.right \in Recorded /\ Clock(both.left) \in Nat
      /\ Clock(both.left) >= Clock(l) /\ Clock(both.left) >= Clock(sl)
  BY <1>2, <1>3, ConvergedNewest, RecordedFiles
<1>7. /\ Max({Clock(l), Clock(sl)}) \in {Clock(l), Clock(sl)}
      /\ Max({Clock(l), Clock(sl)}) >= Clock(l)
  BY <1>4, MaxOf
<1>8. pc' \in [Client -> Place \ {"pull_tombs", "apply"}]
  BY DEF KeepInv, TypeOK, NothingPulled, MergeSnapshot, Goto, Place
<1>9. CASE Deleted(c) /\ Delete(c)
  <2>1. newest # None /\ newest.clock >= Max({Clock(l), Clock(sl)})
    BY <1>9 DEF Deleted
  <2>2. Clock(newest) >= Clock(l) /\ Clock(newest) >= Clock(t)
    BY <1>4, <1>5, <1>7, <2>1 DEF Clock
  <2>3. /\ live' = [live EXCEPT ![c] = None] /\ tomb' = [tomb EXCEPT ![c] = newest]
        /\ snap' = [snap EXCEPT ![c] = [live |-> None, tomb |-> newest]]
        /\ prune' = [prune EXCEPT ![c] = IF sl # None THEN {"live"} ELSE {}]
    BY <1>9 DEF Delete
  <2> HIDE DEF l, t, sl, newest, both
  <2>4. /\ live' \in [Replica -> Recorded] /\ tomb' \in [Replica -> Recorded]
        /\ snap' \in [Client -> [live : Recorded, tomb : Recorded]]
        /\ prune' \in [Client -> SUBSET {"live", "tomb"}]
    BY <1>1, <1>2, <1>5, <2>3
  <2>5. ASSUME NEW d \in Client, NEW f \in facts,
               Covers(live[d], f) \/ Covers(tomb[d], f)
        PROVE  Covers(live'[d], f) \/ Covers(tomb'[d], f)
    <3>1. d \in Replica /\ f.clock \in Nat
      BY <1>2 DEF Replica
    <3>2. CASE d = c
      <4>1. tomb'[d] = newest
        BY <1>1, <1>2, <2>3, <3>2
      <4>2. Clock(l) >= f.clock \/ Clock(t) >= f.clock
        BY <2>5, <3>2 DEF Covers, l, t
      <4>3. Clock(newest) >= f.clock
        BY <1>4, <1>5, <2>2, <3>1, <4>2
      <4>4. QED
        BY <4>1, <4>3 DEF Covers
    <3>3. CASE d # c
      BY <1>2, <2>3, <2>5, <3>1, <3>3
    <3>4. QED
      BY <3>2, <3>3
  <2>6. QED
    BY <1>8, <2>4, <2>5, CopiesKeep DEF MergeSnapshot, KeepInv, TypeOK, FilesRecorded, counts
<1>10. CASE ~Deleted(c) /\ Keep(c)
  <2>1. newest = None \/ ~(newest.clock >= Max({Clock(l), Clock(sl)}))
    BY <1>10 DEF Deleted
  <2>2. Clock(both.left) >= Clock(l) /\ Clock(both.left) >= Clock(t)
    <3>1. CASE newest = None
      BY <1>4, <1>5, <1>6, <3>1 DEF Clock
    <3>2. CASE newest # None
      <4>1. newest.clock = Clock(newest)
        BY <3>2 DEF Clock
      <4>2. QED
        BY <1>4, <1>5, <1>6, <1>7, <2>1, <3>2, <4>1
    <3>3. QED
      BY <3>1, <3>2
  <2>3. /\ live' = [live EXCEPT ![c] = both.left] /\ tomb' = [tomb EXCEPT ![c] = None]
        /\ snap' = [snap EXCEPT ![c] = [live |-> both.right, tomb |-> None]]
        /\ prune' = [prune EXCEPT ![c] = IF snap[c].tomb # None THEN {"tomb"} ELSE {}]
    BY <1>10 DEF Keep
  <2> HIDE DEF l, t, sl, newest, both
  <2>4. /\ live' \in [Replica -> Recorded] /\ tomb' \in [Replica -> Recorded]
        /\ snap' \in [Client -> [live : Recorded, tomb : Recorded]]
        /\ prune' \in [Client -> SUBSET {"live", "tomb"}]
    BY <1>1, <1>2, <1>6, <2>3
  <2>5. ASSUME NEW d \in Client, NEW f \in facts,
               Covers(live[d], f) \/ Covers(tomb[d], f)
        PROVE  Covers(live'[d], f) \/ Covers(tomb'[d], f)
    <3>1. d \in Replica /\ f.clock \in Nat
      BY <1>2 DEF Replica
    <3>2. CASE d = c
      <4>1. live'[d] = both.left
        BY <1>1, <1>2, <2>3, <3>2
      <4>2. Clock(l) >= f.clock \/ Clock(t) >= f.clock
        BY <2>5, <3>2 DEF Covers, l, t
      <4>3. Clock(both.left) >= f.clock
        BY <1>4, <1>6, <2>2, <3>1, <4>2
      <4>4. QED
        BY <4>1, <4>3 DEF Covers
    <3>3. CASE d # c
      BY <1>2, <2>3, <2>5, <3>1, <3>3
    <3>4. QED
      BY <3>2, <3>3
  <2>6. QED
    BY <1>8, <2>4, <2>5, CopiesKeep DEF MergeSnapshot, KeepInv, TypeOK, FilesRecorded, counts
<1>11. QED
  BY <1>9, <1>10 DEF MergeSnapshot

\* An event writes a file that is newer than all before: an edit or a new tunnel
\* as the record of its Client, a removal as its tombstone.
LEMMA WritesKeep ==
    ASSUME KeepInv, Kind \subseteq {"stamped"}, NEW c \in Client,
           Edit(c) \/ New(c) \/ Remove(c)
    PROVE  KeepInv'
<1>1. c \in Replica /\ None \in Recorded /\ MaxEvents \in Nat
  BY HubSyncAssumption, RecordedFiles DEF Replica
<1>2. /\ live \in [Replica -> Recorded] /\ tomb \in [Replica -> Recorded]
      /\ snap \in [Client -> [live : Recorded, tomb : Recorded]]
      /\ removing \in [Client -> Recorded]
      /\ prune \in [Client -> SUBSET {"live", "tomb"}] /\ pc \in [Client -> Place]
      /\ facts \in SUBSET [kind : {"new", "edit", "tomb"}, by : Client,
                           id : 1 .. MaxEvents, clock : Nat]
      /\ second \in Nat /\ events \in 0 .. MaxEvents
      /\ commands \in 0 .. MaxCommands /\ cuts \in 0 .. MaxCuts
  BY DEF KeepInv, TypeOK, FilesRecorded
<1>3. /\ events' = events + 1 /\ events' \in 1 .. MaxEvents
      /\ second' \in Nat /\ second' >= second
      /\ UNCHANGED <<snap, prune, pc, commands, cuts>>
  BY <1>1, <1>2 DEF Edit, New, Remove, Happens, work
<1>4. PICK kind \in {"new", "edit", "tomb"} :
        facts' = facts \cup {[kind |-> kind, by |-> c, id |-> events', clock |-> second']}
  BY DEF Edit, New, Remove, Known
<1> DEFINE fact == [kind |-> kind, by |-> c, id |-> events', clock |-> second']
<1>5. /\ fact.by = c /\ fact.id = events' /\ fact.clock = second'
      /\ facts' = facts \cup {fact}
      /\ facts' \in SUBSET [kind : {"new", "edit", "tomb"}, by : Client,
                            id : 1 .. MaxEvents, clock : Nat]
  BY <1>2, <1>3, <1>4
<1> HIDE DEF fact
<1>6. /\ Recorded \subseteq Recorded' /\ Stamp \in Recorded' /\ Recorded' \subseteq File \cup {None}
      /\ Stamp # None /\ Clock(Stamp) = second'
  <2>1. Stamp \in File /\ Stamp.id = events' /\ Stamp.clock = second'
    BY <1>3 DEF Stamp, File
  <2>2. Recorded \subseteq Recorded' /\ Stamp \in Recorded' /\ Recorded' \subseteq File \cup {None}
    BY <1>5, <2>1 DEF Recorded
  <2>3. QED
    BY <2>1, <2>2, RecordedFiles DEF Clock
<1>7. \/ /\ live' = [live EXCEPT ![c] = Stamp] /\ UNCHANGED removing
         /\ tomb' = tomb \/ tomb' = [tomb EXCEPT ![c] = None]
      \/ /\ live' = [live EXCEPT ![c] = None] /\ tomb' = [tomb EXCEPT ![c] = Stamp]
         /\ removing' = [removing EXCEPT ![c] = Stamp]
  BY DEF Edit, New, Remove
<1>8. FilesRecorded'
  <2>1. live' \in [Replica -> Recorded'] /\ tomb' \in [Replica -> Recorded']
    BY <1>1, <1>2, <1>6, <1>7
  <2>2. removing' \in [Client -> Recorded']
    BY <1>2, <1>6, <1>7
  <2>3. snap' \in [Client -> [live : Recorded', tomb : Recorded']]
    BY <1>2, <1>3, <1>6
  <2>4. QED
    BY <2>1, <2>2, <2>3 DEF FilesRecorded
<1>9. TypeOK'
  BY <1>2, <1>3, <1>5, <1>6, <1>8 DEF TypeOK, FilesRecorded
<1>10. EventsPast'
  <2>1. \A f \in facts : f.id \in Nat /\ f.clock \in Nat /\ f.id <= events /\ f.clock <= second
    BY <1>2 DEF KeepInv, EventsPast
  <2>2. \A f \in facts : f.id < events' /\ f.clock <= second'
    BY <1>2, <1>3, <2>1
  <2>3. \A f \in facts' : f.id <= events' /\ f.clock <= second'
    BY <1>2, <1>3, <1>5, <2>1, <2>2
  <2>4. \A f, g \in facts' : f.id = g.id => f.clock = g.clock
    <3>1. \A f, g \in facts : f.id = g.id => f.clock = g.clock
      BY DEF KeepInv, EventsPast
    <3>2. \A f \in facts : f.id # events'
      BY <1>2, <1>3, <2>1, <2>2
    <3>3. QED
      BY <1>5, <3>1, <3>2
  <2>5. QED
    BY <2>3, <2>4 DEF EventsPast
<1>11. OwnWritesKept'
  <2>1. SUFFICES ASSUME NEW f \in facts'
                 PROVE  Clock(live'[f.by]) >= f.clock \/ Clock(tomb'[f.by]) >= f.clock
    BY DEF OwnWritesKept, Covers, Clock
  <2>2. f.by \in Client /\ f.by \in Replica /\ f.clock \in Nat /\ f.clock <= second'
    BY <1>5, <1>10 DEF EventsPast, Replica
  <2>3. CASE f.by = c
    <3>1. live'[c] = Stamp \/ tomb'[c] = Stamp
      BY <1>1, <1>2, <1>7
    <3>2. Clock(Stamp) >= f.clock
      BY <1>3, <1>6, <2>2
    <3>3. QED
      BY <2>3, <3>1, <3>2
  <2>4. CASE f.by # c
    <3>1. f \in facts
      BY <1>5, <2>4
    <3>2. live'[f.by] = live[f.by] /\ tomb'[f.by] = tomb[f.by]
      BY <1>2, <1>7, <2>2, <2>4
    <3>3. QED
      BY <3>1, <3>2 DEF KeepInv, OwnWritesKept, Covers
  <2>5. QED
    BY <2>3, <2>4
<1>12. NothingPulled'
  BY <1>3 DEF KeepInv, NothingPulled
<1>13. QED
  BY <1>8, <1>9, <1>10, <1>11, <1>12 DEF KeepInv

\* The tombstone of dt rm arrives at the Hub, or does not.
LEMMA RemoveRemoteKeeps ==
    ASSUME KeepInv, NEW c \in Client, RemoveRemote(c)
    PROVE  KeepInv'
<1>1. Hub \in Replica /\ None \in Recorded /\ \A d \in Client : d \in Replica /\ d # Hub
  BY HubSyncAssumption, RecordedFiles DEF Replica
<1>2. /\ live \in [Replica -> Recorded] /\ tomb \in [Replica -> Recorded]
      /\ removing \in [Client -> Recorded] /\ second \in Nat
  BY DEF KeepInv, TypeOK, FilesRecorded
<1>3. /\ removing[c] # None /\ removing' = [removing EXCEPT ![c] = None]
      /\ UNCHANGED <<live, snap, prune, pc, events, commands, cuts, facts>>
      /\ second' \in {second, second + 1}
      /\ \/ tomb' = [tomb EXCEPT ![Hub] = [removing[c] EXCEPT !.mtime = second']]
         \/ UNCHANGED tomb
  BY DEF RemoveRemote, work
<1>4. second' \in Nat /\ removing' \in [Client -> Recorded]
  BY <1>1, <1>2, <1>3
<1> DEFINE sent == [removing[c] EXCEPT !.mtime = second']
<1>5. sent \in Recorded
  <2>1. removing[c] \in File /\ removing[c] \in Recorded
    BY <1>2, <1>3, RecordedFiles
  <2>2. sent \in File /\ sent.id = removing[c].id /\ sent.clock = removing[c].clock
    BY <1>4, <2>1 DEF File
  <2>3. QED
    BY <1>3, <2>1, <2>2 DEF Recorded
<1> HIDE DEF sent
<1>6. /\ tomb' \in [Replica -> Recorded] /\ \A d \in Client : tomb'[d] = tomb[d]
  BY <1>1, <1>2, <1>3, <1>5 DEF sent
<1>7. pc' \in [Client -> Place \ {"pull_tombs", "apply"}]
  BY <1>3 DEF KeepInv, TypeOK, NothingPulled
<1>8. QED
  BY <1>3, <1>4, <1>6, <1>7, CopiesKeep DEF KeepInv, TypeOK, FilesRecorded

\* Where nothing is pulled and every edit has a clock of its own, whatever a
\* Client wrote gives way at that Client only to something at least as new,
\* whichever syncs, cut ones too, and pushes of others run (merge_snapshot).
THEOREM OwnWritesAlwaysKept ==
    ASSUME Command \subseteq {"push"}, Kind \subseteq {"stamped"}
    PROVE  Spec => []OwnWritesKept
<1>1. Init => KeepInv
  <2> SUFFICES ASSUME Init PROVE KeepInv
    OBVIOUS
  <2>1. FilesRecorded /\ EventsPast /\ NothingPulled /\ OwnWritesKept
    BY RecordedFiles DEF Init, FilesRecorded, EventsPast, NothingPulled, OwnWritesKept, Empty
  <2>2. TypeOK
    BY HubSyncAssumption DEF Init, TypeOK, Empty, Place
  <2>3. QED
    BY <2>1, <2>2 DEF KeepInv
<1>2. KeepInv /\ [Next]_vars => KeepInv'
  <2> SUFFICES ASSUME KeepInv, [Next]_vars PROVE KeepInv'
    OBVIOUS
  <2>1. CASE Next
    <3>1. PICK c \in Client : Sync(c) \/ Cut(c) \/ Transfer(c) \/ User(c)
      BY <2>1 DEF Next
    <3>2. QED
      BY <3>1, HubCopiesKeep, MergeKeeps, WritesKeep, RemoveRemoteKeeps DEF Sync, User
  <2>2. CASE UNCHANGED vars
    BY <2>2 DEF vars, files, work, counts, KeepInv, TypeOK, FilesRecorded, Recorded,
       EventsPast, NothingPulled, OwnWritesKept, Covers, Clock
  <2>3. QED
    BY <2>1, <2>2
<1>3. KeepInv => OwnWritesKept
  BY DEF KeepInv
<1>4. QED
  BY <1>1, <1>2, <1>3, PTL DEF Spec
=============================================================================

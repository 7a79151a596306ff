----------------------------- MODULE Snapshots -----------------------------
(* The OpenCode session of a tunnel's trigger on its way between Clients.    *)
(* Every Client keeps the session in a local database; the minute tick logs  *)
(* when the trigger's pane last changed and exports the session, a cron      *)
(* script carries exports and logs to and from the Hub, and a resume         *)
(* continues the session of the Client whose pane changed last.              *)
EXTENDS Naturals, FiniteSets, FiniteSetsExt

CONSTANTS
    Client,      \* the machines of one user; each has its directory of the tree
    NoClient,
    MaxMessage,  \* bound: messages ever written to the session
    MaxTick,     \* bound: entries ever logged
    MaxBlind     \* bound: ticks of a Client that cannot read the Hub's holder

VARIABLES
    written,  \* messages of the session written so far, on any Client
    store,    \* messages in each Client's database
    due,      \* Clients whose session changed after their last export
    tree,     \* tree[c][s]: the export of s that c has on disk; {} is no file
    hubTree,  \* the exports on the Hub
    now,      \* time of the last log entry
    log,      \* log[c][s]: last entry of s that c knows; log[c][c] is its own
    hubLog,   \* the logs on the Hub
    pane,     \* the trigger's pane: "gone", or live and "same" or "changed"
    holder,   \* the Client that holds the tunnel
    tick,     \* the minute tick of each Client
    export,   \* what the export of a tick has read
    resume,   \* the resume of each Client
    blind,    \* ticks that could not read the holder
    orderly,  \* whether every switch so far waited for the exports before it
    goal      \* what the resume under way was promised

sessions == <<written, store, due>>
trees == <<tree, hubTree, now, log, hubLog>>
ghosts == <<blind, orderly, goal>>
vars == <<sessions, trees, pane, holder, tick, export, resume, ghosts>>

Message == 1 .. MaxMessage
Sources == Client \cup {NoClient}

TypeOK ==
    /\ written \in SUBSET Message
    /\ store \in [Client -> SUBSET Message]
    /\ due \in SUBSET Client
    /\ tree \in [Client -> [Client -> SUBSET Message]]
    /\ hubTree \in [Client -> SUBSET Message]
    /\ now \in 0 .. MaxTick
    /\ log \in [Client -> [Client -> 0 .. MaxTick]]
    /\ hubLog \in [Client -> 0 .. MaxTick]
    /\ pane \in [Client -> {"gone", "same", "changed"}]
    /\ holder \in Client
    /\ tick \in [Client -> {"idle", "own", "foreign", "blind", "export"}]
    /\ export \in [Client -> SUBSET Message]
    /\ resume \in [Client -> {"idle", "ticks", "synced", "claimed", "done"}]
    /\ blind \in 0 .. MaxBlind
    /\ orderly \in BOOLEAN
    /\ goal \in [Client -> SUBSET Message]

\* The session was frozen on one Client, which has its first message.
Init ==
    /\ written = {1}
    /\ holder \in Client
    /\ store = [c \in Client |-> IF c = holder THEN {1} ELSE {}]
    /\ due = {holder}
    /\ tree = [c \in Client |-> [s \in Client |-> {}]]
    /\ hubTree = [c \in Client |-> {}]
    /\ now = 0
    /\ log = [c \in Client |-> [s \in Client |-> 0]]
    /\ hubLog = [c \in Client |-> 0]
    /\ pane = [c \in Client |-> IF c = holder THEN "changed" ELSE "gone"]
    /\ tick = [c \in Client |-> "idle"]
    /\ export = [c \in Client |-> {}]
    /\ resume = [c \in Client |-> "idle"]
    /\ blind = 0
    /\ orderly = TRUE
    /\ goal = [c \in Client |-> {}]

Set(f, c, value) == [f EXCEPT ![c] = value]

-----------------------------------------------------------------------------
(* The Agent in the trigger's pane.                                          *)

\* The operator or the Agent adds a message.
Write(c) ==
    LET m == Cardinality(written) + 1 IN
    /\ pane[c] # "gone" /\ m \in Message
    /\ resume[c] # "claimed"
    /\ written' = written \cup {m}
    /\ store' = Set(store, c, store[c] \cup {m})
    /\ due' = due \cup {c}
    /\ pane' = Set(pane, c, "changed")
    /\ orderly' = (orderly /\ holder = c)
    /\ UNCHANGED <<trees, holder, tick, export, resume, blind, goal>>

\* The pane shows something else although nothing was written: somebody
\* attached, typed, or changed its size.
Redraw(c) ==
    /\ pane[c] = "same"
    /\ pane' = Set(pane, c, "changed")
    /\ UNCHANGED <<sessions, trees, holder, tick, export, resume, ghosts>>

\* A watcher ends the panes of a Client that lost the tunnel.
Park(c) ==
    /\ holder # c /\ pane[c] # "gone"
    /\ pane' = Set(pane, c, "gone")
    /\ UNCHANGED <<sessions, trees, holder, tick, export, resume, ghosts>>

-----------------------------------------------------------------------------
(* The minute tick: look at the holder, sample the pane, export.             *)

\* The tick parks the panes first when it sees another holder.
Look(c) ==
    /\ tick[c] = "idle"
    /\ \/ /\ tick' = Set(tick, c, IF holder = c THEN "own" ELSE "foreign")
          /\ pane' = IF holder = c THEN pane ELSE Set(pane, c, "gone")
          /\ UNCHANGED blind
       \/ /\ blind < MaxBlind
          /\ blind' = blind + 1
          /\ tick' = Set(tick, c, "blind")
          /\ UNCHANGED pane
    /\ UNCHANGED <<sessions, trees, holder, export, resume, orderly, goal>>

\* An entry is worth comparing when the pane was there and had changed.
(* Mutant: the empty text of a pane that is gone is compared as well. *)
CountsGone(shown) == shown # "same"

Counts(shown) == shown = "changed"

\* A pane is logged as active although its Client has lost the tunnel since the
\* tick looked or could not look, or while a resume of its own is choosing.
Unexpected(c) ==
    \/ holder # c /\ tick[c] # "foreign"
    \/ resume[c] \in {"ticks", "synced", "claimed"}

\* A pane that is not there shows the empty text, which is not compared.  The
\* export reads the database when the session is newer than the file ...
Sample(c) ==
    /\ tick[c] \in {"own", "foreign", "blind"}
    /\ IF Counts(pane[c])
         THEN /\ now < MaxTick
              /\ now' = now + 1
              /\ log' = [log EXCEPT ![c][c] = now']
              /\ pane' = IF pane[c] = "gone" THEN pane ELSE Set(pane, c, "same")
              /\ IF Unexpected(c)
                   THEN orderly' = FALSE /\ goal' = [d \in Client |-> {}]
                   ELSE UNCHANGED <<orderly, goal>>
         ELSE UNCHANGED <<now, log, pane, orderly, goal>>
    /\ IF store[c] # {} /\ (c \in due \/ tree[c][c] = {})
         THEN tick' = Set(tick, c, "export") /\ export' = Set(export, c, store[c])
         ELSE tick' = Set(tick, c, "idle") /\ UNCHANGED export
    /\ UNCHANGED <<sessions, tree, hubTree, hubLog, holder, resume, blind>>

\* ... and then writes the file, whose time is what the next tick compares.
WriteExport(c) ==
    /\ export[c] # {}
    /\ tree' = [tree EXCEPT ![c][c] = export[c]]
    /\ \/ due' = due \ {c}
       \/ store[c] # export[c] /\ due' = due
    /\ export' = Set(export, c, {})
    /\ tick' = Set(tick, c, "idle")
    /\ UNCHANGED <<written, store, hubTree, now, log, hubLog, pane, holder, resume,
                   ghosts>>

\* The export failed: the next tick tries again.
FailExport(c) ==
    /\ tick[c] = "export"
    /\ tick' = Set(tick, c, "idle")
    /\ export' = Set(export, c, {})
    /\ UNCHANGED <<sessions, trees, pane, holder, resume, ghosts>>

-----------------------------------------------------------------------------
(* The cron script of the tree.                                              *)

\* A Client's own directory replaces the one on the Hub.
Upload(c) ==
    /\ hubTree' = Set(hubTree, c, tree[c][c])
    /\ hubLog' = Set(hubLog, c, log[c][c])
    /\ UNCHANGED <<sessions, tree, now, log, pane, holder, tick, export, resume,
                   ghosts>>

\* The directory of another Client is brought down, export and log alike.
Download(c, s) ==
    /\ s # c
    /\ tree' = [tree EXCEPT ![c][s] = IF hubTree[s] = {} THEN @ ELSE hubTree[s]]
    /\ log' = [log EXCEPT ![c][s] = hubLog[s]]
    /\ UNCHANGED <<sessions, hubTree, now, hubLog, pane, holder, tick, export, resume,
                   ghosts>>

-----------------------------------------------------------------------------
(* A resume.                                                                 *)

\* The Client whose pane changed last, as far as c knows; c itself on a tie.
Latest(c) ==
    LET newest == Max({log[c][s] : s \in Client}) IN
    CASE newest = 0 -> NoClient
      [] newest > 0 /\ log[c][c] = newest -> c
      [] OTHER -> CHOOSE s \in Client : log[c][s] = newest

\* No other switch is under way, and nothing is left to log, to export or to
\* carry to the Hub.
CaughtUp(c) ==
    \A d \in Client :
        /\ resume[d] \in {"idle", "done"}
        /\ tick[d] = "idle" \/ d = c
        /\ pane[d] # "changed"
        /\ store[d] # {} => tree[d][d] = store[d]
        /\ hubTree[d] = tree[d][d] /\ hubLog[d] = log[d][d]

\* Own log up, which may fail unnoticed; all logs down, which may not.
SyncTicks(c) ==
    /\ resume[c] \in {"idle", "done"}
    /\ \E sent \in BOOLEAN :
          hubLog' = IF sent THEN Set(hubLog, c, log[c][c]) ELSE hubLog
    /\ log' = Set(log, c, [s \in Client |-> IF s = c THEN log[c][c] ELSE hubLog[s]])
    /\ resume' = Set(resume, c, "ticks")
    /\ orderly' = (orderly /\ CaughtUp(c))
    /\ goal' = Set(goal, c, IF orderly' THEN written ELSE {})
    /\ UNCHANGED <<sessions, tree, hubTree, now, pane, holder, tick, export, blind>>

\* The export of the Client that comes out ahead is brought down.
SyncWinner(c) ==
    LET s == Latest(c) IN
    /\ resume[c] = "ticks"
    /\ tree' = IF s \in {c, NoClient} \/ hubTree[s] = {} THEN tree
               ELSE [tree EXCEPT ![c][s] = hubTree[s]]
    /\ resume' = Set(resume, c, "synced")
    /\ UNCHANGED <<sessions, hubTree, now, log, hubLog, pane, holder, tick, export,
                   ghosts>>

Newest(c) ==
    LET files == {tree[c][s] : s \in Client} \ {{}} IN
    {f \in files : \A g \in files : Max(g) <= Max(f)}

\* The files a resume imports: that of the source, and without one the newest;
\* none when the source is this Client, whose database is ahead of its file.
Chosen(c) ==
    LET s == Latest(c) IN
    CASE s # NoClient /\ tree[c][s] # {} -> {tree[c][s]}
      [] s = c /\ tree[c][c] = {} /\ store[c] # {} -> {{}}
      [] OTHER -> Newest(c)

Importable(c) == store[c] # {} \/ Chosen(c) # {}

\* The preflight finds something to continue, and the tunnel is claimed.
Claim(c) ==
    /\ resume[c] = "synced" /\ Importable(c)
    /\ holder' = c
    /\ resume' = Set(resume, c, "claimed")
    /\ UNCHANGED <<sessions, trees, pane, tick, export, ghosts>>

\* The choice is made once more, the missing messages are added to the
\* database, and the Agent is started; one that has nothing to load goes on.
Import(c) ==
    \E file \in Chosen(c) \cup {f \in {{}} : Chosen(c) = {}}, touched \in BOOLEAN :
        LET missing == file \ store[c] IN
        /\ resume[c] = "claimed" /\ Importable(c)
        /\ store' = Set(store, c, store[c] \cup file)
        /\ touched => missing # {}
        /\ due' = IF touched THEN due \cup {c} ELSE due
        /\ pane' = IF missing = {} /\ pane[c] # "gone" THEN pane
                   ELSE Set(pane, c, "changed")
        /\ resume' = Set(resume, c, "done")
        /\ orderly' = (orderly /\ goal[c] = written)
        /\ UNCHANGED <<written, trees, holder, tick, export, blind, goal>>

\* Any step may fail; what was claimed stays claimed.
Fail(c) ==
    /\ resume[c] \notin {"idle", "done"}
    /\ resume' = Set(resume, c, "idle")
    /\ orderly' = (orderly /\ resume[c] # "claimed")
    /\ goal' = Set(goal, c, {})
    /\ UNCHANGED <<sessions, trees, pane, holder, tick, export, blind>>

-----------------------------------------------------------------------------
Next ==
    \E c \in Client :
        \/ Write(c) \/ Redraw(c) \/ Park(c)
        \/ Look(c) \/ Sample(c) \/ WriteExport(c) \/ FailExport(c)
        \/ Upload(c) \/ (\E s \in Client : Download(c, s))
        \/ SyncTicks(c) \/ SyncWinner(c) \/ Claim(c) \/ Import(c) \/ Fail(c)

Spec == Init /\ [][Next]_vars

\* Behaviours in which every switch waits for the exports before it.
OrderlySpec == Init /\ [][Next /\ orderly']_vars

-----------------------------------------------------------------------------
(* Properties.                                                               *)

\* A resume that began when every Client's changes were logged, exported and
\* on the Hub, after switches that all did, continues the session with every
\* message in it: no Client is overtaken by the stale session of another.
SwitchKeepsAll ==
    \A c \in Client : resume[c] = "done" => goal[c] \subseteq store[c]

-----------------------------------------------------------------------------
(* The inductive invariant of SwitchKeepsAll, of behaviours that stay orderly. *)

Switches(c) == resume[c] \in {"ticks", "synced", "claimed"}

\* A switch that may still be orderly: nothing was written since it began.
OnCourse(c) == Switches(c) /\ goal[c] = written

Whole(c) == written \subseteq store[c]

\* The times of s that somebody knows.  Each has passed and is of one Client, and
\* no copy of a log is ahead of what it was copied from.
Times(s) == {log[c][s] : c \in Client} \cup {hubLog[s]}

TimesInv ==
    /\ \A s \in Client : Times(s) \subseteq 0 .. log[s][s] /\ log[s][s] <= now
    /\ \A c, s \in Client : c # s => log[c][s] <= hubLog[s]
    /\ \A s, t \in Client : s # t => Times(s) \cap Times(t) \subseteq {0}

\* The Client whose pane changed last has every message.
Ahead == now > 0 /\ \E t \in Client : log[t][t] = now /\ Whole(t)

\* As far as c knows too.
Leads(c, t) ==
    /\ Whole(t) /\ log[c][t] > 0
    /\ \A s \in Client : log[c][s] <= log[c][t]
    /\ \A s \in Client : Whole(s) \/ log[s][s] < log[c][t]

Carried(c) ==
    /\ written \subseteq tree[c][c] /\ written \subseteq hubTree[c]
    /\ export[c] = {} \/ written \subseteq export[c]

OnCourseInv(c) ==
    /\ Ahead
    /\ \E t \in Client : Leads(c, t)
    /\ \A d \in Client : d # c /\ Whole(d) => Carried(d)
    /\ resume[c] # "ticks" => \A s \in Client :
          s # c /\ (\A t \in Client : log[c][t] <= log[c][s]) => written \subseteq tree[c][s]

\* One Client switches at a time, and the one that claimed is the holder.  A pane
\* that is looked at as a foreign one is gone, unless a switch just made it.
TurnInv ==
    /\ \A c, d \in Client : Switches(c) /\ Switches(d) => c = d
    /\ \A c \in Client : resume[c] = "claimed" => holder = c
    /\ \A c \in Client : export[c] # {} => tick[c] = "export"
    /\ \A c \in Client : tick[c] = "foreign" =>
          \/ pane[c] = "gone"
          \/ holder = c /\ \A d \in Client : d # c => ~Switches(d)

\* The holder has every message once its resume is through; what it did is logged,
\* or will be.
HolderInv ==
    resume[holder] # "claimed" => Whole(holder) /\ (pane[holder] = "changed" \/ Ahead)

MessagesInv ==
    /\ \E n \in 1 .. MaxMessage : written = 1 .. n
    /\ \A c \in Client : goal[c] \subseteq written

SwitchInv ==
    /\ TypeOK /\ MessagesInv /\ TimesInv /\ TurnInv /\ HolderInv
    /\ \A c \in Client : OnCourse(c) => OnCourseInv(c)
    /\ SwitchKeepsAll
=============================================================================

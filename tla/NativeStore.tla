---------------------------- MODULE NativeStore ----------------------------
(* The session of a Codex, Claude or abc Agent on its way between Clients: a *)
(* file that grows at its end.  Every Client exports it as a sealed revision *)
(* with a pointer to it, a script carries these to and from the Hub, and a   *)
(* resume replaces the local file by the longest history, or refuses.        *)
EXTENDS Naturals, Sequences, SequencesExt

CONSTANTS
    Client,   \* the machines of one user
    Torn,     \* what is on disk of a pointer whose revision has not arrived
    MaxRows,  \* bound: length of a history
    MaxGen,   \* bound: claims of the tunnel
    MaxCuts   \* bound: transfers to the Hub that break off

\* A row is named by the Client that wrote it.
Rows == SeqOf(Client, MaxRows)

\* A file that is not there.
None == <<>>

Exports == Rows \cup {Torn}

VARIABLES
    file,      \* each Client's own file; <<>> is none
    exports,   \* exports[c][s]: what c has on disk of s
    hub,       \* what the Hub has of each Client
    uploads,   \* Clients whose script has sent the pointer only
    agent,     \* Clients whose Agent runs
    gen,       \* the generation of the tunnel and the Client it is of
    import,    \* the import of each Client's resume
    cuts

vars == <<file, exports, hub, uploads, agent, gen, import, cuts>>

\* chosen: the history to install; was: the file it replaces; seen: the
\* exports on disk when the import decided.
Idle == [at |-> "idle", gen |-> 0, chosen |-> <<>>, was |-> <<>>, seen |-> {}]

TypeOK ==
    /\ file \in [Client -> Rows]
    /\ exports \in [Client -> [Client -> Exports]]
    /\ hub \in [Client -> Exports]
    /\ uploads \in SUBSET Client
    /\ agent \in SUBSET Client
    /\ gen \in [number : 0 .. MaxGen, of : Client]
    /\ import \in [Client -> [at : {"idle", "claimed", "ready", "staged", "replaced",
                                    "done"},
                              gen : 0 .. MaxGen, chosen : Rows, was : Rows,
                              seen : SUBSET Exports]]
    /\ cuts \in 0 .. MaxCuts

\* The session was frozen on one Client.
Init ==
    \E c \in Client :
        /\ file = [d \in Client |-> IF d = c THEN <<c>> ELSE None]
        /\ exports = [d \in Client |-> [s \in Client |-> None]]
        /\ hub = [d \in Client |-> None]
        /\ uploads = {}
        /\ agent = {c}
        /\ gen = [number |-> 1, of |-> c]
        /\ import = [d \in Client |-> Idle]
        /\ cuts = 0

-----------------------------------------------------------------------------
(* The Agent, the tick's export and the script.                              *)

\* A running Agent adds to the file it loaded when it started.
Add(c) ==
    /\ c \in agent /\ Len(file[c]) < MaxRows
    /\ file' = [file EXCEPT ![c] = @ \o <<c>>]
    /\ UNCHANGED <<exports, hub, uploads, agent, gen, import, cuts>>

\* A Client that has lost the tunnel parks its panes.
Park(c) ==
    /\ c \in agent /\ gen.of # c
    /\ agent' = agent \ {c}
    /\ UNCHANGED <<file, exports, hub, uploads, gen, import, cuts>>

\* A changed file becomes a revision, and then the pointer is moved to it.
Export(c) ==
    /\ file[c] # None
    /\ exports' = [exports EXCEPT ![c][c] = file[c]]
    /\ UNCHANGED <<file, hub, uploads, agent, gen, import, cuts>>

\* The pointer is carried before the revisions ...
UploadPointer(c) ==
    /\ exports[c][c] \notin {None, hub[c]}
    /\ hub' = [hub EXCEPT ![c] = Torn]
    /\ uploads' = uploads \cup {c}
    /\ UNCHANGED <<file, exports, agent, gen, import, cuts>>

UploadRevision(c) ==
    /\ c \in uploads
    /\ hub' = [hub EXCEPT ![c] = exports[c][c]]
    /\ uploads' = uploads \ {c}
    /\ UNCHANGED <<file, exports, agent, gen, import, cuts>>

\* ... and the transfer may break off in between, until the next run.
BreakOff(c) ==
    /\ c \in uploads /\ cuts < MaxCuts
    /\ uploads' = uploads \ {c}
    /\ cuts' = cuts + 1
    /\ UNCHANGED <<file, exports, hub, agent, gen, import>>

Download(c, s) ==
    /\ s # c /\ hub[s] # None
    /\ exports' = [exports EXCEPT ![c][s] = hub[s]]
    /\ UNCHANGED <<file, hub, uploads, agent, gen, import, cuts>>

-----------------------------------------------------------------------------
(* The import of a resume.                                                   *)

Claim(c) ==
    /\ import[c].at \in {"idle", "done"} /\ gen.number < MaxGen
    /\ gen' = [number |-> gen.number + 1, of |-> c]
    /\ import' = [import EXCEPT ![c] =
                     [Idle EXCEPT !.at = "claimed", !.gen = gen'.number]]
    /\ UNCHANGED <<file, exports, hub, uploads, agent, cuts>>

Found(c) == {exports[c][s] : s \in Client} \ {None}

\* Every pointer on disk has its sealed revision.
Readable(c) == Torn \notin Found(c)

(* Mutant: the longest history wins, whatever the others contain. *)
WinnersByLength(found) == {h \in found : \A g \in found : Len(g) <= Len(h)}

\* The exports that contain every other one.
Winners(found) == {h \in found : \A g \in found : IsPrefix(g, h)}

Abandon(c) == import' = [import EXCEPT ![c] = Idle]

(* Mutant: the file is replaced under a running Agent. *)
AgentIgnored(c) == TRUE

AgentStopped(c) == c \notin agent

\* A pointer without its revision, histories none of which contains the
\* others, and a running Agent whose file would be replaced end the resume.
Refuse(c) ==
    /\ import[c].at = "claimed"
    /\ \/ Torn \in Found(c)
       \/ Found(c) = {} /\ file[c] = None
       \/ Readable(c) /\ Found(c) # {} /\ Winners(Found(c)) = {}
       \/ /\ Readable(c)
          /\ \E h \in Winners(Found(c)) : ~IsPrefix(h, file[c]) /\ ~IsPrefix(file[c], h)
       \/ /\ Readable(c) /\ ~AgentStopped(c)
          /\ \E h \in Winners(Found(c)) : IsStrictPrefix(file[c], h)
    /\ Abandon(c)
    /\ UNCHANGED <<file, exports, hub, uploads, agent, gen, cuts>>

\* The local file is as long as the winner, or nothing was ever exported.
KeepLocal(c) ==
    /\ import[c].at = "claimed" /\ Readable(c) /\ file[c] # None
    /\ \/ Found(c) = {}
       \/ \E h \in Winners(Found(c)) : IsPrefix(h, file[c])
    /\ import' = [import EXCEPT ![c].at = "done", ![c].seen = Found(c)]
    /\ agent' = agent \cup {c}
    /\ UNCHANGED <<file, exports, hub, uploads, gen, cuts>>

\* The winner continues the local file, whose Agent must not run.
Choose(c) ==
    /\ import[c].at = "claimed" /\ Readable(c)
    /\ AgentStopped(c)
    /\ \E h \in Winners(Found(c)) :
          /\ IsStrictPrefix(file[c], h)
          /\ import' = [import EXCEPT ![c].at = "ready", ![c].chosen = h,
                                       ![c].was = file[c], ![c].seen = Found(c)]
    /\ UNCHANGED <<file, exports, hub, uploads, agent, gen, cuts>>

Unmoved(c) == gen.number = import[c].gen

\* The generation is read before the new file is written beside the old one,
\* before it takes its place, and after.
Advance(c, from, to) ==
    /\ import[c].at = from /\ Unmoved(c)
    /\ import' = [import EXCEPT ![c].at = to]

Stage(c) ==
    /\ Advance(c, "ready", "staged")
    /\ UNCHANGED <<file, exports, hub, uploads, agent, gen, cuts>>

Replace(c) ==
    /\ Advance(c, "staged", "replaced")
    /\ file' = [file EXCEPT ![c] = import[c].chosen]
    /\ UNCHANGED <<exports, hub, uploads, agent, gen, cuts>>

\* The import is verified and the Agent started.
Finish(c) ==
    /\ Advance(c, "replaced", "done")
    /\ agent' = agent \cup {c}
    /\ UNCHANGED <<file, exports, hub, uploads, gen, cuts>>

\* Another Client has claimed: what took the file's place is taken out again.
Overtaken(c) ==
    /\ import[c].at \in {"ready", "staged", "replaced"} /\ ~Unmoved(c)
    /\ file' = IF import[c].at = "replaced"
                 THEN [file EXCEPT ![c] = import[c].was] ELSE file
    /\ Abandon(c)
    /\ UNCHANGED <<exports, hub, uploads, agent, gen, cuts>>

\* The process ends at any point, and repairs nothing.
Crash(c) ==
    /\ import[c].at \notin {"idle", "done"}
    /\ Abandon(c)
    /\ UNCHANGED <<file, exports, hub, uploads, agent, gen, cuts>>

Next ==
    \E c \in Client :
        \/ Add(c) \/ Park(c) \/ Export(c)
        \/ UploadPointer(c) \/ UploadRevision(c) \/ BreakOff(c)
        \/ (\E s \in Client : Download(c, s))
        \/ Claim(c) \/ Refuse(c) \/ KeepLocal(c) \/ Choose(c)
        \/ Stage(c) \/ Replace(c) \/ Finish(c) \/ Overtaken(c) \/ Crash(c)

Spec == Init /\ [][Next]_vars

-----------------------------------------------------------------------------
(* Properties.                                                               *)

KeepsRows ==
    \A c \in Client :
        \/ IsPrefix(file[c], file'[c])
        \/ import[c].at = "replaced" /\ file'[c] = import[c].was

\* The rows of a file are never lost: it grows at its end, and shrinks only
\* when an import that was overtaken takes its own rows out again.
RowsKept == [][KeepsRows]_vars

\* A Client whose import is done continues a history that contains every
\* export that was on its disk when the import decided, and none of them was
\* torn, also when transfers to the Hub broke off.
ContinuesAll ==
    \A c \in Client :
        import[c].at = "done" =>
            \A h \in import[c].seen : h # Torn /\ IsPrefix(h, file[c])

-----------------------------------------------------------------------------
(* The inductive invariant: what an import holds in each of its places.      *)

\* What the import of c decided upon contains all it had seen.
SeenIn(c, history) == \A h \in import[c].seen : h # Torn /\ IsPrefix(h, history)

\* Until the new file takes its place the old one stays as the import saw it,
\* because the Agent is stopped; then it is the history that was chosen.
ImportHolds(c) ==
    /\ import[c].at \in {"ready", "staged"} =>
          /\ file[c] = import[c].was
          /\ IsPrefix(import[c].was, import[c].chosen)
    /\ import[c].at = "replaced" => file[c] = import[c].chosen
    /\ import[c].at \in {"ready", "staged", "replaced"} =>
          c \notin agent /\ SeenIn(c, import[c].chosen)

ImportInv == TypeOK /\ ContinuesAll /\ \A c \in Client : ImportHolds(c)
=============================================================================

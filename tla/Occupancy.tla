------------------------------ MODULE Occupancy ------------------------------
(***************************************************************************)
(* The exclusive occupancy of one tunnel.                                  *)
(*                                                                         *)
(* The Hub keeps two files per tunnel, occupancy/<name>.json and           *)
(* locks/<name>, that a script run over ssh reads and rewrites under a     *)
(* flock (occupancy.py).  The last Client that claims holds the tunnel;    *)
(* there is no lease and no expiry.  Several processes of each Client      *)
(* (dt commands, the Web server, recovery) resume, type into, drop and     *)
(* remove the tunnel (control.py, cli.py); nothing serialises them on one  *)
(* machine.  Watchers - two threads of the daemon and the cron tick - read *)
(* the holder and take the local panes down when it is another Client      *)
(* (daemon.py, hub.py).  Tunnels do not share occupancy files, so one is   *)
(* modelled.                                                               *)
(***************************************************************************)
EXTENDS Naturals, FiniteSets

CONSTANTS
    Client,    \* the machines that share the Hub
    Proc,      \* the processes that operate on the tunnel
    Host,      \* Host[p] is the Client the process p runs on
    NoOne,     \* the empty holder
    Watcher,   \* what polls the holder on each Client: a subset of
               \* {"lease", "cache", "tick"}
    Fault,     \* which faults happen: a subset of {"down", "timeout", "torn"}
    MaxGen,    \* bound: the largest generation
    MaxEpoch,  \* bound: how often the generation counter restarts
    MaxLate    \* bound: how many timed-out requests are outstanding

ASSUME OccupancyAssumption ==
    /\ NoOne \notin Client
    /\ Host \in [Proc -> Client]
    /\ Watcher \subseteq {"lease", "cache", "tick"}
    /\ MaxGen \in Nat
    /\ MaxEpoch \in Nat
    /\ MaxLate \in Nat

VARIABLES
    occ,       \* holder in occupancy/<name>.json
    lock,      \* locks/<name>: holder and generation
    hubUp,     \* the Hub answers
    late,      \* requests whose caller timed out and that still may run
    pc,        \* where each process is in its command
    token,     \* what each process got from its claim; .epoch and .crossed
               \* (another Client was granted since) are ghosts
    saved,     \* ownership_generation in each Client's tunnel file
    known,     \* the Client has the tunnel in its store
    live,      \* the Client's tmux panes of the tunnel run
    running,   \* the watchers of each Client that are alive
    verdict,   \* the watchers that read a foreign holder and did not park yet
    epoch,     \* ghost: how often the generation counter restarted
    granted,   \* ghost: every <<epoch, generation, client>> a claim returned
    torn       \* ghost: a crash of the Hub left the two files different

hub == <<occ, lock, epoch, granted, torn>>
local == <<saved, known, live>>
watch == <<running, verdict>>
vars == <<hub, hubUp, late, pc, token, local, watch>>

NoLock == [holder |-> NoOne, gen |-> 0]
NoToken == [epoch |-> 0, gen |-> 0, crossed |-> FALSE]
Token == [epoch : 0 .. MaxEpoch, gen : 0 .. MaxGen, crossed : BOOLEAN]

Stage == {"idle", "planned", "import", "checked", "staged", "replaced",
          "start", "verify", "save", "act", "dropping", "removing", "deleting"}

TypeOK ==
    /\ occ \in Client \cup {NoOne}
    /\ lock \in [holder : Client \cup {NoOne}, gen : 0 .. MaxGen]
    /\ hubUp \in BOOLEAN
    /\ late \in SUBSET (Client \X {"claim", "release", "delete"})
    /\ pc \in [Proc -> Stage]
    /\ token \in [Proc -> Token]
    /\ saved \in [Client -> 0 .. MaxGen]
    /\ known \in [Client -> BOOLEAN]
    /\ live \in [Client -> BOOLEAN]
    /\ running \in [Client -> SUBSET Watcher]
    /\ verdict \in [Client -> SUBSET Watcher]
    /\ epoch \in 0 .. MaxEpoch
    /\ granted \in SUBSET ((0 .. MaxEpoch) \X (1 .. MaxGen) \X Client)
    /\ torn \in BOOLEAN

Init ==
    /\ occ = NoOne
    /\ lock = NoLock
    /\ hubUp = TRUE
    /\ late = {}
    /\ pc = [p \in Proc |-> "idle"]
    /\ token = [p \in Proc |-> NoToken]
    /\ saved = [c \in Client |-> 0]
    /\ known = [c \in Client |-> TRUE]
    /\ live = [c \in Client |-> FALSE]
    /\ running = [c \in Client |-> Watcher]
    /\ verdict = [c \in Client |-> {}]
    /\ epoch = 0
    /\ granted = {}
    /\ torn = FALSE

-----------------------------------------------------------------------------
(* The script that runs on the Hub, under the flock of the lock file.        *)

\* What every read reports: the JSON's holder, or the lock's when it is empty.
Holder == IF occ # NoOne THEN occ ELSE lock.holder

Foreign(c) == Holder \notin {c, NoOne}

\* Mutant: a new holder keeps the generation of the old one.
NextGenKept(c) == IF lock.gen = 0 THEN 1 ELSE lock.gen

\* A new holder raises the generation; the holder keeps it, unless it was lost.
NextGen(c) ==
    IF Holder # c THEN lock.gen + 1 ELSE IF lock.gen = 0 THEN 1 ELSE lock.gen

\* The counter lives in the lock file alone: emptying it starts a new epoch.
EmptyLock ==
    /\ lock.gen > 0 => epoch < MaxEpoch
    /\ lock' = NoLock
    /\ epoch' = IF lock.gen > 0 THEN epoch + 1 ELSE epoch

\* Mutant: the occupancy JSON is written and the lock is not.
HubClaimJsonOnly(c) ==
    /\ NextGen(c) <= MaxGen
    /\ occ' = c
    /\ granted' = granted \cup {<<epoch, NextGen(c), c>>}
    /\ UNCHANGED <<lock, epoch, torn>>

HubClaim(c) ==
    /\ NextGen(c) <= MaxGen
    /\ occ' = c
    /\ lock' = [holder |-> c, gen |-> NextGen(c)]
    /\ granted' = granted \cup {<<epoch, NextGen(c), c>>}
    /\ UNCHANGED <<epoch, torn>>

\* Mutant: a release by somebody else is not refused.
HubReleaseAny(c) ==
    /\ occ' = NoOne
    /\ EmptyLock
    /\ UNCHANGED <<granted, torn>>

HubRelease(c) ==
    /\ ~Foreign(c)
    /\ occ' = NoOne
    /\ EmptyLock
    /\ UNCHANGED <<granted, torn>>

\* dt rm deletes the lock file and leaves the occupancy JSON in place.
HubDelete ==
    /\ EmptyLock
    /\ UNCHANGED <<occ, granted, torn>>

\* A claim of c supersedes the tokens that other Clients hold.
Superseded(c) ==
    [q \in Proc |-> IF Host[q] = c THEN token[q]
                    ELSE [token[q] EXCEPT !.crossed = token[q].gen > 0]]

\* A claim whose answer the process p receives.
Claim(p) ==
    /\ hubUp
    /\ HubClaim(Host[p])
    /\ token' = [Superseded(Host[p]) EXCEPT ![p] =
                    [epoch |-> epoch, gen |-> NextGen(Host[p]), crossed |-> FALSE]]

Goto(p, stage) == pc' = [pc EXCEPT ![p] = stage]

\* Mutant: the token is counted down instead of forgotten.
EndBelowZero(p) ==
    /\ Goto(p, "idle")
    /\ token' = [token EXCEPT ![p].gen = 0 - 1]

\* The token is a local variable of the command.
End(p) ==
    /\ Goto(p, "idle")
    /\ token' = [token EXCEPT ![p] = NoToken]

-----------------------------------------------------------------------------
(* Resume: pull and plan, claim, restore the sessions, verify, save.         *)

BeginResume(p) ==
    /\ pc[p] = "idle"
    /\ known[Host[p]]
    /\ hubUp
    /\ Goto(p, "planned")
    /\ UNCHANGED <<hub, hubUp, late, token, local, watch>>

AcquireForResume(p) ==
    /\ pc[p] = "planned"
    /\ Claim(p)
    /\ Goto(p, "import")
    /\ UNCHANGED <<hubUp, late, local, watch>>

\* The generation is read again before staging the native snapshot, right
\* before the file is replaced and after it; only the generation is compared.
NextStage == [import |-> "checked", checked |-> "staged", replaced |-> "start"]

\* Mutant: the check after the replacement does not compare.
GenerationCheckBefore(p) ==
    /\ pc[p] \in DOMAIN NextStage
    /\ hubUp
    /\ pc[p] # "replaced" => lock.gen = token[p].gen
    /\ Goto(p, NextStage[pc[p]])
    /\ UNCHANGED <<hub, hubUp, late, token, local, watch>>

GenerationCheck(p) ==
    /\ pc[p] \in DOMAIN NextStage
    /\ hubUp
    /\ lock.gen = token[p].gen
    /\ Goto(p, NextStage[pc[p]])
    /\ UNCHANGED <<hub, hubUp, late, token, local, watch>>

ReplaceNative(p) ==
    /\ pc[p] = "staged"
    /\ Goto(p, "replaced")
    /\ UNCHANGED <<hub, hubUp, late, token, local, watch>>

\* Tools without native snapshots, and identical snapshots, check nothing.
SkipImport(p) ==
    /\ pc[p] = "import"
    /\ Goto(p, "start")
    /\ UNCHANGED <<hub, hubUp, late, token, local, watch>>

StartSides(p) ==
    /\ pc[p] = "start"
    /\ live' = [live EXCEPT ![Host[p]] = TRUE]
    /\ Goto(p, "verify")
    /\ UNCHANGED <<hub, hubUp, late, token, saved, known, watch>>

\* An empty holder and a generation 0 both count as unchanged.
VerifyResume(p) ==
    /\ pc[p] = "verify"
    /\ hubUp
    /\ ~Foreign(Host[p])
    /\ lock.gen \in {0, token[p].gen}
    /\ Goto(p, "save")
    /\ UNCHANGED <<hub, hubUp, late, token, local, watch>>

\* Mutant: the generation of the lock is saved, not the one of the claim.
SaveResumeLock(p) ==
    /\ pc[p] = "save"
    /\ known[Host[p]]
    /\ saved' = [saved EXCEPT ![Host[p]] = lock.gen]
    /\ End(p)
    /\ UNCHANGED <<hub, hubUp, late, known, live, watch>>

SaveResume(p) ==
    /\ pc[p] = "save"
    /\ known[Host[p]]
    /\ saved' = [saved EXCEPT ![Host[p]] = token[p].gen]
    /\ End(p)
    /\ UNCHANGED <<hub, hubUp, late, known, live, watch>>

-----------------------------------------------------------------------------
(* The commands that claim first and then act on a pane: send, interrupt,    *)
(* enter, work, model, rebuild, branch.                                      *)

RequireActive(p) ==
    /\ pc[p] = "idle"
    /\ known[Host[p]]
    /\ Claim(p)
    /\ saved' = [saved EXCEPT ![Host[p]] = NextGen(Host[p])]
    /\ Goto(p, "act")
    /\ UNCHANGED <<hubUp, late, known, live, watch>>

\* Keys go to panes that run; enter and work create the pane they need.  The
\* holder is not read again.
Act(p) ==
    /\ pc[p] = "act"
    /\ live' = [live EXCEPT ![Host[p]] = TRUE]
    /\ End(p)
    /\ UNCHANGED <<hub, hubUp, late, saved, known, watch>>

-----------------------------------------------------------------------------
(* Drop: the panes go first, then the occupancy.                             *)

DropLocal(p) ==
    /\ pc[p] = "idle"
    /\ known[Host[p]]
    /\ live' = [live EXCEPT ![Host[p]] = FALSE]
    /\ Goto(p, "dropping")
    /\ UNCHANGED <<hub, hubUp, late, token, saved, known, watch>>

ReleaseDropped(p) ==
    /\ pc[p] = "dropping"
    /\ hubUp
    /\ HubRelease(Host[p])
    /\ End(p)
    /\ UNCHANGED <<hubUp, late, local, watch>>

-----------------------------------------------------------------------------
(* Remove: release, forget the tunnel locally, delete the Hub's lock file.   *)

\* A refused or unreachable release does not stop the removal.
ReleaseRemoved(p) ==
    /\ pc[p] = "idle"
    /\ known[Host[p]]
    /\ \/ hubUp /\ HubRelease(Host[p])
       \/ (~hubUp \/ Foreign(Host[p])) /\ UNCHANGED hub
    /\ Goto(p, "removing")
    /\ UNCHANGED <<hubUp, late, token, local, watch>>

\* The panes stay unless --kill is given.
RemoveLocal(p) ==
    /\ pc[p] = "removing"
    /\ known[Host[p]]
    /\ known' = [known EXCEPT ![Host[p]] = FALSE]
    /\ \E kill \in BOOLEAN :
          live' = [live EXCEPT ![Host[p]] = @ /\ ~kill]
    /\ Goto(p, "deleting")
    /\ UNCHANGED <<hub, hubUp, late, token, saved, watch>>

RemoveRemote(p) ==
    /\ pc[p] = "deleting"
    /\ hubUp
    /\ HubDelete
    /\ End(p)
    /\ UNCHANGED <<hubUp, late, local, watch>>

-----------------------------------------------------------------------------
(* The watchers of each Client: lease worker, ownership worker, cron tick.   *)

\* The two threads of the daemon; a tick is a process of its own.
Thread == Watcher \cap {"lease", "cache"}

\* Tunnels the store forgot are not watched.  The fast thread skips tunnels
\* without panes; the cache thread and the tick read the holder of all.
Watched(c, w) == known[c] /\ (w = "lease" => live[c])

ReadForeign(c, w) ==
    /\ w \in running[c] \ verdict[c]
    /\ Watched(c, w)
    /\ hubUp
    /\ Foreign(c)
    /\ verdict' = [verdict EXCEPT ![c] = @ \cup {w}]
    /\ UNCHANGED <<hub, hubUp, late, pc, token, local, running>>

\* Mutant: the verdict is spent and the panes stay.
ParkNothing(c, w) ==
    /\ w \in verdict[c]
    /\ verdict' = [verdict EXCEPT ![c] = @ \ {w}]
    /\ UNCHANGED <<hub, hubUp, late, pc, token, local, running>>

Park(c, w) ==
    /\ w \in verdict[c]
    /\ live' = [live EXCEPT ![c] = FALSE]
    /\ verdict' = [verdict EXCEPT ![c] = @ \ {w}]
    /\ UNCHANGED <<hub, hubUp, late, pc, token, saved, known, running>>

\* subprocess.TimeoutExpired is none of the exceptions the threads catch, so
\* a read that takes more than 8 seconds ends the thread for good.
ReadTimeout(c, w) ==
    /\ "timeout" \in Fault
    /\ w \in (running[c] \ verdict[c]) \cap Thread
    /\ Watched(c, w)
    /\ running' = [running EXCEPT ![c] = @ \ {w}]
    /\ UNCHANGED <<hub, hubUp, late, pc, token, local, verdict>>

RestartDaemon(c) ==
    /\ running[c] # Watcher
    /\ running' = [running EXCEPT ![c] = Watcher]
    /\ verdict' = [verdict EXCEPT ![c] = @ \ Thread]
    /\ UNCHANGED <<hub, hubUp, late, pc, token, local>>

-----------------------------------------------------------------------------
(* Faults.                                                                   *)

\* The command ends early: a step failed, the plan was unsafe, the Hub was
\* unreachable, or the process died.  No exit path releases the occupancy or
\* takes panes down.  (A send that reaches its pane is Act.)
GiveUp(p) ==
    /\ pc[p] \notin {"idle", "act"} \/ (pc[p] = "act" /\ ~live[Host[p]])
    /\ End(p)
    /\ UNCHANGED <<hub, hubUp, late, local, watch>>

\* What a process at a given place asks the Hub to change.
Request(p) ==
    CASE pc[p] = "planned"  -> {"claim"}
      [] pc[p] = "dropping" -> {"release"}
      [] pc[p] = "deleting" -> {"delete"}
      [] pc[p] = "idle"     -> IF known[Host[p]] THEN {"claim", "release"} ELSE {}
      [] OTHER              -> {}

\* ssh is killed after its timeout; the script on the Hub is not.
RequestTimeout(p) ==
    /\ "timeout" \in Fault
    /\ Cardinality(late) < MaxLate
    /\ \E kind \in Request(p) : late' = late \cup {<<Host[p], kind>>}
    /\ End(p)
    /\ UNCHANGED <<hub, hubUp, local, watch>>

RunLate(c, kind) ==
    /\ <<c, kind>> \in late
    /\ late' = late \ {<<c, kind>>}
    /\ \/ kind = "claim"   /\ HubClaim(c) /\ token' = Superseded(c)
       \/ kind = "release" /\ HubRelease(c) /\ UNCHANGED token
       \/ kind = "release" /\ Foreign(c) /\ UNCHANGED <<hub, token>>
       \/ kind = "delete"  /\ HubDelete /\ UNCHANGED token
    /\ UNCHANGED <<hubUp, pc, local, watch>>

\* The Hub crashes between the two writes of a claim: the JSON is replaced
\* first, then the lock is truncated, then written.
TornClaim(p) ==
    /\ "torn" \in Fault /\ ~torn
    /\ hubUp
    /\ "claim" \in Request(p)
    /\ torn' = TRUE
    /\ hubUp' = FALSE
    /\ occ' = Host[p]
    /\ UNCHANGED <<lock, epoch>> \/ EmptyLock
    /\ End(p)
    /\ UNCHANGED <<late, local, watch, granted>>

\* ... or of a release: the lock still names the old holder.  dt rm goes on.
TornRelease(p) ==
    /\ "torn" \in Fault /\ ~torn
    /\ hubUp
    /\ "release" \in Request(p)
    /\ ~Foreign(Host[p])
    /\ torn' = TRUE
    /\ hubUp' = FALSE
    /\ occ' = NoOne
    /\ \/ pc[p] = "dropping" /\ End(p)
       \/ pc[p] = "idle" /\ Goto(p, "removing") /\ UNCHANGED token
    /\ UNCHANGED <<late, local, watch, lock, epoch, granted>>

HubDown ==
    /\ "down" \in Fault
    /\ hubUp
    /\ hubUp' = FALSE
    /\ UNCHANGED <<hub, late, pc, token, local, watch>>

HubBack ==
    /\ ~hubUp
    /\ hubUp' = TRUE
    /\ UNCHANGED <<hub, late, pc, token, local, watch>>

-----------------------------------------------------------------------------
Resume(p) ==
    \/ BeginResume(p)
    \/ AcquireForResume(p)
    \/ GenerationCheck(p)
    \/ ReplaceNative(p)
    \/ SkipImport(p)
    \/ StartSides(p)
    \/ VerifyResume(p)
    \/ SaveResume(p)

Leave(p) ==
    \/ DropLocal(p)
    \/ ReleaseDropped(p)
    \/ ReleaseRemoved(p)
    \/ RemoveLocal(p)
    \/ RemoveRemote(p)

Broken(p) ==
    \/ GiveUp(p)
    \/ RequestTimeout(p)
    \/ TornClaim(p)
    \/ TornRelease(p)

Watch(c) ==
    \/ \E w \in Watcher : ReadForeign(c, w) \/ Park(c, w) \/ ReadTimeout(c, w)
    \/ RestartDaemon(c)

Next ==
    \/ \E p \in Proc : Resume(p) \/ RequireActive(p) \/ Act(p) \/ Leave(p) \/ Broken(p)
    \/ \E c \in Client : Watch(c)
    \/ \E c \in Client, kind \in {"claim", "release", "delete"} : RunLate(c, kind)
    \/ HubDown
    \/ HubBack

Spec == Init /\ [][Next]_vars

\* Users owe nothing; the watchers poll on their own.  A tick that times out
\* is followed by the next one.
FairSpec ==
    /\ Spec
    /\ \A c \in Client, w \in Watcher :
          WF_vars(ReadForeign(c, w)) /\ WF_vars(Park(c, w))

-----------------------------------------------------------------------------
(* Properties.                                                               *)

\* Two Clients are never given the same generation of one epoch, so a stale
\* generation tells its owner that somebody else claimed (the script's claim
\* branch); a crash of the Hub between its two writes is the one exception.
UniqueGrant ==
    ~torn => \A g, h \in granted : g[1] = h[1] /\ g[2] = h[2] => g[3] = h[3]

\* The generation a resume or a send saved in the tunnel file was granted to
\* the Client that saved it, whatever happened to the Hub in between.
SavedWasGranted ==
    \A c \in Client : saved[c] > 0 =>
        \E e \in 0 .. MaxEpoch : <<e, saved[c], c>> \in granted

Undisturbed(p) == token[p].crossed /\ token[p].epoch = epoch => torn

\* A resume passes its verification only when no other Client was granted the
\* tunnel since its claim, unless the counter restarted (verify_resume).
VerifiedUndisturbed ==
    [][\A p \in Proc : pc[p] = "verify" /\ pc'[p] = "save" => Undisturbed(p)]_vars

\* A native snapshot that was put in place is kept only when no other Client
\* was granted the tunnel between the claim and the last check.
ImportUndisturbed ==
    [][\A p \in Proc : pc[p] = "replaced" /\ pc'[p] = "start" => Undisturbed(p)]_vars

\* The tunnel is taken from its holder by a claim of another Client or given
\* up by a request of the holder itself: deleting the lock file does not free
\* it, nor does a release by another Client.
HeldUntilGivenUp ==
    [][\A c \in Client : Holder = c /\ Holder' = NoOne =>
          \/ torn'
          \/ \E p \in Proc : Host[p] = c /\ pc[p] \in {"dropping", "idle"} /\ pc'[p] # pc[p]
          \/ <<c, "release">> \in late \ late']_vars

\* Panes that run on a Client another one holds the tunnel against end, once
\* the Hub answers and the holder stays: the watchers park them.
FencedPanesEnd ==
    \A c \in Client :
        <>[](hubUp /\ known[c] /\ Foreign(c)) => <>[](~live[c])

-----------------------------------------------------------------------------
(* The abstract owner, and the invariant that makes the properties inductive. *)

Owner == INSTANCE TunnelOwner
            WITH owner <- Holder, generation <- lock.gen, given <- granted

\* Without a crash between its two writes, the Hub's files are the concrete
\* form of one owner and one generation.
OwnerSpec == Owner!Spec

FilesAgree == ~torn => lock = NoLock \/ (occ = lock.holder /\ occ # NoOne /\ lock.gen > 0)

\* Grants never lie in the future, and the current one belongs to the holder.
GrantsCurrent ==
    \A g \in granted :
        /\ g[1] <= epoch
        /\ ~torn /\ g[1] = epoch =>
              g[2] <= lock.gen /\ (g[2] = lock.gen => g[3] = Holder)

CurrentGranted ==
    ~torn /\ lock.gen > 0 => <<epoch, lock.gen, Holder>> \in granted

TokensGranted ==
    \A p \in Proc :
        /\ token[p].gen > 0 => <<token[p].epoch, token[p].gen, Host[p]>> \in granted
        /\ token[p].crossed => token[p].gen > 0

\* A token another Client's claim superseded is below the lock's generation.
CrossedTokensStale ==
    \A p \in Proc :
        ~torn /\ token[p].crossed /\ token[p].epoch = epoch => token[p].gen < lock.gen

TokenStages == {"import", "checked", "staged", "replaced", "start", "verify", "save"}

WorkHasToken ==
    \A p \in Proc : pc[p] \in TokenStages => token[p].gen > 0

GrantInv ==
    /\ TypeOK
    /\ FilesAgree
    /\ GrantsCurrent
    /\ CurrentGranted
    /\ UniqueGrant
    /\ TokensGranted
    /\ CrossedTokensStale
    /\ WorkHasToken

=============================================================================

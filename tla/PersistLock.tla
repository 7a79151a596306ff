---------------------------- MODULE PersistLock ----------------------------
(* The lock directory of the persist script: cron runs leave at once when    *)
(* it is there, waiting runs (of dt pull and of the native tick) may take it *)
(* over from a run that died or that is older than half an hour.             *)
EXTENDS Naturals, FiniteSets

CONSTANTS
    Run,       \* runs of the script of one kind on one Client
    Waiting,   \* those started with --wait
    NoRun,
    ReadsAge,  \* whether stat -f prints the time of a change (macOS, BSD); GNU
               \* stat prints several lines, which end the script
    MaxKills,  \* bound: runs that are killed, or cut off by a power failure
    MaxAges    \* bound: how often a lock gets old while its run goes on

VARIABLES
    dir,    \* the run that made the directory, NoRun when there is none
    pid,    \* the run named in it, NoRun before it is written
    aged,   \* the directory is older than half an hour
    at,     \* where each run is in the script
    stale,  \* the directory each run found stale: who had made it
    crossed, \* a directory was removed that is not the one found stale
    kills, ages

vars == <<dir, pid, aged, at, stale, crossed, kills, ages>>

Alive(r) == at[r] \notin {"idle", "dead"}

TypeOK ==
    /\ dir \in Run \cup {NoRun} /\ pid \in Run \cup {NoRun}
    /\ aged \in BOOLEAN /\ crossed \in BOOLEAN
    /\ at \in [Run -> {"idle", "wait", "judge", "remove", "remake", "made",
                       "carry", "dead"}]
    /\ stale \in [Run -> Run \cup {NoRun}]
    /\ kills \in 0 .. MaxKills /\ ages \in 0 .. MaxAges

Init ==
    /\ dir = NoRun /\ pid = NoRun /\ aged = FALSE /\ crossed = FALSE
    /\ at = [r \in Run |-> "idle"]
    /\ stale = [r \in Run |-> NoRun]
    /\ kills = 0 /\ ages = 0

Goto(r, place) == at' = [at EXCEPT ![r] = place]

\* mkdir makes the directory, or fails because it is there.
MakeDir(r, otherwise) ==
    IF dir = NoRun
      THEN dir' = r /\ pid' = NoRun /\ aged' = FALSE /\ Goto(r, "made")
      ELSE Goto(r, otherwise) /\ UNCHANGED <<dir, pid, aged>>

RemoveDir == dir' = NoRun /\ pid' = NoRun /\ aged' = FALSE

Begin(r) ==
    /\ at[r] = "idle"
    /\ MakeDir(r, IF r \in Waiting THEN "wait" ELSE "idle")
    /\ UNCHANGED <<stale, crossed, kills, ages>>

\* The directory is gone, or a minute and a half are over: try once more.
Retry(r) ==
    /\ at[r] = "wait"
    /\ MakeDir(r, "judge")
    /\ UNCHANGED <<stale, crossed, kills, ages>>

(* Mutant: a directory that names no run is never stale. *)
StaleNamed == pid # NoRun /\ at[pid] \in {"idle", "dead"}

\* The run named in the directory is no longer there, or the directory is old,
\* as is one that is gone: its time is 0.
Stale ==
    \/ pid # NoRun /\ at[pid] \in {"idle", "dead"}
    \/ aged
    \/ dir = NoRun

(* Mutant: the trap that removes the directory is set before it is made. *)
JudgeTrapped(r) ==
    /\ at[r] = "judge"
    /\ Goto(r, IF Stale THEN "remove" ELSE "idle")
    /\ IF Stale THEN UNCHANGED <<dir, pid, aged>> ELSE RemoveDir
    /\ stale' = [stale EXCEPT ![r] = dir]
    /\ UNCHANGED <<crossed, kills, ages>>

Judge(r) ==
    /\ at[r] = "judge"
    /\ Goto(r, IF Stale /\ ReadsAge THEN "remove" ELSE "idle")
    /\ stale' = [stale EXCEPT ![r] = dir]
    /\ UNCHANGED <<dir, pid, aged, crossed, kills, ages>>

\* rm -rf removes whatever directory is there by now.
Remove(r) ==
    /\ at[r] = "remove"
    /\ RemoveDir
    /\ crossed' = (crossed \/ (dir # NoRun /\ (dir # stale[r] \/ at[dir] # "dead")))
    /\ Goto(r, "remake")
    /\ UNCHANGED <<stale, kills, ages>>

Remake(r) ==
    /\ at[r] = "remake"
    /\ MakeDir(r, "idle")
    /\ UNCHANGED <<stale, crossed, kills, ages>>

\* The run names itself in the directory and sets the trap that removes it.
Enter(r) ==
    /\ at[r] = "made"
    /\ pid' = IF dir = NoRun THEN NoRun ELSE r
    /\ Goto(r, "carry")
    /\ UNCHANGED <<dir, aged, stale, crossed, kills, ages>>

\* The trees have been carried, or a transfer failed.
Finish(r) ==
    /\ at[r] = "carry"
    /\ RemoveDir
    /\ Goto(r, "idle")
    /\ UNCHANGED <<stale, crossed, kills, ages>>

\* A transfer the run has begun may still go on by itself.
Kill(r) ==
    /\ Alive(r) /\ kills < MaxKills
    /\ kills' = kills + 1
    /\ Goto(r, "dead")
    /\ UNCHANGED <<dir, pid, aged, stale, crossed, ages>>

GetOld ==
    /\ dir # NoRun /\ ~aged
    /\ Alive(dir) => ages < MaxAges
    /\ aged' = TRUE
    /\ ages' = IF Alive(dir) THEN ages + 1 ELSE ages
    /\ UNCHANGED <<dir, pid, at, stale, crossed, kills>>

\* A run that has begun.
Goes(r) ==
    \/ Retry(r) \/ Judge(r) \/ Remove(r) \/ Remake(r)
    \/ Enter(r) \/ Finish(r)

Next ==
    \/ \E r \in Run : Begin(r) \/ Goes(r) \/ Kill(r)
    \/ GetOld

\* Cron and the ticks start runs again and again, and runs go on; an abandoned
\* directory grows old.
FairSpec ==
    /\ Init /\ [][Next]_vars
    /\ WF_vars(GetOld)
    /\ \A r \in Run : WF_vars(Begin(r)) /\ WF_vars(Goes(r))

\* Two runs carry the trees at once only after a take-over that removed the
\* directory of a live run: an old one, or one made since it was judged.
OneCarries == crossed \/ \A r, q \in Run : at[r] = "carry" /\ at[q] = "carry" => r = q

\* Why: until then the directory is that of the one run that has made it and
\* has not ended.
HolderHasDir ==
    crossed \/ \A r \in Run : at[r] \in {"made", "carry"} => dir = r

LockInv == TypeOK /\ HolderHasDir

Carrying == \E r \in Run : at[r] = "carry"

\* The lock of a run that was killed does not stop the trees for good, as
\* long as there are waiting runs (a cron run alone never takes it over) and
\* stat tells them its age; where ReadsAge is FALSE such a lock stays for good.
CarriesOn == []<>Carrying
=============================================================================

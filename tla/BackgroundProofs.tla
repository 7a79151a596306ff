------------------------- MODULE BackgroundProofs -------------------------
(* What runs on a Client without being asked, for every value of the          *)
(* constants: the lock of the persist script, the refresh of the Feishu       *)
(* installation, and the counts of the automatic recovery.                    *)
EXTENDS MCBackground, TLAPS

-----------------------------------------------------------------------------
(* The lock of the persist script (PersistLock): v1 is the directory, v4 where *)
(* the runs are, v6 says that a take-over removed the lock of a live run.      *)

LEMMA LockInit ==
    ASSUME Lock!Init
    PROVE  Lock!LockInv
<1>1. v7 \in 0 .. MaxKills /\ v8 \in 0 .. MaxAges
  BY BackgroundAssumption DEF Lock!Init
<1>2. Lock!TypeOK
  BY <1>1, Zenon DEF Lock!TypeOK, Lock!Init
<1>3. Lock!HolderHasDir
  BY Zenon DEF Lock!HolderHasDir, Lock!Init
<1>4. QED
  BY <1>2, <1>3 DEF Lock!LockInv

LEMMA LockTypes ==
    ASSUME Lock!TypeOK, [Lock!Next]_(Lock!vars)
    PROVE  Lock!TypeOK'
<1> USE DEF Lock!TypeOK
<1>1. CASE UNCHANGED Lock!vars
  BY <1>1 DEF Lock!vars
<1>2. ASSUME NEW r \in Run, Lock!Begin(r) \/ Lock!Goes(r) PROVE Lock!TypeOK'
  <2> USE DEF Lock!Begin, Lock!Goes, Lock!Retry, Lock!Judge, Lock!Remove, Lock!Remake,
              Lock!Enter, Lock!Finish, Lock!Goto, Lock!MakeDir, Lock!RemoveDir
  <2>1. UNCHANGED <<v7, v8>>
    BY <1>2
  <2>2. v6' \in BOOLEAN /\ v3' \in BOOLEAN
    BY <1>2, Zenon
  <2>3. /\ v1' \in Run \cup {NoRun} /\ v2' \in Run \cup {NoRun}
        /\ v5' \in [Run -> Run \cup {NoRun}]
    BY <1>2
  <2>4. v4' \in [Run -> {"idle", "wait", "judge", "remove", "remake", "made",
                         "carry", "dead"}]
    BY <1>2
  <2>5. QED
    BY <2>1, <2>2, <2>3, <2>4
<1>3. ASSUME NEW r \in Run, Lock!Kill(r) PROVE Lock!TypeOK'
  <2>1. v7' \in 0 .. MaxKills
    BY <1>3, BackgroundAssumption DEF Lock!Kill
  <2>2. v4' \in [Run -> {"idle", "wait", "judge", "remove", "remake", "made",
                         "carry", "dead"}]
    BY <1>3 DEF Lock!Kill, Lock!Goto
  <2>3. QED
    BY <1>3, <2>1, <2>2, Zenon DEF Lock!Kill
<1>4. CASE Lock!GetOld
  <2>1. v8' \in 0 .. MaxAges
    BY <1>4, BackgroundAssumption DEF Lock!GetOld
  <2>2. QED
    BY <1>4, <2>1, Zenon DEF Lock!GetOld
<1>5. QED
  BY <1>1, <1>2, <1>3, <1>4 DEF Lock!Next

\* What a run does to the directory keeps it with the run that has made it.
LEMMA DirKept ==
    ASSUME Lock!TypeOK, NEW r \in Run, Lock!Begin(r) \/ Lock!Goes(r), ~v6, ~v6',
           \A q \in Run : v4[q] \in {"made", "carry"} => v1 = q
    PROVE  \A q \in Run : v4'[q] \in {"made", "carry"} => v1' = q
<1> USE BackgroundAssumption DEF Lock!TypeOK, Lock!Goto
<1>1. ASSUME NEW step, Lock!MakeDir(r, step), step \in {"idle", "wait", "judge"}
      PROVE  \A q \in Run : v4'[q] \in {"made", "carry"} => v1' = q
  BY <1>1 DEF Lock!MakeDir
<1>2. CASE Lock!Begin(r) \/ Lock!Retry(r) \/ Lock!Remake(r)
  BY <1>1, <1>2 DEF Lock!Begin, Lock!Retry, Lock!Remake
<1>3. CASE Lock!Judge(r) \/ Lock!Enter(r)
  BY <1>3 DEF Lock!Judge, Lock!Enter
<1>4. CASE Lock!Remove(r)
  <2>1. v1 = NoRun \/ (v1 \in Run /\ v4[v1] = "dead")
    BY <1>4, Zenon DEF Lock!Remove
  <2>2. QED
    BY <1>4, <2>1 DEF Lock!Remove, Lock!RemoveDir
<1>5. CASE Lock!Finish(r)
  BY <1>5 DEF Lock!Finish, Lock!RemoveDir
<1>6. QED
  BY <1>2, <1>3, <1>4, <1>5 DEF Lock!Goes

LEMMA LockStep ==
    ASSUME Lock!LockInv, [Lock!Next]_(Lock!vars)
    PROVE  Lock!LockInv'
<1>1. Lock!TypeOK /\ Lock!HolderHasDir
  BY DEF Lock!LockInv
<1>2. CASE UNCHANGED <<v1, v4, v6>>
  BY <1>1, <1>2, LockTypes, Zenon DEF Lock!LockInv, Lock!HolderHasDir
<1>3. ASSUME NEW r \in Run, Lock!Begin(r) \/ Lock!Goes(r) PROVE Lock!HolderHasDir'
  <2>1. v6 => v6'
    BY <1>3, Zenon DEF Lock!Begin, Lock!Goes, Lock!Retry, Lock!Judge, Lock!Remove,
                       Lock!Remake, Lock!Enter, Lock!Finish
  <2>2. QED
    BY <1>1, <1>3, <2>1, DirKept, Zenon DEF Lock!HolderHasDir
<1>4. ASSUME NEW r \in Run, Lock!Kill(r) PROVE Lock!HolderHasDir'
  <2>1. \A q \in Run : v4'[q] \in {"made", "carry"} => v4[q] = v4'[q]
    BY <1>1, <1>4 DEF Lock!Kill, Lock!Goto, Lock!TypeOK
  <2>2. QED
    BY <1>1, <1>4, <2>1, Zenon DEF Lock!HolderHasDir, Lock!Kill
<1>5. QED
  BY <1>1, <1>2, <1>3, <1>4, LockTypes DEF Lock!LockInv, Lock!Next, Lock!GetOld, Lock!vars

LEMMA LockOneCarries ==
    ASSUME Lock!LockInv
    PROVE  Lock!OneCarries
  BY Zenon DEF Lock!LockInv, Lock!HolderHasDir, Lock!OneCarries
-----------------------------------------------------------------------------
(* The credentials of the Feishu installation (FeishuInstall): v1 is the vault *)
(* of every Client, v2 that of the Hub, v6 the jobs, v7 the refresh of every   *)
(* daemon, v9 the Clients whose refresh was killed between its two files.      *)

\* What is assumed of an installation: every job is at one of its Clients.
Deployment(i) ==
    /\ i.faults \in Nat /\ i.home \in [DOMAIN i.home -> i.client]
    /\ Daemon \subseteq i.client

LEMMA InstallInit ==
    ASSUME NEW i, Deployment(i), Install(i)!Init
    PROVE  Install(i)!InstallInv
<1> USE BackgroundAssumption DEF Deployment, Install!Init, Install!Nothing, Install!Idle
<1>1. Install(i)!TypeOK
  BY DEF Install!TypeOK, Install!Pair, Install!JobStep
<1>2. Install(i)!HalfReplaced /\ Install(i)!CredentialsOpen
  BY DEF Install!HalfReplaced, Install!CredentialsOpen
<1>3. QED
  BY <1>1, <1>2 DEF Install!InstallInv

LEMMA InstallTypes ==
    ASSUME NEW i, Deployment(i), Install(i)!TypeOK, [Install(i)!Next]_(Install(i)!vars)
    PROVE  Install(i)!TypeOK'
<1> USE BackgroundAssumption DEF Deployment, Install!TypeOK, Install!Pair, Install!JobStep
<1>1. CASE UNCHANGED Install(i)!vars
  BY <1>1 DEF Install!vars
<1>2. ASSUME NEW j \in DOMAIN i.home, Install(i)!Requests(j) PROVE Install(i)!TypeOK'
  <2> USE DEF Install!Fault
  <2>1. CASE \/ Install(i)!Begin(j) \/ Install(i)!BeginEnds(j) \/ Install(i)!Poll(j)
             \/ Install(i)!StillPending(j) \/ Install(i)!Rejected(j) \/ Install(i)!Binds(j)
    <3>1. CASE Install(i)!Begin(j) \/ Install(i)!BeginEnds(j)
      BY <3>1 DEF Install!Begin, Install!BeginEnds
    <3>2. CASE \/ Install(i)!Poll(j) \/ Install(i)!StillPending(j) \/ Install(i)!Rejected(j)
      BY <3>2 DEF Install!Poll, Install!StillPending, Install!Rejected
    <3>3. CASE Install(i)!Binds(j)
      BY <3>3 DEF Install!Binds
    <3>4. QED
      BY <2>1, <3>1, <3>2, <3>3
  <2>2. CASE Install(i)!Granted(j)
    BY <2>2 DEF Install!Granted, Install!Saved
  <2>3. CASE \/ Install(i)!PublishKey(j) \/ Install(i)!PublishInstallation(j)
             \/ Install(i)!PublishRoute(j)
    <3> USE DEF Install!Published
    <3>1. CASE Install(i)!PublishKey(j)
      <4>1. v2' \in [key : 0 .. MaxKeys, inst : 0 .. MaxKeys]
        BY <3>1 DEF Install!PublishKey
      <4>2. QED
        BY <3>1, <4>1 DEF Install!PublishKey
    <3>2. CASE Install(i)!PublishInstallation(j)
      <4>1. v2' \in [key : 0 .. MaxKeys, inst : 0 .. MaxKeys]
        BY <3>2 DEF Install!PublishInstallation
      <4>2. QED
        BY <3>2, <4>1 DEF Install!PublishInstallation
    <3>3. CASE Install(i)!PublishRoute(j)
      BY <3>3 DEF Install!PublishRoute
    <3>4. QED
      BY <2>3, <3>1, <3>2, <3>3
  <2>4. CASE \/ Install(i)!NothingToPublish(j) \/ Install(i)!PollEnds(j)
             \/ Install(i)!RemoveFromHub(j) \/ Install(i)!RemoveVault(j)
             \/ Install(i)!Cancel(j) \/ Install(i)!Unbind(j)
    <3>0. Install(i)!Nothing \in [key : 0 .. MaxKeys, inst : 0 .. MaxKeys]
      BY DEF Install!Nothing
    <3>1. CASE Install(i)!RemoveFromHub(j) \/ Install(i)!RemoveVault(j)
      <4>1. CASE Install(i)!RemoveFromHub(j)
        BY <3>0, <4>1 DEF Install!RemoveFromHub
      <4>2. CASE Install(i)!RemoveVault(j)
        BY <3>0, <4>2 DEF Install!RemoveVault
      <4>3. QED
        BY <3>1, <4>1, <4>2
    <3>2. CASE \/ Install(i)!NothingToPublish(j) \/ Install(i)!PollEnds(j)
               \/ Install(i)!Cancel(j) \/ Install(i)!Unbind(j)
      BY <3>2 DEF Install!NothingToPublish, Install!PollEnds, Install!Cancel, Install!Unbind
    <3>3. QED
      BY <2>4, <3>1, <3>2
  <2>5. CASE Install(i)!JobDies(j)
    <3>1. v1' \in [i.client -> [key : 0 .. MaxKeys, inst : 0 .. MaxKeys]] /\ v10' \in 0 .. MaxKeys
      BY <2>5 DEF Install!JobDies
    <3>2. v6' \in [DOMAIN i.home -> Install(i)!JobStep] /\ v11' \in 0 .. i.faults
      BY <2>5 DEF Install!JobDies
    <3>3. QED
      BY <2>5, <3>1, <3>2, Zenon DEF Install!JobDies
  <2>6. QED
    BY <1>2, <2>1, <2>2, <2>3, <2>4, <2>5 DEF Install!Requests
<1>3. ASSUME NEW c \in Daemon, Install(i)!Refreshes(c) \/ Install(i)!DaemonDies(c)
      PROVE  Install(i)!TypeOK'
  <2> DEFINE Check == [at : {"idle", "key", "both", "half", "load"},
                       key : 0 .. MaxKeys, inst : 0 .. MaxKeys]
  <2> USE DEF Install!Fault, Install!Refuses, Install!Idle
  <2>1. CASE Install(i)!FetchKey(c) \/ Install(i)!FetchInstallation(c)
    <3>1. v7' \in [i.client -> Check]
      <4>1. ASSUME NEW w \in Check, v7' = [v7 EXCEPT ![c] = w]
            PROVE  v7' \in [i.client -> Check]
        BY <4>1
      <4>2. v7[c] \in Check /\ v2.key \in 0 .. MaxKeys /\ v2.inst \in 0 .. MaxKeys
        OBVIOUS
      <4>3. [v7[c] EXCEPT !.at = "key", !.key = v2.key] \in Check
        BY <4>2
      <4>4. [v7[c] EXCEPT !.at = "both", !.inst = v2.inst] \in Check
        BY <4>2
      <4>5. Install(i)!Idle \in Check
        OBVIOUS
      <4>6. QED
        BY <2>1, <4>1, <4>3, <4>4, <4>5, Zenon DEF Install!FetchKey, Install!FetchInstallation
    <3>2. v8' \subseteq i.client /\ v11' \in 0 .. i.faults
      BY <2>1 DEF Install!FetchKey, Install!FetchInstallation
    <3>3. QED
      BY <2>1, <3>1, <3>2, Zenon DEF Install!FetchKey, Install!FetchInstallation
  <2>2. CASE Install(i)!RefusePair(c) \/ Install(i)!Load(c) \/ Install(i)!DaemonDies(c)
    <3>1. v7' \in [i.client -> Check]
      <4>1. v7' = [v7 EXCEPT ![c] = Install(i)!Idle]
        BY <2>2, Zenon DEF Install!RefusePair, Install!Load, Install!DaemonDies
      <4>2. QED
        BY <4>1
    <3>2. v8' \subseteq i.client /\ v9' \subseteq i.client /\ v11' \in 0 .. i.faults
      BY <2>2 DEF Install!RefusePair, Install!Load, Install!DaemonDies
    <3>3. QED
      BY <2>2, <3>1, <3>2, Zenon DEF Install!RefusePair, Install!Load, Install!DaemonDies
  <2>3. CASE Install(i)!ReplaceKey(c) \/ Install(i)!ReplaceInstallation(c)
    <3>1. CASE Install(i)!ReplaceKey(c)
      BY <3>1 DEF Install!ReplaceKey
    <3>2. CASE Install(i)!ReplaceInstallation(c)
      <4>1. v1' \in [i.client -> [key : 0 .. MaxKeys, inst : 0 .. MaxKeys]]
        BY <3>2 DEF Install!ReplaceInstallation
      <4>2. v7' \in [i.client -> Check]
        BY <3>2 DEF Install!ReplaceInstallation
      <4>3. QED
        BY <3>2, <4>1, <4>2 DEF Install!ReplaceInstallation
    <3>3. QED
      BY <2>3, <3>1, <3>2
  <2>4. QED
    BY <1>3, <2>1, <2>2, <2>3 DEF Install!Refreshes
<1>4. QED
  BY <1>1, <1>2, <1>3 DEF Install!Next

\* A job changes the vault of its Client while no refresh is between its files,
\* and leaves credentials that open, or none, or no installation.
LEMMA JobKeepsOpen ==
    ASSUME NEW i, Deployment(i), Install(i)!InstallInv, NEW j \in DOMAIN i.home,
           Install(i)!Requests(j)
    PROVE  Install(i)!HalfReplaced' /\ Install(i)!CredentialsOpen'
<1> DEFINE c == i.home[j]
<1>1. /\ Install(i)!TypeOK /\ Install(i)!HalfReplaced /\ Install(i)!CredentialsOpen
      /\ c \in i.client
  BY DEF Install!InstallInv, Deployment
<1> USE BackgroundAssumption
        DEF Install!TypeOK, Install!Pair, Install!Opens, Install!Unlocked,
            Install!HalfReplaced, Install!CredentialsOpen
<1>2. CASE UNCHANGED <<v1, v7, v9>>
  BY <1>1, <1>2
<1>3. CASE Install(i)!Granted(j)
  BY <1>1, <1>3 DEF Install!Granted, Install!Saved
<1>4. CASE Install(i)!RemoveVault(j)
  BY <1>1, <1>4 DEF Install!RemoveVault, Install!Nothing
<1>5. CASE Install(i)!JobDies(j)
  <2>1. CASE v1' = v1
    BY <1>2, <1>5, <2>1 DEF Install!JobDies
  <2>2. CASE Install(i)!Unlocked(c) /\ v1[c].key = 0 /\ v1' = [v1 EXCEPT ![c].key = v10 + 1]
    BY <1>1, <1>5, <2>2 DEF Install!JobDies
  <2>3. CASE Install(i)!Unlocked(c) /\ v1' = [v1 EXCEPT ![c].inst = 0]
    BY <1>1, <1>5, <2>3 DEF Install!JobDies
  <2>4. QED
    BY <1>5, <2>1, <2>2, <2>3, Zenon DEF Install!JobDies
<1>6. QED
  BY <1>2, <1>3, <1>4, <1>5
     DEF Install!Requests, Install!Begin, Install!BeginEnds, Install!Poll,
         Install!StillPending, Install!Rejected, Install!Binds, Install!PublishKey,
         Install!PublishInstallation, Install!PublishRoute, Install!Published,
         Install!NothingToPublish, Install!PollEnds, Install!RemoveFromHub,
         Install!Cancel, Install!Unbind

\* A refresh replaces both files by a pair that it has opened, the key first.
LEMMA RefreshKeepsOpen ==
    ASSUME NEW i, Deployment(i), Install(i)!InstallInv, NEW c \in Daemon,
           Install(i)!Refreshes(c) \/ Install(i)!DaemonDies(c)
    PROVE  Install(i)!HalfReplaced' /\ Install(i)!CredentialsOpen'
<1>1. /\ Install(i)!TypeOK /\ Install(i)!HalfReplaced /\ Install(i)!CredentialsOpen
      /\ c \in i.client
  BY DEF Install!InstallInv, Deployment
<1> USE DEF Install!TypeOK, Install!Pair, Install!Opens, Install!Unlocked, Install!Idle,
            Install!Refuses, Install!HalfReplaced, Install!CredentialsOpen
<1>2. ASSUME NEW w, v7' = [v7 EXCEPT ![c] = w], w.at # "half", v7[c].at # "half",
             UNCHANGED <<v1, v9>>
      PROVE  Install(i)!HalfReplaced' /\ Install(i)!CredentialsOpen'
  BY <1>1, <1>2
<1>3. CASE \/ Install(i)!FetchKey(c) \/ Install(i)!FetchInstallation(c)
           \/ Install(i)!RefusePair(c) \/ Install(i)!Load(c)
  <2>1. v7[c].at # "half" /\ UNCHANGED <<v1, v9>>
    BY <1>3, Zenon DEF Install!FetchKey, Install!FetchInstallation, Install!RefusePair,
                       Install!Load
  <2>2. \/ v7' = [v7 EXCEPT ![c] = Install(i)!Idle]
        \/ v7' = [v7 EXCEPT ![c] = [@ EXCEPT !.at = "key", !.key = v2.key]]
        \/ v7' = [v7 EXCEPT ![c] = [@ EXCEPT !.at = "both", !.inst = v2.inst]]
    BY <1>3, Zenon DEF Install!FetchKey, Install!FetchInstallation, Install!RefusePair,
                       Install!Load
  <2>3. /\ Install(i)!Idle.at # "half"
        /\ [v7[c] EXCEPT !.at = "key", !.key = v2.key].at # "half"
        /\ [v7[c] EXCEPT !.at = "both", !.inst = v2.inst].at # "half"
    BY <1>1
  <2>4. QED
    BY <1>2, <2>1, <2>2, <2>3, Zenon
<1>4. CASE Install(i)!ReplaceKey(c)
  BY <1>1, <1>4 DEF Install!ReplaceKey, Install!Validated
<1>5. CASE Install(i)!ReplaceInstallation(c)
  BY <1>1, <1>5 DEF Install!ReplaceInstallation
<1>6. CASE Install(i)!DaemonDies(c)
  BY <1>1, <1>6 DEF Install!DaemonDies
<1>7. QED
  BY <1>3, <1>4, <1>5, <1>6 DEF Install!Refreshes

LEMMA InstallStep ==
    ASSUME NEW i, Deployment(i), Install(i)!InstallInv, [Install(i)!Next]_(Install(i)!vars)
    PROVE  Install(i)!InstallInv'
<1>1. Install(i)!TypeOK'
  BY InstallTypes, Zenon DEF Install!InstallInv
<1>2. CASE UNCHANGED Install(i)!vars
  BY <1>1, <1>2, Zenon
     DEF Install!InstallInv, Install!vars, Install!HalfReplaced, Install!CredentialsOpen,
         Install!Opens, Install!Unlocked
<1>3. CASE Install(i)!Next
  BY <1>1, <1>3, JobKeepsOpen, RefreshKeepsOpen, Zenon DEF Install!InstallInv, Install!Next
<1>4. QED
  BY <1>2, <1>3

-----------------------------------------------------------------------------
(* Theorems about the lock and the installation. *)

\* Two runs of the persist script carry the trees at once only after a
\* take-over that removed the lock of a live run, however many runs there are,
\* whichever of them wait, and whether or not stat tells the age of a lock
\* (hotfix.py: persist_script).
THEOREM LockExcludes == Lock!FairSpec => []Lock!OneCarries
<1>1. Lock!Init => Lock!LockInv
  BY LockInit
<1>2. Lock!LockInv /\ [Lock!Next]_(Lock!vars) => Lock!LockInv'
  BY LockStep
<1>3. Lock!LockInv => Lock!OneCarries
  BY LockOneCarries
<1>4. QED
  BY <1>1, <1>2, <1>3, PTL DEF Lock!FairSpec

\* The same of the behaviours of MCBackground.
THEOREM OneCarriesAlways == BackgroundSpec => []OneCarries
<1> DEFINE Inv == play = "lock" => Lock!LockInv
<1>1. BackgroundInit => Inv
  BY LockInit, Zenon DEF BackgroundInit
<1>2. Inv /\ [BackgroundNext]_background => Inv'
  <2> SUFFICES ASSUME Inv, [BackgroundNext]_background, play' = "lock" PROVE Lock!LockInv'
    OBVIOUS
  <2>1. play = "lock" /\ [Lock!Next]_(Lock!vars)
    BY Zenon DEF BackgroundNext, background, from1, Lock!vars, Ticks, Locks, Installs
  <2>2. QED
    BY <2>1, LockStep
<1>3. Inv => OneCarries
  BY LockOneCarries DEF OneCarries
<1> HIDE DEF Inv
<1>4. QED
  BY <1>1, <1>2, <1>3, PTL DEF BackgroundSpec

\* A Client can open the credentials it has whenever it has any, unless a
\* refresh was killed between its two files: for every set of Clients, jobs and
\* daemons, and however often the Hub's two files come from two Clients
\* (feishu.py: CredentialVault, feishu_bridge.py: sync_installation_from_hub).
THEOREM CredentialsAlwaysOpen ==
    ASSUME NEW i, Deployment(i)
    PROVE  Install(i)!Spec => []Install(i)!CredentialsOpen
<1>1. Install(i)!Init => Install(i)!InstallInv
  BY InstallInit
<1>2. Install(i)!InstallInv /\ [Install(i)!Next]_(Install(i)!vars) => Install(i)!InstallInv'
  BY InstallStep
<1>3. Install(i)!InstallInv => Install(i)!CredentialsOpen
  BY DEF Install!InstallInv
<1>4. QED
  BY <1>1, <1>2, <1>3, PTL DEF Install!Spec

\* The same of the behaviours of MCBackground.
THEOREM CredentialsOpenAlways == BackgroundSpec => []CredentialsOpen
<1> DEFINE Inv == /\ play = "one" => Install(One)!InstallInv
                  /\ play = "two" => Install(Two)!InstallInv
<1>1. Deployment(One) /\ Deployment(Two)
  BY BackgroundAssumption DEF Deployment
<1>2. BackgroundInit => Inv
  BY <1>1, InstallInit, Zenon DEF BackgroundInit
<1>3. Inv /\ [BackgroundNext]_background => Inv'
  <2> SUFFICES ASSUME Inv, [BackgroundNext]_background PROVE Inv'
    OBVIOUS
  <2>1. play' = play
    BY Zenon DEF BackgroundNext, background
  <2>2. play = "one" => [Install(One)!Next]_(Install(One)!vars)
    BY DEF BackgroundNext, background, from1, from9, Install!vars, Ticks, Locks, Installs
  <2>3. play = "two" => [Install(Two)!Next]_(Install(Two)!vars)
    BY DEF BackgroundNext, background, from1, from9, Install!vars, Ticks, Locks, Installs
  <2>4. QED
    BY <1>1, <2>1, <2>2, <2>3, InstallStep, Zenon
<1>4. Inv => CredentialsOpen
  BY DEF CredentialsOpen, Install!InstallInv
<1> HIDE DEF Inv
<1>5. QED
  BY <1>2, <1>3, <1>4, PTL DEF BackgroundSpec

-----------------------------------------------------------------------------
(* The counts of the automatic recovery (Recovery). *)

LEMMA MinPair ==
    ASSUME NEW x \in Int, NEW y \in Int
    PROVE  Min({x, y}) = IF x <= y THEN x ELSE y
  BY DEF Min

LEMMA MaxPair ==
    ASSUME NEW x \in Int, NEW y \in Int
    PROVE  Max({x, y}) = IF x >= y THEN x ELSE y
  BY DEF Max

LEMMA Numbers ==
    /\ FailThreshold \in Nat \ {0} /\ MaxAttempts \in Nat \ {0} /\ MaxAge \in Nat
    /\ Circuit \in Nat /\ MaxRebuilds \in Nat /\ Warmup \in Nat /\ TurnWindow \in Nat
    /\ TurnRecheck \in Nat /\ Longest \in Nat /\ MaxChanges \in Nat /\ MaxCrashes \in Nat
  BY RecoveryAssumption

LEMMA WaitTimes ==
    ASSUME NEW n \in Nat \ {0}
    PROVE  /\ Backoff[Min({n, Len(Backoff)})] \in Nat
           /\ RebuildBackoff[Min({n, Len(RebuildBackoff)})] \in Nat
<1>1. Len(Backoff) \in Nat \ {0} /\ Len(RebuildBackoff) \in Nat \ {0}
  BY RecoveryAssumption
<1>2. /\ Min({n, Len(Backoff)}) \in 1 .. Len(Backoff)
      /\ Min({n, Len(RebuildBackoff)}) \in 1 .. Len(RebuildBackoff)
  BY <1>1, MinPair
<1>3. Backoff \in Seq(Nat) /\ RebuildBackoff \in Seq(Nat)
  BY RecoveryAssumption
<1>4. QED
  BY <1>2, <1>3

LEMMA AtTunnel ==
    ASSUME NEW p \in Process, proc[p] \in Work
    PROVE  At(p) \in Tunnel
  BY DEF At, Work, Tunnel

LEMMA DefaultCounts == DefaultState \in Counts
  BY RecoveryAssumption DEF DefaultState, Counts, Timer

LEMMA RestingWork == Resting \in Work /\ ~(Resting.at \in {"probe", "decide", "recover"})
<1>1. 1 \in DOMAIN Order
  BY RecoveryAssumption
<1>2. QED
  BY <1>1, DefaultCounts DEF Resting, Work, Steps

\* What is read of a tunnel's file are counts.
LEMMA ReadCounts ==
    ASSUME health \in [Tunnel -> Counts], NEW t \in Tunnel
    PROVE  ReadState(t) \in Counts
  BY DefaultCounts DEF ReadState

LEMMA TimerIn ==
    ASSUME NEW p \in Process, proc[p] \in Work, NEW minutes \in Int
    PROVE  In(p, minutes) \in Int
<1>1. minutes - proc[p].age \in Int /\ -MaxAge \in Int
  BY Numbers DEF Work
<1>2. QED
  BY <1>1, MaxPair DEF In

\* What an observer makes of the counts it has read.
LEMMA CountsReset ==
    ASSUME NEW s \in Counts
    PROVE  Reset(s) \in Counts /\ Reset(s).failures = 0 /\ Reset(s).rebuilds = s.rebuilds
<1>1. 0 \in Nat /\ -MaxAge \in Int
  BY Numbers
<1>2. Reset(s) \in Counts
  BY <1>1 DEF Reset, Counts, Timer
<1>3. Reset(s).failures = 0 /\ Reset(s).rebuilds = s.rebuilds
  BY DEF Reset, Counts
<1>4. QED
  BY <1>2, <1>3

LEMMA CountsFailure ==
    ASSUME NEW s \in Counts, NEW p \in Process
    PROVE  /\ CountFailure(p, s) \in Counts
           /\ CountFailure(p, s).rebuilds = s.rebuilds
           /\ proc[p].warm => CountFailure(p, s).failures = s.failures
           /\ ~proc[p].warm =>
                 CountFailure(p, s).failures = Min({s.failures + 1, FailThreshold})
<1>1. s.failures \in Nat
  BY DEF Counts
<1>2. Min({s.failures + 1, FailThreshold}) \in Nat
  BY <1>1, MinPair, Numbers
<1>3. QED
  BY <1>1, <1>2 DEF CountFailure, Counts

LEMMA CountsAttempt ==
    ASSUME NEW s \in Counts, NEW p \in Process, proc[p] \in Work
    PROVE  /\ CountAttempt(p, s) \in Counts
           /\ CountAttempt(p, s).failures = s.failures
           /\ CountAttempt(p, s).rebuilds = s.rebuilds
<1>1. s.attempts \in Nat
  BY DEF Counts
<1>2. Min({s.attempts + 1, MaxAttempts}) \in Nat
  BY <1>1, MinPair, Numbers
<1>3. In(p, Backoff[Min({s.attempts + 1, Len(Backoff)})]) \in Int
  <2>1. s.attempts + 1 \in Nat \ {0}
    BY <1>1
  <2>2. Backoff[Min({s.attempts + 1, Len(Backoff)})] \in Nat
    BY <2>1, WaitTimes, Zenon
  <2>3. QED
    BY <2>2, TimerIn
<1>4. (IF s.attempts + 1 >= MaxAttempts THEN In(p, Circuit) ELSE -MaxAge) \in Int
  BY TimerIn, Numbers
<1>5. QED
  BY <1>1, <1>2, <1>3, <1>4 DEF CountAttempt, Counts, Timer

LEMMA CountsRebuild ==
    ASSUME NEW s \in Counts, NEW n \in 0 .. MaxRebuilds, NEW m \in Int
    PROVE  [s EXCEPT !.rebuilds = n, !.rebuildRetry = m] \in Counts
<1> DEFINE R == 0 .. MaxRebuilds
<1>1. n \in R
  OBVIOUS
<1> HIDE DEF R
<1>2. QED
  BY <1>1 DEF Counts, Timer, R

LEMMA RecoveryInit ==
    ASSUME Init
    PROVE  RecoveryInv
<1> USE DEF Init
<1>1. health \in [Tunnel -> Counts] /\ proc \in [Process -> Work]
  BY DefaultCounts, RestingWork
<1>2. /\ on \in [Tunnel -> BOOLEAN] /\ up \in [Tunnel -> BOOLEAN]
      /\ due \in BOOLEAN /\ torn = {} /\ lost = {}
      /\ bullet \in [Tunnel -> {"working", "idle", "stalled"}]
  BY Zenon
<1>3. /\ quiet \in [Tunnel -> 0 .. TurnWindow] /\ settled \in [Tunnel -> 0 .. Warmup]
      /\ failedRow \in [Tunnel -> 0 .. FailThreshold]
      /\ tried \in [Tunnel -> Nat] /\ since \in [Tunnel -> 0 .. Longest]
      /\ rebuilt \in [Tunnel -> Nat]
      /\ changes \in 0 .. MaxChanges /\ crashes \in 0 .. MaxCrashes
  BY Numbers
<1>4. TypeOK
  BY <1>1, <1>2, <1>3, Zenon DEF TypeOK
<1>5. \A p \in Process, t \in Tunnel : ~Observes(p, t)
  BY RestingWork DEF Observes, Observing
<1>6. ASSUME NEW t \in Tunnel PROVE RebuildsCounted(t) /\ StreakCounted(t)
  <2>1. rebuilt[t] <= health[t].rebuilds /\ health[t].failures <= failedRow[t]
    BY DEF DefaultState
  <2>2. \A p \in Process : Probing(t) # {p}
    BY <1>5 DEF Probing
  <2>3. QED
    BY <1>5, <2>1, <2>2 DEF RebuildsCounted, StreakCounted
<1>7. QED
  BY <1>2, <1>4, <1>6 DEF RecoveryInv

LEMMA SavesTypes ==
    ASSUME TypeOK, NEW p \in Process, NEW s \in Counts, Saves(p, s)
    PROVE  health' \in [Tunnel -> Counts] /\ torn' \in SUBSET Tunnel /\ lost' \in SUBSET Tunnel
<1>1. At(p) \in Tunnel
  BY AtTunnel DEF TypeOK
<1>2. QED
  BY <1>1 DEF TypeOK, Saves

LEMMA BecomesTypes ==
    ASSUME proc \in [Process -> Work], NEW p \in Process, NEW w \in Work, Becomes(p, w)
    PROVE  proc' \in [Process -> Work]
  BY DEF Becomes

\* A process that has observed a tunnel, or is done with it, forgets what it
\* has read, and observes nothing.
LEMMA Forgets ==
    ASSUME proc \in [Process -> Work], NEW p \in Process,
           \/ Leaves(p) \/ Moves(p) \/ Becomes(p, Resting) \/ Goes(p, "rebuild")
    PROVE  /\ proc' \in [Process -> Work]
           /\ \A q \in Process \ {p} : proc'[q] = proc[q]
           /\ ~(proc'[p].at \in {"probe", "decide", "recover"})
<1>1. proc[p].i \in DOMAIN Order /\ proc[p].auto \in BOOLEAN
  BY DEF Work
<1>2. ASSUME NEW step \in {"stall", "rebuild"}, Goes(p, step)
      PROVE  \E w \in Work : w.at = step /\ Becomes(p, w)
  BY <1>1, <1>2, RestingWork DEF Goes, Work, Steps
<1>3. ASSUME Moves(p)
      PROVE  \E w \in Work : w.at = "next" /\ Becomes(p, w)
  BY <1>1, <1>3, RestingWork DEF Moves, Work, Steps
<1>4. PICK w \in Work :
          ~(w.at \in {"probe", "decide", "recover"}) /\ Becomes(p, w)
  BY <1>2, <1>3, RestingWork DEF Leaves
<1>5. QED
  BY <1>4 DEF Becomes

\* What an observer does: it begins, probes, counts what it has seen, and
\* resumes the tunnel.
LEMMA ObserveTypes ==
    ASSUME TypeOK, NEW p \in Process,
           \/ Pass(p) \/ Begin(p) \/ Probe(p) \/ SeesHealthy(p) \/ SeesFailure(p)
           \/ Defers(p) \/ Recovers(p)
    PROVE  TypeOK'
<1> DEFINE t == At(p)  s == CountFailure(p, proc[p].state)
<1>0. /\ t \in Tunnel /\ proc[p] \in Work /\ proc[p].state \in Counts /\ s \in Counts
      /\ Reset(proc[p].state) \in Counts
  BY AtTunnel, CountsFailure, CountsReset DEF TypeOK, Work
<1> HIDE DEF t, s
<1>1. CASE Pass(p)
  BY <1>1, Forgets DEF Pass, TypeOK, files, world, ghosts
<1>2. CASE Begin(p)
  <2>1. ReadState(t) \in Counts /\ on[t] \in BOOLEAN
    BY <1>0, ReadCounts DEF TypeOK
  <2>2. Calm(t) \in BOOLEAN /\ Warm(t) \in BOOLEAN
    BY DEF Calm, Warm
  <2>3. \E w \in Work : Becomes(p, w)
    BY <1>0, <1>2, <2>1, <2>2 DEF Begin, Work, Steps, t
  <2>4. QED
    BY <1>2, <2>3, BecomesTypes DEF Begin, TypeOK, files, world, ghosts
<1>3. CASE Probe(p)
  <2>1. \E w \in Work : Becomes(p, w)
    BY <1>0, <1>3 DEF Probe, TypeOK, Work, Steps, t
  <2>2. proc' \in [Process -> Work]
    BY <2>1, BecomesTypes DEF TypeOK
  <2>3. \A n \in 0 .. FailThreshold : Min({n + 1, FailThreshold}) \in 0 .. FailThreshold
    BY MinPair, Numbers
  <2>4. failedRow' \in [Tunnel -> 0 .. FailThreshold]
    BY <1>0, <1>3, <2>3, Numbers DEF Probe, TypeOK, t
  <2>5. tried' \in [Tunnel -> Nat]
    BY <1>3 DEF Probe, TypeOK
  <2>6. QED
    BY <1>3, <2>2, <2>4, <2>5 DEF Probe, TypeOK, files, world
<1>4. CASE SeesHealthy(p)
  BY <1>0, <1>4, Forgets, SavesTypes DEF SeesHealthy, TypeOK, world
<1>5. CASE SeesFailure(p)
  BY <1>0, <1>5, Forgets, SavesTypes DEF SeesFailure, TypeOK, world, s
<1>6. CASE Defers(p)
  <2>1. [s EXCEPT !.retry = In(p, TurnRecheck)] \in Counts
    BY <1>0, TimerIn, Numbers DEF Counts, Timer
  <2>2. QED
    BY <1>0, <1>6, <2>1, Forgets, SavesTypes DEF Defers, TypeOK, world, s
<1>7. CASE Recovers(p)
  <2>1. \E w \in Work : Becomes(p, w)
    BY <1>0, <1>7, RestingWork DEF Recovers, Work, Steps, s
  <2>2. QED
    BY <1>0, <1>7, <2>1, BecomesTypes, SavesTypes DEF Recovers, TypeOK, world, s
<1>8. QED
  BY <1>1, <1>2, <1>3, <1>4, <1>5, <1>6, <1>7

LEMMA ResumeTypes ==
    ASSUME TypeOK, NEW p \in Process,
           \/ Restores(p) \/ RestoresNow(p) \/ Fails(p) \/ IsRefused(p) \/ GivesUp(p)
    PROVE  TypeOK'
<1> DEFINE t == At(p)
<1>0. /\ t \in Tunnel /\ proc[p] \in Work /\ proc[p].state \in Counts
      /\ Reset(proc[p].state) \in Counts /\ Reset(ReadState(t)) \in Counts
      /\ CountAttempt(p, proc[p].state) \in Counts
  BY AtTunnel, ReadCounts, CountsReset, CountsAttempt DEF TypeOK, Work
<1> HIDE DEF t
<1>1. ASSUME Resumed(p)
      PROVE  /\ up' \in [Tunnel -> BOOLEAN] /\ settled' \in [Tunnel -> 0 .. Warmup]
             /\ failedRow' \in [Tunnel -> 0 .. FailThreshold] /\ tried' \in [Tunnel -> Nat]
             /\ proc' \in [Process -> Work]
  <2>1. proc' \in [Process -> Work]
    BY <1>1, Forgets DEF Resumed, TypeOK
  <2>2. up' \in [Tunnel -> BOOLEAN]
    BY <1>1, Zenon DEF Resumed, TypeOK
  <2>0. /\ settled \in [Tunnel -> 0 .. Warmup] /\ tried \in [Tunnel -> Nat]
        /\ failedRow \in [Tunnel -> 0 .. FailThreshold]
        /\ 0 \in 0 .. Warmup /\ 0 \in 0 .. FailThreshold
    BY Numbers DEF TypeOK
  <2>3. settled' \in [Tunnel -> 0 .. Warmup]
    BY <1>1, <2>0 DEF Resumed
  <2>4. failedRow' \in [Tunnel -> 0 .. FailThreshold] /\ tried' \in [Tunnel -> Nat]
    BY <1>1, <2>0 DEF Resumed
  <2>5. QED
    BY <2>1, <2>2, <2>3, <2>4
<1>2. ASSUME Attempted(p)
      PROVE  tried' \in [Tunnel -> Nat] /\ since' \in [Tunnel -> 0 .. Longest]
  <2>1. \A n \in Nat : Min({n + 1, MaxAttempts}) \in Nat
    BY MinPair, Numbers
  <2>2. \A n \in Nat : Min({n, Longest}) \in 0 .. Longest
    BY MinPair, Numbers
  <2>3. proc[p].age \in Nat
    BY <1>0 DEF Work
  <2>4. QED
    BY <1>2, <2>1, <2>2, <2>3 DEF Attempted, TypeOK
<1>3. CASE Restores(p)
  BY <1>0, <1>1, <1>3, SavesTypes DEF Restores, Resumed, TypeOK
<1>4. CASE RestoresNow(p)
  <2>1. health' \in [Tunnel -> Counts] /\ torn' \in SUBSET Tunnel /\ lost' \in SUBSET Tunnel
    BY <1>0, <1>4, SavesTypes DEF RestoresNow, TypeOK, files, t
  <2>2. QED
    BY <1>1, <1>4, <2>1 DEF RestoresNow, Resumed, TypeOK
<1>5. CASE Fails(p)
  <2>1. health' \in [Tunnel -> Counts] /\ torn' \in SUBSET Tunnel /\ lost' \in SUBSET Tunnel
    BY <1>0, <1>5, SavesTypes DEF Fails
  <2>2. proc' \in [Process -> Work]
    BY <1>5, Forgets DEF Fails, TypeOK
  <2>3. settled' \in [Tunnel -> 0 .. Warmup]
    <3>1. settled \in [Tunnel -> 0 .. Warmup] /\ 0 \in 0 .. Warmup
      BY Numbers DEF TypeOK
    <3>2. QED
      BY <1>5, <3>1 DEF Fails
  <2>4. QED
    BY <1>2, <1>5, <2>1, <2>2, <2>3 DEF Fails, TypeOK
<1>6. CASE IsRefused(p)
  BY <1>2, <1>6, Forgets DEF IsRefused, TypeOK, files, world
<1>7. CASE GivesUp(p)
  BY <1>0, <1>7, Forgets, Numbers DEF GivesUp, TypeOK, files, ghosts, t
<1>8. QED
  BY <1>3, <1>4, <1>5, <1>6, <1>7

LEMMA RebuildTypes ==
    ASSUME TypeOK, NEW p \in Process,
           \/ SeesWorking(p) \/ LeavesBullet(p) \/ StartsRebuild(p) \/ EndsRebuild(p)
    PROVE  TypeOK'
<1> DEFINE t == At(p)  s == ReadState(t)
<1>0. t \in Tunnel /\ proc[p] \in Work /\ s \in Counts
  BY AtTunnel, ReadCounts DEF TypeOK
<1> HIDE DEF t, s
<1>1. CASE SeesWorking(p)
  <2>1. [s EXCEPT !.rebuilds = 0, !.rebuildRetry = -MaxAge] \in Counts
    <3>1. 0 \in 0 .. MaxRebuilds /\ -MaxAge \in Int
      BY Numbers
    <3>2. QED
      BY <1>0, <3>1, CountsRebuild, Zenon
  <2>2. health' \in [Tunnel -> Counts] /\ torn' \in SUBSET Tunnel /\ lost' \in SUBSET Tunnel
    BY <1>1, <2>1, SavesTypes DEF SeesWorking, TypeOK, files, s, t
  <2>3. proc' \in [Process -> Work] /\ rebuilt' \in [Tunnel -> Nat]
    BY <1>1, Forgets DEF SeesWorking, TypeOK
  <2>4. QED
    BY <1>1, <2>2, <2>3 DEF SeesWorking, TypeOK, world
<1>2. CASE LeavesBullet(p)
  BY <1>2, Forgets DEF LeavesBullet, TypeOK, files, world, ghosts
<1>3. CASE StartsRebuild(p)
  <2> DEFINE w == RebuildBackoff[Min({s.rebuilds + 1, Len(RebuildBackoff)})]
  <2>1. s.rebuilds \in 0 .. MaxRebuilds /\ s.rebuilds < MaxRebuilds
    BY <1>0, <1>3 DEF StartsRebuild, Rebuilds, Counts, s, t
  <2>2. s.rebuilds + 1 \in Nat \ {0} /\ s.rebuilds + 1 \in 0 .. MaxRebuilds
    BY <2>1, Numbers
  <2>3. w \in Int
    <3>1. w \in Nat
      BY <2>2, WaitTimes, Zenon
    <3>2. QED
      BY <3>1
  <2> HIDE DEF w
  <2>4. [s EXCEPT !.rebuilds = @ + 1, !.rebuildRetry = w] \in Counts
    BY <1>0, <2>2, <2>3, CountsRebuild, Zenon
  <2>5. health' \in [Tunnel -> Counts] /\ torn' \in SUBSET Tunnel /\ lost' \in SUBSET Tunnel
    BY <1>3, <2>4, SavesTypes, Zenon DEF StartsRebuild, s, t, w
  <2>6. \A n \in Nat : Min({n + 1, MaxRebuilds + 1}) \in Nat
    BY MinPair, Numbers
  <2>7. proc' \in [Process -> Work] /\ rebuilt' \in [Tunnel -> Nat]
    BY <1>3, <2>6, Forgets DEF StartsRebuild, TypeOK
  <2>8. QED
    BY <1>3, <2>5, <2>7 DEF StartsRebuild, TypeOK, world
<1>4. CASE EndsRebuild(p)
  BY <1>4, Forgets DEF EndsRebuild, TypeOK, files, ghosts
<1>5. QED
  BY <1>1, <1>2, <1>3, <1>4

\* Ticks, operators and crashes.
LEMMA OtherTypes ==
    ASSUME TypeOK, NEW p \in Process,
           NextTunnel(p) \/ StartTick(p) \/ Asks(p) \/ Crash(p)
    PROVE  TypeOK'
<1>0. At(p) \in Tunnel /\ proc[p] \in Work
  BY AtTunnel DEF TypeOK
<1>1. ASSUME NEW i \in DOMAIN Order, NEW step \in {"load", "now"}
      PROVE  [Resting EXCEPT !.at = step, !.i = i] \in Work
  BY <1>1, RestingWork DEF Work, Steps
<1>2. [Resting EXCEPT !.at = "load"] \in Work
  BY RestingWork DEF Work, Steps
<1>3. CASE NextTunnel(p)
  <2>1. proc[p].i < Len(Order) => proc[p].i + 1 \in DOMAIN Order
    <3>1. Order \in Seq(Tunnel)
      BY RecoveryAssumption
    <3>2. DOMAIN Order = 1 .. Len(Order) /\ Len(Order) \in Nat
      BY <3>1
    <3>3. proc[p].i \in DOMAIN Order
      BY <1>0 DEF Work
    <3>4. QED
      BY <3>2, <3>3
  <2>2. proc' \in [Process -> Work]
    BY <1>1, <1>3, <2>1, BecomesTypes, RestingWork, Zenon DEF NextTunnel, TypeOK
  <2>3. QED
    BY <1>3, <2>2 DEF NextTunnel, TypeOK, files, world, ghosts
<1>4. CASE StartTick(p)
  <2>1. proc' \in [Process -> Work]
    BY <1>2, <1>4, BecomesTypes, Zenon DEF StartTick, TypeOK
  <2>2. QED
    BY <1>4, <2>1 DEF StartTick, TypeOK, files, world, ghosts
<1>5. CASE Asks(p)
  <2>1. proc' \in [Process -> Work]
    BY <1>1, <1>5, BecomesTypes, Zenon DEF Asks, TypeOK
  <2>2. changes' \in 0 .. MaxChanges
    <3>1. changes < MaxChanges /\ changes' = changes + 1
      BY <1>5, Zenon DEF Asks
    <3>2. QED
      BY <3>1, Numbers DEF TypeOK
  <2>3. QED
    BY <1>5, <2>1, <2>2 DEF Asks, TypeOK, files, world, ghosts
<1>6. CASE Crash(p)
  <2>1. proc' \in [Process -> Work]
    BY <1>6, BecomesTypes, RestingWork DEF Crash, TypeOK
  <2>2. crashes' \in 0 .. MaxCrashes
    BY <1>6, Numbers DEF Crash, TypeOK
  <2>3. QED
    BY <1>0, <1>6, <2>1, <2>2 DEF Crash, TypeOK, world
<1>7. QED
  BY <1>3, <1>4, <1>5, <1>6

LEMMA MinuteTypes ==
    ASSUME TypeOK, Minute
    PROVE  TypeOK'
<1>0. \A m \in Int : Passed(m) \in Int
  <2>1. ASSUME NEW m \in Int PROVE Passed(m) \in Int
    <3>1. m - 1 \in Int /\ -MaxAge \in Int
      BY Numbers
    <3>2. QED
      BY <3>1, MaxPair DEF Passed
  <2>2. QED
    BY <2>1
<1>1. \A s \in Counts : Later(s) \in Counts
  BY <1>0 DEF Later, Counts, Timer
<1>2. health' \in [Tunnel -> Counts]
  BY <1>1 DEF Minute, TypeOK
<1>3. proc' \in [Process -> Work]
  <2>1. ASSUME NEW w \in Work
        PROVE  [w EXCEPT !.age = @ + 1, !.state = Later(@)] \in Work
    <3>1. w.age + 1 \in Nat /\ Later(w.state) \in Counts
      BY <1>1 DEF Work
    <3>2. QED
      BY <3>1 DEF Work
  <2>2. QED
    BY <2>1 DEF Minute, TypeOK
<1>4. /\ quiet' \in [Tunnel -> 0 .. TurnWindow] /\ settled' \in [Tunnel -> 0 .. Warmup]
      /\ since' \in [Tunnel -> 0 .. Longest]
  <2>1. /\ \A n \in 0 .. TurnWindow : Min({n + 1, TurnWindow}) \in 0 .. TurnWindow
        /\ \A n \in 0 .. Warmup : Min({n + 1, Warmup}) \in 0 .. Warmup
        /\ \A n \in 0 .. Longest : Min({n + 1, Longest}) \in 0 .. Longest
    BY MinPair, Numbers
  <2>2. /\ quiet \in [Tunnel -> 0 .. TurnWindow] /\ settled \in [Tunnel -> 0 .. Warmup]
        /\ since \in [Tunnel -> 0 .. Longest]
    BY DEF TypeOK
  <2>3. QED
    BY <2>1, <2>2 DEF Minute
<1>5. due' \in BOOLEAN
  BY DEF Minute
<1>6. QED
  BY <1>2, <1>3, <1>4, <1>5, Zenon DEF Minute, TypeOK

LEMMA WorldTypes ==
    ASSUME TypeOK, NEW t \in Tunnel, SetEnabled(t) \/ World(t)
    PROVE  TypeOK'
<1>1. changes' \in 0 .. MaxChanges
  <2>1. changes < MaxChanges /\ changes' = changes + 1
    BY Zenon DEF SetEnabled, World
  <2>2. QED
    BY <2>1, Numbers DEF TypeOK
<1>2. on' \in [Tunnel -> BOOLEAN] /\ up' \in [Tunnel -> BOOLEAN]
  BY Zenon DEF SetEnabled, World, TypeOK
<1>3. bullet' \in [Tunnel -> {"working", "idle", "stalled"}]
  BY DEF SetEnabled, World, TypeOK
<1>4. quiet' \in [Tunnel -> 0 .. TurnWindow]
  <2>1. quiet \in [Tunnel -> 0 .. TurnWindow] /\ 0 \in 0 .. TurnWindow
    BY Numbers DEF TypeOK
  <2>2. QED
    BY <2>1 DEF SetEnabled, World
<1>5. QED
  BY <1>1, <1>2, <1>3, <1>4, Zenon DEF SetEnabled, World, TypeOK, files, ghosts

LEMMA RecoveryTypes ==
    ASSUME TypeOK, [Next]_vars
    PROVE  TypeOK'
<1>1. CASE UNCHANGED vars
  BY <1>1, Zenon DEF TypeOK, vars, files, world, ghosts
<1>2. CASE Next
  BY <1>2, ObserveTypes, ResumeTypes, RebuildTypes, OtherTypes, WorldTypes, MinuteTypes, Zenon
     DEF Next, Step
<1>3. QED
  BY <1>1, <1>2

-----------------------------------------------------------------------------
(* Counts are kept, or known to be lost. *)

\* Nothing is changed of a tunnel, by a process that does not observe it.
LEMMA CountsKept ==
    ASSUME TypeOK, NEW u \in Tunnel, RebuildsCounted(u), StreakCounted(u),
           health'[u] = health[u], failedRow'[u] = failedRow[u],
           rebuilt'[u] \in {rebuilt[u], 0},
           \A q \in Process :
               proc'[q] = proc[q] \/ (~Observes(q, u) /\ ~Observes(q, u)')
    PROVE  RebuildsCounted(u)' /\ StreakCounted(u)'
<1>1. \A q \in Process :
          /\ Observes(q, u)' = Observes(q, u)
          /\ Observes(q, u) => proc'[q] = proc[q]
  BY DEF Observes, Observing, At
<1>2. RebuildsCounted(u)'
  <2>1. /\ health[u].rebuilds \in Nat
        /\ \A q \in Process : proc[q].state.rebuilds \in Nat
    BY Numbers DEF TypeOK, Work, Counts
  <2>2. QED
    BY <1>1, <2>1 DEF RebuildsCounted
<1>3. Probing(u)' = Probing(u)
  BY <1>1 DEF Probing
<1>4. \A q \in Probing(u) : q \in Process /\ Pending(q)' = Pending(q)
  BY <1>1 DEF Probing, Pending, CountFailure
<1>5. QED
  BY <1>1, <1>2, <1>3, <1>4 DEF StreakCounted

\* A process saves counts, as the only one that observed the tunnel, and is
\* done with it.
LEMMA SavedLast ==
    ASSUME TypeOK, NEW p \in Process, NEW t \in Tunnel \ lost', At(p) = t,
           NEW s \in Counts, Saves(p, s),
           \A q \in Process \ {p} : proc'[q] = proc[q],
           ~Observes(p, t)',
           rebuilt'[t] <= s.rebuilds, s.failures <= failedRow'[t]
    PROVE  RebuildsCounted(t)' /\ StreakCounted(t)'
<1>1. health'[t] = s
  BY DEF Saves, TypeOK
<1>2. \A q \in Process \ {p} : ~Observes(q, t)
  BY DEF Saves, HeldElsewhere, Observes
<1>3. \A q \in Process : ~Observes(q, t)'
  BY <1>2 DEF Observes, Observing, At
<1>4. Probing(t)' = {}
  BY <1>3 DEF Probing
<1>5. QED
  BY <1>1, <1>3, <1>4 DEF RebuildsCounted, StreakCounted

\* A process touches the tunnel it is at, and no other process.
LEMMA OwnTunnel ==
    ASSUME TypeOK, torn \subseteq lost, NEW p \in Process, NEW t \in Tunnel, At(p) = t,
           Step(p) \/ StartTick(p) \/ Asks(p) \/ Crash(p)
    PROVE  /\ lost \subseteq lost' /\ torn' \subseteq lost'
           /\ \A u \in Tunnel \ {t} : /\ health'[u] = health[u]
                                      /\ failedRow'[u] = failedRow[u]
                                      /\ rebuilt'[u] = rebuilt[u]
           /\ \A q \in Process \ {p} : proc'[q] = proc[q]
           /\ \A u \in Tunnel \ {t} : ~Observes(p, u)'
<1>1. /\ lost \subseteq lost' /\ torn' \subseteq lost'
      /\ \A u \in Tunnel \ {t} : health'[u] = health[u]
  <2>1. CASE UNCHANGED <<files, lost>>
    BY <2>1 DEF files
  <2>2. ASSUME NEW s, Saves(p, s)
        PROVE  /\ lost \subseteq lost' /\ torn' \subseteq lost'
               /\ \A u \in Tunnel \ {t} : health'[u] = health[u]
    BY <2>2 DEF Saves, TypeOK
  <2>3. CASE UNCHANGED files /\ lost' = lost \cup {t}
    BY <2>3 DEF files
  <2>4. CASE Crash(p)
    BY <2>4 DEF Crash
  <2>5. QED
    BY <2>1, <2>2, <2>3, <2>4, Zenon
       DEF Step, StartTick, Asks, ghosts, Pass, Begin, Probe, SeesHealthy, SeesFailure,
           Defers, Recovers, Restores, RestoresNow, Fails, IsRefused, GivesUp,
           SeesWorking, LeavesBullet, StartsRebuild, EndsRebuild, NextTunnel
<1>2. \A u \in Tunnel \ {t} : failedRow'[u] = failedRow[u] /\ rebuilt'[u] = rebuilt[u]
  <2>1. \/ failedRow' = failedRow
        \/ \E n : failedRow' = [failedRow EXCEPT ![t] = n]
    BY Zenon
       DEF Step, StartTick, Asks, Crash, ghosts, Pass, Begin, Probe, SeesHealthy,
           SeesFailure, Defers, Recovers, Restores, RestoresNow, Resumed, Fails,
           IsRefused, GivesUp, SeesWorking, LeavesBullet, StartsRebuild, EndsRebuild,
           NextTunnel
  <2>2. \/ rebuilt' = rebuilt
        \/ \E n : rebuilt' = [rebuilt EXCEPT ![t] = n]
    BY Zenon
       DEF Step, StartTick, Asks, Crash, ghosts, Pass, Begin, Probe, SeesHealthy,
           SeesFailure, Defers, Recovers, Restores, RestoresNow, Resumed, Fails,
           IsRefused, GivesUp, SeesWorking, LeavesBullet, StartsRebuild, EndsRebuild,
           NextTunnel
  <2>3. QED
    BY <2>1, <2>2 DEF TypeOK
<1>3. /\ \A q \in Process \ {p} : proc'[q] = proc[q]
      /\ proc'[p].at \in {"probe", "decide", "recover"} => proc'[p].i = proc[p].i
  <2>1. ASSUME NEW w, Becomes(p, w),
               w.at \in {"probe", "decide", "recover"} => w.i = proc[p].i
        PROVE  /\ \A q \in Process \ {p} : proc'[q] = proc[q]
               /\ proc'[p].at \in {"probe", "decide", "recover"} => proc'[p].i = proc[p].i
    BY <2>1 DEF Becomes, TypeOK
  <2>2. CASE Begin(p)
    BY <2>1, <2>2 DEF Begin, TypeOK, Work
  <2>3. CASE Probe(p)
    BY <2>1, <2>3 DEF Probe, TypeOK, Work
  <2>4. CASE Recovers(p)
    BY <2>1, <2>4, RestingWork DEF Recovers, Work
  <2>5. ASSUME NEW step \in {"load", "now"}, NEW i
        PROVE  ~([Resting EXCEPT !.at = step, !.i = i].at \in {"probe", "decide", "recover"})
    BY RestingWork DEF Work
  <2>6. CASE NextTunnel(p)
    BY <2>1, <2>5, <2>6, RestingWork DEF NextTunnel
  <2>7. CASE StartTick(p)
    BY <2>1, <2>7, RestingWork DEF StartTick, Work
  <2>8. CASE Asks(p)
    <3>1. PICK i \in DOMAIN Order, step \in {"load", "now"} :
              Becomes(p, [Resting EXCEPT !.at = step, !.i = i])
      BY <2>8, Zenon DEF Asks
    <3>2. QED
      BY <2>1, <2>5, <3>1
  <2>9. ASSUME \/ Leaves(p) \/ Moves(p) \/ Becomes(p, Resting) \/ Goes(p, "rebuild")
        PROVE  /\ \A q \in Process \ {p} : proc'[q] = proc[q]
               /\ proc'[p].at \in {"probe", "decide", "recover"} => proc'[p].i = proc[p].i
    BY <2>9, Forgets DEF TypeOK
  <2>10. QED
    BY <2>2, <2>3, <2>4, <2>6, <2>7, <2>8, <2>9, Zenon
       DEF Step, Crash, Pass, SeesHealthy, SeesFailure, Defers, Restores, RestoresNow,
           Resumed, Fails, IsRefused, GivesUp, SeesWorking, LeavesBullet, StartsRebuild,
           EndsRebuild
<1>4. QED
  BY <1>1, <1>2, <1>3 DEF TypeOK, Observes, Observing, At

\* A process that saves counts of t was the only one to observe t, or counts
\* are lost.
LEMMA OnlyProber ==
    ASSUME NEW p \in Process, NEW t \in Tunnel \ lost', At(p) = t, NEW s, Saves(p, s)
    PROVE  /\ proc[p].at \in {"probe", "decide"} => Probing(t) = {p}
           /\ proc[p].at \notin {"probe", "decide"} => Probing(t) = {}
  BY DEF Saves, HeldElsewhere, Probing, Observes, Observing

\* What an observer has seen is counted when it leaves.
LEMMA ObserverCounts ==
    ASSUME RecoveryInv, NEW p \in Process, NEW t \in Tunnel \ lost', At(p) = t, t \notin lost,
           SeesHealthy(p) \/ SeesFailure(p) \/ Defers(p) \/ Restores(p) \/ Fails(p)
    PROVE  RebuildsCounted(t)' /\ StreakCounted(t)'
<1> DEFINE w == proc[p].state  s == CountFailure(p, w)
<1>0. TypeOK /\ w \in Counts /\ proc[p] \in Work /\ rebuilt[t] \in Nat
  BY DEF RecoveryInv, TypeOK, Work
<1>1. RebuildsCounted(t) /\ StreakCounted(t)
  BY DEF RecoveryInv
<1>2. rebuilt[t] <= w.rebuilds
  BY <1>1 DEF RebuildsCounted, Observes, Observing, SeesHealthy, SeesFailure, Defers,
              Restores, Fails
<1>3. rebuilt' = rebuilt
  BY DEF SeesHealthy, SeesFailure, Defers, Restores, Resumed, Fails
<1>4. /\ \A q \in Process \ {p} : proc'[q] = proc[q]
      /\ ~Observes(p, t)'
  BY <1>0, Forgets DEF TypeOK, SeesHealthy, SeesFailure, Defers, Restores, Resumed, Fails,
                       Observes, Observing
<1> HIDE DEF w, s
<1>5. ASSUME NEW c \in Counts, Saves(p, c), c.rebuilds = w.rebuilds,
             c.failures <= failedRow'[t]
      PROVE  RebuildsCounted(t)' /\ StreakCounted(t)'
  BY <1>0, <1>2, <1>3, <1>4, <1>5, SavedLast
<1>6. CASE SeesHealthy(p)
  <2>1. Reset(w) \in Counts /\ Reset(w).failures = 0 /\ Reset(w).rebuilds = w.rebuilds
    BY <1>0, CountsReset
  <2>2. 0 <= failedRow'[t]
    BY <1>0, <1>6, Numbers DEF SeesHealthy, TypeOK
  <2>3. QED
    BY <1>5, <1>6, <2>1, <2>2 DEF SeesHealthy, w
<1>7. CASE SeesFailure(p)
  <2>1. s \in Counts /\ s.rebuilds = w.rebuilds
    BY <1>0, CountsFailure DEF s
  <2>2. s.failures <= failedRow[t]
    BY <1>1, <1>7, OnlyProber DEF SeesFailure, StreakCounted, Pending, s, w
  <2>3. QED
    BY <1>5, <1>7, <2>1, <2>2 DEF SeesFailure, s, w
<1>8. CASE Defers(p)
  <2> DEFINE c == [s EXCEPT !.retry = In(p, TurnRecheck)]
  <2>1. s \in Counts /\ s.rebuilds = w.rebuilds
    BY <1>0, CountsFailure DEF s
  <2>2. c \in Counts /\ c.failures = s.failures /\ c.rebuilds = s.rebuilds
    BY <1>0, <2>1, TimerIn, Numbers DEF Counts, Timer
  <2>3. Saves(p, c) /\ UNCHANGED failedRow
    BY <1>8 DEF Defers, s, w
  <2> HIDE DEF c
  <2>4. s.failures <= failedRow[t]
    BY <1>1, <1>8, <2>3, OnlyProber DEF Defers, StreakCounted, Pending, s, w
  <2>5. QED
    BY <1>5, <2>1, <2>2, <2>3, <2>4
<1>9. CASE Restores(p)
  <2>1. Reset(w) \in Counts /\ Reset(w).failures = 0 /\ Reset(w).rebuilds = w.rebuilds
    BY <1>0, CountsReset
  <2>2. 0 <= failedRow'[t]
    BY <1>0, <1>9, Numbers DEF Restores, Resumed, TypeOK
  <2>3. QED
    BY <1>5, <1>9, <2>1, <2>2 DEF Restores, w
<1>10. CASE Fails(p)
  <2> DEFINE c == CountAttempt(p, w)
  <2>1. c \in Counts /\ c.failures = w.failures /\ c.rebuilds = w.rebuilds
    BY <1>0, CountsAttempt
  <2>2. Saves(p, c) /\ UNCHANGED failedRow
    BY <1>10 DEF Fails, w
  <2> HIDE DEF c
  <2>3. w.failures <= failedRow[t]
    BY <1>1, <1>10, <2>2, OnlyProber DEF Fails, StreakCounted, Observes, Observing, w
  <2>4. QED
    BY <1>5, <2>1, <2>2, <2>3
<1>11. QED
  BY <1>6, <1>7, <1>8, <1>9, <1>10

\* Begin, probe, and begin to recover.
LEMMA ObserverGoesOn ==
    ASSUME RecoveryInv, NEW p \in Process, NEW t \in Tunnel \ lost', At(p) = t, t \notin lost,
           Begin(p) \/ Probe(p) \/ Recovers(p)
    PROVE  RebuildsCounted(t)' /\ StreakCounted(t)'
<1>0. TypeOK /\ proc[p].state \in Counts /\ proc[p] \in Work /\ health[t] \in Counts
  BY DEF RecoveryInv, TypeOK, Work
<1>1. RebuildsCounted(t) /\ StreakCounted(t)
  BY DEF RecoveryInv
<1>2. CASE Begin(p)
  <2>1. /\ \A q \in Process \ {p} : proc'[q] = proc[q]
        /\ proc'[p].at = "probe" /\ proc'[p].i = proc[p].i
        /\ proc'[p].state = health[t] /\ ~Observes(p, t) /\ Observes(p, t)'
    BY <1>0, <1>2 DEF Begin, Becomes, RecoveryInv, TypeOK, Work, ReadState, Observes,
                      Observing, At
  <2>2. /\ health' = health /\ rebuilt' = rebuilt /\ failedRow' = failedRow
    BY <1>2 DEF Begin, files, ghosts
  <2>3. \A q \in Process \ {p} : Observes(q, t)' = Observes(q, t)
    BY <2>1 DEF Observes, Observing, At
  <2>4. RebuildsCounted(t)'
    BY <1>1, <2>1, <2>2, <2>3 DEF RebuildsCounted
  <2>5. Probing(t)' = Probing(t) \cup {p}
    BY <2>1, <2>3 DEF Probing
  <2>6. ASSUME Probing(t)' = {p} PROVE Pending(p)' <= failedRow'[t]
    <3>1. Probing(t) = {}
      BY <2>1, <2>5, <2>6 DEF Probing
    <3>2. QED
      BY <1>1, <2>1, <2>2, <3>1 DEF StreakCounted, Pending
  <2>7. QED
    BY <2>4, <2>5, <2>6 DEF StreakCounted
<1>3. CASE Probe(p)
  <2> DEFINE c == CountFailure(p, proc[p].state).failures
  <2>1. /\ \A q \in Process \ {p} : proc'[q] = proc[q]
        /\ proc'[p] = [proc[p] EXCEPT !.at = "decide", !.ok = up[t]]
    BY <1>3 DEF Probe, Becomes, TypeOK, RecoveryInv
  <2>2. /\ proc[p].at = "probe" /\ proc'[p].at = "decide" /\ proc'[p].i = proc[p].i
        /\ proc'[p].state = proc[p].state /\ proc'[p].ok = up[t]
        /\ proc'[p].warm = proc[p].warm
    BY <1>0, <1>3, <2>1 DEF Probe, Work
  <2>3. health' = health /\ rebuilt' = rebuilt
    BY <1>3 DEF Probe, files
  <2>4. \A q \in Process : Observes(q, t)' = Observes(q, t)
    BY <2>1, <2>2 DEF Observes, Observing, At
  <2>5. RebuildsCounted(t)'
    BY <1>1, <2>1, <2>2, <2>3, <2>4 DEF RebuildsCounted
  <2>6. Probing(t)' = Probing(t) /\ p \in Probing(t)
    <3>1. \A q \in Process : (proc'[q].at # "recover") = (proc[q].at # "recover")
      BY <2>1, <2>2
    <3>2. Probing(t)' = Probing(t)
      BY <2>4, <3>1 DEF Probing
    <3>3. p \in Probing(t)
      BY <2>2 DEF Probing, Observes, Observing
    <3>4. QED
      BY <3>2, <3>3
  <2>7. ASSUME Probing(t)' = {p} PROVE Pending(p)' <= failedRow'[t]
    <3>1. proc[p].state.failures <= failedRow[t]
      BY <1>1, <2>2, <2>6, <2>7 DEF StreakCounted, Pending
    <3>2. /\ failedRow[t] \in 0 .. FailThreshold /\ proc[p].state.failures \in Nat
          /\ failedRow'[t] = IF up[t] THEN 0
                             ELSE IF proc[p].warm THEN failedRow[t]
                             ELSE Min({failedRow[t] + 1, FailThreshold})
      BY <1>0, <1>3 DEF Probe, TypeOK, Counts
    <3>3. Pending(p)' = IF up[t] THEN 0 ELSE c
      BY <2>2 DEF Pending, CountFailure
    <3>4. /\ proc[p].warm => c = proc[p].state.failures
          /\ ~proc[p].warm => c = Min({proc[p].state.failures + 1, FailThreshold})
      BY <1>0, CountsFailure
    <3> HIDE DEF c
    <3>5. CASE up[t]
      BY <3>2, <3>3, <3>5
    <3>6. CASE ~up[t] /\ proc[p].warm
      BY <3>1, <3>2, <3>3, <3>4, <3>6
    <3>7. CASE ~up[t] /\ ~proc[p].warm
      <4>1. Min({proc[p].state.failures + 1, FailThreshold})
              <= Min({failedRow[t] + 1, FailThreshold})
        BY <3>1, <3>2, MinPair, Numbers
      <4>2. QED
        BY <3>2, <3>3, <3>4, <3>7, <4>1
    <3>8. QED
      BY <3>5, <3>6, <3>7
  <2>8. QED
    BY <2>5, <2>6, <2>7 DEF StreakCounted
<1>4. CASE Recovers(p)
  <2> DEFINE s == CountFailure(p, proc[p].state)
  <2>1. s \in Counts /\ s.rebuilds = proc[p].state.rebuilds
    BY <1>0, CountsFailure
  <2>2. /\ \A q \in Process \ {p} : proc'[q] = proc[q]
        /\ proc'[p].at = "recover" /\ proc'[p].state = s /\ Saves(p, s)
    BY <1>0, <1>4, RestingWork DEF Recovers, Becomes, TypeOK, Work
  <2>3. rebuilt[t] <= proc[p].state.rebuilds
    BY <1>1, <1>4 DEF RebuildsCounted, Recovers, Observes, Observing
  <2>4. s.failures <= failedRow[t]
    BY <1>1, <1>4, <2>2, OnlyProber DEF Recovers, StreakCounted, Pending
  <2> HIDE DEF s
  <2>5. health'[t] = s /\ rebuilt' = rebuilt /\ failedRow' = failedRow
    BY <1>0, <1>4, <2>2 DEF Recovers, Saves, TypeOK
  <2>6. \A q \in Process \ {p} : ~Observes(q, t)'
    BY <2>2 DEF Saves, HeldElsewhere, Observes, Observing, At
  <2>7. Probing(t)' = {}
    BY <2>2, <2>6 DEF Probing
  <2>8. QED
    BY <2>1, <2>2, <2>3, <2>4, <2>5, <2>6, <2>7 DEF RebuildsCounted, StreakCounted
<1>5. QED
  BY <1>2, <1>3, <1>4

\* What is saved without an observation: by dt recover --now, and of rebuilds.
LEMMA OthersCount ==
    ASSUME RecoveryInv, NEW p \in Process, NEW t \in Tunnel \ lost', At(p) = t, t \notin lost,
           RestoresNow(p) \/ SeesWorking(p) \/ StartsRebuild(p)
    PROVE  RebuildsCounted(t)' /\ StreakCounted(t)'
<1> DEFINE s == health[t]
<1>0. TypeOK /\ s \in Counts /\ proc[p] \in Work /\ rebuilt[t] \in Nat /\ ReadState(t) = s
  BY DEF RecoveryInv, TypeOK, ReadState
<1>1. /\ RebuildsCounted(t) /\ StreakCounted(t) /\ rebuilt[t] <= s.rebuilds
      /\ Probing(t) = {} => s.failures <= failedRow[t]
  BY DEF RecoveryInv, RebuildsCounted, StreakCounted
<1>2. /\ \A q \in Process \ {p} : proc'[q] = proc[q]
      /\ ~Observes(p, t) /\ ~Observes(p, t)'
  BY <1>0, Forgets DEF TypeOK, RestoresNow, Resumed, SeesWorking, StartsRebuild, Observes,
                       Observing
<1>3. ASSUME NEW c \in Counts, Saves(p, c), rebuilt'[t] <= c.rebuilds,
             c.failures <= failedRow'[t]
      PROVE  RebuildsCounted(t)' /\ StreakCounted(t)'
  BY <1>0, <1>2, <1>3, SavedLast
<1> HIDE DEF s
<1>4. CASE RestoresNow(p)
  <2>1. Reset(s) \in Counts /\ Reset(s).failures = 0 /\ Reset(s).rebuilds = s.rebuilds
    BY <1>0, CountsReset
  <2>2. failedRow'[t] = 0 /\ rebuilt' = rebuilt
    BY <1>0, <1>4 DEF RestoresNow, Resumed, TypeOK
  <2>3. Saves(p, Reset(s))
    BY <1>0, <1>4 DEF RestoresNow
  <2>4. QED
    BY <1>0, <1>1, <1>3, <2>1, <2>2, <2>3
<1>5. CASE SeesWorking(p)
  <2> DEFINE c == [s EXCEPT !.rebuilds = 0, !.rebuildRetry = -MaxAge]
  <2>1. 0 \in 0 .. MaxRebuilds /\ -MaxAge \in Int
    BY Numbers
  <2>2. c \in Counts /\ c.failures = s.failures /\ c.rebuilds = 0
    <3>1. c \in Counts
      BY <1>0, <2>1, CountsRebuild, Zenon
    <3>2. c.failures = s.failures /\ c.rebuilds = 0
      BY <1>0 DEF Counts
    <3>3. QED
      BY <3>1, <3>2
  <2> HIDE DEF c
  <2>3. failedRow' = failedRow /\ rebuilt'[t] = 0
    BY <1>0, <1>5 DEF SeesWorking, TypeOK
  <2>4. CASE s.rebuilds > 0
    <3>1. Saves(p, c)
      BY <1>0, <1>5, <2>4 DEF SeesWorking, c
    <3>2. Probing(t) = {}
      BY <1>5, <3>1, OnlyProber DEF SeesWorking
    <3>3. QED
      BY <1>1, <1>3, <2>2, <2>3, <3>1, <3>2
  <2>5. CASE ~(s.rebuilds > 0)
    <3>1. health' = health
      BY <1>0, <1>5, <2>5 DEF SeesWorking, files
    <3>2. QED
      BY <1>0, <1>1, <1>2, <2>3, <3>1, CountsKept
  <2>6. QED
    BY <2>4, <2>5
<1>6. CASE StartsRebuild(p)
  <2> DEFINE w == RebuildBackoff[Min({s.rebuilds + 1, Len(RebuildBackoff)})]
             c == [s EXCEPT !.rebuilds = s.rebuilds + 1, !.rebuildRetry = w]
  <2>1. s.rebuilds \in 0 .. MaxRebuilds /\ s.rebuilds < MaxRebuilds
    BY <1>0, <1>6 DEF StartsRebuild, Rebuilds, Counts
  <2>2. s.rebuilds + 1 \in Nat \ {0} /\ s.rebuilds + 1 \in 0 .. MaxRebuilds
    BY <2>1, Numbers
  <2>3. w \in Int
    <3>1. w \in Nat
      BY <2>2, WaitTimes, Zenon
    <3>2. QED
      BY <3>1
  <2>4. c \in Counts /\ c.failures = s.failures /\ c.rebuilds = s.rebuilds + 1
    <3>1. c \in Counts
      BY <1>0, <2>2, <2>3, CountsRebuild, Zenon
    <3> HIDE DEF w
    <3>2. c.failures = s.failures /\ c.rebuilds = s.rebuilds + 1
      BY <1>0 DEF Counts
    <3>3. QED
      BY <3>1, <3>2
  <2>5. Saves(p, c)
    BY <1>0, <1>6, Zenon DEF StartsRebuild
  <2> HIDE DEF c
  <2>6. failedRow' = failedRow /\ rebuilt'[t] = Min({rebuilt[t] + 1, MaxRebuilds + 1})
    BY <1>0, <1>6 DEF StartsRebuild, TypeOK
  <2>7. rebuilt'[t] <= s.rebuilds + 1
    <3>1. rebuilt[t] + 1 \in Int /\ MaxRebuilds + 1 \in Int
      BY <1>0, Numbers
    <3>2. rebuilt'[t] = IF rebuilt[t] + 1 <= MaxRebuilds + 1
                        THEN rebuilt[t] + 1 ELSE MaxRebuilds + 1
      BY <2>6, <3>1, MinPair, Zenon
    <3>3. QED
      BY <1>0, <1>1, <2>1, <3>2, Numbers
  <2>8. Probing(t) = {}
    BY <1>6, <2>5, OnlyProber DEF StartsRebuild
  <2>9. QED
    BY <1>1, <1>3, <2>4, <2>5, <2>6, <2>7, <2>8
<1>7. QED
  BY <1>4, <1>5, <1>6

\* A process leaves without saving: one that the Hub refused the resume, or
\* one that observes nothing.
LEMMA OthersKeep ==
    ASSUME RecoveryInv, NEW p \in Process, NEW t \in Tunnel \ lost', At(p) = t, t \notin lost,
           \/ IsRefused(p) \/ Crash(p) \/ Pass(p) \/ GivesUp(p) \/ LeavesBullet(p)
           \/ EndsRebuild(p) \/ NextTunnel(p) \/ StartTick(p) \/ Asks(p)
    PROVE  RebuildsCounted(t)' /\ StreakCounted(t)'
<1>0. TypeOK /\ RebuildsCounted(t) /\ StreakCounted(t) /\ torn \subseteq lost
  BY DEF RecoveryInv
<1>1. health' = health /\ failedRow' = failedRow /\ rebuilt' = rebuilt
  BY DEF IsRefused, Crash, Pass, GivesUp, LeavesBullet, EndsRebuild, NextTunnel, StartTick,
         Asks, files, ghosts
<1>2. CASE ~IsRefused(p)
  <2>1. \A q \in Process \ {p} : proc'[q] = proc[q]
    BY <1>0, OwnTunnel DEF Step
  <2>2. ~Observes(p, t)
    BY <1>2 DEF Crash, Pass, GivesUp, LeavesBullet, EndsRebuild, NextTunnel, StartTick, Asks,
                Observes, Observing
  <2>3. ~Observes(p, t)'
    <3>1. CASE Crash(p) \/ Pass(p) \/ GivesUp(p) \/ LeavesBullet(p) \/ EndsRebuild(p)
      BY <1>0, <3>1, Forgets DEF Crash, Pass, GivesUp, LeavesBullet, EndsRebuild, Observes,
                                 Observing, TypeOK
    <3>2. CASE NextTunnel(p)
      <4>1. \A i : [Resting EXCEPT !.at = "load", !.i = i].at = "load"
        BY RestingWork DEF Work
      <4>2. \E w : Becomes(p, w) /\ ~(w.at \in {"probe", "decide", "recover"})
        BY <3>2, <4>1, RestingWork DEF NextTunnel
      <4>3. QED
        BY <1>0, <4>2 DEF Becomes, Observes, Observing, TypeOK
    <3>3. CASE StartTick(p)
      BY <1>0, <3>3, RestingWork DEF StartTick, Becomes, Observes, Observing, TypeOK, Work
    <3>4. CASE Asks(p)
      <4>1. PICK i \in DOMAIN Order, step \in {"load", "now"} :
                Becomes(p, [Resting EXCEPT !.at = step, !.i = i])
        BY <3>4, Zenon DEF Asks
      <4>2. [Resting EXCEPT !.at = step, !.i = i].at = step
        BY RestingWork DEF Work
      <4>3. QED
        BY <1>0, <4>1, <4>2 DEF Becomes, Observes, Observing, TypeOK
    <3>5. QED
      BY <1>2, <3>1, <3>2, <3>3, <3>4
  <2>4. QED
    BY <1>0, <1>1, <2>1, <2>2, <2>3, CountsKept
<1>3. CASE IsRefused(p)
  <2>1. /\ \A q \in Process \ {p} : proc'[q] = proc[q]
        /\ ~Observes(p, t)' /\ proc[p].at = "recover"
    BY <1>0, <1>3, Forgets DEF IsRefused, Observes, Observing, TypeOK
  <2>2. \A q \in Process \ {p} : Observes(q, t)' = Observes(q, t)
    BY <2>1 DEF Observes, Observing, At
  <2>3. RebuildsCounted(t)'
    BY <1>0, <1>1, <2>1, <2>2 DEF RebuildsCounted
  <2>4. Probing(t)' = Probing(t) /\ p \notin Probing(t)
    BY <2>1, <2>2 DEF Probing
  <2>5. \A q \in Probing(t) : q \in Process /\ Pending(q)' = Pending(q)
    <3>1. ASSUME NEW q \in Probing(t) PROVE q \in Process /\ proc'[q] = proc[q]
      BY <2>1, <2>4 DEF Probing
    <3>2. QED
      BY <3>1 DEF Pending, CountFailure
  <2>6. QED
    BY <1>0, <1>1, <2>1, <2>2, <2>3, <2>4, <2>5 DEF StreakCounted
<1>4. QED
  BY <1>2, <1>3

LEMMA RecoveryStep ==
    ASSUME RecoveryInv, [Next]_vars
    PROVE  RecoveryInv'
<1>0. /\ TypeOK /\ torn \subseteq lost /\ TypeOK'
      /\ \A t \in Tunnel \ lost : RebuildsCounted(t) /\ StreakCounted(t)
  BY RecoveryTypes DEF RecoveryInv
<1>1. ASSUME NEW p \in Process, Step(p) \/ StartTick(p) \/ Asks(p) \/ Crash(p)
      PROVE  RecoveryInv'
  <2>1. At(p) \in Tunnel
    BY <1>0, AtTunnel DEF TypeOK
  <2> DEFINE Own(t) ==
          /\ lost \subseteq lost' /\ torn' \subseteq lost'
          /\ \A u \in Tunnel \ {t} : /\ health'[u] = health[u]
                                     /\ failedRow'[u] = failedRow[u]
                                     /\ rebuilt'[u] = rebuilt[u]
          /\ \A q \in Process \ {p} : proc'[q] = proc[q]
          /\ \A u \in Tunnel \ {t} : ~Observes(p, u)'
  <2>2. PICK t \in Tunnel : At(p) = t /\ Own(t)
    BY <1>0, <1>1, <2>1, OwnTunnel
  <2>3. ASSUME NEW u \in Tunnel \ lost', u # t
        PROVE  RebuildsCounted(u)' /\ StreakCounted(u)'
    <3>1. ~Observes(p, u)
      BY <2>2, <2>3 DEF Observes
    <3>2. QED
      BY <1>0, <2>2, <2>3, <3>1, CountsKept
  <2>4. ASSUME t \notin lost' PROVE RebuildsCounted(t)' /\ StreakCounted(t)'
    <3>1. t \in Tunnel \ lost' /\ t \notin lost
      BY <2>2, <2>4
    <3>2. QED
      BY <1>1, <2>2, <3>1, ObserverCounts, ObserverGoesOn, OthersCount, OthersKeep, Zenon
         DEF Step
  <2>5. QED
    BY <1>0, <2>2, <2>3, <2>4 DEF RecoveryInv
<1>2. ASSUME UNCHANGED <<health, torn, lost, failedRow, rebuilt, proc>>
      PROVE  RecoveryInv'
  BY <1>0, <1>2, CountsKept DEF RecoveryInv
<1>3. CASE Minute
  <2>1. UNCHANGED <<torn, lost, failedRow, rebuilt>>
    BY <1>3 DEF Minute
  <2>2. ASSUME NEW s \in Counts
        PROVE  Later(s).rebuilds = s.rebuilds /\ Later(s).failures = s.failures
    BY DEF Later, Counts
  <2>3. ASSUME NEW q \in Process
        PROVE  /\ proc'[q].at = proc[q].at /\ proc'[q].i = proc[q].i
               /\ proc'[q].warm = proc[q].warm /\ proc'[q].ok = proc[q].ok
               /\ proc'[q].state.rebuilds = proc[q].state.rebuilds
               /\ proc'[q].state.failures = proc[q].state.failures
    BY <1>0, <1>3, <2>2 DEF Minute, TypeOK, Work
  <2>4. ASSUME NEW t \in Tunnel
        PROVE  health'[t].rebuilds = health[t].rebuilds /\ health'[t].failures = health[t].failures
    BY <1>0, <1>3, <2>2 DEF Minute, TypeOK
  <2>5. ASSUME NEW t \in Tunnel \ lost PROVE RebuildsCounted(t)' /\ StreakCounted(t)'
    <3>1. \A q \in Process : Observes(q, t)' = Observes(q, t)
      BY <2>3 DEF Observes, Observing, At
    <3>2. Probing(t)' = Probing(t)
      BY <2>3, <3>1 DEF Probing
    <3>3. ASSUME NEW q \in Process PROVE Pending(q)' = Pending(q)
      <4>1. proc'[q].state \in Counts /\ proc[q].state \in Counts
        BY <1>0 DEF TypeOK, Work
      <4>2. CountFailure(q, proc[q].state)'.failures = CountFailure(q, proc[q].state).failures
        BY <2>3, <4>1 DEF CountFailure, Counts
      <4>3. QED
        BY <2>3, <4>2 DEF Pending
    <3>4. RebuildsCounted(t)'
      BY <1>0, <2>1, <2>3, <2>4, <3>1 DEF RebuildsCounted
    <3>5. StreakCounted(t)'
      BY <1>0, <2>1, <2>3, <2>4, <3>1, <3>2, <3>3 DEF StreakCounted
    <3>6. QED
      BY <3>4, <3>5
  <2>6. QED
    BY <1>0, <2>1, <2>5 DEF RecoveryInv
<1>4. QED
  BY <1>1, <1>2, <1>3, Zenon
     DEF Next, vars, files, ghosts, SetEnabled, World

-----------------------------------------------------------------------------
(* Theorems about the automatic recovery. *)

\* A bullet that is never seen to work is rebuilt at most MaxRebuilds times,
\* unless counts were lost: for every number of ticks and other observers that
\* overlap, of tunnels, and of crashes (recovery.py: auto_rebuild_if_stalled).
THEOREM RebuildsAlwaysFew == Spec => []RebuildsAreFew
<1>1. Init => RecoveryInv
  BY RecoveryInit
<1>2. RecoveryInv /\ [Next]_vars => RecoveryInv'
  BY RecoveryStep
<1>3. RecoveryInv => RebuildsAreFew
  <2>1. ASSUME RecoveryInv, NEW t \in Tunnel \ lost PROVE rebuilt[t] <= MaxRebuilds
    <3>1. /\ rebuilt[t] \in Nat /\ health[t].rebuilds \in 0 .. MaxRebuilds
          /\ rebuilt[t] <= health[t].rebuilds
      BY <2>1 DEF RecoveryInv, TypeOK, Counts, RebuildsCounted
    <3>2. QED
      BY <3>1, Numbers
  <2>2. QED
    BY <2>1 DEF RebuildsAreFew
<1>4. QED
  BY <1>1, <1>2, <1>3, PTL DEF Spec

\* A tunnel is resumed without being asked only after FailThreshold probes in a
\* row have failed, unless counts were lost (recovery.py: observe).
THEOREM RecoveryFollowsStreak == Spec => RecoversAfterStreak
<1> DEFINE Streak == \A p \in Tick : proc[p].at = "decide" /\ proc'[p].at = "recover" =>
                        At(p) \in lost' \/ failedRow[At(p)] >= FailThreshold
<1>1. Init => RecoveryInv
  BY RecoveryInit
<1>2. RecoveryInv /\ [Next]_vars => RecoveryInv'
  BY RecoveryStep
<1>3. RecoveryInv /\ [Next]_vars => [Streak]_vars
  <2> SUFFICES ASSUME RecoveryInv, Next, NEW p \in Tick,
                      proc[p].at = "decide", proc'[p].at = "recover", At(p) \notin lost'
               PROVE  failedRow[At(p)] >= FailThreshold
    OBVIOUS
  <2> DEFINE s == CountFailure(p, proc[p].state)
  <2>0. /\ TypeOK /\ torn \subseteq lost /\ p \in Process /\ At(p) \in Tunnel
        /\ proc[p].state \in Counts /\ failedRow[At(p)] \in Nat
    BY AtTunnel DEF RecoveryInv, TypeOK, Process, Work
  <2>1. PICK q \in Process : Step(q) \/ StartTick(q) \/ Asks(q) \/ Crash(q)
    <3>1. ~Minute
      <4>1. ASSUME NEW w \in Work PROVE [w EXCEPT !.age = @ + 1, !.state = Later(@)].at = w.at
        BY DEF Work
      <4>2. Minute => proc'[p].at = proc[p].at
        BY <2>0, <4>1 DEF Minute, TypeOK
      <4>3. QED
        BY <4>2
    <3>2. \A t \in Tunnel : ~(SetEnabled(t) \/ World(t))
      BY DEF SetEnabled, World
    <3>3. QED
      BY <3>1, <3>2 DEF Next
  <2>2. q = p /\ lost \subseteq lost'
    <3>1. At(q) \in Tunnel
      BY <2>0, AtTunnel DEF TypeOK
    <3>2. /\ lost \subseteq lost'
          /\ \A r \in Process \ {q} : proc'[r] = proc[r]
      BY <2>0, <2>1, <3>1, OwnTunnel
    <3>3. QED
      BY <2>0, <3>2
  <2>3. Recovers(p)
    <3>1. CASE SeesHealthy(p) \/ SeesFailure(p) \/ Defers(p) \/ Crash(p)
      BY <2>0, <3>1, Forgets DEF SeesHealthy, SeesFailure, Defers, Crash, TypeOK
    <3>2. QED
      BY <2>1, <2>2, <3>1
         DEF Step, StartTick, Asks, Pass, Begin, Probe, Restores, RestoresNow, Fails, IsRefused,
             GivesUp, SeesWorking, LeavesBullet, StartsRebuild, EndsRebuild, NextTunnel
  <2>4. Saves(p, s) /\ ~(s.failures < FailThreshold) /\ ~proc[p].ok
    BY <2>3 DEF Recovers, Holds
  <2>5. Probing(At(p)) = {p}
    BY <2>0, <2>2, <2>4, OnlyProber
  <2>6. s.failures <= failedRow[At(p)]
    BY <2>0, <2>2, <2>4, <2>5 DEF RecoveryInv, StreakCounted, Pending
  <2>7. s.failures \in Nat
    BY <2>0, CountsFailure DEF Counts
  <2> HIDE DEF s
  <2>8. QED
    BY <2>0, <2>4, <2>6, <2>7, Numbers
<1>4. QED
  BY <1>1, <1>2, <1>3, PTL DEF Spec, RecoversAfterStreak

=============================================================================

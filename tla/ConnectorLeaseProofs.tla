------------------------ MODULE ConnectorLeaseProofs ------------------------
(* Theorems about the lease of the connectors.                               *)
EXTENDS ConnectorLease, TLAPS

\* Who is written in the lock holds a generation.
Numbered == lock.owner # None => lock.gen > 0

\* A connector runs with a generation.
Started == \A d \in Daemon : process[d].runs => process[d].gen > 0

TypeInv == TypeOK /\ Numbered /\ Started

\* Every generation that was written is known to the files: to the lock if it
\* has an owner, who is the only one with the newest, and else to the other file.
Remembered ==
    IF lock.owner = None
    THEN lock.gen = 0 /\ \A x \in granted : x[1] <= side
    ELSE /\ \A x \in granted : x[1] <= lock.gen
         /\ \A x \in granted : x[1] = lock.gen => x[2] = lock.owner

\* As long as no write was torn, the files agree.
Agreed == torn = 0 /\ lock.owner # None => side = lock.gen

\* What was handled was handled by a connector with a generation.
Handled == last = 0 \/ \E x \in granted : x[1] = last

Unique == \A x, y \in granted : x[1] = y[1] => x[2] = y[2]

FilesInv == Remembered /\ Agreed /\ Unique

LeaseInv == TypeInv /\ Handled /\ (torn <= 1 => FilesInv)

-----------------------------------------------------------------------------
(* The script at the Hub.                                                    *)

\* A claim is granted a generation that nobody else was granted.
LEMMA NextGenIsNat ==
    ASSUME TypeInv, NEW d \in Daemon
    PROVE  NextGen(d) \in Nat \ {0}
  <1>1. lock.gen \in Nat /\ side \in Nat
    BY DEF TypeInv, TypeOK
  <1>2. lock.owner = d => lock.gen > 0
    BY ConnectorLeaseAssumption DEF TypeInv, Numbered
  <1> QED BY <1>1, <1>2 DEF NextGen

LEMMA NextGenIsNew ==
    ASSUME TypeInv, FilesInv, NEW d \in Daemon
    PROVE  /\ \A x \in granted : x[1] <= NextGen(d)
           /\ \A x \in granted : x[1] = NextGen(d) => x[2] = d
  <1>1. \A x \in granted : x[1] \in Nat \ {0}
    BY DEF TypeInv, TypeOK
  <1>2. lock.gen \in Nat /\ side \in Nat
    BY DEF TypeInv, TypeOK
  <1>3. CASE lock.owner = None
    <2>1. /\ lock.gen = 0 /\ lock.owner # d
          /\ \A x \in granted : x[1] <= side
      BY <1>3, ConnectorLeaseAssumption DEF FilesInv, Remembered
    <2>2. NextGen(d) = side + 1
      BY <1>2, <1>3, <2>1 DEF NextGen
    <2> QED BY <1>1, <1>2, <2>1, <2>2
  <1>4. CASE lock.owner # None
    <2>1. /\ \A x \in granted : x[1] <= lock.gen
          /\ \A x \in granted : x[1] = lock.gen => x[2] = lock.owner
      BY <1>4 DEF FilesInv, Remembered
    <2>2. NextGen(d) = IF lock.owner = d THEN lock.gen ELSE lock.gen + 1
      BY <1>4 DEF NextGen
    <2> QED BY <1>1, <1>2, <2>1, <2>2
  <1> QED BY <1>3, <1>4

\* A written lock names the newest generation, and its owner alone.
LEMMA WritesLockInv ==
    ASSUME TypeInv, FilesInv, NEW d \in Daemon, WritesLock(d)
    PROVE  Remembered' /\ Unique'
  <1>1. /\ \A x \in granted : x[1] <= NextGen(d)
        /\ \A x \in granted : x[1] = NextGen(d) => x[2] = d
    BY NextGenIsNew
  <1>2. d # None
    BY ConnectorLeaseAssumption
  <1>3. /\ lock'.owner = d /\ lock'.gen = NextGen(d)
        /\ granted' = granted \cup {<<NextGen(d), d>>}
    BY DEF WritesLock
  <1>4. NextGen(d) \in Nat
    BY NextGenIsNat
  <1>5. Remembered'
    BY <1>1, <1>2, <1>3, <1>4 DEF Remembered
  <1>6. Unique'
    BY <1>1, <1>3 DEF Unique, FilesInv
  <1> QED BY <1>5, <1>6

LEMMA ClaimsInv ==
    ASSUME TypeInv, FilesInv, NEW d \in Daemon, Claims(d, NextGen(d)), UNCHANGED torn
    PROVE  FilesInv'
  <1>1. Remembered' /\ Unique'
    BY WritesLockInv DEF Claims
  <1>2. Agreed'
    BY DEF Claims, WritesLock, Agreed
  <1> QED BY <1>1, <1>2 DEF FilesInv

LEMMA ReleasesInv ==
    ASSUME TypeInv, FilesInv, NEW d \in Daemon, Releases(d), UNCHANGED torn
    PROVE  FilesInv'
  <1>1. CASE lock.owner = d
    <2>1. lock' = Free /\ side' = lock.gen /\ granted' = granted
      BY <1>1 DEF Releases
    <2>2. d # None
      BY ConnectorLeaseAssumption
    <2> QED
      BY <1>1, <2>1, <2>2 DEF FilesInv, Remembered, Agreed, Unique, Free
  <1>2. CASE lock.owner # d
    BY <1>2 DEF Releases, lease, FilesInv, Remembered, Agreed, Unique
  <1> QED BY <1>1, <1>2

\* One torn write leaves the newest generation in one of the files.
LEMMA TornInv ==
    ASSUME TypeInv, FilesInv, NEW d \in Daemon, Tears, torn' <= 1,
           TornClaim(d) \/ TornRelease(d)
    PROVE  FilesInv'
  <1>1. torn = 0 /\ torn' = 1
    BY DEF Tears, TypeInv, TypeOK
  <1>2. Agreed'
    BY <1>1 DEF Agreed
  <1>3. CASE WritesLock(d)
    BY <1>2, <1>3, WritesLockInv DEF FilesInv
  <1>4. CASE lock' = Free /\ UNCHANGED <<side, granted>>
    BY <1>1, <1>2, <1>4 DEF FilesInv, Remembered, Agreed, Unique, Free
  <1> QED BY <1>3, <1>4 DEF TornClaim, TornRelease

-----------------------------------------------------------------------------
(* What happens at the Hub, and to the requests.                             *)

HubTyped ==
    /\ lock \in [owner : Daemon \cup {None}, gen : Nat] /\ Numbered
    /\ side \in Nat /\ fresh \in BOOLEAN
    /\ late \in SUBSET ({"claim", "release"} \X Daemon)
    /\ granted \in SUBSET ((Nat \ {0}) \X Daemon)
    /\ troubles \in 0 .. MaxTroubles /\ torn \in 0 .. troubles

HubInv == HubTyped /\ (torn <= 1 => FilesInv)

DaemonTyped ==
    /\ up \in [Daemon -> {"up", "ending", "down"}]
    /\ answer \in [Daemon -> Nat \cup {None}]
    /\ process \in [Daemon -> [gen : Nat, runs : BOOLEAN]]
    /\ waits \in [Daemon -> BOOLEAN]
    /\ stray \in [Daemon -> SUBSET (Nat \ {0})]
    /\ Started

LEMMA Parts == LeaseInv <=> HubInv /\ DaemonTyped /\ last \in Nat /\ Handled
  BY DEF LeaseInv, TypeInv, TypeOK, HubInv, HubTyped, DaemonTyped

\* A step of the Hub keeps HubInv, and what was granted stays granted.
HubStep == HubInv' /\ granted \subseteq granted'

LEMMA CountsTyped ==
    ASSUME LeaseInv, Fault \/ Tears \/ UNCHANGED counts
    PROVE  troubles' \in 0 .. MaxTroubles /\ torn' \in 0 .. troubles'
  BY ConnectorLeaseAssumption
  DEF LeaseInv, TypeInv, TypeOK, Fault, Tears, Trouble, counts

LEMMA UnchangedStep ==
    ASSUME LeaseInv, UNCHANGED lease, Fault \/ UNCHANGED counts,
           late' \in SUBSET ({"claim", "release"} \X Daemon)
    PROVE  HubStep
  <1>1. torn' = torn
    BY DEF Fault, counts
  <1>2. UNCHANGED <<lock, side, fresh, granted>>
    BY DEF lease
  <1>3. FilesInv => FilesInv'
    BY <1>1, <1>2 DEF FilesInv, Remembered, Agreed, Unique
  <1>4. HubTyped'
    BY <1>2, CountsTyped DEF HubTyped, LeaseInv, TypeInv, TypeOK, Numbered
  <1> QED BY <1>1, <1>2, <1>3, <1>4 DEF HubStep, HubInv, LeaseInv

LEMMA WritesLockTypes ==
    ASSUME LeaseInv, NEW d \in Daemon, WritesLock(d)
    PROVE  /\ lock' \in [owner : Daemon \cup {None}, gen : Nat] /\ Numbered'
           /\ fresh' \in BOOLEAN
           /\ granted' \in SUBSET ((Nat \ {0}) \X Daemon)
           /\ granted \subseteq granted' /\ <<NextGen(d), d>> \in granted'
  <1>1. NextGen(d) \in Nat \ {0}
    BY NextGenIsNat DEF LeaseInv
  <1>2. granted \in SUBSET ((Nat \ {0}) \X Daemon)
    BY DEF LeaseInv, TypeInv, TypeOK
  <1> QED BY <1>1, <1>2 DEF WritesLock, Numbered

LEMMA ClaimsStep ==
    ASSUME LeaseInv, NEW d \in Daemon, Claims(d, NextGen(d)), UNCHANGED counts,
           late' \in SUBSET ({"claim", "release"} \X Daemon)
    PROVE  HubStep /\ <<NextGen(d), d>> \in granted'
  <1>1. WritesLock(d) /\ side' = NextGen(d) /\ NextGen(d) \in Nat
    BY NextGenIsNat DEF Claims, LeaseInv
  <1>2. HubTyped'
    BY <1>1, WritesLockTypes, CountsTyped DEF HubTyped
  <1>3. torn' = torn
    BY DEF counts
  <1>4. torn' <= 1 => FilesInv'
    BY <1>3, ClaimsInv DEF LeaseInv
  <1> QED BY <1>1, <1>2, <1>4, WritesLockTypes DEF HubStep, HubInv

LEMMA ReleasesStep ==
    ASSUME LeaseInv, NEW d \in Daemon, Releases(d), Fault \/ UNCHANGED counts,
           late' \in SUBSET ({"claim", "release"} \X Daemon)
    PROVE  HubStep
  <1>1. torn' = torn
    BY DEF Fault, counts
  <1>2. CASE lock.owner = d
    <2>1. lock' = Free /\ side' = lock.gen /\ fresh' = FALSE /\ granted' = granted
      BY <1>2 DEF Releases
    <2>2. HubTyped'
      BY <2>1, CountsTyped DEF HubTyped, LeaseInv, TypeInv, TypeOK, Numbered, Free
    <2>3. torn' <= 1 => FilesInv'
      BY <1>1, ReleasesInv DEF LeaseInv
    <2> QED BY <2>1, <2>2, <2>3 DEF HubStep, HubInv
  <1>3. CASE lock.owner # d
    BY <1>3, UnchangedStep DEF Releases
  <1> QED BY <1>2, <1>3

LEMMA TornStep ==
    ASSUME LeaseInv, NEW d \in Daemon, Tears, TornClaim(d) \/ TornRelease(d), late' = late
    PROVE  HubStep
  <1>1. late' \in SUBSET ({"claim", "release"} \X Daemon) /\ side' = side /\ side \in Nat
    BY DEF LeaseInv, TypeInv, TypeOK, TornClaim, TornRelease
  <1>2. torn' <= 1 => FilesInv'
    BY TornInv DEF LeaseInv, Tears, TypeInv, TypeOK
  <1>3. CASE WritesLock(d)
    <2>1. HubTyped'
      BY <1>1, <1>3, WritesLockTypes, CountsTyped DEF HubTyped
    <2> QED BY <1>2, <1>3, <2>1, WritesLockTypes DEF HubStep, HubInv
  <1>4. CASE lock' = Free /\ fresh' = FALSE /\ granted' = granted
    <2>1. HubTyped'
      BY <1>1, <1>4, CountsTyped DEF HubTyped, LeaseInv, TypeInv, TypeOK, Numbered, Free
    <2> QED BY <1>2, <1>4, <2>1 DEF HubStep, HubInv
  <1> QED BY <1>3, <1>4 DEF TornClaim, TornRelease

LEMMA LostStep ==
    ASSUME LeaseInv, NEW request \in {"claim", "release"} \X Daemon, Lost(request), Fault
    PROVE  HubStep
  <1>1. late' \in SUBSET ({"claim", "release"} \X Daemon)
    BY DEF Lost, LeaseInv, TypeInv, TypeOK
  <1> QED BY <1>1, UnchangedStep DEF Lost

LEMMA ClaimFailsStep ==
    ASSUME LeaseInv, NEW d \in Daemon, ClaimFails(d)
    PROVE  HubStep
  <1>1. late \in SUBSET ({"claim", "release"} \X Daemon)
    BY DEF LeaseInv, TypeInv, TypeOK
  <1>2. CASE UNCHANGED <<lease, late, counts>>
    BY <1>1, <1>2, UnchangedStep
  <1>3. CASE Fault /\ Lost(<<"claim", d>>)
    BY <1>3, LostStep
  <1>4. CASE Tears /\ TornClaim(d) /\ UNCHANGED late
    BY <1>4, TornStep
  <1> QED BY <1>2, <1>3, <1>4 DEF ClaimFails

LEMMA TriesReleaseStep ==
    ASSUME LeaseInv, NEW d \in Daemon, TriesRelease(d)
    PROVE  HubStep
  <1>1. late \in SUBSET ({"claim", "release"} \X Daemon)
    BY DEF LeaseInv, TypeInv, TypeOK
  <1>2. CASE Releases(d) /\ UNCHANGED <<late, counts>>
    BY <1>1, <1>2, ReleasesStep
  <1>3. CASE Fault /\ Lost(<<"release", d>>)
    BY <1>3, LostStep
  <1>4. CASE Tears /\ TornRelease(d) /\ UNCHANGED late
    BY <1>4, TornStep
  <1> QED BY <1>2, <1>3, <1>4 DEF TriesRelease

\* A late script is a claim or a release like any other.
LEMMA RunLateStep == LeaseInv /\ RunLate => HubStep /\ UNCHANGED <<up, manager, connectors, last>>
  <1> SUFFICES ASSUME LeaseInv, NEW d \in Daemon, NEW kind \in {"claim", "release"},
                      late' = late \ {<<kind, d>>}, UNCHANGED counts,
                      \/ UNCHANGED lease
                      \/ Claims(d, NextGen(d))
                      \/ Releases(d)
               PROVE  HubStep
    BY DEF RunLate
  <1>1. late' \in SUBSET ({"claim", "release"} \X Daemon)
    BY DEF LeaseInv, TypeInv, TypeOK
  <1> QED BY <1>1, UnchangedStep, ClaimsStep, ReleasesStep

\* A lease that grows old keeps owner and generation.
LEMMA ExpireStep ==
    ASSUME LeaseInv, fresh' = FALSE, UNCHANGED <<lock, side, granted, late>>, Fault \/ UNCHANGED counts
    PROVE  HubStep
  <1>1. torn' = torn
    BY DEF Fault, counts
  <1>2. FilesInv => FilesInv'
    BY <1>1 DEF FilesInv, Remembered, Agreed, Unique
  <1>3. HubTyped'
    BY CountsTyped DEF HubTyped, LeaseInv, TypeInv, TypeOK, Numbered
  <1> QED BY <1>1, <1>2, <1>3 DEF HubStep, HubInv, LeaseInv

-----------------------------------------------------------------------------
(* What happens to daemons and connectors.                                   *)

LEMMA TerminatesTypes ==
    ASSUME LeaseInv, NEW d \in Daemon, Terminates(d)
    PROVE  /\ process' \in [Daemon -> [gen : Nat, runs : BOOLEAN]] /\ Started'
           /\ stray' \in [Daemon -> SUBSET (Nat \ {0})]
  <1>1. /\ process \in [Daemon -> [gen : Nat, runs : BOOLEAN]] /\ Started
        /\ stray \in [Daemon -> SUBSET (Nat \ {0})]
    BY DEF LeaseInv, TypeInv, TypeOK
  <1>2. /\ process' \in [Daemon -> [gen : Nat, runs : BOOLEAN]]
        /\ Started'
    BY <1>1 DEF Terminates, NoProcess, Started
  <1>3. process[d].runs => process[d].gen \in Nat \ {0}
    BY <1>1 DEF Started
  <1>4. stray' \in [Daemon -> SUBSET (Nat \ {0})]
    BY <1>1, <1>3 DEF Terminates
  <1> QED BY <1>2, <1>4

LEMMA ExitsTypes ==
    ASSUME LeaseInv, NEW d \in Daemon, NEW g, Exits(d, g)
    PROVE  /\ process' \in [Daemon -> [gen : Nat, runs : BOOLEAN]] /\ Started'
           /\ stray' \in [Daemon -> SUBSET (Nat \ {0})]
  <1>1. /\ process \in [Daemon -> [gen : Nat, runs : BOOLEAN]] /\ Started
        /\ stray \in [Daemon -> SUBSET (Nat \ {0})]
    BY DEF LeaseInv, TypeInv, TypeOK
  <1>2. CASE process' = [process EXCEPT ![d].runs = FALSE] /\ UNCHANGED stray
    BY <1>1, <1>2 DEF Started
  <1>3. CASE stray' = [stray EXCEPT ![d] = @ \ {g}] /\ UNCHANGED process
    BY <1>1, <1>3 DEF Started
  <1> QED BY <1>2, <1>3 DEF Exits

\* What is handled stays handled, and what was granted granted.
LEMMA HandledStays == Handled /\ granted \subseteq granted' /\ last' = last => Handled'
  BY DEF Handled

\* What a step has to show if it handles no message.
LEMMA Silent ==
    ASSUME LeaseInv, HubStep, DaemonTyped', last' = last
    PROVE  LeaseInv'
  <1>1. last' \in Nat /\ Handled'
    BY HandledStays DEF LeaseInv, TypeInv, TypeOK, HubStep
  <1> QED BY <1>1 DEF LeaseInv, TypeInv, TypeOK, HubStep, HubInv, HubTyped, DaemonTyped

LEMMA ManagerInv ==
    ASSUME LeaseInv, NEW d \in Daemon,
           ManagerClaims(d) \/ ManagerActs(d) \/ BackoffEnds(d) \/ NotInstalled(d)
    PROVE  LeaseInv'
  <1>1. DaemonTyped /\ late \in SUBSET ({"claim", "release"} \X Daemon)
    BY Parts DEF HubInv, HubTyped
  <1>2. CASE ManagerClaims(d)
    <2>1. HubStep
      BY <1>1, <1>2, ClaimsStep, ClaimFailsStep DEF ManagerClaims
    <2>2. NextGen(d) \in Nat
      BY NextGenIsNat DEF LeaseInv
    <2>3. DaemonTyped' /\ last' = last
      BY <1>1, <1>2, <2>2 DEF ManagerClaims, DaemonTyped, Started, connectors
    <2> QED BY <2>1, <2>3, Silent
  <1>3. CASE ManagerActs(d)
    <2>1. HubStep
      BY <1>1, <1>3, UnchangedStep DEF ManagerActs
    <2>2. answer[d] \in Nat
      BY <1>1, <1>3 DEF ManagerActs, DaemonTyped
    <2>3. answer' \in [Daemon -> Nat \cup {None}]
      BY <1>1, <1>3 DEF ManagerActs, DaemonTyped
    <2>4. CASE Terminates(d) /\ waits' = [waits EXCEPT ![d] = FALSE]
      BY <1>1, <1>3, <2>1, <2>3, <2>4, TerminatesTypes, Silent DEF ManagerActs, DaemonTyped
    <2>5. CASE UNCHANGED <<waits, connectors>>
      BY <1>1, <1>3, <2>1, <2>3, <2>5, Silent DEF ManagerActs, DaemonTyped, Started, connectors
    <2>6. CASE /\ process' = [process EXCEPT ![d] = NoProcess]
               /\ waits' = [waits EXCEPT ![d] = TRUE] /\ UNCHANGED stray
      <3>1. process' \in [Daemon -> [gen : Nat, runs : BOOLEAN]] /\ Started'
        BY <1>1, <2>6 DEF DaemonTyped, Started, NoProcess
      <3> QED BY <1>1, <1>3, <2>1, <2>3, <2>6, <3>1, Silent DEF ManagerActs, DaemonTyped
    <2>7. CASE /\ answer[d] # 0
               /\ process' = [process EXCEPT ![d] = [gen |-> answer[d], runs |-> TRUE]]
               /\ UNCHANGED <<waits, stray>>
      <3>1. process' \in [Daemon -> [gen : Nat, runs : BOOLEAN]] /\ Started'
        BY <1>1, <2>2, <2>7 DEF DaemonTyped, Started
      <3> QED BY <1>1, <1>3, <2>1, <2>3, <2>7, <3>1, Silent DEF ManagerActs, DaemonTyped
    <2> QED BY <1>3, <2>4, <2>5, <2>6, <2>7 DEF ManagerActs
  <1>4. CASE BackoffEnds(d)
    <2>1. HubStep
      BY <1>1, <1>4, UnchangedStep DEF BackoffEnds
    <2> QED BY <1>1, <1>4, <2>1, Silent DEF BackoffEnds, DaemonTyped, Started, connectors
  <1>5. CASE NotInstalled(d)
    <2>1. HubStep
      BY <1>1, <1>5, ReleasesStep, LostStep DEF NotInstalled
    <2> QED BY <1>1, <1>5, <2>1, TerminatesTypes, Silent DEF NotInstalled, DaemonTyped
  <1> QED BY <1>2, <1>3, <1>4, <1>5

LEMMA ProcessInv ==
    ASSUME LeaseInv, NEW d \in Daemon,
           \/ \E g \in Generations(d) : ConnectorExits(d, g)
           \/ OrphanEnds(d) \/ DaemonStops(d) \/ DaemonEnds(d) \/ DaemonCrashes(d)
    PROVE  LeaseInv'
  <1>1. DaemonTyped /\ late \in SUBSET ({"claim", "release"} \X Daemon)
    BY Parts DEF HubInv, HubTyped
  <1>2. ASSUME NEW g \in Generations(d), ConnectorExits(d, g)
        PROVE  LeaseInv'
    <2>1. HubStep
      BY <1>1, <1>2, UnchangedStep DEF ConnectorExits
    <2> QED BY <1>1, <1>2, <2>1, ExitsTypes, Silent DEF ConnectorExits, DaemonTyped, manager
  <1>3. CASE OrphanEnds(d)
    <2>1. HubStep
      BY <1>1, <1>3, UnchangedStep DEF OrphanEnds
    <2> QED BY <1>1, <1>3, <2>1, Silent DEF OrphanEnds, DaemonTyped, Started, manager
  <1>4. CASE DaemonStops(d)
    <2>1. HubStep
      BY <1>4, TriesReleaseStep DEF DaemonStops
    <2> QED BY <1>1, <1>4, <2>1, TerminatesTypes, Silent DEF DaemonStops, DaemonTyped
  <1>5. CASE DaemonEnds(d)
    <2>1. HubStep
      BY <1>1, <1>5, UnchangedStep DEF DaemonEnds
    <2> QED BY <1>1, <1>5, <2>1, Silent DEF DaemonEnds, DaemonTyped, Started, manager, connectors
  <1>6. CASE DaemonCrashes(d)
    <2>1. HubStep
      BY <1>1, <1>6, UnchangedStep DEF DaemonCrashes
    <2>2. process' \in [Daemon -> [gen : Nat, runs : BOOLEAN]] /\ Started'
      BY <1>1, <1>6 DEF DaemonCrashes, DaemonTyped, Started, NoProcess
    <2>3. process[d].runs => process[d].gen \in Nat \ {0}
      BY <1>1 DEF DaemonTyped, Started
    <2>4. stray' \in [Daemon -> SUBSET (Nat \ {0})]
      BY <1>1, <1>6, <2>3 DEF DaemonCrashes, DaemonTyped
    <2>5. DaemonTyped' /\ last' = last
      BY <1>1, <1>6, <2>2, <2>4 DEF DaemonCrashes, DaemonTyped
    <2> QED BY <2>1, <2>5, Silent
  <1> QED BY <1>2, <1>3, <1>4, <1>5, <1>6

\* The message of a connector that passes is the newest generation's.
LEMMA MessageInv ==
    ASSUME LeaseInv, NEW d \in Daemon, NEW g, Message(d, g)
    PROVE  LeaseInv' /\ (torn <= 1 => last' >= last)
  <1>1. /\ DaemonTyped /\ late \in SUBSET ({"claim", "release"} \X Daemon)
        /\ last \in Nat /\ Handled
    BY Parts DEF HubInv, HubTyped
  <1>2. CASE Claims(d, NextGen(d)) /\ UNCHANGED <<late, counts>> /\ last' = NextGen(d) /\ UNCHANGED connectors
    <2>1. HubStep /\ <<NextGen(d), d>> \in granted'
      BY <1>1, <1>2, ClaimsStep
    <2>2. NextGen(d) \in Nat \ {0}
      BY NextGenIsNat DEF LeaseInv
    <2>3. last' \in Nat /\ Handled'
      BY <1>2, <2>1, <2>2 DEF Handled
    <2>4. DaemonTyped'
      BY <1>1, <1>2 DEF Message, DaemonTyped, Started, connectors, manager
    <2>5. LeaseInv'
      BY <2>1, <2>3, <2>4
      DEF LeaseInv, TypeInv, TypeOK, HubStep, HubInv, HubTyped, DaemonTyped
    <2>6. torn <= 1 => last <= NextGen(d)
      BY <1>1, <2>2, NextGenIsNew DEF LeaseInv, Handled
    <2> QED BY <1>1, <1>2, <2>2, <2>5, <2>6
  <1>3. CASE Claims(d, NextGen(d)) /\ UNCHANGED <<late, counts>> /\ Exits(d, g) /\ UNCHANGED last
    <2>1. HubStep
      BY <1>1, <1>3, ClaimsStep
    <2> QED BY <1>1, <1>3, <2>1, ExitsTypes, Silent DEF Message, DaemonTyped, manager
  <1>4. CASE ClaimFails(d) /\ Exits(d, g) /\ UNCHANGED last
    <2>1. HubStep
      BY <1>4, ClaimFailsStep
    <2> QED BY <1>1, <1>4, <2>1, ExitsTypes, Silent DEF Message, DaemonTyped, manager
  <1> QED BY <1>2, <1>3, <1>4 DEF Message, FenceValid

-----------------------------------------------------------------------------
LEMMA LeaseInvInit == Init => LeaseInv
  <1> SUFFICES ASSUME Init PROVE LeaseInv
    OBVIOUS
  <1>1. HubInv
    <2>1. HubTyped
      <3>1. fresh \in BOOLEAN
        BY Zenon DEF Init
      <3>2. /\ lock \in [owner : Daemon \cup {None}, gen : Nat] /\ Numbered
            /\ late \in SUBSET ({"claim", "release"} \X Daemon)
            /\ granted \in SUBSET ((Nat \ {0}) \X Daemon)
        BY DEF Init, Numbered, Free
      <3>3. side \in Nat /\ troubles \in 0 .. MaxTroubles /\ torn \in 0 .. troubles
        BY ConnectorLeaseAssumption DEF Init
      <3> QED BY <3>1, <3>2, <3>3 DEF HubTyped
    <2>2. FilesInv
      BY DEF Init, FilesInv, Remembered, Agreed, Unique, Free
    <2> QED BY <2>1, <2>2 DEF HubInv
  <1>2. DaemonTyped /\ last \in Nat /\ Handled
    BY DEF Init, DaemonTyped, Started, NoProcess, Handled
  <1> QED BY <1>1, <1>2, Parts

LEMMA LeaseInvNext == LeaseInv /\ [Next]_vars => LeaseInv' /\ (torn <= 1 => last' >= last)
  <1> SUFFICES ASSUME LeaseInv, [Next]_vars
               PROVE  LeaseInv' /\ (torn <= 1 => last' >= last)
    OBVIOUS
  <1>1. DaemonTyped /\ last \in Nat /\ late \in SUBSET ({"claim", "release"} \X Daemon)
    BY Parts DEF HubInv, HubTyped
  <1>2. CASE RunLate
    <2>1. DaemonTyped' /\ last' = last
      BY <1>1, <1>2, RunLateStep DEF DaemonTyped, Started, manager, connectors
    <2> QED BY <1>1, <1>2, <2>1, RunLateStep, Silent
  <1>3. CASE ExpireAbandoned \/ Expire
    <2>1. DaemonTyped' /\ last' = last
      BY <1>1, <1>3 DEF ExpireAbandoned, Expire, DaemonTyped, Started, manager, connectors
    <2>2. HubStep
      BY <1>3, ExpireStep DEF ExpireAbandoned, Expire
    <2> QED BY <1>1, <2>1, <2>2, Silent
  <1>4. CASE Messages
    BY <1>4, MessageInv DEF Messages
  <1>5. ASSUME NEW d \in Daemon,
               ManagerClaims(d) \/ ManagerActs(d) \/ BackoffEnds(d) \/ NotInstalled(d)
        PROVE  LeaseInv' /\ last' = last
    BY <1>5, ManagerInv DEF ManagerClaims, ManagerActs, BackoffEnds, NotInstalled
  <1>6. ASSUME NEW d \in Daemon,
               \/ \E g \in Generations(d) : ConnectorExits(d, g)
               \/ OrphanEnds(d) \/ DaemonStops(d) \/ DaemonEnds(d) \/ DaemonCrashes(d)
        PROVE  LeaseInv' /\ last' = last
    BY <1>6, ProcessInv DEF ConnectorExits, OrphanEnds, DaemonStops, DaemonEnds, DaemonCrashes
  <1>7. CASE UNCHANGED vars
    <2>1. HubStep
      BY <1>1, <1>7, UnchangedStep DEF vars
    <2>2. DaemonTyped' /\ last' = last
      BY <1>1, <1>7 DEF vars, DaemonTyped, Started, manager, connectors
    <2> QED BY <1>1, <2>1, <2>2, Silent
  <1> QED BY <1>1, <1>2, <1>3, <1>4, <1>5, <1>6, <1>7 DEF Next

LEMMA LeaseInvAlways == Spec => []LeaseInv
  BY LeaseInvInit, LeaseInvNext, PTL DEF Spec

\* Every reachable state is well typed.
THEOREM TypeCorrect == Spec => []TypeOK
  <1>1. LeaseInv => TypeOK
    BY DEF LeaseInv, TypeInv
  <1> QED BY <1>1, LeaseInvAlways, PTL

\* A generation of the connectors' lease names one daemon, whatever daemons
\* there are, release, crash and come late, with one torn write (hub.py).
THEOREM GenerationNamesDaemon == Spec => []GenerationsUnique
  <1>1. LeaseInv => GenerationsUnique
    BY DEF LeaseInv, FilesInv, Unique, GenerationsUnique
  <1> QED BY <1>1, LeaseInvAlways, PTL

\* Connectors of an older generation handle nothing once a newer one has,
\* supervised or not (daemon.py, connector_fence_valid).
THEOREM OlderConnectorsSilent == Spec => HandledInOrder
  <1>1. LeaseInv /\ [Next]_vars => [torn <= 1 => last' >= last]_vars
    BY LeaseInvNext
  <1> QED BY <1>1, LeaseInvAlways, PTL DEF Spec, HandledInOrder
=============================================================================

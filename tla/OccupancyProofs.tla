--------------------------- MODULE OccupancyProofs ---------------------------
(***************************************************************************)
(* Proofs about Occupancy, for every set of Clients and processes, every   *)
(* choice of faults and every bound.                                       *)
(***************************************************************************)
EXTENDS Occupancy, TLAPS

LEMMA TypeInit == Init => TypeOK
<1>. SUFFICES ASSUME Init PROVE TypeOK
    OBVIOUS
<1>. USE OccupancyAssumption DEF OccupancyAssumption, Init
<1>1. occ \in Client \cup {NoOne} /\ hubUp \in BOOLEAN /\ torn \in BOOLEAN
    OBVIOUS
<1>2. lock \in [holder : Client \cup {NoOne}, gen : 0 .. MaxGen]
    BY DEF NoLock
<1>3. token \in [Proc -> Token]
    BY DEF Token, NoToken
<1>4. pc \in [Proc -> Stage]
    BY DEF Stage
<1>5. /\ saved \in [Client -> 0 .. MaxGen]
      /\ known \in [Client -> BOOLEAN]
      /\ live \in [Client -> BOOLEAN]
      /\ running \in [Client -> SUBSET Watcher]
      /\ verdict \in [Client -> SUBSET Watcher]
    OBVIOUS
<1>6. epoch \in 0 .. MaxEpoch
    OBVIOUS
<1>7. /\ late \in SUBSET (Client \X {"claim", "release", "delete"})
      /\ granted \in SUBSET ((0 .. MaxEpoch) \X (1 .. MaxGen) \X Client)
    OBVIOUS
<1>. QED
    BY <1>1, <1>2, <1>3, <1>4, <1>5, <1>6, <1>7 DEF TypeOK

\* What the Hub's script writes has the right type.
LEMMA HubClaimType ==
    ASSUME TypeOK, NEW c \in Client, HubClaim(c)
    PROVE  /\ occ' \in Client \cup {NoOne}
           /\ lock' \in [holder : Client \cup {NoOne}, gen : 0 .. MaxGen]
           /\ epoch' \in 0 .. MaxEpoch
           /\ granted' \in SUBSET ((0 .. MaxEpoch) \X (1 .. MaxGen) \X Client)
           /\ torn' \in BOOLEAN
           /\ NextGen(c) \in 1 .. MaxGen
<1>1. NextGen(c) \in 1 .. MaxGen
    BY OccupancyAssumption DEF OccupancyAssumption, TypeOK, HubClaim, NextGen
<1>. QED
    BY <1>1, OccupancyAssumption DEF OccupancyAssumption, TypeOK, HubClaim

LEMMA EmptyLockType ==
    ASSUME TypeOK, EmptyLock
    PROVE  /\ lock' \in [holder : Client \cup {NoOne}, gen : 0 .. MaxGen]
           /\ epoch' \in 0 .. MaxEpoch
BY OccupancyAssumption DEF OccupancyAssumption, TypeOK, EmptyLock, NoLock

LEMMA SupersededType ==
    ASSUME TypeOK, NEW c \in Client
    PROVE  Superseded(c) \in [Proc -> Token]
<1>. SUFFICES ASSUME NEW q \in Proc PROVE Superseded(c)[q] \in Token
    BY DEF Superseded
<1>1. token[q] \in Token
    BY DEF TypeOK
<1>2. [token[q] EXCEPT !.crossed = token[q].gen > 0] \in Token
  <2>1. (token[q].gen > 0) \in BOOLEAN
    OBVIOUS
  <2>2. \A x \in BOOLEAN : [token[q] EXCEPT !.crossed = x] \in Token
    BY <1>1 DEF Token
  <2>. QED
    BY <2>1, <2>2
<1>. QED
    BY <1>1, <1>2 DEF Superseded

LEMMA ClaimType ==
    ASSUME TypeOK, NEW p \in Proc, Claim(p)
    PROVE  token' \in [Proc -> Token] /\ HubClaim(Host[p]) /\ Host[p] \in Client
<1>1. HubClaim(Host[p]) /\ Host[p] \in Client
    BY OccupancyAssumption DEF OccupancyAssumption, Claim
<1>2. Superseded(Host[p]) \in [Proc -> Token]
    BY <1>1, SupersededType
<1>3. [epoch |-> epoch, gen |-> NextGen(Host[p]), crossed |-> FALSE] \in Token
    BY <1>1, HubClaimType, OccupancyAssumption DEF OccupancyAssumption, Token, TypeOK
<1>. QED
    BY <1>1, <1>2, <1>3 DEF Claim

LEMMA EndType ==
    ASSUME TypeOK, NEW p \in Proc, End(p)
    PROVE  pc' \in [Proc -> Stage] /\ token' \in [Proc -> Token]
<1>1. NoToken \in Token
    BY OccupancyAssumption DEF OccupancyAssumption, NoToken, Token
<1>. QED
    BY <1>1 DEF End, Goto, TypeOK, Stage

LEMMA TypeStep == ASSUME TypeOK, Next PROVE TypeOK'
<1>. USE OccupancyAssumption DEF OccupancyAssumption, hub, local, watch
<1>0. ASSUME NEW p \in Proc PROVE Host[p] \in Client
    OBVIOUS
<1>1. ASSUME NEW p \in Proc, Resume(p) PROVE TypeOK'
  <2>1. CASE BeginResume(p)
    BY <2>1 DEF BeginResume, Goto, TypeOK, Stage
  <2>2. CASE AcquireForResume(p)
    <3>1. Claim(p)
      BY <2>2 DEF AcquireForResume
    <3>. QED
      BY <2>2, <3>1, ClaimType, HubClaimType DEF AcquireForResume, Goto, TypeOK, Stage
  <2>3. CASE GenerationCheck(p)
    <3>1. NextStage[pc[p]] \in Stage
      BY <2>3 DEF GenerationCheck, NextStage, Stage
    <3>. QED
      BY <3>1, <2>3 DEF GenerationCheck, Goto, TypeOK
  <2>4. CASE ReplaceNative(p)
    BY <2>4 DEF ReplaceNative, Goto, TypeOK, Stage
  <2>5. CASE SkipImport(p)
    BY <2>5 DEF SkipImport, Goto, TypeOK, Stage
  <2>6. CASE StartSides(p)
    BY <2>6 DEF StartSides, Goto, TypeOK, Stage
  <2>7. CASE VerifyResume(p)
    BY <2>7 DEF VerifyResume, Goto, TypeOK, Stage
  <2>8. CASE SaveResume(p)
    <3>1. token[p].gen \in 0 .. MaxGen
      BY DEF TypeOK, Token
    <3>. QED
      BY <2>8, <3>1, EndType DEF SaveResume, TypeOK
  <2>. QED
    BY <1>1, <2>1, <2>2, <2>3, <2>4, <2>5, <2>6, <2>7, <2>8 DEF Resume
<1>2. ASSUME NEW p \in Proc, RequireActive(p) PROVE TypeOK'
  <2>1. Claim(p)
    BY <1>2 DEF RequireActive
  <2>. QED
    BY <1>2, <2>1, ClaimType, HubClaimType DEF RequireActive, Goto, TypeOK, Stage
<1>3. ASSUME NEW p \in Proc, Act(p) PROVE TypeOK'
    BY <1>3, EndType DEF Act, TypeOK
<1>4. ASSUME NEW p \in Proc, Leave(p) PROVE TypeOK'
  <2>1. CASE DropLocal(p)
    BY <2>1 DEF DropLocal, Goto, TypeOK, Stage
  <2>2. CASE ReleaseDropped(p)
    BY <2>2, EndType, EmptyLockType DEF ReleaseDropped, HubRelease, TypeOK
  <2>3. CASE ReleaseRemoved(p)
    BY <2>3, EmptyLockType DEF ReleaseRemoved, HubRelease, Goto, TypeOK, Stage
  <2>4. CASE RemoveLocal(p)
    BY <2>4 DEF RemoveLocal, Goto, TypeOK, Stage
  <2>5. CASE RemoveRemote(p)
    BY <2>5, EndType, EmptyLockType DEF RemoveRemote, HubDelete, TypeOK
  <2>. QED
    BY <1>4, <2>1, <2>2, <2>3, <2>4, <2>5 DEF Leave
<1>5. ASSUME NEW p \in Proc, Broken(p) PROVE TypeOK'
  <2>1. CASE GiveUp(p)
    BY <2>1, EndType DEF GiveUp, TypeOK
  <2>2. CASE RequestTimeout(p)
    <3>1. Request(p) \subseteq {"claim", "release", "delete"}
      BY DEF Request
    <3>. QED
      BY <1>0, <2>2, <3>1, EndType DEF RequestTimeout, TypeOK
  <2>3. CASE TornClaim(p)
    BY <1>0, <2>3, EndType, EmptyLockType DEF TornClaim, TypeOK
  <2>4. CASE TornRelease(p)
    BY <2>4, EndType DEF TornRelease, Goto, TypeOK, Stage
  <2>. QED
    BY <1>5, <2>1, <2>2, <2>3, <2>4 DEF Broken
<1>6. ASSUME NEW c \in Client, Watch(c) PROVE TypeOK'
  <2>1. ASSUME NEW w \in Watcher, ReadForeign(c, w) PROVE TypeOK'
    BY <2>1 DEF ReadForeign, TypeOK
  <2>2. ASSUME NEW w \in Watcher, Park(c, w) PROVE TypeOK'
    BY <2>2 DEF Park, TypeOK
  <2>3. ASSUME NEW w \in Watcher, ReadTimeout(c, w) PROVE TypeOK'
    BY <2>3 DEF ReadTimeout, TypeOK
  <2>4. CASE RestartDaemon(c)
    BY <2>4 DEF RestartDaemon, TypeOK
  <2>. QED
    BY <1>6, <2>1, <2>2, <2>3, <2>4 DEF Watch
<1>7. ASSUME NEW c \in Client, NEW kind \in {"claim", "release", "delete"}, RunLate(c, kind)
      PROVE  TypeOK'
  <2>1. CASE HubClaim(c) /\ token' = Superseded(c)
    BY <1>7, <2>1, HubClaimType, SupersededType DEF RunLate, TypeOK
  <2>2. CASE HubRelease(c) /\ UNCHANGED token
    BY <1>7, <2>2, EmptyLockType DEF RunLate, HubRelease, TypeOK
  <2>3. CASE UNCHANGED <<hub, token>>
    BY <1>7, <2>3 DEF RunLate, TypeOK
  <2>4. CASE HubDelete /\ UNCHANGED token
    BY <1>7, <2>4, EmptyLockType DEF RunLate, HubDelete, TypeOK
  <2>. QED
    BY <1>7, <2>1, <2>2, <2>3, <2>4 DEF RunLate
<1>8. CASE HubDown \/ HubBack
    BY <1>8 DEF HubDown, HubBack, TypeOK
<1>. QED
    BY <1>1, <1>2, <1>3, <1>4, <1>5, <1>6, <1>7, <1>8 DEF Next

LEMMA TypeStutter == ASSUME TypeOK, UNCHANGED vars PROVE TypeOK'
BY DEF TypeOK, vars, hub, local, watch

\* Every variable keeps its type (Occupancy's TypeOK), whatever the faults.
THEOREM TypeCorrect == Spec => []TypeOK
<1>1. TypeOK /\ [Next]_vars => TypeOK'
    BY TypeStep, TypeStutter
<1>. QED
    BY TypeInit, <1>1, PTL DEF Spec

-----------------------------------------------------------------------------
(* The invariant of the grants.  A step does one of four things to the Hub:  *)
(* nothing, a claim, a restart of the counter, or a torn write.              *)

LEMMA GrantInit == Init => GrantInv
<1>. SUFFICES ASSUME Init PROVE GrantInv
    OBVIOUS
<1>1. TypeOK
    BY TypeInit
<1>2. FilesAgree /\ GrantsCurrent /\ CurrentGranted /\ UniqueGrant
    BY DEF Init, NoLock, FilesAgree, GrantsCurrent, CurrentGranted, UniqueGrant
<1>3. TokensGranted /\ CrossedTokensStale
    BY DEF Init, NoToken, TokensGranted, CrossedTokensStale
<1>4. WorkHasToken
    BY DEF Init, WorkHasToken, TokenStages
<1>. QED
    BY <1>1, <1>2, <1>3, <1>4 DEF GrantInv

\* A process that ends loses its token; the others keep theirs.
TokensKept ==
    \A q \in Proc :
        /\ token'[q] \in {token[q], NoToken}
        /\ pc'[q] \in TokenStages => pc[q] \in TokenStages /\ token'[q] = token[q]

LEMMA TokensKeptWork == ASSUME WorkHasToken, TokensKept PROVE WorkHasToken'
BY DEF WorkHasToken, TokensKept

LEMMA QuietStep ==
    ASSUME GrantInv, TypeOK', UNCHANGED hub, TokensKept
    PROVE  GrantInv'
<1>. USE DEF GrantInv, hub, Holder
<1>1. FilesAgree' /\ GrantsCurrent' /\ CurrentGranted' /\ UniqueGrant'
    BY DEF FilesAgree, GrantsCurrent, CurrentGranted, UniqueGrant
<1>2. TokensGranted' /\ CrossedTokensStale'
    BY DEF TokensGranted, CrossedTokensStale, TokensKept, NoToken
<1>. QED
    BY <1>1, <1>2, TokensKeptWork

LEMMA ClaimStep ==
    ASSUME GrantInv, TypeOK', NEW c \in Client, HubClaim(c),
           \A q \in Proc :
              \/ token'[q] = Superseded(c)[q]
              \/ /\ Host[q] = c
                 /\ token'[q] = [epoch |-> epoch, gen |-> NextGen(c), crossed |-> FALSE],
           \A q \in Proc : pc'[q] \in TokenStages => pc[q] \in TokenStages \/ token'[q].gen > 0
    PROVE  GrantInv'
<1>. USE OccupancyAssumption DEF OccupancyAssumption
<1>1. /\ NextGen(c) \in 1 .. MaxGen
      /\ lock.gen \in 0 .. MaxGen
      /\ epoch \in 0 .. MaxEpoch
      /\ occ \in Client \cup {NoOne}
      /\ granted \subseteq (0 .. MaxEpoch) \X (1 .. MaxGen) \X Client
    BY HubClaimType DEF GrantInv, TypeOK
<1>2. /\ lock.gen <= NextGen(c)
      /\ NextGen(c) = lock.gen => Holder = c
    BY <1>1 DEF NextGen
<1>3. /\ Holder' = c /\ lock'.gen = NextGen(c) /\ epoch' = epoch /\ torn' = torn
      /\ granted' = granted \cup {<<epoch, NextGen(c), c>>}
    BY DEF HubClaim, Holder
<1>4. FilesAgree'
    BY <1>1 DEF FilesAgree, HubClaim
<1>5. GrantsCurrent'
  <2>. SUFFICES ASSUME NEW g \in granted'
                PROVE  /\ g[1] <= epoch
                       /\ ~torn /\ g[1] = epoch =>
                             g[2] <= NextGen(c) /\ (g[2] = NextGen(c) => g[3] = c)
    BY <1>3 DEF GrantsCurrent
  <2>1. CASE g = <<epoch, NextGen(c), c>>
    BY <2>1, <1>1
  <2>2. CASE g \in granted
    BY <2>2, <1>1, <1>2 DEF GrantInv, GrantsCurrent
  <2>. QED
    BY <1>3, <2>1, <2>2
<1>6. CurrentGranted'
    BY <1>3 DEF CurrentGranted
<1>7. UniqueGrant'
  <2>. SUFFICES ASSUME ~torn, NEW g \in granted', NEW h \in granted', g[1] = h[1], g[2] = h[2]
                PROVE  g[3] = h[3]
    BY <1>3 DEF UniqueGrant
  <2>1. ASSUME NEW k \in granted, k[1] = epoch, k[2] = NextGen(c) PROVE k[3] = c
    BY <2>1, <1>1, <1>2 DEF GrantInv, GrantsCurrent
  <2>2. CASE g \in granted /\ h \in granted
    BY <2>2 DEF GrantInv, UniqueGrant
  <2>3. CASE g = <<epoch, NextGen(c), c>> /\ h \in granted
    BY <2>1, <2>3
  <2>4. CASE h = <<epoch, NextGen(c), c>> /\ g \in granted
    BY <2>1, <2>4
  <2>5. CASE g = <<epoch, NextGen(c), c>> /\ h = <<epoch, NextGen(c), c>>
    BY <2>5
  <2>. QED
    BY <1>3, <2>2, <2>3, <2>4, <2>5
<1>8. ASSUME NEW q \in Proc
      PROVE  /\ token'[q].gen > 0 => <<token'[q].epoch, token'[q].gen, Host[q]>> \in granted'
             /\ token'[q].crossed => token'[q].gen > 0
             /\ ~torn /\ token'[q].crossed /\ token'[q].epoch = epoch => token'[q].gen < NextGen(c)
  <2>0. token[q] \in Token
    BY DEF GrantInv, TypeOK
  <2>1. CASE token'[q] = [epoch |-> epoch, gen |-> NextGen(c), crossed |-> FALSE] /\ Host[q] = c
    BY <2>1, <1>3
  <2>2. CASE token'[q] = token[q] /\ Host[q] = c
    BY <2>0, <2>2, <1>1, <1>2, <1>3
       DEF GrantInv, TokensGranted, CrossedTokensStale, Token
  <2>3. CASE token'[q] = [token[q] EXCEPT !.crossed = token[q].gen > 0] /\ Host[q] # c
    <3>1. token'[q].gen = token[q].gen /\ token'[q].epoch = token[q].epoch
      BY <2>0, <2>3 DEF Token
    <3>2. token'[q].crossed => token[q].gen > 0
      BY <2>0, <2>3 DEF Token
    <3>3. token[q].gen > 0 => <<token[q].epoch, token[q].gen, Host[q]>> \in granted
      BY DEF GrantInv, TokensGranted
    <3>4. ~torn /\ token[q].gen > 0 /\ token[q].epoch = epoch =>
             token[q].gen <= lock.gen /\ (token[q].gen = lock.gen => Host[q] = Holder)
      BY <3>3 DEF GrantInv, GrantsCurrent
    <3>5. token[q].gen \in 0 .. MaxGen
      BY <2>0 DEF Token
    <3>. QED
      BY <2>3, <3>1, <3>2, <3>3, <3>4, <3>5, <1>1, <1>2, <1>3
  <2>. QED
    BY <2>1, <2>2, <2>3 DEF Superseded
<1>9. TokensGranted' /\ CrossedTokensStale'
    BY <1>3, <1>8 DEF TokensGranted, CrossedTokensStale
<1>10. WorkHasToken'
  <2>. SUFFICES ASSUME NEW q \in Proc, pc'[q] \in TokenStages PROVE token'[q].gen > 0
    BY DEF WorkHasToken
  <2>1. CASE pc[q] \in TokenStages
    <3>1. token[q].gen > 0 /\ token[q] \in Token
      BY <2>1 DEF GrantInv, WorkHasToken, TypeOK
    <3>2. Superseded(c)[q].gen = token[q].gen
      BY <3>1 DEF Superseded, Token
    <3>. QED
      BY <3>1, <3>2, <1>1
  <2>. QED
    BY <2>1
<1>. QED
    BY <1>4, <1>5, <1>6, <1>7, <1>9, <1>10 DEF GrantInv

LEMMA ResetStep ==
    ASSUME GrantInv, TypeOK', EmptyLock, granted' = granted, torn' \in {torn, TRUE}, TokensKept
    PROVE  GrantInv'
<1>. USE OccupancyAssumption DEF OccupancyAssumption
<1>0. ~torn' => ~torn
    OBVIOUS
<1>1. /\ lock.gen \in 0 .. MaxGen
      /\ epoch \in 0 .. MaxEpoch
      /\ granted \subseteq (0 .. MaxEpoch) \X (1 .. MaxGen) \X Client
    BY DEF GrantInv, TypeOK
<1>2. lock' = NoLock /\ epoch' = (IF lock.gen > 0 THEN epoch + 1 ELSE epoch)
    BY DEF EmptyLock
<1>3. ASSUME ~torn', NEW g \in granted PROVE g[1] < epoch'
  <2>1. g[1] \in 0 .. MaxEpoch /\ g[2] \in 1 .. MaxGen
    BY <1>1
  <2>2. g[1] <= epoch /\ (g[1] = epoch => g[2] <= lock.gen)
    BY <1>0, <1>3 DEF GrantInv, GrantsCurrent
  <2>. QED
    BY <2>1, <2>2, <1>1, <1>2
<1>4. GrantsCurrent'
    BY <1>1, <1>2, <1>3 DEF GrantInv, GrantsCurrent
<1>5. FilesAgree' /\ CurrentGranted' /\ UniqueGrant'
    BY <1>0, <1>2 DEF GrantInv, FilesAgree, CurrentGranted, UniqueGrant, NoLock
<1>6. TokensGranted'
    BY DEF GrantInv, TokensGranted, TokensKept, NoToken
<1>7. CrossedTokensStale'
  <2>. SUFFICES ASSUME NEW p \in Proc, ~torn', token'[p].crossed PROVE token'[p].epoch # epoch'
    BY DEF CrossedTokensStale
  <2>1. token'[p].gen > 0 /\ <<token'[p].epoch, token'[p].gen, Host[p]>> \in granted
    BY <1>6 DEF TokensGranted
  <2>2. token'[p].epoch < epoch'
    BY <1>3, <2>1
  <2>3. token'[p].epoch \in 0 .. MaxEpoch
    BY DEF TypeOK, Token
  <2>. QED
    BY <1>1, <1>2, <2>2, <2>3
<1>. QED
    BY <1>4, <1>5, <1>6, <1>7, TokensKeptWork DEF GrantInv

LEMMA TornStep ==
    ASSUME GrantInv, TypeOK', torn', UNCHANGED <<epoch, granted>>, TokensKept
    PROVE  GrantInv'
<1>1. FilesAgree' /\ GrantsCurrent' /\ CurrentGranted' /\ UniqueGrant'
    BY DEF GrantInv, FilesAgree, GrantsCurrent, CurrentGranted, UniqueGrant
<1>2. TokensGranted' /\ CrossedTokensStale'
    BY DEF GrantInv, TokensGranted, CrossedTokensStale, TokensKept, NoToken
<1>. QED
    BY <1>1, <1>2, TokensKeptWork DEF GrantInv

\* A command that leaves its stage without its token keeps TokensKept, as does
\* one that goes on to a stage that needs the token it has.
LEMMA EndKeeps == ASSUME TypeOK, NEW p \in Proc, End(p) PROVE TokensKept
BY DEF End, Goto, TokensKept, TokenStages, TypeOK

LEMMA GotoKeeps ==
    ASSUME TypeOK, NEW p \in Proc, NEW s \in Stage, Goto(p, s), UNCHANGED token,
           s \in TokenStages => pc[p] \in TokenStages
    PROVE  TokensKept
BY DEF Goto, TokensKept, TypeOK

LEMMA UnchangedKeeps == ASSUME UNCHANGED <<pc, token>> PROVE TokensKept
BY DEF TokensKept

\* A claim of process p.
LEMMA ProcClaimStep ==
    ASSUME GrantInv, TypeOK', NEW p \in Proc, NEW s \in Stage, Claim(p), Goto(p, s)
    PROVE  GrantInv'
<1>1. Host[p] \in Client /\ HubClaim(Host[p]) /\ TypeOK
    BY ClaimType DEF GrantInv
<1>2. token' = [Superseded(Host[p]) EXCEPT ![p] =
                    [epoch |-> epoch, gen |-> NextGen(Host[p]), crossed |-> FALSE]]
    BY DEF Claim
<1>3. Superseded(Host[p]) \in [Proc -> Token]
    BY <1>1, SupersededType
<1>4. NextGen(Host[p]) \in 1 .. MaxGen
    BY <1>1, HubClaimType
<1>5. ASSUME NEW q \in Proc
      PROVE  \/ token'[q] = Superseded(Host[p])[q]
             \/ /\ Host[q] = Host[p]
                /\ token'[q] = [epoch |-> epoch, gen |-> NextGen(Host[p]), crossed |-> FALSE]
    BY <1>2, <1>3
<1>6. ASSUME NEW q \in Proc, pc'[q] \in TokenStages
      PROVE  pc[q] \in TokenStages \/ token'[q].gen > 0
    BY <1>1, <1>2, <1>3, <1>4, <1>6, OccupancyAssumption
       DEF OccupancyAssumption, Goto, TypeOK
<1>. QED
    BY <1>1, <1>5, <1>6, ClaimStep

LEMMA GrantStep == ASSUME GrantInv, Next PROVE GrantInv'
<1>0. TypeOK /\ TypeOK'
    BY TypeStep DEF GrantInv
<1>1. ASSUME NEW p \in Proc, Resume(p) PROVE GrantInv'
  <2>1. CASE BeginResume(p)
    BY <1>0, <2>1, GotoKeeps, QuietStep DEF BeginResume, Stage, TokenStages
  <2>2. CASE AcquireForResume(p)
    BY <1>0, <2>2, ProcClaimStep DEF AcquireForResume, Stage
  <2>3. CASE GenerationCheck(p)
    <3>1. NextStage[pc[p]] \in Stage /\ pc[p] \in TokenStages
      BY <2>3 DEF GenerationCheck, NextStage, Stage, TokenStages
    <3>. QED
      BY <1>0, <2>3, <3>1, GotoKeeps, QuietStep DEF GenerationCheck
  <2>4. CASE ReplaceNative(p)
    BY <1>0, <2>4, GotoKeeps, QuietStep DEF ReplaceNative, Stage, TokenStages
  <2>5. CASE SkipImport(p)
    BY <1>0, <2>5, GotoKeeps, QuietStep DEF SkipImport, Stage, TokenStages
  <2>6. CASE StartSides(p)
    BY <1>0, <2>6, GotoKeeps, QuietStep DEF StartSides, Stage, TokenStages
  <2>7. CASE VerifyResume(p)
    BY <1>0, <2>7, GotoKeeps, QuietStep DEF VerifyResume, Stage, TokenStages
  <2>8. CASE SaveResume(p)
    BY <1>0, <2>8, EndKeeps, QuietStep DEF SaveResume
  <2>. QED
    BY <1>1, <2>1, <2>2, <2>3, <2>4, <2>5, <2>6, <2>7, <2>8 DEF Resume
<1>2. ASSUME NEW p \in Proc, RequireActive(p) PROVE GrantInv'
    BY <1>0, <1>2, ProcClaimStep DEF RequireActive, Stage
<1>3. ASSUME NEW p \in Proc, Act(p) PROVE GrantInv'
    BY <1>0, <1>3, EndKeeps, QuietStep DEF Act
<1>4. ASSUME NEW p \in Proc, Leave(p) PROVE GrantInv'
  <2>1. CASE DropLocal(p)
    BY <1>0, <2>1, GotoKeeps, QuietStep DEF DropLocal, Stage, TokenStages
  <2>2. CASE ReleaseDropped(p)
    BY <1>0, <2>2, EndKeeps, ResetStep DEF ReleaseDropped, HubRelease
  <2>3. CASE ReleaseRemoved(p)
    <3>1. TokensKept
      BY <1>0, <2>3, GotoKeeps DEF ReleaseRemoved, Stage, TokenStages
    <3>2. CASE HubRelease(Host[p])
      BY <1>0, <3>1, <3>2, ResetStep DEF HubRelease
    <3>3. CASE UNCHANGED hub
      BY <1>0, <3>1, <3>3, QuietStep
    <3>. QED
      BY <2>3, <3>2, <3>3 DEF ReleaseRemoved
  <2>4. CASE RemoveLocal(p)
    BY <1>0, <2>4, GotoKeeps, QuietStep DEF RemoveLocal, Stage, TokenStages
  <2>5. CASE RemoveRemote(p)
    BY <1>0, <2>5, EndKeeps, ResetStep DEF RemoveRemote, HubDelete
  <2>. QED
    BY <1>4, <2>1, <2>2, <2>3, <2>4, <2>5 DEF Leave
<1>5. ASSUME NEW p \in Proc, Broken(p) PROVE GrantInv'
  <2>1. CASE GiveUp(p)
    BY <1>0, <2>1, EndKeeps, QuietStep DEF GiveUp
  <2>2. CASE RequestTimeout(p)
    BY <1>0, <2>2, EndKeeps, QuietStep DEF RequestTimeout
  <2>3. CASE TornClaim(p)
    <3>1. TokensKept /\ torn' = TRUE /\ granted' = granted
      BY <1>0, <2>3, EndKeeps DEF TornClaim
    <3>2. CASE EmptyLock
      BY <1>0, <3>1, <3>2, ResetStep
    <3>3. CASE UNCHANGED <<lock, epoch>>
      BY <1>0, <3>1, <3>3, TornStep
    <3>. QED
      BY <2>3, <3>2, <3>3 DEF TornClaim
  <2>4. CASE TornRelease(p)
    <3>1. TokensKept
      BY <1>0, <2>4, EndKeeps, GotoKeeps DEF TornRelease, Stage, TokenStages
    <3>. QED
      BY <1>0, <2>4, <3>1, TornStep DEF TornRelease
  <2>. QED
    BY <1>5, <2>1, <2>2, <2>3, <2>4 DEF Broken
<1>6. ASSUME NEW c \in Client, Watch(c) PROVE GrantInv'
  <2>1. UNCHANGED <<hub, pc, token>>
    BY <1>6 DEF Watch, ReadForeign, Park, ReadTimeout, RestartDaemon
  <2>. QED
    BY <1>0, <2>1, UnchangedKeeps, QuietStep
<1>7. ASSUME NEW c \in Client, NEW kind \in {"claim", "release", "delete"}, RunLate(c, kind)
      PROVE  GrantInv'
  <2>0. UNCHANGED pc
    BY <1>7 DEF RunLate
  <2>1. CASE HubClaim(c) /\ token' = Superseded(c)
    BY <1>0, <2>0, <2>1, ClaimStep
  <2>2. CASE (HubRelease(c) \/ HubDelete) /\ UNCHANGED token
    BY <1>0, <2>0, <2>2, UnchangedKeeps, ResetStep DEF HubRelease, HubDelete
  <2>3. CASE UNCHANGED <<hub, token>>
    BY <1>0, <2>0, <2>3, UnchangedKeeps, QuietStep
  <2>. QED
    BY <1>7, <2>1, <2>2, <2>3 DEF RunLate
<1>8. CASE HubDown \/ HubBack
    BY <1>0, <1>8, UnchangedKeeps, QuietStep DEF HubDown, HubBack
<1>. QED
    BY <1>1, <1>2, <1>3, <1>4, <1>5, <1>6, <1>7, <1>8 DEF Next

LEMMA GrantStutter == ASSUME GrantInv, UNCHANGED vars PROVE GrantInv'
BY TypeStutter, UnchangedKeeps, QuietStep DEF GrantInv, vars

\* The invariant of the Hub's grants and of the tokens the commands carry
\* (the script in occupancy.py and every caller of it).
THEOREM GrantsInvariant == Spec => []GrantInv
<1>1. GrantInv /\ [Next]_vars => GrantInv'
    BY GrantStep, GrantStutter
<1>. QED
    BY GrantInit, <1>1, PTL DEF Spec

\* One generation of one epoch is granted to one Client (occupancy.py's claim).
THEOREM GrantsUnique == Spec => []UniqueGrant
<1>1. GrantInv => UniqueGrant
    BY DEF GrantInv
<1>. QED
    BY GrantsInvariant, <1>1, PTL

\* A check that compares the token's generation with the lock's - verify_resume
\* and native_persist's generation_check - notices every claim of another
\* Client of the same epoch.
LEMMA CheckNotices ==
    ASSUME GrantInv, NEW p \in Proc, pc[p] \in TokenStages, lock.gen \in {0, token[p].gen}
    PROVE  Undisturbed(p)
<1>1. token[p].gen > 0 /\ token[p].gen \in 0 .. MaxGen /\ lock.gen \in 0 .. MaxGen
    BY DEF GrantInv, WorkHasToken, TypeOK, Token
<1>2. token[p].gen > 0 /\ token[p].epoch = epoch /\ ~torn => token[p].gen <= lock.gen
    BY DEF GrantInv, TokensGranted, GrantsCurrent
<1>. QED
    BY <1>1, <1>2, OccupancyAssumption DEF OccupancyAssumption, GrantInv, CrossedTokensStale,
       Undisturbed

\* Only its own verification takes a command from "verify" to "save", and only
\* its last generation check from "replaced" to "start".
LEMMA StageSteps ==
    ASSUME TypeOK, Next, NEW p \in Proc
    PROVE  /\ pc[p] = "verify" /\ pc'[p] = "save" => VerifyResume(p)
           /\ pc[p] = "replaced" /\ pc'[p] = "start" => GenerationCheck(p)
<1>. USE DEF TypeOK, Goto, End
<1>1. ASSUME NEW q \in Proc, Resume(q) PROVE
           /\ pc[p] = "verify" /\ pc'[p] = "save" => VerifyResume(p)
           /\ pc[p] = "replaced" /\ pc'[p] = "start" => GenerationCheck(p)
    BY <1>1 DEF Resume, BeginResume, AcquireForResume, GenerationCheck, ReplaceNative,
                SkipImport, StartSides, VerifyResume, SaveResume, NextStage
<1>2. ASSUME NEW q \in Proc, RequireActive(q) \/ Act(q) \/ Leave(q) \/ Broken(q)
      PROVE  ~(pc[p] = "verify" /\ pc'[p] = "save") /\ ~(pc[p] = "replaced" /\ pc'[p] = "start")
    BY <1>2 DEF RequireActive, Act, Leave, Broken, DropLocal, ReleaseDropped, ReleaseRemoved,
                RemoveLocal, RemoveRemote, GiveUp, RequestTimeout, TornClaim, TornRelease
<1>3. ASSUME NEW c \in Client, Watch(c) PROVE pc' = pc
    BY <1>3 DEF Watch, ReadForeign, Park, ReadTimeout, RestartDaemon
<1>4. ASSUME NEW c \in Client, NEW kind \in {"claim", "release", "delete"}, RunLate(c, kind)
      PROVE  pc' = pc
    BY <1>4 DEF RunLate
<1>5. HubDown \/ HubBack => pc' = pc
    BY DEF HubDown, HubBack
<1>. QED
    BY <1>1, <1>2, <1>3, <1>4, <1>5 DEF Next

\* A resume passes its verification only undisturbed (ownership.verify_resume).
THEOREM ResumeUndisturbed == Spec => VerifiedUndisturbed
<1>1. ASSUME GrantInv, Next, NEW p \in Proc, pc[p] = "verify", pc'[p] = "save"
      PROVE  Undisturbed(p)
  <2>1. VerifyResume(p)
    BY <1>1, StageSteps DEF GrantInv
  <2>. QED
    BY <1>1, <2>1, CheckNotices DEF VerifyResume, TokenStages
<1>2. GrantInv /\ [Next]_vars =>
        [\A p \in Proc : pc[p] = "verify" /\ pc'[p] = "save" => Undisturbed(p)]_vars
    BY <1>1
<1>. QED
    BY GrantsInvariant, <1>2, PTL DEF Spec, VerifiedUndisturbed

\* A native snapshot is kept only undisturbed (native_persist.import_session).
THEOREM NativeImportUndisturbed == Spec => ImportUndisturbed
<1>1. ASSUME GrantInv, Next, NEW p \in Proc, pc[p] = "replaced", pc'[p] = "start"
      PROVE  Undisturbed(p)
  <2>1. GenerationCheck(p)
    BY <1>1, StageSteps DEF GrantInv
  <2>. QED
    BY <1>1, <2>1, CheckNotices DEF GenerationCheck, TokenStages
<1>2. GrantInv /\ [Next]_vars =>
        [\A p \in Proc : pc[p] = "replaced" /\ pc'[p] = "start" => Undisturbed(p)]_vars
    BY <1>1
<1>. QED
    BY GrantsInvariant, <1>2, PTL DEF Spec, ImportUndisturbed

-----------------------------------------------------------------------------
(* The Hub's files implement the abstract owner when it does not crash.      *)

LEMMA HubSteps ==
    ASSUME Next, "torn" \notin Fault
    PROVE  \/ UNCHANGED hub
           \/ \E c \in Client : HubClaim(c) \/ HubRelease(c)
           \/ HubDelete
<1>. USE OccupancyAssumption DEF OccupancyAssumption
<1>1. ASSUME NEW p \in Proc, Resume(p) \/ RequireActive(p) \/ Act(p)
      PROVE  UNCHANGED hub \/ HubClaim(Host[p])
    BY <1>1 DEF Resume, RequireActive, Act, BeginResume, AcquireForResume, GenerationCheck,
                ReplaceNative, SkipImport, StartSides, VerifyResume, SaveResume, Claim
<1>2. ASSUME NEW p \in Proc, Leave(p)
      PROVE  UNCHANGED hub \/ HubRelease(Host[p]) \/ HubDelete
    BY <1>2 DEF Leave, DropLocal, ReleaseDropped, ReleaseRemoved, RemoveLocal, RemoveRemote
<1>3. ASSUME NEW p \in Proc, Broken(p) PROVE UNCHANGED hub
    BY <1>3 DEF Broken, GiveUp, RequestTimeout, TornClaim, TornRelease
<1>4. ASSUME NEW c \in Client, Watch(c) PROVE UNCHANGED hub
    BY <1>4 DEF Watch, ReadForeign, Park, ReadTimeout, RestartDaemon
<1>5. ASSUME NEW c \in Client, NEW kind \in {"claim", "release", "delete"}, RunLate(c, kind)
      PROVE  UNCHANGED hub \/ HubClaim(c) \/ HubRelease(c) \/ HubDelete
    BY <1>5 DEF RunLate
<1>6. HubDown \/ HubBack => UNCHANGED hub
    BY DEF HubDown, HubBack
<1>. QED
    BY <1>1, <1>2, <1>3, <1>4, <1>5, <1>6 DEF Next

LEMMA ClaimTakes ==
    ASSUME GrantInv, ~torn, NEW c \in Client, HubClaim(c)
    PROVE  [Owner!Next]_(Owner!vars)
<1>1. Holder' = c /\ lock'.gen = NextGen(c) /\ epoch' = epoch
      /\ granted' = granted \cup {<<epoch, NextGen(c), c>>}
    BY OccupancyAssumption DEF OccupancyAssumption, HubClaim, Holder
<1>2. CASE Holder # c \/ lock.gen = 0
  <2>1. NextGen(c) = lock.gen + 1
    BY <1>2 DEF NextGen
  <2>2. Owner!Take(c)
    BY <1>1, <1>2, <2>1 DEF Owner!Take
  <2>. QED
    BY <2>2 DEF Owner!Next
<1>3. CASE Holder = c /\ lock.gen # 0
  <2>1. NextGen(c) = lock.gen /\ lock.gen > 0
    BY <1>3 DEF NextGen, GrantInv, TypeOK
  <2>2. <<epoch, lock.gen, c>> \in granted
    BY <1>3, <2>1 DEF GrantInv, CurrentGranted
  <2>. QED
    BY <1>1, <1>3, <2>1, <2>2 DEF Owner!vars
<1>. QED
    BY <1>2, <1>3

LEMMA EmptyLockLapses ==
    ASSUME GrantInv, EmptyLock, granted' = granted, occ' \in {occ, NoOne}
    PROVE  Owner!Next
BY DEF EmptyLock, NoLock, Holder, Owner!Next, Owner!Lapse

\* Without a crash of the Hub between its two writes, claims, releases and
\* removals are Take and Lapse of TunnelOwner (the script in occupancy.py).
THEOREM ImplementsOwner == "torn" \notin Fault => (Spec => OwnerSpec)
<1>. SUFFICES ASSUME "torn" \notin Fault PROVE Spec => OwnerSpec
    OBVIOUS
<1>1. Init => Owner!Init
    BY DEF Init, Owner!Init, Holder, NoLock
<1>2. Init => ~torn
    BY DEF Init
<1>3. ~torn /\ [Next]_vars => ~torn'
    BY HubSteps DEF hub, vars, HubClaim, HubRelease, HubDelete
<1>4. GrantInv /\ ~torn /\ [Next]_vars => [Owner!Next]_(Owner!vars)
  <2>. SUFFICES ASSUME GrantInv, ~torn, [Next]_vars PROVE [Owner!Next]_(Owner!vars)
    OBVIOUS
  <2>1. CASE UNCHANGED hub
    BY <2>1 DEF hub, Holder, Owner!vars
  <2>2. ASSUME NEW c \in Client, HubClaim(c) PROVE [Owner!Next]_(Owner!vars)
    BY <2>2, ClaimTakes
  <2>3. ASSUME NEW c \in Client, HubRelease(c) PROVE [Owner!Next]_(Owner!vars)
    BY <2>3, EmptyLockLapses DEF HubRelease
  <2>4. CASE HubDelete
    BY <2>4, EmptyLockLapses DEF HubDelete
  <2>. QED
    BY <2>1, <2>2, <2>3, <2>4, HubSteps DEF vars
<1>. QED
    BY GrantsInvariant, <1>1, <1>2, <1>3, <1>4, PTL DEF Spec, OwnerSpec, Owner!Spec

-----------------------------------------------------------------------------
(* What is saved in a tunnel file was granted.                               *)

LEMMA GrantsStay == ASSUME Next PROVE granted \subseteq granted'
<1>1. ASSUME NEW p \in Proc, Resume(p) \/ RequireActive(p) \/ Act(p)
      PROVE  granted \subseteq granted'
    BY <1>1 DEF Resume, RequireActive, Act, BeginResume, AcquireForResume, GenerationCheck,
                ReplaceNative, SkipImport, StartSides, VerifyResume, SaveResume, Claim, HubClaim, hub
<1>2. ASSUME NEW p \in Proc, Leave(p) \/ Broken(p) PROVE granted' = granted
    BY <1>2 DEF Leave, DropLocal, ReleaseDropped, ReleaseRemoved, RemoveLocal, RemoveRemote,
                HubRelease, HubDelete, hub, Broken, GiveUp, RequestTimeout, TornClaim, TornRelease
<1>3. ASSUME NEW c \in Client, Watch(c) PROVE granted' = granted
    BY <1>3 DEF Watch, ReadForeign, Park, ReadTimeout, RestartDaemon, hub
<1>4. ASSUME NEW c \in Client, NEW kind \in {"claim", "release", "delete"}, RunLate(c, kind)
      PROVE  granted \subseteq granted'
    BY <1>4 DEF RunLate, HubClaim, HubRelease, HubDelete, hub
<1>5. HubDown \/ HubBack => granted' = granted
    BY DEF HubDown, HubBack, hub
<1>. QED
    BY <1>1, <1>2, <1>3, <1>4, <1>5 DEF Next

\* Only the end of a resume and a claim of require_active write the tunnel file.
LEMMA SavedSteps ==
    ASSUME Next
    PROVE  saved' = saved \/ \E p \in Proc : SaveResume(p) \/ RequireActive(p)
<1>1. ASSUME NEW p \in Proc, Resume(p) PROVE saved' = saved \/ SaveResume(p)
    BY <1>1 DEF Resume, BeginResume, AcquireForResume, GenerationCheck, ReplaceNative,
                SkipImport, StartSides, VerifyResume, local
<1>2. ASSUME NEW p \in Proc, Act(p) \/ Leave(p) \/ Broken(p) PROVE saved' = saved
    BY <1>2 DEF Act, Leave, DropLocal, ReleaseDropped, ReleaseRemoved, RemoveLocal, RemoveRemote,
                local, Broken, GiveUp, RequestTimeout, TornClaim, TornRelease
<1>3. ASSUME NEW c \in Client, Watch(c) PROVE saved' = saved
    BY <1>3 DEF Watch, ReadForeign, Park, ReadTimeout, RestartDaemon, local
<1>4. ASSUME NEW c \in Client, NEW kind \in {"claim", "release", "delete"}, RunLate(c, kind)
      PROVE  saved' = saved
    BY <1>4 DEF RunLate, local
<1>5. HubDown \/ HubBack => saved' = saved
    BY DEF HubDown, HubBack, local
<1>. QED
    BY <1>1, <1>2, <1>3, <1>4, <1>5 DEF Next

LEMMA SavedStep == ASSUME GrantInv, SavedWasGranted, Next PROVE SavedWasGranted'
<1>. USE OccupancyAssumption DEF OccupancyAssumption
<1>0. granted \subseteq granted'
    BY GrantsStay
<1>1. CASE saved' = saved
    BY <1>0, <1>1 DEF SavedWasGranted
<1>2. ASSUME NEW p \in Proc, SaveResume(p) PROVE SavedWasGranted'
  <2>1. token[p].gen > 0 /\ token[p].epoch \in 0 .. MaxEpoch
        /\ <<token[p].epoch, token[p].gen, Host[p]>> \in granted
    BY <1>2 DEF SaveResume, GrantInv, WorkHasToken, TokenStages, TokensGranted, TypeOK, Token
  <2>2. saved' = [saved EXCEPT ![Host[p]] = token[p].gen] /\ saved \in [Client -> 0 .. MaxGen]
    BY <1>2 DEF SaveResume, GrantInv, TypeOK
  <2>. QED
    BY <1>0, <2>1, <2>2 DEF SavedWasGranted
<1>3. ASSUME NEW p \in Proc, RequireActive(p) PROVE SavedWasGranted'
  <2>1. epoch \in 0 .. MaxEpoch /\ <<epoch, NextGen(Host[p]), Host[p]>> \in granted'
    BY <1>3 DEF RequireActive, Claim, HubClaim, GrantInv, TypeOK
  <2>2. saved' = [saved EXCEPT ![Host[p]] = NextGen(Host[p])] /\ saved \in [Client -> 0 .. MaxGen]
    BY <1>3 DEF RequireActive, GrantInv, TypeOK
  <2>. QED
    BY <1>0, <2>1, <2>2 DEF SavedWasGranted
<1>. QED
    BY <1>1, <1>2, <1>3, SavedSteps

\* The generation in a Client's tunnel file was granted to that Client, even
\* when the Hub crashed (control.resume and hub.require_active).
THEOREM SavedGranted == Spec => []SavedWasGranted
<1>1. Init => SavedWasGranted
    BY DEF Init, SavedWasGranted
<1>2. GrantInv /\ SavedWasGranted /\ [Next]_vars => SavedWasGranted'
    BY SavedStep DEF SavedWasGranted, vars, hub, local
<1>. QED
    BY GrantsInvariant, <1>1, <1>2, PTL DEF Spec

-----------------------------------------------------------------------------
(* Who may free the tunnel.                                                  *)

\* While the Hub's files agree, the JSON names the holder.
LEMMA HolderInJson ==
    ASSUME GrantInv, ~torn, NEW c \in Client, Holder = c
    PROVE  occ = c
BY OccupancyAssumption DEF OccupancyAssumption, GrantInv, FilesAgree, Holder, NoLock

\* The JSON is emptied by a release alone: at the end of a drop, at the start of
\* a removal, or by one that comes late.
LEMMA EmptiedByRelease ==
    ASSUME TypeOK, Next, ~torn', occ # NoOne, occ' = NoOne
    PROVE  \E c \in Client :
              /\ ~Foreign(c)
              /\ \/ \E p \in Proc :
                       Host[p] = c /\ pc[p] \in {"dropping", "idle"} /\ pc'[p] # pc[p]
                 \/ <<c, "release">> \in late \ late'
<1>. USE OccupancyAssumption DEF OccupancyAssumption
<1>1. ASSUME NEW p \in Proc, Resume(p) \/ RequireActive(p) \/ Act(p)
      PROVE  FALSE
  <2>1. UNCHANGED hub \/ HubClaim(Host[p])
    BY <1>1 DEF Resume, RequireActive, Act, BeginResume, AcquireForResume, GenerationCheck,
                ReplaceNative, SkipImport, StartSides, VerifyResume, SaveResume, Claim
  <2>. QED
    BY <2>1 DEF hub, HubClaim
<1>2. ASSUME NEW p \in Proc, Leave(p)
      PROVE  /\ ~Foreign(Host[p])
             /\ pc[p] \in {"dropping", "idle"} /\ pc'[p] # pc[p]
  <2>1. CASE ReleaseDropped(p)
    BY <2>1 DEF ReleaseDropped, HubRelease, End, Goto, TypeOK
  <2>2. CASE ReleaseRemoved(p)
    BY <2>2 DEF ReleaseRemoved, HubRelease, Goto, TypeOK, hub
  <2>3. CASE DropLocal(p) \/ RemoveLocal(p) \/ RemoveRemote(p)
    BY <2>3 DEF DropLocal, RemoveLocal, RemoveRemote, HubDelete, hub
  <2>. QED
    BY <1>2, <2>1, <2>2, <2>3 DEF Leave
<1>3. ASSUME NEW p \in Proc, Broken(p) PROVE FALSE
    BY <1>3 DEF Broken, GiveUp, RequestTimeout, TornClaim, TornRelease, hub
<1>4. ASSUME NEW c \in Client, Watch(c) PROVE FALSE
    BY <1>4 DEF Watch, ReadForeign, Park, ReadTimeout, RestartDaemon, hub
<1>5. ASSUME NEW c \in Client, NEW kind \in {"claim", "release", "delete"}, RunLate(c, kind)
      PROVE  ~Foreign(c) /\ <<c, "release">> \in late \ late'
    BY <1>5 DEF RunLate, HubClaim, HubRelease, HubDelete, hub
<1>6. HubDown \/ HubBack => FALSE
    BY DEF HubDown, HubBack, hub
<1>. QED
    BY <1>1, <1>2, <1>3, <1>4, <1>5, <1>6 DEF Next

\* A crash of the Hub is not undone.
LEMMA TornStays == ASSUME TypeOK, Next, ~torn' PROVE ~torn
<1>. SUFFICES torn' = torn \/ torn'
    OBVIOUS
<1>1. ASSUME NEW p \in Proc, Resume(p) \/ RequireActive(p) \/ Act(p) PROVE torn' = torn
    BY <1>1 DEF Resume, RequireActive, Act, BeginResume, AcquireForResume, GenerationCheck,
                ReplaceNative, SkipImport, StartSides, VerifyResume, SaveResume, Claim, HubClaim, hub
<1>2. ASSUME NEW p \in Proc, Leave(p) PROVE torn' = torn
    BY <1>2 DEF Leave, DropLocal, ReleaseDropped, ReleaseRemoved, RemoveLocal, RemoveRemote,
                HubRelease, HubDelete, hub
<1>3. ASSUME NEW p \in Proc, Broken(p) PROVE torn' = torn \/ torn'
    BY <1>3 DEF Broken, GiveUp, RequestTimeout, TornClaim, TornRelease, hub
<1>4. ASSUME NEW c \in Client, Watch(c) PROVE torn' = torn
    BY <1>4 DEF Watch, ReadForeign, Park, ReadTimeout, RestartDaemon, hub
<1>5. ASSUME NEW c \in Client, NEW kind \in {"claim", "release", "delete"}, RunLate(c, kind)
      PROVE  torn' = torn
    BY <1>5 DEF RunLate, HubClaim, HubRelease, HubDelete, hub
<1>6. HubDown \/ HubBack => torn' = torn
    BY DEF HubDown, HubBack, hub
<1>. QED
    BY <1>1, <1>2, <1>3, <1>4, <1>5, <1>6 DEF Next

\* A tunnel that is held is freed by a request of its holder alone: neither the
\* deletion of the lock file nor the release of another Client frees it
\* (occupancy.py's release and delete).
THEOREM HeldByHolder == Spec => HeldUntilGivenUp
<1>1. ASSUME GrantInv, Next, NEW c \in Client, Holder = c, Holder' = NoOne, ~torn'
      PROVE  \/ \E p \in Proc : Host[p] = c /\ pc[p] \in {"dropping", "idle"} /\ pc'[p] # pc[p]
             \/ <<c, "release">> \in late \ late'
  <2>1. TypeOK /\ ~torn /\ NoOne \notin Client
    BY <1>1, TornStays, OccupancyAssumption DEF GrantInv, OccupancyAssumption
  <2>2. occ # NoOne
    BY <1>1, <2>1, HolderInJson
  <2>3. occ' = NoOne
    BY <1>1 DEF Holder
  <2>4. PICK d \in Client :
          /\ ~Foreign(d)
          /\ \/ \E p \in Proc : Host[p] = d /\ pc[p] \in {"dropping", "idle"} /\ pc'[p] # pc[p]
             \/ <<d, "release">> \in late \ late'
    BY <1>1, <2>1, <2>2, <2>3, EmptiedByRelease
  <2>5. d = c
    BY <1>1, <2>1, <2>4 DEF Foreign
  <2>. QED
    BY <2>4, <2>5
<1>2. GrantInv /\ [Next]_vars =>
        [\A c \in Client : Holder = c /\ Holder' = NoOne =>
            \/ torn'
            \/ \E p \in Proc : Host[p] = c /\ pc[p] \in {"dropping", "idle"} /\ pc'[p] # pc[p]
            \/ <<c, "release">> \in late \ late']_vars
    BY <1>1
<1>. QED
    BY GrantsInvariant, <1>2, PTL DEF Spec, HeldUntilGivenUp
=============================================================================

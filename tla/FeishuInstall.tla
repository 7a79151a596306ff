--------------------------- MODULE FeishuInstall ---------------------------
(* The PersonalAgent of a deployment: its registration, the credentials at a  *)
(* Client and at the Hub, their way to the other Clients, and their removal   *)
(* (feishu.py, feishu_bridge.py, daemon.py).                                  *)
(*                                                                            *)
(* The credentials are two files, a key and an installation encrypted with    *)
(* it.  A key is a number, in the order they are made; an installation is     *)
(* the key that opens it; 0 is a file that does not exist.                    *)
EXTENDS Integers

CONSTANTS
    Client,      \* Clients of the topology client-failover, with one operator
    Daemon,      \* those of them whose daemon runs
    Job,         \* requests of the console or of dt feishu
    Home,        \* the Client of each job
    MaxKeys,     \* bound on the keys that are made
    MaxFaults    \* bound on what fails or ends early

VARIABLES
    vault,       \* the key and the installation of every Client
    hub,         \* the same at the Hub
    route,       \* the Clients that the operator's route at the Hub names
    waiting,     \* the Clients with a registration.json
    bound,       \* the Clients that have the operator in bindings.json
    job,         \* where each job is
    check,       \* the daemons' refresh: where it is and what it has fetched
    serves,      \* the Clients whose daemon last found a usable installation
    torn,        \* the Clients whose refresh ended between its two files
    keys,        \* keys made so far
    faults

vars == <<vault, hub, route, waiting, bound, job, check, serves, torn, keys, faults>>

Pair == [key : 0 .. MaxKeys, inst : 0 .. MaxKeys]
Nothing == [key |-> 0, inst |-> 0]
Opens(pair) == pair.inst # 0 /\ pair.inst = pair.key
Idle == [at |-> "idle", key |-> 0, inst |-> 0]

JobStep ==
    {"idle", "begun", "polled", "binds", "key", "installation", "route",
     "ends", "clears", "cancels", "unbinds"}

\* CredentialVault.locked: only the refresh holds the lock between two steps.
Unlocked(c) == check[c].at # "half"

Fault == faults < MaxFaults /\ faults' = faults + 1

Init ==
    /\ vault = [c \in Client |-> Nothing] /\ hub = Nothing
    /\ route = {} /\ waiting = {} /\ bound = {}
    /\ job = [j \in Job |-> "idle"]
    /\ check = [c \in Client |-> Idle]
    /\ serves = {} /\ torn = {}
    /\ keys = 0 /\ faults = 0

-----------------------------------------------------------------------------
(* Registration: AppRegistrationService.                                     *)

\* begin: the Client has no installation, and the Hub is not seen to have one:
\* a Hub that does not answer counts as one without (hub_feishu_status).
Begin(j) ==
    LET c == Home[j] IN
    /\ job[j] = "idle" /\ vault[c].inst = 0
    /\ \/ hub.inst = 0 /\ UNCHANGED faults
       \/ hub.inst # 0 /\ Fault
    /\ job' = [job EXCEPT ![j] = "begun"]
    /\ UNCHANGED <<vault, hub, route, waiting, bound, check, serves, torn, keys>>

\* Feishu has answered begin, or has not.
BeginEnds(j) ==
    /\ job[j] = "begun"
    /\ \/ waiting' = waiting \cup {Home[j]} /\ UNCHANGED faults
       \/ Fault /\ UNCHANGED waiting
    /\ job' = [job EXCEPT ![j] = "idle"]
    /\ UNCHANGED <<vault, hub, route, bound, check, serves, torn, keys>>

\* poll reads the session and asks Feishu.
Poll(j) ==
    /\ job[j] = "idle" /\ Home[j] \in waiting
    /\ job' = [job EXCEPT ![j] = "polled"]
    /\ UNCHANGED <<vault, hub, route, waiting, bound, check, serves, torn, keys, faults>>

\* Not authorised yet: the session it read is written back.
StillPending(j) ==
    /\ job[j] = "polled"
    /\ waiting' = waiting \cup {Home[j]}
    /\ job' = [job EXCEPT ![j] = "idle"]
    /\ UNCHANGED <<vault, hub, route, bound, check, serves, torn, keys, faults>>

\* Expired, or rejected by Feishu.
Rejected(j) ==
    /\ job[j] = "polled"
    /\ waiting' = waiting \ {Home[j]}
    /\ job' = [job EXCEPT ![j] = "idle"]
    /\ UNCHANGED <<vault, hub, route, bound, check, serves, torn, keys, faults>>

\* CredentialVault.save: with the key there is, or a new one.
Saved(pair, fresh) ==
    IF pair.key = 0 THEN [key |-> fresh, inst |-> fresh]
                    ELSE [pair EXCEPT !.inst = pair.key]

Granted(j) ==
    LET c == Home[j] IN
    /\ job[j] = "polled" /\ Unlocked(c)
    /\ vault[c].key # 0 \/ keys < MaxKeys
    /\ vault' = [vault EXCEPT ![c] = Saved(@, keys + 1)]
    /\ keys' = IF vault[c].key = 0 THEN keys + 1 ELSE keys
    /\ torn' = torn \ {c}
    /\ job' = [job EXCEPT ![j] = "binds"]
    /\ UNCHANGED <<hub, route, waiting, bound, check, serves, faults>>

Binds(j) ==
    LET c == Home[j] IN
    /\ job[j] = "binds"
    /\ bound' = bound \cup {c}
    /\ job' = [job EXCEPT ![j] =
                  IF vault[c].key # 0 /\ vault[c].inst # 0 THEN "key" ELSE "ends"]
    /\ UNCHANGED <<vault, hub, route, waiting, check, serves, torn, keys, faults>>

\* publish_installation_to_hub: key, installation, routes and the rights of the
\* files, one transfer after the other and without the vault's lock.  A file
\* that is gone by now, or that is not there for chmod, fails as a transfer does.
Published(j, done, next) ==
    /\ \/ done /\ job' = [job EXCEPT ![j] = next] /\ UNCHANGED faults
       \/ Fault /\ job' = [job EXCEPT ![j] = "ends"] /\ UNCHANGED <<hub, route>>
    /\ UNCHANGED <<vault, waiting, bound, check, serves, torn, keys>>

PublishKey(j) ==
    /\ job[j] = "key"
    /\ Published(j, /\ vault[Home[j]].key # 0
                    /\ hub' = [hub EXCEPT !.key = vault[Home[j]].key]
                    /\ UNCHANGED route, "installation")

PublishInstallation(j) ==
    /\ job[j] = "installation"
    /\ Published(j, /\ vault[Home[j]].inst # 0
                    /\ hub' = [hub EXCEPT !.inst = vault[Home[j]].inst]
                    /\ UNCHANGED route, "route")

PublishRoute(j) ==
    /\ job[j] = "route"
    /\ Published(j, route' = {Home[j]} /\ UNCHANGED hub, "ends")

\* The file is gone before its transfer.
NothingToPublish(j) ==
    LET c == Home[j] IN
    /\ \/ job[j] = "key" /\ vault[c].key = 0
       \/ job[j] = "installation" /\ vault[c].inst = 0
    /\ job' = [job EXCEPT ![j] = "ends"]
    /\ UNCHANGED <<vault, hub, route, waiting, bound, check, serves, torn, keys, faults>>

\* The last step of poll, also when publishing failed.
PollEnds(j) ==
    /\ job[j] = "ends"
    /\ waiting' = waiting \ {Home[j]}
    /\ job' = [job EXCEPT ![j] = "idle"]
    /\ UNCHANGED <<vault, hub, route, bound, check, serves, torn, keys, faults>>

-----------------------------------------------------------------------------
(* Removal: uninstall.                                                       *)

\* remove_installation_from_hub; when the Hub does not confirm, all stays.
RemoveFromHub(j) ==
    /\ job[j] = "idle"
    /\ hub' = Nothing
    /\ job' = [job EXCEPT ![j] = "clears"]
    /\ UNCHANGED <<vault, route, waiting, bound, check, serves, torn, keys, faults>>

\* CredentialVault.remove.
RemoveVault(j) ==
    LET c == Home[j] IN
    /\ job[j] = "clears" /\ Unlocked(c)
    /\ vault' = [vault EXCEPT ![c] = Nothing]
    /\ torn' = torn \ {c}
    /\ job' = [job EXCEPT ![j] = "cancels"]
    /\ UNCHANGED <<hub, route, waiting, bound, check, serves, keys, faults>>

\* AppRegistrationService.cancel.
Cancel(j) ==
    /\ job[j] = "cancels"
    /\ waiting' = waiting \ {Home[j]}
    /\ job' = [job EXCEPT ![j] = "unbinds"]
    /\ UNCHANGED <<vault, hub, route, bound, check, serves, torn, keys, faults>>

\* unbind_operator.
Unbind(j) ==
    /\ job[j] = "unbinds"
    /\ bound' = bound \ {Home[j]}
    /\ job' = [job EXCEPT ![j] = "idle"]
    /\ UNCHANGED <<vault, hub, route, waiting, check, serves, torn, keys, faults>>

\* A job ends early: save may have made the key and not the installation,
\* remove may have deleted the installation and not the key.
JobDies(j) ==
    LET c == Home[j] IN
    /\ job[j] # "idle" /\ Fault
    /\ \/ UNCHANGED <<vault, keys>>
       \/ /\ job[j] = "polled" /\ Unlocked(c) /\ vault[c].key = 0 /\ keys < MaxKeys
          /\ vault' = [vault EXCEPT ![c].key = keys + 1]
          /\ keys' = keys + 1
       \/ /\ job[j] = "clears" /\ Unlocked(c)
          /\ vault' = [vault EXCEPT ![c].inst = 0]
          /\ UNCHANGED keys
    /\ job' = [job EXCEPT ![j] = "idle"]
    /\ UNCHANGED <<hub, route, waiting, bound, check, serves, torn>>

-----------------------------------------------------------------------------
(* The daemon: ConnectorManager.installed with sync_installation_from_hub.   *)

Refuses(c) ==
    /\ check' = [check EXCEPT ![c] = Idle]
    /\ serves' = serves \ {c}

(* Mutant: a Client that has an installation is not refreshed. *)
FetchKeyIfNone(c) ==
    /\ check[c].at = "idle"
    /\ check' = [check EXCEPT ![c].at = IF vault[c].inst = 0 THEN "key" ELSE "load",
                             ![c].key = hub.key]
    /\ UNCHANGED <<vault, hub, route, waiting, bound, job, serves, torn, keys, faults>>

\* A transfer from the Hub, of one file.
FetchKey(c) ==
    /\ check[c].at = "idle"
    /\ \/ hub.key # 0 /\ check' = [check EXCEPT ![c] = [@ EXCEPT !.at = "key", !.key = hub.key]]
          /\ UNCHANGED <<serves, faults>>
       \/ hub.key = 0 /\ Refuses(c) /\ UNCHANGED faults
       \/ Fault /\ Refuses(c)
    /\ UNCHANGED <<vault, hub, route, waiting, bound, job, torn, keys>>

FetchInstallation(c) ==
    /\ check[c].at = "key"
    /\ \/ hub.inst # 0
          /\ check' = [check EXCEPT ![c] = [@ EXCEPT !.at = "both", !.inst = hub.inst]]
          /\ UNCHANGED <<serves, faults>>
       \/ hub.inst = 0 /\ Refuses(c) /\ UNCHANGED faults
       \/ Fault /\ Refuses(c)
    /\ UNCHANGED <<vault, hub, route, waiting, bound, job, torn, keys>>

(* Mutant: the pair is not opened before it replaces the old one. *)
ValidatedNot(candidate) == candidate.inst # 0

\* candidate.load: the pair is opened before either file is replaced.
Validated(candidate) == Opens(candidate)

RefusePair(c) ==
    /\ check[c].at = "both" /\ ~Validated(check[c])
    /\ Refuses(c)
    /\ UNCHANGED <<vault, hub, route, waiting, bound, job, torn, keys, faults>>

ReplaceKey(c) ==
    /\ check[c].at = "both" /\ Validated(check[c])
    /\ vault' = [vault EXCEPT ![c].key = check[c].key]
    /\ check' = [check EXCEPT ![c].at = "half"]
    /\ UNCHANGED <<hub, route, waiting, bound, job, serves, torn, keys, faults>>

ReplaceInstallation(c) ==
    /\ check[c].at = "half"
    /\ vault' = [vault EXCEPT ![c].inst = check[c].inst]
    /\ torn' = torn \ {c}
    /\ check' = [check EXCEPT ![c] = [Idle EXCEPT !.at = "load"]]
    /\ UNCHANGED <<hub, route, waiting, bound, job, serves, keys, faults>>

\* installed loads what is there by then.
Load(c) ==
    /\ check[c].at = "load"
    /\ check' = [check EXCEPT ![c] = Idle]
    /\ serves' = IF Opens(vault[c]) THEN serves \cup {c} ELSE serves \ {c}
    /\ UNCHANGED <<vault, hub, route, waiting, bound, job, torn, keys, faults>>

\* The daemon ends; a new one knows nothing.
DaemonDies(c) ==
    /\ Fault
    /\ check[c].at # "idle" \/ c \in serves
    /\ check' = [check EXCEPT ![c] = Idle]
    /\ serves' = serves \ {c}
    /\ torn' = IF check[c].at = "half" THEN torn \cup {c} ELSE torn
    /\ UNCHANGED <<vault, hub, route, waiting, bound, job, keys>>

-----------------------------------------------------------------------------
Requests(j) ==
    \/ Begin(j) \/ BeginEnds(j)
    \/ Poll(j) \/ StillPending(j) \/ Rejected(j) \/ Granted(j) \/ Binds(j)
    \/ PublishKey(j) \/ PublishInstallation(j) \/ PublishRoute(j)
    \/ NothingToPublish(j) \/ PollEnds(j)
    \/ RemoveFromHub(j) \/ RemoveVault(j) \/ Cancel(j) \/ Unbind(j)
    \/ JobDies(j)

Refreshes(c) ==
    \/ FetchKey(c) \/ FetchInstallation(c) \/ RefusePair(c)
    \/ ReplaceKey(c) \/ ReplaceInstallation(c) \/ Load(c)

Next ==
    \/ \E j \in Job : Requests(j)
    \/ \E c \in Daemon : Refreshes(c) \/ DaemonDies(c)

\* The daemon steps every two seconds; users owe nothing.
Spec == Init /\ [][Next]_vars /\ \A c \in Daemon : WF_vars(Refreshes(c))

-----------------------------------------------------------------------------
TypeOK ==
    /\ vault \in [Client -> Pair] /\ hub \in Pair
    /\ route \subseteq Client /\ waiting \subseteq Client /\ bound \subseteq Client
    /\ job \in [Job -> JobStep]
    /\ check \in [Client -> [at : {"idle", "key", "both", "half", "load"},
                             key : 0 .. MaxKeys, inst : 0 .. MaxKeys]]
    /\ serves \subseteq Client /\ torn \subseteq Client
    /\ keys \in 0 .. MaxKeys /\ faults \in 0 .. MaxFaults

\* The credentials of a Client can be opened whenever it has any, though the
\* Hub's two files may come from two Clients, or from before and after a
\* removal; only a refresh that was killed between its two files leaves others.
CredentialsOpen ==
    \A c \in Client :
        vault[c].inst # 0 /\ Unlocked(c) /\ c \notin torn => Opens(vault[c])

\* Why: between its two files a refresh has replaced the key, by that of a
\* pair which it has opened, and nobody else writes there meanwhile.
HalfReplaced ==
    \A c \in Client :
        check[c].at = "half" => Opens(check[c]) /\ vault[c].key = check[c].key

InstallInv == TypeOK /\ HalfReplaced /\ CredentialsOpen

\* Once the Hub keeps credentials that can be opened, every daemon finds them,
\* also after a refresh that was killed.
InstallationSpreads == <>[]Opens(hub) => <>[](Daemon \subseteq serves)
=============================================================================

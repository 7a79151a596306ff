--------------------------- MODULE FeishuMailbox ---------------------------
(***************************************************************************)
(* A command of a chat on its way to a Client and back (feishu_bridge.py,  *)
(* feishu.py, daemon.py: run_feishu_connector).                            *)
(*                                                                         *)
(* Feishu delivers an event at least once.  The Hub puts it into the       *)
(* mailbox of the operator's Client, a directory with one file per event;  *)
(* the Client fetches the files over ssh, runs each command, uploads the   *)
(* answer and removes the file; the Hub sends the answer to the chat.      *)
(* What keeps a command from running twice are files as well: a receipt at *)
(* the Hub, a ledger of events and a lock at the Client.                   *)
(*                                                                         *)
(* Mailbox, receipts, ledger and lock belong to one Client each: this is   *)
(* the mailbox of one of them.                                             *)
(***************************************************************************)
EXTENDS Naturals, Sequences

CONSTANTS
    MaxEvents,      \* bound: events, in the order they are sent
    Operator,
    Name,           \* tunnels that commands name
    Kind,           \* what is asked: a subset of {"run", "destroy", "garbage"}
    Connector,      \* processes at the Hub that serve the chat's WebSocket
    Process,        \* the Client's daemon, ticks and commands, which all sync
    None,
    Entry,          \* how events come in: a subset of {"ws", "webhook"}
    MaxDeliveries,  \* bound: how often Feishu delivers an event
    MaxFaults,      \* bound: processes that end, transfers that fail
    MaxUnbinds,     \* bound: operators that are unbound at the Client
    MaxExpiries     \* bound: entries of the ledger that expire

Event == 1 .. MaxEvents

\* What an operator sends.  Tokens are numbered as they are issued.
Message == [op : Operator, kind : Kind, name : Name, token : Nat \cup {None}]

Verdict == {"ok", "failed", "confirm", "invalid", "unbound", "replayed"}

\* What a command comes to; a confirmation that is asked for carries its token.
Result == [is : Verdict, token : Nat \cup {None}]

ASSUME FeishuMailboxAssumption ==
    /\ MaxEvents \in Nat /\ MaxDeliveries \in Nat
    /\ MaxFaults \in Nat /\ MaxUnbinds \in Nat /\ MaxExpiries \in Nat
    /\ None \notin Process /\ None \notin Event /\ None \notin Nat
    /\ None \notin Message /\ None \notin Result

VARIABLES
    entry,      \* which of the entries this Hub uses
    sent,       \* what each event says
    due,        \* how often Feishu may still deliver it
    conn,       \* what each connector does with an event
    outbox,     \* the answer that each connector has sent and not yet deleted
    mail,       \* at the Hub: commands/<client>
    receipt,    \* at the Hub: receipts/commands/<client>
    answer,     \* at the Hub: responses/<client>
    lock,       \* at the Client: who holds sync.lock
    sync,       \* what each process does with its mailbox
    ledger,     \* at the Client: the events accepted in the last 24 hours
    tokens,     \* at the Client: confirmations that wait for their token
    issued,     \* what each token was issued for
    bound,      \* at the Client: the operators it obeys
    runs,       \* ghost: how often each command was begun
    acks,       \* ghost: how often the chat was told that it was delivered
    seen,       \* ghost: the answers the chat has shown
    disturbed,  \* ghost: a fault, or two deliveries of an event at once
    faults, unbinds, expiries

hub == <<conn, mail, receipt>>
client == <<lock, sync, ledger, tokens, issued, runs>>
world == <<entry, sent, due>>
chat == <<outbox, seen>>
counts == <<faults, unbinds, expiries>>
vars == <<world, hub, answer, acks, client, bound, chat, disturbed, counts>>

Handling == [at : {"idle", "link", "receipt", "reply"}, event : Event \cup {None}]

Syncing == [at : {"idle", "next", "decide", "execute", "upload", "remove"},
            todo : SUBSET Event, event : Event \cup {None}, result : Result \cup {None}]

TypeOK ==
    /\ entry \in Entry
    /\ sent \in [Event -> Message \cup {None}]
    /\ due \in [Event -> 0 .. MaxDeliveries]
    /\ conn \in [Connector -> Handling]
    /\ outbox \in [Connector -> Event \cup {None}]
    /\ mail \in SUBSET Event /\ receipt \in SUBSET Event
    /\ answer \in [Event -> Result \cup {None}]
    /\ lock \in Process \cup {None}
    /\ sync \in [Process -> Syncing]
    /\ ledger \in SUBSET Event /\ tokens \in SUBSET Nat
    /\ issued \in Seq([op : Operator, name : Name])
    /\ bound \in SUBSET Operator
    /\ runs \in [Event -> Nat] /\ acks \in [Event -> Nat]
    /\ seen \in SUBSET (Event \X Result)
    /\ disturbed \in BOOLEAN
    /\ faults \in 0 .. MaxFaults
    /\ unbinds \in 0 .. MaxUnbinds
    /\ expiries \in 0 .. MaxExpiries

Plain(verdict) == [is |-> verdict, token |-> None]

Waiting == [at |-> "idle", event |-> None]

Rest == [at |-> "idle", todo |-> {}, event |-> None, result |-> None]

\* The operators have been paired with the Client.
Init ==
    /\ entry \in Entry
    /\ sent = [e \in Event |-> None]
    /\ due = [e \in Event |-> 0]
    /\ conn = [k \in Connector |-> Waiting]
    /\ outbox = [k \in Connector |-> None]
    /\ mail = {} /\ receipt = {}
    /\ answer = [e \in Event |-> None]
    /\ lock = None
    /\ sync = [p \in Process |-> Rest]
    /\ ledger = {} /\ tokens = {} /\ issued = <<>>
    /\ bound = Operator
    /\ runs = [e \in Event |-> 0]
    /\ acks = [e \in Event |-> 0]
    /\ seen = {}
    /\ disturbed = FALSE
    /\ faults = 0 /\ unbinds = 0 /\ expiries = 0

-----------------------------------------------------------------------------
(* The chat.                                                                 *)

\* An operator writes a command; a token is one that the chat has shown.
Send(e, o, kind, name, token) ==
    /\ sent[e] = None
    /\ \A f \in 1 .. e - 1 : sent[f] # None
    /\ token # None => kind = "destroy"
    /\ sent' = [sent EXCEPT ![e] =
                   [op |-> o, kind |-> kind, name |-> name, token |-> token]]
    /\ due' = [due EXCEPT ![e] = MaxDeliveries]
    /\ UNCHANGED <<entry, hub, answer, acks, client, bound, chat, disturbed, counts>>

Deliver(e) ==
    /\ due[e] > 0
    /\ due' = [due EXCEPT ![e] = @ - 1]
    /\ UNCHANGED <<entry, sent>>

-----------------------------------------------------------------------------
(* The Hub: from the event to the mailbox.                                   *)

Receives(k, e, handling) ==
    /\ entry = "ws"
    /\ conn[k].at = "idle"
    /\ Deliver(e)
    /\ conn' = [conn EXCEPT ![k] = handling]
    /\ disturbed' = (disturbed \/ \E j \in Connector : conn[j].event = e)
    /\ UNCHANGED <<mail, receipt, answer, acks, client, bound, chat, counts>>

\* Mutant: the receipt is not asked for.
ReceiveAgain(k, e) == Receives(k, e, [at |-> "link", event |-> e])

\* on_message of a connector; the operator's route leads to this Client.  An
\* event with a receipt was accepted before (enqueue_once).
Receive(k, e) ==
    Receives(k, e, IF e \in receipt THEN Waiting ELSE [at |-> "link", event |-> e])

\* os.link to the path in the mailbox, unless the file is there.
LinkPath(k) ==
    /\ conn[k].at = "link"
    /\ mail' = mail \cup {conn[k].event}
    /\ conn' = [conn EXCEPT ![k].at = "receipt"]
    /\ UNCHANGED <<world, receipt, answer, acks, client, bound, chat, disturbed, counts>>

LinksReceipt(k, handling) ==
    /\ conn[k].at = "receipt"
    /\ receipt' = receipt \cup {conn[k].event}
    /\ conn' = [conn EXCEPT ![k] = handling]
    /\ UNCHANGED <<world, mail, answer, acks, client, bound, chat, disturbed, counts>>

Accepted(k) == [conn[k] EXCEPT !.at = "reply"]

\* Mutant: who finds the receipt there has accepted the event as well.
LinkReceiptTwice(k) == LinksReceipt(k, Accepted(k))

\* os.link to the receipt: who makes it has accepted the event.
LinkReceipt(k) ==
    LinksReceipt(k, IF conn[k].event \in receipt THEN Waiting ELSE Accepted(k))

\* "Delivered, waiting for the Client."
Acknowledge(k) ==
    /\ conn[k].at = "reply"
    /\ acks' = [acks EXCEPT ![conn[k].event] = @ + 1]
    /\ conn' = [conn EXCEPT ![k] = Waiting]
    /\ UNCHANGED <<world, mail, receipt, answer, client, bound, chat, disturbed, counts>>

\* BridgeApplication.event writes the file whatever was there, without a receipt.
WebhookEvent(e) ==
    /\ entry = "webhook"
    /\ Deliver(e)
    /\ mail' = mail \cup {e}
    /\ UNCHANGED <<conn, receipt, answer, acks, client, bound, chat, disturbed, counts>>

-----------------------------------------------------------------------------
(* The Hub: from the answer to the chat.                                     *)

\* flush_responses sends the answer it reads; one that cannot be sent stays.
SendAnswer(k, e) ==
    /\ outbox[k] = None
    /\ answer[e] # None
    /\ seen' = seen \cup {<<e, answer[e]>>}
    /\ outbox' = [outbox EXCEPT ![k] = e]
    /\ UNCHANGED <<world, hub, answer, acks, client, bound, disturbed, counts>>

\* It deletes the file of that name, which may be another one by now.
DeleteAnswer(k) ==
    /\ outbox[k] # None
    /\ answer' = [answer EXCEPT ![outbox[k]] = None]
    /\ outbox' = [outbox EXCEPT ![k] = None]
    /\ UNCHANGED <<world, hub, acks, client, bound, seen, disturbed, counts>>

-----------------------------------------------------------------------------
(* The Client: sync_client, sync_client_if_pending.                          *)

\* The probe finds a file, and no other process has the lock; then rsync of the
\* mailbox into a temporary directory.
BeginSync(p) ==
    /\ sync[p].at = "idle"
    /\ lock = None
    /\ mail # {}
    /\ lock' = p
    /\ sync' = [sync EXCEPT ![p].at = "next", ![p].todo = mail]
    /\ UNCHANGED <<world, hub, answer, acks, ledger, tokens, issued, runs, bound, chat, disturbed, counts>>

Turns(p, place, result) ==
    sync' = [sync EXCEPT ![p].at = place, ![p].result = result]

Takes(p, e, result) ==
    /\ sync[p].at = "next"
    /\ e \in sync[p].todo
    /\ sync' = [sync EXCEPT ![p] =
                   [at |-> IF result = None THEN "decide" ELSE "upload",
                    todo |-> @.todo \ {e}, event |-> e, result |-> result]]
    /\ UNCHANGED <<world, conn, receipt, answer, acks, lock, tokens, issued, runs,
                   bound, chat, disturbed, counts>>

Replayed(e) == IF e \in ledger THEN Plain("replayed") ELSE None

\* Mutants: the event is not recorded; the binding is asked for before the
\* ledger; the file is removed before the command.
TakeNextUnrecorded(p, e) == Takes(p, e, Replayed(e)) /\ UNCHANGED <<mail, ledger>>

TakeNextBoundFirst(p, e) ==
    /\ Takes(p, e, IF sent[e].op \in bound THEN Replayed(e) ELSE Plain("unbound"))
    /\ ledger' = ledger \cup {e}
    /\ UNCHANGED mail

TakeNextRemoved(p, e) ==
    /\ Takes(p, e, Replayed(e))
    /\ ledger' = ledger \cup {e}
    /\ mail' = mail \ {e}

\* _accept_event: an event in the ledger was processed before.
TakeNext(p, e) ==
    /\ Takes(p, e, Replayed(e))
    /\ ledger' = ledger \cup {e}
    /\ UNCHANGED mail

EndSync(p) ==
    /\ sync[p].at = "next"
    /\ sync[p].todo = {}
    /\ sync' = [sync EXCEPT ![p] = Rest]
    /\ lock' = None
    /\ UNCHANGED <<world, hub, answer, acks, ledger, tokens, issued, runs, bound, chat, disturbed, counts>>

\* A token confirms the command it was issued for, of the same operator.
Confirms(token, m) ==
    /\ token \in tokens
    /\ issued[token] = [op |-> m.op, name |-> m.name]

\* Why dispatch does not execute a command: the operator is not bound, it does
\* not parse or its token does not confirm it, it has to be confirmed first.
Refusal(m) ==
    IF m.op \notin bound THEN Plain("unbound")
    ELSE IF m.kind = "garbage" THEN Plain("invalid")
    ELSE IF m.kind = "destroy" /\ m.token = None
         THEN [is |-> "confirm", token |-> Len(issued) + 1]
    ELSE IF m.kind = "destroy" /\ ~Confirms(m.token, m) THEN Plain("invalid")
    ELSE None

Decides(p, refusal) ==
    LET m == sent[sync[p].event]
    IN  /\ sync[p].at = "decide"
        /\ Turns(p, IF refusal = None THEN "execute" ELSE "upload", refusal)
        /\ issued' = IF refusal # None /\ refusal.is = "confirm"
                     THEN Append(issued, [op |-> m.op, name |-> m.name])
                     ELSE issued
        /\ UNCHANGED <<world, hub, answer, acks, lock, ledger, runs, bound, chat, disturbed, counts>>

\* Mutant: a token is not consumed.
DecideKeepsToken(p) ==
    LET refusal == Refusal(sent[sync[p].event])
    IN  /\ Decides(p, refusal)
        /\ tokens' = IF refusal = None THEN tokens ELSE tokens \cup ({refusal.token} \ {None})

\* dispatch, after the ledger: it issues a token, or consumes one.
Decide(p) ==
    LET refusal == Refusal(sent[sync[p].event])
    IN  /\ Decides(p, refusal)
        /\ tokens' = IF refusal = None THEN tokens \ {sent[sync[p].event].token}
                     ELSE tokens \cup ({refusal.token} \ {None})

\* The control service does it, or reports why not.
Execute(p) ==
    /\ sync[p].at = "execute"
    /\ runs' = [runs EXCEPT ![sync[p].event] = @ + 1]
    /\ \E verdict \in {"ok", "failed"} : Turns(p, "upload", Plain(verdict))
    /\ UNCHANGED <<world, hub, answer, acks, lock, ledger, tokens, issued, bound, chat, disturbed, counts>>

\* rsync of the answer, over one that is there.
Upload(p) ==
    /\ sync[p].at = "upload"
    /\ answer' = [answer EXCEPT ![sync[p].event] = sync[p].result]
    /\ Turns(p, "remove", None)
    /\ UNCHANGED <<world, hub, acks, lock, ledger, tokens, issued, runs, bound, chat, disturbed, counts>>

\* rm -f of the command.
RemoveCommand(p) ==
    /\ sync[p].at = "remove"
    /\ mail' = mail \ {sync[p].event}
    /\ sync' = [sync EXCEPT ![p].at = "next", ![p].event = None]
    /\ UNCHANGED <<world, conn, receipt, answer, acks, lock, ledger, tokens, issued, runs, bound, chat, disturbed, counts>>

-----------------------------------------------------------------------------
(* What goes wrong.                                                          *)

Fault ==
    /\ faults < MaxFaults
    /\ faults' = faults + 1
    /\ disturbed' = TRUE
    /\ UNCHANGED <<unbinds, expiries>>

\* The process ends; or a transfer fails, or the command raises what nobody
\* expects, and the sync ends.  What it uploaded may have arrived.
StopSync(p) ==
    /\ sync[p].at # "idle"
    /\ Fault
    /\ sync' = [sync EXCEPT ![p] = Rest]
    /\ lock' = None
    /\ UNCHANGED <<world, hub, answer, acks, ledger, tokens, issued, runs, bound, chat>>

\* The rm fails: the sync counts an error and goes on.
RemoveFails(p) ==
    /\ sync[p].at = "remove"
    /\ Fault
    /\ sync' = [sync EXCEPT ![p].at = "next", ![p].event = None]
    /\ UNCHANGED <<world, hub, answer, acks, lock, ledger, tokens, issued, runs, bound, chat>>

StopConnector(k) ==
    /\ conn[k] # Waiting \/ outbox[k] # None
    /\ Fault
    /\ conn' = [conn EXCEPT ![k] = Waiting]
    /\ outbox' = [outbox EXCEPT ![k] = None]
    /\ UNCHANGED <<world, mail, receipt, answer, acks, client, bound, seen>>

Unbind(o) ==
    /\ unbinds < MaxUnbinds
    /\ o \in bound
    /\ bound' = bound \ {o}
    /\ unbinds' = unbinds + 1
    /\ UNCHANGED <<world, hub, answer, acks, client, chat, disturbed, faults, expiries>>

\* _StateStore.mutate drops what has expired: a confirmation after five
\* minutes, an event after 24 hours.
ExpireToken(t) ==
    /\ t \in tokens
    /\ tokens' = tokens \ {t}
    /\ UNCHANGED <<world, hub, answer, acks, lock, sync, ledger, issued, runs, bound, chat, disturbed, counts>>

ExpireEvent(e) ==
    /\ expiries < MaxExpiries
    /\ e \in ledger
    /\ ledger' = ledger \ {e}
    /\ expiries' = expiries + 1
    /\ UNCHANGED <<world, hub, answer, acks, lock, sync, tokens, issued, runs, bound, chat, disturbed, faults, unbinds>>

-----------------------------------------------------------------------------
ChatNext ==
    \E e \in Event, o \in Operator, kind \in Kind, name \in Name,
            token \in {None} \cup {s[2].token : s \in seen} :
        Send(e, o, kind, name, token)

HubNext ==
    \/ \E e \in Event : WebhookEvent(e)
    \/ \E k \in Connector :
          \/ \E e \in Event : Receive(k, e) \/ SendAnswer(k, e)
          \/ LinkPath(k) \/ LinkReceipt(k) \/ Acknowledge(k)
          \/ DeleteAnswer(k) \/ StopConnector(k)

ClientNext ==
    \E p \in Process :
        \/ BeginSync(p) \/ EndSync(p)
        \/ \E e \in Event : TakeNext(p, e)
        \/ Decide(p) \/ Execute(p) \/ Upload(p) \/ RemoveCommand(p)
        \/ StopSync(p) \/ RemoveFails(p)

StoreNext ==
    \/ \E o \in Operator : Unbind(o)
    \/ \E t \in tokens : ExpireToken(t)
    \/ \E e \in Event : ExpireEvent(e)

Next == ChatNext \/ HubNext \/ ClientNext \/ StoreNext

Spec == Init /\ [][Next]_vars

\* A sync that has begun goes on.
Syncs(p) ==
    \/ \E e \in Event : TakeNext(p, e)
    \/ Decide(p) \/ Execute(p) \/ Upload(p) \/ RemoveCommand(p)
    \/ EndSync(p)

\* The cron tick, if not the daemon's mailbox worker, syncs again and again, and
\* the Hub's outbox thread loops.  Nothing is owed by Feishu and by operators.
FairSpec ==
    /\ Spec
    /\ WF_vars(\E p \in Process : BeginSync(p))
    /\ \A p \in Process : WF_vars(Syncs(p))
    /\ \A k \in Connector :
          /\ WF_vars(DeleteAnswer(k))
          /\ \A e \in Event : WF_vars(SendAnswer(k, e))

-----------------------------------------------------------------------------
(* Properties.                                                               *)

\* A command runs at most once, however often Feishu delivers it, whichever
\* process ends where, and whether or not its file could be removed; only an
\* event whose entry in the ledger expires while its file is still in the
\* mailbox may run again.
AtMostOnce == \A e \in Event : runs[e] <= 1 + expiries

\* The chat is told at most once that an event was delivered, also when two
\* connectors handle it at the same time (_write_envelope_once).
AcknowledgedOnce == \A e \in Event : acks[e] <= 1

\* A destructive command runs only with a token that was issued to the same
\* operator for the same tunnel, and a token serves once, for one command: even
\* when the ledger has forgotten the event.
ConfirmedOnce ==
    \A e \in Event : sent[e] # None /\ sent[e].kind = "destroy" /\ runs[e] > 0 =>
        LET t == sent[e].token
        IN  /\ runs[e] = 1
            /\ t # None
            /\ issued[t] = [op |-> sent[e].op, name |-> sent[e].name]
            /\ \A f \in Event : sent[f] # None /\ sent[f].token = t /\ runs[f] > 0 => f = e

\* What the chat shows is true: a command reported as done or failed was
\* begun, and one reported as refused never is while the ledger remembers it.
AnswersTrue ==
    \A s \in seen :
        /\ s[2].is \in {"ok", "failed"} => runs[s[1]] > 0
        /\ s[2].is \in {"confirm", "invalid", "unbound"} /\ expiries = 0 => runs[s[1]] = 0

\* Without a fault no chat is told that its command was processed before
\* instead of what came of it: receipts and lock keep every event from a second
\* dispatch, which the ledger would answer so.
NoSpuriousReplay ==
    entry = "ws" /\ ~disturbed => \A s \in seen : s[2].is # "replayed"

\* An event that got into the mailbox is answered, if faults are not for ever.
Answered(e) == e \in mail ~> \E s \in seen : s[1] = e

-----------------------------------------------------------------------------
(* The inductive invariants of AnswersTrue and NoSpuriousReplay.             *)

\* The answers that the chat has shown, that lie at the Hub and that are about
\* to be uploaded.
Said ==
    seen
      \cup {<<e, answer[e]>> : e \in {x \in Event : answer[x] # None}}
      \cup {<<sync[p].event, sync[p].result>> : p \in {q \in Process : sync[q].at = "upload"}}

Refusals == {"confirm", "invalid", "unbound"}

\* While the ledger has forgotten nothing, an event that was begun or refused is
\* in it, and one that is dispatched was neither.
TruthInv ==
    /\ \A s \in Said : s[2].is \in {"ok", "failed"} => runs[s[1]] > 0
    /\ expiries = 0 =>
          /\ \A s \in Said : s[2].is \in Refusals => runs[s[1]] = 0 /\ s[1] \in ledger
          /\ \A e \in Event : runs[e] > 0 => e \in ledger
          /\ \A p \in Process : sync[p].at \in {"decide", "execute"} =>
                /\ sync[p].event \in ledger /\ runs[sync[p].event] = 0
                /\ \A s \in Said : s[1] = sync[p].event => s[2].is \notin Refusals

Handles(k, place, e) == conn[k].at = place /\ conn[k].event = e

\* An event that has come to the Client has its receipt, or its connector is
\* about to link it; one that is about to come is nowhere yet.
ReceiptInv ==
    /\ \A j, k \in Connector :
          conn[j].at # "idle" /\ conn[k].at # "idle" /\ conn[j].event = conn[k].event
          => j = k
    /\ \A e \in mail \cup ledger :
          e \in receipt \/ \E k \in Connector : Handles(k, "receipt", e)
    /\ \A k \in Connector : conn[k].at = "link" =>
          conn[k].event \notin receipt \cup mail \cup ledger

\* A sync has fetched nothing before it begins, and has taken what it dispatches.
Fetched == \A p \in Process :
    /\ sync[p].at = "idle" => sync[p].todo = {}
    /\ sync[p].at \notin {"idle", "next"} => sync[p].event \notin sync[p].todo

\* A command that the Client has fetched and not yet taken is in the mailbox and
\* not in the ledger; one that is in both is dispatched.
TakenInv ==
    /\ \A p \in Process : sync[p].todo \subseteq mail \ ledger
    /\ \A e \in mail \cap ledger : \E p \in Process :
          sync[p].at \notin {"idle", "next"} /\ sync[p].event = e
    /\ \A s \in Said : s[2].is # "replayed"

CalmInv == entry = "ws" /\ ~disturbed => ReceiptInv /\ TakenInv
=============================================================================

------------------------ MODULE FeishuMailboxProofs ------------------------
(* Theorems about the mailbox of a Client.                                   *)
EXTENDS FeishuMailbox, TLAPS

\* Whatever travels is an event that was sent.
Travels(e) == e \in Event /\ sent[e] # None

Known ==
    /\ \A e \in Event : due[e] > 0 => Travels(e)
    /\ \A e \in Event : sent[e] # None /\ sent[e].token # None => sent[e].kind = "destroy"
    /\ \A k \in Connector : conn[k].at # "idle" => Travels(conn[k].event)
    /\ \A e \in mail : Travels(e)
    /\ \A p \in Process : \A e \in sync[p].todo : Travels(e)
    /\ \A p \in Process : sync[p].at \notin {"idle", "next"} => Travels(sync[p].event)

TypeInv == TypeOK /\ Known

\* The initial states have their types, and nothing travels in them.
LEMMA InitTypes == Init => TypeInv
  <1> SUFFICES ASSUME Init PROVE TypeInv
    OBVIOUS
  <1>1. /\ conn \in [Connector -> Handling]
        /\ sync \in [Process -> Syncing]
    BY DEF Init, Handling, Syncing, Waiting, Rest
  <1>2. /\ entry \in Entry
        /\ mail \in SUBSET Event /\ receipt \in SUBSET Event
        /\ ledger \in SUBSET Event /\ tokens \in SUBSET Nat
        /\ bound \in SUBSET Operator /\ seen \in SUBSET (Event \X Result)
        /\ issued \in Seq([op : Operator, name : Name])
        /\ disturbed \in BOOLEAN
    <2>1. disturbed \in BOOLEAN
      BY Zenon DEF Init
    <2>2. issued \in Seq([op : Operator, name : Name])
      BY DEF Init
    <2> QED BY <2>1, <2>2 DEF Init
  <1>3. /\ due \in [Event -> 0 .. MaxDeliveries]
        /\ runs \in [Event -> Nat] /\ acks \in [Event -> Nat]
        /\ faults \in 0 .. MaxFaults
        /\ unbinds \in 0 .. MaxUnbinds
        /\ expiries \in 0 .. MaxExpiries
    BY FeishuMailboxAssumption DEF Init
  <1>5. /\ sent \in [Event -> Message \cup {None}]
        /\ outbox \in [Connector -> Event \cup {None}]
        /\ answer \in [Event -> Result \cup {None}]
        /\ lock \in Process \cup {None}
    BY DEF Init
  <1>6. TypeOK
    BY <1>1, <1>2, <1>3, <1>5 DEF TypeOK
  <1>4. Known
    BY DEF Init, Known, Waiting, Rest
  <1> QED BY <1>4, <1>6 DEF TypeInv

\* A fault is counted, and disturbs.
LEMMA FaultTypes ==
  ASSUME TypeOK, Fault
  PROVE  /\ faults' \in 0 .. MaxFaults /\ disturbed' \in BOOLEAN
         /\ UNCHANGED <<unbinds, expiries>>
  BY FeishuMailboxAssumption DEF TypeOK, Fault

\* A new event is what an operator sends; it travels from then on.
LEMMA ChatTypes == TypeInv /\ ChatNext => TypeInv'
  <1> SUFFICES ASSUME TypeInv,
                      NEW e \in Event, NEW o \in Operator, NEW kind \in Kind, NEW name \in Name,
                      NEW token \in {None} \cup {s[2].token : s \in seen},
                      Send(e, o, kind, name, token)
               PROVE  TypeInv'
    BY DEF ChatNext
  <1>1. token \in Nat \cup {None}
    BY DEF TypeInv, TypeOK, Result
  <1> DEFINE m == [op |-> o, kind |-> kind, name |-> name, token |-> token]
  <1>2. m \in Message /\ m # None
    BY <1>1, FeishuMailboxAssumption DEF Message
  <1>3. TypeOK'
    <2>1. sent' \in [Event -> Message \cup {None}]
      <3>1. sent' = [sent EXCEPT ![e] = m]
        BY DEF Send
      <3> HIDE DEF m
      <3> QED BY <1>2, <3>1 DEF TypeInv, TypeOK
    <2>2. due' \in [Event -> 0 .. MaxDeliveries]
      BY FeishuMailboxAssumption DEF Send, TypeInv, TypeOK
    <2> HIDE DEF m
    <2> QED BY <2>1, <2>2 DEF Send, TypeInv, TypeOK, hub, client, chat, counts
  <1>4. Known'
    <2>1. /\ sent \in [Event -> Message \cup {None}] /\ due \in [Event -> 0 .. MaxDeliveries]
          /\ Known
      BY DEF TypeInv, TypeOK
    <2>2. /\ sent' = [sent EXCEPT ![e] = m] /\ due' = [due EXCEPT ![e] = MaxDeliveries]
          /\ UNCHANGED <<conn, mail, sync>>
      BY DEF Send, hub, client
    <2>3. m.token # None => m.kind = "destroy"
      BY DEF Send
    <2> HIDE DEF m
    <2>4. Travels(e)' /\ \A f : Travels(f) => Travels(f)'
      BY <1>2, <2>1, <2>2 DEF Travels
    <2>5. \A f \in Event : due'[f] > 0 => Travels(f)'
      BY <2>1, <2>2, <2>4 DEF Known
    <2>6. \A f \in Event : sent'[f] # None /\ sent'[f].token # None
                               => sent'[f].kind = "destroy"
      BY <2>1, <2>2, <2>3 DEF Known
    <2> QED BY <2>1, <2>2, <2>4, <2>5, <2>6 DEF Known
  <1> QED BY <1>3, <1>4 DEF TypeInv

\* The steps of the Hub preserve the types, and pass on what was sent.
LEMMA HubTypes == TypeInv /\ HubNext => TypeInv'
  <1> SUFFICES ASSUME TypeInv, HubNext
               PROVE  TypeInv'
    OBVIOUS
  <1> USE FeishuMailboxAssumption DEF TypeInv
  <1>1. CASE \E e \in Event : WebhookEvent(e)
    <2> PICK e \in Event : WebhookEvent(e)
      BY <1>1
    <2>1. TypeOK'
      BY DEF TypeOK, WebhookEvent, Deliver, client, chat, counts
    <2>2. Known'
      BY DEF Known, Travels, TypeOK, WebhookEvent, Deliver, client
    <2> QED BY <2>1, <2>2
  <1>2. ASSUME NEW k \in Connector, NEW e \in Event, Receive(k, e)
        PROVE  TypeInv'
    <2> DEFINE handling == IF e \in receipt THEN Waiting ELSE [at |-> "link", event |-> e]
    <2>1. handling \in Handling /\ (handling.at # "idle" => handling.event = e)
      BY DEF Handling, Waiting
    <2>2. /\ entry' = entry /\ sent' = sent
          /\ due[e] > 0 /\ due' = [due EXCEPT ![e] = @ - 1]
          /\ conn' = [conn EXCEPT ![k] = handling]
          /\ UNCHANGED <<mail, receipt, answer, acks, client, bound, chat, counts>>
      BY <1>2 DEF Receive, Receives, Deliver
    <2>3. disturbed' \in BOOLEAN
      BY <1>2, Zenon DEF Receive, Receives
    <2> HIDE DEF handling
    <2>6. conn' \in [Connector -> Handling] /\ due' \in [Event -> 0 .. MaxDeliveries]
      BY <2>1, <2>2 DEF TypeOK
    <2>4. TypeOK'
      BY <2>2, <2>3, <2>6, Zenon DEF TypeOK, client, chat, counts
    <2>5. Known'
      BY <2>1, <2>2 DEF Known, Travels, TypeOK, client
    <2> QED BY <2>4, <2>5
  <1>3. ASSUME NEW k \in Connector, NEW e \in Event, SendAnswer(k, e)
        PROVE  TypeInv'
    <2>1. TypeOK'
      BY <1>3 DEF TypeOK, SendAnswer, world, hub, client, counts
    <2>2. Known'
      BY <1>3 DEF Known, Travels, SendAnswer, world, hub, client
    <2> QED BY <2>1, <2>2
  <1>4. ASSUME NEW k \in Connector, LinkPath(k)
        PROVE  TypeInv'
    <2>3. Travels(conn[k].event) /\ conn[k] \in Handling
      BY <1>4 DEF TypeOK, Known, LinkPath
    <2>4. [conn[k] EXCEPT !.at = "receipt"] \in Handling
      BY <2>3 DEF Handling
    <2>5. conn' = [conn EXCEPT ![k] = [conn[k] EXCEPT !.at = "receipt"]]
      BY <1>4 DEF LinkPath
    <2>6. conn' \in [Connector -> Handling] /\ mail' \in SUBSET Event
      BY <1>4, <2>3, <2>4, <2>5 DEF TypeOK, Travels, LinkPath
    <2>1. TypeOK'
      BY <1>4, <2>6 DEF TypeOK, LinkPath, world, client, chat, counts
    <2>2. Known'
      BY <1>4 DEF Known, Travels, TypeOK, Handling, LinkPath, world, client
    <2> QED BY <2>1, <2>2
  <1>5. ASSUME NEW k \in Connector, LinkReceipt(k)
        PROVE  TypeInv'
    <2> DEFINE handling == IF conn[k].event \in receipt THEN Waiting ELSE Accepted(k)
    <2>1. /\ handling \in Handling
          /\ handling.at # "idle" => Travels(handling.event)
      BY <1>5 DEF Handling, Waiting, Accepted, LinkReceipt, LinksReceipt, TypeOK, Known
    <2>2. /\ receipt' = receipt \cup {conn[k].event}
          /\ conn' = [conn EXCEPT ![k] = handling]
          /\ UNCHANGED <<world, mail, answer, acks, client, bound, chat, disturbed, counts>>
      BY <1>5 DEF LinkReceipt, LinksReceipt
    <2>3. Travels(conn[k].event)
      BY <1>5 DEF LinkReceipt, LinksReceipt, Known
    <2> HIDE DEF handling
    <2>4. TypeOK'
      BY <2>1, <2>2, <2>3 DEF TypeOK, Travels, world, client, chat, counts
    <2>5. Known'
      BY <2>1, <2>2 DEF Known, Travels, TypeOK, world, client
    <2> QED BY <2>4, <2>5
  <1>6. ASSUME NEW k \in Connector, Acknowledge(k)
        PROVE  TypeInv'
    <2>1. TypeOK'
      BY <1>6 DEF TypeOK, Known, Travels, Acknowledge, Waiting, Handling,
                  world, client, chat, counts
    <2>2. Known'
      BY <1>6 DEF Known, Travels, TypeOK, Acknowledge, Waiting, world, client
    <2> QED BY <2>1, <2>2
  <1>7. ASSUME NEW k \in Connector, DeleteAnswer(k)
        PROVE  TypeInv'
    <2>1. TypeOK'
      BY <1>7 DEF TypeOK, DeleteAnswer, world, hub, client, counts
    <2>2. Known'
      BY <1>7 DEF Known, Travels, DeleteAnswer, world, hub, client
    <2> QED BY <2>1, <2>2
  <1>8. ASSUME NEW k \in Connector, StopConnector(k)
        PROVE  TypeInv'
    <2>1. TypeOK'
      <3>1. Fault
        BY <1>8 DEF StopConnector
      <3>2. /\ conn' \in [Connector -> Handling]
            /\ outbox' \in [Connector -> Event \cup {None}]
        BY <1>8 DEF TypeOK, StopConnector, Waiting, Handling
      <3> QED BY <1>8, <3>1, <3>2, FaultTypes DEF TypeOK, StopConnector, world, client
    <2>2. Known'
      BY <1>8 DEF Known, Travels, TypeOK, StopConnector, Waiting, world, client
    <2> QED BY <2>1, <2>2
  <1> QED BY <1>1, <1>2, <1>3, <1>4, <1>5, <1>6, <1>7, <1>8 DEF HubNext

\* Why a command is not executed is a result.
LEMMA RefusalType ==
  ASSUME NEW m \in Message, TypeOK
  PROVE  /\ Refusal(m) \in Result \cup {None}
         /\ Refusal(m) # None => Refusal(m).token \in Nat \cup {None}
  <1>1. Len(issued) + 1 \in Nat
    BY DEF TypeOK
  <1> QED BY <1>1 DEF Refusal, Plain, Result, Verdict

\* The steps of a sync preserve the types, and handle what was sent.
LEMMA ClientTypes == TypeInv /\ ClientNext => TypeInv'
  <1> SUFFICES ASSUME TypeInv, NEW p \in Process,
                      \/ BeginSync(p) \/ EndSync(p)
                      \/ \E e \in Event : TakeNext(p, e)
                      \/ Decide(p) \/ Execute(p) \/ Upload(p) \/ RemoveCommand(p)
                      \/ StopSync(p) \/ RemoveFails(p)
               PROVE  TypeInv'
    BY DEF ClientNext
  <1> USE FeishuMailboxAssumption DEF TypeInv
  <1>0. /\ sync \in [Process -> Syncing] /\ sync[p] \in Syncing
        /\ Rest \in Syncing
    BY DEF TypeOK, Syncing, Rest
  <1>1. CASE BeginSync(p)
    <2>1. [sync[p] EXCEPT !.at = "next", !.todo = mail] \in Syncing
      BY <1>0 DEF Syncing, TypeOK
    <2>2. sync' = [sync EXCEPT ![p] = [sync[p] EXCEPT !.at = "next", !.todo = mail]]
      BY <1>1 DEF BeginSync
    <2>3. sync' \in [Process -> Syncing]
      BY <1>0, <2>1, <2>2
    <2>4. TypeOK'
      BY <1>1, <2>3 DEF TypeOK, BeginSync, world, hub, chat, counts
    <2>5. Known'
      BY <1>0, <1>1, <2>1, <2>2 DEF Known, Travels, BeginSync, world, hub, Syncing
    <2> QED BY <2>4, <2>5
  <1>2. CASE EndSync(p)
    <2>1. sync' = [sync EXCEPT ![p] = Rest] /\ sync' \in [Process -> Syncing]
      BY <1>0, <1>2 DEF EndSync
    <2>2. TypeOK'
      BY <1>2, <2>1 DEF TypeOK, EndSync, world, hub, chat, counts
    <2>3. Known'
      BY <1>0, <1>2, <2>1 DEF Known, Travels, EndSync, Rest, world, hub
    <2> QED BY <2>2, <2>3
  <1>3. ASSUME NEW e \in Event, TakeNext(p, e)
        PROVE  TypeInv'
    <2> DEFINE next == [at |-> IF Replayed(e) = None THEN "decide" ELSE "upload",
                        todo |-> sync[p].todo \ {e}, event |-> e, result |-> Replayed(e)]
    <2>1. next \in Syncing /\ next.todo \subseteq sync[p].todo
      BY <1>0 DEF Syncing, Replayed, Plain, Result, Verdict
    <2>2. sync' = [sync EXCEPT ![p] = next]
      BY <1>3 DEF TakeNext, Takes
    <2>3. e \in sync[p].todo /\ next.event = e
      BY <1>3 DEF TakeNext, Takes
    <2> HIDE DEF next
    <2>4. sync' \in [Process -> Syncing]
      BY <1>0, <2>1, <2>2
    <2>5. TypeOK'
      BY <1>3, <2>4 DEF TypeOK, TakeNext, Takes, world, chat, counts
    <2>6. Known'
      BY <1>0, <1>3, <2>1, <2>2, <2>3 DEF Known, Travels, TakeNext, Takes, world
    <2> QED BY <2>5, <2>6
  <1>4. CASE Decide(p)
    <2> DEFINE m == sent[sync[p].event]
               refusal == Refusal(m)
               next == [sync[p] EXCEPT !.at = IF refusal = None THEN "execute" ELSE "upload",
                                       !.result = refusal]
    <2>1. Travels(sync[p].event)
      BY <1>4 DEF Decide, Decides, Known
    <2>2. m \in Message
      BY <2>1 DEF TypeOK, Travels
    <2>3. /\ refusal \in Result \cup {None}
          /\ refusal # None => refusal.token \in Nat \cup {None}
      BY <2>2, RefusalType
    <2>4. /\ tokens' = IF refusal = None THEN tokens \ {m.token}
                       ELSE tokens \cup ({refusal.token} \ {None})
          /\ sync' = [sync EXCEPT ![p] = next]
          /\ issued' = IF refusal # None /\ refusal.is = "confirm"
                       THEN Append(issued, [op |-> m.op, name |-> m.name])
                       ELSE issued
          /\ UNCHANGED <<world, hub, answer, acks, lock, ledger, runs, bound, chat, disturbed, counts>>
      BY <1>4 DEF Decide, Decides, Turns
    <2> HIDE DEF refusal
    <2>5. next \in Syncing /\ next.event = sync[p].event /\ next.todo = sync[p].todo
      BY <1>0, <2>3 DEF Syncing
    <2> HIDE DEF next
    <2>6. sync' \in [Process -> Syncing]
      BY <1>0, <2>4, <2>5
    <2>7. issued' \in Seq([op : Operator, name : Name])
      <3>1. [op |-> m.op, name |-> m.name] \in [op : Operator, name : Name]
        BY <2>2 DEF Message
      <3>2. issued \in Seq([op : Operator, name : Name])
        BY DEF TypeOK
      <3>3. Append(issued, [op |-> m.op, name |-> m.name]) \in Seq([op : Operator, name : Name])
        BY <3>1, <3>2
      <3> HIDE DEF m
      <3> QED BY <2>4, <3>2, <3>3, Zenon
    <2>8. tokens' \in SUBSET Nat
      BY <2>3, <2>4 DEF TypeOK
    <2>9. TypeOK'
      BY <2>4, <2>6, <2>7, <2>8 DEF TypeOK, world, hub, chat, counts
    <2>10. Known'
      BY <1>0, <2>1, <2>4, <2>5 DEF Known, Travels, world, hub
    <2> QED BY <2>9, <2>10
  <1>5. CASE Execute(p)
    <2>1. PICK verdict \in {"ok", "failed"} : Turns(p, "upload", Plain(verdict))
      BY <1>5 DEF Execute
    <2> DEFINE next == [sync[p] EXCEPT !.at = "upload", !.result = Plain(verdict)]
    <2>2. next \in Syncing /\ next.event = sync[p].event /\ next.todo = sync[p].todo
      BY <1>0 DEF Syncing, Plain, Result, Verdict
    <2>3. sync' = [sync EXCEPT ![p] = next]
      BY <2>1 DEF Turns
    <2>4. Travels(sync[p].event)
      BY <1>5 DEF Execute, Known
    <2> HIDE DEF next
    <2>5. sync' \in [Process -> Syncing]
      BY <1>0, <2>2, <2>3
    <2>6. runs' \in [Event -> Nat]
      BY <1>5, <2>4 DEF Execute, TypeOK, Travels
    <2>7. TypeOK'
      BY <1>5, <2>5, <2>6 DEF TypeOK, Execute, world, hub, chat, counts
    <2>8. Known'
      BY <1>0, <1>5, <2>2, <2>3, <2>4 DEF Known, Travels, Execute, world, hub
    <2> QED BY <2>7, <2>8
  <1>6. CASE Upload(p)
    <2> DEFINE next == [sync[p] EXCEPT !.at = "remove", !.result = None]
    <2>1. next \in Syncing /\ next.event = sync[p].event /\ next.todo = sync[p].todo
      BY <1>0 DEF Syncing
    <2>2. sync' = [sync EXCEPT ![p] = next]
      BY <1>6 DEF Upload, Turns
    <2>3. Travels(sync[p].event)
      BY <1>6 DEF Upload, Known
    <2> HIDE DEF next
    <2>4. sync' \in [Process -> Syncing]
      BY <1>0, <2>1, <2>2
    <2>5. answer' \in [Event -> Result \cup {None}]
      BY <1>0, <1>6, <2>3 DEF Upload, TypeOK, Travels, Syncing
    <2>6. TypeOK'
      BY <1>6, <2>4, <2>5 DEF TypeOK, Upload, world, hub, chat, counts
    <2>7. Known'
      BY <1>0, <1>6, <2>1, <2>2, <2>3 DEF Known, Travels, Upload, world, hub
    <2> QED BY <2>6, <2>7
  <1>7. CASE RemoveCommand(p) \/ RemoveFails(p)
    <2> DEFINE next == [sync[p] EXCEPT !.at = "next", !.event = None]
    <2>1. next \in Syncing /\ next.todo = sync[p].todo /\ next.at = "next"
      BY <1>0 DEF Syncing
    <2>2. sync' = [sync EXCEPT ![p] = next]
      BY <1>7 DEF RemoveCommand, RemoveFails
    <2> HIDE DEF next
    <2>3. sync' \in [Process -> Syncing]
      BY <1>0, <2>1, <2>2
    <2>4. CASE RemoveCommand(p)
      <3>1. TypeOK'
        BY <2>3, <2>4 DEF TypeOK, RemoveCommand, world, chat, counts
      <3>2. Known'
        BY <1>0, <2>1, <2>2, <2>4 DEF Known, Travels, RemoveCommand, world
      <3> QED BY <3>1, <3>2
    <2>5. CASE RemoveFails(p)
      <3>1. Fault
        BY <2>5 DEF RemoveFails
      <3>3. TypeOK'
        BY <2>3, <2>5, <3>1, FaultTypes DEF TypeOK, RemoveFails, world, hub, chat
      <3>2. Known'
        BY <1>0, <2>1, <2>2, <2>5 DEF Known, Travels, RemoveFails, world, hub
      <3> QED BY <3>2, <3>3
    <2> QED BY <1>7, <2>4, <2>5
  <1>8. CASE StopSync(p)
    <2>1. sync' = [sync EXCEPT ![p] = Rest] /\ sync' \in [Process -> Syncing]
      BY <1>0, <1>8 DEF StopSync
    <2>2. TypeOK'
      <3>1. Fault
        BY <1>8 DEF StopSync
      <3> QED BY <1>8, <2>1, <3>1, FaultTypes DEF TypeOK, StopSync, world, hub, chat
    <2>3. Known'
      BY <1>0, <1>8, <2>1 DEF Known, Travels, StopSync, Rest, world, hub
    <2> QED BY <2>2, <2>3
  <1> QED BY <1>1, <1>2, <1>3, <1>4, <1>5, <1>6, <1>7, <1>8

\* What expires or is unbound disturbs no type.
LEMMA StoreTypes == TypeInv /\ StoreNext => TypeInv'
  <1> SUFFICES ASSUME TypeInv, StoreNext
               PROVE  TypeInv'
    OBVIOUS
  <1> USE FeishuMailboxAssumption DEF TypeInv
  <1>1. UNCHANGED <<world, hub, answer, acks, lock, sync, issued, runs, chat, disturbed, faults>>
    BY DEF StoreNext, Unbind, ExpireToken, ExpireEvent, client, counts
  <1>2. /\ ledger' \subseteq ledger /\ tokens' \subseteq tokens /\ bound' \subseteq bound
        /\ unbinds' \in 0 .. MaxUnbinds /\ expiries' \in 0 .. MaxExpiries
    BY DEF StoreNext, Unbind, ExpireToken, ExpireEvent, client, counts, TypeOK
  <1>3. TypeOK'
    BY <1>1, <1>2 DEF TypeOK, world, hub, chat
  <1>4. Known'
    BY <1>1 DEF Known, Travels, world, hub
  <1> QED BY <1>3, <1>4

\* A stuttering step disturbs no type.
LEMMA StutterTypes == TypeInv /\ UNCHANGED vars => TypeInv'
  BY DEF TypeInv, TypeOK, Known, Travels, vars, world, hub, client, chat, counts

\* Every step preserves the types.
LEMMA TypeStep == TypeInv /\ [Next]_vars => TypeInv'
  BY ChatTypes, HubTypes, ClientTypes, StoreTypes, StutterTypes DEF Next

\* Type correctness: whatever the number of events, connectors and processes,
\* every variable keeps the values the code gives it, and nothing is linked,
\* fetched or executed that no operator sent.
THEOREM TypeCorrect == Spec => []TypeOK
  <1>1. TypeInv => TypeOK
    BY DEF TypeInv
  <1> QED BY <1>1, InitTypes, TypeStep, PTL DEF Spec

-----------------------------------------------------------------------------
\* sync.lock: one process syncs at a time.
LockHeld == \A p \in Process : sync[p].at # "idle" => lock = p

\* An event that the ledger has forgotten has run no more often than the ledger
\* has forgotten something, and so has an event that is about to run.
Counted ==
    /\ \A e \in Event : runs[e] <= 1 + expiries
    /\ \A e \in Event : e \notin ledger => runs[e] <= expiries
    /\ \A p \in Process : sync[p].at \in {"decide", "execute"} =>
          /\ runs[sync[p].event] <= expiries
          /\ sync[p].event \notin ledger => runs[sync[p].event] < expiries

OnceInv == TypeInv /\ LockHeld /\ Counted

\* One connector at most made the receipt of an event, and may tell the chat.
AckInv ==
    /\ \A e \in Event : acks[e] <= 1 /\ (e \notin receipt => acks[e] = 0)
    /\ \A k \in Connector :
          conn[k].at = "reply" => conn[k].event \in receipt /\ acks[conn[k].event] = 0
    /\ \A j, k \in Connector :
          conn[j].at = "reply" /\ conn[k].at = "reply" /\ conn[j].event = conn[k].event => j = k

Destroys(e) == sent[e] # None /\ sent[e].kind = "destroy"

Executing(p, e) == sync[p].at = "execute" /\ sync[p].event = e

\* A destructive command has used its token from the decision on.
Using(e) == Destroys(e) /\ (runs[e] > 0 \/ \E p \in Process : Executing(p, e))

\* A token is used up, by one command, which it was issued for.
Spent ==
    /\ tokens \subseteq 1 .. Len(issued)
    /\ \A e \in Event : Using(e) =>
          /\ sent[e].token \in 1 .. Len(issued)
          /\ sent[e].token \notin tokens
          /\ issued[sent[e].token] = [op |-> sent[e].op, name |-> sent[e].name]
    /\ \A e, f \in Event : Using(e) /\ Using(f) /\ sent[e].token = sent[f].token => e = f
    /\ \A e \in Event : Destroys(e) => runs[e] <= 1
    /\ \A e \in Event, p \in Process : Destroys(e) /\ Executing(p, e) => runs[e] = 0
    /\ \A e \in Event : runs[e] > 0 => sent[e] # None

\* The chat and the Hub leave the Client alone.
LEMMA OutsideClient == ChatNext \/ HubNext \/ UNCHANGED vars => UNCHANGED <<client, expiries>>
  <1>1. ChatNext => UNCHANGED <<client, expiries>>
    BY DEF ChatNext, Send, counts
  <1>2. HubNext => UNCHANGED <<client, expiries>>
    BY DEF HubNext, WebhookEvent, Receive, Receives, SendAnswer, LinkPath, LinkReceipt,
           LinksReceipt, Acknowledge, DeleteAnswer, StopConnector, Fault, counts
  <1>3. UNCHANGED vars => UNCHANGED <<client, expiries>>
    BY DEF vars, counts
  <1> QED BY <1>1, <1>2, <1>3

\* Expiry and unbinding leave a sync alone, and what the Hub has counted.
LEMMA StoreQuiet ==
  StoreNext => /\ UNCHANGED <<lock, sync, issued, runs, sent, conn, receipt, acks>>
               /\ tokens' \subseteq tokens
  BY DEF StoreNext, Unbind, ExpireToken, ExpireEvent, client, world, hub

\* A process that is not idle holds the lock, also when others end.
LEMMA LockStep == TypeInv /\ LockHeld /\ [Next]_vars => LockHeld'
  <1> SUFFICES ASSUME TypeInv, LockHeld, [Next]_vars
               PROVE  LockHeld'
    OBVIOUS
  <1>0. sync \in [Process -> Syncing] /\ None \notin Process
    BY FeishuMailboxAssumption DEF TypeInv, TypeOK
  <1>1. CASE UNCHANGED <<lock, sync>>
    BY <1>1 DEF LockHeld
  <1>2. CASE ClientNext
    <2> PICK p \in Process :
          \/ BeginSync(p) \/ EndSync(p)
          \/ \E e \in Event : TakeNext(p, e)
          \/ Decide(p) \/ Execute(p) \/ Upload(p) \/ RemoveCommand(p)
          \/ StopSync(p) \/ RemoveFails(p)
      BY <1>2 DEF ClientNext
    <2>1. \A q \in Process : q # p => sync'[q] = sync[q]
      BY <1>0 DEF BeginSync, EndSync, TakeNext, Takes, Decide, Decides, Turns, Execute, Upload,
                  RemoveCommand, StopSync, RemoveFails
    <2>2. CASE BeginSync(p)
      BY <1>0, <2>1, <2>2 DEF LockHeld, BeginSync
    <2>3. CASE EndSync(p) \/ StopSync(p)
      <3>1. sync'[p].at = "idle" /\ lock = p
        BY <1>0, <2>3 DEF LockHeld, EndSync, StopSync, Rest
      <3> QED BY <2>1, <3>1 DEF LockHeld
    <2>4. CASE \/ \E e \in Event : TakeNext(p, e)
               \/ Decide(p) \/ Execute(p) \/ Upload(p) \/ RemoveCommand(p) \/ RemoveFails(p)
      <3>1. sync[p].at # "idle" /\ lock' = lock
        BY <2>4 DEF TakeNext, Takes, Decide, Decides, Execute, Upload, RemoveCommand, RemoveFails
      <3> QED BY <2>1, <3>1 DEF LockHeld
    <2> QED BY <2>2, <2>3, <2>4
  <1> QED BY <1>1, <1>2, OutsideClient, StoreQuiet DEF Next, client

\* Ledger and lock keep an event from running again.
LEMMA CountedStep == OnceInv /\ [Next]_vars => Counted'
  <1> SUFFICES ASSUME OnceInv, [Next]_vars
               PROVE  Counted'
    OBVIOUS
  <1>0. /\ sync \in [Process -> Syncing] /\ runs \in [Event -> Nat]
        /\ expiries \in Nat
        /\ \A p \in Process : sync[p].at \in {"decide", "execute"} => sync[p].event \in Event
    <2>1. TypeOK
      BY DEF OnceInv, TypeInv
    <2>2. sync \in [Process -> Syncing] /\ runs \in [Event -> Nat]
      BY <2>1 DEF TypeOK
    <2>3. expiries \in Nat
      BY <2>1, FeishuMailboxAssumption DEF TypeOK
    <2>4. \A p \in Process : sync[p].at \in {"decide", "execute"} => sync[p].event \in Event
      BY DEF OnceInv, TypeInv, Known, Travels
    <2> QED BY <2>2, <2>3, <2>4
  <1>1. CASE UNCHANGED <<client, expiries>>
    BY <1>1 DEF OnceInv, Counted, client
  <1>2. CASE StoreNext
    <2>1. /\ UNCHANGED <<sync, runs>> /\ expiries' \in Nat
          /\ \/ expiries' = expiries + 1
             \/ expiries' = expiries /\ ledger' = ledger
      BY <1>0, <1>2 DEF StoreNext, Unbind, ExpireToken, ExpireEvent, client, counts
    <2> QED BY <1>0, <2>1 DEF OnceInv, Counted
  <1>3. CASE ClientNext
    <2> PICK p \in Process :
          \/ BeginSync(p) \/ EndSync(p)
          \/ \E e \in Event : TakeNext(p, e)
          \/ Decide(p) \/ Execute(p) \/ Upload(p) \/ RemoveCommand(p)
          \/ StopSync(p) \/ RemoveFails(p)
      BY <1>3 DEF ClientNext
    <2>1. \A q \in Process : q # p => sync'[q] = sync[q]
      BY <1>0 DEF BeginSync, EndSync, TakeNext, Takes, Decide, Decides, Turns, Execute, Upload,
                  RemoveCommand, StopSync, RemoveFails
    <2>2. CASE BeginSync(p) \/ EndSync(p) \/ Upload(p) \/ RemoveCommand(p)
               \/ StopSync(p) \/ RemoveFails(p)
      <3>1. /\ sync'[p].at \notin {"decide", "execute"}
            /\ UNCHANGED <<ledger, runs, expiries>>
        BY <1>0, <2>2 DEF BeginSync, EndSync, Turns, Upload, RemoveCommand, StopSync, RemoveFails,
                          Rest, Syncing, Fault, counts
      <3> QED BY <2>1, <3>1 DEF OnceInv, Counted
    <2>3. ASSUME NEW e \in Event, TakeNext(p, e)
          PROVE  Counted'
      <3>1. /\ ledger' = ledger \cup {e}
            /\ UNCHANGED <<runs, expiries>>
            /\ sync'[p].event = e
            /\ sync'[p].at \in {"decide", "execute"} => e \notin ledger
        BY <1>0, <2>3, FeishuMailboxAssumption
        DEF TakeNext, Takes, Replayed, Plain, Result, Verdict, counts
      <3> QED BY <1>0, <2>1, <3>1 DEF OnceInv, Counted
    <2>4. CASE Decide(p)
      <3>1. /\ UNCHANGED <<ledger, runs, expiries>>
            /\ sync[p].at = "decide" /\ sync'[p].event = sync[p].event
        BY <1>0, <2>4 DEF Decide, Decides, Turns, Syncing, counts
      <3> QED BY <2>1, <3>1 DEF OnceInv, Counted
    <2>5. CASE Execute(p)
      <3>1. /\ UNCHANGED <<ledger, expiries>>
            /\ runs' = [runs EXCEPT ![sync[p].event] = @ + 1]
            /\ sync[p].at = "execute" /\ sync'[p].at = "upload"
        BY <1>0, <2>5 DEF Execute, Turns, Syncing, counts
      <3>2. \A q \in Process : q # p => sync[q].at = "idle"
        BY <3>1 DEF OnceInv, LockHeld
      <3> QED BY <1>0, <2>1, <3>1, <3>2 DEF OnceInv, Counted
    <2> QED BY <2>2, <2>3, <2>4, <2>5
  <1> QED BY <1>1, <1>2, <1>3, OutsideClient DEF Next

\* A command runs once, and once more at most for each event that the ledger
\* forgot, however often Feishu delivers it, whichever process ends where.
THEOREM RunsAtMostOnce == Spec => []AtMostOnce
  <1>1. Init => OnceInv
    BY InitTypes, FeishuMailboxAssumption DEF Init, OnceInv, LockHeld, Counted, Rest
  <1>2. OnceInv /\ [Next]_vars => OnceInv'
    BY TypeStep, LockStep, CountedStep DEF OnceInv
  <1>3. OnceInv => AtMostOnce
    BY DEF OnceInv, Counted, AtMostOnce
  <1> QED BY <1>1, <1>2, <1>3, PTL DEF Spec

-----------------------------------------------------------------------------
\* The link of the receipt decides who tells the chat.
LEMMA AckStep == TypeInv /\ AckInv /\ [Next]_vars => AckInv'
  <1> SUFFICES ASSUME TypeInv, AckInv, [Next]_vars
               PROVE  AckInv'
    OBVIOUS
  <1>0. /\ conn \in [Connector -> Handling] /\ acks \in [Event -> Nat]
        /\ \A k \in Connector : conn[k].at # "idle" => conn[k].event \in Event
    BY DEF TypeInv, TypeOK, Known, Travels
  <1>1. CASE UNCHANGED <<conn, receipt, acks>>
    BY <1>1 DEF AckInv
  <1>2. CASE HubNext
    <2>1. CASE \/ \E e \in Event : WebhookEvent(e)
               \/ \E k \in Connector, e \in Event : SendAnswer(k, e)
               \/ \E k \in Connector : DeleteAnswer(k)
      BY <1>1, <2>1 DEF WebhookEvent, SendAnswer, DeleteAnswer, hub
    <2>2. ASSUME NEW k \in Connector,
                 UNCHANGED <<receipt, acks>>,
                 \E next : next.at # "reply" /\ conn' = [conn EXCEPT ![k] = next]
          PROVE  AckInv'
      <3>1. conn'[k].at # "reply" /\ \A j \in Connector : j # k => conn'[j] = conn[j]
        BY <1>0, <2>2
      <3> QED BY <2>2, <3>1 DEF AckInv
    <2>3. ASSUME NEW k \in Connector, NEW e \in Event, Receive(k, e)
          PROVE  AckInv'
      <3> DEFINE next == IF e \in receipt THEN Waiting ELSE [at |-> "link", event |-> e]
      <3>1. /\ UNCHANGED <<receipt, acks>>
            /\ next.at # "reply" /\ conn' = [conn EXCEPT ![k] = next]
        BY <2>3 DEF Receive, Receives, Waiting
      <3> HIDE DEF next
      <3> QED BY <2>2, <3>1
    <2>4. ASSUME NEW k \in Connector, LinkPath(k)
          PROVE  AckInv'
      <3> DEFINE next == [conn[k] EXCEPT !.at = "receipt"]
      <3>1. /\ UNCHANGED <<receipt, acks>>
            /\ next.at # "reply" /\ conn' = [conn EXCEPT ![k] = next]
        BY <1>0, <2>4 DEF LinkPath, Handling
      <3> HIDE DEF next
      <3> QED BY <2>2, <3>1
    <2>5. ASSUME NEW k \in Connector, StopConnector(k)
          PROVE  AckInv'
      <3>1. /\ UNCHANGED <<receipt, acks>>
            /\ Waiting.at # "reply" /\ conn' = [conn EXCEPT ![k] = Waiting]
        BY <2>5 DEF StopConnector, Waiting
      <3> QED BY <2>2, <3>1
    <2>6. ASSUME NEW k \in Connector, LinkReceipt(k)
          PROVE  AckInv'
      <3> DEFINE e == conn[k].event
      <3>1. /\ e \in Event /\ receipt' = receipt \cup {e} /\ acks' = acks
            /\ \A j \in Connector : j # k => conn'[j] = conn[j]
        BY <1>0, <2>6 DEF LinkReceipt, LinksReceipt
      <3>2. e \in receipt => conn'[k].at # "reply"
        BY <1>0, <2>6 DEF LinkReceipt, LinksReceipt, Waiting
      <3>3. conn'[k].at = "reply" => conn'[k].event = e
        BY <1>0, <2>6 DEF LinkReceipt, LinksReceipt, Waiting, Accepted, Handling
      <3>4. e \notin receipt =>
              acks[e] = 0 /\ \A j \in Connector : conn[j].at = "reply" => conn[j].event # e
        BY <3>1 DEF AckInv
      <3> QED BY <3>1, <3>2, <3>3, <3>4 DEF AckInv
    <2>7. ASSUME NEW k \in Connector, Acknowledge(k)
          PROVE  AckInv'
      <3> DEFINE e == conn[k].event
      <3>1. /\ e \in Event /\ e \in receipt /\ receipt' = receipt
            /\ acks[e] = 0 /\ acks' = [acks EXCEPT ![e] = @ + 1]
        BY <1>0, <2>7 DEF Acknowledge, AckInv
      <3>2. conn'[k].at # "reply" /\ \A j \in Connector : j # k => conn'[j] = conn[j]
        BY <1>0, <2>7 DEF Acknowledge, Waiting
      <3>3. \A j \in Connector : conn'[j].at = "reply" => conn'[j].event # e
        BY <2>7, <3>2 DEF Acknowledge, AckInv
      <3> QED BY <1>0, <3>1, <3>2, <3>3 DEF AckInv
    <2> QED BY <1>2, <2>1, <2>3, <2>4, <2>5, <2>6, <2>7 DEF HubNext
  <1>3. ChatNext => UNCHANGED <<conn, receipt, acks>>
    BY DEF ChatNext, Send, hub
  <1>4. ClientNext => UNCHANGED <<conn, receipt, acks>>
    BY DEF ClientNext, BeginSync, EndSync, TakeNext, Takes, Decide, Decides, Execute, Upload,
           RemoveCommand, StopSync, RemoveFails, hub
  <1>5. UNCHANGED vars => UNCHANGED <<conn, receipt, acks>>
    BY DEF vars, hub
  <1> QED BY <1>1, <1>2, <1>3, <1>4, <1>5, StoreQuiet DEF Next

\* However many connectors handle an event at the same time, and however often
\* they end and begin again, the chat is told at most once of its delivery.
THEOREM ToldAtMostOnce == Spec => []AcknowledgedOnce
  <1>1. Init => TypeInv /\ AckInv
    BY InitTypes DEF Init, AckInv, Waiting
  <1>2. TypeInv /\ AckInv /\ [Next]_vars => (TypeInv /\ AckInv)'
    BY TypeStep, AckStep
  <1>3. AckInv => AcknowledgedOnce
    BY DEF AckInv, AcknowledgedOnce
  <1> QED BY <1>1, <1>2, <1>3, PTL DEF Spec

-----------------------------------------------------------------------------
\* Steps that begin no command and issue no token leave used tokens as they are.
LEMMA SpentFrame ==
  ASSUME TypeInv, Spent, tokens' \subseteq tokens, UNCHANGED <<issued, runs, sent>>,
         \A q \in Process, e \in Event : Executing(q, e)' => Executing(q, e)
  PROVE  Spent'
  <1>1. \A e \in Event : Using(e)' => Using(e)
    BY DEF Using, Destroys
  <1> QED BY <1>1 DEF Spent, Destroys

\* A decision uses up the token it confirms with, which nobody has used before,
\* or issues one that was never issued.
LEMMA SpentDecide ==
  ASSUME TypeInv, LockHeld, Spent, NEW p \in Process, Decide(p)
  PROVE  Spent'
  <1> DEFINE e == sync[p].event
             m == sent[e]
             refusal == Refusal(m)
  <1>1. /\ sync \in [Process -> Syncing] /\ runs \in [Event -> Nat] /\ tokens \subseteq Nat
        /\ issued \in Seq([op : Operator, name : Name])
        /\ None \notin Nat /\ None \notin Result
    BY FeishuMailboxAssumption DEF TypeInv, TypeOK
  <1>2. e \in Event /\ m # None /\ m \in Message
        /\ (m.token # None => m.kind = "destroy")
    BY DEF Decide, Decides, TypeInv, TypeOK, Known, Travels
  <1>3. /\ UNCHANGED <<runs, sent>>
        /\ sync[p].at = "decide"
        /\ sync' = [sync EXCEPT ![p].at = IF refusal = None THEN "execute" ELSE "upload",
                                ![p].result = refusal]
        /\ issued' = IF refusal # None /\ refusal.is = "confirm"
                     THEN Append(issued, [op |-> m.op, name |-> m.name])
                     ELSE issued
        /\ tokens' = IF refusal = None THEN tokens \ {m.token}
                     ELSE tokens \cup ({refusal.token} \ {None})
    BY DEF Decide, Decides, Turns, world
  <1>4. \A q \in Process : q # p => sync[q].at = "idle" /\ sync'[q] = sync[q]
    BY <1>1, <1>3 DEF LockHeld
  <1>5. sync'[p].event = e /\ sync'[p].at = IF refusal = None THEN "execute" ELSE "upload"
    BY <1>1, <1>3 DEF Syncing
  <1>6. CASE refusal = None
    <2>1. tokens' = tokens \ {m.token} /\ issued' = issued
      BY <1>3, <1>6
    <2>2. \A f \in Event : Using(f)' => f = e \/ Using(f)
      BY <1>3, <1>4, <1>5 DEF Using, Destroys, Executing
    <2>3. CASE m.kind = "destroy"
      <3>1. m.token # None /\ Confirms(m.token, m)
        <4>1. \A v \in Verdict, t \in Nat \cup {None} : [is |-> v, token |-> t] # None
          BY <1>1 DEF Result
        <4>2. Len(issued) + 1 \in Nat
          BY <1>1
        <4>3. Plain("invalid") # None /\ Plain("unbound") # None
              /\ [is |-> "confirm", token |-> Len(issued) + 1] # None
          BY <4>1, <4>2 DEF Plain, Verdict
        <4> HIDE DEF m
        <4> QED BY <1>6, <2>3, <4>3 DEF Refusal
      <3>2. m.token \in tokens /\ issued[m.token] = [op |-> m.op, name |-> m.name]
        BY <3>1 DEF Confirms
      <3>3. ~Using(e) /\ \A f \in Event : Using(f) => sent[f].token # m.token
        BY <1>2, <3>2 DEF Spent
      <3>4. runs[e] = 0
        BY <1>1, <1>2, <2>3, <3>3 DEF Using, Destroys
      <3>5. \A f \in Event, q \in Process : Executing(q, f)' => f = e
        BY <1>4, <1>5 DEF Executing
      <3> HIDE DEF m, e
      <3>6. m = sent[e]
        BY DEF m
      <3> QED BY <1>2, <1>3, <2>1, <2>2, <3>2, <3>3, <3>4, <3>5, <3>6 DEF Spent, Destroys
    <2>4. CASE m.kind # "destroy"
      <3>1. \A f \in Event : Using(f)' => Using(f)
        BY <1>3, <2>2, <2>4 DEF Using, Destroys
      <3>2. \A f \in Event, q \in Process : Destroys(f)' => ~Executing(q, f)'
        <4>1. \A f \in Event, q \in Process : Executing(q, f)' => f = e
          BY <1>4, <1>5 DEF Executing
        <4>2. \A f \in Event : f = e => ~Destroys(f)'
          BY <1>3, <2>4 DEF Destroys
        <4> HIDE DEF e
        <4> QED BY <4>1, <4>2
      <3> QED BY <1>3, <2>1, <3>1, <3>2 DEF Spent, Destroys
    <2> QED BY <2>3, <2>4
  <1>7. CASE refusal # None
    <2>1. \A f \in Event, q \in Process : ~Executing(q, f)'
      BY <1>4, <1>5, <1>7 DEF Executing
    <2>2. \A f \in Event : Using(f)' => Using(f)
      BY <1>3, <2>1 DEF Using, Destroys
    <2>3. CASE refusal.is = "confirm"
      <3>1. refusal.token = Len(issued) + 1
        BY <1>2, <2>3, <1>7 DEF Refusal, Plain
      <3>2. /\ issued' = Append(issued, [op |-> m.op, name |-> m.name])
            /\ tokens' \subseteq tokens \cup {Len(issued) + 1}
        BY <1>3, <1>7, <2>3, <3>1
      <3> HIDE DEF m, refusal
      <3>3. /\ Len(issued) \in Nat /\ Len(issued') = Len(issued) + 1
            /\ \A t \in 1 .. Len(issued) : issued'[t] = issued[t]
        BY <1>1, <3>2
      <3>4. /\ tokens' \subseteq 1 .. Len(issued')
            /\ \A t \in 1 .. Len(issued) : t \notin tokens => t \notin tokens'
            /\ \A t \in 1 .. Len(issued) : t \in 1 .. Len(issued')
        BY <3>2, <3>3 DEF Spent
      <3>5. \A f \in Event : Using(f)' =>
              /\ sent'[f].token \in 1 .. Len(issued')
              /\ sent'[f].token \notin tokens'
              /\ issued'[sent'[f].token] = [op |-> sent'[f].op, name |-> sent'[f].name]
        BY <1>3, <2>2, <3>3, <3>4 DEF Spent
      <3> QED BY <1>3, <2>1, <2>2, <3>4, <3>5 DEF Spent, Destroys
    <2>4. CASE refusal.is # "confirm"
      <3>1. refusal.token = None
        BY <1>7, <2>4 DEF Refusal, Plain
      <3>2. issued' = issued /\ tokens' = tokens
        BY <1>3, <1>7, <2>4, <3>1
      <3> QED BY <1>3, <2>1, <3>2, SpentFrame
    <2> QED BY <2>3, <2>4
  <1> QED BY <1>6, <1>7

\* Whichever command uses a token, no other does, now or later.
LEMMA SpentStep == TypeInv /\ LockHeld /\ Spent /\ [Next]_vars => Spent'
  <1> SUFFICES ASSUME TypeInv, LockHeld, Spent, [Next]_vars
               PROVE  Spent'
    OBVIOUS
  <1>0. /\ sync \in [Process -> Syncing] /\ runs \in [Event -> Nat]
        /\ \A q \in Process : sync[q].at = "execute" =>
              sync[q].event \in Event /\ sent[sync[q].event] # None
    <2>1. sync \in [Process -> Syncing] /\ runs \in [Event -> Nat]
      BY DEF TypeInv, TypeOK
    <2> QED BY <2>1 DEF TypeInv, Known, Travels
  <1>1. CASE ChatNext
    <2> PICK e \in Event, o \in Operator, kind \in Kind, name \in Name,
             token \in {None} \cup {s[2].token : s \in seen} :
          Send(e, o, kind, name, token)
      BY <1>1 DEF ChatNext
    <2>1. /\ UNCHANGED <<sync, runs, tokens, issued>> /\ sent[e] = None
          /\ \A f \in Event : f # e => sent'[f] = sent[f]
      BY DEF Send, client, TypeInv, TypeOK
    <2>2. ~(runs[e] > 0) /\ \A q \in Process : ~Executing(q, e)
      BY <1>0, <2>1 DEF Spent, Executing
    <2>3. \A f \in Event : Using(f)' => f # e /\ Using(f)
      BY <2>1, <2>2 DEF Using, Destroys, Executing
    <2>4. \A f \in Event : f # e => sent'[f] = sent[f]
      BY <2>1
    <2>5. runs[e] = 0
      BY <1>0, <2>2
    <2>6. \A f \in Event : Destroys(f)' => f = e \/ Destroys(f)
      BY <2>1 DEF Destroys
    <2>7. \A f \in Event, q \in Process : Executing(q, f)' => f # e /\ Executing(q, f)
      BY <2>1, <2>2 DEF Executing
    <2> QED BY <2>1, <2>3, <2>5, <2>6, <2>7 DEF Spent
  <1>2. CASE HubNext
    <2>1. UNCHANGED <<sync, runs, tokens, issued, sent>>
      BY <1>2, OutsideClient DEF client, HubNext, WebhookEvent, Receive, Receives, Deliver,
         SendAnswer,
         LinkPath, LinkReceipt, LinksReceipt, Acknowledge, DeleteAnswer, StopConnector, world
    <2> QED BY <2>1, SpentFrame DEF Executing
  <1>3. CASE StoreNext
    <2>1. UNCHANGED <<sync, runs, issued, sent>> /\ tokens' \subseteq tokens
      BY <1>3, StoreQuiet DEF StoreNext, Unbind, ExpireToken, ExpireEvent, client
    <2> QED BY <2>1, SpentFrame DEF Executing
  <1>4. CASE UNCHANGED vars
    <2>1. UNCHANGED <<sync, runs, tokens, issued, sent>>
      BY <1>4 DEF vars, client, world
    <2> QED BY <2>1, SpentFrame DEF Executing
  <1>5. CASE ClientNext
    <2> PICK p \in Process :
          \/ BeginSync(p) \/ EndSync(p)
          \/ \E e \in Event : TakeNext(p, e)
          \/ Decide(p) \/ Execute(p) \/ Upload(p) \/ RemoveCommand(p)
          \/ StopSync(p) \/ RemoveFails(p)
      BY <1>5 DEF ClientNext
    <2>1. \A q \in Process : q # p => sync'[q] = sync[q]
      BY <1>0 DEF BeginSync, EndSync, TakeNext, Takes, Decide, Decides, Turns, Execute, Upload,
                  RemoveCommand, StopSync, RemoveFails
    <2>2. CASE \/ BeginSync(p) \/ EndSync(p) \/ Upload(p) \/ RemoveCommand(p)
               \/ StopSync(p) \/ RemoveFails(p) \/ \E e \in Event : TakeNext(p, e)
      <3>1. UNCHANGED <<tokens, issued, runs, sent>>
        BY <2>2 DEF BeginSync, EndSync, TakeNext, Takes, Upload, RemoveCommand, StopSync,
           RemoveFails,
                    world, client
      <3>2. sync'[p].at # "execute"
        BY <1>0, <2>2 DEF BeginSync, EndSync, TakeNext, Takes, Turns, Upload, RemoveCommand,
                          StopSync, RemoveFails, Rest, Syncing
      <3> QED BY <2>1, <3>1, <3>2, SpentFrame DEF Executing
    <2>3. CASE Decide(p)
      BY <2>3, SpentDecide
    <2>4. CASE Execute(p)
      <3> DEFINE e == sync[p].event
      <3>1. /\ e \in Event /\ Executing(p, e)
            /\ UNCHANGED <<tokens, issued, sent>>
            /\ runs' = [runs EXCEPT ![e] = @ + 1]
        BY <1>0, <2>4 DEF Execute, Executing, world
      <3>2. \A q \in Process, f \in Event : ~Executing(q, f)'
        <4>1. sync'[p].at = "upload"
          BY <1>0, <2>4 DEF Execute, Turns, Syncing
        <4>2. \A q \in Process : q # p => sync[q].at = "idle"
          BY <2>4 DEF Execute, LockHeld
        <4> QED BY <2>1, <4>1, <4>2 DEF Executing
      <3>3. \A f \in Event : Using(f)' => Using(f)
        BY <1>0, <3>1, <3>2 DEF Using, Destroys
      <3>4. Destroys(e) => runs'[e] = 1
        BY <1>0, <3>1 DEF Spent
      <3>5. \A f \in Event : f # e => runs'[f] = runs[f]
        BY <1>0, <3>1
      <3>6. sent[e] # None
        BY <1>0, <2>4 DEF Execute
      <3> HIDE DEF e
      <3> QED BY <1>0, <3>1, <3>2, <3>3, <3>4, <3>5, <3>6 DEF Spent, Destroys
    <2> QED BY <2>2, <2>3, <2>4
  <1> QED BY <1>1, <1>2, <1>3, <1>4, <1>5 DEF Next

\* A destructive command runs once at most, and only with a token of its own
\* that was issued to its operator for its tunnel; the ledger may forget what it
\* will, and any process may end anywhere.
THEOREM DestructionIsConfirmed == Spec => []ConfirmedOnce
  <1> DEFINE Inv == TypeInv /\ LockHeld /\ Spent
  <1>1. Init => Inv
    <2>1. Init => Spent
      BY DEF Init, Spent, Using, Destroys, Executing, Rest
    <2>2. Init => LockHeld
      BY DEF Init, LockHeld, Rest
    <2> QED BY <2>1, <2>2, InitTypes
  <1>2. Inv /\ [Next]_vars => Inv'
    BY TypeStep, LockStep, SpentStep
  <1>3. Inv => ConfirmedOnce
    <2> SUFFICES ASSUME Inv, NEW e \in Event,
                        sent[e] # None, sent[e].kind = "destroy", runs[e] > 0
                 PROVE  /\ runs[e] = 1
                        /\ sent[e].token # None
                        /\ issued[sent[e].token] = [op |-> sent[e].op, name |-> sent[e].name]
                        /\ \A f \in Event :
                              sent[f] # None /\ sent[f].token = sent[e].token /\ runs[f] > 0 => f = e
      BY DEF ConfirmedOnce
    <2>1. Using(e) /\ Destroys(e)
      BY DEF Using, Destroys
    <2>2. runs[e] \in Nat /\ None \notin Nat /\ Len(issued) \in Nat
      <3>1. TypeOK
        BY DEF TypeInv
      <3> QED BY <3>1, FeishuMailboxAssumption DEF TypeOK
    <2>3. runs[e] = 1
      BY <2>1, <2>2 DEF Spent
    <2>4. /\ sent[e].token \in 1 .. Len(issued)
          /\ issued[sent[e].token] = [op |-> sent[e].op, name |-> sent[e].name]
      BY <2>1 DEF Spent
    <2>5. sent[e].token # None
      BY <2>2, <2>4
    <2>6. ASSUME NEW f \in Event, sent[f] # None, sent[f].token = sent[e].token, runs[f] > 0
          PROVE  f = e
      <3>1. sent[f].kind = "destroy"
        BY <2>5, <2>6 DEF TypeInv, Known
      <3>2. Using(f)
        BY <2>6, <3>1 DEF Using, Destroys
      <3> QED BY <2>1, <2>6, <3>2 DEF Spent
    <2> QED BY <2>3, <2>4, <2>5, <2>6
  <1> HIDE DEF Inv
  <1>4. Spec => []Inv
    BY <1>1, <1>2, PTL DEF Spec
  <1> QED BY <1>3, <1>4, PTL

-----------------------------------------------------------------------------
\* What was said is shown, lies at the Hub or is about to be uploaded.
LEMMA SaidBy ==
  ASSUME NEW s
  PROVE  s \in Said <=> \/ s \in seen
                        \/ \E e \in Event : answer[e] # None /\ s = <<e, answer[e]>>
                        \/ \E p \in Process : /\ sync[p].at = "upload"
                                              /\ s = <<sync[p].event, sync[p].result>>
  BY DEF Said

\* A step that begins no command and takes none, and that says nothing but what
\* was said or that a command was processed before.
LEMMA TruthFrame ==
  ASSUME TruthInv, runs' = runs,
         \A s \in Said' : s \in Said \/ s[2].is = "replayed",
         expiries' = 0 => expiries = 0 /\ ledger \subseteq ledger',
         \A q \in Process : sync'[q].at \in {"decide", "execute"} =>
            sync[q].at \in {"decide", "execute"} /\ sync'[q].event = sync[q].event
  PROVE  TruthInv'
  <1>1. \A s \in Said' : s[2].is \in {"ok", "failed"} \cup Refusals => s \in Said
    BY DEF Refusals
  <1>2. \A s \in Said' : s[2].is \in {"ok", "failed"} => runs'[s[1]] > 0
    BY <1>1 DEF TruthInv
  <1>3. ASSUME expiries' = 0
        PROVE  /\ \A s \in Said' : s[2].is \in Refusals => runs'[s[1]] = 0 /\ s[1] \in ledger'
               /\ \A e \in Event : runs'[e] > 0 => e \in ledger'
               /\ \A p \in Process : sync'[p].at \in {"decide", "execute"} =>
                     /\ sync'[p].event \in ledger' /\ runs'[sync'[p].event] = 0
                     /\ \A s \in Said' : s[1] = sync'[p].event => s[2].is \notin Refusals
    <2>1. expiries = 0 /\ ledger \subseteq ledger'
      BY <1>3
    <2>2. \A s \in Said' : s[2].is \in Refusals => runs'[s[1]] = 0 /\ s[1] \in ledger'
      BY <1>1, <2>1 DEF TruthInv
    <2>3. \A e \in Event : runs'[e] > 0 => e \in ledger'
      BY <2>1 DEF TruthInv
    <2>4. ASSUME NEW p \in Process, sync'[p].at \in {"decide", "execute"}
          PROVE  /\ sync'[p].event \in ledger' /\ runs'[sync'[p].event] = 0
                 /\ \A s \in Said' : s[1] = sync'[p].event => s[2].is \notin Refusals
      <3>1. sync[p].at \in {"decide", "execute"} /\ sync'[p].event = sync[p].event
        BY <2>4
      <3>2. /\ sync[p].event \in ledger /\ runs[sync[p].event] = 0
            /\ \A s \in Said : s[1] = sync[p].event => s[2].is \notin Refusals
        BY <2>1, <3>1 DEF TruthInv
      <3> QED BY <1>1, <2>1, <3>1, <3>2
    <2> QED BY <2>2, <2>3, <2>4
  <1> QED BY <1>2, <1>3 DEF TruthInv, Refusals

\* The Hub passes on what was said.
LEMMA HubPassesOn == ASSUME TypeInv, HubNext PROVE Said' \subseteq Said
  <1>1. answer \in [Event -> Result \cup {None}]
    BY DEF TypeInv, TypeOK
  <1>2. CASE \E k \in Connector, e \in Event : SendAnswer(k, e)
    BY <1>2, SaidBy DEF Said, SendAnswer, client
  <1>3. CASE \E k \in Connector : DeleteAnswer(k)
    <2> PICK k \in Connector : DeleteAnswer(k)
      BY <1>3
    <2>1. \A e \in Event : answer'[e] # None => answer'[e] = answer[e]
      BY <1>1 DEF DeleteAnswer
    <2>2. UNCHANGED <<seen, sync>>
      BY DEF DeleteAnswer, client
    <2> QED BY <2>1, <2>2 DEF Said
  <1>4. CASE \/ \E e \in Event : WebhookEvent(e)
             \/ \E k \in Connector : \/ \E e \in Event : Receive(k, e)
                                     \/ LinkPath(k) \/ LinkReceipt(k)
                                     \/ Acknowledge(k) \/ StopConnector(k)
    <2>1. UNCHANGED <<seen, answer, sync>>
      BY <1>4 DEF WebhookEvent, Receive, Receives, LinkPath, LinkReceipt, LinksReceipt,
                  Acknowledge, StopConnector, client, chat
    <2> QED BY <2>1 DEF Said
  <1> QED BY <1>2, <1>3, <1>4 DEF HubNext

\* Other processes of the Client are idle while one syncs, and stay so.
LEMMA OneSyncs ==
  ASSUME TypeInv, LockHeld, NEW p \in Process,
         \/ EndSync(p) \/ BeginSync(p)
         \/ \E e \in Event : TakeNext(p, e)
         \/ Decide(p) \/ Execute(p) \/ Upload(p) \/ RemoveCommand(p)
         \/ StopSync(p) \/ RemoveFails(p)
  PROVE  \A q \in Process : q # p => sync[q].at = "idle" /\ sync'[q] = sync[q]
  <1>1. sync \in [Process -> Syncing] /\ None \notin Process
    BY FeishuMailboxAssumption DEF TypeInv, TypeOK
  <1>2. \A q \in Process : q # p => sync'[q] = sync[q]
    BY <1>1 DEF BeginSync, EndSync, TakeNext, Takes, Decide, Decides, Turns, Execute, Upload,
                RemoveCommand, StopSync, RemoveFails
  <1>3. lock = None \/ lock = p
    BY DEF LockHeld, BeginSync, EndSync, TakeNext, Takes, Decide, Decides, Execute, Upload,
           RemoveCommand, StopSync, RemoveFails
  <1> QED BY <1>1, <1>2, <1>3 DEF LockHeld

\* What a sync says and begins is true of the ledger and of the runs.
LEMMA ClientTruth ==
  ASSUME TypeInv, LockHeld, TruthInv, ClientNext
  PROVE  TruthInv'
  <1> PICK p \in Process :
        \/ EndSync(p) \/ BeginSync(p)
        \/ \E e \in Event : TakeNext(p, e)
        \/ Decide(p) \/ Execute(p) \/ Upload(p) \/ RemoveCommand(p)
        \/ StopSync(p) \/ RemoveFails(p)
    BY DEF ClientNext
  <1>1. /\ sync \in [Process -> Syncing] /\ runs \in [Event -> Nat]
        /\ answer \in [Event -> Result \cup {None}]
        /\ expiries \in Nat
    <2>1. TypeOK
      BY DEF TypeInv
    <2>2. expiries \in Nat
      BY <2>1, FeishuMailboxAssumption DEF TypeOK
    <2> QED BY <2>1, <2>2 DEF TypeOK
  <1>2. \A q \in Process : q # p => sync[q].at = "idle" /\ sync'[q] = sync[q]
    BY OneSyncs
  <1>3. sync[p].at \notin {"idle", "next"} => sync[p].event \in Event
    BY DEF TypeInv, Known, Travels
  <1>4. CASE \/ BeginSync(p) \/ EndSync(p) \/ StopSync(p) \/ RemoveCommand(p) \/ RemoveFails(p)
    <2>1. /\ UNCHANGED <<seen, answer, runs, ledger, expiries>>
          /\ sync'[p].at \in {"idle", "next"}
      BY <1>1, <1>4 DEF BeginSync, EndSync, StopSync, RemoveCommand, RemoveFails, Fault, Rest,
                        Syncing, chat, counts, client
    <2>2. Said' \subseteq Said
      BY <1>2, <2>1 DEF Said
    <2> QED BY <1>2, <2>1, <2>2, TruthFrame
  <1>5. CASE Upload(p)
    <2>1. /\ UNCHANGED <<seen, runs, ledger, expiries>>
          /\ sync[p].at = "upload" /\ sync'[p].at = "remove"
          /\ answer' = [answer EXCEPT ![sync[p].event] = sync[p].result]
      BY <1>1, <1>5 DEF Upload, Turns, Syncing, chat, counts
    <2>2. \A e \in Event : answer'[e] = IF e = sync[p].event THEN sync[p].result ELSE answer[e]
      BY <1>1, <2>1
    <2>3. Said' \subseteq Said
      BY <1>2, <2>1, <2>2 DEF Said
    <2> QED BY <1>2, <2>1, <2>3, TruthFrame
  <1>6. ASSUME NEW e \in Event, TakeNext(p, e)
        PROVE  TruthInv'
    <2>1. /\ UNCHANGED <<seen, answer, runs, expiries>>
          /\ ledger' = ledger \cup {e}
          /\ sync[p].at = "next" /\ sync'[p].event = e
          /\ sync'[p].at = (IF Replayed(e) = None THEN "decide" ELSE "upload")
          /\ sync'[p].result = Replayed(e)
      BY <1>1, <1>6 DEF TakeNext, Takes, chat, counts
    <2>2. CASE e \in ledger
      <3>1. Replayed(e) = Plain("replayed") /\ Replayed(e) # None
        BY <2>2, FeishuMailboxAssumption DEF Replayed, Plain, Result, Verdict
      <3>2. \A s \in Said' : s \in Said \/ s[2].is = "replayed"
        BY <1>2, <2>1, <3>1 DEF Said, Plain
      <3> QED BY <1>2, <2>1, <3>1, <3>2, TruthFrame
    <2>3. CASE e \notin ledger
      <3>1. sync'[p].at = "decide"
        BY <2>1, <2>3 DEF Replayed
      <3>2. Said' \subseteq Said
        BY <1>2, <2>1, <3>1 DEF Said
      <3>3. expiries = 0 => runs[e] = 0 /\ \A s \in Said : s[1] = e => s[2].is \notin Refusals
        BY <1>1, <2>3 DEF TruthInv
      <3> QED BY <1>1, <1>2, <2>1, <3>1, <3>2, <3>3 DEF TruthInv, Refusals
    <2> QED BY <2>2, <2>3
  <1>7. CASE Decide(p)
    <2> DEFINE e == sync[p].event
               refusal == Refusal(sent[e])
    <2>1. /\ UNCHANGED <<seen, answer, runs, ledger, expiries>>
          /\ sync[p].at = "decide" /\ sync'[p].event = e
          /\ sync'[p].at = (IF refusal = None THEN "execute" ELSE "upload")
          /\ sync'[p].result = refusal
      BY <1>1, <1>7 DEF Decide, Decides, Turns, Syncing, chat, counts
    <2>2. CASE refusal = None
      <3>1. Said' \subseteq Said
        BY <1>2, <2>1, <2>2 DEF Said
      <3> QED BY <1>2, <2>1, <2>2, <3>1, TruthFrame
    <2>3. CASE refusal # None
      <3>1. refusal.is \in Refusals
        BY <2>3 DEF Refusal, Refusals, Plain
      <3> HIDE DEF refusal, e
      <3>2. \A s \in Said' : s \in Said \/ s = <<e, refusal>>
        BY <1>2, <2>1, <2>3 DEF Said, e
      <3>3. expiries = 0 => runs[e] = 0 /\ e \in ledger
        BY <2>1 DEF TruthInv, e
      <3>4. \A q \in Process : sync'[q].at \notin {"decide", "execute"}
        BY <1>2, <2>1, <2>3
      <3>5. refusal.is \notin {"ok", "failed"}
        BY <3>1 DEF Refusals
      <3> QED BY <2>1, <3>1, <3>2, <3>3, <3>4, <3>5 DEF TruthInv, Refusals
    <2> QED BY <2>2, <2>3
  <1>8. CASE Execute(p)
    <2> DEFINE e == sync[p].event
    <2>1. /\ UNCHANGED <<seen, answer, ledger, expiries>>
          /\ sync[p].at = "execute" /\ sync'[p].at = "upload"
          /\ sync'[p].event = e
          /\ sync'[p].result \in {Plain("ok"), Plain("failed")}
          /\ runs' = [runs EXCEPT ![e] = @ + 1] /\ e \in Event
      BY <1>1, <1>3, <1>8 DEF Execute, Turns, Syncing, chat, counts
    <2>2. sync'[p].result.is \in {"ok", "failed"}
      BY <2>1 DEF Plain
    <2> HIDE DEF e
    <2>3. \A s \in Said' : s \in Said \/ s = <<e, sync'[p].result>>
      BY <1>2, <2>1 DEF Said
    <2>4. /\ runs'[e] > 0 /\ \A f \in Event : f # e => runs'[f] = runs[f]
          /\ \A f \in Event : runs[f] > 0 => runs'[f] > 0
      BY <1>1, <2>1
    <2>5. expiries = 0 => e \in ledger /\ \A s \in Said : s[1] = e => s[2].is \notin Refusals
      BY <2>1 DEF TruthInv, e
    <2>6. \A q \in Process : sync'[q].at \notin {"decide", "execute"}
      BY <1>2, <2>1
    <2> QED BY <2>1, <2>2, <2>3, <2>4, <2>5, <2>6 DEF TruthInv, Refusals
  <1> QED BY <1>4, <1>5, <1>6, <1>7, <1>8

\* The ledger never tells of a command what is not so.
LEMMA TruthStep == TypeInv /\ LockHeld /\ TruthInv /\ [Next]_vars => TruthInv'
  <1> SUFFICES ASSUME TypeInv, LockHeld, TruthInv, [Next]_vars
               PROVE  TruthInv'
    OBVIOUS
  <1>1. CASE ChatNext \/ UNCHANGED vars
    <2>1. UNCHANGED <<seen, answer>>
      BY <1>1 DEF ChatNext, Send, vars, chat
    <2>2. UNCHANGED <<sync, runs, ledger, expiries>>
      BY <1>1, OutsideClient DEF client
    <2>3. Said' \subseteq Said
      BY <2>1, <2>2 DEF Said
    <2> QED BY <2>2, <2>3, TruthFrame
  <1>2. CASE HubNext
    <2>1. UNCHANGED <<sync, runs, ledger, expiries>>
      BY <1>2, OutsideClient DEF client
    <2> QED BY <1>2, <2>1, HubPassesOn, TruthFrame
  <1>3. CASE StoreNext
    <2>1. /\ UNCHANGED <<seen, answer, sync, runs>>
          /\ \/ expiries' = expiries + 1
             \/ expiries' = expiries /\ ledger' = ledger
      BY <1>3 DEF StoreNext, Unbind, ExpireToken, ExpireEvent, client, chat, counts
    <2>2. expiries \in Nat
      <3>1. TypeOK
        BY DEF TypeInv
      <3> QED BY <3>1, FeishuMailboxAssumption DEF TypeOK
    <2>3. Said' \subseteq Said
      BY <2>1 DEF Said
    <2>4. expiries' = 0 => expiries = 0 /\ ledger \subseteq ledger'
      BY <2>1, <2>2
    <2> QED BY <2>1, <2>3, <2>4, TruthFrame
  <1>4. CASE ClientNext
    BY <1>4, ClientTruth
  <1> QED BY <1>1, <1>2, <1>3, <1>4 DEF Next

\* In the initial states nothing was said, and nothing is begun.
LEMMA InitQuiet == Init => LockHeld /\ TruthInv /\ Fetched /\ CalmInv
  <1> SUFFICES ASSUME Init PROVE LockHeld /\ TruthInv /\ Fetched /\ CalmInv
    OBVIOUS
  <1>1. Said = {}
    BY DEF Init, Said, Rest
  <1>2. /\ \A p \in Process : sync[p] = Rest
        /\ \A k \in Connector : conn[k] = Waiting
        /\ \A e \in Event : runs[e] = 0
        /\ mail = {} /\ ledger = {}
    BY DEF Init
  <1>3. LockHeld /\ TruthInv /\ Fetched
    BY <1>1, <1>2 DEF LockHeld, TruthInv, Fetched, Rest
  <1>4. ReceiptInv /\ TakenInv
    BY <1>1, <1>2 DEF ReceiptInv, TakenInv, Waiting, Rest
  <1> QED BY <1>3, <1>4 DEF CalmInv

\* What the chat shows is true, whatever fails and whatever is unbound: a
\* command reported as done was begun, and one reported as refused never is
\* while the ledger remembers it.
THEOREM AnswersAlwaysTrue == Spec => []AnswersTrue
  <1> DEFINE Inv == TypeInv /\ LockHeld /\ TruthInv
  <1>1. Init => Inv
    BY InitTypes, InitQuiet
  <1>2. Inv /\ [Next]_vars => Inv'
    BY TypeStep, LockStep, TruthStep
  <1>3. Inv => AnswersTrue
    <2> SUFFICES ASSUME Inv PROVE AnswersTrue
      OBVIOUS
    <2>1. seen \subseteq Said
      BY SaidBy
    <2> QED BY <2>1 DEF TruthInv, AnswersTrue, Refusals
  <1> HIDE DEF Inv
  <1>4. Spec => []Inv
    BY <1>1, <1>2, PTL DEF Spec
  <1> QED BY <1>3, <1>4, PTL

-----------------------------------------------------------------------------
Calm == entry = "ws" /\ ~disturbed

\* A process takes what it fetched, once.
LEMMA FetchedStep == TypeInv /\ Fetched /\ [Next]_vars => Fetched'
  <1> SUFFICES ASSUME TypeInv, Fetched, [Next]_vars
               PROVE  Fetched'
    OBVIOUS
  <1>0. sync \in [Process -> Syncing]
    BY DEF TypeInv, TypeOK
  <1>1. CASE UNCHANGED sync
    BY <1>1 DEF Fetched
  <1>2. CASE ClientNext
    <2> PICK p \in Process :
          \/ BeginSync(p) \/ EndSync(p)
          \/ \E e \in Event : TakeNext(p, e)
          \/ Decide(p) \/ Execute(p) \/ Upload(p) \/ RemoveCommand(p)
          \/ StopSync(p) \/ RemoveFails(p)
      BY <1>2 DEF ClientNext
    <2>1. \A q \in Process : q # p => sync'[q] = sync[q]
      BY <1>0 DEF BeginSync, EndSync, TakeNext, Takes, Decide, Decides, Turns, Execute, Upload,
                  RemoveCommand, StopSync, RemoveFails
    <2>2. CASE BeginSync(p) \/ EndSync(p) \/ RemoveCommand(p) \/ StopSync(p) \/ RemoveFails(p)
      <3>1. sync'[p].at = "next" \/ sync'[p] = Rest
        BY <1>0, <2>2 DEF BeginSync, EndSync, RemoveCommand, StopSync, RemoveFails, Syncing
      <3> QED BY <2>1, <3>1 DEF Fetched, Rest
    <2>3. CASE \E e \in Event : TakeNext(p, e)
      <3>1. /\ sync'[p].at \notin {"idle", "next"}
            /\ sync'[p].event \notin sync'[p].todo
        BY <1>0, <2>3 DEF TakeNext, Takes
      <3> QED BY <2>1, <3>1 DEF Fetched
    <2>4. CASE Decide(p) \/ Execute(p) \/ Upload(p)
      <3>1. /\ sync[p].at \notin {"idle", "next"} /\ sync'[p].at # "idle"
            /\ sync'[p].event = sync[p].event /\ sync'[p].todo = sync[p].todo
        BY <1>0, <2>4 DEF Decide, Decides, Execute, Upload, Turns, Syncing
      <3> QED BY <2>1, <3>1 DEF Fetched
    <2> QED BY <2>2, <2>3, <2>4
  <1> QED BY <1>1, <1>2, OutsideClient, StoreQuiet DEF Next, client

\* What was disturbed stays so.
LEMMA StaysDisturbed == TypeInv /\ [Next]_vars /\ Calm' => Calm
  <1> SUFFICES ASSUME TypeInv, [Next]_vars, Calm'
               PROVE  Calm
    OBVIOUS
  <1>1. entry' = entry
    BY DEF Next, ChatNext, HubNext, ClientNext, StoreNext, Send, WebhookEvent, Receive, Receives,
       Deliver, SendAnswer, LinkPath, LinkReceipt, LinksReceipt, Acknowledge, DeleteAnswer,
       StopConnector, BeginSync, EndSync, TakeNext, Takes, Decide, Decides, Execute, Upload,
       RemoveCommand, StopSync, RemoveFails, Unbind, ExpireToken, ExpireEvent, vars, world
  <1>2. ~disturbed
    <2>1. CASE ChatNext \/ StoreNext \/ UNCHANGED vars
      <3>1. disturbed' = disturbed
        BY <2>1, Zenon DEF ChatNext, Send, StoreNext, Unbind, ExpireToken, ExpireEvent, vars
      <3> QED BY <3>1, Zenon DEF Calm
    <2>2. CASE HubNext
      <3>1. \A k \in Connector, e \in Event : Receive(k, e) => (disturbed => disturbed')
        BY Zenon DEF Receive, Receives
      <3>2. CASE \/ \E e \in Event : WebhookEvent(e)
                 \/ \E k \in Connector : \/ \E e \in Event : SendAnswer(k, e)
                                         \/ LinkPath(k) \/ LinkReceipt(k) \/ Acknowledge(k)
                                         \/ DeleteAnswer(k)
        <4>1. disturbed' = disturbed
          BY <3>2, Zenon DEF WebhookEvent, SendAnswer, LinkPath, LinkReceipt, LinksReceipt,
                             Acknowledge, DeleteAnswer
        <4> QED BY <4>1, Zenon DEF Calm
      <3>3. \A k \in Connector : StopConnector(k) => disturbed'
        BY Zenon DEF StopConnector, Fault
      <3> QED BY <2>2, <3>1, <3>2, <3>3, Zenon DEF HubNext, Calm
    <2>3. CASE ClientNext
      <3>1. \A p \in Process : StopSync(p) \/ RemoveFails(p) => disturbed'
        BY Zenon DEF StopSync, RemoveFails, Fault
      <3>2. CASE \E p \in Process : \/ BeginSync(p) \/ EndSync(p)
                                    \/ \E e \in Event : TakeNext(p, e)
                                    \/ Decide(p) \/ Execute(p) \/ Upload(p) \/ RemoveCommand(p)
        <4>1. disturbed' = disturbed
          BY <3>2, Zenon DEF BeginSync, EndSync, TakeNext, Takes, Decide, Decides, Execute, Upload,
                             RemoveCommand
        <4> QED BY <4>1, Zenon DEF Calm
      <3> QED BY <2>3, <3>1, <3>2, Zenon DEF ClientNext, Calm
    <2> QED BY <2>1, <2>2, <2>3, Zenon DEF Next
  <1> QED BY <1>1, <1>2, Zenon DEF Calm

\* A receipt outlives what happens to the file at the Client.
LEMMA ReceiptFrame ==
  ASSUME ReceiptInv, UNCHANGED <<conn, receipt>>,
         mail' \cup ledger' \subseteq mail \cup ledger
  PROVE  ReceiptInv'
  BY DEF ReceiptInv, Handles

\* Without a fault, and while no two connectors handle one event, an event comes
\* into the mailbox once.
LEMMA ReceiptStep ==
  ASSUME TypeInv, Fetched, Calm, Calm', ReceiptInv, TakenInv, [Next]_vars
  PROVE  ReceiptInv'
  <1>0. /\ conn \in [Connector -> Handling]
        /\ mail \subseteq Event /\ entry = "ws" /\ entry' = "ws"
        /\ ~disturbed'
    <2>1. ~disturbed'
      BY Zenon DEF Calm
    <2> QED BY <2>1 DEF TypeInv, TypeOK, Calm
  <1>1. CASE ChatNext \/ StoreNext \/ UNCHANGED vars
    <2>1. UNCHANGED <<conn, receipt, mail>> /\ ledger' \subseteq ledger
      BY <1>1 DEF ChatNext, Send, StoreNext, Unbind, ExpireToken, ExpireEvent, vars, hub, client
    <2> QED BY <2>1, ReceiptFrame
  <1>2. CASE ClientNext
    <2>1. UNCHANGED <<conn, receipt>> /\ mail' \subseteq mail
      BY <1>2 DEF ClientNext, BeginSync, EndSync, TakeNext, Takes, Decide, Decides, Execute, Upload,
                  RemoveCommand, StopSync, RemoveFails, hub
    <2>2. ledger' \subseteq mail \cup ledger
      <3>1. \A p \in Process, e \in Event :
              TakeNext(p, e) => ledger' = ledger \cup {e} /\ e \in sync[p].todo
        BY DEF TakeNext, Takes
      <3>2. CASE \E p \in Process : \/ BeginSync(p) \/ EndSync(p) \/ Decide(p) \/ Execute(p)
                                    \/ Upload(p) \/ RemoveCommand(p) \/ StopSync(p) \/ RemoveFails(p)
        BY <3>2 DEF BeginSync, EndSync, Decide, Decides, Execute, Upload, RemoveCommand, StopSync,
                    RemoveFails
      <3> QED BY <1>2, <3>1, <3>2 DEF ClientNext, TakenInv
    <2> QED BY <2>1, <2>2, ReceiptFrame
  <1>3. CASE \/ \E e \in Event : WebhookEvent(e)
             \/ \E k \in Connector : StopConnector(k)
    BY <1>0, <1>3, Zenon DEF WebhookEvent, StopConnector, Fault
  <1>4. CASE \E k \in Connector : DeleteAnswer(k) \/ \E e \in Event : SendAnswer(k, e)
    <2>1. UNCHANGED <<conn, receipt, mail, ledger>>
      BY <1>4 DEF SendAnswer, DeleteAnswer, hub, client
    <2> QED BY <2>1, ReceiptFrame
  <1>5. ASSUME NEW k \in Connector, NEW e \in Event, Receive(k, e)
        PROVE  ReceiptInv'
    <2>1. \A j \in Connector : conn[j].event # e
      BY <1>0, <1>5, Zenon DEF Receive, Receives
    <2>2. /\ conn[k].at = "idle" /\ UNCHANGED <<receipt, mail, ledger>>
          /\ \A j \in Connector : j # k => conn'[j] = conn[j]
          /\ conn'[k] = IF e \in receipt THEN Waiting ELSE [at |-> "link", event |-> e]
      BY <1>0, <1>5 DEF Receive, Receives, client
    <2>3. conn'[k].at # "idle" =>
            conn'[k].at = "link" /\ conn'[k].event = e /\ e \notin receipt
      BY <2>2 DEF Waiting
    <2>4. e \in receipt \/ e \notin mail \cup ledger
      BY <2>1 DEF ReceiptInv, Handles
    <2> QED BY <2>1, <2>2, <2>3, <2>4 DEF ReceiptInv, Handles
  <1>6. ASSUME NEW k \in Connector, LinkPath(k)
        PROVE  ReceiptInv'
    <2>1. /\ conn[k].at = "link" /\ UNCHANGED <<receipt, ledger>>
          /\ mail' = mail \cup {conn[k].event}
          /\ \A j \in Connector : j # k => conn'[j] = conn[j]
          /\ conn'[k].at = "receipt" /\ conn'[k].event = conn[k].event
      BY <1>0, <1>6 DEF LinkPath, Handling, client
    <2> QED BY <2>1 DEF ReceiptInv, Handles
  <1>7. ASSUME NEW k \in Connector, LinkReceipt(k)
        PROVE  ReceiptInv'
    <2>1. /\ conn[k].at = "receipt" /\ UNCHANGED <<mail, ledger>>
          /\ receipt' = receipt \cup {conn[k].event}
          /\ \A j \in Connector : j # k => conn'[j] = conn[j]
          /\ \/ conn'[k].at = "idle"
             \/ conn'[k].at = "reply" /\ conn'[k].event = conn[k].event
      BY <1>0, <1>7 DEF LinkReceipt, LinksReceipt, Accepted, Waiting, Handling, client
    <2> QED BY <2>1 DEF ReceiptInv, Handles
  <1>8. ASSUME NEW k \in Connector, Acknowledge(k)
        PROVE  ReceiptInv'
    <2>1. /\ conn[k].at = "reply" /\ UNCHANGED <<receipt, mail, ledger>>
          /\ \A j \in Connector : j # k => conn'[j] = conn[j]
          /\ conn'[k].at = "idle"
      BY <1>0, <1>8 DEF Acknowledge, Waiting, client
    <2> QED BY <2>1 DEF ReceiptInv, Handles
  <1> QED BY <1>1, <1>2, <1>3, <1>4, <1>5, <1>6, <1>7, <1>8 DEF Next, HubNext

\* A step at the Hub, or one that forgets: what is fetched stays what it was.
LEMMA TakenFrame ==
  ASSUME TakenInv, sync' = sync, Said' \subseteq Said,
         mail \subseteq mail', ledger' \subseteq ledger,
         mail' \cap ledger' \subseteq mail
  PROVE  TakenInv'
  BY DEF TakenInv

\* Without a fault a process dispatches each event that it fetched, removes its
\* file and so never meets it again.
LEMMA TakenStep ==
  ASSUME TypeInv, LockHeld, Fetched, Calm, Calm', ReceiptInv, TakenInv, [Next]_vars
  PROVE  TakenInv'
  <1>0. /\ conn \in [Connector -> Handling] /\ sync \in [Process -> Syncing]
        /\ answer \in [Event -> Result \cup {None}]
        /\ None \notin Process /\ entry = "ws" /\ ~disturbed'
    <2>1. ~disturbed'
      BY Zenon DEF Calm
    <2> QED BY <2>1, FeishuMailboxAssumption DEF TypeInv, TypeOK, Calm
  <1>1. CASE ChatNext \/ StoreNext \/ UNCHANGED vars
    <2>1. /\ UNCHANGED <<seen, answer, sync, mail>> /\ ledger' \subseteq ledger
      BY <1>1 DEF ChatNext, Send, StoreNext, Unbind, ExpireToken, ExpireEvent, vars, hub, client,
                  chat
    <2>2. Said' \subseteq Said
      BY <2>1 DEF Said
    <2> QED BY <2>1, <2>2, TakenFrame
  <1>2. CASE HubNext
    <2>1. Said' \subseteq Said /\ UNCHANGED <<sync, ledger>>
      BY <1>2, HubPassesOn, OutsideClient DEF client
    <2>2. mail \subseteq mail' /\ mail' \cap ledger' \subseteq mail
      <3>1. CASE \E e \in Event : WebhookEvent(e)
        BY <1>0, <3>1 DEF WebhookEvent
      <3>2. ASSUME NEW k \in Connector, LinkPath(k)
            PROVE  mail \subseteq mail' /\ mail' \cap ledger' \subseteq mail
        BY <2>1, <3>2 DEF LinkPath, ReceiptInv
      <3>3. CASE \E k \in Connector :
                    \/ \E e \in Event : Receive(k, e) \/ SendAnswer(k, e)
                    \/ LinkReceipt(k) \/ Acknowledge(k) \/ DeleteAnswer(k) \/ StopConnector(k)
        BY <3>3 DEF Receive, Receives, SendAnswer, LinkReceipt, LinksReceipt, Acknowledge,
                    DeleteAnswer, StopConnector, hub
      <3> QED BY <1>2, <3>1, <3>2, <3>3 DEF HubNext
    <2> QED BY <2>1, <2>2, TakenFrame
  <1>3. CASE ClientNext
    <2> PICK p \in Process :
          \/ EndSync(p) \/ BeginSync(p)
          \/ \E e \in Event : TakeNext(p, e)
          \/ Decide(p) \/ Execute(p) \/ Upload(p) \/ RemoveCommand(p)
          \/ StopSync(p) \/ RemoveFails(p)
      BY <1>3 DEF ClientNext
    <2>1. \A q \in Process : q # p => sync[q].at = "idle" /\ sync'[q] = sync[q]
      BY OneSyncs
    <2>2. \A q \in Process : q # p => sync'[q].at = "idle" /\ sync'[q].todo = {}
      BY <2>1 DEF Fetched
    <2>3. CASE StopSync(p) \/ RemoveFails(p)
      BY <1>0, <2>3, Zenon DEF StopSync, RemoveFails, Fault
    <2>4. CASE BeginSync(p)
      <3>1. /\ UNCHANGED <<seen, answer, mail, ledger>> /\ lock = None
            /\ sync'[p].at = "next" /\ sync'[p].todo = mail
        BY <1>0, <2>4 DEF BeginSync, Syncing, chat, hub
      <3>2. \A q \in Process : sync[q].at = "idle"
        BY <1>0, <3>1 DEF LockHeld
      <3>3. mail \cap ledger = {}
        BY <3>2 DEF TakenInv
      <3>4. Said' \subseteq Said
        BY <2>1, <3>1 DEF Said
      <3> QED BY <2>2, <3>1, <3>3, <3>4 DEF TakenInv
    <2>5. CASE EndSync(p)
      <3>1. /\ UNCHANGED <<seen, answer, mail, ledger>>
            /\ sync[p].at = "next" /\ sync'[p].at = "idle" /\ sync'[p].todo = {}
        BY <1>0, <2>5 DEF EndSync, Rest, chat, hub
      <3>2. mail \cap ledger = {}
        BY <2>1, <3>1 DEF TakenInv
      <3>3. Said' \subseteq Said
        BY <2>1, <3>1 DEF Said
      <3> QED BY <2>2, <3>1, <3>2, <3>3 DEF TakenInv
    <2>6. ASSUME NEW e \in Event, TakeNext(p, e)
          PROVE  TakenInv'
      <3>1. e \in mail \ ledger
        BY <2>6 DEF TakeNext, Takes, TakenInv
      <3>2. /\ UNCHANGED <<seen, answer, mail>> /\ ledger' = ledger \cup {e}
            /\ sync[p].at = "next" /\ sync'[p].at = "decide"
            /\ sync'[p].event = e /\ sync'[p].todo = sync[p].todo \ {e}
        BY <1>0, <2>6, <3>1 DEF TakeNext, Takes, Replayed, chat
      <3>3. mail \cap ledger = {}
        BY <2>1, <3>2 DEF TakenInv
      <3>4. Said' \subseteq Said
        BY <2>1, <3>2 DEF Said
      <3>5. sync'[p].todo \subseteq mail' \ ledger'
        BY <3>2 DEF TakenInv
      <3> QED BY <2>2, <3>2, <3>3, <3>4, <3>5 DEF TakenInv
    <2>7. CASE Decide(p) \/ Execute(p) \/ Upload(p)
      <3>1. /\ UNCHANGED <<seen, mail, ledger>>
            /\ sync[p].at \notin {"idle", "next"} /\ sync'[p].at \notin {"idle", "next"}
            /\ sync'[p].event = sync[p].event /\ sync'[p].todo = sync[p].todo
        BY <1>0, <2>7 DEF Decide, Decides, Execute, Upload, Turns, Syncing, chat, hub
      <3>2. \A s \in Said' : s[2].is # "replayed"
        <4>1. CASE Upload(p)
          <5>1. /\ sync[p].at = "upload" /\ sync'[p].at = "remove"
                /\ answer' = [answer EXCEPT ![sync[p].event] = sync[p].result]
            BY <1>0, <4>1 DEF Upload, Turns, Syncing
          <5>2. \A e \in Event :
                  answer'[e] = IF e = sync[p].event THEN sync[p].result ELSE answer[e]
            BY <1>0, <5>1
          <5>3. Said' \subseteq Said
            BY <2>1, <3>1, <5>1, <5>2 DEF Said
          <5> QED BY <5>3 DEF TakenInv
        <4>2. CASE Decide(p) \/ Execute(p)
          <5>1. answer' = answer
                /\ (sync'[p].at = "upload" => sync'[p].result.is # "replayed")
            <6>1. CASE Decide(p)
              <7> DEFINE refusal == Refusal(sent[sync[p].event])
              <7>1. /\ answer' = answer /\ sync'[p].result = refusal
                    /\ sync'[p].at = IF refusal = None THEN "execute" ELSE "upload"
                BY <1>0, <6>1 DEF Decide, Decides, Turns, Syncing
              <7>2. refusal # None => refusal.is # "replayed"
                BY DEF Refusal, Plain
              <7> QED BY <7>1, <7>2
            <6>2. CASE Execute(p)
              BY <1>0, <6>2 DEF Execute, Turns, Syncing, Plain
            <6> QED BY <4>2, <6>1, <6>2
          <5>2. \A s \in Said' : s \in Said \/ s[2].is # "replayed"
            BY <2>1, <3>1, <5>1 DEF Said
          <5> QED BY <5>2 DEF TakenInv
        <4> QED BY <2>7, <4>1, <4>2
      <3>3. \A e \in mail \cap ledger : e = sync[p].event
        BY <2>1, <3>1 DEF TakenInv
      <3>4. sync'[p].todo \subseteq mail' \ ledger'
        BY <3>1 DEF TakenInv
      <3> QED BY <2>2, <3>1, <3>2, <3>3, <3>4 DEF TakenInv
    <2>8. CASE RemoveCommand(p)
      <3>1. /\ UNCHANGED <<seen, answer, ledger>> /\ mail' = mail \ {sync[p].event}
            /\ sync[p].at = "remove" /\ sync'[p].at = "next" /\ sync'[p].todo = sync[p].todo
        BY <1>0, <2>8 DEF RemoveCommand, Syncing, chat
      <3>2. \A e \in mail \cap ledger : e = sync[p].event
        BY <2>1, <3>1 DEF TakenInv
      <3>3. sync'[p].todo \subseteq mail' \ ledger'
        BY <3>1 DEF TakenInv, Fetched
      <3>4. Said' \subseteq Said
        BY <2>1, <3>1 DEF Said
      <3> QED BY <2>2, <3>1, <3>2, <3>3, <3>4 DEF TakenInv
    <2> QED BY <2>3, <2>4, <2>5, <2>6, <2>7, <2>8
  <1> QED BY <1>1, <1>2, <1>3 DEF Next

\* Without a fault no chat is told that its command was processed before: receipts
\* and lock keep every event from a second dispatch, however many connectors and
\* processes there are, and however often Feishu delivers it.
THEOREM NeverSpuriousReplay == Spec => []NoSpuriousReplay
  <1> DEFINE Inv == TypeInv /\ LockHeld /\ Fetched /\ CalmInv
  <1>1. Init => Inv
    BY InitTypes, InitQuiet
  <1>2. Inv /\ [Next]_vars => CalmInv'
    <2> SUFFICES ASSUME Inv, [Next]_vars, Calm'
                 PROVE  ReceiptInv' /\ TakenInv'
      BY Zenon DEF CalmInv, Calm
    <2>1. Calm
      BY StaysDisturbed
    <2>2. ReceiptInv /\ TakenInv
      BY <2>1, Zenon DEF CalmInv, Calm
    <2> QED BY <2>1, <2>2, ReceiptStep, TakenStep
  <1>3. Inv /\ [Next]_vars => Inv'
    BY <1>2, TypeStep, LockStep, FetchedStep
  <1>4. Inv => NoSpuriousReplay
    <2> SUFFICES ASSUME Inv, Calm PROVE \A s \in seen : s[2].is # "replayed"
      BY Zenon DEF NoSpuriousReplay, Calm
    <2>1. TakenInv
      BY Zenon DEF CalmInv, Calm
    <2>2. seen \subseteq Said
      BY SaidBy
    <2> QED BY <2>1, <2>2 DEF TakenInv
  <1> HIDE DEF Inv
  <1>5. Spec => []Inv
    BY <1>1, <1>3, PTL DEF Spec
  <1> QED BY <1>4, <1>5, PTL
=============================================================================

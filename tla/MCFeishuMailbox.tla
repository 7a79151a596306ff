-------------------------- MODULE MCFeishuMailbox --------------------------
(* A small instance of FeishuMailbox, and the two plays on it that TLC checks. *)
EXTENDS FeishuMailbox

VARIABLE play    \* "chat" or "confirm"

\* Feishu, the Hub and the Client handle one event of one operator, with every
\* fault in between.
Chat ==
    /\ \A e \in Event \ {1} : sent'[e] = None
    /\ sent'[1] # None => sent'[1].op = "o1"
    /\ "o2" \in bound'

\* Two operators ask for a destructive command and confirm it, in three events
\* that come once, while a process ends or the ledger forgets one of them.
Confirmation ==
    /\ entry = "webhook"
    /\ \A e \in Event : sent'[e] # None =>
          sent'[e].kind = "destroy" /\ due'[e] >= MaxDeliveries - 1
    /\ outbox'["k2"] = None /\ sync'["p2"] = Rest
    /\ unbinds' = 0 /\ faults' + expiries' <= 1

PlaysInit ==
    /\ Init
    /\ play \in {"chat", "confirm"}
    /\ play = "confirm" => entry = "webhook"

ChatsAndConfirmations ==
    /\ PlaysInit
    /\ [][/\ Next /\ play' = play
          /\ play = "chat" => Chat
          /\ play = "confirm" => Confirmation]_<<vars, play>>
    /\ WF_vars(play = "chat" /\ \E p \in Process : BeginSync(p))
    /\ \A p \in Process : WF_vars(play = "chat" /\ Syncs(p))
    /\ \A k \in Connector :
          /\ WF_vars(play = "chat" /\ DeleteAnswer(k))
          /\ WF_vars(play = "chat" /\ SendAnswer(k, 1))

\* Answered of FeishuMailbox, for the one event of the chat.
ChatAnswered == play = "chat" => Answered(1)
=============================================================================

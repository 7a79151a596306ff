----------------------------- MODULE TunnelOwner -----------------------------
(***************************************************************************)
(* What the occupancy promises: at most one owner at a time, and a term    *)
(* that is given to one Client only.  A term is an epoch and a generation; *)
(* the generation rises whenever the tunnel changes hands, and a new epoch *)
(* begins when the counter restarts.                                       *)
(***************************************************************************)
EXTENDS Naturals

CONSTANTS Client, NoOne

VARIABLES owner, generation, epoch, given

vars == <<owner, generation, epoch, given>>

Init ==
    /\ owner = NoOne
    /\ generation = 0
    /\ epoch = 0
    /\ given = {}

\* c takes the tunnel from whoever has it; an owner whose generation was lost
\* gets a new one.
Take(c) ==
    /\ owner # c \/ generation = 0
    /\ owner' = c
    /\ generation' = generation + 1
    /\ given' = given \cup {<<epoch, generation', c>>}
    /\ UNCHANGED epoch

\* The owner leaves, or the tunnel's generation is forgotten under it.
Lapse ==
    /\ owner' \in {owner, NoOne}
    /\ generation' = 0
    /\ epoch' = IF generation > 0 THEN epoch + 1 ELSE epoch
    /\ UNCHANGED given

Next == (\E c \in Client : Take(c)) \/ Lapse

Spec == Init /\ [][Next]_vars
=============================================================================

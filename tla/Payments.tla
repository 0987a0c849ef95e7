------------------------------ MODULE Payments ------------------------------
(***************************************************************************)
(* What the simulator of src/blockchain promises of deals, without         *)
(* threads, queues, routes, dags or tips: the tokens of a deal leave the   *)
(* purse of its source once, when it is taken up, and arrive at most once, *)
(* at its destination or back at its source.  Nothing else moves tokens.   *)
(***************************************************************************)
EXTENDS Integers, Sequences

CONSTANTS
    Device,
    Deals,      \* a sequence of [src, dst, token]
    Token,      \* what every purse starts with
    Word        \* the counters are computed modulo Word

VARIABLES
    index,      \* deals taken up so far
    purse,      \* purse[d]: the tokens d can spend
    paying      \* deals whose tokens have left and may still arrive

vars == <<index, purse, paying>>

Init ==
    /\ index = 0
    /\ purse = [d \in Device |-> Token]
    /\ paying = {}

\* A deal beyond the purse of its source is skipped for good.
Skip ==
    /\ index < Len(Deals)
    /\ Deals[index + 1].token > purse[Deals[index + 1].src]
    /\ index' = index + 1
    /\ UNCHANGED <<purse, paying>>

\* A deal is taken up; without anybody to send it to, its tokens stay frozen.
Take ==
    LET deal == Deals[index + 1]
    IN  /\ index < Len(Deals)
        /\ deal.token <= purse[deal.src]
        /\ index' = index + 1
        /\ purse' = [purse EXCEPT ![deal.src] = @ - deal.token]
        /\ paying' \in {paying, paying \cup {index + 1}}

\* The deal was confirmed or refused, and the device concerned hears of it.
Arrive ==
    \E n \in paying : \E d \in {Deals[n].src, Deals[n].dst} :
        /\ paying' = paying \ {n}
        /\ purse' = [purse EXCEPT ![d] = (@ + Deals[n].token) % Word]
        /\ UNCHANGED index

\* Messages about deals are dropped: when the mainchain is initialised, and
\* when a message has picked a tip that fails.
Lose ==
    /\ paying' \subseteq paying
    /\ UNCHANGED <<index, purse>>

Next == Skip \/ Take \/ Arrive \/ Lose

Spec == Init /\ [][Next]_vars
=============================================================================

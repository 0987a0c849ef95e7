--------------------------- MODULE MCBlockchain ---------------------------
(***************************************************************************)
(* Small instances of Blockchain for TLC: the deals and the topologies the *)
(* configurations choose from.  Device 0 is always heavy.                  *)
(***************************************************************************)
EXTENDS Blockchain

Deal(s, d, t) == [src |-> s, dst |-> d, token |-> t]

\* A topology from the pairs of devices in range of each other.
InRange(pairs) == [d \in Device |-> {e \in Device : d # e /\ {d, e} \in pairs}]
AllInRange == InRange({{d, e} : d, e \in Device})
Hub == InRange({{0, 1}, {0, 2}})     \* 0 hears 1 and 2, they only hear 0
Chain == InRange({{0, 1}, {1, 2}})   \* 2 reaches 0 through 1's gossip
TwoOnly == InRange({{0, 1}})         \* nobody hears 2

Fixed == {AllInRange}
FixedHub == {Hub}
FixedChain == {Chain}
Heard == {AllInRange, TwoOnly}

\* Device 0 spends most of its account, so the confirmed deal 1 does not
\* verify a second time; deal 3 is more than anybody ever has.
DealsScarce == <<Deal(0, 1, 3), Deal(1, 0, 1), Deal(1, 0, 9), Deal(1, 0, 1),
                 Deal(1, 0, 1), Deal(1, 0, 1), Deal(1, 0, 1), Deal(1, 0, 1)>>
\* The same with five deals: a failed node is taken over by the last one.
DealsFew == <<Deal(0, 1, 3), Deal(1, 0, 1), Deal(1, 0, 9), Deal(1, 0, 1),
              Deal(1, 0, 1)>>
\* Light device 2 is paid and then spends more than it started with: a heavy
\* device that still quotes what it started with refuses the deal.
DealsPaid == <<Deal(0, 2, 2), Deal(0, 1, 1), Deal(2, 0, 5), Deal(1, 0, 1)>>
\* The third notice goes to a device without a heavy device in its dag.
DealsOrphan == <<Deal(0, 1, 1), Deal(0, 1, 1), Deal(0, 2, 1), Deal(0, 1, 1)>>
DealsChain == <<Deal(0, 1, 1), Deal(0, 2, 1), Deal(0, 1, 1), Deal(2, 0, 1)>>
=============================================================================

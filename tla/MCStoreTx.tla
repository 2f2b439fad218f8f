------------------------------ MODULE MCStoreTx ------------------------------
(***************************************************************************)
(* Small instances of StoreTx for TLC.                                     *)
(***************************************************************************)
EXTENDS StoreTxProperties, TLC

CONSTANTS u1, u2, u3,       \* users
          mug, nobody       \* a good; a name that is neither user nor good

MCPrice == [g \in Goods |-> 2]

Send(u, v, n) == [op |-> "SendCoins", user |-> u, to |-> v, amount |-> n]
Buy(u, g) == [op |-> "BuyItem", user |-> u, good |-> g]

(***************************************************************************)
(* Opposite transfers, a purchase of the same coins, a recipient who has   *)
(* never called, an amount no balance covers, and calls that are refused   *)
(* before a transaction begins.                                            *)
(***************************************************************************)
MixedCalls ==
    {Send(u1, u2, 2), Send(u2, u1, 1), Send(u2, u3, 3), Buy(u1, mug),
     Send(u1, u1, 1), Send(u1, nobody, 1), Buy(u2, nobody)}

\* Transfers in a ring, an opposite pair, one that is not covered, and a purchase.
RingCalls ==
    {Send(u1, u2, 1), Send(u2, u3, 1), Send(u3, u1, 1), Send(u2, u1, 2), Send(u1, u3, 3),
     Buy(u1, mug)}

ReqSymmetry == Permutations(Reqs)
=============================================================================

----------------------------- MODULE MCUserInfo -----------------------------
(***************************************************************************)
(* Small instances of UserInfo for TLC.                                    *)
(***************************************************************************)
EXTENDS UserInfoProperties, TLC

CONSTANTS u1, u2, mug

MCPrice == [g \in Goods |-> 1]

MCUsername == u1 :> "alice" @@ u2 :> "bob"

Send(from, to, n) == [op |-> "SendCoins", user |-> from, to |-> to, amount |-> n]
Buy(u) == [op |-> "BuyItem", user |-> u, good |-> mug]

\* What alice sends, receives and buys while she looks.
MCCalls == {Send(u1, u2, 1), Send(u2, u1, 2), Buy(u1)}

\* A transfer that is not covered: all it does is to take a connection.
PoolCalls == {Send(u1, u2, 3)}

MCCaller == [i \in Infos |-> u1]

MCSymmetry == Permutations(Reqs)
=============================================================================

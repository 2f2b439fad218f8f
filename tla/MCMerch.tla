------------------------------- MODULE MCMerch -------------------------------
(***************************************************************************)
(* Small instances of MerchSystem for TLC.                                 *)
(***************************************************************************)
EXTENDS MerchProperties, TLC

CONSTANTS alice, bob

MCPrice == [g \in Goods |-> 1]

Send(to, n) == [op |-> "SendCoins", to |-> to, amount |-> n]
Buy(good) == [op |-> "BuyItem", good |-> good]

\* Anybody may send to anybody, themselves included, or buy what there is or not.
MCAsks == {Send(alice, 1), Send(bob, 1), Buy("mug")}

\* Two payments carry the tokens of two logins, of one account or of two.
MCBearers ==
    {b \in [Requests \cup Looks -> Logins] : \A r, s \in Requests : b[r] = b[s] => r = s}

MCSymmetry ==
    Permutations(Names) \cup Permutations(Logins)
      \cup Permutations(Passwords) \cup Permutations(Requests)
=============================================================================

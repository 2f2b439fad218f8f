------------------------------ MODULE MCGateway ------------------------------
(***************************************************************************)
(* Small instances of Gateway for TLC.                                     *)
(***************************************************************************)
EXTENDS GatewayProperties, TLC

CONSTANTS u1, u2, mug

MCPrice == [g \in {mug} |-> 1]

MCCalls ==
    {[op |-> "SendCoins", user |-> u1, to |-> u2, amount |-> 1],
     [op |-> "BuyItem", user |-> u1, good |-> mug]}

Carries(header, signed, exp, wellFormed) ==
    [header |-> header, signed |-> signed, exp |-> exp, wellFormed |-> wellFormed]

\* In order, without a token, of a stranger, about to expire, with a body that does not bind.
MCRequests ==
    {Carries("bearer", TRUE, 3, TRUE), Carries("missing", FALSE, 3, TRUE),
     Carries("bearer", FALSE, 3, TRUE), Carries("bearer", TRUE, 1, TRUE),
     Carries("bearer", TRUE, 3, FALSE)}
=============================================================================

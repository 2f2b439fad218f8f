-------------------------- MODULE GatewayProperties --------------------------
(***************************************************************************)
(* What a client may conclude from HTTP statuses (Gateway).                *)
(***************************************************************************)
EXTENDS Gateway

(***************************************************************************)
(* Type correctness: the statuses are those handleGRPCError, the           *)
(* middleware and the handlers write (store_handler.go:37-81).             *)
(***************************************************************************)
TypeOK ==
    /\ request \in [Reqs -> Requests]
    /\ stage \in [Reqs -> {"new", "aborted", "forwarded", "serving"}]
    /\ status \in [Reqs -> {0, 200, 400, 401, 500}]
    /\ arrived \in [Reqs -> 0 .. MaxTime]
    /\ now \in 0 .. MaxTime

Happened(r) == Ledger!Happened(r)

(***************************************************************************)
(* 200 means that the payment has happened, 400 and 401 that it has not    *)
(* and never will, so that trying again after them costs nothing extra     *)
(* (store_handler.go:66-81, with the answers of store_service.go:59-111).  *)
(***************************************************************************)
StatusesAreHonest ==
    \A r \in Reqs :
        /\ status[r] = 200 => Happened(r)
        /\ status[r] \in {400, 401} =>
             ~Happened(r) /\ (reply[r] \in Refusals \/ stage[r] = "aborted")

(***************************************************************************)
(* A client that repeats a payment until it is told 200 pays at most once  *)
(* more than it was left in doubt by a 500: no call is charged twice, and  *)
(* no other status hides a charge that happened or is still to come        *)
(* (store_adapter.go:20-51; there is no idempotency key to do better).     *)
(***************************************************************************)
RetriesAreBounded ==
    Cardinality({r \in Attempts : Happened(r)})
      <= 1 + Cardinality({r \in Attempts : status[r] = 500})

(***************************************************************************)
(* A request that came in without a bearer token, with one that auth has   *)
(* not signed, or with one that had expired, moves no coins, whoever gives *)
(* up on it and however late its call is served (jwt_middleware.go:15-32,  *)
(* auth_interceptor.go:38-50, tokens.go:65-84).                            *)
(***************************************************************************)
Entitled(r) ==
    request[r].header = "bearer" /\ request[r].signed /\ arrived[r] < request[r].exp

StrangersMoveNothing == \A r \in Reqs : Happened(r) => Entitled(r)

(***************************************************************************)
(* Every request that reached the store's door is answered, though the     *)
(* store may never answer: the gateway's own deadline sees to it.          *)
(***************************************************************************)
EveryRequestIsAnswered == \A r \in Reqs : stage[r] = "forwarded" ~> status[r] # 0
=============================================================================

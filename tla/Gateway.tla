------------------------------- MODULE Gateway -------------------------------
(***************************************************************************)
(* HTTP requests for money operations, from the client through the gateway *)
(* to the store and back: the JWT middleware, the binding of the body, the *)
(* call with its deadline, the store's check of the token, and the         *)
(* translation of status codes.  What the store does with a call that got  *)
(* past its interceptor is StoreLedger's business.  One client repeats a   *)
(* payment until it is told that it has been made.                         *)
(***************************************************************************)
EXTENDS StoreData, FiniteSets

CONSTANTS
    Requests,       \* what a request carries besides its call
    Attempts,       \* the requests by which the client makes one payment
    MaxTime         \* bounds the clock

(***************************************************************************)
(* signed: the token is HS256 under the secret that auth and the store     *)
(* share; exp: when it expires; wellFormed: the body binds.                *)
(***************************************************************************)
ASSUME GatewayAssumption ==
    /\ Requests \subseteq [header : {"missing", "malformed", "bearer"}, signed : BOOLEAN,
                           exp : Nat, wellFormed : BOOLEAN]
    /\ Attempts \subseteq Reqs /\ IsFiniteSet(Attempts)
    /\ MaxTime \in Nat

VARIABLES
    call, balances, transactions, purchases, reply,     \* see StoreLedger
    request,        \* request[r]: what request r carries
    stage,          \* stage[r]: how far it has got on its way in
    status,         \* status[r]: the HTTP status it was answered with, or 0
    arrived,        \* arrived[r]: when it came in
    now             \* the clock

ledger == <<call, balances, transactions, purchases, reply>>
vars == <<ledger, request, stage, status, arrived, now>>

Ledger == INSTANCE StoreLedger

Init ==
    /\ Ledger!Init
    /\ \A a, b \in Attempts : call[a] = call[b]
    /\ request \in [Reqs -> Requests]
    /\ stage = [r \in Reqs |-> "new"]
    /\ status = [r \in Reqs |-> 0]
    /\ arrived = [r \in Reqs |-> 0]
    /\ now = 0

Tick ==
    /\ now < MaxTime
    /\ now' = now + 1
    /\ UNCHANGED <<ledger, request, stage, status, arrived>>

\* Accounts open in the interceptor and for recipients.
AccountOpens(u) ==
    /\ Ledger!OpenAccount(u)
    /\ UNCHANGED <<reply, request, stage, status, arrived, now>>

-----------------------------------------------------------------------------
(***************************************************************************)
(* The gateway, on the way in.                                             *)
(***************************************************************************)
\* A client that pays in attempts makes the next one when the last has not ended in 200.
Tries(r) ==
    /\ stage[r] = "new"
    /\ r \in Attempts => \A q \in Attempts \ {r} : stage[q] # "new" => status[q] \notin {0, 200}

\* The gateway answers without asking the store.
Abort(r, code) ==
    /\ stage' = [stage EXCEPT ![r] = "aborted"]
    /\ status' = [status EXCEPT ![r] = code]

AuthMiddlewareAborts(r) ==
    /\ Tries(r)
    /\ request[r].header # "bearer"
    /\ Abort(r, 401)
    /\ UNCHANGED <<ledger, request, arrived, now>>

\* Only the body of a transfer is bound: its amount is positive, its recipient not empty.
BindingFails(r) ==
    /\ Tries(r)
    /\ request[r].header = "bearer"
    /\ IsSend(call[r]) /\ ~request[r].wellFormed
    /\ Abort(r, 400)
    /\ UNCHANGED <<ledger, request, arrived, now>>

Forward(r) ==
    /\ Tries(r)
    /\ request[r].header = "bearer"
    /\ IsSend(call[r]) => request[r].wellFormed
    /\ stage' = [stage EXCEPT ![r] = "forwarded"]
    /\ arrived' = [arrived EXCEPT ![r] = now]
    /\ UNCHANGED <<ledger, request, status, now>>

\* Fault: the call has no deadline.
CallEnds_Never(r) == FALSE /\ r \in Reqs /\ UNCHANGED vars

\* The five seconds are over, or the connection to the store fails; the call may go on.
CallEnds(r) ==
    /\ stage[r] \in {"forwarded", "serving"}
    /\ \E code \in Unknowns : Ledger!Answer(r, code)
    /\ UNCHANGED <<call, balances, transactions, purchases, request, stage, status, arrived, now>>

\* Fault: the default branch is missing, so that gin answers 200.
HttpCode_NoDefault(code) ==
    CASE code = "Unauthenticated" -> 401
      [] code \in Refusals \ {"Unauthenticated"} -> 400
      [] OTHER -> 200

\* Fault: the default branch writes the number of the gRPC code, codes.Internal.
HttpCode_Raw(code) ==
    CASE code = "OK" -> 200
      [] code = "Unauthenticated" -> 401
      [] code \in Refusals \ {"Unauthenticated"} -> 400
      [] OTHER -> 13

\* Fault: internal errors are taken for errors of the client.
HttpCode_BlamesClient(code) ==
    CASE code = "OK" -> 200
      [] code = "Unauthenticated" -> 401
      [] OTHER -> 400

HttpCode(code) ==
    CASE code = "OK" -> 200
      [] code = "Unauthenticated" -> 401
      [] code \in Refusals \ {"Unauthenticated"} -> 400
      [] OTHER -> 500

HandleGRPCError(r) ==
    /\ reply[r] # "none" /\ status[r] = 0
    /\ status' = [status EXCEPT ![r] = HttpCode(reply[r])]
    /\ UNCHANGED <<ledger, request, stage, arrived, now>>

-----------------------------------------------------------------------------
(***************************************************************************)
(* The store.                                                              *)
(***************************************************************************)
\* Fault: the parser is given no expiry to check.
ParseToken_NoExpiry(r) == request[r].signed

ParseToken(r) == request[r].signed /\ now < request[r].exp

AuthInterceptor(r) ==
    /\ stage[r] = "forwarded"
    /\ ParseToken(r)
    /\ stage' = [stage EXCEPT ![r] = "serving"]
    /\ UNCHANGED <<ledger, request, status, arrived, now>>

AuthInterceptorRejects(r) ==
    /\ stage[r] = "forwarded"
    /\ ~ParseToken(r)
    /\ Ledger!Answer(r, "Unauthenticated")
    /\ UNCHANGED <<call, balances, transactions, purchases, request, stage, status, arrived, now>>

\* COMMIT, with the answer still to come or nobody left to hear it.
Serve(r) ==
    /\ stage[r] = "serving"
    /\ Ledger!Transfer(r) \/ Ledger!Purchase(r)
    /\ UNCHANGED <<request, stage, status, arrived, now>>

Answer(r) ==
    /\ stage[r] = "serving"
    /\ \E code \in Codes \ {"Unauthenticated", "DeadlineExceeded"} : Ledger!Answer(r, code)
    /\ UNCHANGED <<call, balances, transactions, purchases, request, stage, status, arrived, now>>

-----------------------------------------------------------------------------
Next ==
    \/ Tick
    \/ \E u \in Users : AccountOpens(u)
    \/ \E r \in Reqs :
         \/ AuthMiddlewareAborts(r) \/ BindingFails(r) \/ Forward(r)
         \/ CallEnds(r) \/ HandleGRPCError(r)
         \/ AuthInterceptor(r) \/ AuthInterceptorRejects(r) \/ Serve(r) \/ Answer(r)

Spec == Init /\ [][Next]_vars

(***************************************************************************)
(* The gateway's deadline ends every call, and its handler is scheduled.   *)
(***************************************************************************)
FairSpec ==
    Spec /\ \A r \in Reqs : WF_vars(CallEnds(r)) /\ WF_vars(HandleGRPCError(r))
=============================================================================

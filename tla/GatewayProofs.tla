---------------------------- MODULE GatewayProofs ----------------------------
(***************************************************************************)
(* Proofs about Gateway, for any number of users and requests.             *)
(***************************************************************************)
EXTENDS GatewayProperties, FiniteSetTheorems, TLAPS

Replies == Codes \cup {"none"}

\* What is known of one request: its way in, its effect, its reply and its status.
RequestInv(r) ==
    /\ stage[r] = "forwarded" =>
         arrived[r] <= now /\ request[r].header = "bearer"
    /\ stage[r] = "serving" => Entitled(r)
    /\ Happened(r) => stage[r] = "serving"
    /\ reply[r] = "OK" => Happened(r)
    /\ reply[r] \in Refusals => ~Happened(r)
    /\ \/ status[r] = 0
       \/ reply[r] # "none" /\ status[r] = HttpCode(reply[r])
       \/ stage[r] = "aborted" /\ status[r] \in {400, 401}

GatewayInv ==
    /\ TypeOK
    /\ reply \in [Reqs -> Replies]
    /\ \A r \in Reqs : RequestInv(r)

LEMMA InitInv == Init => GatewayInv
<1> SUFFICES ASSUME Init PROVE GatewayInv
  OBVIOUS
<1>1. TypeOK /\ reply \in [Reqs -> Replies]
  BY GatewayAssumption DEF Init, TypeOK, Replies, Ledger!Init
<1>2. ASSUME NEW r \in Reqs PROVE RequestInv(r)
  <2>1. stage[r] = "new" /\ status[r] = 0 /\ reply[r] = "none" /\ ~Happened(r)
    BY DEF Init, Ledger!Init, Happened, Ledger!Happened
  <2>2. QED BY <2>1 DEF RequestInv, Refusals
<1>3. QED BY <1>1, <1>2 DEF GatewayInv

-----------------------------------------------------------------------------
(***************************************************************************)
(* What the ledger's steps do to effects and replies.                      *)
(***************************************************************************)
Rows == <<transactions, purchases>>

LEMMA SameRows ==
  ASSUME UNCHANGED Rows, NEW r
  PROVE  Happened(r)' <=> Happened(r)
BY DEF Rows, Happened, Ledger!Happened

LEMMA AnswerStep ==
  ASSUME reply \in [Reqs -> Replies], NEW r \in Reqs, NEW code \in Codes, Ledger!Answer(r, code)
  PROVE  /\ reply' \in [Reqs -> Replies]
         /\ reply[r] = "none" /\ reply'[r] = code
         /\ \A q \in Reqs \ {r} : reply'[q] = reply[q]
         /\ code \in Refusals => ~Happened(r)
         /\ code = "OK" => Happened(r)
BY DEF Ledger!Answer, Replies, Happened, Codes, Refusals, Unknowns, Ledger!Refusals

LEMMA ServeStep ==
  ASSUME reply \in [Reqs -> Replies], NEW r \in Reqs, Serve(r)
  PROVE  /\ reply' \in [Reqs -> Replies]
         /\ reply[r] \notin Refusals
         /\ Happened(r)'
         /\ \A q \in Reqs \ {r} : (Happened(q)' <=> Happened(q)) /\ reply'[q] = reply[q]
         /\ reply'[r] \in {reply[r], "OK"} /\ (reply'[r] # reply[r] => reply[r] = "none")
<1>1. /\ reply[r] \notin Refusals
      /\ reply' \in {reply, [reply EXCEPT ![r] = IF @ = "none" THEN "OK" ELSE @]}
  BY DEF Serve, Ledger!Transfer, Ledger!Purchase, Ledger!MayAcknowledge, Refusals, Ledger!Refusals
<1>2. PICK row : row.id = r /\ \/ transactions' = transactions \cup {row} /\ purchases' = purchases
                               \/ purchases' = purchases \cup {row} /\ transactions' = transactions
  <2>1. CASE Ledger!Transfer(r)
    <3> DEFINE t == [id |-> r, from_user_id |-> call[r].user, to_user_id |-> call[r].to,
                     amount |-> call[r].amount]
    <3>1. t.id = r /\ transactions' = transactions \cup {t} /\ purchases' = purchases
      BY <2>1 DEF Ledger!Transfer
    <3>2. QED BY <3>1
  <2>2. CASE Ledger!Purchase(r)
    <3> DEFINE p == [id |-> r, user_id |-> call[r].user, good_id |-> call[r].good]
    <3>1. p.id = r /\ purchases' = purchases \cup {p} /\ transactions' = transactions
      BY <2>2 DEF Ledger!Purchase
    <3>2. QED BY <3>1
  <2>3. QED BY <2>1, <2>2 DEF Serve
<1>3. Happened(r)' /\ \A q \in Reqs \ {r} : Happened(q)' <=> Happened(q)
  BY <1>2 DEF Happened, Ledger!Happened
<1>4. /\ reply' \in [Reqs -> Replies]
      /\ \A q \in Reqs \ {r} : reply'[q] = reply[q]
      /\ reply'[r] \in {reply[r], "OK"} /\ (reply'[r] # reply[r] => reply[r] = "none")
  BY <1>1 DEF Replies, Codes
<1>5. QED BY <1>1, <1>3, <1>4

-----------------------------------------------------------------------------
LEMMA CodesOk == \A code \in Codes : HttpCode(code) \in {200, 400, 401, 500}
BY DEF HttpCode

LEMMA TypeStep ==
  ASSUME GatewayInv, [Next]_vars
  PROVE  TypeOK' /\ reply' \in [Reqs -> Replies]
<1> USE DEF GatewayInv, TypeOK
<1>1. ASSUME NEW r \in Reqs, AuthMiddlewareAborts(r) \/ BindingFails(r) \/ Forward(r)
      PROVE  TypeOK' /\ reply' \in [Reqs -> Replies]
  BY <1>1 DEF AuthMiddlewareAborts, BindingFails, Forward, Abort, ledger
<1>2. ASSUME NEW r \in Reqs, CallEnds(r) \/ AuthInterceptorRejects(r) \/ Answer(r)
      PROVE  TypeOK' /\ reply' \in [Reqs -> Replies]
  <2>1. \E code \in Codes : Ledger!Answer(r, code)
    BY <1>2 DEF CallEnds, AuthInterceptorRejects, Answer, Codes, Refusals, Unknowns
  <2>2. QED BY <1>2, <2>1, AnswerStep DEF CallEnds, AuthInterceptorRejects, Answer
<1>3. ASSUME NEW r \in Reqs, HandleGRPCError(r)
      PROVE  TypeOK' /\ reply' \in [Reqs -> Replies]
  <2>1. reply[r] \in Codes
    BY <1>3 DEF HandleGRPCError, Replies
  <2>2. QED BY <1>3, <2>1, CodesOk DEF HandleGRPCError, ledger
<1>4. ASSUME NEW r \in Reqs, AuthInterceptor(r)
      PROVE  TypeOK' /\ reply' \in [Reqs -> Replies]
  BY <1>4 DEF AuthInterceptor, ledger
<1>5. ASSUME NEW r \in Reqs, Serve(r)
      PROVE  TypeOK' /\ reply' \in [Reqs -> Replies]
  BY <1>5, ServeStep DEF Serve
<1>6. CASE Tick
  BY <1>6, GatewayAssumption DEF Tick, ledger
<1>7. ASSUME NEW u \in Users, AccountOpens(u)
      PROVE  TypeOK' /\ reply' \in [Reqs -> Replies]
  BY <1>7 DEF AccountOpens
<1>8. CASE UNCHANGED vars
  BY <1>8 DEF vars, ledger
<1>9. QED BY <1>1, <1>2, <1>3, <1>4, <1>5, <1>6, <1>7, <1>8 DEF Next

(***************************************************************************)
(* A request nothing happens to keeps what is known of it, while the clock *)
(* runs and other requests move coins.                                     *)
(***************************************************************************)
Untouched(r) ==
    /\ stage'[r] = stage[r] /\ status'[r] = status[r] /\ arrived'[r] = arrived[r]
    /\ request' = request /\ reply'[r] = reply[r] /\ (Happened(r)' <=> Happened(r))

LEMMA StaysKnown ==
  ASSUME NEW r \in Reqs, RequestInv(r), Untouched(r), now \in Nat, now' \in Nat, now <= now',
         TypeOK
  PROVE  RequestInv(r)'
BY DEF RequestInv, Untouched, TypeOK, Entitled, HttpCode, Refusals

-----------------------------------------------------------------------------
\* One request, one step: what r knows is disturbed by its own actions only.
LEMMA InterceptStep ==
  ASSUME GatewayInv, NEW q \in Reqs, NEW r \in Reqs,
         AuthMiddlewareAborts(q) \/ BindingFails(q) \/ Forward(q) \/ AuthInterceptor(q)
  PROVE  RequestInv(r)'
<1> USE DEF GatewayInv
<1>1. UNCHANGED <<request, now, reply>> /\ (Happened(r)' <=> Happened(r))
  BY SameRows DEF AuthMiddlewareAborts, BindingFails, Forward, AuthInterceptor, ledger, Rows
<1>2. RequestInv(r) /\ now \in Nat
  BY GatewayAssumption DEF TypeOK
<1>3. CASE q # r
  <2>1. Untouched(r)
    BY <1>1, <1>3 DEF Untouched, TypeOK, AuthMiddlewareAborts, BindingFails, Forward,
                      AuthInterceptor, Abort
  <2>2. QED BY <1>1, <1>2, <2>1, StaysKnown
<1>4. CASE q = r /\ (AuthMiddlewareAborts(r) \/ BindingFails(r))
  <2>1. /\ stage[r] = "new" /\ stage'[r] = "aborted"
        /\ status'[r] \in {400, 401}
    BY <1>4 DEF AuthMiddlewareAborts, BindingFails, Abort, Tries, TypeOK
  <2>2. QED BY <1>1, <1>2, <2>1 DEF RequestInv
<1>5. CASE q = r /\ Forward(r)
  <2>1. /\ stage[r] = "new" /\ stage'[r] = "forwarded" /\ arrived'[r] = now
        /\ request[r].header = "bearer" /\ status'[r] = status[r]
    BY <1>5 DEF Forward, Tries, TypeOK
  <2>2. QED BY <1>1, <1>2, <2>1 DEF RequestInv, HttpCode
<1>6. CASE q = r /\ AuthInterceptor(r)
  <2>1. /\ stage[r] = "forwarded" /\ stage'[r] = "serving"
        /\ request[r].signed /\ now < request[r].exp
        /\ UNCHANGED <<arrived, status>>
    BY <1>6 DEF AuthInterceptor, ParseToken, TypeOK
  <2>2. arrived[r] < request[r].exp
    <3>1. arrived[r] \in Nat /\ request[r].exp \in Nat
      BY GatewayAssumption DEF TypeOK
    <3>2. QED BY <1>2, <2>1, <3>1 DEF RequestInv
  <2>3. Entitled(r)'
    BY <1>1, <1>2, <2>1, <2>2 DEF RequestInv, Entitled
  <2>4. QED BY <1>1, <1>2, <2>1, <2>3 DEF RequestInv, HttpCode
<1>7. QED BY <1>3, <1>4, <1>5, <1>6

LEMMA ReplyStep ==
  ASSUME GatewayInv, NEW q \in Reqs, NEW r \in Reqs,
         CallEnds(q) \/ AuthInterceptorRejects(q) \/ Answer(q)
  PROVE  RequestInv(r)'
<1> USE DEF GatewayInv
<1>1. UNCHANGED <<request, stage, status, arrived, now>> /\ (Happened(r)' <=> Happened(r))
  BY SameRows DEF CallEnds, AuthInterceptorRejects, Answer, Rows
<1>2. PICK code \in Codes : Ledger!Answer(q, code)
  BY DEF CallEnds, AuthInterceptorRejects, Answer, Codes, Refusals, Unknowns
<1>3. /\ reply[q] = "none" /\ reply'[q] = code
      /\ \A o \in Reqs \ {q} : reply'[o] = reply[o]
      /\ code \in Refusals => ~Happened(q)
      /\ code = "OK" => Happened(q)
  BY <1>2, AnswerStep
<1>4. RequestInv(r) /\ stage[q] \in {"forwarded", "serving"} /\ now \in Nat
  BY GatewayAssumption DEF TypeOK, CallEnds, AuthInterceptorRejects, Answer
<1>5. CASE q # r
  BY <1>1, <1>3, <1>4, <1>5, StaysKnown DEF Untouched
<1>6. CASE q = r
  <2>1. status[r] = 0
    BY <1>3, <1>4, <1>6 DEF RequestInv
  <2>2. QED BY <1>1, <1>3, <1>4, <1>6, <2>1 DEF RequestInv, Entitled
<1>7. QED BY <1>5, <1>6

LEMMA PaymentStep ==
  ASSUME GatewayInv, NEW q \in Reqs, NEW r \in Reqs, Serve(q)
  PROVE  RequestInv(r)'
<1> USE DEF GatewayInv
<1>1. UNCHANGED <<request, stage, status, arrived, now>> /\ stage[q] = "serving"
  BY DEF Serve
<1>2. /\ reply[q] \notin Refusals /\ Happened(q)'
      /\ \A o \in Reqs \ {q} : (Happened(o)' <=> Happened(o)) /\ reply'[o] = reply[o]
      /\ reply'[q] \in {reply[q], "OK"} /\ (reply'[q] # reply[q] => reply[q] = "none")
  BY ServeStep
<1>3. RequestInv(r) /\ now \in Nat
  BY GatewayAssumption DEF TypeOK
<1>4. CASE q # r
  BY <1>1, <1>2, <1>3, <1>4, StaysKnown DEF Untouched
<1>5. CASE q = r
  <2>1. status[r] = 0 \/ (reply[r] # "none" /\ status[r] = HttpCode(reply[r]))
    BY <1>1, <1>3, <1>5 DEF RequestInv
  <2>2. reply'[r] \notin Refusals
    BY <1>2, <1>5 DEF Refusals
  <2>3. status'[r] = 0 \/ (reply'[r] # "none" /\ status'[r] = HttpCode(reply'[r]))
    BY <1>1, <1>2, <1>5, <2>1
  <2>4. Entitled(r)'
    BY <1>1, <1>3, <1>5 DEF RequestInv, Entitled
  <2>5. QED BY <1>1, <1>2, <1>5, <2>2, <2>3, <2>4 DEF RequestInv, HttpCode
<1>6. QED BY <1>4, <1>5

LEMMA StatusStep ==
  ASSUME GatewayInv, NEW q \in Reqs, NEW r \in Reqs, HandleGRPCError(q)
  PROVE  RequestInv(r)'
<1> USE DEF GatewayInv
<1>1. UNCHANGED <<request, stage, arrived, now, reply>> /\ (Happened(r)' <=> Happened(r))
  BY SameRows DEF HandleGRPCError, ledger, Rows
<1>2. RequestInv(r) /\ now \in Nat
  BY GatewayAssumption DEF TypeOK
<1>3. CASE q # r
  <2>1. status'[r] = status[r]
    BY <1>3 DEF HandleGRPCError, TypeOK
  <2>2. QED BY <1>1, <1>2, <2>1, StaysKnown DEF Untouched
<1>4. CASE q = r
  <2>1. reply[r] # "none" /\ status'[r] = HttpCode(reply[r])
    BY <1>4 DEF HandleGRPCError, TypeOK
  <2>2. status'[r] = HttpCode(reply'[r])
    BY <1>1, <2>1
  <2>3. QED BY <1>1, <1>2, <2>1, <2>2 DEF RequestInv, Entitled
<1>5. QED BY <1>3, <1>4

LEMMA InvStep == GatewayInv /\ [Next]_vars => GatewayInv'
<1> SUFFICES ASSUME GatewayInv, [Next]_vars PROVE GatewayInv'
  OBVIOUS
<1>1. TypeOK' /\ reply' \in [Reqs -> Replies]
  BY TypeStep
<1>2. ASSUME NEW r \in Reqs PROVE RequestInv(r)'
  <2>1. RequestInv(r) /\ TypeOK /\ now \in Nat
    BY GatewayAssumption DEF GatewayInv, TypeOK
  <2>2. CASE Tick
    <3>1. now' = now + 1 /\ UNCHANGED <<request, stage, status, arrived, reply>>
      BY <2>2 DEF Tick, ledger
    <3>2. Happened(r)' <=> Happened(r)
      BY <2>2, SameRows DEF Tick, ledger, Rows
    <3>3. Untouched(r) /\ now' \in Nat /\ now <= now'
      BY <2>1, <3>1, <3>2 DEF Untouched
    <3>4. QED BY <2>1, <3>3, StaysKnown
  <2>3. ASSUME NEW u \in Users, AccountOpens(u) PROVE RequestInv(r)'
    <3>1. UNCHANGED <<now, request, stage, status, arrived, reply>>
      BY <2>3 DEF AccountOpens
    <3>2. Happened(r)' <=> Happened(r)
      BY <2>3, SameRows DEF AccountOpens, Ledger!OpenAccount, Rows
    <3>3. QED BY <2>1, <3>1, <3>2, StaysKnown DEF Untouched
  <2>4. CASE UNCHANGED vars
    <3>1. UNCHANGED <<now, request, stage, status, arrived, reply>>
      BY <2>4 DEF vars, ledger
    <3>2. Happened(r)' <=> Happened(r)
      BY <2>4, SameRows DEF vars, ledger, Rows
    <3>3. QED BY <2>1, <3>1, <3>2, StaysKnown DEF Untouched
  <2>5. QED
    BY <2>2, <2>3, <2>4, InterceptStep, ReplyStep, PaymentStep, StatusStep DEF Next
<1>3. QED BY <1>1, <1>2 DEF GatewayInv

(***************************************************************************)
(* The inductive invariant of the gateway and the store's door: the stage  *)
(* of a request, its effect, the reply to its call and the status of its   *)
(* answer agree, and who gets past the interceptor is entitled to it.      *)
(***************************************************************************)
THEOREM Invariance == Spec => []GatewayInv
<1> USE DEF vars, ledger
<1>1. QED BY InitInv, InvStep, PTL DEF Spec

(***************************************************************************)
(* Type correctness: handleGRPCError and the middleware write no status    *)
(* but 200, 400, 401 and 500.                                              *)
(***************************************************************************)
THEOREM TypeCorrect == Spec => []TypeOK
<1>1. GatewayInv => TypeOK
  BY DEF GatewayInv
<1>2. QED BY <1>1, Invariance, PTL

(***************************************************************************)
(* A 200 is true, and after a 400 or a 401 nothing happened or will.       *)
(***************************************************************************)
THEOREM StatusesCorrect == Spec => []StatusesAreHonest
<1>1. ASSUME GatewayInv PROVE StatusesAreHonest
  <2> SUFFICES ASSUME NEW r \in Reqs
      PROVE  /\ status[r] = 200 => Happened(r)
             /\ status[r] \in {400, 401} =>
                  ~Happened(r) /\ (reply[r] \in Refusals \/ stage[r] = "aborted")
    BY DEF StatusesAreHonest
  <2>1. RequestInv(r) /\ reply[r] \in Replies
    BY <1>1 DEF GatewayInv
  <2>2. reply[r] # "none" => /\ HttpCode(reply[r]) = 200 => reply[r] = "OK"
                             /\ HttpCode(reply[r]) \in {400, 401} => reply[r] \in Refusals
    BY <2>1 DEF HttpCode, Refusals
  <2>3. QED BY <2>1, <2>2 DEF RequestInv
<1>2. QED BY <1>1, Invariance, PTL

(***************************************************************************)
(* Who has no valid token moves no coins.                                  *)
(***************************************************************************)
THEOREM StrangersCorrect == Spec => []StrangersMoveNothing
<1>1. GatewayInv => StrangersMoveNothing
  BY DEF GatewayInv, RequestInv, StrangersMoveNothing
<1>2. QED BY <1>1, Invariance, PTL

-----------------------------------------------------------------------------
(***************************************************************************)
(* The retries.  A client waits for each attempt before it makes the next, *)
(* so at most one attempt that it has made can still turn out well; what   *)
(* the others did must show in a 500.                                      *)
(***************************************************************************)
Pending(r) == stage[r] # "new" /\ status[r] \in {0, 200}

OnePending == \A a, b \in Attempts : Pending(a) /\ Pending(b) => a = b

LEMMA PendingStep == GatewayInv /\ OnePending /\ [Next]_vars => OnePending'
<1> SUFFICES ASSUME GatewayInv, OnePending, [Next]_vars,
                    NEW a \in Attempts, NEW b \in Attempts, Pending(a)', Pending(b)', a # b
             PROVE  FALSE
  BY DEF OnePending
<1> USE DEF GatewayInv, TypeOK
<1>1. a \in Reqs /\ b \in Reqs
  BY GatewayAssumption
<1>2. CASE UNCHANGED <<stage, status>>
  BY <1>2 DEF OnePending, Pending
<1>3. ASSUME NEW r \in Reqs, AuthMiddlewareAborts(r) \/ BindingFails(r) \/ Forward(r)
      PROVE  FALSE
  <2>1. Tries(r) /\ \A q \in Reqs \ {r} : stage'[q] = stage[q] /\ status'[q] = status[q]
    BY <1>3 DEF AuthMiddlewareAborts, BindingFails, Forward, Abort
  <2>2. QED BY <1>1, <2>1 DEF Tries, Pending, OnePending
<1>4. ASSUME NEW r \in Reqs, AuthInterceptor(r) \/ HandleGRPCError(r)
      PROVE  FALSE
  <2>1. \A q \in Reqs : Pending(q)' /\ stage[q] # "new" => Pending(q)
    BY <1>4 DEF AuthInterceptor, HandleGRPCError, Pending
  <2>2. \A q \in Reqs : Pending(q)' => stage[q] # "new"
    BY <1>4 DEF AuthInterceptor, HandleGRPCError, Pending
  <2>3. QED BY <1>1, <2>1, <2>2 DEF OnePending
<1>5. QED
  BY <1>2, <1>3, <1>4 DEF Next, vars, Tick, AccountOpens, CallEnds, AuthInterceptorRejects,
                          Serve, Answer

LEMMA AtMostOneUnseen ==
  ASSUME GatewayInv, OnePending PROVE RetriesAreBounded
<1> DEFINE Paid == {r \in Attempts : Happened(r)}
           InDoubt == {r \in Attempts : status[r] = 500}
<1>1. Attempts \subseteq Reqs /\ IsFiniteSet(Attempts)
  BY GatewayAssumption
<1>2. IsFiniteSet(InDoubt) /\ Cardinality(InDoubt) \in Nat
  BY <1>1, FS_Subset, FS_CardinalityType
<1>3. ASSUME NEW r \in Paid PROVE r \in InDoubt \/ Pending(r)
  <2>1. RequestInv(r) /\ Happened(r) /\ reply[r] \in Replies
    BY <1>1 DEF GatewayInv
  <2>2. status[r] = 0 \/ (reply[r] # "none" /\ status[r] = HttpCode(reply[r]))
    BY <2>1 DEF RequestInv
  <2>3. reply[r] \notin Refusals /\ stage[r] = "serving"
    BY <2>1 DEF RequestInv
  <2>4. status[r] \in {0, 200, 500}
    BY <2>2, <2>3 DEF HttpCode, Refusals
  <2>5. QED BY <2>3, <2>4 DEF Pending
<1>4. CASE Paid \subseteq InDoubt
  <2>1. Cardinality(Paid) <= Cardinality(InDoubt) /\ Cardinality(Paid) \in Nat
    BY <1>2, <1>4, FS_Subset, FS_CardinalityType
  <2>2. QED BY <1>2, <2>1 DEF RetriesAreBounded
<1>5. ASSUME NEW x \in Paid, x \notin InDoubt PROVE RetriesAreBounded
  <2>1. Paid \subseteq InDoubt \cup {x}
    BY <1>3, <1>5 DEF OnePending
  <2>2. /\ IsFiniteSet(InDoubt \cup {x})
        /\ Cardinality(InDoubt \cup {x}) = Cardinality(InDoubt) + 1
    BY <1>2, <1>5, FS_AddElement
  <2>3. Cardinality(Paid) <= Cardinality(InDoubt) + 1
    BY <2>1, <2>2, FS_Subset
  <2>4. Cardinality(Paid) \in Nat
    BY <2>1, <2>2, FS_Subset, FS_CardinalityType
  <2>5. QED BY <1>2, <2>3, <2>4 DEF RetriesAreBounded
<1>6. QED BY <1>4, <1>5

(***************************************************************************)
(* Payments are at most one more than answers of 500, however many         *)
(* attempts a client makes.                                                *)
(***************************************************************************)
THEOREM RetriesCorrect == Spec => []RetriesAreBounded
<1>1. Init => OnePending
  BY GatewayAssumption DEF Init, OnePending, Pending
<1>2. GatewayInv /\ OnePending /\ [Next]_vars => OnePending'
  BY PendingStep
<1>3. GatewayInv /\ OnePending => RetriesAreBounded
  BY AtMostOneUnseen
<1>4. QED BY <1>1, <1>2, <1>3, Invariance, PTL DEF Spec
=============================================================================

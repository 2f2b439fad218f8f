----------------------------- MODULE MerchSystem -----------------------------
(***************************************************************************)
(* The services together.  A client logs in at auth with a name and a      *)
(* password, sends the token it gets along with a request, and names       *)
(* recipients by their names; the store has only the id in the token and   *)
(* the ids that auth gives it for names, and keeps its rows by id in a     *)
(* database of its own.  Logins are AuthRegistry's, money operations       *)
(* StoreLedger's, over ids.                                                *)
(***************************************************************************)
EXTENDS Integers

CONSTANTS
    Names, Storable, Passwords, Logins, MaxId,      \* see AuthRegistry
    Goods, Price, StartBalance, MaxInt, Nobody,     \* see StoreData
    NoRow,          \* no row, no token, nothing shown
    Requests,       \* money operations; each runs once
    Asks,           \* what they may ask for, in the words of the client
    Looks,          \* calls of GetUserInfo; each runs once
    Bearers         \* which of these may carry the tokens of which logins

ASSUME SystemAssumption ==
    /\ Storable \subseteq Names
    /\ MaxId \in Nat
    /\ NoRow \notin [id : 1 .. MaxId, hash : [of : Passwords, salt : Logins]]
    /\ NoRow \notin [uid : 1 .. MaxId, usr : Names]
    /\ Price \in [Goods -> Nat]
    /\ MaxInt \in Nat
    /\ StartBalance \in 0 .. MaxInt
    /\ NoRow \notin Int
    /\ Asks \subseteq [op : {"SendCoins"}, to : Names, amount : Nat]
                        \cup [op : {"BuyItem"}, good : STRING]
    /\ Requests \cap Looks = {}
    /\ Bearers \subseteq [Requests \cup Looks -> Logins]

VARIABLES
    users, nextId, login, pc, info, token, authReply,   \* see AuthRegistry
    balances, transactions, purchases, reply,           \* see StoreLedger, over Ids
    status,         \* status[l]: the HTTP status that login l was answered with, or 0
    asked,          \* asked[r]: what r asks for
    bearer,         \* bearer[x]: the login whose token x carries
    stage,          \* stage[x]: what the store's handler of x does next
    userID,         \* userID[x]: what AuthInterceptor put in the context
    toUserID,       \* toUserID[r]: what FetchUserID returned
    history,        \* history[i]: the transfers that look i has read
    shown           \* shown[i]: the transfers its client was shown

auth == <<users, nextId, login, pc, info, token, authReply>>
store == <<balances, transactions, purchases, reply>>
calls == <<asked, bearer, stage, userID, toUserID, history, shown>>
vars == <<auth, store, status, calls>>

Auth == INSTANCE AuthRegistry WITH reply <- authReply

-----------------------------------------------------------------------------
Ids == 0 .. MaxId

\* The gRPC call as the store understands it; 0 until an id is known.
IdCall ==
    [r \in Requests |->
        IF asked[r].op = "SendCoins"
        THEN [op |-> "SendCoins", user |-> userID[r], to |-> toUserID[r],
              amount |-> asked[r].amount]
        ELSE [op |-> "BuyItem", user |-> userID[r], good |-> asked[r].good]]

Ledger == INSTANCE StoreLedger WITH
            Users <- Ids, Reqs <- Requests, Calls <- {}, call <- IdCall

Init ==
    /\ Auth!Init
    /\ status = [l \in Logins |-> 0]
    /\ balances = [u \in Ids |-> NoRow]
    /\ transactions = {}
    /\ purchases = {}
    /\ reply = [r \in Requests |-> "none"]
    /\ asked \in [Requests -> Asks]
    /\ bearer \in Bearers
    /\ stage = [x \in Requests \cup Looks |-> "new"]
    /\ userID = [x \in Requests \cup Looks |-> 0]
    /\ toUserID = [r \in Requests |-> 0]
    /\ history = [i \in Looks |-> {}]
    /\ shown = [i \in Looks |-> NoRow]

-----------------------------------------------------------------------------
(***************************************************************************)
(* Logins, at the gateway and in auth.                                     *)
(***************************************************************************)
LoginBindingFails(l) ==
    /\ status[l] = 0 /\ pc[l] = "lookup" /\ authReply[l] = "none"
    /\ status' = [status EXCEPT ![l] = 400]
    /\ UNCHANGED <<auth, store, calls>>

LoginRuns(l) ==
    /\ status[l] # 400
    /\ \/ Auth!Authenticate(l) \/ Auth!AuthenticateFails(l)
       \/ Auth!ServerInserts(l) \/ Auth!CallerGivesUp(l)
    /\ UNCHANGED <<store, status, calls>>

\* Fault: whatever goes wrong with a login is put down to the password.
LoginCode_BlamesClient(code) == IF code = "OK" THEN 200 ELSE 401

LoginCode(code) ==
    CASE code = "OK" -> 200
      [] code = "Unauthenticated" -> 401
      [] OTHER -> 500

LoginEnds(l) ==
    /\ status[l] = 0 /\ authReply[l] # "none"
    /\ status' = [status EXCEPT ![l] = LoginCode(authReply[l])]
    /\ UNCHANGED <<auth, store, calls>>

-----------------------------------------------------------------------------
(***************************************************************************)
(* Requests with a token.                                                  *)
(***************************************************************************)
At(x, now, next) == stage[x] = now /\ stage' = [stage EXCEPT ![x] = next]

\* A client has the token of a login that was answered 200.
Forward(x) ==
    /\ status[bearer[x]] = 200
    /\ At(x, "new", "parse")
    /\ UNCHANGED <<auth, store, status, asked, bearer, userID, toUserID, history, shown>>

\* Fault: the token travels in a field that all requests share.
AuthInterceptor_Shared(x) ==
    /\ At(x, "parse", "ensure")
    /\ \E y \in Requests \cup Looks :
         /\ stage[y] # "new"
         /\ userID' = [userID EXCEPT ![x] = token[bearer[y]].uid]
    /\ UNCHANGED <<auth, store, status, asked, bearer, toUserID, history, shown>>

AuthInterceptor(x) ==
    /\ At(x, "parse", "ensure")
    /\ userID' = [userID EXCEPT ![x] = token[bearer[x]].uid]
    /\ UNCHANGED <<auth, store, status, asked, bearer, toUserID, history, shown>>

\* The caller may have its answer already, from the gateway's deadline.
Tell(r, code) == IF reply[r] = "none" THEN Ledger!Answer(r, code) ELSE UNCHANGED reply

\* INSERT ... ON CONFLICT DO NOTHING.
EnsureBalanceCreated(id) ==
    balances' = [balances EXCEPT ![id] = IF @ = NoRow THEN StartBalance ELSE @]

BalanceInterceptor(x) ==
    /\ At(x, "ensure", "handle")
    /\ EnsureBalanceCreated(userID[x])
    /\ UNCHANGED <<auth, transactions, purchases, reply, status,
                   asked, bearer, userID, toUserID, history, shown>>

\* An INSERT that fails; one whose result is lost has created the balance.
EnsureLost(x) ==
    \/ UNCHANGED balances
    \/ stage[x] = "ensure" /\ EnsureBalanceCreated(userID[x])
    \/ stage[x] = "ensureTo" /\ EnsureBalanceCreated(toUserID[x])

FetchUserID(r) ==
    LET id == Auth!GetUserID(asked[r].to) IN
    /\ asked[r].op = "SendCoins"
    /\ id \notin {NoRow, userID[r]}
    /\ At(r, "handle", "ensureTo")
    /\ toUserID' = [toUserID EXCEPT ![r] = id]
    /\ UNCHANGED <<auth, store, status, asked, bearer, userID, history, shown>>

GetGoodInfo(r) ==
    /\ asked[r].op = "BuyItem" /\ asked[r].good \in Goods
    /\ At(r, "handle", "pay")
    /\ UNCHANGED <<auth, store, status, asked, bearer, userID, toUserID, history, shown>>

EnsureRecipient(r) ==
    /\ At(r, "ensureTo", "pay")
    /\ EnsureBalanceCreated(toUserID[r])
    /\ UNCHANGED <<auth, transactions, purchases, reply, status,
                   asked, bearer, userID, toUserID, history, shown>>

\* COMMIT, with the answer still to come or nobody left to hear it.
Pay(r) ==
    /\ stage[r] = "pay"
    /\ UNCHANGED <<auth, status, calls>>
    /\ Ledger!Transfer(r) \/ Ledger!Purchase(r)

\* What the handler may say at each stage.
Codes(r) ==
    CASE stage[r] = "parse" -> {"Unauthenticated"}
      [] stage[r] = "handle" /\ asked[r].op = "SendCoins" ->
           IF Auth!GetUserID(asked[r].to) = userID[r] THEN {"InvalidArgument", "NotFound"}
                                                      ELSE {"NotFound"}
      [] stage[r] = "handle" /\ asked[r].op = "BuyItem" ->
           IF asked[r].good \in Goods THEN {"Internal"} ELSE {"InvalidArgument", "Internal"}
      [] stage[r] \in {"ensure", "ensureTo"} -> {"Internal"}
      [] stage[r] = "pay" -> {"OK", "FailedPrecondition", "Internal"}
      [] OTHER -> {}

\* In stage "pay" a COMMIT may still come after the answer.
Answer(r) ==
    /\ \E code \in Codes(r) : Tell(r, code)
    /\ EnsureLost(r)
    /\ stage' = [stage EXCEPT ![r] = IF @ = "pay" THEN @ ELSE "done"]
    /\ UNCHANGED <<auth, transactions, purchases, status,
                   asked, bearer, userID, toUserID, history, shown>>

CallEnds(r) ==
    /\ stage[r] \notin {"new", "done"}
    /\ Ledger!Answer(r, "DeadlineExceeded")
    /\ UNCHANGED <<auth, balances, transactions, purchases, status, calls>>

-----------------------------------------------------------------------------
(***************************************************************************)
(* Looks.                                                                  *)
(***************************************************************************)
FetchUserCoinTransfers(i) ==
    /\ At(i, "handle", "names")
    /\ history' = [history EXCEPT ![i] =
         {row \in transactions : userID[i] \in {row.from_user_id, row.to_user_id}}]
    /\ UNCHANGED <<auth, store, status, asked, bearer, userID, toUserID, shown>>

\* What the map of the answer gives for a key it may lack.
Name(names, id) == IF id \in DOMAIN names THEN names[id] ELSE ""

\* domain.SentTransfer and domain.ReceivedTransfer; the id tells apart what is alike.
Sent(row, names) == [id |-> row.id, to |-> Name(names, row.to_user_id), amount |-> row.amount]

\* Fault: both directions are converted alike.
Received_AsSent(row, names) ==
    [id |-> row.id, from |-> Name(names, row.to_user_id), amount |-> row.amount]

Received(row, names) ==
    [id |-> row.id, from |-> Name(names, row.from_user_id), amount |-> row.amount]

GetUsernames(i) ==
    LET sent == {row \in history[i] : row.from_user_id = userID[i]}
        received == {row \in history[i] : row.to_user_id = userID[i]}
        names == Auth!GetUsernames({row.to_user_id : row \in sent}
                                     \cup {row.from_user_id : row \in received})
    IN
    /\ At(i, "names", "done")
    /\ shown' = [shown EXCEPT ![i] = [sent |-> {Sent(row, names) : row \in sent},
                                      received |-> {Received(row, names) : row \in received}]]
    /\ UNCHANGED <<auth, store, status, asked, bearer, userID, toUserID, history>>

\* A token that has expired, a statement or a call that fails, a deadline.
LookFails(i) ==
    /\ stage[i] \notin {"new", "done"}
    /\ EnsureLost(i)
    /\ stage' = [stage EXCEPT ![i] = "done"]
    /\ UNCHANGED <<auth, transactions, purchases, reply, status,
                   asked, bearer, userID, toUserID, history, shown>>

-----------------------------------------------------------------------------
Next ==
    \/ \E l \in Logins : LoginBindingFails(l) \/ LoginRuns(l) \/ LoginEnds(l)
    \/ \E x \in Requests \cup Looks :
         Forward(x) \/ AuthInterceptor(x) \/ BalanceInterceptor(x)
    \/ \E r \in Requests :
         \/ FetchUserID(r) \/ GetGoodInfo(r) \/ EnsureRecipient(r) \/ Pay(r)
         \/ Answer(r) \/ CallEnds(r)
    \/ \E i \in Looks : FetchUserCoinTransfers(i) \/ GetUsernames(i) \/ LookFails(i)

Spec == Init /\ [][Next]_vars
=============================================================================

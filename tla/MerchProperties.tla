--------------------------- MODULE MerchProperties ---------------------------
(***************************************************************************)
(* What a client may expect of the services together (MerchSystem).        *)
(***************************************************************************)
EXTENDS MerchSystem

Stages == {"new", "parse", "ensure", "handle", "ensureTo", "pay", "names", "done"}

(***************************************************************************)
(* Type correctness: once past its interceptors a handler has the id of a  *)
(* row of users, and so does a transfer for its recipient; never the 0 of  *)
(* a missing claim or of an empty response (store_service.go:150,          *)
(* auth_adapter.go:54).                                                    *)
(***************************************************************************)
TypeOK ==
    /\ status \in [Logins -> {0, 200, 400, 401, 500}]
    /\ \A id \in Ids : balances[id] = NoRow \/ balances[id] \in 0 .. MaxInt
    /\ stage \in [Requests \cup Looks -> Stages]
    /\ \A x \in Requests \cup Looks :
         stage[x] \in {"ensure", "handle", "pay", "names"} => userID[x] \in 1 .. MaxId
    /\ \A r \in Requests :
         stage[r] = "pay" /\ asked[r].op = "SendCoins" => toUserID[r] \in 1 .. MaxId
    /\ \A i \in Looks : history[i] \subseteq transactions

\* The account that has the id, if any has.
Owners(id) == {n \in Names : Auth!Registered(n) /\ users[n].id = id}

(***************************************************************************)
(* The two databases agree without a foreign key between them: whatever    *)
(* the store keeps by id, an account, a transfer or a purchase, belongs to *)
(* one registered user (init_store.sql has no table users).                *)
(***************************************************************************)
NoOrphans ==
    LET ids == {id \in Ids : balances[id] # NoRow}
                 \cup {row.from_user_id : row \in transactions}
                 \cup {row.to_user_id : row \in transactions}
                 \cup {row.user_id : row \in purchases}
    IN \A id \in ids : \E n \in Names : Owners(id) = {n}

(***************************************************************************)
(* Coins leave an account only for a request whose client had logged in    *)
(* under the name of the account and with the password it is registered    *)
(* with: across auth_case.go:52-63, the token, and auth_interceptor.go:51. *)
(***************************************************************************)
OnlyOwnersPay ==
    \A row \in transactions \cup purchases :
        LET l == bearer[row.id]
            n == login[l].name
            payer == IF row \in transactions THEN row.from_user_id ELSE row.user_id
        IN /\ status[l] = 200
           /\ Owners(payer) = {n}
           /\ users[n].hash.of = login[l].password

(***************************************************************************)
(* 200 comes with a token for the account, 401 means that the password is  *)
(* not the one of the account and 400 that nothing was registered, though  *)
(* the gateway may give up while auth goes on (auth_handler.go:31-57).     *)
(***************************************************************************)
LoginStatusesAreHonest ==
    \A l \in Logins :
        LET n == login[l].name IN
        /\ status[l] = 200 => /\ token[l] # NoRow
                              /\ Owners(token[l].uid) = {n}
        /\ status[l] = 401 => /\ Auth!Registered(n)
                              /\ users[n].hash.of # login[l].password
        /\ status[l] = 400 => \A m \in Names : Auth!Registered(m) => users[m].hash.salt # l

-----------------------------------------------------------------------------
(***************************************************************************)
(* The store as its clients know it: accounts, calls and rows have names.  *)
(***************************************************************************)
Caller(x) == login[bearer[x]].name

NameOf(id) == IF Owners(id) = {} THEN NoRow ELSE CHOOSE n \in Names : n \in Owners(id)

NamedAsk(name, ask) ==
    IF ask.op = "SendCoins"
    THEN [op |-> "SendCoins", user |-> name, to |-> ask.to, amount |-> ask.amount]
    ELSE [op |-> "BuyItem", user |-> name, good |-> ask.good]

NamedTransactions ==
    {[id |-> row.id, from_user_id |-> NameOf(row.from_user_id),
      to_user_id |-> NameOf(row.to_user_id), amount |-> row.amount] : row \in transactions}

NamedPurchases ==
    {[id |-> row.id, user_id |-> NameOf(row.user_id), good_id |-> row.good_id] :
       row \in purchases}

Named == INSTANCE StoreLedger WITH
           Users <- Names,
           Reqs <- Requests,
           Calls <- {NamedAsk(n, ask) : n \in Names, ask \in Asks},
           call <- [r \in Requests |-> NamedAsk(Caller(r), asked[r])],
           balances <- [n \in Names |->
                          IF Auth!Registered(n) THEN balances[users[n].id] ELSE NoRow],
           transactions <- NamedTransactions,
           purchases <- NamedPurchases

(***************************************************************************)
(* Logins, tokens, look-ups of ids and rows by id implement a ledger by    *)
(* name: what a request does is to move the coins of whoever its client    *)
(* logged in as to whoever bears the name it asked for, atomically, at     *)
(* most once and truthfully answered.                                      *)
(***************************************************************************)
ImplementsNamedLedger == Named!Spec

(***************************************************************************)
(* A look shows the client's own transfers, each under the name that the   *)
(* other client logged in with or was addressed by (auth_service.go:66-85, *)
(* auth_adapter.go:28-52, user_info_case.go:82-108).                       *)
(***************************************************************************)
HistoryHasNames ==
    \A i \in Looks :
        shown[i] # NoRow =>
            /\ \A s \in shown[i].sent :
                 [id |-> s.id, from_user_id |-> Caller(i), to_user_id |-> s.to,
                  amount |-> s.amount] \in NamedTransactions
            /\ \A s \in shown[i].received :
                 [id |-> s.id, from_user_id |-> s.from, to_user_id |-> Caller(i),
                  amount |-> s.amount] \in NamedTransactions
            /\ \A s \in shown[i].sent : s.to = asked[s.id].to
=============================================================================

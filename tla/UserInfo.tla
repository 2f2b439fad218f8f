------------------------------ MODULE UserInfo ------------------------------
(***************************************************************************)
(* GetUserInfo: three goroutines of an errgroup read the balance, the      *)
(* purchases and the transfers of the caller in four SELECTs without a     *)
(* transaction, on connections of a pool they share with each other and    *)
(* with the money operations, which go on meanwhile as StoreLedger         *)
(* describes them.  The SELECT of the incoming transfers asks for a        *)
(* second connection while the first holds the outgoing ones.              *)
(***************************************************************************)
EXTENDS StoreData, FiniteSets

CONSTANTS
    Infos,          \* calls of GetUserInfo; each runs once
    Caller,         \* Caller[i]: the user that the token of i names
    Username,       \* Username[u]: the name the auth service keeps for u
    PoolSize        \* connections of the pgxpool

ASSUME InfoAssumption ==
    /\ Caller \in [Infos -> Users]
    /\ DOMAIN Username = Users
    /\ "" \notin {Username[u] : u \in Users}
    /\ PoolSize \in Nat \ {0}

VARIABLES
    call, balances, transactions, purchases, reply,     \* see StoreLedger
    txs,            \* money operations whose transaction has a connection
    rows,           \* result sets <<i, query>> not closed yet; each has a connection
    pc,             \* pc[i]: where the handler of i is
    task,           \* task[i][t]: what goroutine t of i does next
    got,            \* got[i]: what the goroutines have read
    since,          \* since[i]: the history when i came in
    answer          \* answer[i]: the code the caller was told, or "none"

ledger == <<call, balances, transactions, purchases, reply>>
vars == <<ledger, txs, rows, pc, task, got, since, answer>>

Ledger == INSTANCE StoreLedger

Tasks == {"main", "purchases", "transfers"}

FirstStep ==
    [t \in Tasks |-> CASE t = "main" -> "username"
                       [] t = "purchases" -> "query"
                       [] t = "transfers" -> "outgoing"]

Init ==
    /\ Ledger!Init
    /\ txs = {}
    /\ rows = {}
    /\ pc = [i \in Infos |-> "ensure"]
    /\ task = [i \in Infos |-> FirstStep]
    /\ got = [i \in Infos |-> [balance |-> NoRow, inventory |-> [g \in Goods |-> 0],
                               sent |-> {}, received |-> {}]]
    /\ since = [i \in Infos |-> [transactions |-> {}, purchases |-> {}]]
    /\ answer = [i \in Infos |-> "none"]

-----------------------------------------------------------------------------
(***************************************************************************)
(* The pool, and the money operations that use it and change the tables.   *)
(***************************************************************************)
ConnectionFree == Cardinality(rows) + Cardinality(txs) < PoolSize

handlers == <<rows, pc, task, got, since, answer>>

AccountOpens(u) ==
    /\ ConnectionFree
    /\ Ledger!OpenAccount(u)
    /\ UNCHANGED <<reply, txs, handlers>>

MoneyBegins(r) ==
    /\ ConnectionFree
    /\ r \notin txs /\ reply[r] = "none"
    /\ txs' = txs \cup {r}
    /\ UNCHANGED <<ledger, handlers>>

\* A commit that was given up may come after the connection.
MoneyMoves(r) ==
    /\ r \in txs \/ reply[r] = "Internal"
    /\ Ledger!Transfer(r) \/ Ledger!Purchase(r)
    /\ UNCHANGED <<txs, handlers>>

MoneyEnds(r) ==
    /\ r \in txs
    /\ txs' = txs \ {r}
    /\ \/ reply[r] # "none" /\ UNCHANGED reply
       \/ Ledger!Answer(r, "OK") \/ Ledger!Answer(r, "Internal")
    /\ UNCHANGED <<call, balances, transactions, purchases, handlers>>

-----------------------------------------------------------------------------
(***************************************************************************)
(* What the SELECTs see at the moment they run.                            *)
(***************************************************************************)
Sent(u) == {row \in transactions : row.from_user_id = u}
Received(u) == {row \in transactions : row.to_user_id = u}

\* COUNT( * ) ... GROUP BY g.name
Inventory(bought, u) ==
    [g \in Goods |-> Cardinality({row \in bought : row.user_id = u /\ row.good_id = g})]

\* domain.DirectTransfer; the id tells apart what is alike in the history.
DirectTransfer(row, target) == [id |-> row.id, target |-> target, amount |-> row.amount]

-----------------------------------------------------------------------------
(***************************************************************************)
(* The handler.                                                            *)
(***************************************************************************)
Return(i, code) ==
    /\ pc' = [pc EXCEPT ![i] = "done"]
    /\ answer' = [answer EXCEPT ![i] = IF @ = "none" THEN code ELSE @]

\* The interceptor has made sure that the caller has an account.
BalanceInterceptor(i) ==
    /\ pc[i] = "ensure" /\ ConnectionFree
    /\ balances' = IF balances[Caller[i]] = NoRow
                   THEN [balances EXCEPT ![Caller[i]] = StartBalance] ELSE balances
    /\ pc' = [pc EXCEPT ![i] = "gather"]
    /\ since' = [since EXCEPT ![i] = [transactions |-> transactions, purchases |-> purchases]]
    /\ UNCHANGED <<call, transactions, purchases, reply, txs, rows, task, got, answer>>

BalanceInterceptorFails(i) ==
    /\ pc[i] = "ensure"
    /\ Return(i, "Internal")
    /\ UNCHANGED <<ledger, txs, rows, task, got, since>>

\* Fault: the gateway passes the request's context on without a time limit.
DeadlineExpires_Never(i) == FALSE /\ UNCHANGED vars

\* The five seconds of the gateway are over: the caller has its answer, groupCtx is done.
DeadlineExpires(i) ==
    /\ answer[i] = "none"
    /\ answer' = [answer EXCEPT ![i] = "DeadlineExceeded"]
    /\ UNCHANGED <<ledger, txs, rows, pc, task, got, since>>

Expired(i) == answer[i] = "DeadlineExceeded"

\* groupCtx is done when its parent is, and when a goroutine has returned an error.
Cancelled(i) == Expired(i) \/ \E t \in Tasks : task[i][t] = "failed"

\* Goroutine t of i does step `now` of its function, and `next` is what follows.
Goes(i, t, now, next) ==
    /\ pc[i] = "gather"
    /\ task[i][t] = now
    /\ task' = [task EXCEPT ![i][t] = next]
    /\ UNCHANGED <<ledger, txs, pc, since, answer>>

GetUsername(i) ==
    /\ Goes(i, "main", "username", "balance")
    /\ UNCHANGED <<rows, got>>

FetchUserBalance(i) ==
    /\ ConnectionFree
    /\ Goes(i, "main", "balance", IF balances[Caller[i]] = NoRow THEN "failed" ELSE "done")
    /\ got' = [got EXCEPT ![i].balance = balances[Caller[i]]]
    /\ UNCHANGED rows

\* rows.Next stops at the end of the groups or at an error; rows.Err is not asked.
FetchUserPurchases(i) ==
    /\ ConnectionFree
    /\ Goes(i, "purchases", "query", "done")
    /\ \E read \in SUBSET Goods :
         got' = [got EXCEPT ![i].inventory =
                   [g \in Goods |-> IF g \in read THEN Inventory(purchases, Caller[i])[g] ELSE 0]]
    /\ UNCHANGED rows

QueryOutgoing(i) ==
    /\ ConnectionFree
    /\ Goes(i, "transfers", "outgoing", "incoming")
    /\ rows' = rows \cup {<<i, "outgoing">>}
    /\ got' = [got EXCEPT ![i].sent =
                 {DirectTransfer(row, row.to_user_id) : row \in Sent(Caller[i])}]

\* The first result set is still open: it is processed after this query.
QueryIncoming(i) ==
    /\ ConnectionFree
    /\ Goes(i, "transfers", "incoming", "process")
    /\ rows' = rows \cup {<<i, "incoming">>}
    /\ got' = [got EXCEPT ![i].received =
                 {DirectTransfer(row, row.from_user_id) : row \in Received(Caller[i])}]

\* The deferred calls of Close.
CloseRows(i) == rows' = {open \in rows : open[1] # i}

\* Fault: processRows does not ask rows.Err either.
ProcessRows_NoErr(i) ==
    /\ Goes(i, "transfers", "process", "names")
    /\ CloseRows(i)
    /\ \E read \in SUBSET got[i].received : got' = [got EXCEPT ![i].received = read]

ProcessRows(i) ==
    /\ Goes(i, "transfers", "process", "names")
    /\ CloseRows(i)
    /\ UNCHANGED got

\* Fault: the loop over the incoming transfers is missing.
ExtractUserIDs_Sent(info) == {t.target : t \in info.sent}

ExtractUserIDs(info) == {t.target : t \in info.sent \cup info.received}

\* A name that is not in the map of the answer is the empty string.
Named(transfers, ids) ==
    {[t EXCEPT !.target = IF t.target \in ids THEN Username[t.target] ELSE ""] : t \in transfers}

GetUsernames(i) ==
    LET ids == ExtractUserIDs(got[i]) IN
    /\ Goes(i, "transfers", "names", "done")
    /\ got' = [got EXCEPT ![i].sent = Named(@, ids), ![i].received = Named(@, ids)]
    /\ UNCHANGED rows

\* Fault: a return between the two queries leaves the first result set open.
TaskFails_Leaks(i, t) ==
    /\ task[i][t] \notin {"done", "failed"}
    /\ Goes(i, t, task[i][t], "failed")
    /\ UNCHANGED <<rows, got>>

\* A query, a row or the auth service fails, or 500 ms of waiting for it are over.
TaskFails(i, t) ==
    /\ task[i][t] \notin {"done", "failed"}
    /\ Goes(i, t, task[i][t], "failed")
    /\ IF t = "transfers" THEN CloseRows(i) ELSE UNCHANGED rows
    /\ UNCHANGED got

\* group.Wait returns, and its first error is not one the service knows.
Wait(i) ==
    /\ pc[i] = "gather"
    /\ \A t \in Tasks : task[i][t] \in {"done", "failed"}
    /\ Return(i, IF \E t \in Tasks : task[i][t] = "failed" THEN "Internal" ELSE "OK")
    /\ UNCHANGED <<ledger, txs, rows, task, got, since>>

-----------------------------------------------------------------------------
(***************************************************************************)
(* What becomes of the result on its way out: the store's response, and    *)
(* what the gateway makes of it.  Only goods that were bought are in the   *)
(* inventory.                                                              *)
(***************************************************************************)
\* Fault: the two directions are taken for one another.
ConvertToUserInfoResponse_Swapped(info) ==
    [balance |-> info.balance,
     inventory |-> {[name |-> g, quantity |-> info.inventory[g]] :
                      g \in {h \in Goods : info.inventory[h] > 0}},
     sent |-> {[id |-> t.id, toUsername |-> t.target, amount |-> t.amount] : t \in info.received},
     received |->
       {[id |-> t.id, fromUsername |-> t.target, amount |-> t.amount] : t \in info.sent}]

ConvertToUserInfoResponse(info) ==
    [balance |-> info.balance,
     inventory |-> {[name |-> g, quantity |-> info.inventory[g]] :
                      g \in {h \in Goods : info.inventory[h] > 0}},
     sent |-> {[id |-> t.id, toUsername |-> t.target, amount |-> t.amount] : t \in info.sent},
     received |->
       {[id |-> t.id, fromUsername |-> t.target, amount |-> t.amount] : t \in info.received}]

ConvertToUserInfo(resp) ==
    [balance |-> resp.balance,
     inventory |-> resp.inventory,
     sent |-> {[id |-> t.id, to |-> t.toUsername, amount |-> t.amount] : t \in resp.sent},
     received |->
       {[id |-> t.id, from |-> t.fromUsername, amount |-> t.amount] : t \in resp.received}]

\* The body of a 200.
GetInfo(i) == ConvertToUserInfo(ConvertToUserInfoResponse(got[i]))

-----------------------------------------------------------------------------
Handler(i) ==
    \/ BalanceInterceptor(i)
    \/ Expired(i) /\ BalanceInterceptorFails(i)
    \/ GetUsername(i) \/ FetchUserBalance(i) \/ FetchUserPurchases(i)
    \/ QueryOutgoing(i) \/ QueryIncoming(i) \/ ProcessRows(i) \/ GetUsernames(i)
    \/ Cancelled(i) /\ \E t \in Tasks : TaskFails(i, t)
    \/ Wait(i)

Next ==
    \/ \E u \in Users : AccountOpens(u)
    \/ \E r \in Reqs : MoneyBegins(r) \/ MoneyMoves(r) \/ MoneyEnds(r)
    \/ \E i \in Infos :
         \/ Handler(i) \/ DeadlineExpires(i) \/ BalanceInterceptorFails(i)
         \/ \E t \in Tasks : TaskFails(i, t)

Spec == Init /\ [][Next]_vars

(***************************************************************************)
(* The scheduler runs every goroutine, the gateway's timer fires, and a    *)
(* transaction gives its connection back (StoreTx, LocksAreReleased).      *)
(***************************************************************************)
Fairness ==
    /\ \A i \in Infos : WF_vars(Handler(i)) /\ WF_vars(DeadlineExpires(i))
    /\ \A r \in Reqs : WF_vars(MoneyEnds(r))

FairSpec == Spec /\ Fairness
=============================================================================

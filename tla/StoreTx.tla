------------------------------- MODULE StoreTx -------------------------------
(***************************************************************************)
(* The money operations of the store service, BuyItem and SendCoins, one   *)
(* handler goroutine per gRPC call, down to the SQL statement: the two     *)
(* interceptors, the look-ups before the transaction, the transaction of   *)
(* DelegateTxManager.WithinTransaction and what the caller is told.        *)
(*                                                                         *)
(* The database is PostgreSQL at READ COMMITTED.  A statement reads the    *)
(* committed rows and the versions its own transaction wrote; SELECT FOR   *)
(* UPDATE and UPDATE hold the row's lock until the transaction ends; a     *)
(* cycle of waiting transactions is broken by aborting a member.  A        *)
(* transaction outlives its handler when the connection is lost or the     *)
(* context expires: the server rolls it back later or, if COMMIT had been  *)
(* sent, may still commit it.                                              *)
(***************************************************************************)
EXTENDS StoreData

VARIABLES
    call,           \* call[r]: what call r asks for
    pc,             \* pc[r]: what the handler of r does next
    err,            \* err[r]: the status code of the error being returned
    reply,          \* reply[r]: what the caller of r was told, or "none"
    balances,       \* committed rows of balances: user_id -> balance
    transactions,   \* committed rows of transactions
    purchases,      \* committed rows of purchases
    tx,             \* tx[r]: the server's side of r's transaction
    lock,           \* lock[u]: the transaction that locked row u of balances
    work            \* work[r][u]: the version of row u that r wrote, uncommitted

tables == <<balances, transactions, purchases>>
session == <<tx, lock, work>>
vars == <<call, pc, err, reply, tables, session>>

NoWork == [u \in Users |-> NoRow]

Init ==
    /\ call \in [Reqs -> Calls]
    /\ pc = [r \in Reqs |-> "idle"]
    /\ err = [r \in Reqs |-> "none"]
    /\ reply = [r \in Reqs |-> "none"]
    /\ balances = [u \in Users |-> NoRow]
    /\ transactions = {}
    /\ purchases = {}
    /\ tx = [r \in Reqs |-> "none"]
    /\ lock = [u \in Users |-> Nobody]
    /\ work = [r \in Reqs |-> NoWork]

-----------------------------------------------------------------------------
(***************************************************************************)
(* Handlers.                                                               *)
(***************************************************************************)
Goto(r, label) == pc' = [pc EXCEPT ![r] = label]

\* The handler returns; a caller that gave up does not hear it.
Return(r, code) ==
    /\ Goto(r, "done")
    /\ reply' = [reply EXCEPT ![r] = IF @ = "none" THEN code ELSE @]

\* txFn returns an error: the deferred Rollback is next.
Raise(r, code) ==
    /\ Goto(r, "rollback")
    /\ err' = [err EXCEPT ![r] = code]

(***************************************************************************)
(* Statements.                                                             *)
(***************************************************************************)
\* Fault: ON CONFLICT (user_id) DO UPDATE instead of DO NOTHING.
EnsureBalanceCreated_Overwrites(u) ==
    balances' = [balances EXCEPT ![u] = StartBalance]

\* INSERT INTO balances ... ON CONFLICT (user_id) DO NOTHING, autocommitted.
EnsureBalanceCreated(u) ==
    balances' = IF balances[u] = NoRow
                THEN [balances EXCEPT ![u] = StartBalance]
                ELSE balances

Lockable(r, u) == lock[u] \in {Nobody, r}

\* What a statement of r reads of row u once it has the lock.
Visible(r, u) == IF work[r][u] # NoRow THEN work[r][u] ELSE balances[u]

\* The transaction of r is over on the server: its locks and versions are gone.
EndTx(r) ==
    /\ tx' = [tx EXCEPT ![r] = "none"]
    /\ lock' = [u \in Users |-> IF lock[u] = r THEN Nobody ELSE lock[u]]
    /\ work' = [work EXCEPT ![r] = NoWork]

\* COMMIT: the versions r wrote become the rows, its INSERT becomes visible.
Publish(r) ==
    /\ balances' = [u \in Users |-> Visible(r, u)]
    /\ transactions' = IF IsSend(call[r])
                       THEN transactions \cup {TransferRow(r, call[r])}
                       ELSE transactions
    /\ purchases' = IF IsSend(call[r])
                    THEN purchases
                    ELSE purchases \cup {PurchaseRow(r, call[r])}

(***************************************************************************)
(* UPDATE balances SET balance = n WHERE user_id = u, as far as it gets:   *)
(* a value outside the column's range is an error, which ends the          *)
(* transaction on the server.                                              *)
(***************************************************************************)
Write(r, u, n, label) ==
    IF Fits(n)
    THEN /\ lock' = [lock EXCEPT ![u] = r]
         /\ work' = [work EXCEPT ![r][u] = n]
         /\ Goto(r, label)
         /\ UNCHANGED <<tx, err>>
    ELSE EndTx(r) /\ Raise(r, "Internal")

-----------------------------------------------------------------------------
(***************************************************************************)
(* Before the transaction.                                                 *)
(***************************************************************************)
\* The token is valid, and names the user.
AuthInterceptor(r) ==
    /\ pc[r] = "idle"
    /\ Goto(r, "ensureCaller")
    /\ UNCHANGED <<call, err, reply, tables, session>>

\* There is no token in the metadata, or it does not parse.
AuthInterceptorRejects(r) ==
    /\ pc[r] = "idle"
    /\ Return(r, "Internal") \/ Return(r, "Unauthenticated")
    /\ UNCHANGED <<call, err, tables, session>>

BalanceInterceptor(r) ==
    /\ pc[r] = "ensureCaller"
    /\ EnsureBalanceCreated(call[r].user)
    /\ Goto(r, "lookup")
    /\ UNCHANGED <<call, err, reply, transactions, purchases, session>>

\* The INSERT fails, or its result is lost.
BalanceInterceptorFails(r) ==
    /\ pc[r] = "ensureCaller"
    /\ EnsureBalanceCreated(call[r].user) \/ UNCHANGED balances
    /\ Return(r, "Internal")
    /\ UNCHANGED <<call, err, transactions, purchases, session>>

GetGoodInfo(r) ==
    /\ pc[r] = "lookup" /\ ~IsSend(call[r])
    /\ call[r].good \in Goods
    /\ Goto(r, "begin")
    /\ UNCHANGED <<call, err, reply, tables, session>>

GetGoodInfoFails(r) ==
    /\ pc[r] = "lookup" /\ ~IsSend(call[r])
    /\ \/ call[r].good \notin Goods /\ Return(r, "InvalidArgument")
       \/ Return(r, "Internal")
    /\ UNCHANGED <<call, err, tables, session>>

FetchUserID(r) ==
    /\ pc[r] = "lookup" /\ IsSend(call[r])
    /\ call[r].to \in Users
    /\ IF call[r].to = call[r].user
       THEN Return(r, "InvalidArgument")
       ELSE Goto(r, "ensureTo") /\ UNCHANGED reply
    /\ UNCHANGED <<call, err, tables, session>>

\* The name is unknown, or the call to the auth service failed: the same answer.
FetchUserIDFails(r) ==
    /\ pc[r] = "lookup" /\ IsSend(call[r])
    /\ Return(r, "NotFound")
    /\ UNCHANGED <<call, err, tables, session>>

EnsureRecipient(r) ==
    /\ pc[r] = "ensureTo"
    /\ EnsureBalanceCreated(call[r].to)
    /\ Goto(r, "begin")
    /\ UNCHANGED <<call, err, reply, transactions, purchases, session>>

EnsureRecipientFails(r) ==
    /\ pc[r] = "ensureTo"
    /\ EnsureBalanceCreated(call[r].to) \/ UNCHANGED balances
    /\ Return(r, "Internal")
    /\ UNCHANGED <<call, err, transactions, purchases, session>>

BeginTx(r) ==
    /\ pc[r] = "begin"
    /\ Goto(r, "lock")
    /\ tx' = [tx EXCEPT ![r] = "open"]
    /\ UNCHANGED <<call, err, reply, tables, lock, work>>

BeginTxFails(r) ==
    /\ pc[r] = "begin"
    /\ Return(r, "Internal")
    /\ UNCHANGED <<call, err, tables, session>>

-----------------------------------------------------------------------------
(***************************************************************************)
(* Within the transaction.                                                 *)
(***************************************************************************)
\* What the use case makes of the balance it has just locked and read.
Verdict(r) ==
    LET b == balances[call[r].user] IN
    IF b = NoRow THEN "NotFound"
    ELSE IF b < Cost(call[r]) THEN "FailedPrecondition" ELSE "OK"

\* Fault: the SELECT of the balance without its FOR UPDATE.
LockAndGetUserBalance_NoLock(r) ==
    /\ pc[r] = "lock"
    /\ IF Verdict(r) = "OK"
       THEN Goto(r, "debit") /\ UNCHANGED err
       ELSE Raise(r, Verdict(r))
    /\ UNCHANGED <<call, reply, tables, session>>

\* SELECT balance FROM balances WHERE user_id = $1 FOR UPDATE, and the check.
LockAndGetUserBalance(r) ==
    LET u == call[r].user IN
    /\ pc[r] = "lock"
    /\ Lockable(r, u)
    /\ lock' = IF balances[u] = NoRow THEN lock ELSE [lock EXCEPT ![u] = r]
    /\ IF Verdict(r) = "OK"
       THEN Goto(r, "debit") /\ UNCHANGED err
       ELSE Raise(r, Verdict(r))
    /\ UNCHANGED <<call, reply, tables, tx, work>>

(***************************************************************************)
(* The first UPDATE.  ProceedTransaction repeats the test of the balance   *)
(* in its WHERE clause; ProcessPurchase leaves it to the CHECK constraint. *)
(***************************************************************************)
Debit(r) ==
    LET u == call[r].user
        n == Visible(r, u) - Cost(call[r])
    IN
    /\ pc[r] = "debit"
    /\ Lockable(r, u)
    /\ IF IsSend(call[r]) /\ n < 0
       THEN Raise(r, "FailedPrecondition") /\ UNCHANGED session
       ELSE Write(r, u, n, IF IsSend(call[r]) THEN "credit" ELSE "insert")
    /\ UNCHANGED <<call, reply, tables>>

\* Fault: the second UPDATE is executed on the pool instead of the transaction.
Credit_OnPool(r) ==
    LET u == call[r].to IN
    /\ pc[r] = "credit"
    /\ Lockable(r, u) /\ Fits(balances[u] + call[r].amount)
    /\ balances' = [balances EXCEPT ![u] = @ + call[r].amount]
    /\ Goto(r, "insert")
    /\ UNCHANGED <<call, err, reply, transactions, purchases, session>>

\* Fault: the recipient is credited with SET balance = $1, computed without reading the row.
Credit_FromStart(r) ==
    /\ pc[r] = "credit"
    /\ Lockable(r, call[r].to)
    /\ Write(r, call[r].to, StartBalance + call[r].amount, "insert")
    /\ UNCHANGED <<call, reply, tables>>

\* The second UPDATE of ProceedTransaction; nobody looks at the rows affected.
Credit(r) ==
    LET u == call[r].to IN
    /\ pc[r] = "credit"
    /\ Lockable(r, u)
    /\ IF balances[u] = NoRow
       THEN Goto(r, "insert") /\ UNCHANGED <<err, session>>
       ELSE Write(r, u, Visible(r, u) + call[r].amount, "insert")
    /\ UNCHANGED <<call, reply, tables>>

\* The user ids that the foreign keys of the inserted row refer to.
Referenced(c) == IF IsSend(c) THEN {c.user, c.to} ELSE {c.user}

\* INSERT INTO transactions / purchases.
InsertRecord(r) ==
    /\ pc[r] = "insert"
    /\ IF \E u \in Referenced(call[r]) : balances[u] = NoRow
       THEN EndTx(r) /\ Raise(r, "Internal")
       ELSE Goto(r, "commit") /\ UNCHANGED <<err, session>>
    /\ UNCHANGED <<call, reply, tables>>

Commit(r) ==
    /\ pc[r] = "commit"
    /\ Publish(r)
    /\ EndTx(r)
    /\ Return(r, "OK")
    /\ UNCHANGED <<call, err>>

\* Fault: the error of tx.Commit is not returned.
CommitFails_Ignored(r) ==
    /\ pc[r] = "commit"
    /\ tx' = [tx EXCEPT ![r] = "committing"]
    /\ Return(r, "OK")
    /\ UNCHANGED <<call, err, tables, lock, work>>

\* COMMIT was sent, and its result never came: the server will decide.
CommitFails(r) ==
    /\ pc[r] = "commit"
    /\ tx' = [tx EXCEPT ![r] = "committing"]
    /\ Return(r, "Internal")
    /\ UNCHANGED <<call, err, tables, lock, work>>

\* A statement fails in the handler: connection lost, or context expired.
StatementFails(r) ==
    /\ pc[r] \in {"lock", "debit", "credit", "insert"}
    /\ tx' = [tx EXCEPT ![r] = "orphan"]
    /\ Raise(r, "Internal")
    /\ UNCHANGED <<call, reply, tables, lock, work>>

\* Fault: the error is returned without the deferred Rollback.
Rollback_Missing(r) ==
    /\ pc[r] = "rollback"
    /\ Return(r, err[r])
    /\ UNCHANGED <<call, err, tables, session>>

(***************************************************************************)
(* The deferred Rollback and the return of the error.  On a context that   *)
(* has expired the ROLLBACK is not sent: pgx closes the connection.        *)
(***************************************************************************)
Rollback(r) ==
    /\ pc[r] = "rollback"
    /\ \/ tx[r] # "orphan" /\ EndTx(r)
       \/ tx[r] = "open" /\ tx' = [tx EXCEPT ![r] = "orphan"] /\ UNCHANGED <<lock, work>>
       \/ tx[r] = "orphan" /\ UNCHANGED session
    /\ Return(r, err[r])
    /\ UNCHANGED <<call, err, tables>>

-----------------------------------------------------------------------------
(***************************************************************************)
(* The database server and the caller.                                     *)
(***************************************************************************)
\* The row whose lock the current statement of r needs.
NextRow(r) == IF pc[r] = "credit" THEN call[r].to ELSE call[r].user

WaitsFor(r, s) ==
    /\ pc[r] \in {"lock", "debit", "credit"}
    /\ s # r /\ lock[NextRow(r)] = s

\* The calls of S wait for each other in cycles.
Deadlocked(S) ==
    /\ S # {}
    /\ \A r \in S : \E s \in S : WaitsFor(r, s)
    /\ \A s \in S : \E r \in S : WaitsFor(r, s)

\* PostgreSQL finds the cycle and aborts the transaction that looked for it.
DeadlockDetected(r) ==
    /\ \E S \in SUBSET Reqs : r \in S /\ Deadlocked(S)
    /\ EndTx(r)
    /\ Raise(r, "Internal")
    /\ UNCHANGED <<call, reply, tables>>

\* The server notices that the client of the connection is gone.
ServerAborts(r) ==
    /\ tx[r] \in {"orphan", "committing"}
    /\ EndTx(r)
    /\ UNCHANGED <<call, pc, err, reply, tables>>

\* The COMMIT whose result was lost had reached the server.
ServerCommits(r) ==
    /\ tx[r] = "committing"
    /\ Publish(r)
    /\ EndTx(r)
    /\ UNCHANGED <<call, pc, err, reply>>

\* The gateway's five seconds are over, or the connection to the store broke.
CallerGivesUp(r) ==
    /\ pc[r] # "idle" /\ reply[r] = "none"
    /\ reply' = [reply EXCEPT ![r] = "DeadlineExceeded"]
    /\ UNCHANGED <<call, pc, err, tables, session>>

-----------------------------------------------------------------------------
Handler(r) ==
    \/ BalanceInterceptor(r) \/ BalanceInterceptorFails(r)
    \/ GetGoodInfo(r) \/ GetGoodInfoFails(r)
    \/ FetchUserID(r) \/ FetchUserIDFails(r)
    \/ EnsureRecipient(r) \/ EnsureRecipientFails(r)
    \/ BeginTx(r) \/ BeginTxFails(r)
    \/ LockAndGetUserBalance(r) \/ Debit(r) \/ Credit(r) \/ InsertRecord(r)
    \/ Commit(r) \/ CommitFails(r) \/ Rollback(r)

Server(r) == DeadlockDetected(r) \/ ServerAborts(r) \/ ServerCommits(r)

Caller(r) == AuthInterceptor(r) \/ AuthInterceptorRejects(r) \/ CallerGivesUp(r)

Next == \E r \in Reqs : Handler(r) \/ StatementFails(r) \/ Server(r) \/ Caller(r)

Spec == Init /\ [][Next]_vars

(***************************************************************************)
(* The Go scheduler runs a handler that can run, and the server sees to    *)
(* its deadlocks and to the connections it lost.  Nothing obliges a caller *)
(* to call or to give up, nor a statement that waits for a lock to fail.   *)
(***************************************************************************)
Fairness == \A r \in Reqs : WF_vars(Handler(r)) /\ WF_vars(Server(r))

FairSpec == Spec /\ Fairness
=============================================================================

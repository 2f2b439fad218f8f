-------------------------- MODULE StoreTxProperties --------------------------
(***************************************************************************)
(* What must hold of the money operations of StoreTx, the invariant that   *)
(* makes it hold, and the abstract ledger they implement.                  *)
(***************************************************************************)
EXTENDS StoreTx, FiniteSetsExt

Balance == 0 .. MaxInt

\* Each row of the history tables is the one its call asked for.
RowsOK ==
    /\ \A row \in transactions :
         \E r \in Reqs : IsSend(call[r]) /\ row = TransferRow(r, call[r])
    /\ \A row \in purchases :
         \E r \in Reqs : ~IsSend(call[r]) /\ row = PurchaseRow(r, call[r])

(***************************************************************************)
(* Type correctness: committed balances and uncommitted versions fit the   *)
(* column with its CHECK constraint (init_store.sql), and the rows of the  *)
(* history tables are those of calls.                                      *)
(***************************************************************************)
TypeOK ==
    /\ call \in [Reqs -> Calls]
    /\ pc \in [Reqs -> {"idle", "ensureCaller", "lookup", "ensureTo", "begin", "lock",
                        "debit", "credit", "insert", "commit", "rollback", "done"}]
    /\ err \in [Reqs -> Codes \cup {"none"}]
    /\ reply \in [Reqs -> Codes \cup {"none"}]
    /\ balances \in [Users -> Balance \cup {NoRow}]
    /\ RowsOK
    /\ tx \in [Reqs -> {"none", "open", "orphan", "committing"}]
    /\ lock \in [Users -> Reqs \cup {Nobody}]
    /\ work \in [Reqs -> [Users -> Balance \cup {NoRow}]]

-----------------------------------------------------------------------------
(***************************************************************************)
(* The books.                                                              *)
(***************************************************************************)
Received(u) == {row \in transactions : row.to_user_id = u}
Sent(u) == {row \in transactions : row.from_user_id = u}
Bought(u) == {row \in purchases : row.user_id = u}

AmountOf(rows) == MapThenSumSet(LAMBDA row : row.amount, rows)
PriceOf(rows) == MapThenSumSet(LAMBDA row : Price[row.good_id], rows)

(***************************************************************************)
(* In every committed state each balance is what the history tables say it *)
(* is: the start balance, plus what was received, less what was sent and   *)
(* what the purchases cost; and no row of them refers to a user without an *)
(* account.  Concurrent statements, a lost COMMIT, a first request racing  *)
(* a transfer to the same user never make coins or lose them.              *)
(***************************************************************************)
AccountsBalance ==
    \A u \in Users :
        IF balances[u] = NoRow
        THEN Received(u) = {} /\ Sent(u) = {} /\ Bought(u) = {}
        ELSE balances[u] = StartBalance + AmountOf(Received(u))
                             - AmountOf(Sent(u)) - PriceOf(Bought(u))

-----------------------------------------------------------------------------
(***************************************************************************)
(* Locking.                                                                *)
(***************************************************************************)
\* What call r changes in row u, once it commits.
Delta(r, u) ==
    (IF IsSend(call[r]) /\ u = call[r].to THEN call[r].amount ELSE 0)
      - (IF u = call[r].user THEN Cost(call[r]) ELSE 0)

(***************************************************************************)
(* Between the check of the balance in Go and the UPDATE that relies on it *)
(* (purchase_case.go:40, send_coins_case.go:54) nothing lowers the         *)
(* balance: the CHECK constraint of ProcessPurchase's UPDATE never fires   *)
(* and ProceedTransaction's zero-rows branch is never taken.               *)
(***************************************************************************)
DebitIsCovered ==
    \A r \in Reqs :
        pc[r] = "debit" => Visible(r, call[r].user) >= Cost(call[r])

(***************************************************************************)
(* No lost update: a version that a transaction has written, whether it    *)
(* waits for another row, for its COMMIT, or for a server to give up on    *)
(* its connection, still differs from the committed row by exactly what    *)
(* its own call moves.                                                     *)
(***************************************************************************)
NoLostUpdate ==
    \A r \in Reqs, u \in Users :
        work[r][u] # NoRow =>
            balances[u] # NoRow /\ work[r][u] = balances[u] + Delta(r, u)

-----------------------------------------------------------------------------
(***************************************************************************)
(* Answers.                                                                *)
(***************************************************************************)
Recorded(r) == \E row \in transactions \cup purchases : row.id = r

(***************************************************************************)
(* A call answered OK is in the tables.  A call that was refused           *)
(* (store_service.go:69, 96) is not, and no transaction of it is left on   *)
(* the server that could still commit.                                     *)
(***************************************************************************)
AnswersAreHonest ==
    \A r \in Reqs :
        /\ reply[r] = "OK" => Recorded(r)
        /\ reply[r] \in Refusals => ~Recorded(r) /\ tx[r] # "committing"

-----------------------------------------------------------------------------
(***************************************************************************)
(* The inductive invariant behind the three safety properties above and    *)
(* behind the refinement.                                                  *)
(***************************************************************************)
\* Where the handler is tells whether the server has a transaction for it.
SessionInv(r) ==
    /\ pc[r] \in {"lock", "debit", "credit", "insert", "commit"} => tx[r] = "open"
    /\ pc[r] \in {"idle", "ensureCaller", "lookup", "ensureTo", "begin"} => tx[r] = "none"
    /\ pc[r] = "rollback" => tx[r] # "committing" /\ err[r] \in Codes \ {"OK"}
    /\ pc[r] = "done" => tx[r] # "open"

\* A lock is held by a transaction that has not ended, and on a row that exists.
LockInv(u) ==
    lock[u] # Nobody => tx[lock[u]] # "none" /\ balances[u] # NoRow

\* The look-ups that precede the transaction have succeeded, for good.
LookupInv(r) ==
    /\ pc[r] \notin {"idle", "ensureCaller", "done"} => balances[call[r].user] # NoRow
    /\ pc[r] \in {"ensureTo", "begin", "lock", "debit", "credit", "insert", "commit"}
         \/ tx[r] = "committing"
       => IF IsSend(call[r]) THEN call[r].to \in Users \ {call[r].user}
                             ELSE call[r].good \in Goods
    /\ pc[r] \in {"begin", "lock", "debit", "credit", "insert", "commit"} /\ IsSend(call[r])
       => balances[call[r].to] # NoRow
    /\ pc[r] \in {"ensureTo", "credit"} => IsSend(call[r])

\* What r has written: only rows it has locked, and only its own amounts.
WorkInv(r) ==
    \A u \in Users :
        work[r][u] # NoRow =>
            /\ lock[u] = r
            /\ balances[u] # NoRow
            /\ work[r][u] = balances[u] + Delta(r, u)

Written(r) == {u \in Users : work[r][u] # NoRow}

\* How far the transaction has got.
StageInv(r) ==
    /\ pc[r] \in {"lock", "debit"} \/ tx[r] = "none" => Written(r) = {}
    /\ pc[r] = "debit" => lock[call[r].user] = r /\ balances[call[r].user] >= Cost(call[r])
    /\ pc[r] = "credit" => Written(r) = {call[r].user}
    /\ pc[r] \in {"insert", "commit"} \/ tx[r] = "committing"
         => Written(r) = Referenced(call[r])

\* What the caller was told agrees with what the server has done, or may do.
AnswerInv(r) ==
    /\ Recorded(r) => pc[r] = "done" /\ tx[r] = "none" /\ reply[r] \in {"OK"} \cup Unknowns
    /\ reply[r] = "OK" => Recorded(r)
    /\ tx[r] = "committing" => reply[r] \in Unknowns
    /\ reply[r] \notin {"none", "DeadlineExceeded"} => pc[r] = "done"

(***************************************************************************)
(* The conjunction of all of these, inductive relative to nothing else:    *)
(* what every statement of BuyItem and SendCoins leaves true.              *)
(***************************************************************************)
TxInv ==
    /\ TypeOK
    /\ \A u \in Users : LockInv(u)
    /\ \A r \in Reqs :
         SessionInv(r) /\ LookupInv(r) /\ WorkInv(r) /\ StageInv(r) /\ AnswerInv(r)

-----------------------------------------------------------------------------
(***************************************************************************)
(* Refinement: the statements, locks and connections of StoreTx implement  *)
(* the ledger that knows none of them.                                     *)
(***************************************************************************)
Ledger == INSTANCE StoreLedger WITH
            call <- call, balances <- balances, transactions <- transactions,
            purchases <- purchases, reply <- reply

ImplementsLedger == Ledger!Spec

(***************************************************************************)
(* Every call that reached a handler is returned from, though transactions *)
(* wait for each other's row locks in any order, without the caller's      *)
(* deadline coming to the rescue.                                          *)
(***************************************************************************)
EveryCallReturns == \A r \in Reqs : pc[r] # "idle" ~> pc[r] = "done"

(***************************************************************************)
(* No row lock outlives the call that took it for ever, whatever becomes   *)
(* of the handler, its rollback and its connection.                        *)
(***************************************************************************)
LocksAreReleased == \A u \in Users : []<>(lock[u] = Nobody)

(***************************************************************************)
(* README.md:20 and 48 promise "concurrent-safe transactions" and          *)
(* "Row-Level Locking [...] for safe concurrent coin transfers": that      *)
(* concurrent transfers never block each other for good, so that none of   *)
(* them has to be killed.                                                  *)
(***************************************************************************)
NeverDeadlocked == ~\E S \in SUBSET Reqs : Deadlocked(S)
=============================================================================

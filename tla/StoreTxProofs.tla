---------------------------- MODULE StoreTxProofs ----------------------------
(***************************************************************************)
(* Proofs about StoreTx, for every set of users, goods, prices and calls.  *)
(***************************************************************************)
EXTENDS StoreTxProperties, TLAPS

LEMMA InitType == Init => TypeOK
BY DataAssumption DEF Init, TypeOK, RowsOK, NoWork, Balance

(***************************************************************************)
(* The types are preserved by every statement: an UPDATE writes only       *)
(* values that fit the column, an INSERT only the row of its own call.     *)
(***************************************************************************)
LEMMA EndTxType ==
  ASSUME TypeOK, NEW r \in Reqs, EndTx(r)
  PROVE  /\ tx' \in [Reqs -> {"none", "open", "orphan", "committing"}]
         /\ lock' \in [Users -> Reqs \cup {Nobody}]
         /\ work' \in [Reqs -> [Users -> Balance \cup {NoRow}]]
BY DEF TypeOK, EndTx, NoWork

LEMMA PublishType ==
  ASSUME TypeOK, NEW r \in Reqs, Publish(r), UNCHANGED call
  PROVE  balances' \in [Users -> Balance \cup {NoRow}] /\ RowsOK'
<1>1. balances' \in [Users -> Balance \cup {NoRow}]
  BY DEF TypeOK, Publish, Visible
<1>2. CASE IsSend(call[r])
  BY <1>1, <1>2 DEF TypeOK, RowsOK, Publish
<1>3. CASE ~IsSend(call[r])
  BY <1>1, <1>3 DEF TypeOK, RowsOK, Publish
<1>4. QED BY <1>2, <1>3

LEMMA EnsureType ==
  ASSUME TypeOK, NEW u, EnsureBalanceCreated(u)
  PROVE  balances' \in [Users -> Balance \cup {NoRow}]
BY DataAssumption DEF TypeOK, EnsureBalanceCreated, Balance

LEMMA WriteType ==
  ASSUME TypeOK, NEW r \in Reqs, NEW u, NEW n, NEW label \in {"credit", "insert"},
         Write(r, u, n, label)
  PROVE  /\ tx' \in [Reqs -> {"none", "open", "orphan", "committing"}]
         /\ lock' \in [Users -> Reqs \cup {Nobody}]
         /\ work' \in [Reqs -> [Users -> Balance \cup {NoRow}]]
         /\ pc' \in [Reqs -> {"idle", "ensureCaller", "lookup", "ensureTo", "begin", "lock",
                        "debit", "credit", "insert", "commit", "rollback", "done"}]
         /\ err' \in [Reqs -> Codes \cup {"none"}]
<1>1. CASE Fits(n)
  <2>1. /\ n \in Balance
        /\ lock' = [lock EXCEPT ![u] = r]
        /\ work' = [work EXCEPT ![r] = [work[r] EXCEPT ![u] = n]]
        /\ pc' = [pc EXCEPT ![r] = label]
        /\ tx' = tx /\ err' = err
    BY <1>1 DEF TypeOK, Write, Fits, Goto, Balance
  <2>2. work' \in [Reqs -> [Users -> Balance \cup {NoRow}]]
    BY <2>1 DEF TypeOK
  <2>3. QED BY <2>1, <2>2 DEF TypeOK
<1>2. CASE ~Fits(n)
  <2>1. EndTx(r) /\ Raise(r, "Internal")
    BY <1>2 DEF Write
  <2>2. QED BY <2>1, EndTxType DEF TypeOK, Raise, Goto, Codes, Unknowns
<1>3. QED BY <1>1, <1>2

LEMMA TypeStep ==
  ASSUME TypeOK, [Next]_vars
  PROVE  TypeOK'
<1> DEFINE Labels == {"idle", "ensureCaller", "lookup", "ensureTo", "begin", "lock",
                      "debit", "credit", "insert", "commit", "rollback", "done"}
<1>1. ASSUME NEW r \in Reqs, Handler(r)
      PROVE  TypeOK'
  <2>1. ASSUME UNCHANGED <<call, err, transactions, purchases, session>>,
               pc' \in [Reqs -> Labels], reply' \in [Reqs -> Codes \cup {"none"}],
               balances' \in [Users -> Balance \cup {NoRow}]
        PROVE  TypeOK'
    BY <2>1 DEF TypeOK, session, RowsOK
  <2>2. CASE \/ BalanceInterceptor(r) \/ BalanceInterceptorFails(r)
             \/ EnsureRecipient(r) \/ EnsureRecipientFails(r)
    <3>1. balances' \in [Users -> Balance \cup {NoRow}]
      BY <2>2, EnsureType DEF TypeOK, BalanceInterceptor, BalanceInterceptorFails,
                              EnsureRecipient, EnsureRecipientFails
    <3>2. QED
      BY <2>1, <2>2, <3>1
         DEF TypeOK, BalanceInterceptor, BalanceInterceptorFails, EnsureRecipient,
             EnsureRecipientFails, Goto, Return, Codes, Unknowns
  <2>3. CASE \/ GetGoodInfo(r) \/ GetGoodInfoFails(r)
             \/ FetchUserID(r) \/ FetchUserIDFails(r) \/ BeginTxFails(r)
    BY <2>1, <2>3 DEF TypeOK, GetGoodInfo, GetGoodInfoFails, FetchUserID, FetchUserIDFails,
                      BeginTxFails, tables, Goto, Return, Codes, Unknowns, Refusals
  <2>4. CASE BeginTx(r) \/ CommitFails(r)
    BY <2>4 DEF TypeOK, RowsOK, BeginTx, CommitFails, tables, Goto, Return, Codes, Unknowns
  <2>5. CASE LockAndGetUserBalance(r)
    <3>1. Verdict(r) \in Codes
      BY DEF Verdict, Codes, Refusals
    <3>2. QED
      BY <2>5, <3>1 DEF TypeOK, RowsOK, LockAndGetUserBalance, tables, Goto, Raise
  <2>6. CASE Debit(r) \/ Credit(r)
    <3>1. CASE \E u, n : \E label \in {"credit", "insert"} : Write(r, u, n, label)
      <4>1. UNCHANGED <<call, reply, balances, transactions, purchases>>
        BY <2>6 DEF Debit, Credit, tables
      <4>2. RowsOK'
        BY <4>1 DEF TypeOK, RowsOK
      <4>3. PICK u, n : \E label \in {"credit", "insert"} : Write(r, u, n, label)
        BY <3>1
      <4>4. PICK label \in {"credit", "insert"} : Write(r, u, n, label)
        BY <4>3
      <4>5. /\ tx' \in [Reqs -> {"none", "open", "orphan", "committing"}]
            /\ lock' \in [Users -> Reqs \cup {Nobody}]
            /\ work' \in [Reqs -> [Users -> Balance \cup {NoRow}]]
            /\ pc' \in [Reqs -> Labels]
            /\ err' \in [Reqs -> Codes \cup {"none"}]
        BY <4>4, WriteType
      <4>6. QED BY <4>1, <4>2, <4>5 DEF TypeOK
    <3>2. CASE ~\E u, n : \E label \in {"credit", "insert"} : Write(r, u, n, label)
      BY <2>6, <3>2 DEF TypeOK, RowsOK, Debit, Credit, tables, session, Goto, Raise,
                        Codes, Refusals
    <3>3. QED BY <3>1, <3>2
  <2>7. CASE InsertRecord(r)
    BY <2>7, EndTxType DEF TypeOK, RowsOK, InsertRecord, tables, session, Goto, Raise,
                           Codes, Unknowns
  <2>8. CASE Commit(r)
    BY <2>8, EndTxType, PublishType DEF TypeOK, Commit, Goto, Return, Codes
  <2>9. CASE Rollback(r)
    BY <2>9, EndTxType DEF TypeOK, RowsOK, Rollback, tables, session, Goto, Return
  <2>10. QED
    BY <1>1, <2>2, <2>3, <2>4, <2>5, <2>6, <2>7, <2>8, <2>9 DEF Handler
<1>2. ASSUME NEW r \in Reqs, Server(r)
      PROVE  TypeOK'
  <2>1. CASE DeadlockDetected(r) \/ ServerAborts(r)
    BY <2>1, EndTxType DEF TypeOK, RowsOK, DeadlockDetected, ServerAborts, tables, Goto, Raise,
                           Codes, Unknowns
  <2>2. CASE ServerCommits(r)
    BY <2>2, EndTxType, PublishType DEF TypeOK, ServerCommits
  <2>3. QED BY <1>2, <2>1, <2>2 DEF Server
<1>3. ASSUME NEW r \in Reqs, Caller(r)
      PROVE  TypeOK'
  BY <1>3 DEF TypeOK, RowsOK, Caller, AuthInterceptor, AuthInterceptorRejects, CallerGivesUp,
              tables, session, Goto, Return, Codes, Unknowns, Refusals
<1>4. ASSUME NEW r \in Reqs, StatementFails(r)
      PROVE  TypeOK'
  BY <1>4 DEF TypeOK, RowsOK, StatementFails, tables, Goto, Raise, Codes, Unknowns
<1>5. CASE UNCHANGED vars
  BY <1>5 DEF TypeOK, RowsOK, vars, tables, session
<1>6. QED BY <1>1, <1>2, <1>3, <1>4, <1>5 DEF Next

(***************************************************************************)
(* The committed balances, and the versions that transactions have         *)
(* written, fit a column that cannot hold a debt (init_store.sql:6); the   *)
(* history holds no row that its call did not ask for.                     *)
(***************************************************************************)
THEOREM TypeCorrect == Spec => []TypeOK
BY InitType, TypeStep, PTL DEF Spec

-----------------------------------------------------------------------------
(***************************************************************************)
(* Isolation: what the invariant says of the calls other than q survives   *)
(* every step of q, because of what such a step leaves alone.              *)
(***************************************************************************)
ReqInv(r) == SessionInv(r) /\ LookupInv(r) /\ WorkInv(r) /\ StageInv(r) /\ AnswerInv(r)

Alone(q) ==
    /\ call' = call
    /\ \A s \in Reqs \ {q} :
         /\ pc'[s] = pc[s] /\ err'[s] = err[s] /\ reply'[s] = reply[s]
         /\ tx'[s] = tx[s] /\ work'[s] = work[s]
         /\ Recorded(s)' <=> Recorded(s)
    /\ \A u \in Users :
         lock[u] \notin {q, Nobody} => lock'[u] = lock[u] /\ balances'[u] = balances[u]
    /\ \A u \in Users : balances[u] # NoRow => balances'[u] # NoRow

LEMMA Isolation ==
  ASSUME TxInv, NEW q \in Reqs, Alone(q), NEW s \in Reqs \ {q}
  PROVE  ReqInv(s)'
<1> DEFINE c == call[s]
<1>1. /\ call' = call /\ pc'[s] = pc[s] /\ err'[s] = err[s] /\ reply'[s] = reply[s]
      /\ tx'[s] = tx[s] /\ work'[s] = work[s]
      /\ Recorded(s)' <=> Recorded(s)
  BY DEF Alone
<1>2. /\ c \in Calls /\ c.user \in Users
      /\ SessionInv(s) /\ LookupInv(s) /\ WorkInv(s) /\ StageInv(s) /\ AnswerInv(s)
  BY CallsAssumption DEF TxInv, TypeOK
<1>3. \A u \in Users : balances[u] # NoRow => balances'[u] # NoRow
  BY DEF Alone
<1>4. \A u \in Users : lock[u] = s => lock'[u] = s /\ balances'[u] = balances[u]
  BY DataAssumption DEF Alone
<1>5. SessionInv(s)'
  BY <1>1, <1>2 DEF SessionInv
<1>6. LookupInv(s)'
  BY <1>1, <1>2, <1>3 DEF LookupInv
<1>7. WorkInv(s)'
  BY <1>1, <1>2, <1>4 DEF WorkInv, Delta, Cost
<1>8. StageInv(s)'
  BY <1>1, <1>2, <1>4 DEF StageInv, Written, Cost, Referenced
<1>9. AnswerInv(s)'
  BY <1>1, <1>2 DEF AnswerInv
<1>10. QED BY <1>5, <1>6, <1>7, <1>8, <1>9 DEF ReqInv

(***************************************************************************)
(* So a step of q preserves the invariant if it keeps the types, leaves    *)
(* the others alone, and restores the locks' and q's own part of it.       *)
(***************************************************************************)
LEMMA Assemble ==
  ASSUME TxInv, TypeOK', NEW q \in Reqs, Alone(q), \A u \in Users : LockInv(u)', ReqInv(q)'
  PROVE  TxInv'
<1>1. \A s \in Reqs : ReqInv(s)'
  BY Isolation
<1>2. QED BY <1>1 DEF TxInv, ReqInv

LEMMA InitInv == Init => TxInv
<1> SUFFICES ASSUME Init PROVE TxInv
  OBVIOUS
<1>1. TypeOK
  BY InitType
<1>2. \A u \in Users : LockInv(u)
  BY DEF Init, LockInv
<1>3. ASSUME NEW r \in Reqs
      PROVE  ReqInv(r)
  BY DEF Init, NoWork, ReqInv, SessionInv, LookupInv, WorkInv, StageInv, AnswerInv, Written,
         Recorded, Refusals, Unknowns
<1>4. QED BY <1>1, <1>2, <1>3 DEF TxInv, ReqInv

(***************************************************************************)
(* The five ways a step of q touches what is shared: not at all; by        *)
(* opening an account; by ending its transaction; by writing a version of  *)
(* a row; by committing.  Each leaves the others alone.                    *)
(***************************************************************************)
OnlyMoves(q) ==
    /\ call' = call
    /\ \A s \in Reqs \ {q} : pc'[s] = pc[s] /\ err'[s] = err[s] /\ reply'[s] = reply[s]

LEMMA QuietStep ==
  ASSUME TxInv, NEW q \in Reqs, OnlyMoves(q), UNCHANGED <<tables, session>>
  PROVE  Alone(q) /\ \A u \in Users : LockInv(u)'
BY DEF TxInv, OnlyMoves, Alone, LockInv, tables, session, Recorded

LEMMA EnsureGrows ==
  ASSUME TxInv, NEW v, EnsureBalanceCreated(v) \/ UNCHANGED balances
  PROVE  \A u \in Users : balances[u] # NoRow => balances'[u] = balances[u]
BY DEF TxInv, TypeOK, EnsureBalanceCreated

LEMMA EnsureOpens ==
  ASSUME TxInv, NEW v \in Users, EnsureBalanceCreated(v)
  PROVE  balances'[v] # NoRow
BY DataAssumption DEF TxInv, TypeOK, EnsureBalanceCreated

LEMMA EnsureStep ==
  ASSUME TxInv, NEW q \in Reqs, OnlyMoves(q), NEW v,
         EnsureBalanceCreated(v) \/ UNCHANGED balances,
         UNCHANGED <<transactions, purchases, session>>
  PROVE  Alone(q) /\ \A u \in Users : LockInv(u)'
<1>1. \A u \in Users : balances[u] # NoRow => balances'[u] = balances[u]
  BY EnsureGrows
<1>2. QED BY <1>1 DEF TxInv, OnlyMoves, Alone, LockInv, session, Recorded

LEMMA EndStep ==
  ASSUME TxInv, NEW q \in Reqs, OnlyMoves(q), EndTx(q), UNCHANGED tables
  PROVE  /\ Alone(q) /\ \A u \in Users : LockInv(u)'
         /\ tx'[q] = "none" /\ work'[q] = NoWork
<1>1. tx'[q] = "none" /\ work'[q] = NoWork
  BY DEF TxInv, TypeOK, EndTx
<1>2. Alone(q)
  BY DEF TxInv, TypeOK, OnlyMoves, Alone, EndTx, tables, Recorded
<1>3. ASSUME NEW u \in Users
      PROVE  LockInv(u)'
  BY DataAssumption DEF TxInv, TypeOK, LockInv, EndTx, tables
<1>4. QED BY <1>1, <1>2, <1>3

\* A lock is taken, and perhaps a version written, in a row that exists.
LEMMA LockStep ==
  ASSUME TxInv, NEW q \in Reqs, OnlyMoves(q), UNCHANGED <<tables, tx>>,
         NEW u \in Users, Lockable(q, u), lock' = [lock EXCEPT ![u] = q],
         balances[u] # NoRow, tx[q] # "none",
         \A s \in Reqs \ {q} : work'[s] = work[s]
  PROVE  Alone(q) /\ \A v \in Users : LockInv(v)'
<1>1. Alone(q)
  BY DEF TxInv, TypeOK, OnlyMoves, Alone, Lockable, tables, Recorded
<1>2. ASSUME NEW v \in Users
      PROVE  LockInv(v)'
  BY DEF TxInv, TypeOK, LockInv, tables
<1>3. QED BY <1>1, <1>2

LEMMA PublishStep ==
  ASSUME TxInv, NEW q \in Reqs, OnlyMoves(q), EndTx(q), Publish(q)
  PROVE  /\ Alone(q) /\ \A u \in Users : LockInv(u)'
         /\ tx'[q] = "none" /\ work'[q] = NoWork /\ Recorded(q)'
         /\ \A u \in Users : balances[u] # NoRow <=> balances'[u] # NoRow
<1>1. tx'[q] = "none" /\ work'[q] = NoWork
  BY DEF TxInv, TypeOK, EndTx
<1>2. ASSUME NEW u \in Users
      PROVE  /\ balances[u] # NoRow <=> balances'[u] # NoRow
             /\ lock[u] \notin {q, Nobody} => lock'[u] = lock[u] /\ balances'[u] = balances[u]
  BY DEF TxInv, TypeOK, WorkInv, Publish, Visible, EndTx
<1>3. Recorded(q)'
  <2>1. CASE IsSend(call[q])
    <3>1. TransferRow(q, call[q]) \in transactions' /\ TransferRow(q, call[q]).id = q
      BY <2>1 DEF Publish, TransferRow
    <3>2. QED BY <3>1 DEF Recorded
  <2>2. CASE ~IsSend(call[q])
    <3>1. PurchaseRow(q, call[q]) \in purchases' /\ PurchaseRow(q, call[q]).id = q
      BY <2>2 DEF Publish, PurchaseRow
    <3>2. QED BY <3>1 DEF Recorded
  <2>3. QED BY <2>1, <2>2
<1>4. ASSUME NEW s \in Reqs \ {q}
      PROVE  Recorded(s)' <=> Recorded(s)
  BY DEF Publish, Recorded, TransferRow, PurchaseRow
<1>5. Alone(q)
  BY <1>2, <1>4 DEF TxInv, TypeOK, OnlyMoves, Alone, EndTx
<1>6. ASSUME NEW u \in Users
      PROVE  LockInv(u)'
  BY <1>2 DEF TxInv, TypeOK, LockInv, EndTx
<1>7. QED BY <1>1, <1>2, <1>3, <1>5, <1>6

-----------------------------------------------------------------------------
(***************************************************************************)
(* Before the transaction: a call that has none on the server, and that    *)
(* nobody can find in the tables.                                          *)
(***************************************************************************)
LEMMA EarlyStep ==
  ASSUME TxInv, TypeOK', NEW q \in Reqs,
         \/ AuthInterceptor(q) \/ AuthInterceptorRejects(q)
         \/ BalanceInterceptor(q) \/ BalanceInterceptorFails(q)
         \/ GetGoodInfo(q) \/ GetGoodInfoFails(q)
         \/ FetchUserID(q) \/ FetchUserIDFails(q)
         \/ EnsureRecipient(q) \/ EnsureRecipientFails(q)
         \/ BeginTxFails(q)
  PROVE  TxInv'
<1> DEFINE c == call[q]
<1>1. /\ c \in Calls /\ c.user \in Users
      /\ SessionInv(q) /\ LookupInv(q) /\ WorkInv(q) /\ StageInv(q) /\ AnswerInv(q)
  BY CallsAssumption DEF TxInv, TypeOK
<1>2. /\ OnlyMoves(q) /\ UNCHANGED <<transactions, purchases, session>>
      /\ UNCHANGED balances \/ \E v : EnsureBalanceCreated(v)
  BY DEF TxInv, TypeOK, AuthInterceptor, AuthInterceptorRejects, BalanceInterceptor,
         BalanceInterceptorFails, GetGoodInfo, GetGoodInfoFails, FetchUserID, FetchUserIDFails,
         EnsureRecipient, EnsureRecipientFails, BeginTxFails, tables, Goto, Return, OnlyMoves
<1>3. Alone(q) /\ \A u \in Users : LockInv(u)'
  BY <1>2, EnsureStep
<1>4. pc[q] \in {"idle", "ensureCaller", "lookup", "ensureTo", "begin"}
  BY DEF AuthInterceptor, AuthInterceptorRejects, BalanceInterceptor, BalanceInterceptorFails,
         GetGoodInfo, GetGoodInfoFails, FetchUserID, FetchUserIDFails, EnsureRecipient,
         EnsureRecipientFails, BeginTxFails
<1>5. /\ tx[q] = "none" /\ ~Recorded(q) /\ Written(q) = {}
      /\ call' = call /\ tx' = tx /\ lock' = lock /\ work' = work
      /\ ~Recorded(q)' /\ Written(q)' = {}
  BY <1>1, <1>2, <1>4 DEF SessionInv, AnswerInv, StageInv, OnlyMoves, session, Recorded, Written
<1>6. \A u \in Users : balances[u] # NoRow => balances'[u] # NoRow
  BY <1>3 DEF Alone
<1>7. reply[q] \in {"none", "DeadlineExceeded"}
  BY <1>1, <1>4 DEF AnswerInv
<1>8. WorkInv(q)'
  BY <1>5 DEF WorkInv, Written
<1>9. CASE \/ AuthInterceptorRejects(q) \/ BalanceInterceptorFails(q) \/ GetGoodInfoFails(q)
           \/ FetchUserIDFails(q) \/ EnsureRecipientFails(q) \/ BeginTxFails(q)
           \/ FetchUserID(q) /\ pc'[q] = "done"
  <2>1. pc'[q] = "done" /\ reply'[q] \in Codes \ {"OK"}
    BY <1>7, <1>9
       DEF TxInv, TypeOK, AuthInterceptorRejects, BalanceInterceptorFails, GetGoodInfoFails,
           FetchUserIDFails, EnsureRecipientFails, BeginTxFails, FetchUserID, Goto, Return,
           Codes, Refusals, Unknowns
  <2>2. ReqInv(q)'
    BY <1>5, <1>8, <2>1
       DEF ReqInv, SessionInv, LookupInv, StageInv, AnswerInv, Codes, Refusals, Unknowns
  <2>3. QED BY <1>3, <2>2, Assemble
<1>10. CASE \/ AuthInterceptor(q) \/ BalanceInterceptor(q) \/ GetGoodInfo(q)
            \/ EnsureRecipient(q)
            \/ FetchUserID(q) /\ pc'[q] # "done"
  <2>1. /\ pc'[q] \in {"ensureCaller", "lookup", "ensureTo", "begin"} /\ reply'[q] = reply[q]
    BY <1>10 DEF TxInv, TypeOK, AuthInterceptor, BalanceInterceptor, GetGoodInfo, FetchUserID,
                 EnsureRecipient, Goto, Return
  <2>2. LookupInv(q)'
    <3>1. CASE AuthInterceptor(q)
      BY <1>5, <3>1 DEF TxInv, TypeOK, AuthInterceptor, Goto, LookupInv
    <3>2. CASE BalanceInterceptor(q)
      <4>1. balances'[c.user] # NoRow
        BY <1>1, <3>2, EnsureOpens DEF BalanceInterceptor
      <4>2. QED BY <1>5, <3>2, <4>1 DEF TxInv, TypeOK, BalanceInterceptor, Goto, LookupInv
    <3>3. CASE GetGoodInfo(q)
      BY <1>1, <1>5, <1>6, <3>3 DEF TxInv, TypeOK, GetGoodInfo, Goto, LookupInv
    <3>4. CASE FetchUserID(q) /\ pc'[q] # "done"
      BY <1>1, <1>5, <1>6, <3>4 DEF TxInv, TypeOK, FetchUserID, Goto, Return, LookupInv
    <3>5. CASE EnsureRecipient(q)
      <4>1. c.to \in Users /\ IsSend(c)
        BY <1>1, <3>5 DEF LookupInv, EnsureRecipient
      <4>2. balances'[c.to] # NoRow
        BY <3>5, <4>1, EnsureOpens DEF EnsureRecipient
      <4>3. QED
        BY <1>1, <1>5, <1>6, <3>5, <4>1, <4>2 DEF TxInv, TypeOK, EnsureRecipient, Goto, LookupInv
    <3>6. QED BY <1>10, <3>1, <3>2, <3>3, <3>4, <3>5
  <2>3. ReqInv(q)'
    BY <1>5, <1>7, <1>8, <2>1, <2>2
       DEF ReqInv, SessionInv, StageInv, AnswerInv, Codes, Refusals, Unknowns
  <2>4. QED BY <1>3, <2>3, Assemble
<1>11. QED BY <1>9, <1>10

-----------------------------------------------------------------------------
(***************************************************************************)
(* Within the transaction.                                                 *)
(***************************************************************************)
\* What the invariant says of one call.
LEMMA About ==
  ASSUME TxInv, NEW q \in Reqs
  PROVE  /\ call[q] \in Calls /\ call[q].user \in Users
         /\ SessionInv(q) /\ LookupInv(q) /\ WorkInv(q) /\ StageInv(q) /\ AnswerInv(q)
BY CallsAssumption DEF TxInv, TypeOK

\* The call has got so far that its look-ups have succeeded.
LEMMA Resolved ==
  ASSUME TxInv, NEW q \in Reqs,
         pc[q] \in {"lock", "debit", "credit", "insert", "commit"} \/ tx[q] = "committing"
  PROVE  /\ Cost(call[q]) \in Nat
         /\ IsSend(call[q]) => /\ call[q].to \in Users \ {call[q].user}
                               /\ call[q].amount \in Nat
<1>1. CASE IsSend(call[q])
  BY <1>1, About, CallsAssumption DEF LookupInv, Cost
<1>2. CASE ~IsSend(call[q])
  BY <1>2, About, DataAssumption DEF LookupInv, Cost
<1>3. QED BY <1>1, <1>2

LEMMA BeginStep ==
  ASSUME TxInv, TypeOK', NEW q \in Reqs, BeginTx(q)
  PROVE  TxInv'
<1>1. /\ pc[q] = "begin" /\ tx[q] = "none" /\ tx' = [tx EXCEPT ![q] = "open"]
      /\ pc' = [pc EXCEPT ![q] = "lock"]
      /\ call' = call /\ err' = err /\ reply' = reply /\ lock' = lock /\ work' = work
      /\ balances' = balances /\ transactions' = transactions /\ purchases' = purchases
  BY About DEF BeginTx, Goto, tables, SessionInv
<1>2. Alone(q) /\ \A u \in Users : LockInv(u)'
  BY <1>1 DEF TxInv, TypeOK, Alone, LockInv, Recorded
<1>3. /\ pc'[q] = "lock" /\ tx'[q] = "open"
      /\ Recorded(q)' <=> Recorded(q)
      /\ Written(q)' = Written(q)
  BY <1>1 DEF TxInv, TypeOK, Recorded, Written
<1>4. LookupInv(q)' /\ WorkInv(q)'
  BY <1>1, <1>3, About DEF LookupInv, WorkInv, Delta, Cost
<1>5. SessionInv(q)' /\ StageInv(q)' /\ AnswerInv(q)'
  BY <1>1, <1>3, About DEF SessionInv, StageInv, AnswerInv
<1>6. QED BY <1>2, <1>4, <1>5, Assemble DEF ReqInv

(***************************************************************************)
(* txFn fails: the handler goes to its Rollback, and the server has either *)
(* ended the transaction, or has yet to notice, or knows nothing of it.    *)
(***************************************************************************)
LEMMA RaiseStep ==
  ASSUME TxInv, TypeOK', NEW q \in Reqs, pc[q] \in {"lock", "debit", "credit", "insert"},
         call' = call, reply' = reply, UNCHANGED tables,
         NEW code \in Codes \ {"OK"}, Raise(q, code), Alone(q), \A u \in Users : LockInv(u)',
         \/ tx'[q] = "none" /\ work'[q] = NoWork
         \/ tx'[q] \in {"open", "orphan"} /\ work'[q] = work[q]
                                          /\ \A u \in Users : lock[u] = q => lock'[u] = q
  PROVE  TxInv'
<1>1. /\ pc'[q] = "rollback" /\ err'[q] = code /\ reply'[q] = reply[q]
      /\ tx'[q] # "committing" /\ (Recorded(q)' <=> Recorded(q))
  BY DEF TxInv, TypeOK, Raise, Goto, tables, Recorded
<1>2. LookupInv(q)'
  BY <1>1, About DEF LookupInv, tables
<1>3. SessionInv(q)' /\ AnswerInv(q)'
  BY <1>1, About DEF SessionInv, AnswerInv
<1>4. WorkInv(q)'
  <2>1. balances' = balances
    BY DEF tables
  <2>2. QED BY <2>1, About DEF WorkInv, NoWork, Delta, Cost
<1>5. StageInv(q)'
  BY <1>1 DEF StageInv, Written, NoWork
<1>6. QED BY <1>2, <1>3, <1>4, <1>5, Assemble DEF ReqInv

LEMMA LockAndGetStep ==
  ASSUME TxInv, TypeOK', NEW q \in Reqs, LockAndGetUserBalance(q)
  PROVE  TxInv'
<1> DEFINE u == call[q].user
<1>1. /\ pc[q] = "lock" /\ tx[q] = "open" /\ u \in Users /\ balances[u] # NoRow
      /\ Lockable(q, u) /\ lock' = [lock EXCEPT ![u] = q]
      /\ call' = call /\ reply' = reply /\ tx' = tx /\ work' = work /\ UNCHANGED tables
  BY About DEF LockAndGetUserBalance, SessionInv, LookupInv
<1>2. OnlyMoves(q)
  BY <1>1 DEF TxInv, TypeOK, LockAndGetUserBalance, OnlyMoves, Goto, Raise
<1>3. Alone(q) /\ \A v \in Users : LockInv(v)'
  BY <1>1, <1>2, LockStep
<1>4. /\ tx'[q] = "open" /\ work'[q] = work[q] /\ lock'[u] = q
      /\ \A v \in Users : lock[v] = q => lock'[v] = q
  BY <1>1 DEF TxInv, TypeOK
<1>5. CASE Verdict(q) = "OK"
  <2>1. pc' = [pc EXCEPT ![q] = "debit"] /\ err' = err /\ balances' = balances
    BY <1>1, <1>5 DEF LockAndGetUserBalance, Goto, tables
  <2>2. pc'[q] = "debit" /\ Written(q)' = {} /\ (Recorded(q)' <=> Recorded(q))
    BY <1>1, <2>1, About DEF TxInv, TypeOK, StageInv, Written, tables, Recorded
  <2>3. balances[u] >= Cost(call[q])
    <3>1. balances[u] \in Int /\ Cost(call[q]) \in Int /\ ~(balances[u] < Cost(call[q]))
      BY <1>1, <1>5, Resolved DEF TxInv, TypeOK, Balance, Verdict
    <3>2. QED BY <3>1
  <2>4. WorkInv(q)'
    BY <2>2 DEF WorkInv, Written
  <2>5. SessionInv(q)' /\ AnswerInv(q)' /\ LookupInv(q)'
    BY <1>1, <1>4, <2>1, <2>2, About DEF SessionInv, AnswerInv, LookupInv
  <2>6. StageInv(q)'
    BY <1>1, <1>4, <2>1, <2>2, <2>3 DEF StageInv, Cost
  <2>7. QED BY <1>3, <2>4, <2>5, <2>6, Assemble DEF ReqInv
<1>6. CASE Verdict(q) # "OK"
  <2>1. Raise(q, Verdict(q)) /\ Verdict(q) \in Codes \ {"OK"}
    BY <1>6 DEF LockAndGetUserBalance, Verdict, Codes, Refusals
  <2>2. QED BY <1>1, <1>3, <1>4, <2>1, RaiseStep
<1>7. QED BY <1>5, <1>6

(***************************************************************************)
(* An UPDATE that the column accepts adds one version, of the right value. *)
(***************************************************************************)
LEMMA WriteStep ==
  ASSUME TxInv, TypeOK', NEW q \in Reqs, tx[q] = "open",
         call' = call, reply' = reply, UNCHANGED tables,
         NEW u \in Users, balances[u] # NoRow, Lockable(q, u),
         NEW n, NEW label, Write(q, u, n, label), Fits(n), n = balances[u] + Delta(q, u)
  PROVE  /\ Alone(q) /\ \A v \in Users : LockInv(v)'
         /\ WorkInv(q)' /\ Written(q)' = Written(q) \cup {u}
         /\ pc'[q] = label /\ tx' = tx /\ err' = err /\ (Recorded(q)' <=> Recorded(q))
<1>1. /\ lock' = [lock EXCEPT ![u] = q]
      /\ work' = [work EXCEPT ![q] = [work[q] EXCEPT ![u] = n]]
      /\ pc' = [pc EXCEPT ![q] = label] /\ tx' = tx /\ err' = err
      /\ balances' = balances /\ transactions' = transactions /\ purchases' = purchases
      /\ n \in Int
  BY DEF Write, Goto, Fits, tables
<1>2. /\ work'[q] = [work[q] EXCEPT ![u] = n] /\ \A s \in Reqs \ {q} : work'[s] = work[s]
      /\ work'[q][u] = n /\ \A v \in Users \ {u} : work'[q][v] = work[q][v]
      /\ lock'[u] = q /\ \A v \in Users \ {u} : lock'[v] = lock[v]
  BY <1>1 DEF TxInv, TypeOK
<1>3. OnlyMoves(q)
  BY <1>1 DEF TxInv, TypeOK, OnlyMoves
<1>4. Alone(q) /\ \A v \in Users : LockInv(v)'
  BY <1>1, <1>2, <1>3, LockStep
<1>5. n # NoRow
  BY <1>1, DataAssumption
<1>6. Written(q)' = Written(q) \cup {u}
  BY <1>2, <1>5 DEF Written
<1>7. \A v : Delta(q, v)' = Delta(q, v)
  BY <1>1 DEF Delta, Cost
<1>8. WorkInv(q)'
  BY <1>1, <1>2, <1>7, About DEF WorkInv
<1>9. QED
  BY <1>1, <1>4, <1>6, <1>8 DEF TxInv, TypeOK, Recorded

\* An UPDATE that the column refuses ends the transaction.
LEMMA WriteFailsStep ==
  ASSUME TxInv, TypeOK', NEW q \in Reqs, pc[q] \in {"debit", "credit"},
         call' = call, reply' = reply, UNCHANGED tables,
         NEW u, NEW n, NEW label, Write(q, u, n, label), ~Fits(n)
  PROVE  TxInv'
<1>1. EndTx(q) /\ Raise(q, "Internal")
  BY DEF Write
<1>2. OnlyMoves(q)
  BY <1>1 DEF TxInv, TypeOK, OnlyMoves, Raise, Goto
<1>3. Alone(q) /\ (\A v \in Users : LockInv(v)') /\ tx'[q] = "none" /\ work'[q] = NoWork
  BY <1>1, <1>2, EndStep
<1>4. QED BY <1>1, <1>3, RaiseStep DEF Codes, Unknowns

LEMMA DebitStep ==
  ASSUME TxInv, TypeOK', NEW q \in Reqs, Debit(q)
  PROVE  TxInv'
<1> DEFINE u == call[q].user
           n == Visible(q, u) - Cost(call[q])
           label == IF IsSend(call[q]) THEN "credit" ELSE "insert"
<1>1. /\ pc[q] = "debit" /\ tx[q] = "open" /\ u \in Users /\ balances[u] # NoRow
      /\ Lockable(q, u) /\ call' = call /\ reply' = reply /\ UNCHANGED tables
      /\ Written(q) = {} /\ balances[u] >= Cost(call[q])
  BY About DEF Debit, SessionInv, LookupInv, StageInv
<1>2. Cost(call[q]) \in Nat /\ balances[u] \in Balance
  BY <1>1, Resolved DEF TxInv, TypeOK
<1>3. n = balances[u] - Cost(call[q])
  BY <1>1 DEF Visible, Written
<1>4. n \in 0 .. MaxInt
  BY <1>1, <1>2, <1>3, DataAssumption DEF Balance
<1>5. Write(q, u, n, label)
  BY <1>4, DataAssumption DEF Debit
<1>6. n = balances[u] + Delta(q, u)
  <2>1. Delta(q, u) = 0 - Cost(call[q])
    BY <1>1, Resolved DEF Delta
  <2>2. QED BY <1>2, <1>3, <2>1 DEF Balance
<1>7. /\ Alone(q) /\ \A v \in Users : LockInv(v)'
      /\ WorkInv(q)' /\ Written(q)' = {u}
      /\ pc'[q] = label /\ tx' = tx /\ err' = err /\ (Recorded(q)' <=> Recorded(q))
  <2>1. PICK m, l : m = n /\ l = label
    OBVIOUS
  <2>2. /\ Write(q, u, m, l) /\ Fits(m) /\ m = balances[u] + Delta(q, u)
        /\ tx[q] = "open" /\ u \in Users /\ balances[u] # NoRow /\ Lockable(q, u)
        /\ call' = call /\ reply' = reply /\ UNCHANGED tables
    BY <1>1, <1>4, <1>5, <1>6, <2>1 DEF Fits
  <2>3. /\ Alone(q) /\ \A v \in Users : LockInv(v)'
        /\ WorkInv(q)' /\ Written(q)' = Written(q) \cup {u}
        /\ pc'[q] = l /\ tx' = tx /\ err' = err /\ (Recorded(q)' <=> Recorded(q))
    BY <2>2, WriteStep
  <2>4. QED BY <1>1, <2>1, <2>3
<1>8. SessionInv(q)' /\ AnswerInv(q)' /\ LookupInv(q)'
  BY <1>1, <1>7, About DEF SessionInv, AnswerInv, LookupInv, tables
<1>9. StageInv(q)'
  BY <1>1, <1>7 DEF StageInv, Referenced
<1>10. QED BY <1>7, <1>8, <1>9, Assemble DEF ReqInv

LEMMA CreditStep ==
  ASSUME TxInv, TypeOK', NEW q \in Reqs, Credit(q)
  PROVE  TxInv'
<1> DEFINE u == call[q].to
           n == Visible(q, u) + call[q].amount
<1>1. /\ pc[q] = "credit" /\ tx[q] = "open" /\ IsSend(call[q])
      /\ u \in Users \ {call[q].user} /\ balances[u] # NoRow
      /\ Lockable(q, u) /\ call' = call /\ reply' = reply /\ UNCHANGED tables
      /\ Written(q) = {call[q].user}
  BY About, Resolved DEF Credit, SessionInv, LookupInv, StageInv
<1>2. Write(q, u, n, "insert")
  BY <1>1 DEF Credit
<1>3. n = balances[u] + Delta(q, u)
  <2>1. n = balances[u] + call[q].amount
    BY <1>1 DEF Visible, Written
  <2>2. balances[u] \in Int /\ call[q].amount \in Int
    BY <1>1, Resolved DEF TxInv, TypeOK, Balance
  <2>3. Delta(q, u) = call[q].amount
    BY <1>1, <2>2 DEF Delta
  <2>4. QED BY <2>1, <2>3
<1>4. CASE Fits(n)
  <2>1. /\ Alone(q) /\ \A v \in Users : LockInv(v)'
        /\ WorkInv(q)' /\ Written(q)' = {call[q].user} \cup {u}
        /\ pc'[q] = "insert" /\ tx' = tx /\ err' = err /\ (Recorded(q)' <=> Recorded(q))
    <3>1. /\ Alone(q) /\ \A v \in Users : LockInv(v)'
          /\ WorkInv(q)' /\ Written(q)' = Written(q) \cup {u}
          /\ pc'[q] = "insert" /\ tx' = tx /\ err' = err /\ (Recorded(q)' <=> Recorded(q))
      BY <1>1, <1>2, <1>3, <1>4, WriteStep
    <3>2. QED BY <1>1, <3>1
  <2>2. SessionInv(q)' /\ AnswerInv(q)' /\ LookupInv(q)'
    BY <1>1, <2>1, About DEF SessionInv, AnswerInv, LookupInv, tables
  <2>3. StageInv(q)'
    BY <1>1, <2>1 DEF StageInv, Referenced
  <2>4. QED BY <2>1, <2>2, <2>3, Assemble DEF ReqInv
<1>5. CASE ~Fits(n)
  BY <1>1, <1>2, <1>5, WriteFailsStep
<1>6. QED BY <1>4, <1>5

LEMMA InsertStep ==
  ASSUME TxInv, TypeOK', NEW q \in Reqs, InsertRecord(q)
  PROVE  TxInv'
<1>1. /\ pc[q] = "insert" /\ tx[q] = "open" /\ Written(q) = Referenced(call[q])
      /\ call' = call /\ reply' = reply /\ UNCHANGED tables
  BY About DEF InsertRecord, SessionInv, StageInv
<1>2. \A u \in Referenced(call[q]) : balances[u] # NoRow
  BY <1>1, About DEF WorkInv, Written
<1>3. pc' = [pc EXCEPT ![q] = "commit"] /\ err' = err /\ UNCHANGED session
  BY <1>2 DEF InsertRecord, Goto
<1>4. OnlyMoves(q)
  BY <1>1, <1>3 DEF TxInv, TypeOK, OnlyMoves
<1>5. Alone(q) /\ \A u \in Users : LockInv(u)'
  BY <1>1, <1>3, <1>4, QuietStep
<1>6. /\ pc'[q] = "commit" /\ balances' = balances /\ tx' = tx /\ lock' = lock /\ work' = work
      /\ (Recorded(q)' <=> Recorded(q)) /\ Written(q)' = Written(q)
  BY <1>1, <1>3 DEF TxInv, TypeOK, tables, session, Recorded, Written
<1>7. SessionInv(q)' /\ AnswerInv(q)' /\ LookupInv(q)'
  BY <1>1, <1>3, <1>6, About DEF SessionInv, AnswerInv, LookupInv
<1>8. WorkInv(q)' /\ StageInv(q)'
  BY <1>1, <1>6, About DEF WorkInv, StageInv, Delta, Cost, Referenced
<1>9. QED BY <1>5, <1>7, <1>8, Assemble DEF ReqInv

LEMMA CommitStep ==
  ASSUME TxInv, TypeOK', NEW q \in Reqs, Commit(q)
  PROVE  TxInv'
<1>1. /\ pc[q] = "commit" /\ Publish(q) /\ EndTx(q) /\ reply[q] \in {"none", "DeadlineExceeded"}
      /\ call' = call /\ err' = err
      /\ pc' = [pc EXCEPT ![q] = "done"]
      /\ reply' = [reply EXCEPT ![q] = IF @ = "none" THEN "OK" ELSE @]
  BY About DEF Commit, Return, Goto, AnswerInv
<1>2. OnlyMoves(q)
  BY <1>1 DEF TxInv, TypeOK, OnlyMoves
<1>3. /\ Alone(q) /\ \A u \in Users : LockInv(u)'
      /\ tx'[q] = "none" /\ work'[q] = NoWork /\ Recorded(q)'
  BY <1>1, <1>2, PublishStep
<1>4. pc'[q] = "done" /\ reply'[q] \in {"OK", "DeadlineExceeded"}
  BY <1>1 DEF TxInv, TypeOK
<1>5. ReqInv(q)'
  BY <1>3, <1>4 DEF ReqInv, SessionInv, LookupInv, WorkInv, StageInv, AnswerInv, NoWork, Written,
                    Unknowns
<1>6. QED BY <1>3, <1>5, Assemble

LEMMA CommitFailsStep ==
  ASSUME TxInv, TypeOK', NEW q \in Reqs, CommitFails(q)
  PROVE  TxInv'
<1>1. /\ pc[q] = "commit" /\ tx[q] = "open" /\ Written(q) = Referenced(call[q])
      /\ reply[q] \in {"none", "DeadlineExceeded"} /\ ~Recorded(q)
      /\ call' = call /\ err' = err /\ lock' = lock /\ work' = work
      /\ balances' = balances /\ transactions' = transactions /\ purchases' = purchases
      /\ tx' = [tx EXCEPT ![q] = "committing"]
      /\ pc' = [pc EXCEPT ![q] = "done"]
      /\ reply' = [reply EXCEPT ![q] = IF @ = "none" THEN "Internal" ELSE @]
  BY About DEF CommitFails, Return, Goto, AnswerInv, SessionInv, StageInv, tables
<1>2. Alone(q) /\ \A u \in Users : LockInv(u)'
  BY <1>1 DEF TxInv, TypeOK, Alone, LockInv, Recorded
<1>3. /\ pc'[q] = "done" /\ reply'[q] \in Unknowns /\ tx'[q] = "committing"
      /\ ~Recorded(q)' /\ Written(q)' = Written(q)
  BY <1>1 DEF TxInv, TypeOK, Recorded, Written, Unknowns
<1>4. SessionInv(q)' /\ AnswerInv(q)' /\ LookupInv(q)'
  BY <1>1, <1>3, About DEF SessionInv, AnswerInv, LookupInv, Unknowns
<1>5. WorkInv(q)' /\ StageInv(q)'
  BY <1>1, <1>3, About DEF WorkInv, StageInv, Delta, Cost, Referenced
<1>6. QED BY <1>2, <1>4, <1>5, Assemble DEF ReqInv

LEMMA StatementFailsStep ==
  ASSUME TxInv, TypeOK', NEW q \in Reqs, StatementFails(q)
  PROVE  TxInv'
<1>1. /\ pc[q] \in {"lock", "debit", "credit", "insert"} /\ Raise(q, "Internal")
      /\ call' = call /\ reply' = reply /\ UNCHANGED tables
      /\ tx' = [tx EXCEPT ![q] = "orphan"] /\ lock' = lock /\ work' = work
      /\ tx[q] = "open"
  BY About DEF StatementFails, SessionInv
<1>2. Alone(q) /\ \A u \in Users : LockInv(u)'
  BY <1>1 DEF TxInv, TypeOK, Raise, Goto, Alone, LockInv, tables, Recorded
<1>3. tx'[q] = "orphan"
  BY <1>1 DEF TxInv, TypeOK
<1>4. QED BY <1>1, <1>2, <1>3, RaiseStep DEF Codes, Unknowns

LEMMA RollbackStep ==
  ASSUME TxInv, TypeOK', NEW q \in Reqs, Rollback(q)
  PROVE  TxInv'
<1>1. /\ pc[q] = "rollback" /\ reply[q] \in {"none", "DeadlineExceeded"}
      /\ tx[q] # "committing" /\ ~Recorded(q) /\ err[q] \in Codes \ {"OK"}
      /\ call' = call /\ err' = err /\ UNCHANGED tables
      /\ pc' = [pc EXCEPT ![q] = "done"]
      /\ reply' = [reply EXCEPT ![q] = IF @ = "none" THEN err[q] ELSE @]
  BY About DEF Rollback, Return, Goto, AnswerInv, SessionInv
<1>2. OnlyMoves(q)
  BY <1>1 DEF TxInv, TypeOK, OnlyMoves
<1>3. /\ pc'[q] = "done" /\ reply'[q] \in Codes \ {"OK"} /\ ~Recorded(q)'
  BY <1>1 DEF TxInv, TypeOK, Recorded, tables, Codes, Unknowns
<1>4. CASE EndTx(q)
  <2>1. /\ Alone(q) /\ \A u \in Users : LockInv(u)'
        /\ tx'[q] = "none" /\ work'[q] = NoWork
    BY <1>1, <1>2, <1>4, EndStep
  <2>2. ReqInv(q)'
    BY <1>3, <2>1 DEF ReqInv, SessionInv, LookupInv, WorkInv, StageInv, AnswerInv, NoWork, Written
  <2>3. QED BY <2>1, <2>2, Assemble
<1>5. CASE tx[q] # "none" /\ tx' = [tx EXCEPT ![q] = "orphan"] /\ UNCHANGED <<lock, work>>
  <2>1. Alone(q) /\ \A u \in Users : LockInv(u)'
    BY <1>1, <1>2, <1>5 DEF TxInv, TypeOK, OnlyMoves, Alone, LockInv, tables, Recorded
  <2>2. tx'[q] = "orphan" /\ balances' = balances /\ work' = work /\ lock' = lock
    BY <1>1, <1>5 DEF TxInv, TypeOK, tables
  <2>3. SessionInv(q)' /\ LookupInv(q)' /\ StageInv(q)' /\ AnswerInv(q)'
    BY <1>3, <2>2 DEF SessionInv, LookupInv, StageInv, AnswerInv
  <2>4. WorkInv(q)'
    BY <1>1, <2>2, About DEF WorkInv, Delta, Cost
  <2>5. QED BY <2>1, <2>3, <2>4, Assemble DEF ReqInv
<1>6. tx[q] = "orphan" /\ UNCHANGED session => tx' = [tx EXCEPT ![q] = "orphan"]
  BY DEF TxInv, TypeOK, session
<1>7. QED BY <1>4, <1>5, <1>6 DEF Rollback, session

-----------------------------------------------------------------------------
(***************************************************************************)
(* The server and the caller.                                              *)
(***************************************************************************)
LEMMA DeadlockStep ==
  ASSUME TxInv, TypeOK', NEW q \in Reqs, DeadlockDetected(q)
  PROVE  TxInv'
<1>1. /\ pc[q] \in {"lock", "debit", "credit"} /\ EndTx(q) /\ Raise(q, "Internal")
      /\ call' = call /\ reply' = reply /\ UNCHANGED tables
  BY DEF DeadlockDetected, Deadlocked, WaitsFor
<1>2. OnlyMoves(q)
  BY <1>1 DEF TxInv, TypeOK, OnlyMoves, Raise, Goto
<1>3. Alone(q) /\ (\A v \in Users : LockInv(v)') /\ tx'[q] = "none" /\ work'[q] = NoWork
  BY <1>1, <1>2, EndStep
<1>4. QED BY <1>1, <1>3, RaiseStep DEF Codes, Unknowns

LEMMA ServerAbortsStep ==
  ASSUME TxInv, TypeOK', NEW q \in Reqs, ServerAborts(q)
  PROVE  TxInv'
<1>1. /\ tx[q] \in {"orphan", "committing"} /\ EndTx(q) /\ UNCHANGED tables
      /\ call' = call /\ pc' = pc /\ err' = err /\ reply' = reply
  BY DEF ServerAborts
<1>2. /\ Alone(q) /\ \A u \in Users : LockInv(u)'
      /\ tx'[q] = "none" /\ work'[q] = NoWork
  BY <1>1, EndStep DEF OnlyMoves
<1>3. /\ pc[q] \in {"rollback", "done"} /\ ~Recorded(q) /\ (Recorded(q)' <=> Recorded(q))
      /\ balances' = balances
  BY <1>1, About DEF TxInv, TypeOK, SessionInv, AnswerInv, tables, Recorded
<1>4. SessionInv(q)' /\ LookupInv(q)' /\ AnswerInv(q)'
  BY <1>1, <1>2, <1>3, About DEF SessionInv, LookupInv, AnswerInv
<1>5. WorkInv(q)' /\ StageInv(q)'
  BY <1>1, <1>2, <1>3 DEF WorkInv, StageInv, NoWork, Written
<1>6. QED BY <1>2, <1>4, <1>5, Assemble DEF ReqInv

LEMMA ServerCommitsStep ==
  ASSUME TxInv, TypeOK', NEW q \in Reqs, ServerCommits(q)
  PROVE  TxInv'
<1>1. /\ tx[q] = "committing" /\ EndTx(q) /\ Publish(q)
      /\ call' = call /\ pc' = pc /\ err' = err /\ reply' = reply
  BY DEF ServerCommits
<1>2. /\ Alone(q) /\ \A u \in Users : LockInv(u)'
      /\ tx'[q] = "none" /\ work'[q] = NoWork /\ Recorded(q)'
  BY <1>1, PublishStep DEF OnlyMoves
<1>3. pc'[q] = "done" /\ reply'[q] \in Unknowns
  BY <1>1, About DEF TxInv, TypeOK, SessionInv, AnswerInv
<1>4. ReqInv(q)'
  BY <1>2, <1>3 DEF ReqInv, SessionInv, LookupInv, WorkInv, StageInv, AnswerInv, NoWork, Written,
                    Unknowns
<1>5. QED BY <1>2, <1>4, Assemble

LEMMA CallerStep ==
  ASSUME TxInv, TypeOK', NEW q \in Reqs, CallerGivesUp(q)
  PROVE  TxInv'
<1>1. /\ reply[q] = "none" /\ reply' = [reply EXCEPT ![q] = "DeadlineExceeded"]
      /\ call' = call /\ pc' = pc /\ err' = err /\ UNCHANGED <<tables, session>>
  BY DEF CallerGivesUp
<1>2. OnlyMoves(q)
  BY <1>1 DEF TxInv, TypeOK, OnlyMoves
<1>3. Alone(q) /\ \A u \in Users : LockInv(u)'
  BY <1>1, <1>2, QuietStep
<1>4. /\ reply'[q] = "DeadlineExceeded" /\ (Recorded(q)' <=> Recorded(q))
      /\ balances' = balances /\ tx' = tx /\ lock' = lock /\ work' = work
  BY <1>1 DEF TxInv, TypeOK, tables, session, Recorded
<1>5. SessionInv(q)' /\ LookupInv(q)' /\ AnswerInv(q)'
  BY <1>1, <1>4, About DEF SessionInv, LookupInv, AnswerInv, Unknowns
<1>6. WorkInv(q)' /\ StageInv(q)'
  BY <1>1, <1>4, About DEF WorkInv, StageInv, Written, Delta, Cost, Referenced
<1>7. QED BY <1>3, <1>5, <1>6, Assemble DEF ReqInv

LEMMA InvStep ==
  ASSUME TxInv, [Next]_vars
  PROVE  TxInv'
<1>1. TypeOK'
  BY TypeStep DEF TxInv
<1>2. ASSUME NEW q \in Reqs, Handler(q)
      PROVE  TxInv'
  BY <1>1, <1>2, EarlyStep, BeginStep, LockAndGetStep, DebitStep, CreditStep, InsertStep,
     CommitStep, CommitFailsStep, RollbackStep DEF Handler
<1>3. ASSUME NEW q \in Reqs, StatementFails(q)
      PROVE  TxInv'
  BY <1>1, <1>3, StatementFailsStep
<1>4. ASSUME NEW q \in Reqs, Server(q)
      PROVE  TxInv'
  BY <1>1, <1>4, DeadlockStep, ServerAbortsStep, ServerCommitsStep DEF Server
<1>5. ASSUME NEW q \in Reqs, Caller(q)
      PROVE  TxInv'
  BY <1>1, <1>5, EarlyStep, CallerStep DEF Caller
<1>6. CASE UNCHANGED vars
  <2>1. /\ call' = call /\ pc' = pc /\ err' = err /\ reply' = reply /\ balances' = balances
        /\ transactions' = transactions /\ purchases' = purchases
        /\ tx' = tx /\ lock' = lock /\ work' = work
    BY <1>6 DEF vars, tables, session
  <2>2. \A u \in Users : LockInv(u)'
    BY <2>1 DEF TxInv, LockInv
  <2>3. ASSUME NEW q \in Reqs
        PROVE  ReqInv(q)'
    BY <2>1, About DEF ReqInv, SessionInv, LookupInv, WorkInv, StageInv, AnswerInv, Written,
                       Delta, Cost, Referenced, Recorded
  <2>4. QED BY <1>1, <2>2, <2>3 DEF TxInv, ReqInv
<1>7. QED BY <1>2, <1>3, <1>4, <1>5, <1>6 DEF Next

(***************************************************************************)
(* The invariant of the transactions holds for any number of calls, users  *)
(* and goods, whatever is sent and bought.                                 *)
(***************************************************************************)
THEOREM TxInvariant == Spec => []TxInv
BY InitInv, InvStep, PTL DEF Spec

(***************************************************************************)
(* The balance that was checked in Go still covers the debit when its      *)
(* UPDATE runs (purchase_case.go:40, send_coins_case.go:54).               *)
(***************************************************************************)
THEOREM DebitsAreCovered == Spec => []DebitIsCovered
<1>1. ASSUME TxInv, NEW r \in Reqs, pc[r] = "debit"
      PROVE  Visible(r, call[r].user) >= Cost(call[r])
  BY <1>1, About DEF StageInv, Visible, Written
<1>2. TxInv => DebitIsCovered
  BY <1>1 DEF DebitIsCovered
<1>3. QED BY <1>2, TxInvariant, PTL

(***************************************************************************)
(* No transaction overwrites the committed result of another.              *)
(***************************************************************************)
THEOREM NoUpdateIsLost == Spec => []NoLostUpdate
<1>1. TxInv => NoLostUpdate
  BY DEF TxInv, WorkInv, NoLostUpdate
<1>2. QED BY <1>1, TxInvariant, PTL

(***************************************************************************)
(* OK means recorded; a refusal means never.                               *)
(***************************************************************************)
THEOREM AnswersAreTrue == Spec => []AnswersAreHonest
<1>1. TxInv => AnswersAreHonest
  BY DEF TxInv, AnswerInv, AnswersAreHonest, Refusals, Unknowns
<1>2. QED BY <1>1, TxInvariant, PTL
=============================================================================

---------------------------- MODULE UserInfoProofs ----------------------------
(***************************************************************************)
(* Proofs about UserInfo, for any number of looks, money operations and    *)
(* connections.  What the goroutine of the transfers has read lies between *)
(* the history when the call came in and the history now, at each of its   *)
(* steps, and its result sets are open at two of them only.                *)
(***************************************************************************)
EXTENDS UserInfoProperties, FiniteSetTheorems, TLAPS

TransferRows == [id : Reqs, from_user_id : Users, to_user_id : Users, amount : Nat]

\* The committed rows, as far as the looks depend on them.
TablesInv ==
    /\ call \in [Reqs -> Calls]
    /\ balances \in [Users -> 0 .. MaxInt \cup {NoRow}]
    /\ transactions \subseteq TransferRows
    /\ IsFiniteSet(purchases)

\* Each connection is counted once.
PoolInv ==
    /\ txs \subseteq Reqs /\ IsFiniteSet(txs)
    /\ rows \subseteq Infos \X {"outgoing", "incoming"} /\ IsFiniteSet(rows)
    /\ Cardinality(rows) + Cardinality(txs) <= PoolSize

Steps(t) ==
    CASE t = "main" -> {"username", "balance", "done", "failed"}
      [] t = "purchases" -> {"query", "done", "failed"}
      [] t = "transfers" -> {"outgoing", "incoming", "process", "names", "done", "failed"}

Got == [balance : 0 .. MaxInt \cup {NoRow}, inventory : [Goods -> Nat],
        sent : SUBSET Transfers, received : SUBSET Transfers]

TypeInv(i) ==
    /\ pc[i] \in {"ensure", "gather", "done"}
    /\ task[i] \in [Tasks -> UNION {Steps(t) : t \in Tasks}]
    /\ \A t \in Tasks : task[i][t] \in Steps(t)
    /\ got[i] \in Got
    /\ since[i] \in [transactions : SUBSET transactions, purchases : SUBSET purchases]
    /\ answer[i] \in {"none", "OK", "Internal", "DeadlineExceeded"}

Shapes ==
    /\ pc = [i \in Infos |-> pc[i]]
    /\ task = [i \in Infos |-> task[i]]
    /\ got = [i \in Infos |-> got[i]]
    /\ since = [i \in Infos |-> since[i]]
    /\ answer = [i \in Infos |-> answer[i]]

\* A result set is open from its query to the processing of both.
OpenInv(i) ==
    (\E query \in {"outgoing", "incoming"} : <<i, query>> \in rows) =>
        task[i]["transfers"] \in {"incoming", "process"} /\ pc[i] = "gather"

\* The transfers of a history as DirectTransfers, by id and by name.
OutgoingBy(history, u) ==
    {DirectTransfer(row, row.to_user_id) : row \in {h \in history : h.from_user_id = u}}
IncomingBy(history, u) ==
    {DirectTransfer(row, row.from_user_id) : row \in {h \in history : h.to_user_id = u}}
OutgoingNamed(history, u) ==
    {DirectTransfer(row, Username[row.to_user_id]) : row \in {h \in history : h.from_user_id = u}}
IncomingNamed(history, u) ==
    {DirectTransfer(row, Username[row.from_user_id]) : row \in {h \in history : h.to_user_id = u}}

\* What has been read was read after the call came in.
ReadInv(i) ==
    LET now == task[i]["transfers"]
        was == since[i].transactions
        me == Caller[i]
    IN
    /\ now \in {"incoming", "process", "names"} =>
         /\ OutgoingBy(was, me) \subseteq got[i].sent
         /\ got[i].sent \subseteq OutgoingBy(transactions, me)
    /\ now \in {"process", "names"} =>
         /\ IncomingBy(was, me) \subseteq got[i].received
         /\ got[i].received \subseteq IncomingBy(transactions, me)
    /\ now = "done" =>
         /\ OutgoingNamed(was, me) \subseteq got[i].sent
         /\ got[i].sent \subseteq OutgoingNamed(transactions, me)
         /\ IncomingNamed(was, me) \subseteq got[i].received
         /\ got[i].received \subseteq IncomingNamed(transactions, me)

\* No good is counted more often than it was bought.
CountInv(i) == \A g \in Goods : got[i].inventory[g] <= Inventory(purchases, Caller[i])[g]

\* An answer is the last thing that a handler does, after its goroutines.
AnswerInv(i) ==
    /\ pc[i] = "ensure" => task[i] = FirstStep
    /\ answer[i] = "OK" => pc[i] = "done" /\ \A t \in Tasks : task[i][t] = "done"

LookInv(i) == TypeInv(i) /\ OpenInv(i) /\ ReadInv(i) /\ CountInv(i) /\ AnswerInv(i)

InfoInv == TablesInv /\ PoolInv /\ Shapes /\ \A i \in Infos : LookInv(i)
-----------------------------------------------------------------------------
(***************************************************************************)
(* The tables.                                                             *)
(***************************************************************************)
LEMMA OpenAccountTables ==
  ASSUME TablesInv, NEW u \in Users, Ledger!OpenAccount(u)
  PROVE  TablesInv' /\ UNCHANGED <<transactions, purchases>>
BY DataAssumption DEF TablesInv, Ledger!OpenAccount

\* What a call may ask for.
LEMMA CallTypes ==
  ASSUME TablesInv, NEW r \in Reqs
  PROVE  /\ call[r] \in Calls /\ call[r].user \in Users
         /\ Ledger!IsSend(call[r]) => call[r].amount \in Nat
BY CallsAssumption DEF TablesInv, IsSend, Ledger!IsSend

LEMMA TransferTables ==
  ASSUME TablesInv, NEW r \in Reqs, Ledger!Transfer(r)
  PROVE  TablesInv' /\ transactions \subseteq transactions' /\ UNCHANGED purchases
<1> DEFINE c == call[r]
           row == [id |-> r, from_user_id |-> c.user, to_user_id |-> c.to, amount |-> c.amount]
<1>1. c.user \in Users /\ c.to \in Users \ {c.user} /\ c.amount \in Nat
  BY CallTypes DEF Ledger!Transfer
<1>2. /\ balances[c.user] \in 0 .. MaxInt /\ balances[c.user] >= c.amount
      /\ balances[c.to] \in 0 .. MaxInt /\ balances[c.to] + c.amount <= MaxInt
  BY <1>1 DEF Ledger!Transfer, TablesInv
<1>3. balances' \in [Users -> 0 .. MaxInt \cup {NoRow}]
  <2>1. balances[c.user] - c.amount \in 0 .. MaxInt
    BY <1>1, <1>2, DataAssumption
  <2>2. balances[c.to] + c.amount \in 0 .. MaxInt
    BY <1>1, <1>2, DataAssumption
  <2>3. balances' = [balances EXCEPT ![c.user] = @ - c.amount, ![c.to] = @ + c.amount]
    BY DEF Ledger!Transfer
  <2>4. balances \in [Users -> 0 .. MaxInt \cup {NoRow}]
    BY DEF TablesInv
  <2>5. QED BY <1>1, <2>1, <2>2, <2>3, <2>4
<1>4. transactions' = transactions \cup {row} /\ UNCHANGED <<call, purchases>>
  BY DEF Ledger!Transfer
<1>5. row \in TransferRows
  BY <1>1 DEF TransferRows
<1>6. QED BY <1>3, <1>4, <1>5 DEF TablesInv

LEMMA PurchaseTables ==
  ASSUME TablesInv, NEW r \in Reqs, Ledger!Purchase(r)
  PROVE  TablesInv' /\ purchases \subseteq purchases' /\ UNCHANGED transactions
<1> DEFINE c == call[r]
           row == [id |-> r, user_id |-> c.user, good_id |-> c.good]
<1>1. c.user \in Users /\ Price[c.good] \in Nat
  BY CallTypes, DataAssumption DEF Ledger!Purchase
<1>2. balances[c.user] \in 0 .. MaxInt /\ balances[c.user] >= Price[c.good]
  BY <1>1 DEF Ledger!Purchase, TablesInv
<1>3. balances' \in [Users -> 0 .. MaxInt \cup {NoRow}]
  <2>1. balances[c.user] - Price[c.good] \in 0 .. MaxInt
    BY <1>1, <1>2, DataAssumption
  <2>2. QED BY <2>1 DEF Ledger!Purchase, TablesInv
<1>4. purchases' = purchases \cup {row} /\ UNCHANGED <<call, transactions>>
  BY DEF Ledger!Purchase
<1>5. IsFiniteSet(purchases')
  BY <1>4, FS_AddElement DEF TablesInv
<1>6. QED BY <1>3, <1>4, <1>5 DEF TablesInv

LEMMA TablesStep ==
  ASSUME InfoInv, [Next]_vars
  PROVE  TablesInv' /\ transactions \subseteq transactions' /\ purchases \subseteq purchases'
<1>1. TablesInv
  BY DEF InfoInv
<1>2. ASSUME NEW u \in Users, AccountOpens(u)
      PROVE  TablesInv' /\ UNCHANGED <<transactions, purchases>>
  BY <1>1, <1>2, OpenAccountTables DEF AccountOpens
<1>3. ASSUME NEW r \in Reqs, MoneyMoves(r)
      PROVE  TablesInv' /\ transactions \subseteq transactions' /\ purchases \subseteq purchases'
  BY <1>1, <1>3, TransferTables, PurchaseTables DEF MoneyMoves
<1>4. ASSUME NEW i \in Infos, BalanceInterceptor(i)
      PROVE  TablesInv' /\ UNCHANGED <<transactions, purchases>>
  BY <1>1, <1>4, DataAssumption, InfoAssumption DEF BalanceInterceptor, TablesInv
<1>5. CASE UNCHANGED <<call, balances, transactions, purchases>>
  BY <1>1, <1>5 DEF TablesInv
<1>6. \/ \E u \in Users : AccountOpens(u)
      \/ \E r \in Reqs : MoneyMoves(r)
      \/ \E i \in Infos : BalanceInterceptor(i)
      \/ UNCHANGED <<call, balances, transactions, purchases>>
  BY DEF Next, Handler, vars, ledger, MoneyBegins, MoneyEnds, DeadlineExpires,
         BalanceInterceptorFails, GetUsername, FetchUserBalance, FetchUserPurchases, QueryOutgoing,
         QueryIncoming, ProcessRows, GetUsernames, TaskFails, Goes, Wait
<1>7. QED BY <1>2, <1>3, <1>4, <1>5, <1>6

-----------------------------------------------------------------------------
(***************************************************************************)
(* The pool.                                                               *)
(***************************************************************************)
LEMMA RoomForRows ==
  \A a, b, c, size \in Nat : a + b < size /\ c <= a + 1 => c + b <= size
OBVIOUS

LEMMA RoomForTx ==
  \A a, b, c, size \in Nat : a + b < size /\ c <= b + 1 => a + c <= size
OBVIOUS

LEMMA RoomLeft ==
  \A a, b, c, d, size \in Nat : a + b <= size /\ c <= a /\ d <= b => c + d <= size
OBVIOUS

LEMMA TakeRows ==
  ASSUME PoolInv, ConnectionFree, NEW i \in Infos, NEW query \in {"outgoing", "incoming"},
         rows' = rows \cup {<<i, query>>}, UNCHANGED txs
  PROVE  PoolInv'
<1>1. IsFiniteSet(rows') /\ Cardinality(rows') <= Cardinality(rows) + 1
  <2>1. IsFiniteSet(rows) /\ Cardinality(rows) \in Nat
    BY FS_CardinalityType DEF PoolInv
  <2>2. QED BY <2>1, FS_AddElement
<1>2. Cardinality(rows) \in Nat /\ Cardinality(txs) \in Nat /\ Cardinality(rows') \in Nat
  BY <1>1, FS_CardinalityType DEF PoolInv
<1>3. Cardinality(rows') + Cardinality(txs) <= PoolSize
  BY <1>1, <1>2, RoomForRows, InfoAssumption DEF ConnectionFree
<1>4. QED BY <1>1, <1>3 DEF PoolInv

LEMMA TakeTx ==
  ASSUME PoolInv, ConnectionFree, NEW r \in Reqs, txs' = txs \cup {r}, UNCHANGED rows
  PROVE  PoolInv'
<1>1. IsFiniteSet(txs') /\ Cardinality(txs') <= Cardinality(txs) + 1
  <2>1. IsFiniteSet(txs) /\ Cardinality(txs) \in Nat
    BY FS_CardinalityType DEF PoolInv
  <2>2. QED BY <2>1, FS_AddElement
<1>2. Cardinality(rows) \in Nat /\ Cardinality(txs) \in Nat /\ Cardinality(txs') \in Nat
  BY <1>1, FS_CardinalityType DEF PoolInv
<1>3. Cardinality(rows) + Cardinality(txs') <= PoolSize
  BY <1>1, <1>2, RoomForTx, InfoAssumption DEF ConnectionFree
<1>4. QED BY <1>1, <1>3 DEF PoolInv

LEMMA GiveBack ==
  ASSUME PoolInv, rows' \subseteq rows, txs' \subseteq txs
  PROVE  PoolInv'
<1>1. /\ IsFiniteSet(rows') /\ Cardinality(rows') <= Cardinality(rows)
      /\ IsFiniteSet(txs') /\ Cardinality(txs') <= Cardinality(txs)
  BY FS_Subset DEF PoolInv
<1>2. /\ Cardinality(rows) \in Nat /\ Cardinality(txs) \in Nat
      /\ Cardinality(rows') \in Nat /\ Cardinality(txs') \in Nat
  BY <1>1, FS_CardinalityType DEF PoolInv
<1>3. Cardinality(rows') + Cardinality(txs') <= PoolSize
  BY <1>1, <1>2, RoomLeft, InfoAssumption DEF PoolInv
<1>4. QED BY <1>1, <1>3 DEF PoolInv

LEMMA PoolStep ==
  ASSUME InfoInv, [Next]_vars
  PROVE  PoolInv'
<1>1. PoolInv
  BY DEF InfoInv
<1>2. ASSUME NEW r \in Reqs, MoneyBegins(r) PROVE PoolInv'
  BY <1>1, <1>2, TakeTx DEF MoneyBegins, handlers
<1>3. ASSUME NEW i \in Infos, QueryOutgoing(i) \/ QueryIncoming(i) PROVE PoolInv'
  BY <1>1, <1>3, TakeRows DEF QueryOutgoing, QueryIncoming, Goes
<1>4. ASSUME NEW r \in Reqs, MoneyEnds(r) PROVE PoolInv'
  BY <1>1, <1>4, GiveBack DEF MoneyEnds, handlers
<1>5. ASSUME NEW i \in Infos, ProcessRows(i) \/ \E t \in Tasks : TaskFails(i, t) PROVE PoolInv'
  BY <1>1, <1>5, GiveBack DEF ProcessRows, TaskFails, CloseRows, Goes
<1>6. CASE UNCHANGED <<rows, txs>>
  BY <1>1, <1>6 DEF PoolInv
<1>7. \/ UNCHANGED <<rows, txs>>
      \/ \E r \in Reqs : MoneyBegins(r) \/ MoneyEnds(r)
      \/ \E i \in Infos : \/ QueryOutgoing(i) \/ QueryIncoming(i) \/ ProcessRows(i)
                          \/ \E t \in Tasks : TaskFails(i, t)
  BY DEF Next, Handler, vars, handlers, AccountOpens, MoneyMoves, DeadlineExpires,
         BalanceInterceptor, BalanceInterceptorFails, GetUsername, FetchUserBalance,
         FetchUserPurchases, GetUsernames, Goes, Wait
<1>8. QED BY <1>2, <1>3, <1>4, <1>5, <1>6, <1>7
-----------------------------------------------------------------------------
(***************************************************************************)
(* The handlers: a step is one of a handler, or does not touch it.         *)
(***************************************************************************)
Acts(i) ==
    \/ Handler(i) \/ DeadlineExpires(i) \/ BalanceInterceptorFails(i)
    \/ \E t \in Tasks : TaskFails(i, t)

Same(i) ==
    /\ pc'[i] = pc[i] /\ task'[i] = task[i] /\ got'[i] = got[i]
    /\ since'[i] = since[i] /\ answer'[i] = answer[i]
    /\ \A query \in {"outgoing", "incoming"} : <<i, query>> \in rows' => <<i, query>> \in rows

LEMMA OthersSame ==
  ASSUME Shapes, NEW j \in Infos, Acts(j)
  PROVE  Shapes' /\ \A i \in Infos \ {j} : Same(i)
<1> USE DEF Shapes, Same
<1>1. CASE BalanceInterceptor(j) \/ BalanceInterceptorFails(j) \/ DeadlineExpires(j) \/ Wait(j)
  BY <1>1 DEF BalanceInterceptor, BalanceInterceptorFails, DeadlineExpires, Wait, Return
<1>2. CASE GetUsername(j) \/ FetchUserBalance(j) \/ FetchUserPurchases(j) \/ GetUsernames(j)
  BY <1>2 DEF GetUsername, FetchUserBalance, FetchUserPurchases, GetUsernames, Goes
<1>3. CASE QueryOutgoing(j) \/ QueryIncoming(j) \/ ProcessRows(j)
  BY <1>3 DEF QueryOutgoing, QueryIncoming, ProcessRows, CloseRows, Goes
<1>4. CASE \E t \in Tasks : TaskFails(j, t)
  BY <1>4 DEF TaskFails, CloseRows, Goes
<1>5. QED BY <1>1, <1>2, <1>3, <1>4 DEF Acts, Handler

LEMMA OneActs ==
  ASSUME Shapes, [Next]_vars
  PROVE  Shapes' /\ \A i \in Infos : Same(i) \/ Acts(i)
<1>1. CASE \E j \in Infos : Acts(j)
  BY <1>1, OthersSame
<1>2. CASE UNCHANGED handlers
  BY <1>2 DEF handlers, Shapes, Same
<1>3. (\E j \in Infos : Acts(j)) \/ UNCHANGED handlers
  BY DEF Next, Acts, vars, handlers, AccountOpens, MoneyBegins, MoneyMoves, MoneyEnds
<1>4. QED BY <1>1, <1>2, <1>3

LEMMA GoesWhat ==
  ASSUME Shapes, NEW i \in Infos, TypeInv(i), NEW t \in Tasks, NEW now, NEW next \in Steps(t),
         Goes(i, t, now, next)
  PROVE  /\ pc[i] = "gather" /\ task[i][t] = now /\ UNCHANGED <<ledger, txs, pc, since, answer>>
         /\ task'[i] \in [Tasks -> UNION {Steps(u) : u \in Tasks}]
         /\ \A u \in Tasks : task'[i][u] = IF u = t THEN next ELSE task[i][u]
         /\ \A u \in Tasks : task'[i][u] \in Steps(u)
BY DEF Shapes, TypeInv, Goes

-----------------------------------------------------------------------------
(***************************************************************************)
(* The tables only grow, and what was read stays true of them.             *)
(***************************************************************************)
LEMMA HistoryGrows ==
  ASSUME NEW h, NEW k, h \subseteq k, NEW u
  PROVE  /\ OutgoingBy(h, u) \subseteq OutgoingBy(k, u)
         /\ IncomingBy(h, u) \subseteq IncomingBy(k, u)
         /\ OutgoingNamed(h, u) \subseteq OutgoingNamed(k, u)
         /\ IncomingNamed(h, u) \subseteq IncomingNamed(k, u)
BY DEF OutgoingBy, IncomingBy, OutgoingNamed, IncomingNamed

LEMMA CountsGrow ==
  ASSUME NEW b, NEW c, b \subseteq c, IsFiniteSet(c), NEW u, NEW g \in Goods
  PROVE  /\ Inventory(b, u)[g] \in Nat /\ Inventory(c, u)[g] \in Nat
         /\ Inventory(b, u)[g] <= Inventory(c, u)[g]
<1> DEFINE Of(bought) == {row \in bought : row.user_id = u /\ row.good_id = g}
<1>1. Of(b) \subseteq Of(c) /\ Of(c) \subseteq c
  OBVIOUS
<1>2. IsFiniteSet(Of(c))
  BY <1>1, FS_Subset
<1>3. IsFiniteSet(Of(b)) /\ Cardinality(Of(b)) <= Cardinality(Of(c))
  BY <1>1, <1>2, FS_Subset
<1>4. Cardinality(Of(b)) \in Nat /\ Cardinality(Of(c)) \in Nat
  BY <1>2, <1>3, FS_CardinalityType
<1>5. Inventory(b, u)[g] = Cardinality(Of(b)) /\ Inventory(c, u)[g] = Cardinality(Of(c))
  BY DEF Inventory
<1>6. QED BY <1>3, <1>4, <1>5

LEMMA ReadKeeps ==
  ASSUME NEW i \in Infos, ReadInv(i), since'[i] = since[i], transactions \subseteq transactions',
         got'[i].sent = got[i].sent, got'[i].received = got[i].received,
         task'[i]["transfers"] \in {task[i]["transfers"], "outgoing", "failed"}
  PROVE  ReadInv(i)'
<1> DEFINE me == Caller[i]
<1>1. /\ OutgoingBy(transactions, me) \subseteq OutgoingBy(transactions', me)
      /\ IncomingBy(transactions, me) \subseteq IncomingBy(transactions', me)
      /\ OutgoingNamed(transactions, me) \subseteq OutgoingNamed(transactions', me)
      /\ IncomingNamed(transactions, me) \subseteq IncomingNamed(transactions', me)
  BY HistoryGrows
<1>2. CASE task'[i]["transfers"] = task[i]["transfers"]
  BY <1>1, <1>2 DEF ReadInv
<1>3. CASE task'[i]["transfers"] \in {"outgoing", "failed"}
  BY <1>3 DEF ReadInv
<1>4. QED BY <1>2, <1>3

LEMMA CountKeeps ==
  ASSUME NEW i \in Infos, CountInv(i), got[i] \in Got, got'[i].inventory = got[i].inventory,
         purchases \subseteq purchases', IsFiniteSet(purchases')
  PROVE  CountInv(i)'
<1>1. ASSUME NEW g \in Goods
      PROVE  got[i].inventory[g] <= Inventory(purchases', Caller[i])[g]
  <2>1. /\ got[i].inventory[g] \in Nat
        /\ got[i].inventory[g] <= Inventory(purchases, Caller[i])[g]
    BY <1>1 DEF CountInv, Got
  <2>2. /\ Inventory(purchases, Caller[i])[g] \in Nat /\ Inventory(purchases', Caller[i])[g] \in Nat
        /\ Inventory(purchases, Caller[i])[g] <= Inventory(purchases', Caller[i])[g]
    BY <1>1, CountsGrow
  <2>3. QED BY <2>1, <2>2
<1>2. QED BY <1>1 DEF CountInv

\* The history that a call found is still there.
LEMMA SinceKeeps ==
  ASSUME NEW i \in Infos, TypeInv(i), since'[i] = since[i],
         transactions \subseteq transactions', purchases \subseteq purchases'
  PROVE  since'[i] \in [transactions : SUBSET transactions', purchases : SUBSET purchases']
BY DEF TypeInv

LEMMA SameKeeps ==
  ASSUME InfoInv, [Next]_vars, NEW i \in Infos, Same(i)
  PROVE  LookInv(i)'
<1>1. /\ TypeInv(i) /\ OpenInv(i) /\ ReadInv(i) /\ CountInv(i) /\ AnswerInv(i)
      /\ transactions \subseteq transactions' /\ purchases \subseteq purchases'
      /\ IsFiniteSet(purchases')
  BY TablesStep DEF InfoInv, LookInv, TablesInv
<1>2. TypeInv(i)'
  BY <1>1, SinceKeeps DEF TypeInv, Same
<1>3. OpenInv(i)'
  BY <1>1 DEF OpenInv, Same
<1>4. ReadInv(i)'
  BY <1>1, ReadKeeps DEF Same
<1>5. CountInv(i)'
  BY <1>1, CountKeeps DEF Same, TypeInv
<1>6. AnswerInv(i)'
  BY <1>1 DEF AnswerInv, Same
<1>7. QED BY <1>2, <1>3, <1>4, <1>5, <1>6 DEF LookInv

-----------------------------------------------------------------------------
(***************************************************************************)
(* The steps of a handler, one by one.                                     *)
(***************************************************************************)
LEMMA Facts ==
  ASSUME InfoInv, [Next]_vars, NEW i \in Infos
  PROVE  /\ Shapes /\ TypeInv(i) /\ OpenInv(i) /\ ReadInv(i) /\ CountInv(i) /\ AnswerInv(i)
         /\ TablesInv /\ TablesInv'
         /\ transactions \subseteq transactions' /\ purchases \subseteq purchases'
         /\ IsFiniteSet(purchases')
         /\ Caller[i] \in Users
BY TablesStep, InfoAssumption DEF InfoInv, LookInv, TablesInv

\* Steps that go on to another pc, or answer, and read nothing.
LEMMA MovesOn ==
  ASSUME InfoInv, [Next]_vars, NEW i \in Infos, UNCHANGED rows,
         task'[i] = task[i], got'[i] = got[i],
         pc'[i] \in {"ensure", "gather", "done"},
         answer'[i] \in {"none", "OK", "Internal", "DeadlineExceeded"},
         since'[i] = since[i] \/ (/\ task[i] = FirstStep
                                  /\ since'[i] = [transactions |-> transactions,
                                                  purchases |-> purchases]),
         OpenInv(i)', AnswerInv(i)'
  PROVE  LookInv(i)'
<1>1. since'[i] \in [transactions : SUBSET transactions', purchases : SUBSET purchases']
  BY Facts, SinceKeeps
<1>2. TypeInv(i)'
  BY <1>1, Facts DEF TypeInv
<1>3. ReadInv(i)'
  <2>1. CASE since'[i] = since[i]
    BY <2>1, Facts, ReadKeeps
  <2>2. CASE task[i] = FirstStep
    <3>1. task'[i]["transfers"] = "outgoing"
      BY <2>2 DEF FirstStep, Tasks
    <3>2. QED BY <3>1 DEF ReadInv
  <2>3. QED BY <2>1, <2>2
<1>4. CountInv(i)'
  BY Facts, CountKeeps DEF TypeInv
<1>5. QED BY <1>2, <1>3, <1>4 DEF LookInv

LEMMA InterceptorKeeps ==
  ASSUME InfoInv, [Next]_vars, NEW i \in Infos,
         BalanceInterceptor(i) \/ BalanceInterceptorFails(i)
  PROVE  LookInv(i)'
<1>1. /\ pc[i] = "ensure" /\ pc'[i] \in {"gather", "done"} /\ UNCHANGED <<rows, task, got>>
      /\ answer'[i] \in {answer[i], "Internal"}
      /\ \/ since'[i] = since[i]
         \/ since'[i] = [transactions |-> transactions, purchases |-> purchases]
  BY Facts DEF Shapes, BalanceInterceptor, BalanceInterceptorFails, Return
<1>2. task[i] = FirstStep /\ answer[i] # "OK"
  BY <1>1, Facts DEF AnswerInv
<1>3. task[i]["transfers"] = "outgoing"
  BY <1>2 DEF FirstStep, Tasks
<1>4. AnswerInv(i)'
  BY <1>1, <1>2 DEF AnswerInv
<1>5. answer'[i] \in {"none", "OK", "Internal", "DeadlineExceeded"}
  BY <1>1, Facts DEF TypeInv
<1>6. OpenInv(i)'
  BY <1>1, <1>3, Facts DEF OpenInv
<1>7. QED BY <1>1, <1>2, <1>4, <1>5, <1>6, MovesOn

LEMMA DeadlineKeeps ==
  ASSUME InfoInv, [Next]_vars, NEW i \in Infos, DeadlineExpires(i)
  PROVE  LookInv(i)'
<1>1. /\ UNCHANGED <<pc, rows, task, got, since>> /\ answer'[i] = "DeadlineExceeded"
  BY Facts DEF Shapes, DeadlineExpires
<1>2. AnswerInv(i)'
  BY <1>1, Facts DEF AnswerInv
<1>3. OpenInv(i)'
  BY <1>1, Facts DEF OpenInv
<1>4. QED BY <1>1, <1>2, <1>3, Facts, MovesOn DEF TypeInv

LEMMA WaitKeeps ==
  ASSUME InfoInv, [Next]_vars, NEW i \in Infos, Wait(i)
  PROVE  LookInv(i)'
<1>1. /\ pc[i] = "gather" /\ pc'[i] = "done" /\ UNCHANGED <<rows, task, got, since>>
      /\ answer'[i] = IF answer[i] = "none"
                      THEN IF \E t \in Tasks : task[i][t] = "failed" THEN "Internal" ELSE "OK"
                      ELSE answer[i]
      /\ \A t \in Tasks : task[i][t] \in {"done", "failed"}
  BY Facts DEF Shapes, Wait, Return
<1>2. answer[i] # "OK"
  BY <1>1, Facts DEF AnswerInv
<1>3. answer'[i] = "OK" => \A t \in Tasks : task[i][t] = "done"
  BY <1>1, <1>2
<1>4. AnswerInv(i)'
  BY <1>1, <1>3 DEF AnswerInv
<1>5. OpenInv(i)'
  <2>1. task[i]["transfers"] \in {"done", "failed"}
    BY <1>1 DEF Tasks
  <2>2. QED BY <1>1, <2>1, Facts DEF OpenInv
<1>6. QED BY <1>1, <1>4, <1>5, Facts, MovesOn DEF TypeInv

\* Steps of the goroutines: what is left to show is what they read.
LEMMA GoesKeeps ==
  ASSUME InfoInv, [Next]_vars, NEW i \in Infos, NEW t \in Tasks, NEW now,
         NEW next \in Steps(t), Goes(i, t, now, next),
         got'[i] \in Got, OpenInv(i)', ReadInv(i)', CountInv(i)'
  PROVE  LookInv(i)'
<1>1. /\ pc[i] = "gather" /\ UNCHANGED <<ledger, pc, since, answer>>
      /\ task'[i] \in [Tasks -> UNION {Steps(u) : u \in Tasks}]
      /\ \A u \in Tasks : task'[i][u] \in Steps(u)
  BY Facts, GoesWhat
<1>2. since'[i] \in [transactions : SUBSET transactions', purchases : SUBSET purchases']
  BY <1>1, Facts, SinceKeeps
<1>3. TypeInv(i)'
  BY <1>1, <1>2, Facts DEF TypeInv
<1>4. AnswerInv(i)'
  BY <1>1, Facts DEF AnswerInv
<1>5. QED BY <1>3, <1>4 DEF LookInv

LEMMA OtherTasksKeep ==
  ASSUME InfoInv, [Next]_vars, NEW i \in Infos, NEW t \in Tasks \ {"transfers"}, NEW now,
         NEW next \in Steps(t), Goes(i, t, now, next), UNCHANGED rows,
         got'[i] \in Got, got'[i].sent = got[i].sent, got'[i].received = got[i].received,
         CountInv(i)'
  PROVE  LookInv(i)'
<1>1. UNCHANGED <<pc, since>> /\ task'[i]["transfers"] = task[i]["transfers"]
  BY Facts, GoesWhat DEF Tasks
<1>2. OpenInv(i)'
  BY <1>1, Facts DEF OpenInv
<1>3. ReadInv(i)'
  BY <1>1, Facts, ReadKeeps
<1>4. QED BY <1>2, <1>3, GoesKeeps

LEMMA GetUsernameKeeps ==
  ASSUME InfoInv, [Next]_vars, NEW i \in Infos, GetUsername(i)
  PROVE  LookInv(i)'
<1>1. got' = got /\ rows' = rows /\ got[i] \in Got
  BY Facts DEF GetUsername, TypeInv
<1>2. CountInv(i)'
  BY <1>1, Facts, CountKeeps
<1>3. QED BY <1>1, <1>2, OtherTasksKeep DEF GetUsername, Tasks, Steps

LEMMA BalanceKeeps ==
  ASSUME InfoInv, [Next]_vars, NEW i \in Infos, FetchUserBalance(i)
  PROVE  LookInv(i)'
<1>1. /\ got'[i] = [got[i] EXCEPT !.balance = balances[Caller[i]]] /\ rows' = rows
      /\ got[i] \in Got /\ balances[Caller[i]] \in 0 .. MaxInt \cup {NoRow}
  BY Facts DEF FetchUserBalance, Shapes, TypeInv, TablesInv
<1>2. /\ got'[i] \in Got /\ got'[i].sent = got[i].sent /\ got'[i].received = got[i].received
      /\ got'[i].inventory = got[i].inventory
  BY <1>1 DEF Got
<1>3. CountInv(i)'
  BY <1>1, <1>2, Facts, CountKeeps
<1>4. "main" \in Tasks \ {"transfers"} /\ "failed" \in Steps("main") /\ "done" \in Steps("main")
  BY DEF Tasks, Steps
<1>5. QED BY <1>1, <1>2, <1>3, <1>4, OtherTasksKeep DEF FetchUserBalance

LEMMA PurchasesKeep ==
  ASSUME InfoInv, [Next]_vars, NEW i \in Infos, FetchUserPurchases(i)
  PROVE  LookInv(i)'
<1>1. PICK read \in SUBSET Goods :
        got' = [got EXCEPT ![i].inventory =
          [g \in Goods |-> IF g \in read THEN Inventory(purchases, Caller[i])[g] ELSE 0]]
  BY DEF FetchUserPurchases
<1> DEFINE counts == [g \in Goods |->
             IF g \in read THEN Inventory(purchases, Caller[i])[g] ELSE 0]
<1>2. /\ got'[i] = [got[i] EXCEPT !.inventory = counts] /\ rows' = rows
      /\ got[i] \in Got /\ IsFiniteSet(purchases) /\ purchases' = purchases
  BY <1>1, Facts DEF FetchUserPurchases, Goes, ledger, Shapes, TypeInv, TablesInv
<1>3. ASSUME NEW g \in Goods
      PROVE  counts[g] \in Nat /\ counts[g] <= Inventory(purchases, Caller[i])[g]
  <2>1. Inventory(purchases, Caller[i])[g] \in Nat
    BY <1>2, CountsGrow
  <2>2. QED BY <2>1
<1>4. counts \in [Goods -> Nat]
  BY <1>3
<1> HIDE DEF counts
<1>5. /\ got'[i] \in Got /\ got'[i].sent = got[i].sent /\ got'[i].received = got[i].received
      /\ got'[i].inventory = counts
  BY <1>2, <1>4 DEF Got
<1>6. CountInv(i)'
  BY <1>2, <1>3, <1>5 DEF CountInv
<1>7. "purchases" \in Tasks \ {"transfers"} /\ "done" \in Steps("purchases")
  BY DEF Tasks, Steps
<1>8. QED BY <1>2, <1>5, <1>6, <1>7, OtherTasksKeep DEF FetchUserPurchases

\* What the two SELECTs of the transfers see.
LEMMA SelectTypes ==
  ASSUME TablesInv, NEW u \in Users
  PROVE  /\ OutgoingBy(transactions, u) \subseteq Transfers
         /\ IncomingBy(transactions, u) \subseteq Transfers
BY DEF TablesInv, TransferRows, OutgoingBy, IncomingBy, DirectTransfer, Transfers, Ids

LEMMA FoundSince ==
  ASSUME InfoInv, [Next]_vars, NEW i \in Infos
  PROVE  /\ OutgoingBy(since[i].transactions, Caller[i])
              \subseteq OutgoingBy(transactions, Caller[i])
         /\ IncomingBy(since[i].transactions, Caller[i])
              \subseteq IncomingBy(transactions, Caller[i])
<1>1. since[i].transactions \subseteq transactions
  BY Facts DEF TypeInv
<1>2. QED BY <1>1, HistoryGrows

LEMMA OutgoingKeeps ==
  ASSUME InfoInv, [Next]_vars, NEW i \in Infos, QueryOutgoing(i)
  PROVE  LookInv(i)'
<1> DEFINE me == Caller[i]
<1>1. "transfers" \in Tasks /\ "incoming" \in Steps("transfers")
  BY DEF Tasks, Steps
<1>2. Goes(i, "transfers", "outgoing", "incoming")
  BY DEF QueryOutgoing
<1>3. /\ UNCHANGED ledger /\ UNCHANGED since /\ UNCHANGED pc /\ pc[i] = "gather"
      /\ task'[i]["transfers"] = "incoming"
  BY <1>1, <1>2, Facts, GoesWhat
<1>4. got'[i] = [got[i] EXCEPT !.sent = OutgoingBy(transactions, me)] /\ got[i] \in Got
  BY Facts DEF QueryOutgoing, Shapes, TypeInv, Sent, OutgoingBy
<1>5. OutgoingBy(transactions, me) \subseteq Transfers
  BY Facts, SelectTypes
<1>6. /\ got'[i] \in Got /\ got'[i].sent = OutgoingBy(transactions, me)
      /\ got'[i].inventory = got[i].inventory
  BY <1>4, <1>5 DEF Got
<1>7. OpenInv(i)'
  BY <1>3 DEF OpenInv
<1>8. transactions' = transactions
  BY <1>3 DEF ledger
<1>9. ReadInv(i)'
  BY <1>3, <1>6, <1>8, FoundSince DEF ReadInv
<1>10. CountInv(i)'
  BY <1>4, <1>6, Facts, CountKeeps
<1>11. QED BY <1>1, <1>2, <1>6, <1>7, <1>9, <1>10, GoesKeeps

LEMMA IncomingKeeps ==
  ASSUME InfoInv, [Next]_vars, NEW i \in Infos, QueryIncoming(i)
  PROVE  LookInv(i)'
<1> DEFINE me == Caller[i]
<1>1. "transfers" \in Tasks /\ "process" \in Steps("transfers")
  BY DEF Tasks, Steps
<1>2. Goes(i, "transfers", "incoming", "process")
  BY DEF QueryIncoming
<1>3. /\ UNCHANGED ledger /\ UNCHANGED since /\ UNCHANGED pc /\ pc[i] = "gather"
      /\ task[i]["transfers"] = "incoming" /\ task'[i]["transfers"] = "process"
  BY <1>1, <1>2, Facts, GoesWhat
<1>4. got'[i] = [got[i] EXCEPT !.received = IncomingBy(transactions, me)] /\ got[i] \in Got
  BY Facts DEF QueryIncoming, Shapes, TypeInv, Received, IncomingBy
<1>5. IncomingBy(transactions, me) \subseteq Transfers
  BY Facts, SelectTypes
<1>6. /\ got'[i] \in Got /\ got'[i].received = IncomingBy(transactions, me)
      /\ got'[i].sent = got[i].sent /\ got'[i].inventory = got[i].inventory
  BY <1>4, <1>5 DEF Got
<1>7. OpenInv(i)'
  BY <1>3 DEF OpenInv
<1>8. transactions' = transactions
  BY <1>3 DEF ledger
<1>9. ReadInv(i)'
  <2>1. /\ OutgoingBy(since[i].transactions, me) \subseteq got[i].sent
        /\ got[i].sent \subseteq OutgoingBy(transactions, me)
    BY <1>3, Facts DEF ReadInv
  <2>2. QED BY <1>3, <1>6, <1>8, <2>1, FoundSince DEF ReadInv
<1>10. CountInv(i)'
  BY <1>4, <1>6, Facts, CountKeeps
<1>11. QED BY <1>1, <1>2, <1>6, <1>7, <1>9, <1>10, GoesKeeps

LEMMA ProcessKeeps ==
  ASSUME InfoInv, [Next]_vars, NEW i \in Infos, ProcessRows(i)
  PROVE  LookInv(i)'
<1>1. "transfers" \in Tasks /\ "names" \in Steps("transfers")
  BY DEF Tasks, Steps
<1>2. Goes(i, "transfers", "process", "names") /\ CloseRows(i) /\ UNCHANGED got
  BY DEF ProcessRows
<1>3. /\ UNCHANGED ledger /\ UNCHANGED since
      /\ task[i]["transfers"] = "process" /\ task'[i]["transfers"] = "names"
  BY <1>1, <1>2, Facts, GoesWhat
<1>4. OpenInv(i)'
  BY <1>2 DEF OpenInv, CloseRows
<1>5. transactions' = transactions /\ got[i] \in Got
  BY <1>3, Facts DEF ledger, TypeInv
<1>6. ReadInv(i)'
  BY <1>2, <1>3, <1>5, Facts DEF ReadInv
<1>7. CountInv(i)'
  BY <1>2, <1>5, Facts, CountKeeps
<1>8. QED BY <1>1, <1>2, <1>4, <1>5, <1>6, <1>7, GoesKeeps

LEMMA FailsKeeps ==
  ASSUME InfoInv, [Next]_vars, NEW i \in Infos, NEW t \in Tasks, TaskFails(i, t)
  PROVE  LookInv(i)'
<1>1. "failed" \in Steps(t)
  BY DEF Tasks, Steps
<1>2. Goes(i, t, task[i][t], "failed") /\ UNCHANGED got
  BY DEF TaskFails
<1>3. got[i] \in Got /\ CountInv(i)'
  BY <1>2, Facts, CountKeeps DEF TypeInv
<1>4. CASE t # "transfers"
  BY <1>1, <1>2, <1>3, <1>4, OtherTasksKeep DEF TaskFails
<1>5. CASE t = "transfers"
  <2>1. CloseRows(i)
    BY <1>5 DEF TaskFails
  <2>2. UNCHANGED since /\ task'[i]["transfers"] = "failed"
    BY <1>1, <1>2, <1>5, Facts, GoesWhat
  <2>3. OpenInv(i)'
    BY <2>1 DEF OpenInv, CloseRows
  <2>4. ReadInv(i)'
    BY <2>2 DEF ReadInv
  <2>5. QED BY <1>1, <1>2, <1>3, <2>3, <2>4, GoesKeeps
<1>6. QED BY <1>4, <1>5

\* Every id that was read is asked for, and so every transfer gets a name.
LEMMA NamesFound ==
  ASSUME NEW info, NEW ids, ids = ExtractUserIDs(info), NEW h, NEW u
  PROVE  /\ info.sent \subseteq OutgoingBy(h, u) =>
              Named(info.sent, ids) \subseteq OutgoingNamed(h, u)
         /\ OutgoingBy(h, u) \subseteq info.sent =>
              OutgoingNamed(h, u) \subseteq Named(info.sent, ids)
         /\ info.received \subseteq IncomingBy(h, u) =>
              Named(info.received, ids) \subseteq IncomingNamed(h, u)
         /\ IncomingBy(h, u) \subseteq info.received =>
              IncomingNamed(h, u) \subseteq Named(info.received, ids)
<1> DEFINE Put(t) == [t EXCEPT !.target = IF t.target \in ids THEN Username[t.target] ELSE ""]
<1>1. \A t \in info.sent \cup info.received : t.target \in ids
  BY DEF ExtractUserIDs
<1>2. ASSUME NEW row, NEW id, id \in ids
      PROVE  Put(DirectTransfer(row, id)) = DirectTransfer(row, Username[id])
  BY <1>2 DEF DirectTransfer
<1>3. ASSUME NEW row, NEW id, DirectTransfer(row, id) \in info.sent \cup info.received
      PROVE  Put(DirectTransfer(row, id)) = DirectTransfer(row, Username[id])
  <2>1. DirectTransfer(row, id).target = id
    BY DEF DirectTransfer
  <2>2. QED BY <1>1, <1>2, <1>3, <2>1
<1>4. /\ Named(info.sent, ids) = {Put(t) : t \in info.sent}
      /\ Named(info.received, ids) = {Put(t) : t \in info.received}
  BY DEF Named
<1> HIDE DEF Put
<1>5. info.sent \subseteq OutgoingBy(h, u) => Named(info.sent, ids) \subseteq OutgoingNamed(h, u)
  BY <1>3, <1>4 DEF OutgoingBy, OutgoingNamed
<1>6. OutgoingBy(h, u) \subseteq info.sent => OutgoingNamed(h, u) \subseteq Named(info.sent, ids)
  BY <1>3, <1>4 DEF OutgoingBy, OutgoingNamed
<1>7. info.received \subseteq IncomingBy(h, u) =>
        Named(info.received, ids) \subseteq IncomingNamed(h, u)
  BY <1>3, <1>4 DEF IncomingBy, IncomingNamed
<1>8. IncomingBy(h, u) \subseteq info.received =>
        IncomingNamed(h, u) \subseteq Named(info.received, ids)
  BY <1>3, <1>4 DEF IncomingBy, IncomingNamed
<1>9. QED BY <1>5, <1>6, <1>7, <1>8

LEMMA NamedTypes ==
  ASSUME TablesInv, NEW u \in Users
  PROVE  /\ OutgoingNamed(transactions, u) \subseteq Transfers
         /\ IncomingNamed(transactions, u) \subseteq Transfers
BY DEF TablesInv, TransferRows, OutgoingNamed, IncomingNamed, DirectTransfer, Transfers, Ids

LEMMA NamesKeep ==
  ASSUME InfoInv, [Next]_vars, NEW i \in Infos, GetUsernames(i)
  PROVE  LookInv(i)'
<1> DEFINE me == Caller[i]
           ids == ExtractUserIDs(got[i])
           sent == Named(got[i].sent, ids)
           received == Named(got[i].received, ids)
<1>1. "transfers" \in Tasks /\ "done" \in Steps("transfers")
  BY DEF Tasks, Steps
<1>2. Goes(i, "transfers", "names", "done") /\ UNCHANGED rows
  BY DEF GetUsernames
<1>3. /\ UNCHANGED ledger /\ UNCHANGED since
      /\ task[i]["transfers"] = "names" /\ task'[i]["transfers"] = "done"
  BY <1>1, <1>2, Facts, GoesWhat
<1>4. got' = [got EXCEPT ![i].sent = Named(@, ids), ![i].received = Named(@, ids)]
  BY DEF GetUsernames
<1>5. /\ OutgoingBy(since[i].transactions, me) \subseteq got[i].sent
      /\ got[i].sent \subseteq OutgoingBy(transactions, me)
      /\ IncomingBy(since[i].transactions, me) \subseteq got[i].received
      /\ got[i].received \subseteq IncomingBy(transactions, me)
  BY <1>3, Facts DEF ReadInv
<1>6. /\ OutgoingNamed(since[i].transactions, me) \subseteq sent
      /\ sent \subseteq OutgoingNamed(transactions, me)
      /\ IncomingNamed(since[i].transactions, me) \subseteq received
      /\ received \subseteq IncomingNamed(transactions, me)
  BY <1>5, NamesFound
<1>7. sent \subseteq Transfers /\ received \subseteq Transfers
  BY <1>6, Facts, NamedTypes
<1> HIDE DEF sent, received
<1>8. got[i] \in Got /\ got = [j \in Infos |-> got[j]]
  BY Facts DEF Shapes, TypeInv
<1>9. got'[i] = [[got[i] EXCEPT !.sent = sent] EXCEPT !.received = received]
  BY <1>4, <1>8 DEF sent, received, Got
<1>10. /\ got'[i] \in Got /\ got'[i].sent = sent /\ got'[i].received = received
       /\ got'[i].inventory = got[i].inventory
  BY <1>7, <1>8, <1>9 DEF Got
<1>11. OpenInv(i)'
  BY <1>2, <1>3, Facts DEF OpenInv
<1>12. transactions' = transactions
  BY <1>3 DEF ledger
<1>13. ReadInv(i)'
  BY <1>3, <1>6, <1>10, <1>12 DEF ReadInv
<1>14. CountInv(i)'
  BY <1>8, <1>10, Facts, CountKeeps
<1>15. QED BY <1>1, <1>2, <1>10, <1>11, <1>13, <1>14, GoesKeeps
-----------------------------------------------------------------------------
LEMMA InfoInit == Init => InfoInv
<1> SUFFICES ASSUME Init PROVE InfoInv
  OBVIOUS
<1>1. TablesInv
  BY FS_EmptySet DEF Init, Ledger!Init, TablesInv
<1>2. PoolInv
  <2>1. IsFiniteSet({}) /\ Cardinality({}) = 0
    BY FS_EmptySet
  <2>2. rows = {} /\ txs = {}
    BY DEF Init
  <2>3. 0 + 0 <= PoolSize
    <3>1. PoolSize \in Nat
      BY InfoAssumption
    <3>2. QED BY ONLY <3>1
  <2>4. QED BY <2>1, <2>2, <2>3 DEF PoolInv
<1>3. Shapes
  BY DEF Init, Shapes
<1>4. ASSUME NEW i \in Infos PROVE LookInv(i)
  <2>1. /\ pc[i] = "ensure" /\ task[i] = FirstStep /\ rows = {} /\ answer[i] = "none"
        /\ got[i] = [balance |-> NoRow, inventory |-> [g \in Goods |-> 0],
                     sent |-> {}, received |-> {}]
        /\ since[i] = [transactions |-> {}, purchases |-> {}] /\ purchases = {}
    BY DEF Init, Ledger!Init
  <2>2. /\ FirstStep \in [Tasks -> UNION {Steps(t) : t \in Tasks}]
        /\ \A t \in Tasks : FirstStep[t] \in Steps(t)
        /\ FirstStep["transfers"] = "outgoing"
    <3>1. \A t \in Tasks : FirstStep[t] \in Steps(t)
      BY DEF FirstStep, Tasks, Steps
    <3>2. FirstStep = [t \in Tasks |-> FirstStep[t]]
      <4> DEFINE First(t) == CASE t = "main" -> "username"
                               [] t = "purchases" -> "query"
                               [] t = "transfers" -> "outgoing"
      <4>1. FirstStep = [t \in Tasks |-> First(t)]
        BY DEF FirstStep
      <4> HIDE DEF First
      <4>2. QED BY <4>1
    <3>3. FirstStep["transfers"] = "outgoing"
      BY DEF FirstStep, Tasks
    <3>4. QED BY <3>1, <3>2, <3>3
  <2>3. got[i] \in Got
    BY <2>1 DEF Got
  <2>4. TypeInv(i)
    BY <2>1, <2>2, <2>3 DEF TypeInv
  <2>5. OpenInv(i) /\ ReadInv(i) /\ AnswerInv(i)
    BY <2>1, <2>2 DEF OpenInv, ReadInv, AnswerInv
  <2>6. CountInv(i)
    <3>1. ASSUME NEW g \in Goods PROVE 0 <= Inventory({}, Caller[i])[g]
      BY <3>1, CountsGrow, FS_EmptySet
    <3>2. QED BY <2>1, <3>1 DEF CountInv
  <2>7. QED BY <2>4, <2>5, <2>6 DEF LookInv
<1>5. QED BY <1>1, <1>2, <1>3, <1>4 DEF InfoInv

LEMMA InfoStep == InfoInv /\ [Next]_vars => InfoInv'
<1> SUFFICES ASSUME InfoInv, [Next]_vars PROVE InfoInv'
  OBVIOUS
<1>1. Shapes
  BY DEF InfoInv
<1>2. ASSUME NEW i \in Infos, Acts(i) PROVE LookInv(i)'
  BY <1>2, InterceptorKeeps, DeadlineKeeps, WaitKeeps, GetUsernameKeeps, BalanceKeeps,
     PurchasesKeep, OutgoingKeeps, IncomingKeeps, ProcessKeeps, NamesKeep, FailsKeeps
     DEF Acts, Handler
<1>3. ASSUME NEW i \in Infos PROVE LookInv(i)'
  BY <1>1, <1>2, OneActs, SameKeeps
<1>4. QED BY <1>1, <1>3, TablesStep, PoolStep, OneActs DEF InfoInv

(***************************************************************************)
(* The inductive invariant holds in every state of the looks.              *)
(***************************************************************************)
THEOREM Invariance == Spec => []InfoInv
BY InfoInit, InfoStep, PTL DEF Spec

(***************************************************************************)
(* TypeOK: the pool is never overdrawn, and each transfer read has another *)
(* party, by id or by name, never the empty name of a missing key.         *)
(***************************************************************************)
THEOREM TypeCorrect == Spec => []TypeOK
<1>1. ASSUME InfoInv, NEW i \in Infos
      PROVE  /\ task[i]["main"] \in {"username", "balance", "done", "failed"}
             /\ task[i]["purchases"] \in {"query", "done", "failed"}
             /\ task[i]["transfers"] \in
                  {"outgoing", "incoming", "process", "names", "done", "failed"}
             /\ got[i] \in Got /\ pc[i] \in {"ensure", "gather", "done"}
             /\ answer[i] \in {"none", "OK", "Internal", "DeadlineExceeded"}
  BY <1>1 DEF InfoInv, LookInv, TypeInv, Tasks, Steps
<1>2. InfoInv => TypeOK
  BY <1>1 DEF InfoInv, PoolInv, Shapes, Got, TypeOK
<1>3. QED BY <1>2, Invariance, PTL

(***************************************************************************)
(* ConnectionsAreReturned: a goroutine that has returned, however it did,  *)
(* holds no connection, in a pool of any size.                             *)
(***************************************************************************)
THEOREM ReturnedCorrect == Spec => []ConnectionsAreReturned
<1>1. ASSUME InfoInv, NEW i \in Infos,
             task[i]["transfers"] \in {"names", "done", "failed"} \/ pc[i] = "done",
             NEW open \in rows \cap ({i} \X {"outgoing", "incoming"})
      PROVE  FALSE
  <2>1. PICK query \in {"outgoing", "incoming"} : open = <<i, query>> /\ open \in rows
    BY <1>1
  <2>2. OpenInv(i)
    BY <1>1 DEF InfoInv, LookInv
  <2>3. QED BY <1>1, <2>1, <2>2 DEF OpenInv
<1>2. InfoInv => ConnectionsAreReturned
  BY <1>1 DEF ConnectionsAreReturned
<1>3. QED BY <1>2, Invariance, PTL

\* A transfer in the body of a 200, sent or received, and all of a set of them.
ShowSent(t) == [id |-> t.id, to |-> t.target, amount |-> t.amount]
ShowReceived(t) == [id |-> t.id, from |-> t.target, amount |-> t.amount]

Shown(transfers) == {ShowSent(t) : t \in transfers}
ShownFrom(transfers) == {ShowReceived(t) : t \in transfers}

LEMMA BodyOf ==
  ASSUME NEW i
  PROVE  GetInfo(i).sent = Shown(got[i].sent) /\ GetInfo(i).received = ShownFrom(got[i].received)
<1> DEFINE SentOut(t) == [id |-> t.id, toUsername |-> t.target, amount |-> t.amount]
           ReceivedOut(t) == [id |-> t.id, fromUsername |-> t.target, amount |-> t.amount]
           SentBody(t) == [id |-> t.id, to |-> t.toUsername, amount |-> t.amount]
           ReceivedBody(t) == [id |-> t.id, from |-> t.fromUsername, amount |-> t.amount]
<1>1. /\ GetInfo(i).sent = {SentBody(t) : t \in {SentOut(u) : u \in got[i].sent}}
      /\ GetInfo(i).received = {ReceivedBody(t) : t \in {ReceivedOut(u) : u \in got[i].received}}
  BY DEF GetInfo, ConvertToUserInfo, ConvertToUserInfoResponse
<1>2. ASSUME NEW t
      PROVE  SentBody(SentOut(t)) = ShowSent(t) /\ ReceivedBody(ReceivedOut(t)) = ShowReceived(t)
  BY DEF ShowSent, ShowReceived
<1> HIDE DEF SentOut, ReceivedOut, SentBody, ReceivedBody
<1>3. QED BY <1>1, <1>2 DEF Shown, ShownFrom

LEMMA HistoryOf ==
  ASSUME NEW h, NEW u
  PROVE  /\ SentIn(h, u) = Shown(OutgoingNamed(h, u))
         /\ ReceivedIn(h, u) = ShownFrom(IncomingNamed(h, u))
<1> DEFINE To(row) == DirectTransfer(row, Username[row.to_user_id])
           From(row) == DirectTransfer(row, Username[row.from_user_id])
           Out(row) == [id |-> row.id, to |-> Username[row.to_user_id], amount |-> row.amount]
           In(row) == [id |-> row.id, from |-> Username[row.from_user_id], amount |-> row.amount]
<1>1. /\ SentIn(h, u) = {Out(row) : row \in {r \in h : r.from_user_id = u}}
      /\ OutgoingNamed(h, u) = {To(row) : row \in {r \in h : r.from_user_id = u}}
      /\ ReceivedIn(h, u) = {In(row) : row \in {r \in h : r.to_user_id = u}}
      /\ IncomingNamed(h, u) = {From(row) : row \in {r \in h : r.to_user_id = u}}
  BY DEF SentIn, ReceivedIn, OutgoingNamed, IncomingNamed
<1>2. ASSUME NEW row
      PROVE  ShowSent(To(row)) = Out(row) /\ ShowReceived(From(row)) = In(row)
  BY DEF ShowSent, ShowReceived, DirectTransfer
<1> HIDE DEF To, From, Out, In
<1>3. QED BY <1>1, <1>2 DEF Shown, ShownFrom

LEMMA ShownGrows ==
  ASSUME NEW a, NEW b, a \subseteq b
  PROVE  Shown(a) \subseteq Shown(b) /\ ShownFrom(a) \subseteq ShownFrom(b)
BY DEF Shown, ShownFrom

(***************************************************************************)
(* HistoryIsCurrent: what a client is shown lies between what had happened *)
(* when it asked and what has happened now, through two SELECTs without a  *)
(* transaction and two conversions.                                        *)
(***************************************************************************)
THEOREM HistoryCorrect == Spec => []HistoryIsCurrent
<1>1. ASSUME InfoInv, NEW i \in Infos, answer[i] = "OK"
      PROVE  /\ SentIn(since[i].transactions, Caller[i]) \subseteq GetInfo(i).sent
             /\ GetInfo(i).sent \subseteq SentIn(transactions, Caller[i])
             /\ ReceivedIn(since[i].transactions, Caller[i]) \subseteq GetInfo(i).received
             /\ GetInfo(i).received \subseteq ReceivedIn(transactions, Caller[i])
  <2>1. task[i]["transfers"] = "done" /\ ReadInv(i)
    BY <1>1 DEF InfoInv, LookInv, AnswerInv, Tasks
  <2>2. /\ OutgoingNamed(since[i].transactions, Caller[i]) \subseteq got[i].sent
        /\ got[i].sent \subseteq OutgoingNamed(transactions, Caller[i])
        /\ IncomingNamed(since[i].transactions, Caller[i]) \subseteq got[i].received
        /\ got[i].received \subseteq IncomingNamed(transactions, Caller[i])
    BY <2>1 DEF ReadInv
  <2>3. /\ SentIn(since[i].transactions, Caller[i]) \subseteq GetInfo(i).sent
        /\ GetInfo(i).sent \subseteq SentIn(transactions, Caller[i])
    BY <2>2, BodyOf, HistoryOf, ShownGrows
  <2>4. /\ ReceivedIn(since[i].transactions, Caller[i]) \subseteq GetInfo(i).received
        /\ GetInfo(i).received \subseteq ReceivedIn(transactions, Caller[i])
    <3>1. /\ ShownFrom(IncomingNamed(since[i].transactions, Caller[i]))
               \subseteq ShownFrom(got[i].received)
          /\ ShownFrom(got[i].received) \subseteq ShownFrom(IncomingNamed(transactions, Caller[i]))
      BY <2>2, ShownGrows
    <3>2. QED BY <3>1, BodyOf, HistoryOf
  <2>5. QED BY <2>3, <2>4
<1>2. ASSUME InfoInv, NEW i \in Infos, NEW item \in GetInfo(i).inventory
      PROVE  item.quantity <= Inventory(purchases, Caller[i])[item.name]
  <2>1. PICK g \in Goods : item = [name |-> g, quantity |-> got[i].inventory[g]]
    BY <1>2 DEF GetInfo, ConvertToUserInfo, ConvertToUserInfoResponse
  <2>2. CountInv(i)
    BY <1>2 DEF InfoInv, LookInv
  <2>3. QED BY <2>1, <2>2 DEF CountInv
<1>3. InfoInv => HistoryIsCurrent
  BY <1>1, <1>2 DEF HistoryIsCurrent
<1>4. QED BY <1>3, Invariance, PTL
=============================================================================

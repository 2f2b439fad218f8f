------------------------ MODULE MerchRefinementProofs ------------------------
(***************************************************************************)
(* The services together implement a ledger by name, proved for any number *)
(* of clients, logins, payments and looks.  A name has the balance of the  *)
(* id that auth has given it, and a row the names of its ids; the proof is *)
(* that neither changes but by an account that opens or a COMMIT.          *)
(***************************************************************************)
EXTENDS MerchProofs

NamedCalls == [r \in Requests |-> NamedAsk(Caller(r), asked[r])]

NamedBalances == [n \in Names |-> IF Auth!Registered(n) THEN balances[users[n].id] ELSE NoRow]

\* The two ledgers share their codes, and what happened in one happened in the other.
LEMMA SameCodes ==
  /\ Named!Codes = Ledger!Codes /\ Named!Refusals = Ledger!Refusals
  /\ \A r \in Requests : Named!Happened(r) <=> Ledger!Happened(r)
<1>1. Named!Codes = Ledger!Codes /\ Named!Refusals = Ledger!Refusals
  BY DEF Named!Codes, Named!Refusals, Named!Unknowns, Ledger!Codes, Ledger!Refusals, Ledger!Unknowns
<1>2. ASSUME NEW r \in Requests PROVE Named!Happened(r) <=> Ledger!Happened(r)
  <2>1. ASSUME NEW row \in transactions \cup purchases
        PROVE  \E named \in NamedTransactions \cup NamedPurchases : named.id = row.id
    <3>1. CASE row \in transactions
      <4>1. [id |-> row.id, from_user_id |-> NameOf(row.from_user_id),
             to_user_id |-> NameOf(row.to_user_id), amount |-> row.amount] \in NamedTransactions
        BY <3>1 DEF NamedTransactions
      <4>2. QED BY <4>1
    <3>2. CASE row \in purchases
      <4>1. [id |-> row.id, user_id |-> NameOf(row.user_id), good_id |-> row.good_id]
              \in NamedPurchases
        BY <3>2 DEF NamedPurchases
      <4>2. QED BY <4>1
    <3>3. QED BY <2>1, <3>1, <3>2
  <2>2. ASSUME NEW named \in NamedTransactions
        PROVE  \E row \in transactions : row.id = named.id
    BY DEF NamedTransactions
  <2>3. ASSUME NEW named \in NamedPurchases
        PROVE  \E row \in purchases : row.id = named.id
    BY DEF NamedPurchases
  <2>4. QED BY <2>1, <2>2, <2>3 DEF Named!Happened, Ledger!Happened
<1>3. QED BY <1>1, <1>2
-----------------------------------------------------------------------------
(***************************************************************************)
(* What does not change.                                                   *)
(***************************************************************************)
LEMMA CallsStay ==
  ASSUME MerchInv, [Next]_vars
  PROVE  NamedCalls' = NamedCalls
BY Frame DEF NamedCalls, Caller

LEMMA NamedRowsSame ==
  ASSUME MerchInv, [Next]_vars
  PROVE  /\ transactions' = transactions => NamedTransactions' = NamedTransactions
         /\ purchases' = purchases => NamedPurchases' = NamedPurchases
<1>1. ASSUME NEW row \in transactions
      PROVE  /\ NameOf(row.from_user_id)' = NameOf(row.from_user_id)
             /\ NameOf(row.to_user_id)' = NameOf(row.to_user_id)
  BY NamedRowsStay
<1>2. ASSUME NEW row \in purchases
      PROVE  NameOf(row.user_id)' = NameOf(row.user_id)
  BY NamedRowsStay
<1>3. QED BY <1>1, <1>2 DEF NamedTransactions, NamedPurchases

\* An id that auth gives away has no account yet.
LEMMA NewIdsAreFree ==
  ASSUME MerchInv, [Next]_vars, NEW n \in Names, ~Auth!Registered(n), Auth!Registered(n)'
  PROVE  users'[n].id \in Ids /\ balances[users'[n].id] = NoRow
<1>1. /\ Acc!AuthInv'
      /\ \A m \in Names : Auth!Registered(m) => users'[m] = users[m] /\ Auth!Registered(m)'
  BY Frame
<1>2. /\ users'[n].id \in Ids
      /\ \A m \in Names : Auth!Registered(m)' /\ users'[m].id = users'[n].id => m = n
  BY <1>1, SystemAssumption
     DEF Acc!AuthInv, Acc!TypeOK, Acc!UserRow, Acc!IdsInv, Acc!Registered, Auth!Registered, Ids
<1>3. QED BY <1>1, <1>2 DEF MerchInv, BalancesInv

\* The accounts by name change only with the accounts.
LEMMA NamedBalancesAfter ==
  ASSUME MerchInv, [Next]_vars, UNCHANGED auth \/ UNCHANGED balances
  PROVE  NamedBalances' = [n \in Names |->
           IF Auth!Registered(n) THEN balances'[users[n].id] ELSE NoRow]
<1>1. ASSUME NEW n \in Names, Auth!Registered(n)
      PROVE  Auth!Registered(n)' /\ users'[n] = users[n]
  BY <1>1, Frame
<1>2. ASSUME NEW n \in Names, ~Auth!Registered(n), Auth!Registered(n)'
      PROVE  balances'[users'[n].id] = NoRow
  BY <1>2, NewIdsAreFree DEF auth, Auth!Registered
<1>3. QED BY <1>1, <1>2 DEF NamedBalances

-----------------------------------------------------------------------------
(***************************************************************************)
(* Steps that change the tables or the answers.                            *)
(***************************************************************************)
LEMMA OpensRefines ==
  ASSUME MerchInv, [Next]_vars, NEW n \in Names, Auth!Registered(n), Opens(users[n].id),
         UNCHANGED auth, reply' = reply \/ \E r \in Requests : Ledger!Answer(r, "Internal")
  PROVE  [Named!Next]_Named!vars
<1>1. /\ NamedCalls' = NamedCalls /\ NamedTransactions' = NamedTransactions
      /\ NamedPurchases' = NamedPurchases
  BY CallsStay, NamedRowsSame DEF Opens
<1>9. /\ reply' = reply \/ \E r \in Requests : Named!Answer(r, "Internal")
      /\ "Internal" \in Named!Codes
  BY SameCodes DEF Named!Answer, Ledger!Answer, Ledger!Codes, Ledger!Unknowns
<1>2. MerchTypes /\ Acc!AuthInv /\ users[n].id \in Ids
  BY OneOwner DEF MerchInv
<1>3. ASSUME NEW m \in Names, Auth!Registered(m)
      PROVE  /\ users[m].id \in Ids
             /\ users[m].id = users[n].id => m = n
  <2>1. users[m].id \in Ids /\ Owners(users[m].id) = {m} /\ Owners(users[n].id) = {n}
    BY <1>2, <1>3, OneOwner
  <2>2. QED BY <2>1
<1>4. ASSUME NEW m \in Names, Auth!Registered(m)
      PROVE  balances'[users[m].id] = IF m = n /\ balances[users[n].id] = NoRow
                                      THEN StartBalance ELSE balances[users[m].id]
  BY <1>2, <1>3, <1>4, OpensWhat
<1>5. NamedBalances' =
        [m \in Names |-> IF Auth!Registered(m) THEN balances'[users[m].id] ELSE NoRow]
  BY NamedBalancesAfter
<1>6. CASE balances[users[n].id] = NoRow
  <2>1. NamedBalances[n] = NoRow /\ NamedBalances' = [NamedBalances EXCEPT ![n] = StartBalance]
    BY <1>4, <1>5, <1>6 DEF NamedBalances
  <2>2. Named!OpenAccount(n)
    BY <1>1, <2>1 DEF Named!OpenAccount, NamedBalances, NamedCalls
  <2>3. QED BY <1>9, <2>2 DEF Named!Next
<1>7. CASE balances[users[n].id] # NoRow
  <2>1. NamedBalances' = NamedBalances
    BY <1>4, <1>5, <1>7 DEF NamedBalances
  <2>2. CASE reply' = reply
    BY <1>1, <2>1, <2>2 DEF Named!vars, NamedCalls, NamedBalances
  <2>3. CASE \E r \in Requests : Named!Answer(r, "Internal")
    BY <1>1, <1>9, <2>1, <2>3 DEF Named!Next, NamedCalls, NamedBalances
  <2>4. QED BY <1>9, <2>2, <2>3
<1>8. QED BY <1>6, <1>7

LEMMA AnswerRefines ==
  ASSUME MerchInv, [Next]_vars, NEW r \in Requests, NEW code \in Ledger!Codes,
         Ledger!Answer(r, code), UNCHANGED <<auth, balances, transactions, purchases>>
  PROVE  [Named!Next]_Named!vars
<1>1. /\ NamedCalls' = NamedCalls /\ NamedTransactions' = NamedTransactions
      /\ NamedPurchases' = NamedPurchases
  BY CallsStay, NamedRowsSame
<1>2. NamedBalances' = NamedBalances
  BY NamedBalancesAfter DEF NamedBalances
<1>3. Named!Answer(r, code) /\ code \in Named!Codes
  BY SameCodes DEF Named!Answer, Ledger!Answer
<1>4. QED BY <1>1, <1>2, <1>3 DEF Named!Next, NamedBalances, NamedCalls

\* A step that tells nobody anything and leaves the tables alone.
LEMMA HiddenStep ==
  ASSUME MerchInv, [Next]_vars, UNCHANGED store
  PROVE  [Named!Next]_Named!vars
<1>1. /\ NamedCalls' = NamedCalls /\ NamedTransactions' = NamedTransactions
      /\ NamedPurchases' = NamedPurchases /\ reply' = reply
  BY CallsStay, NamedRowsSame DEF store
<1>2. NamedBalances' = NamedBalances
  BY NamedBalancesAfter DEF NamedBalances, store
<1>3. QED BY <1>1, <1>2 DEF Named!vars, NamedCalls, NamedBalances

LEMMA TransferRefines ==
  ASSUME MerchInv, [Next]_vars, NEW r \in Requests, Pay(r), asked[r].op = "SendCoins"
  PROVE  Named!Transfer(r)
<1> DEFINE from == Caller(r)
           to == asked[r].to
           amount == asked[r].amount
<1>1. MerchTypes /\ Acc!AuthInv
  BY DEF MerchInv
<1>2. /\ stage[r] = "pay" /\ UNCHANGED <<auth, status, calls>>
      /\ reply[r] \notin Named!Refusals
      /\ reply' \in {reply, [reply EXCEPT ![r] = IF @ = "none" THEN "OK" ELSE @]}
      /\ Transfers(r, userID[r], toUserID[r], amount)
  BY <1>1, PayDoes, SameCodes
<1>3. /\ from \in Names /\ Auth!Registered(from) /\ userID[r] = users[from].id
      /\ to \in Names /\ Auth!Registered(to) /\ toUserID[r] = users[to].id
      /\ to # from /\ amount \in Nat
  BY <1>1, <1>2, AskTypes, CallerHasAccount DEF MerchInv, BearerInv, RequestInv, Known
<1>4. NamedCalls[r] = [op |-> "SendCoins", user |-> from, to |-> to, amount |-> amount]
  BY DEF NamedCalls, NamedAsk
<1>5. ~Named!Happened(r)
  BY <1>2, SameCodes DEF Transfers, PaysFor, Ledger!Happened
<1>6. /\ NamedBalances[from] = balances[userID[r]] /\ NamedBalances[to] = balances[toUserID[r]]
      /\ balances[userID[r]] \in 0 .. MaxInt /\ balances[toUserID[r]] \in 0 .. MaxInt
      /\ balances[userID[r]] >= amount /\ balances[toUserID[r]] + amount <= MaxInt
  BY <1>2, <1>3 DEF NamedBalances, Transfers, PaysFor
<1>7. NamedBalances' = [NamedBalances EXCEPT ![from] = @ - amount, ![to] = @ + amount]
  <2>1. ASSUME NEW m \in Names, Auth!Registered(m)
        PROVE  balances'[users[m].id] = IF m = from THEN balances[users[m].id] - amount
                                        ELSE IF m = to THEN balances[users[m].id] + amount
                                        ELSE balances[users[m].id]
    <3>1. users[m].id \in Ids /\ Owners(users[m].id) = {m}
      BY <1>1, <2>1, OneOwner
    <3>2. Owners(users[from].id) = {from} /\ Owners(users[to].id) = {to}
      BY <1>1, <1>3, OneOwner
    <3>3. /\ users[m].id = userID[r] <=> m = from
          /\ users[m].id = toUserID[r] <=> m = to
      BY <1>3, <3>1, <3>2
    <3>4. balances' = [balances EXCEPT ![userID[r]] = @ - amount, ![toUserID[r]] = @ + amount]
      BY <1>2 DEF Transfers
    <3>5. balances \in [Ids -> 0 .. MaxInt \cup {NoRow}] /\ userID[r] # toUserID[r]
      BY <1>1, <1>2 DEF MerchTypes, Transfers
    <3>6. QED BY <1>3, <3>1, <3>3, <3>4, <3>5
  <2>2. NamedBalances' = [m \in Names |->
           IF Auth!Registered(m) THEN balances'[users[m].id] ELSE NoRow]
    BY <1>2, NamedBalancesAfter
  <2>3. QED BY <1>3, <2>1, <2>2 DEF NamedBalances
<1>8. NamedTransactions' = NamedTransactions \cup
         {[id |-> r, from_user_id |-> from, to_user_id |-> to, amount |-> amount]}
  <2> DEFINE new == [id |-> r, from_user_id |-> userID[r], to_user_id |-> toUserID[r],
                     amount |-> amount]
  <2>1. transactions' = transactions \cup {new}
    BY <1>2 DEF Transfers
  <2>2. ASSUME NEW row, row = new
        PROVE  NameOf(row.from_user_id)' = from /\ NameOf(row.to_user_id)' = to
    <3>1. row.from_user_id = users[from].id /\ row.to_user_id = users[to].id
      BY <1>3, <2>2
    <3>2. QED BY <1>3, <3>1, NamesStay
  <2>3. ASSUME NEW row \in transactions
        PROVE  /\ NameOf(row.from_user_id)' = NameOf(row.from_user_id)
               /\ NameOf(row.to_user_id)' = NameOf(row.to_user_id)
    BY NamedRowsStay
  <2>4. NamedTransactions' =
          {[id |-> row.id, from_user_id |-> NameOf(row.from_user_id)',
            to_user_id |-> NameOf(row.to_user_id)', amount |-> row.amount] : row \in transactions'}
    BY DEF NamedTransactions
  <2>5. NamedTransactions' =
          {[id |-> row.id, from_user_id |-> NameOf(row.from_user_id)',
            to_user_id |-> NameOf(row.to_user_id)', amount |-> row.amount] : row \in transactions}
          \cup {[id |-> row.id, from_user_id |-> NameOf(row.from_user_id)',
                 to_user_id |-> NameOf(row.to_user_id)', amount |-> row.amount] : row \in {new}}
    BY <2>1, <2>4
  <2>6. {[id |-> row.id, from_user_id |-> NameOf(row.from_user_id)',
          to_user_id |-> NameOf(row.to_user_id)', amount |-> row.amount] : row \in transactions}
          = NamedTransactions
    BY <2>3 DEF NamedTransactions
  <2>7. {[id |-> row.id, from_user_id |-> NameOf(row.from_user_id)',
          to_user_id |-> NameOf(row.to_user_id)', amount |-> row.amount] : row \in {new}}
          = {[id |-> r, from_user_id |-> from, to_user_id |-> to, amount |-> amount]}
    BY <2>2
  <2>8. QED BY <2>5, <2>6, <2>7
<1>9. NamedPurchases' = NamedPurchases /\ NamedCalls' = NamedCalls
  BY <1>2, CallsStay, NamedRowsSame DEF Transfers
<1> HIDE DEF from, to, amount
<1>10. NamedBalances[from] # NoRow /\ NamedBalances[to] # NoRow
  BY <1>6, SystemAssumption
<1>11. QED
  BY <1>2, <1>3, <1>4, <1>5, <1>6, <1>7, <1>8, <1>9, <1>10
     DEF Named!Transfer, Named!IsSend, Named!MayAcknowledge, NamedBalances, NamedCalls

LEMMA PurchaseRefines ==
  ASSUME MerchInv, [Next]_vars, NEW r \in Requests, Pay(r), asked[r].op = "BuyItem"
  PROVE  Named!Purchase(r)
<1> DEFINE from == Caller(r)
           good == asked[r].good
           cost == Price[good]
<1>1. MerchTypes /\ Acc!AuthInv
  BY DEF MerchInv
<1>2. /\ stage[r] = "pay" /\ UNCHANGED <<auth, status, calls>>
      /\ reply[r] \notin Named!Refusals
      /\ reply' \in {reply, [reply EXCEPT ![r] = IF @ = "none" THEN "OK" ELSE @]}
      /\ Purchases(r, userID[r], good)
  BY <1>1, PayDoes, SameCodes
<1>3. /\ from \in Names /\ Auth!Registered(from) /\ userID[r] = users[from].id
      /\ good \in Goods /\ cost \in Nat
  BY <1>2, CallerHasAccount, SystemAssumption DEF MerchInv, BearerInv, Known, Purchases
<1>4. NamedCalls[r] = [op |-> "BuyItem", user |-> from, good |-> good]
  BY DEF NamedCalls, NamedAsk
<1>5. ~Named!Happened(r)
  BY <1>2, SameCodes DEF Purchases, PaysFor, Ledger!Happened
<1>6. /\ NamedBalances[from] = balances[userID[r]]
      /\ balances[userID[r]] \in 0 .. MaxInt /\ balances[userID[r]] >= cost
  BY <1>2, <1>3 DEF NamedBalances, Purchases, PaysFor
<1>7. NamedBalances' = [NamedBalances EXCEPT ![from] = @ - cost]
  <2>1. ASSUME NEW m \in Names, Auth!Registered(m)
        PROVE  balances'[users[m].id] = IF m = from THEN balances[users[m].id] - cost
                                                    ELSE balances[users[m].id]
    <3>1. users[m].id \in Ids /\ Owners(users[m].id) = {m} /\ Owners(users[from].id) = {from}
      BY <1>1, <1>3, <2>1, OneOwner
    <3>2. users[m].id = userID[r] <=> m = from
      BY <1>3, <3>1
    <3>3. balances' = [balances EXCEPT ![userID[r]] = @ - cost]
      BY <1>2 DEF Purchases
    <3>4. balances \in [Ids -> 0 .. MaxInt \cup {NoRow}]
      BY <1>1 DEF MerchTypes
    <3>5. QED BY <3>1, <3>2, <3>3, <3>4
  <2>2. NamedBalances' = [m \in Names |->
           IF Auth!Registered(m) THEN balances'[users[m].id] ELSE NoRow]
    BY <1>2, NamedBalancesAfter
  <2>3. QED BY <1>3, <2>1, <2>2 DEF NamedBalances
<1>8. NamedPurchases' = NamedPurchases \cup {[id |-> r, user_id |-> from, good_id |-> good]}
  <2> DEFINE new == [id |-> r, user_id |-> userID[r], good_id |-> good]
  <2>1. purchases' = purchases \cup {new}
    BY <1>2 DEF Purchases
  <2>2. ASSUME NEW row, row = new
        PROVE  NameOf(row.user_id)' = from
    <3>1. row.user_id = users[from].id
      BY <1>3, <2>2
    <3>2. QED BY <1>3, <3>1, NamesStay
  <2>3. ASSUME NEW row \in purchases
        PROVE  NameOf(row.user_id)' = NameOf(row.user_id)
    BY NamedRowsStay
  <2>4. NamedPurchases' =
          {[id |-> row.id, user_id |-> NameOf(row.user_id)', good_id |-> row.good_id] :
             row \in purchases'}
    BY DEF NamedPurchases
  <2>5. NamedPurchases' =
          {[id |-> row.id, user_id |-> NameOf(row.user_id)', good_id |-> row.good_id] :
             row \in purchases}
          \cup {[id |-> row.id, user_id |-> NameOf(row.user_id)', good_id |-> row.good_id] :
                  row \in {new}}
    BY <2>1, <2>4
  <2>6. {[id |-> row.id, user_id |-> NameOf(row.user_id)', good_id |-> row.good_id] :
           row \in purchases} = NamedPurchases
    BY <2>3 DEF NamedPurchases
  <2>7. {[id |-> row.id, user_id |-> NameOf(row.user_id)', good_id |-> row.good_id] :
           row \in {new}} = {[id |-> r, user_id |-> from, good_id |-> good]}
    BY <2>2
  <2>8. QED BY <2>5, <2>6, <2>7
<1>9. NamedTransactions' = NamedTransactions /\ NamedCalls' = NamedCalls
  BY <1>2, CallsStay, NamedRowsSame DEF Purchases
<1> HIDE DEF from, good, cost
<1>10. NamedBalances[from] # NoRow
  BY <1>6, SystemAssumption
<1>11. QED
  BY <1>2, <1>3, <1>4, <1>5, <1>6, <1>7, <1>8, <1>9, <1>10
     DEF Named!Purchase, Named!IsSend, Named!MayAcknowledge, NamedBalances, NamedCalls, cost
-----------------------------------------------------------------------------
LEMMA NamedInit == Init => Named!Init
<1> SUFFICES ASSUME Init PROVE Named!Init
  OBVIOUS
<1>1. NamedCalls \in [Requests -> {NamedAsk(n, ask) : n \in Names, ask \in Asks}]
  <2>1. ASSUME NEW r \in Requests PROVE Caller(r) \in Names /\ asked[r] \in Asks
    BY MerchInit DEF Init, MerchInv, MerchTypes, Acc!AuthInv, Acc!TypeOK, Caller
  <2>2. QED BY <2>1 DEF NamedCalls
<1>2. NamedBalances = [n \in Names |-> NoRow]
  BY DEF Init, Auth!Init, Auth!Registered, NamedBalances
<1>3. NamedTransactions = {} /\ NamedPurchases = {} /\ reply = [r \in Requests |-> "none"]
  BY DEF Init, NamedTransactions, NamedPurchases
<1>4. QED BY <1>1, <1>2, <1>3 DEF Named!Init, NamedCalls, NamedBalances

\* What the handler answers, and what the caller makes of a deadline.
LEMMA AnswersAreLedgers ==
  ASSUME NEW r \in Requests, Answer(r) \/ CallEnds(r)
  PROVE  reply' = reply \/ \E code \in Ledger!Codes : Ledger!Answer(r, code)
BY DEF Answer, CallEnds, Tell, Codes, Ledger!Codes, Ledger!Refusals, Ledger!Unknowns

\* Whoever opens an account has the id of a name, and knows no worse answer than Internal.
LEMMA OpeningRefines ==
  ASSUME MerchInv, [Next]_vars, NEW x \in Requests \cup Looks, OpensFor(x), UNCHANGED auth,
         reply' = reply \/ (x \in Requests /\ Answer(x))
  PROVE  [Named!Next]_Named!vars
<1>1. stage[x] \in {"ensure", "ensureTo"}
  BY DEF OpensFor
<1>2. reply' = reply \/ \E r \in Requests : Ledger!Answer(r, "Internal")
  BY <1>1 DEF Answer, Codes, Tell
<1>3. CASE stage[x] = "ensure" /\ Opens(userID[x])
  <2>1. /\ Caller(x) \in Names /\ Auth!Registered(Caller(x))
        /\ userID[x] = users[Caller(x)].id
    BY <1>3, CallerHasAccount DEF MerchInv, BearerInv, Known
  <2>2. QED BY <1>2, <1>3, <2>1, OpensRefines
<1>4. CASE x \in Requests /\ stage[x] = "ensureTo" /\ Opens(toUserID[x])
  <2>1. /\ asked[x].to \in Names /\ Auth!Registered(asked[x].to)
        /\ toUserID[x] = users[asked[x].to].id
    BY <1>4, AskTypes DEF MerchInv, RequestInv
  <2>2. QED BY <1>2, <1>4, <2>1, OpensRefines
<1>5. QED BY <1>3, <1>4 DEF OpensFor

LEMMA NamedStep ==
  ASSUME MerchInv, [Next]_vars
  PROVE  [Named!Next]_Named!vars
<1>1. CASE UNCHANGED store
  BY <1>1, HiddenStep
<1>2. ASSUME NEW r \in Requests, Answer(r) \/ CallEnds(r),
             UNCHANGED <<auth, balances, transactions, purchases>>
      PROVE  [Named!Next]_Named!vars
  BY <1>1, <1>2, AnswersAreLedgers, AnswerRefines DEF store
<1>3. ASSUME NEW r \in Requests, Pay(r)
      PROVE  [Named!Next]_Named!vars
  <2>1. asked[r].op \in {"SendCoins", "BuyItem"}
    BY AskTypes DEF MerchInv
  <2>2. Named!Transfer(r) \/ Named!Purchase(r)
    BY <1>3, <2>1, TransferRefines, PurchaseRefines
  <2>3. QED BY <2>2 DEF Named!Next
<1>4. ASSUME NEW x \in Requests \cup Looks,
             \/ BalanceInterceptor(x) \/ (x \in Requests /\ EnsureRecipient(x))
             \/ (x \in Looks /\ LookFails(x))
      PROVE  [Named!Next]_Named!vars
  <2>1. /\ UNCHANGED <<auth, transactions, purchases>>
        /\ UNCHANGED balances \/ OpensFor(x)
    BY <1>4, EnsuringSteps
  <2>2. UNCHANGED reply
    BY <1>4 DEF BalanceInterceptor, EnsureRecipient, LookFails
  <2>3. QED BY <1>1, <2>1, <2>2, OpeningRefines DEF store
<1>5. ASSUME NEW r \in Requests, Answer(r)
      PROVE  [Named!Next]_Named!vars
  <2>1. /\ UNCHANGED <<auth, transactions, purchases>>
        /\ UNCHANGED balances \/ OpensFor(r)
    BY <1>5, EnsuringSteps
  <2>2. CASE UNCHANGED balances
    BY <1>2, <1>5, <2>1, <2>2
  <2>3. CASE OpensFor(r)
    BY <1>5, <2>1, <2>3, OpeningRefines
  <2>4. QED BY <2>1, <2>2, <2>3
<1>6. ASSUME NEW r \in Requests, CallEnds(r)
      PROVE  [Named!Next]_Named!vars
  BY <1>2, <1>6 DEF CallEnds
<1>7. \/ UNCHANGED store
      \/ \E r \in Requests : Pay(r) \/ Answer(r) \/ CallEnds(r)
      \/ \E x \in Requests \cup Looks :
           \/ BalanceInterceptor(x) \/ (x \in Requests /\ EnsureRecipient(x))
           \/ (x \in Looks /\ LookFails(x))
  BY DEF Next, vars, LoginBindingFails, LoginRuns, LoginEnds, Forward, AuthInterceptor,
         FetchUserID, GetGoodInfo, FetchUserCoinTransfers, GetUsernames
<1>8. QED BY <1>1, <1>3, <1>4, <1>5, <1>6, <1>7

(***************************************************************************)
(* ImplementsNamedLedger: logins, tokens, look-ups and rows by id add up   *)
(* to a ledger by name.  Every step opens the account of a name, moves the *)
(* coins of one name to another, answers a call as the ledger might, or    *)
(* does nothing that a client can see.                                     *)
(***************************************************************************)
THEOREM NamedRefinement == Spec => ImplementsNamedLedger
<1>1. MerchInv /\ [Next]_vars => [Named!Next]_Named!vars
  BY NamedStep
<1>2. QED BY <1>1, NamedInit, Invariance, PTL DEF Spec, ImplementsNamedLedger, Named!Spec
=============================================================================

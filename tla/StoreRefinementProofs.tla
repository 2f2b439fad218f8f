------------------------ MODULE StoreRefinementProofs ------------------------
(***************************************************************************)
(* StoreTx implements StoreLedger, proved for every set of users, goods,   *)
(* prices and calls.  COMMIT, whether its result reaches the handler or    *)
(* not, is the step that transfers or buys; every other statement is a     *)
(* stutter, the opening of an account, an answer, or the last two at once. *)
(* That the books balance then follows from the steps of the ledger alone. *)
(***************************************************************************)
EXTENDS StoreTxProofs, FiniteSetTheorems

\* The two modules share their data, and so the codes.
LEMMA SameCodes == Ledger!Codes = Codes /\ Ledger!Refusals = Refusals
BY DEF Ledger!Codes, Ledger!Refusals, Ledger!Unknowns, Codes, Refusals, Unknowns

(***************************************************************************)
(* An answer of the handler is an answer of the ledger, unless the caller  *)
(* had stopped listening.                                                  *)
(***************************************************************************)
LEMMA ReturnAnswers ==
  ASSUME TxInv, NEW q \in Reqs, NEW code \in Codes \ {"OK"}, ~Recorded(q),
         reply' = [reply EXCEPT ![q] = IF @ = "none" THEN code ELSE @]
  PROVE  reply' = reply \/ Ledger!Answer(q, code)
BY SameCodes DEF TxInv, TypeOK, Ledger!Answer, Ledger!Happened, Recorded

LEMMA AnswerStep ==
  ASSUME NEW q \in Reqs, NEW code \in Codes, Ledger!Answer(q, code) \/ reply' = reply,
         UNCHANGED <<call, tables>>
  PROVE  [Ledger!Next]_Ledger!vars
BY SameCodes DEF Ledger!Next, Ledger!vars, tables

\* A statement that nobody outside the transaction can see.
LEMMA HiddenStep ==
  ASSUME UNCHANGED <<call, reply, tables>>
  PROVE  [Ledger!Next]_Ledger!vars
BY DEF Ledger!vars, tables

\* An autocommitted INSERT INTO balances opens an account, or does nothing.
LEMMA EnsureOpensAccount ==
  ASSUME TxInv, NEW u \in Users, EnsureBalanceCreated(u),
         UNCHANGED <<call, transactions, purchases>>
  PROVE  balances' = balances \/ Ledger!OpenAccount(u)
BY DEF EnsureBalanceCreated, Ledger!OpenAccount

LEMMA EnsureRefines ==
  ASSUME TxInv, NEW q \in Reqs, NEW u \in Users, EnsureBalanceCreated(u) \/ UNCHANGED balances,
         UNCHANGED <<call, transactions, purchases>>,
         reply' = reply \/ Ledger!Answer(q, "Internal")
  PROVE  [Ledger!Next]_Ledger!vars
<1>1. balances' = balances \/ Ledger!OpenAccount(u)
  BY EnsureOpensAccount
<1>2. "Internal" \in Codes
  BY DEF Codes, Unknowns
<1>3. CASE balances' = balances
  <2>1. UNCHANGED <<call, tables>>
    BY <1>3 DEF tables
  <2>2. QED BY <1>2, <2>1, AnswerStep
<1>4. CASE Ledger!OpenAccount(u)
  BY <1>4 DEF Ledger!Next
<1>5. QED BY <1>1, <1>3, <1>4

(***************************************************************************)
(* COMMIT moves the coins of its own call, and nothing else.               *)
(***************************************************************************)
LEMMA PublishedBalances ==
  ASSUME TxInv, NEW q \in Reqs, Publish(q), Written(q) = Referenced(call[q])
  PROVE  /\ \A u \in Users \ Referenced(call[q]) : balances'[u] = balances[u]
         /\ \A u \in Referenced(call[q]) \cap Users :
              /\ balances[u] \in Balance /\ balances'[u] \in Balance
              /\ balances'[u] = balances[u] + Delta(q, u)
<1>1. balances' = [u \in Users |-> Visible(q, u)]
  BY DEF Publish
<1>2. ASSUME NEW u \in Users \ Referenced(call[q])
      PROVE  balances'[u] = balances[u]
  BY <1>1, <1>2 DEF Visible, Written
<1>3. ASSUME NEW u \in Referenced(call[q]) \cap Users
      PROVE  /\ balances[u] \in Balance /\ balances'[u] \in Balance
             /\ balances'[u] = balances[u] + Delta(q, u)
  <2>1. work[q][u] # NoRow
    BY DEF Written
  <2>2. balances[u] # NoRow /\ work[q][u] = balances[u] + Delta(q, u)
    BY <2>1, About DEF WorkInv
  <2>3. QED BY <1>1, <2>1, <2>2 DEF Visible, TxInv, TypeOK
<1>4. QED BY <1>2, <1>3

LEMMA PublishRefines ==
  ASSUME TxInv, NEW q \in Reqs, Publish(q), call' = call,
         pc[q] = "commit" \/ tx[q] = "committing",
         reply' = reply \/ reply' = [reply EXCEPT ![q] = IF @ = "none" THEN "OK" ELSE @]
  PROVE  Ledger!Transfer(q) \/ Ledger!Purchase(q)
<1> DEFINE c == call[q]
<1>1. /\ Written(q) = Referenced(c) /\ c.user \in Users
      /\ Cost(c) \in Nat /\ ~Recorded(q) /\ reply[q] \notin Refusals
      /\ IsSend(c) => c.to \in Users \ {c.user} /\ c.amount \in Nat
      /\ ~IsSend(c) => c.good \in Goods
  BY About, Resolved DEF StageInv, AnswerInv, SessionInv, LookupInv, Refusals, Unknowns
<1>2. ~Ledger!Happened(q) /\ Ledger!MayAcknowledge(q)
  BY <1>1 DEF Ledger!Happened, Ledger!MayAcknowledge, Recorded
<1>3. balances \in [Users -> Balance \cup {NoRow}] /\ balances' = [u \in Users |-> Visible(q, u)]
  BY DEF TxInv, TypeOK, Publish
<1>4. /\ c.user \in Referenced(c) /\ (IsSend(c) => c.to \in Referenced(c))
      /\ \A u \in Users \ Referenced(c) : balances'[u] = balances[u]
      /\ \A u \in Referenced(c) \cap Users :
           /\ balances[u] \in Balance /\ balances'[u] \in Balance
           /\ balances'[u] = balances[u] + Delta(q, u)
  BY <1>1, PublishedBalances DEF Referenced
<1>5. CASE IsSend(c)
  <2>1. Delta(q, c.user) = 0 - c.amount /\ Delta(q, c.to) = c.amount
    BY <1>1, <1>5 DEF Delta, Cost
  <2>2. /\ balances[c.user] \in Balance /\ balances'[c.user] \in Balance
        /\ balances'[c.user] = balances[c.user] - c.amount
    <3>1. c.user \in Referenced(c) \cap Users /\ c.amount \in Nat
      BY <1>1, <1>4, <1>5
    <3>2. /\ balances[c.user] \in Balance /\ balances'[c.user] \in Balance
          /\ balances'[c.user] = balances[c.user] + (0 - c.amount)
      BY <1>4, <2>1, <3>1
    <3>3. QED BY <3>1, <3>2 DEF Balance
  <2>3. /\ balances[c.to] \in Balance /\ balances'[c.to] \in Balance
        /\ balances'[c.to] = balances[c.to] + c.amount
    BY <1>1, <1>4, <1>5, <2>1
  <2>4. balances[c.user] # NoRow /\ balances[c.user] >= c.amount
    BY <1>1, <1>5, <2>2, DataAssumption DEF Balance
  <2>5. balances[c.to] # NoRow /\ balances[c.to] + c.amount <= MaxInt
    BY <1>1, <1>5, <2>3, DataAssumption DEF Balance
  <2>6. balances' = [balances EXCEPT ![c.user] = @ - c.amount, ![c.to] = @ + c.amount]
    <3>1. ASSUME NEW u \in Users
          PROVE  balances'[u] =
                   [balances EXCEPT ![c.user] = @ - c.amount, ![c.to] = @ + c.amount][u]
      BY <1>1, <1>3, <1>4, <1>5, <2>2, <2>3 DEF Referenced
    <3>2. QED BY <1>3, <3>1
  <2>7. Ledger!Transfer(q)
    BY <1>1, <1>2, <1>5, <2>4, <2>5, <2>6, SameCodes
       DEF Ledger!Transfer, Ledger!IsSend, IsSend, Publish, TransferRow
  <2>8. QED BY <2>7
<1>6. CASE ~IsSend(c)
  <2>1. Delta(q, c.user) = 0 - Price[c.good]
    BY <1>1, <1>6, DataAssumption DEF Delta, Cost
  <2>2. /\ balances[c.user] \in Balance /\ balances'[c.user] \in Balance
        /\ balances'[c.user] = balances[c.user] - Price[c.good] /\ Price[c.good] \in Nat
    BY <1>1, <1>4, <1>6, <2>1 DEF Balance, Cost
  <2>3. balances[c.user] # NoRow /\ balances[c.user] >= Price[c.good]
    BY <2>2, DataAssumption DEF Balance
  <2>4. balances' = [balances EXCEPT ![c.user] = @ - Price[c.good]]
    BY <1>1, <1>3, <1>4, <1>6, <2>2 DEF Referenced
  <2>5. Ledger!Purchase(q)
    BY <1>1, <1>2, <1>6, <2>3, <2>4, SameCodes
       DEF Ledger!Purchase, Ledger!IsSend, IsSend, Publish, PurchaseRow
  <2>6. QED BY <2>5
<1>7. QED BY <1>5, <1>6

-----------------------------------------------------------------------------
LEMMA RefinementStep ==
  ASSUME TxInv, [Next]_vars
  PROVE  [Ledger!Next]_Ledger!vars
<1>1. ASSUME NEW q \in Reqs,
             \/ AuthInterceptor(q) \/ GetGoodInfo(q) \/ BeginTx(q) \/ LockAndGetUserBalance(q)
             \/ Debit(q) \/ Credit(q) \/ InsertRecord(q) \/ StatementFails(q)
             \/ DeadlockDetected(q) \/ ServerAborts(q)
      PROVE  [Ledger!Next]_Ledger!vars
  BY <1>1, HiddenStep
     DEF AuthInterceptor, GetGoodInfo, BeginTx, LockAndGetUserBalance, Debit, Credit,
         InsertRecord, StatementFails, DeadlockDetected, ServerAborts
<1>2. ASSUME NEW q \in Reqs, BalanceInterceptor(q) \/ BalanceInterceptorFails(q)
      PROVE  [Ledger!Next]_Ledger!vars
  <2>1. call[q].user \in Users /\ ~Recorded(q)
    BY <1>2, About DEF BalanceInterceptor, BalanceInterceptorFails, AnswerInv
  <2>2. reply' = reply \/ Ledger!Answer(q, "Internal")
    BY <1>2, <2>1, ReturnAnswers
       DEF BalanceInterceptor, BalanceInterceptorFails, Return, Codes, Unknowns
  <2>3. QED BY <1>2, <2>1, <2>2, EnsureRefines DEF BalanceInterceptor, BalanceInterceptorFails
<1>3. ASSUME NEW q \in Reqs, EnsureRecipient(q) \/ EnsureRecipientFails(q)
      PROVE  [Ledger!Next]_Ledger!vars
  <2>1. call[q].to \in Users /\ ~Recorded(q)
    BY <1>3, About DEF EnsureRecipient, EnsureRecipientFails, AnswerInv, LookupInv
  <2>2. reply' = reply \/ Ledger!Answer(q, "Internal")
    BY <1>3, <2>1, ReturnAnswers DEF EnsureRecipient, EnsureRecipientFails, Return, Codes, Unknowns
  <2>3. QED BY <1>3, <2>1, <2>2, EnsureRefines DEF EnsureRecipient, EnsureRecipientFails
<1>4. ASSUME NEW q \in Reqs,
             \/ AuthInterceptorRejects(q) \/ GetGoodInfoFails(q) \/ FetchUserID(q)
             \/ FetchUserIDFails(q) \/ BeginTxFails(q) \/ CommitFails(q) \/ Rollback(q)
             \/ CallerGivesUp(q)
      PROVE  [Ledger!Next]_Ledger!vars
  <2>1. UNCHANGED <<call, tables>>
    BY <1>4 DEF AuthInterceptorRejects, GetGoodInfoFails, FetchUserID, FetchUserIDFails,
                BeginTxFails, CommitFails, Rollback, CallerGivesUp
  <2>2. CASE CallerGivesUp(q)
    <3>1. Ledger!Answer(q, "DeadlineExceeded") /\ "DeadlineExceeded" \in Codes
      BY <2>2 DEF CallerGivesUp, Ledger!Answer, Ledger!Refusals, Refusals, Codes, Unknowns
    <3>2. QED BY <2>1, <3>1, AnswerStep
  <2>3. CASE ~CallerGivesUp(q)
    <3>1. /\ ~Recorded(q)
          /\ \/ reply' = reply
             \/ \E code \in Codes \ {"OK"} :
                  reply' = [reply EXCEPT ![q] = IF @ = "none" THEN code ELSE @]
      BY <1>4, <2>3, About
         DEF AuthInterceptorRejects, GetGoodInfoFails, FetchUserID, FetchUserIDFails, BeginTxFails,
             CommitFails, Rollback, Return, AnswerInv, SessionInv, Codes, Refusals, Unknowns
    <3>2. CASE reply' = reply
      BY <2>1, <3>2, HiddenStep
    <3>3. CASE \E code \in Codes \ {"OK"} :
                 reply' = [reply EXCEPT ![q] = IF @ = "none" THEN code ELSE @]
      <4>1. PICK code \in Codes \ {"OK"} :
                   reply' = [reply EXCEPT ![q] = IF @ = "none" THEN code ELSE @]
        BY <3>3
      <4>2. reply' = reply \/ Ledger!Answer(q, code)
        BY <3>1, <4>1, ReturnAnswers
      <4>3. QED BY <2>1, <4>2, AnswerStep
    <3>4. QED BY <3>1, <3>2, <3>3
  <2>4. QED BY <2>2, <2>3
<1>5. ASSUME NEW q \in Reqs, Commit(q) \/ ServerCommits(q)
      PROVE  [Ledger!Next]_Ledger!vars
  <2>1. Ledger!Transfer(q) \/ Ledger!Purchase(q)
    BY <1>5, PublishRefines DEF Commit, ServerCommits, Return
  <2>2. QED BY <2>1 DEF Ledger!Next
<1>6. CASE UNCHANGED vars
  BY <1>6, HiddenStep DEF vars
<1>7. QED
  BY <1>1, <1>2, <1>3, <1>4, <1>5, <1>6 DEF Next, Handler, Server, Caller

LEMMA RefinementInit == Init => Ledger!Init
BY DEF Init, Ledger!Init

(***************************************************************************)
(* The transactions of BuyItem and SendCoins, with their locks, failures,  *)
(* lost COMMITs and impatient callers, are atomic transfers and purchases, *)
(* each at most once and covered by the balance, and the answers of the    *)
(* service are true of them.                                               *)
(***************************************************************************)
THEOREM Refinement == Spec => ImplementsLedger
BY RefinementInit, RefinementStep, TxInvariant, PTL DEF Spec, ImplementsLedger, Ledger!Spec

-----------------------------------------------------------------------------
(***************************************************************************)
(* Sums over finite sets.  AmountOf and PriceOf are folds, which take the  *)
(* elements of a set in an order of their own; here that order is shown    *)
(* not to matter.  A counterexample is always taken at a smallest subset,  *)
(* which exists because strict inclusion is well-founded on the subsets of *)
(* a finite set.                                                           *)
(***************************************************************************)
LEMMA SmallestSubset ==
  ASSUME NEW S, IsFiniteSet(S), NEW T, T \subseteq SUBSET S, T # {}
  PROVE  \E x \in T : \A y \in T : y \subseteq x => y = x
<1>1. FiniteSubsetsOf(S) = SUBSET S
  BY FS_FiniteSubsetsOfFinite
<1>2. IsWellFoundedOn(StrictSubsetOrdering(S), SUBSET S)
  BY <1>1, FS_StrictSubsetOrderingWellFounded
<1>3. PICK x \in T : \A y \in T : <<y, x>> \notin StrictSubsetOrdering(S)
  BY <1>2, WFMin
<1>4. ASSUME NEW y \in T, y \subseteq x PROVE y = x
  <2>1. x \in SUBSET S /\ y \in SUBSET S
    OBVIOUS
  <2>2. <<y, x>> \in (SUBSET S) \X (SUBSET S)
    BY <2>1
  <2>3. <<y, x>>[1] = y /\ <<y, x>>[2] = x
    OBVIOUS
  <2>4. QED BY <1>3, <1>4, <2>2, <2>3 DEF StrictSubsetOrdering
<1>5. QED BY <1>3, <1>4

\* The element a fold over s takes first.
First(s) == CHOOSE x \in s : TRUE

\* f[s] is the sum of v over s, for every subset s of S.
Sums(v, S, f) ==
    f = [s \in SUBSET S |-> IF s = {} THEN 0 ELSE v[First(s)] + f[s \ {First(s)}]]

LEMMA FirstOf ==
  ASSUME NEW s, s # {}
  PROVE  First(s) \in s /\ s \ {First(s)} \subseteq s /\ s \ {First(s)} # s
BY DEF First

LEMMA SumsAt ==
  ASSUME NEW v, NEW S, NEW f, Sums(v, S, f), NEW s, s \subseteq S
  PROVE  /\ s = {} => f[s] = 0
         /\ s # {} => f[s] = v[First(s)] + f[s \ {First(s)}]
BY DEF Sums

\* There is one such function, whatever set its subsets are taken from.
LEMMA SumsAgree ==
  ASSUME NEW v, NEW S, IsFiniteSet(S), NEW T, NEW f, NEW g, Sums(v, S, f), Sums(v, T, g),
         NEW r, r \subseteq S, r \subseteq T
  PROVE  f[r] = g[r]
<1> DEFINE bad == {s \in SUBSET r : f[s] # g[s]}
<1>1. SUFFICES ASSUME bad # {} PROVE FALSE
  OBVIOUS
<1>2. IsFiniteSet(r)
  BY FS_Subset
<1>3. bad \subseteq SUBSET r /\ \A s \in SUBSET r : s \in bad <=> f[s] # g[s]
  OBVIOUS
<1> HIDE DEF bad
<1>4. PICK s \in bad : \A t \in bad : t \subseteq s => t = s
  BY <1>1, <1>2, <1>3, SmallestSubset
<1>5. s \subseteq r /\ s \subseteq S /\ s \subseteq T /\ f[s] # g[s]
  BY <1>3
<1>6. s # {}
  BY <1>5, SumsAt
<1> DEFINE t == s \ {First(s)}
<1>7. t \subseteq s /\ t # s
  BY <1>6, FirstOf
<1>8. t \in SUBSET r /\ t \notin bad
  BY <1>4, <1>5, <1>7
<1>9. f[t] = g[t]
  BY <1>3, <1>8
<1>10. f[s] = v[First(s)] + f[t] /\ g[s] = v[First(s)] + g[t]
  BY <1>5, <1>6, SumsAt
<1>11. QED BY <1>5, <1>9, <1>10

LEMMA SumsExist ==
  ASSUME NEW v, NEW S, IsFiniteSet(S)
  PROVE  \E f : Sums(v, S, f)
<1> DEFINE bad == {s \in SUBSET S : ~ \E f : Sums(v, s, f)}
<1>1. SUFFICES ASSUME bad # {} PROVE FALSE
  OBVIOUS
<1>2. bad \subseteq SUBSET S /\ \A s \in SUBSET S : s \in bad <=> ~ \E f : Sums(v, s, f)
  OBVIOUS
<1> HIDE DEF bad
<1>3. PICK M \in bad : \A t \in bad : t \subseteq M => t = M
  BY <1>1, <1>2, SmallestSubset
<1> DEFINE below == (SUBSET M) \ {M}
           h == [t \in below |-> CHOOSE f : Sums(v, t, f)]
<1>4. ASSUME NEW t \in below
      PROVE  Sums(v, t, h[t]) /\ IsFiniteSet(t)
  <2>1. t \in SUBSET S /\ t \notin bad
    BY <1>2, <1>3
  <2>2. \E f : Sums(v, t, f)
    BY <1>2, <2>1
  <2>3. Sums(v, t, CHOOSE f : Sums(v, t, f))
    BY <2>2
  <2>4. IsFiniteSet(t)
    BY <2>1, FS_Subset
  <2>5. QED BY <2>3, <2>4
<1> HIDE DEF h
<1> DEFINE g == [s \in SUBSET M |->
                   IF s = {} THEN 0 ELSE v[First(s)] + h[s \ {First(s)}][s \ {First(s)}]]
<1>5. ASSUME NEW s \in SUBSET M, s # {}
      PROVE  s \ {First(s)} \in below
  BY <1>5, FirstOf
<1>6. ASSUME NEW t \in below
      PROVE  g[t] = h[t][t]
  <2>1. t \in SUBSET M /\ Sums(v, t, h[t]) /\ IsFiniteSet(t)
    BY <1>4
  <2>2. CASE t = {}
    <3>1. h[t][t] = 0
      BY <2>1, <2>2, SumsAt
    <3>2. QED BY <2>1, <2>2, <3>1
  <2>3. CASE t # {}
    <3> DEFINE u == t \ {First(t)}
    <3>1. u \subseteq t /\ u \in below
      BY <2>1, <2>3, <1>5, FirstOf
    <3>2. Sums(v, u, h[u]) /\ IsFiniteSet(u)
      BY <1>4, <3>1
    <3>3. h[t][u] = h[u][u]
      BY <2>1, <3>1, <3>2, SumsAgree
    <3>4. h[t][t] = v[First(t)] + h[t][u]
      BY <2>1, <2>3, SumsAt
    <3>5. g[t] = v[First(t)] + h[u][u]
      BY <2>1, <2>3
    <3>6. QED BY <3>3, <3>4, <3>5
  <2>4. QED BY <2>2, <2>3
<1>7. ASSUME NEW s \in SUBSET M
      PROVE  g[s] = IF s = {} THEN 0 ELSE v[First(s)] + g[s \ {First(s)}]
  <2>1. CASE s = {}
    BY <2>1
  <2>2. CASE s # {}
    <3>1. g[s \ {First(s)}] = h[s \ {First(s)}][s \ {First(s)}]
      BY <1>5, <1>6, <2>2
    <3>2. g[s] = v[First(s)] + h[s \ {First(s)}][s \ {First(s)}]
      BY <2>2
    <3>3. QED BY <2>2, <3>1, <3>2
  <2>3. QED BY <2>1, <2>2
<1>8. g = [s \in SUBSET M |-> g[s]]
  OBVIOUS
<1> HIDE DEF g
<1>9. g = [s \in SUBSET M |-> IF s = {} THEN 0 ELSE v[First(s)] + g[s \ {First(s)}]]
  BY <1>7, <1>8
<1>10. Sums(v, M, g)
  BY <1>9 DEF Sums
<1>11. QED BY <1>2, <1>3, <1>10

\* The sum of v over S.
SumOf(v, S) == (CHOOSE f : Sums(v, S, f))[S]

LEMMA SumIs ==
  ASSUME NEW v, NEW S, IsFiniteSet(S), NEW f, Sums(v, S, f), NEW s, s \subseteq S
  PROVE  f[s] = SumOf(v, s)
<1>1. IsFiniteSet(s)
  BY FS_Subset
<1>2. PICK g : Sums(v, s, g)
  BY <1>1, SumsExist
<1>3. Sums(v, s, CHOOSE h : Sums(v, s, h))
  BY <1>2
<1>4. QED BY <1>1, <1>3, SumsAgree DEF SumOf

LEMMA SumFirst ==
  ASSUME NEW v, NEW S, IsFiniteSet(S)
  PROVE  /\ S = {} => SumOf(v, S) = 0
         /\ S # {} => SumOf(v, S) = v[First(S)] + SumOf(v, S \ {First(S)})
<1>1. PICK f : Sums(v, S, f)
  BY SumsExist
<1>2. SumOf(v, S) = f[S] /\ SumOf(v, S \ {First(S)}) = f[S \ {First(S)}]
  <2>1. S \subseteq S /\ S \ {First(S)} \subseteq S
    OBVIOUS
  <2>2. f[S] = SumOf(v, S)
    BY <1>1, <2>1, SumIs
  <2>3. f[S \ {First(S)}] = SumOf(v, S \ {First(S)})
    BY <1>1, <2>1, SumIs
  <2>4. QED BY <2>2, <2>3
<1>3. QED BY <1>1, <1>2, SumsAt

LEMMA SumType ==
  ASSUME NEW v, NEW S, IsFiniteSet(S), \A x \in S : v[x] \in Int
  PROVE  SumOf(v, S) \in Int
<1> DEFINE bad == {s \in SUBSET S : SumOf(v, s) \notin Int}
<1>1. SUFFICES ASSUME bad # {} PROVE FALSE
  OBVIOUS
<1>2. bad \subseteq SUBSET S /\ \A s \in SUBSET S : s \in bad <=> SumOf(v, s) \notin Int
  OBVIOUS
<1> HIDE DEF bad
<1>3. PICK s \in bad : \A t \in bad : t \subseteq s => t = s
  BY <1>1, <1>2, SmallestSubset
<1>4. s \subseteq S /\ IsFiniteSet(s) /\ SumOf(v, s) \notin Int
  BY <1>2, FS_Subset
<1>5. s # {}
  BY <1>4, SumFirst
<1> DEFINE t == s \ {First(s)}
<1>6. First(s) \in s /\ t \subseteq s /\ t # s
  BY <1>5, FirstOf
<1>7. SumOf(v, t) \in Int /\ v[First(s)] \in Int
  BY <1>2, <1>3, <1>4, <1>6
<1>8. SumOf(v, s) = v[First(s)] + SumOf(v, t)
  BY <1>4, <1>5, SumFirst
<1>9. QED BY <1>4, <1>7, <1>8

\* Any element may be taken first.
LEMMA SumAny ==
  ASSUME NEW v, NEW S, IsFiniteSet(S), \A x \in S : v[x] \in Int, NEW a \in S
  PROVE  SumOf(v, S) = v[a] + SumOf(v, S \ {a})
<1> DEFINE bad == {s \in SUBSET S : \E x \in s : SumOf(v, s) # v[x] + SumOf(v, s \ {x})}
<1>1. SUFFICES ASSUME bad # {} PROVE FALSE
  OBVIOUS
<1>2. /\ bad \subseteq SUBSET S
      /\ \A s \in SUBSET S :
           s \in bad <=> \E x \in s : SumOf(v, s) # v[x] + SumOf(v, s \ {x})
  OBVIOUS
<1> HIDE DEF bad
<1>3. PICK s \in bad : \A t \in bad : t \subseteq s => t = s
  BY <1>1, <1>2, SmallestSubset
<1>4. s \subseteq S /\ IsFiniteSet(s)
  BY <1>2, FS_Subset
<1>5. PICK x \in s : SumOf(v, s) # v[x] + SumOf(v, s \ {x})
  BY <1>2, <1>4
<1> DEFINE c == First(s)
<1>6. c \in s /\ SumOf(v, s) = v[c] + SumOf(v, s \ {c})
  BY <1>4, FirstOf, SumFirst
<1> HIDE DEF c
<1>7. x # c
  BY <1>5, <1>6
<1>8. s \ {c} \notin bad /\ s \ {x} \notin bad
  <2>1. s \ {c} # s /\ s \ {x} # s
    BY <1>6
  <2>2. s \ {c} \subseteq s /\ s \ {x} \subseteq s
    OBVIOUS
  <2>3. QED BY <1>3, <2>1, <2>2
<1>9. /\ SumOf(v, s \ {c}) = v[x] + SumOf(v, (s \ {c}) \ {x})
      /\ SumOf(v, s \ {x}) = v[c] + SumOf(v, (s \ {x}) \ {c})
  <2>1. x \in s \ {c} /\ c \in s \ {x} /\ s \ {c} \in SUBSET S /\ s \ {x} \in SUBSET S
    BY <1>4, <1>6, <1>7
  <2>2. QED BY <1>2, <1>8, <2>1
<1>10. (s \ {c}) \ {x} = (s \ {x}) \ {c}
  OBVIOUS
<1>11. v[x] \in Int /\ v[c] \in Int
  BY <1>4, <1>6
<1>12. SumOf(v, (s \ {x}) \ {c}) \in Int
  <2>1. (s \ {x}) \ {c} \subseteq s
    OBVIOUS
  <2>2. IsFiniteSet((s \ {x}) \ {c}) /\ \A y \in (s \ {x}) \ {c} : v[y] \in Int
    BY <1>4, <2>1, FS_Subset
  <2>3. QED BY <2>2, SumType
<1> DEFINE rest == SumOf(v, (s \ {x}) \ {c})
<1>13. SumOf(v, s) = v[c] + (v[x] + rest) /\ SumOf(v, s \ {x}) = v[c] + rest
  BY <1>6, <1>9, <1>10
<1> HIDE DEF rest
<1>14. rest \in Int
  BY <1>12 DEF rest
<1>15. QED BY <1>5, <1>11, <1>13, <1>14

\* The fold of the books is that sum.
LEMMA AmountIsSum ==
  ASSUME NEW D, NEW S, IsFiniteSet(S), S \subseteq D
  PROVE  AmountOf(S) = SumOf([row \in D |-> row.amount], S)
<1> DEFINE v == [row \in D |-> row.amount]
           A(f) == [s \in SUBSET S |-> IF s = {} THEN 0
                      ELSE (CHOOSE x \in s : TRUE).amount + f[s \ {CHOOSE x \in s : TRUE}]]
<1>1. AmountOf(S) = (CHOOSE f : f = A(f))[S]
  BY DEF AmountOf, MapThenSumSet, MapThenFoldSet
<1>2. ASSUME NEW f
      PROVE  A(f) = [s \in SUBSET S |->
                       IF s = {} THEN 0 ELSE v[First(s)] + f[s \ {First(s)}]]
  <2>1. ASSUME NEW s \in SUBSET S, s # {} PROVE v[First(s)] = (CHOOSE x \in s : TRUE).amount
    <3>1. First(s) \in D
      BY <2>1, FirstOf
    <3>2. QED BY <3>1 DEF First
  <2>2. QED BY <2>1 DEF First
<1> HIDE DEF v
<1>3. ASSUME NEW f PROVE f = A(f) <=> Sums(v, S, f)
  BY <1>2 DEF Sums
<1> HIDE DEF A
<1>4. PICK g : g = A(g)
  BY <1>3, SumsExist
<1>5. (CHOOSE f : f = A(f)) = A(CHOOSE f : f = A(f))
  BY <1>4
<1>6. Sums(v, S, CHOOSE f : f = A(f))
  BY <1>3, <1>5
<1>7. AmountOf(S) = SumOf(v, S)
  BY <1>1, <1>6, SumIs
<1>8. QED BY <1>7 DEF v

LEMMA AmountIsInt ==
  ASSUME NEW S, IsFiniteSet(S), \A row \in S : row.amount \in Int
  PROVE  AmountOf(S) \in Int
<1> DEFINE v == [row \in S |-> row.amount]
<1>1. \A row \in S : v[row] \in Int
  OBVIOUS
<1>2. AmountOf(S) = SumOf(v, S)
  BY AmountIsSum
<1> HIDE DEF v
<1>3. QED BY <1>1, <1>2, SumType

\* A row more is its amount more.
LEMMA AmountAdds ==
  ASSUME NEW S, IsFiniteSet(S), \A row \in S : row.amount \in Int,
         NEW new, new \notin S, new.amount \in Int
  PROVE  /\ AmountOf(S) \in Int
         /\ AmountOf(S \cup {new}) = AmountOf(S) + new.amount
<1> DEFINE D == S \cup {new}
           v == [row \in D |-> row.amount]
<1>1. IsFiniteSet(D) /\ S \subseteq D /\ D \ {new} = S
  BY FS_AddElement
<1>2. (\A row \in D : v[row] \in Int) /\ v[new] = new.amount
  OBVIOUS
<1>3. AmountOf(S) = SumOf(v, S) /\ AmountOf(D) = SumOf(v, D)
  BY <1>1, AmountIsSum
<1>4. SumOf(v, D) = v[new] + SumOf(v, S)
  <2> HIDE DEF v
  <2>1. new \in D
    OBVIOUS
  <2>2. SumOf(v, D) = v[new] + SumOf(v, D \ {new})
    BY <1>1, <1>2, <2>1, SumAny
  <2>3. QED BY <1>1, <2>2
<1>5. SumOf(v, S) \in Int
  <2> HIDE DEF v, D
  <2>1. QED BY <1>1, <1>2, SumType
<1>6. QED BY <1>2, <1>3, <1>4, <1>5

LEMMA AmountOfNone == AmountOf({}) = 0
<1>1. IsFiniteSet({})
  BY FS_EmptySet
<1>2. AmountOf({}) = SumOf([row \in {} |-> row.amount], {})
  BY <1>1, AmountIsSum
<1>3. QED BY <1>1, <1>2, SumFirst

\* The same of the prices of purchases.
LEMMA PriceIsSum ==
  ASSUME NEW D, NEW S, IsFiniteSet(S), S \subseteq D
  PROVE  PriceOf(S) = SumOf([row \in D |-> Price[row.good_id]], S)
<1> DEFINE v == [row \in D |-> Price[row.good_id]]
           A(f) == [s \in SUBSET S |-> IF s = {} THEN 0
                      ELSE Price[(CHOOSE x \in s : TRUE).good_id] + f[s \ {CHOOSE x \in s : TRUE}]]
<1>1. PriceOf(S) = (CHOOSE f : f = A(f))[S]
  BY DEF PriceOf, MapThenSumSet, MapThenFoldSet
<1>2. ASSUME NEW f
      PROVE  A(f) = [s \in SUBSET S |->
                       IF s = {} THEN 0 ELSE v[First(s)] + f[s \ {First(s)}]]
  <2>1. ASSUME NEW s \in SUBSET S, s # {} PROVE v[First(s)] = Price[(CHOOSE x \in s : TRUE).good_id]
    <3>1. First(s) \in D
      BY <2>1, FirstOf
    <3>2. QED BY <3>1 DEF First
  <2>2. QED BY <2>1 DEF First
<1> HIDE DEF v
<1>3. ASSUME NEW f PROVE f = A(f) <=> Sums(v, S, f)
  BY <1>2 DEF Sums
<1> HIDE DEF A
<1>4. PICK g : g = A(g)
  BY <1>3, SumsExist
<1>5. (CHOOSE f : f = A(f)) = A(CHOOSE f : f = A(f))
  BY <1>4
<1>6. Sums(v, S, CHOOSE f : f = A(f))
  BY <1>3, <1>5
<1>7. PriceOf(S) = SumOf(v, S)
  BY <1>1, <1>6, SumIs
<1>8. QED BY <1>7 DEF v

LEMMA PriceIsInt ==
  ASSUME NEW S, IsFiniteSet(S), \A row \in S : Price[row.good_id] \in Int
  PROVE  PriceOf(S) \in Int
<1> DEFINE v == [row \in S |-> Price[row.good_id]]
<1>1. \A row \in S : v[row] \in Int
  OBVIOUS
<1>2. PriceOf(S) = SumOf(v, S)
  BY PriceIsSum
<1> HIDE DEF v
<1>3. QED BY <1>1, <1>2, SumType

LEMMA PriceAdds ==
  ASSUME NEW S, IsFiniteSet(S), \A row \in S : Price[row.good_id] \in Int,
         NEW new, new \notin S, Price[new.good_id] \in Int
  PROVE  /\ PriceOf(S) \in Int
         /\ PriceOf(S \cup {new}) = PriceOf(S) + Price[new.good_id]
<1> DEFINE D == S \cup {new}
           v == [row \in D |-> Price[row.good_id]]
<1>1. IsFiniteSet(D) /\ S \subseteq D /\ D \ {new} = S
  BY FS_AddElement
<1>2. (\A row \in D : v[row] \in Int) /\ v[new] = Price[new.good_id]
  OBVIOUS
<1>3. PriceOf(S) = SumOf(v, S) /\ PriceOf(D) = SumOf(v, D)
  BY <1>1, PriceIsSum
<1>4. SumOf(v, D) = v[new] + SumOf(v, S)
  <2> HIDE DEF v
  <2>1. new \in D
    OBVIOUS
  <2>2. SumOf(v, D) = v[new] + SumOf(v, D \ {new})
    BY <1>1, <1>2, <2>1, SumAny
  <2>3. QED BY <1>1, <2>2
<1>5. SumOf(v, S) \in Int
  <2> HIDE DEF v, D
  <2>1. QED BY <1>1, <1>2, SumType
<1>6. QED BY <1>2, <1>3, <1>4, <1>5

LEMMA PriceOfNone == PriceOf({}) = 0
<1>1. IsFiniteSet({})
  BY FS_EmptySet
<1>2. PriceOf({}) = SumOf([row \in {} |-> Price[row.good_id]], {})
  BY <1>1, PriceIsSum
<1>3. QED BY <1>1, <1>2, SumFirst

-----------------------------------------------------------------------------
(***************************************************************************)
(* The books, with what the sums need to be sums: finitely many rows, each *)
(* with a value.  It is inductive for the ledger, and so for StoreTx.      *)
(***************************************************************************)
BooksInv ==
    /\ IsFiniteSet(transactions) /\ IsFiniteSet(purchases)
    /\ \A row \in transactions : row.amount \in Nat
    /\ \A row \in purchases : row.good_id \in Goods
    /\ AccountsBalance

\* Everything that one user's line of the books is made of, in the integers.
LEMMA BooksAreSums ==
  ASSUME BooksInv, NEW u
  PROVE  /\ IsFiniteSet(Received(u)) /\ IsFiniteSet(Sent(u)) /\ IsFiniteSet(Bought(u))
         /\ \A row \in Received(u) \cup Sent(u) : row.amount \in Int
         /\ \A row \in Bought(u) : Price[row.good_id] \in Int
<1>1. Received(u) \subseteq transactions /\ Sent(u) \subseteq transactions
  BY DEF Received, Sent
<1>2. Bought(u) \subseteq purchases
  BY DEF Bought
<1>3. IsFiniteSet(Received(u)) /\ IsFiniteSet(Sent(u)) /\ IsFiniteSet(Bought(u))
  BY <1>1, <1>2, FS_Subset DEF BooksInv
<1>4. \A row \in Received(u) \cup Sent(u) : row.amount \in Int
  BY <1>1 DEF BooksInv
<1>5. \A row \in Bought(u) : Price[row.good_id] \in Int
  BY <1>2, DataAssumption DEF BooksInv
<1>6. QED BY <1>3, <1>4, <1>5

\* A line of the books whose account and rows a step leaves alone.
LEMMA BooksUntouched ==
  ASSUME BooksInv, NEW u \in Users, balances'[u] = balances[u],
         Received(u)' = Received(u), Sent(u)' = Sent(u), Bought(u)' = Bought(u)
  PROVE  IF balances'[u] = NoRow
         THEN Received(u)' = {} /\ Sent(u)' = {} /\ Bought(u)' = {}
         ELSE balances'[u] = StartBalance + AmountOf(Received(u)')
                                - AmountOf(Sent(u)') - PriceOf(Bought(u)')
BY DEF BooksInv, AccountsBalance

LEMMA BooksOpenAccount ==
  ASSUME TypeOK, BooksInv, NEW w \in Users, Ledger!OpenAccount(w)
  PROVE  BooksInv'
<1>1. /\ transactions' = transactions /\ purchases' = purchases
      /\ \A u \in Users : u # w => balances'[u] = balances[u]
      /\ balances[w] = NoRow /\ balances'[w] = StartBalance
  BY DEF TypeOK, Ledger!OpenAccount
<1>2. \A u : Received(u)' = Received(u) /\ Sent(u)' = Sent(u) /\ Bought(u)' = Bought(u)
  BY <1>1 DEF Received, Sent, Bought
<1>3. ASSUME NEW u \in Users
      PROVE  IF balances'[u] = NoRow
             THEN Received(u)' = {} /\ Sent(u)' = {} /\ Bought(u)' = {}
             ELSE balances'[u] = StartBalance + AmountOf(Received(u)')
                                    - AmountOf(Sent(u)') - PriceOf(Bought(u)')
  <2>1. CASE u = w
    <3>1. Received(u)' = {} /\ Sent(u)' = {} /\ Bought(u)' = {}
      BY <1>1, <1>2, <2>1 DEF BooksInv, AccountsBalance
    <3>2. balances'[u] = StartBalance /\ StartBalance \in Int /\ balances'[u] # NoRow
      BY <1>1, <2>1, DataAssumption
    <3>3. AmountOf({}) = 0 /\ PriceOf({}) = 0
      BY AmountOfNone, PriceOfNone
    <3>4. QED BY <3>1, <3>2, <3>3
  <2>2. CASE u # w
    BY <1>1, <1>2, <2>2, BooksUntouched
  <2>3. QED BY <2>1, <2>2
<1>4. AccountsBalance'
  BY <1>3 DEF AccountsBalance
<1>5. QED BY <1>1, <1>4 DEF BooksInv

LEMMA BooksTransfer ==
  ASSUME TypeOK, BooksInv, NEW q \in Reqs, Ledger!Transfer(q)
  PROVE  BooksInv'
<1> DEFINE c == call[q]
           row == [id |-> q, from_user_id |-> c.user, to_user_id |-> c.to, amount |-> c.amount]
<1>1. c \in Calls /\ IsSend(c)
  BY DEF TypeOK, Ledger!Transfer, Ledger!IsSend, IsSend
<1>2. c.user \in Users /\ c.to \in Users /\ c.to # c.user /\ c.amount \in Nat
  BY <1>1, CallsAssumption DEF Ledger!Transfer
<1>3. /\ transactions' = transactions \cup {row} /\ purchases' = purchases
      /\ balances' = [balances EXCEPT ![c.user] = @ - c.amount, ![c.to] = @ + c.amount]
      /\ balances[c.user] # NoRow /\ balances[c.to] # NoRow
  BY DEF Ledger!Transfer
<1>4. row \notin transactions
  <2>1. row.id = q
    OBVIOUS
  <2>2. QED BY <2>1 DEF Ledger!Transfer, Ledger!Happened
<1>5. balances \in [Users -> Balance \cup {NoRow}]
  BY DEF TypeOK
<1>6. row.from_user_id = c.user /\ row.to_user_id = c.to /\ row.amount = c.amount
  OBVIOUS
<1> HIDE DEF c, row
<1>7. /\ \A u : Received(u)' = IF u = c.to THEN Received(u) \cup {row} ELSE Received(u)
      /\ \A u : Sent(u)' = IF u = c.user THEN Sent(u) \cup {row} ELSE Sent(u)
      /\ \A u : Bought(u)' = Bought(u)
  <2>1. ASSUME NEW u PROVE Received(u)' = IF u = c.to THEN Received(u) \cup {row} ELSE Received(u)
    BY <1>3, <1>6 DEF Received
  <2>2. ASSUME NEW u PROVE Sent(u)' = IF u = c.user THEN Sent(u) \cup {row} ELSE Sent(u)
    BY <1>3, <1>6 DEF Sent
  <2>3. ASSUME NEW u PROVE Bought(u)' = Bought(u)
    BY <1>3 DEF Bought
  <2>4. QED BY <2>1, <2>2, <2>3
<1>8. ASSUME NEW u \in Users
      PROVE  IF balances'[u] = NoRow
             THEN Received(u)' = {} /\ Sent(u)' = {} /\ Bought(u)' = {}
             ELSE balances'[u] = StartBalance + AmountOf(Received(u)')
                                    - AmountOf(Sent(u)') - PriceOf(Bought(u)')
  <2>1. /\ row \notin Received(u) /\ row \notin Sent(u) /\ row.amount \in Int
        /\ c.amount \in Int /\ StartBalance \in Int /\ NoRow \notin Int
    BY <1>2, <1>4, <1>6, DataAssumption DEF Received, Sent
  <2>2. /\ AmountOf(Received(u)) \in Int /\ AmountOf(Sent(u)) \in Int
        /\ AmountOf(Received(u) \cup {row}) = AmountOf(Received(u)) + c.amount
        /\ AmountOf(Sent(u) \cup {row}) = AmountOf(Sent(u)) + c.amount
    BY <1>6, <2>1, BooksAreSums, AmountAdds
  <2>3. PriceOf(Bought(u)) \in Int
    BY BooksAreSums, PriceIsInt
  <2>4. balances[u] # NoRow =>
          balances[u] \in Int /\ balances[u] = StartBalance + AmountOf(Received(u))
                                                 - AmountOf(Sent(u)) - PriceOf(Bought(u))
    BY <1>5 DEF BooksInv, AccountsBalance, Balance
  <2>5. CASE u = c.user
    <3>1. balances'[u] = balances[u] - c.amount /\ balances[u] # NoRow
      BY <1>2, <1>3, <1>5, <2>5
    <3>2. /\ Received(u)' = Received(u) /\ Sent(u)' = Sent(u) \cup {row}
          /\ Bought(u)' = Bought(u)
      BY <1>2, <1>7, <2>5
    <3>3. balances'[u] \in Int /\ balances'[u] # NoRow
      BY <2>1, <2>4, <3>1
    <3>4. QED BY <2>1, <2>2, <2>3, <2>4, <3>1, <3>2, <3>3
  <2>6. CASE u = c.to
    <3>1. balances'[u] = balances[u] + c.amount /\ balances[u] # NoRow
      BY <1>2, <1>3, <1>5, <2>6
    <3>2. /\ Received(u)' = Received(u) \cup {row} /\ Sent(u)' = Sent(u)
          /\ Bought(u)' = Bought(u)
      BY <1>2, <1>7, <2>6
    <3>3. balances'[u] \in Int /\ balances'[u] # NoRow
      BY <2>1, <2>4, <3>1
    <3>4. QED BY <2>1, <2>2, <2>3, <2>4, <3>1, <3>2, <3>3
  <2>7. CASE u # c.user /\ u # c.to
    <3>1. balances'[u] = balances[u]
      BY <1>3, <1>5, <2>7
    <3>2. Received(u)' = Received(u) /\ Sent(u)' = Sent(u) /\ Bought(u)' = Bought(u)
      BY <1>7, <2>7
    <3>3. QED BY <3>1, <3>2, BooksUntouched
  <2>8. QED BY <2>5, <2>6, <2>7
<1>9. AccountsBalance'
  BY <1>8 DEF AccountsBalance
<1>10. IsFiniteSet(transactions') /\ IsFiniteSet(purchases')
  BY <1>3, FS_AddElement DEF BooksInv
<1>11. /\ \A x \in transactions' : x.amount \in Nat
       /\ \A x \in purchases' : x.good_id \in Goods
  BY <1>2, <1>3, <1>6 DEF BooksInv
<1>12. QED BY <1>9, <1>10, <1>11 DEF BooksInv

LEMMA BooksPurchase ==
  ASSUME TypeOK, BooksInv, NEW q \in Reqs, Ledger!Purchase(q)
  PROVE  BooksInv'
<1> DEFINE c == call[q]
           row == [id |-> q, user_id |-> c.user, good_id |-> c.good]
<1>1. c \in Calls
  BY DEF TypeOK
<1>2. c.user \in Users /\ c.good \in Goods /\ Price[c.good] \in Nat
  BY <1>1, CallsAssumption, DataAssumption DEF Ledger!Purchase
<1>3. /\ purchases' = purchases \cup {row} /\ transactions' = transactions
      /\ balances' = [balances EXCEPT ![c.user] = @ - Price[c.good]]
      /\ balances[c.user] # NoRow
  BY DEF Ledger!Purchase
<1>4. row \notin purchases
  <2>1. row.id = q
    OBVIOUS
  <2>2. QED BY <2>1 DEF Ledger!Purchase, Ledger!Happened
<1>5. balances \in [Users -> Balance \cup {NoRow}]
  BY DEF TypeOK
<1>6. row.user_id = c.user /\ row.good_id = c.good
  OBVIOUS
<1> HIDE DEF c, row
<1>7. /\ \A u : Received(u)' = Received(u) /\ Sent(u)' = Sent(u)
      /\ \A u : Bought(u)' = IF u = c.user THEN Bought(u) \cup {row} ELSE Bought(u)
  <2>1. ASSUME NEW u PROVE Received(u)' = Received(u) /\ Sent(u)' = Sent(u)
    BY <1>3 DEF Received, Sent
  <2>2. ASSUME NEW u PROVE Bought(u)' = IF u = c.user THEN Bought(u) \cup {row} ELSE Bought(u)
    BY <1>3, <1>6 DEF Bought
  <2>3. QED BY <2>1, <2>2
<1>8. ASSUME NEW u \in Users
      PROVE  IF balances'[u] = NoRow
             THEN Received(u)' = {} /\ Sent(u)' = {} /\ Bought(u)' = {}
             ELSE balances'[u] = StartBalance + AmountOf(Received(u)')
                                    - AmountOf(Sent(u)') - PriceOf(Bought(u)')
  <2>1. /\ row \notin Bought(u) /\ Price[row.good_id] \in Int
        /\ StartBalance \in Int /\ NoRow \notin Int
    BY <1>2, <1>4, <1>6, DataAssumption DEF Bought
  <2>2. AmountOf(Received(u)) \in Int /\ AmountOf(Sent(u)) \in Int
    BY BooksAreSums, AmountIsInt
  <2>3. /\ PriceOf(Bought(u)) \in Int
        /\ PriceOf(Bought(u) \cup {row}) = PriceOf(Bought(u)) + Price[row.good_id]
    BY <2>1, BooksAreSums, PriceAdds
  <2>4. balances[u] # NoRow =>
          balances[u] \in Int /\ balances[u] = StartBalance + AmountOf(Received(u))
                                                 - AmountOf(Sent(u)) - PriceOf(Bought(u))
    BY <1>5 DEF BooksInv, AccountsBalance, Balance
  <2>5. CASE u = c.user
    <3>1. balances'[u] = balances[u] - Price[row.good_id] /\ balances[u] # NoRow
      BY <1>2, <1>3, <1>5, <1>6, <2>5
    <3>2. /\ Received(u)' = Received(u) /\ Sent(u)' = Sent(u)
          /\ Bought(u)' = Bought(u) \cup {row}
      BY <1>7, <2>5
    <3>3. balances'[u] \in Int /\ balances'[u] # NoRow
      BY <2>1, <2>4, <3>1
    <3>4. QED BY <2>1, <2>2, <2>3, <2>4, <3>1, <3>2, <3>3
  <2>6. CASE u # c.user
    <3>1. balances'[u] = balances[u]
      BY <1>3, <1>5, <2>6
    <3>2. Received(u)' = Received(u) /\ Sent(u)' = Sent(u) /\ Bought(u)' = Bought(u)
      BY <1>7, <2>6
    <3>3. QED BY <3>1, <3>2, BooksUntouched
  <2>7. QED BY <2>5, <2>6
<1>9. AccountsBalance'
  BY <1>8 DEF AccountsBalance
<1>10. IsFiniteSet(transactions') /\ IsFiniteSet(purchases')
  BY <1>3, FS_AddElement DEF BooksInv
<1>11. /\ \A x \in transactions' : x.amount \in Nat
       /\ \A x \in purchases' : x.good_id \in Goods
  BY <1>2, <1>3, <1>6 DEF BooksInv
<1>12. QED BY <1>9, <1>10, <1>11 DEF BooksInv

LEMMA BooksInit == Init => BooksInv
<1> SUFFICES ASSUME Init PROVE BooksInv
  OBVIOUS
<1>1. transactions = {} /\ purchases = {} /\ \A u \in Users : balances[u] = NoRow
  BY DEF Init
<1>2. AccountsBalance
  BY <1>1 DEF AccountsBalance, Received, Sent, Bought
<1>3. QED BY <1>1, <1>2, FS_EmptySet DEF BooksInv

LEMMA BooksStep ==
  ASSUME TypeOK, BooksInv, [Ledger!Next]_Ledger!vars
  PROVE  BooksInv'
<1>1. ASSUME UNCHANGED <<balances, transactions, purchases>>
      PROVE  BooksInv'
  BY <1>1 DEF BooksInv, AccountsBalance, Received, Sent, Bought
<1>2. CASE Ledger!Next
  BY <1>1, <1>2, BooksOpenAccount, BooksTransfer, BooksPurchase DEF Ledger!Next
<1>3. CASE UNCHANGED Ledger!vars
  BY <1>1, <1>3 DEF Ledger!vars
<1>4. QED BY <1>2, <1>3

(***************************************************************************)
(* No statement, lost COMMIT or race makes coins or loses them: in every   *)
(* committed state each balance is the start balance plus what the rows of *)
(* `transactions` and `purchases` say came in and went out.                *)
(***************************************************************************)
THEOREM BooksCorrect == Spec => []AccountsBalance
<1>1. TxInv /\ BooksInv /\ [Next]_vars => BooksInv'
  BY RefinementStep, BooksStep DEF TxInv
<1>2. BooksInv => AccountsBalance
  BY DEF BooksInv
<1>3. QED BY <1>1, <1>2, BooksInit, TxInvariant, PTL DEF Spec
=============================================================================

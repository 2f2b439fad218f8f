----------------------------- MODULE MerchProofs -----------------------------
(***************************************************************************)
(* Proofs about MerchSystem, for any number of clients, logins, payments   *)
(* and looks.  What AuthProofs shows of the logins carries over: each step *)
(* of the system is a step of AuthRegistry, or leaves its variables alone. *)
(* The store's part of the invariant says whose id each handler goes by.   *)
(***************************************************************************)
EXTENDS MerchProperties, TLAPS

Acc == INSTANCE AuthProofs WITH reply <- authReply

MerchTypes ==
    /\ status \in [Logins -> {0, 200, 400, 401, 500}]
    /\ balances \in [Ids -> 0 .. MaxInt \cup {NoRow}]
    /\ asked \in [Requests -> Asks]
    /\ bearer \in [Requests \cup Looks -> Logins]
    /\ stage \in [Requests \cup Looks -> Stages]
    /\ userID \in [Requests \cup Looks -> Ids]
    /\ toUserID \in [Requests -> Ids]
    /\ reply \in [Requests -> Ledger!Codes \cup {"none"}]
    /\ history \in [Looks -> SUBSET transactions]
    /\ shown = [i \in Looks |-> shown[i]]

(***************************************************************************)
(* What a status tells of the login, and what the login has done so far.   *)
(***************************************************************************)
StatusInv(l) ==
    /\ status[l] = 200 => token[l] # NoRow
    /\ status[l] = 401 => authReply[l] = "Unauthenticated"
    /\ status[l] = 400 => pc[l] = "lookup"

\* The stages at which the store's handler of a call knows whose call it is.
Known == {"ensure", "handle", "ensureTo", "pay", "names"}

\* The id that x goes by is the one of the account its client logged in to.
BearerInv(x) ==
    /\ stage[x] # "new" => status[bearer[x]] = 200
    /\ stage[x] \in Known => userID[x] = users[Caller(x)].id

\* A payment that may go ahead is one between accounts, or for a good that there is.
RequestInv(r) ==
    /\ stage[r] # "names"
    /\ stage[r] = "ensureTo" => asked[r].op = "SendCoins"
    /\ stage[r] \in {"ensureTo", "pay"} /\ asked[r].op = "SendCoins" =>
         /\ Auth!Registered(asked[r].to)
         /\ toUserID[r] = users[asked[r].to].id
         /\ toUserID[r] # userID[r]

\* A row says what its request asked for, of whom and by whom.
TransferRowOK(row) ==
    /\ row.id \in Requests /\ stage[row.id] = "pay" /\ asked[row.id].op = "SendCoins"
    /\ row = [id |-> row.id, from_user_id |-> userID[row.id],
              to_user_id |-> toUserID[row.id], amount |-> asked[row.id].amount]

PurchaseRowOK(row) ==
    /\ row.id \in Requests /\ stage[row.id] = "pay" /\ asked[row.id].op = "BuyItem"
    /\ row = [id |-> row.id, user_id |-> userID[row.id], good_id |-> asked[row.id].good]

RowsInv ==
    /\ \A row \in transactions : TransferRowOK(row)
    /\ \A row \in purchases : PurchaseRowOK(row)

\* Who has an account has registered.
BalancesInv ==
    \A id \in Ids : balances[id] # NoRow => \E n \in Names : Auth!Registered(n) /\ users[n].id = id

MerchInv ==
    /\ Acc!AuthInv
    /\ MerchTypes
    /\ \A l \in Logins : StatusInv(l)
    /\ \A x \in Requests \cup Looks : BearerInv(x)
    /\ \A r \in Requests : RequestInv(r)
    /\ \A i \in Looks : stage[i] \notin {"ensureTo", "pay"}
    /\ RowsInv
    /\ BalancesInv
-----------------------------------------------------------------------------
LEMMA Assumed == Acc!RegistryAssumption
BY SystemAssumption DEF Acc!RegistryAssumption

LEMMA AuthSteps ==
  ASSUME NEW l \in Logins,
         \/ Auth!Authenticate(l) \/ Auth!AuthenticateFails(l)
         \/ Auth!ServerInserts(l) \/ Auth!CallerGivesUp(l)
  PROVE  Acc!Step(l) /\ Acc!Next
<1> USE DEF Auth!Registered, Acc!Registered, Auth!Return, Acc!Return, Auth!Answer, Acc!Answer,
        Auth!NewRow, Acc!NewRow, Auth!HashPassword, Acc!HashPassword, Auth!MayInsert, Acc!MayInsert,
        Auth!Insert, Acc!Insert, Auth!LoseId, Acc!LoseId, Auth!VerifyHash, Acc!VerifyHash
<1>1. Auth!TryGetUserInfo(l) => Acc!TryGetUserInfo(l)
  BY DEF Auth!TryGetUserInfo, Acc!TryGetUserInfo
<1>2. Auth!CreateUser(l) => Acc!CreateUser(l)
  BY DEF Auth!CreateUser, Acc!CreateUser
<1>3. Auth!CreateUserRefused(l) => Acc!CreateUserRefused(l)
  BY DEF Auth!CreateUserRefused, Acc!CreateUserRefused
<1>4. Auth!VerifyPassword(l) => Acc!VerifyPassword(l)
  BY DEF Auth!VerifyPassword, Acc!VerifyPassword
<1>5. Auth!IssueToken(l) => Acc!IssueToken(l)
  BY DEF Auth!IssueToken, Acc!IssueToken
<1>6. Auth!AuthenticateFails(l) => Acc!AuthenticateFails(l)
  BY DEF Auth!AuthenticateFails, Acc!AuthenticateFails
<1>7. Auth!ServerInserts(l) => Acc!ServerInserts(l)
  BY DEF Auth!ServerInserts, Acc!ServerInserts
<1>8. Auth!CallerGivesUp(l) => Acc!CallerGivesUp(l)
  BY DEF Auth!CallerGivesUp, Acc!CallerGivesUp
<1>9. Auth!Authenticate(l) => Acc!Authenticate(l)
  BY <1>1, <1>2, <1>3, <1>4, <1>5 DEF Auth!Authenticate, Acc!Authenticate
<1>10. QED BY <1>6, <1>7, <1>8, <1>9 DEF Acc!Step, Acc!Next

(***************************************************************************)
(* A step of the system is one of a login or does not change auth.         *)
(***************************************************************************)
LEMMA AuthStays ==
  ASSUME [Next]_vars
  PROVE  \/ \E l \in Logins : LoginRuns(l)
         \/ UNCHANGED auth
BY DEF Next, vars, LoginBindingFails, LoginEnds, Forward, AuthInterceptor, BalanceInterceptor,
       FetchUserID, GetGoodInfo, EnsureRecipient, Pay, Answer, CallEnds, FetchUserCoinTransfers,
       GetUsernames, LookFails

LEMMA SameAuth ==
  ASSUME [Next]_vars
  PROVE  [Acc!Next]_(Acc!vars)
<1>1. CASE \E l \in Logins : LoginRuns(l)
  BY <1>1, AuthSteps DEF LoginRuns
<1>2. CASE UNCHANGED auth
  BY <1>2 DEF auth, Acc!vars
<1>3. QED BY <1>1, <1>2, AuthStays

LEMMA Frame ==
  ASSUME MerchInv, [Next]_vars
  PROVE  /\ Acc!AuthInv'
         /\ UNCHANGED login /\ UNCHANGED asked /\ UNCHANGED bearer
         /\ \A n \in Names : Auth!Registered(n) => users'[n] = users[n] /\ Auth!Registered(n)'
<1>1. [Acc!Next]_(Acc!vars) /\ Acc!AuthInv /\ Acc!TypeOK
  BY SameAuth DEF MerchInv, Acc!AuthInv
<1>2. Acc!AuthInv' /\ login' = login
  BY <1>1, Assumed, Acc!InvStep, Acc!SameLogin
<1>3. asked' = asked /\ bearer' = bearer
  BY DEF Next, vars, calls, LoginBindingFails, LoginRuns, LoginEnds, Forward, AuthInterceptor,
         BalanceInterceptor, FetchUserID, GetGoodInfo, EnsureRecipient, Pay, Answer, CallEnds,
         FetchUserCoinTransfers, GetUsernames, LookFails
<1>4. \A n \in Names : Acc!Registered(n) => users'[n] = users[n]
  BY <1>1, Assumed, Acc!RowsStay
<1>5. QED BY <1>2, <1>3, <1>4 DEF Acc!Registered, Auth!Registered

\* An account has an id and no other account has it.
LEMMA OneOwner ==
  ASSUME Acc!AuthInv, NEW n \in Names, Auth!Registered(n)
  PROVE  /\ users[n].id \in 1 .. MaxId /\ users[n].id \in Ids
         /\ Owners(users[n].id) = {n}
<1>1. /\ Acc!Registered(n) /\ users[n] \in Acc!UserRow
      /\ \A m \in Names : Acc!Registered(m) /\ users[m].id = users[n].id => m = n
  BY DEF Acc!AuthInv, Acc!TypeOK, Acc!IdsInv, Acc!Registered, Auth!Registered
<1>2. users[n].id \in 1 .. MaxId
  BY <1>1 DEF Acc!UserRow
<1>3. users[n].id \in Ids
  BY <1>2, SystemAssumption DEF Ids
<1>4. QED BY <1>1, <1>2, <1>3 DEF Owners, Acc!Registered, Auth!Registered

\* Who has a token has logged in, with the password of the account that it names.
LEMMA TokenHolder ==
  ASSUME Acc!AuthInv, NEW l \in Logins, token[l] # NoRow
  PROVE  /\ login[l].name \in Names /\ Auth!Registered(login[l].name)
         /\ users[login[l].name].hash.of = login[l].password
         /\ token[l] = [uid |-> users[login[l].name].id, usr |-> login[l].name]
BY DEF Acc!AuthInv, Acc!TypeOK, Acc!TokensAreTrue, Acc!Registered, Auth!Registered

\* Whose handler has got past the token.
LEMMA CallerHasAccount ==
  ASSUME MerchInv, NEW x \in Requests \cup Looks, stage[x] # "new"
  PROVE  /\ bearer[x] \in Logins /\ status[bearer[x]] = 200 /\ token[bearer[x]] # NoRow
         /\ Caller(x) \in Names /\ Auth!Registered(Caller(x))
         /\ users[Caller(x)].id \in 1 .. MaxId /\ users[Caller(x)].id \in Ids
         /\ Owners(users[Caller(x)].id) = {Caller(x)}
         /\ users[Caller(x)].hash.of = login[bearer[x]].password
         /\ token[bearer[x]].uid = users[Caller(x)].id
<1>1. bearer[x] \in Logins /\ status[bearer[x]] = 200
  BY DEF MerchInv, MerchTypes, BearerInv
<1>2. token[bearer[x]] # NoRow
  BY <1>1 DEF MerchInv, StatusInv
<1>3. Acc!AuthInv
  BY DEF MerchInv
<1>4. /\ Caller(x) \in Names /\ Auth!Registered(Caller(x))
      /\ users[Caller(x)].hash.of = login[bearer[x]].password
      /\ token[bearer[x]] = [uid |-> users[Caller(x)].id, usr |-> Caller(x)]
  BY <1>1, <1>2, <1>3, TokenHolder DEF Caller
<1>5. /\ users[Caller(x)].id \in 1 .. MaxId /\ users[Caller(x)].id \in Ids
      /\ Owners(users[Caller(x)].id) = {Caller(x)}
  BY <1>3, <1>4, OneOwner
<1>6. QED BY <1>1, <1>2, <1>4, <1>5
-----------------------------------------------------------------------------
LEMMA StatusStep ==
  ASSUME MerchInv, [Next]_vars, NEW l \in Logins
  PROVE  StatusInv(l)'
<1>1. /\ [Acc!Next]_(Acc!vars) /\ Acc!AuthInv /\ Acc!TypeOK /\ StatusInv(l)
      /\ status \in [Logins -> {0, 200, 400, 401, 500}]
  BY SameAuth DEF MerchInv, MerchTypes, Acc!AuthInv
<1>2. token[l] # NoRow => token'[l] # NoRow
  BY <1>1, Assumed, Acc!TokensStay
<1>3. authReply[l] # "none" => authReply'[l] = authReply[l]
  BY <1>1, Assumed, Acc!RepliesStay
<1>4. CASE status'[l] = status[l] /\ pc'[l] = pc[l]
  BY <1>1, <1>2, <1>3, <1>4 DEF StatusInv
<1>5. CASE LoginBindingFails(l)
  BY <1>1, <1>5 DEF LoginBindingFails, StatusInv, auth
<1>6. CASE LoginEnds(l)
  <2>1. status'[l] = LoginCode(authReply[l]) /\ authReply[l] # "none" /\ UNCHANGED auth
    BY <1>1, <1>6 DEF LoginEnds
  <2>2. authReply[l] = "OK" => token[l] # NoRow
    BY <1>1 DEF Acc!AuthInv, Acc!TraceInv
  <2>3. QED BY <2>1, <2>2 DEF LoginCode, StatusInv, auth
<1>7. CASE LoginRuns(l)
  BY <1>1, <1>2, <1>3, <1>7 DEF LoginRuns, StatusInv
<1>8. ASSUME NEW m \in Logins \ {l}, LoginBindingFails(m) \/ LoginRuns(m) \/ LoginEnds(m)
      PROVE  StatusInv(l)'
  <2>1. CASE LoginRuns(m)
    <3>1. Acc!Step(m) /\ status' = status
      BY <2>1, AuthSteps DEF LoginRuns
    <3>2. Acc!Idle(l)
      BY <1>1, <3>1, Assumed, Acc!OthersIdle
    <3>3. QED BY <1>4, <3>1, <3>2 DEF Acc!Idle
  <2>2. CASE LoginBindingFails(m) \/ LoginEnds(m)
    BY <1>1, <1>4, <2>2 DEF LoginBindingFails, LoginEnds, auth
  <2>3. QED BY <1>8, <2>1, <2>2
<1>9. CASE UNCHANGED <<auth, status>>
  BY <1>4, <1>9 DEF auth
<1>10. (\E m \in Logins : LoginBindingFails(m) \/ LoginRuns(m) \/ LoginEnds(m))
         \/ UNCHANGED <<auth, status>>
  BY DEF Next, vars, Forward, AuthInterceptor, BalanceInterceptor, FetchUserID, GetGoodInfo,
         EnsureRecipient, Pay, Answer, CallEnds, FetchUserCoinTransfers, GetUsernames, LookFails
<1>11. QED BY <1>5, <1>6, <1>7, <1>8, <1>9, <1>10

-----------------------------------------------------------------------------
(***************************************************************************)
(* The calls of the store: a step moves one of them on, or none.           *)
(***************************************************************************)
StillAt(x) ==
    /\ stage'[x] = stage[x] /\ userID'[x] = userID[x]
    /\ x \in Requests => toUserID'[x] = toUserID[x]

Moves(x) ==
    \/ Forward(x) \/ AuthInterceptor(x) \/ BalanceInterceptor(x)
    \/ x \in Requests /\ (FetchUserID(x) \/ GetGoodInfo(x) \/ EnsureRecipient(x) \/ Answer(x))
    \/ x \in Looks /\ (FetchUserCoinTransfers(x) \/ GetUsernames(x) \/ LookFails(x))

LEMMA StageTypes ==
  ASSUME MerchInv, [Next]_vars
  PROVE  /\ stage' \in [Requests \cup Looks -> Stages]
         /\ status' \in [Logins -> {0, 200, 400, 401, 500}]
         /\ \A l \in Logins : status[l] # 0 => status'[l] = status[l]
<1>1. /\ stage \in [Requests \cup Looks -> Stages]
      /\ status \in [Logins -> {0, 200, 400, 401, 500}]
  BY DEF MerchInv, MerchTypes
<1>2. stage' \in [Requests \cup Looks -> Stages]
  BY <1>1 DEF Next, vars, calls, At, Stages, LoginBindingFails, LoginRuns, LoginEnds, Forward,
              AuthInterceptor, BalanceInterceptor, FetchUserID, GetGoodInfo, EnsureRecipient, Pay,
              Answer, CallEnds, FetchUserCoinTransfers, GetUsernames, LookFails
<1>3. UNCHANGED status \/ \E l \in Logins : LoginBindingFails(l) \/ LoginEnds(l)
  BY DEF Next, vars, LoginRuns, Forward, AuthInterceptor, BalanceInterceptor, FetchUserID,
         GetGoodInfo, EnsureRecipient, Pay, Answer, CallEnds, FetchUserCoinTransfers,
         GetUsernames, LookFails
<1>4. QED BY <1>1, <1>2, <1>3 DEF LoginBindingFails, LoginEnds, LoginCode

LEMMA OneCallMoves ==
  ASSUME MerchInv, [Next]_vars, NEW x \in Requests \cup Looks
  PROVE  StillAt(x) \/ Moves(x)
<1>1. /\ stage = [y \in Requests \cup Looks |-> stage[y]]
      /\ userID = [y \in Requests \cup Looks |-> userID[y]]
      /\ toUserID = [r \in Requests |-> toUserID[r]]
  BY DEF MerchInv, MerchTypes
<1>2. ASSUME NEW y \in (Requests \cup Looks) \ {x}, Moves(y)
      PROVE  StillAt(x)
  <2>1. CASE Forward(y) \/ AuthInterceptor(y) \/ BalanceInterceptor(y)
    BY <1>1, <1>2, <2>1 DEF Forward, AuthInterceptor, BalanceInterceptor, At, StillAt
  <2>2. CASE y \in Requests /\ (FetchUserID(y) \/ GetGoodInfo(y) \/ EnsureRecipient(y) \/ Answer(y))
    BY <1>1, <1>2, <2>2 DEF FetchUserID, GetGoodInfo, EnsureRecipient, Answer, At, StillAt
  <2>3. CASE y \in Looks /\ (FetchUserCoinTransfers(y) \/ GetUsernames(y) \/ LookFails(y))
    BY <1>1, <1>2, <2>3 DEF FetchUserCoinTransfers, GetUsernames, LookFails, At, StillAt
  <2>4. QED BY <1>2, <2>1, <2>2, <2>3 DEF Moves
<1>3. (\E y \in Requests \cup Looks : Moves(y)) \/ UNCHANGED <<stage, userID, toUserID>>
  BY DEF Next, Moves, vars, calls, LoginBindingFails, LoginRuns, LoginEnds, Pay, CallEnds
<1>4. QED BY <1>2, <1>3 DEF StillAt

LEMMA BearerStep ==
  ASSUME MerchInv, [Next]_vars, NEW x \in Requests \cup Looks
  PROVE  BearerInv(x)'
<1>1. /\ UNCHANGED bearer /\ UNCHANGED login /\ Caller(x)' = Caller(x)
      /\ bearer[x] \in Logins /\ BearerInv(x)
      /\ userID \in [Requests \cup Looks -> Ids] /\ stage \in [Requests \cup Looks -> Stages]
  BY Frame DEF Caller, MerchInv, MerchTypes
<1>2. status[bearer[x]] = 200 => status'[bearer'[x]] = 200
  BY <1>1, StageTypes
<1>3. stage[x] # "new" => users'[Caller(x)].id = users[Caller(x)].id
  BY Frame, CallerHasAccount
<1>4. CASE StillAt(x)
  BY <1>1, <1>2, <1>3, <1>4 DEF StillAt, BearerInv, Known
<1>5. CASE Forward(x)
  <2>1. status[bearer[x]] = 200 /\ stage'[x] = "parse"
    BY <1>1, <1>5 DEF Forward, At
  <2>2. QED BY <1>1, <1>2, <2>1 DEF BearerInv, Known
<1>6. CASE AuthInterceptor(x)
  <2>1. stage[x] = "parse" /\ userID'[x] = token[bearer[x]].uid
    BY <1>1, <1>6 DEF AuthInterceptor, At
  <2>2. token[bearer[x]].uid = users[Caller(x)].id
    BY <2>1, CallerHasAccount
  <2>3. QED BY <1>1, <1>2, <1>3, <2>1, <2>2 DEF BearerInv
<1>7. CASE stage[x] \in Known /\ userID' = userID
  BY <1>1, <1>2, <1>3, <1>7 DEF BearerInv, Known
<1>8. CASE stage[x] # "new" /\ stage'[x] \notin Known
  BY <1>1, <1>2, <1>8 DEF BearerInv
<1>9. CASE x \in Requests /\ Answer(x)
  <2>1. stage[x] # "new" /\ userID' = userID
    BY <1>9 DEF Answer, Codes
  <2>2. stage'[x] = IF stage[x] = "pay" THEN "pay" ELSE "done"
    BY <1>1, <1>9 DEF Answer
  <2>3. QED BY <1>1, <1>2, <1>3, <2>1, <2>2 DEF BearerInv, Known
<1>10. CASE x \in Looks /\ LookFails(x)
  <2>1. stage[x] # "new" /\ stage'[x] = "done"
    BY <1>1, <1>10 DEF LookFails
  <2>2. QED BY <1>8, <2>1 DEF Known
<1>11. CASE BalanceInterceptor(x) \/ FetchUserID(x) \/ GetGoodInfo(x) \/ EnsureRecipient(x)
              \/ FetchUserCoinTransfers(x) \/ GetUsernames(x)
  BY <1>7, <1>11 DEF BalanceInterceptor, FetchUserID, GetGoodInfo, EnsureRecipient,
                     FetchUserCoinTransfers, GetUsernames, At, Known
<1>12. QED
  BY <1>4, <1>5, <1>6, <1>9, <1>10, <1>11, OneCallMoves DEF Moves

\* What a request may ask for, in the client's words and in those of the ledger.
LEMMA AskTypes ==
  ASSUME MerchTypes, NEW r \in Requests
  PROVE  /\ asked[r].op \in {"SendCoins", "BuyItem"} /\ IdCall[r].op = asked[r].op
         /\ IdCall[r].user = userID[r] /\ userID[r] \in Ids /\ toUserID[r] \in Ids
         /\ asked[r].op = "SendCoins" =>
              /\ asked[r].to \in Names /\ asked[r].amount \in Nat
              /\ IdCall[r].to = toUserID[r] /\ IdCall[r].amount = asked[r].amount
         /\ asked[r].op = "BuyItem" => IdCall[r].good = asked[r].good
<1>1. asked[r] \in [op : {"SendCoins"}, to : Names, amount : Nat]
                     \cup [op : {"BuyItem"}, good : STRING]
  BY SystemAssumption DEF MerchTypes
<1>2. asked[r].op \in {"SendCoins", "BuyItem"}
  BY <1>1
<1>3. asked[r].op = "SendCoins" => asked[r].to \in Names /\ asked[r].amount \in Nat
  BY <1>1
<1>4. IdCall[r] = IF asked[r].op = "SendCoins"
                  THEN [op |-> "SendCoins", user |-> userID[r], to |-> toUserID[r],
                        amount |-> asked[r].amount]
                  ELSE [op |-> "BuyItem", user |-> userID[r], good |-> asked[r].good]
  BY DEF IdCall
<1>5. userID[r] \in Ids /\ toUserID[r] \in Ids
  BY DEF MerchTypes
<1>6. QED BY <1>2, <1>3, <1>4, <1>5

LEMMA RequestStep ==
  ASSUME MerchInv, [Next]_vars, NEW r \in Requests
  PROVE  RequestInv(r)'
<1> DEFINE n == asked[r].to
<1>1. /\ MerchTypes /\ RequestInv(r) /\ UNCHANGED asked
      /\ \A m \in Names : Auth!Registered(m) => users'[m] = users[m] /\ Auth!Registered(m)'
  BY Frame DEF MerchInv
<1>2. /\ asked[r].op = "SendCoins" => n \in Names
      /\ asked[r].op = "BuyItem" => asked[r].op # "SendCoins"
  BY <1>1, AskTypes
<1>3. CASE StillAt(r)
  BY <1>1, <1>2, <1>3 DEF StillAt, RequestInv
<1>4. CASE stage'[r] \notin {"names", "ensureTo", "pay"}
  BY <1>4 DEF RequestInv
<1>5. CASE Forward(r) \/ AuthInterceptor(r) \/ BalanceInterceptor(r)
  <2>1. stage'[r] \in {"parse", "ensure", "handle"}
    BY <1>1, <1>5 DEF MerchTypes, Forward, AuthInterceptor, BalanceInterceptor, At
  <2>2. QED BY <1>4, <2>1
<1>6. CASE FetchUserID(r)
  <2>1. /\ stage'[r] = "ensureTo" /\ asked[r].op = "SendCoins"
        /\ toUserID'[r] = Auth!GetUserID(n) /\ UNCHANGED userID /\ UNCHANGED auth
        /\ Auth!GetUserID(n) # NoRow /\ Auth!GetUserID(n) # userID[r]
    BY <1>1, <1>6 DEF MerchTypes, FetchUserID, At
  <2>2. Auth!Registered(n) /\ Auth!GetUserID(n) = users[n].id
    BY <2>1 DEF Auth!GetUserID
  <2>3. Auth!Registered(n)' /\ users'[n] = users[n]
    BY <1>1, <1>2, <2>1, <2>2
  <2>4. QED BY <1>1, <2>1, <2>2, <2>3 DEF RequestInv
<1>7. CASE GetGoodInfo(r)
  BY <1>1, <1>2, <1>7 DEF MerchTypes, GetGoodInfo, At, RequestInv
<1>8. CASE EnsureRecipient(r)
  <2>1. /\ stage[r] = "ensureTo" /\ stage'[r] = "pay" /\ UNCHANGED <<userID, toUserID>>
    BY <1>1, <1>8 DEF MerchTypes, EnsureRecipient, At
  <2>2. QED BY <1>1, <1>2, <2>1 DEF RequestInv
<1>9. CASE Answer(r)
  <2>1. /\ stage'[r] \in {stage[r], "done"} /\ UNCHANGED <<userID, toUserID>>
    BY <1>1, <1>9 DEF MerchTypes, Answer
  <2>2. QED BY <1>3, <1>4, <2>1 DEF StillAt
<1>10. QED BY <1>3, <1>5, <1>6, <1>7, <1>8, <1>9, OneCallMoves, SystemAssumption DEF Moves

LEMMA LookStep ==
  ASSUME MerchInv, [Next]_vars, NEW i \in Looks
  PROVE  stage'[i] \notin {"ensureTo", "pay"}
<1>1. MerchTypes /\ stage[i] \notin {"ensureTo", "pay"}
  BY DEF MerchInv
<1>2. CASE Forward(i) \/ AuthInterceptor(i) \/ BalanceInterceptor(i)
              \/ FetchUserCoinTransfers(i) \/ GetUsernames(i) \/ LookFails(i)
  BY <1>1, <1>2 DEF MerchTypes, Forward, AuthInterceptor, BalanceInterceptor,
                    FetchUserCoinTransfers, GetUsernames, LookFails, At
<1>3. QED BY <1>1, <1>2, OneCallMoves, SystemAssumption DEF Moves, StillAt
-----------------------------------------------------------------------------
(***************************************************************************)
(* What steps do to the rows of the store.                                 *)
(***************************************************************************)
Opens(id) == id \in Ids /\ EnsureBalanceCreated(id) /\ UNCHANGED <<transactions, purchases>>

\* The interceptor of x, or the look-up of its recipient, opens an account.
OpensFor(x) ==
    \/ stage[x] = "ensure" /\ Opens(userID[x])
    \/ x \in Requests /\ stage[x] = "ensureTo" /\ Opens(toUserID[x])

\* Ledger!Transfer and Ledger!Purchase in the words of MerchSystem.
PaysFor(r, from, amount) ==
    /\ \A row \in transactions \cup purchases : row.id # r
    /\ from \in Ids /\ amount \in Nat
    /\ balances[from] \in 0 .. MaxInt /\ balances[from] >= amount

Transfers(r, from, to, amount) ==
    /\ PaysFor(r, from, amount) /\ to \in Ids \ {from}
    /\ balances[to] \in 0 .. MaxInt /\ balances[to] + amount <= MaxInt
    /\ balances' = [balances EXCEPT ![from] = @ - amount, ![to] = @ + amount]
    /\ transactions' = transactions \cup
         {[id |-> r, from_user_id |-> from, to_user_id |-> to, amount |-> amount]}
    /\ UNCHANGED purchases

Purchases(r, from, good) ==
    /\ PaysFor(r, from, Price[good]) /\ good \in Goods
    /\ balances' = [balances EXCEPT ![from] = @ - Price[good]]
    /\ purchases' = purchases \cup {[id |-> r, user_id |-> from, good_id |-> good]}
    /\ UNCHANGED transactions

LEMMA PayDoes ==
  ASSUME MerchTypes, NEW r \in Requests, Pay(r)
  PROVE  /\ stage[r] = "pay" /\ UNCHANGED <<auth, status, calls>>
         /\ reply[r] \notin Ledger!Refusals
         /\ reply' \in {reply, [reply EXCEPT ![r] = IF @ = "none" THEN "OK" ELSE @]}
         /\ \/ asked[r].op = "SendCoins" /\ Transfers(r, userID[r], toUserID[r], asked[r].amount)
            \/ asked[r].op = "BuyItem" /\ Purchases(r, userID[r], asked[r].good)
<1>1. stage[r] = "pay" /\ UNCHANGED <<auth, status, calls>>
  BY DEF Pay
<1>2. \A id \in Ids : balances[id] # NoRow => balances[id] \in 0 .. MaxInt
  BY DEF MerchTypes
<1>3. CASE Ledger!Transfer(r)
  <2>1. asked[r].op = "SendCoins"
    BY <1>3, AskTypes DEF Ledger!Transfer, Ledger!IsSend
  <2>2. Transfers(r, userID[r], toUserID[r], asked[r].amount)
    BY <1>2, <1>3, <2>1, AskTypes DEF Ledger!Transfer, Ledger!Happened, Transfers, PaysFor
  <2>3. QED BY <1>1, <1>3, <2>1, <2>2 DEF Ledger!Transfer, Ledger!MayAcknowledge
<1>4. CASE Ledger!Purchase(r)
  <2>1. asked[r].op = "BuyItem"
    BY <1>4, AskTypes DEF Ledger!Purchase, Ledger!IsSend
  <2>2. Price[asked[r].good] \in Nat
    BY <1>4, <2>1, AskTypes, SystemAssumption DEF Ledger!Purchase
  <2>3. Purchases(r, userID[r], asked[r].good)
    BY <1>2, <1>4, <2>1, <2>2, AskTypes DEF Ledger!Purchase, Ledger!Happened, Purchases, PaysFor
  <2>4. QED BY <1>1, <1>4, <2>1, <2>3 DEF Ledger!Purchase, Ledger!MayAcknowledge
<1>5. QED BY <1>3, <1>4 DEF Pay

\* A step that ensures a balance opens the account, unless it fails to.
LEMMA EnsuringSteps ==
  ASSUME MerchInv, NEW x \in Requests \cup Looks,
         \/ BalanceInterceptor(x)
         \/ x \in Requests /\ (EnsureRecipient(x) \/ Answer(x))
         \/ x \in Looks /\ LookFails(x)
  PROVE  /\ UNCHANGED <<auth, transactions, purchases>>
         /\ UNCHANGED balances \/ OpensFor(x)
<1>1. /\ userID[x] \in Ids
      /\ x \in Requests => toUserID[x] \in Ids
      /\ x \notin Requests => stage[x] # "ensureTo"
  BY DEF MerchInv, MerchTypes
<1>2. CASE BalanceInterceptor(x)
  BY <1>1, <1>2 DEF BalanceInterceptor, At, Opens, OpensFor
<1>3. CASE x \in Requests /\ EnsureRecipient(x)
  BY <1>1, <1>3 DEF EnsureRecipient, At, Opens, OpensFor
<1>4. CASE x \in Requests /\ Answer(x)
  BY <1>1, <1>4 DEF Answer, EnsureLost, Opens, OpensFor
<1>5. CASE x \in Looks /\ LookFails(x)
  BY <1>1, <1>5 DEF LookFails, EnsureLost, Opens, OpensFor
<1>6. QED BY <1>2, <1>3, <1>4, <1>5

LEMMA StoreSteps ==
  ASSUME MerchInv, [Next]_vars
  PROVE  \/ UNCHANGED <<balances, transactions, purchases>>
         \/ \E x \in Requests \cup Looks : OpensFor(x)
         \/ \E r \in Requests : Pay(r)
<1>1. CASE \E x \in Requests \cup Looks :
             \/ BalanceInterceptor(x)
             \/ x \in Requests /\ (EnsureRecipient(x) \/ Answer(x))
             \/ x \in Looks /\ LookFails(x)
  BY <1>1, EnsuringSteps
<1>2. QED
  BY <1>1
     DEF Next, vars, store, LoginBindingFails, LoginRuns, LoginEnds, Forward, AuthInterceptor,
         FetchUserID, GetGoodInfo, CallEnds, FetchUserCoinTransfers, GetUsernames

LEMMA OpensWhat ==
  ASSUME MerchTypes, NEW id, Opens(id)
  PROVE  /\ balances' \in [Ids -> 0 .. MaxInt \cup {NoRow}]
         /\ \A i \in Ids : balances'[i] = IF i = id /\ balances[i] = NoRow THEN StartBalance
                                                                          ELSE balances[i]
BY SystemAssumption DEF MerchTypes, Opens, EnsureBalanceCreated

LEMMA PayWhat ==
  ASSUME MerchTypes, NEW r \in Requests, Pay(r)
  PROVE  /\ balances' \in [Ids -> 0 .. MaxInt \cup {NoRow}]
         /\ \A i \in Ids : balances[i] = NoRow <=> balances'[i] = NoRow
<1>1. balances \in [Ids -> 0 .. MaxInt \cup {NoRow}] /\ MaxInt \in Nat /\ NoRow \notin Int
  BY SystemAssumption DEF MerchTypes
<1>2. ASSUME NEW from \in Ids, NEW amount \in Nat, PaysFor(r, from, amount)
      PROVE  balances[from] - amount \in 0 .. MaxInt
  BY <1>1, <1>2 DEF PaysFor
<1>3. CASE Transfers(r, userID[r], toUserID[r], asked[r].amount)
  <2>1. balances[userID[r]] - asked[r].amount \in 0 .. MaxInt
    BY <1>2, <1>3 DEF Transfers, PaysFor
  <2>2. balances[toUserID[r]] + asked[r].amount \in 0 .. MaxInt
    BY <1>1, <1>3 DEF Transfers, PaysFor
  <2>3. QED BY <1>1, <1>3, <2>1, <2>2 DEF Transfers, PaysFor
<1>4. CASE Purchases(r, userID[r], asked[r].good)
  <2>1. balances[userID[r]] - Price[asked[r].good] \in 0 .. MaxInt
    BY <1>2, <1>4 DEF Purchases, PaysFor
  <2>2. QED BY <1>1, <1>4, <2>1 DEF Purchases, PaysFor
<1>5. QED BY <1>3, <1>4, PayDoes

LEMMA TellTypes ==
  ASSUME NEW r \in Requests, reply \in [Requests -> Ledger!Codes \cup {"none"}],
         Answer(r) \/ CallEnds(r)
  PROVE  reply' \in [Requests -> Ledger!Codes \cup {"none"}]
BY DEF Answer, CallEnds, Tell, Codes, Ledger!Answer, Ledger!Codes, Ledger!Refusals, Ledger!Unknowns

LEMMA TypesStep ==
  ASSUME MerchInv, [Next]_vars
  PROVE  MerchTypes'
<1>1. MerchTypes /\ Acc!AuthInv
  BY DEF MerchInv
<1>2. /\ status' \in [Logins -> {0, 200, 400, 401, 500}]
      /\ stage' \in [Requests \cup Looks -> Stages]
  BY StageTypes
<1>3. asked' \in [Requests -> Asks] /\ bearer' \in [Requests \cup Looks -> Logins]
  BY <1>1, Frame DEF MerchTypes
<1>4. balances' \in [Ids -> 0 .. MaxInt \cup {NoRow}]
  BY <1>1, StoreSteps, OpensWhat, PayWhat DEF MerchTypes, OpensFor
<1>5. userID' \in [Requests \cup Looks -> Ids]
  <2>1. CASE UNCHANGED userID
    BY <1>1, <2>1 DEF MerchTypes
  <2>2. ASSUME NEW x \in Requests \cup Looks, AuthInterceptor(x)
        PROVE  userID' \in [Requests \cup Looks -> Ids]
    <3>1. stage[x] = "parse" /\ userID' = [userID EXCEPT ![x] = token[bearer[x]].uid]
      BY <2>2 DEF AuthInterceptor, At
    <3>2. token[bearer[x]].uid \in Ids
      BY <3>1, CallerHasAccount
    <3>3. QED BY <1>1, <3>1, <3>2 DEF MerchTypes
  <2>3. UNCHANGED userID \/ \E x \in Requests \cup Looks : AuthInterceptor(x)
    BY DEF Next, vars, calls, LoginBindingFails, LoginRuns, LoginEnds, Forward, BalanceInterceptor,
           FetchUserID, GetGoodInfo, EnsureRecipient, Pay, Answer, CallEnds,
           FetchUserCoinTransfers, GetUsernames, LookFails
  <2>4. QED BY <2>1, <2>2, <2>3
<1>6. toUserID' \in [Requests -> Ids]
  <2>1. CASE UNCHANGED toUserID
    BY <1>1, <2>1 DEF MerchTypes
  <2>2. ASSUME NEW r \in Requests, FetchUserID(r)
        PROVE  toUserID' \in [Requests -> Ids]
    <3>1. /\ asked[r].op = "SendCoins" /\ Auth!GetUserID(asked[r].to) # NoRow
          /\ toUserID' = [toUserID EXCEPT ![r] = Auth!GetUserID(asked[r].to)]
      BY <2>2 DEF FetchUserID
    <3>2. asked[r].to \in Names /\ Auth!Registered(asked[r].to)
          /\ Auth!GetUserID(asked[r].to) = users[asked[r].to].id
      BY <1>1, <3>1, AskTypes DEF Auth!GetUserID
    <3>3. Auth!GetUserID(asked[r].to) \in Ids
      BY <1>1, <3>2, OneOwner
    <3>4. QED BY <1>1, <3>1, <3>3 DEF MerchTypes
  <2>3. UNCHANGED toUserID \/ \E r \in Requests : FetchUserID(r)
    BY DEF Next, vars, calls, LoginBindingFails, LoginRuns, LoginEnds, Forward, BalanceInterceptor,
           AuthInterceptor, GetGoodInfo, EnsureRecipient, Pay, Answer, CallEnds,
           FetchUserCoinTransfers, GetUsernames, LookFails
  <2>4. QED BY <2>1, <2>2, <2>3
<1>7. reply' \in [Requests -> Ledger!Codes \cup {"none"}]
  <2>1. reply \in [Requests -> Ledger!Codes \cup {"none"}]
    BY <1>1 DEF MerchTypes
  <2>2. UNCHANGED reply \/ \E r \in Requests : Pay(r) \/ Answer(r) \/ CallEnds(r)
    BY DEF Next, vars, store, LoginBindingFails, LoginRuns, LoginEnds, Forward, BalanceInterceptor,
           AuthInterceptor, FetchUserID, GetGoodInfo, EnsureRecipient,
           FetchUserCoinTransfers, GetUsernames, LookFails
  <2>3. ASSUME NEW r \in Requests, Pay(r)
        PROVE  reply' \in [Requests -> Ledger!Codes \cup {"none"}]
    BY <1>1, <2>1, <2>3, PayDoes DEF Ledger!Codes
  <2>4. QED BY <2>1, <2>2, <2>3, TellTypes
<1>8. transactions \subseteq transactions'
  BY <1>1, StoreSteps, PayDoes DEF OpensFor, Opens, Transfers, Purchases
<1>9. history' \in [Looks -> SUBSET transactions'] /\ shown' = [i \in Looks |-> shown'[i]]
  <2>1. /\ history \in [Looks -> SUBSET transactions'] /\ shown = [i \in Looks |-> shown[i]]
    BY <1>1, <1>8 DEF MerchTypes
  <2>2. CASE UNCHANGED <<history, shown>>
    BY <2>1, <2>2
  <2>3. CASE \E i \in Looks : FetchUserCoinTransfers(i)
    BY <1>8, <2>1, <2>3 DEF FetchUserCoinTransfers
  <2>4. CASE \E i \in Looks : GetUsernames(i)
    BY <2>1, <2>4 DEF GetUsernames
  <2>5. \/ UNCHANGED <<history, shown>>
        \/ \E i \in Looks : FetchUserCoinTransfers(i) \/ GetUsernames(i)
    BY DEF Next, vars, calls, LoginBindingFails, LoginRuns, LoginEnds, Forward, BalanceInterceptor,
           AuthInterceptor, FetchUserID, GetGoodInfo, EnsureRecipient, Pay, Answer, CallEnds,
           LookFails
  <2>6. QED BY <2>2, <2>3, <2>4, <2>5
<1>10. QED BY <1>2, <1>3, <1>4, <1>5, <1>6, <1>7, <1>9 DEF MerchTypes

\* A handler that may pay stays where it is, with the ids that it has.
LEMMA PayStays ==
  ASSUME MerchInv, [Next]_vars, NEW r \in Requests, stage[r] = "pay"
  PROVE  StillAt(r)
<1>1. MerchTypes
  BY DEF MerchInv
<1>2. CASE Answer(r)
  BY <1>1, <1>2 DEF Answer, MerchTypes, StillAt
<1>3. ~(Forward(r) \/ AuthInterceptor(r) \/ BalanceInterceptor(r)
          \/ FetchUserID(r) \/ GetGoodInfo(r) \/ EnsureRecipient(r))
  BY DEF Forward, AuthInterceptor, BalanceInterceptor, FetchUserID, GetGoodInfo, EnsureRecipient, At
<1>4. QED BY <1>2, <1>3, OneCallMoves, SystemAssumption DEF Moves

LEMMA RowsStep ==
  ASSUME MerchInv, [Next]_vars
  PROVE  RowsInv'
<1>1. MerchTypes /\ UNCHANGED asked
  BY Frame DEF MerchInv
<1>2. ASSUME NEW row \in transactions PROVE TransferRowOK(row)'
  <2>1. TransferRowOK(row)
    BY DEF MerchInv, RowsInv
  <2>2. StillAt(row.id)
    BY <2>1, PayStays DEF TransferRowOK
  <2>3. QED BY <1>1, <2>1, <2>2 DEF StillAt, TransferRowOK
<1>3. ASSUME NEW row \in purchases PROVE PurchaseRowOK(row)'
  <2>1. PurchaseRowOK(row)
    BY DEF MerchInv, RowsInv
  <2>2. StillAt(row.id)
    BY <2>1, PayStays DEF PurchaseRowOK
  <2>3. QED BY <1>1, <2>1, <2>2 DEF StillAt, PurchaseRowOK
<1>4. ASSUME NEW r \in Requests, Pay(r)
      PROVE  /\ \A row \in transactions' : TransferRowOK(row)'
             /\ \A row \in purchases' : PurchaseRowOK(row)'
  <2>1. stage[r] = "pay" /\ UNCHANGED <<stage, userID, toUserID, asked>>
    BY <1>1, <1>4, PayDoes DEF calls
  <2>2. CASE asked[r].op = "SendCoins" /\ Transfers(r, userID[r], toUserID[r], asked[r].amount)
    <3>1. ASSUME NEW row, row = [id |-> r, from_user_id |-> userID[r], to_user_id |-> toUserID[r],
                                 amount |-> asked[r].amount]
          PROVE  TransferRowOK(row)'
      BY <2>1, <2>2, <3>1 DEF TransferRowOK
    <3>2. QED BY <1>2, <1>3, <2>2, <3>1 DEF Transfers
  <2>3. CASE asked[r].op = "BuyItem" /\ Purchases(r, userID[r], asked[r].good)
    <3>1. ASSUME NEW row, row = [id |-> r, user_id |-> userID[r], good_id |-> asked[r].good]
          PROVE  PurchaseRowOK(row)'
      BY <2>1, <2>3, <3>1 DEF PurchaseRowOK
    <3>2. QED BY <1>2, <1>3, <2>3, <3>1 DEF Purchases
  <2>4. QED BY <1>1, <1>4, <2>2, <2>3, PayDoes
<1>5. /\ \A row \in transactions' : TransferRowOK(row)'
      /\ \A row \in purchases' : PurchaseRowOK(row)'
  BY <1>2, <1>3, <1>4, StoreSteps DEF OpensFor, Opens
<1>6. QED BY <1>5 DEF RowsInv

LEMMA BalancesStep ==
  ASSUME MerchInv, [Next]_vars
  PROVE  BalancesInv'
<1>1. MerchTypes /\ Acc!AuthInv
  BY DEF MerchInv
<1>2. ASSUME NEW n \in Names, Auth!Registered(n)
      PROVE  Auth!Registered(n)' /\ users'[n].id = users[n].id
  BY <1>2, Frame
<1>3. ASSUME NEW id \in Ids, balances[id] # NoRow
      PROVE  \E n \in Names : (Auth!Registered(n) /\ users[n].id = id)'
  BY <1>2, <1>3 DEF MerchInv, BalancesInv
<1>4. ASSUME NEW id, Opens(id), \E n \in Names : Auth!Registered(n) /\ users[n].id = id
      PROVE  BalancesInv'
  BY <1>1, <1>2, <1>3, <1>4, OpensWhat DEF BalancesInv
<1>5. ASSUME NEW x \in Requests \cup Looks, stage[x] = "ensure", Opens(userID[x])
      PROVE  BalancesInv'
  <2>1. userID[x] = users[Caller(x)].id /\ Caller(x) \in Names /\ Auth!Registered(Caller(x))
    BY <1>5, CallerHasAccount DEF MerchInv, BearerInv, Known
  <2>2. QED BY <1>4, <1>5, <2>1
<1>6. ASSUME NEW r \in Requests, stage[r] = "ensureTo", Opens(toUserID[r])
      PROVE  BalancesInv'
  <2>1. /\ asked[r].to \in Names /\ Auth!Registered(asked[r].to)
        /\ toUserID[r] = users[asked[r].to].id
    BY <1>1, <1>6, AskTypes DEF MerchInv, RequestInv
  <2>2. QED BY <1>4, <1>6, <2>1
<1>7. ASSUME NEW r \in Requests, Pay(r)
      PROVE  BalancesInv'
  BY <1>1, <1>3, <1>7, PayWhat DEF BalancesInv
<1>8. CASE UNCHANGED balances
  BY <1>3, <1>8 DEF BalancesInv
<1>9. QED BY <1>5, <1>6, <1>7, <1>8, StoreSteps DEF OpensFor

LEMMA MerchInit == Init => MerchInv
<1> SUFFICES ASSUME Init PROVE MerchInv
  OBVIOUS
<1>1. Acc!AuthInv
  <2>1. Acc!Init
    BY DEF Init, Auth!Init, Acc!Init
  <2>2. QED BY <2>1, Assumed, Acc!InitInv
<1>2. MerchTypes
  BY SystemAssumption DEF Init, MerchTypes, Stages, Ids
<1>3. ASSUME NEW l \in Logins PROVE StatusInv(l)
  BY DEF Init, StatusInv
<1>4. ASSUME NEW x \in Requests \cup Looks PROVE BearerInv(x) /\ stage[x] = "new"
  BY DEF Init, BearerInv, Known
<1>5. ASSUME NEW r \in Requests PROVE RequestInv(r)
  BY <1>4 DEF RequestInv
<1>6. RowsInv /\ BalancesInv
  BY DEF Init, RowsInv, BalancesInv
<1>7. QED BY <1>1, <1>2, <1>3, <1>4, <1>5, <1>6 DEF MerchInv

LEMMA MerchStep == MerchInv /\ [Next]_vars => MerchInv'
<1> SUFFICES ASSUME MerchInv, [Next]_vars PROVE MerchInv'
  OBVIOUS
<1>1. QED
  BY Frame, TypesStep, StatusStep, BearerStep, RequestStep, LookStep, RowsStep, BalancesStep
     DEF MerchInv

(***************************************************************************)
(* The inductive invariant holds in every state of the services together.  *)
(***************************************************************************)
THEOREM Invariance == Spec => []MerchInv
<1>1. QED BY MerchInit, MerchStep, PTL DEF Spec

(***************************************************************************)
(* Past its interceptors a handler of the store has the id of a row of     *)
(* users, never the 0 of a missing claim, and a balance fits its column.   *)
(***************************************************************************)
THEOREM TypeCorrect == Spec => []TypeOK
<1>1. ASSUME MerchInv, NEW x \in Requests \cup Looks,
             stage[x] \in {"ensure", "handle", "pay", "names"}
      PROVE  userID[x] \in 1 .. MaxId
  BY <1>1, CallerHasAccount DEF MerchInv, BearerInv, Known
<1>2. ASSUME MerchInv, NEW r \in Requests, stage[r] = "pay", asked[r].op = "SendCoins"
      PROVE  toUserID[r] \in 1 .. MaxId
  BY <1>2, AskTypes, OneOwner DEF MerchInv, RequestInv
<1>3. MerchInv => TypeOK
  BY <1>1, <1>2 DEF MerchInv, MerchTypes, TypeOK
<1>4. QED BY <1>3, Invariance, PTL

-----------------------------------------------------------------------------
(***************************************************************************)
(* Rows by id and rows by name.                                            *)
(***************************************************************************)
NamesKnown ==
    \A n \in Names : Auth!Registered(n) => users[n].id \in Ids /\ NameOf(users[n].id) = n

LEMMA AccountNames == Acc!AuthInv => NamesKnown
<1> SUFFICES ASSUME Acc!AuthInv, NEW n \in Names, Auth!Registered(n)
             PROVE  users[n].id \in Ids /\ NameOf(users[n].id) = n
  BY DEF NamesKnown
<1>1. users[n].id \in Ids /\ Owners(users[n].id) = {n}
  BY OneOwner
<1>2. (CHOOSE m \in Names : m \in {n}) = n
  OBVIOUS
<1>3. QED BY <1>1, <1>2 DEF NameOf

LEMMA AccountNamesAfter == Acc!AuthInv' => NamesKnown'
BY AccountNames, PTL

\* An id has the name of its account, and keeps it.
LEMMA NamesStay ==
  ASSUME MerchInv, [Next]_vars, NEW n \in Names, Auth!Registered(n),
         NEW id, id = users[n].id
  PROVE  NameOf(id) = n /\ NameOf(id)' = n
<1>1. /\ Acc!AuthInv /\ Acc!AuthInv'
      /\ Auth!Registered(n)' /\ users'[n] = users[n]
  BY Frame DEF MerchInv
<1>2. NamesKnown /\ NamesKnown'
  BY <1>1, AccountNames, AccountNamesAfter
<1>3. QED BY <1>1, <1>2 DEF NamesKnown

LEMMA TransferParties ==
  ASSUME MerchInv, NEW row \in transactions
  PROVE  /\ row.id \in Requests /\ stage[row.id] = "pay"
         /\ row = [id |-> row.id, from_user_id |-> row.from_user_id,
                   to_user_id |-> row.to_user_id, amount |-> asked[row.id].amount]
         /\ Caller(row.id) \in Names /\ Auth!Registered(Caller(row.id))
         /\ row.from_user_id = users[Caller(row.id)].id
         /\ asked[row.id].to \in Names /\ Auth!Registered(asked[row.id].to)
         /\ row.to_user_id = users[asked[row.id].to].id
<1>1. TransferRowOK(row)
  BY DEF MerchInv, RowsInv
<1>2. row.from_user_id = userID[row.id] /\ row.to_user_id = toUserID[row.id]
  BY <1>1 DEF TransferRowOK
<1>3. row.id \in Requests /\ stage[row.id] = "pay" /\ asked[row.id].op = "SendCoins"
  BY <1>1 DEF TransferRowOK
<1>4. /\ Caller(row.id) \in Names /\ Auth!Registered(Caller(row.id))
      /\ userID[row.id] = users[Caller(row.id)].id
  BY <1>3, CallerHasAccount DEF MerchInv, BearerInv, Known
<1>5. /\ asked[row.id].to \in Names /\ Auth!Registered(asked[row.id].to)
      /\ toUserID[row.id] = users[asked[row.id].to].id
  BY <1>3, AskTypes DEF MerchInv, RequestInv
<1>6. QED BY <1>1, <1>2, <1>3, <1>4, <1>5 DEF TransferRowOK

LEMMA PurchaseParty ==
  ASSUME MerchInv, NEW row \in purchases
  PROVE  /\ row.id \in Requests /\ stage[row.id] = "pay"
         /\ row = [id |-> row.id, user_id |-> row.user_id, good_id |-> asked[row.id].good]
         /\ Caller(row.id) \in Names /\ Auth!Registered(Caller(row.id))
         /\ row.user_id = users[Caller(row.id)].id
<1>1. PurchaseRowOK(row)
  BY DEF MerchInv, RowsInv
<1>2. row.user_id = userID[row.id] /\ row.id \in Requests /\ stage[row.id] = "pay"
  BY <1>1 DEF PurchaseRowOK
<1>3. /\ Caller(row.id) \in Names /\ Auth!Registered(Caller(row.id))
      /\ userID[row.id] = users[Caller(row.id)].id
  BY <1>2, CallerHasAccount DEF MerchInv, BearerInv, Known
<1>4. QED BY <1>1, <1>2, <1>3 DEF PurchaseRowOK

(***************************************************************************)
(* NoOrphans: whatever the store keeps by id belongs to one user of auth,  *)
(* though no foreign key leads from one database to the other.             *)
(***************************************************************************)
THEOREM OrphansCorrect == Spec => []NoOrphans
<1>1. ASSUME MerchInv, NEW n \in Names, Auth!Registered(n)
      PROVE  \E m \in Names : Owners(users[n].id) = {m}
  BY <1>1, OneOwner DEF MerchInv
<1>2. ASSUME MerchInv, NEW id \in Ids, balances[id] # NoRow
      PROVE  \E m \in Names : Owners(id) = {m}
  BY <1>1, <1>2 DEF MerchInv, BalancesInv
<1>3. ASSUME MerchInv, NEW row \in transactions
      PROVE  /\ \E m \in Names : Owners(row.from_user_id) = {m}
             /\ \E m \in Names : Owners(row.to_user_id) = {m}
  BY <1>1, <1>3, TransferParties
<1>4. ASSUME MerchInv, NEW row \in purchases
      PROVE  \E m \in Names : Owners(row.user_id) = {m}
  BY <1>1, <1>4, PurchaseParty
<1>5. MerchInv => NoOrphans
  BY <1>2, <1>3, <1>4 DEF NoOrphans
<1>6. QED BY <1>5, Invariance, PTL

(***************************************************************************)
(* OnlyOwnersPay: coins leave an account only for a request that carries   *)
(* the token of a login to it, made with the password it was registered    *)
(* with.                                                                   *)
(***************************************************************************)
THEOREM OwnersCorrect == Spec => []OnlyOwnersPay
<1>1. ASSUME MerchInv, NEW r \in Requests, stage[r] = "pay"
      PROVE  /\ status[bearer[r]] = 200
             /\ Owners(users[Caller(r)].id) = {Caller(r)}
             /\ users[Caller(r)].hash.of = login[bearer[r]].password
  BY <1>1, CallerHasAccount
<1>2. ASSUME MerchInv, NEW row \in transactions \cup purchases
      PROVE  /\ row.id \in Requests /\ stage[row.id] = "pay"
             /\ (IF row \in transactions THEN row.from_user_id ELSE row.user_id)
                  = users[Caller(row.id)].id
  BY <1>2, TransferParties, PurchaseParty
<1>3. MerchInv => OnlyOwnersPay
  BY <1>1, <1>2 DEF OnlyOwnersPay, Caller
<1>4. QED BY <1>3, Invariance, PTL

(***************************************************************************)
(* LoginStatusesAreHonest: what the gateway answers to a login is true of  *)
(* the account then and ever after.                                        *)
(***************************************************************************)
THEOREM LoginsCorrect == Spec => []LoginStatusesAreHonest
<1>1. ASSUME MerchInv, NEW l \in Logins, status[l] = 200
      PROVE  token[l] # NoRow /\ Owners(token[l].uid) = {login[l].name}
  <2>1. Acc!AuthInv /\ token[l] # NoRow
    BY <1>1 DEF MerchInv, StatusInv
  <2>2. /\ login[l].name \in Names /\ Auth!Registered(login[l].name)
        /\ token[l] = [uid |-> users[login[l].name].id, usr |-> login[l].name]
    BY <2>1, TokenHolder
  <2>3. Owners(users[login[l].name].id) = {login[l].name}
    BY <2>1, <2>2, OneOwner
  <2>4. QED BY <2>1, <2>2, <2>3
<1>2. ASSUME MerchInv, NEW l \in Logins, status[l] = 401
      PROVE  /\ Auth!Registered(login[l].name)
             /\ users[login[l].name].hash.of # login[l].password
  BY <1>2 DEF MerchInv, StatusInv, Acc!AuthInv, Acc!RefusalsAreTrue, Acc!Registered, Auth!Registered
<1>3. ASSUME MerchInv, NEW l \in Logins, status[l] = 400,
             NEW m \in Names, Auth!Registered(m)
      PROVE  users[m].hash.salt # l
  BY <1>3 DEF MerchInv, StatusInv, Acc!AuthInv, Acc!TraceInv, Acc!Registered, Auth!Registered
<1>4. MerchInv => LoginStatusesAreHonest
  BY <1>1, <1>2, <1>3 DEF LoginStatusesAreHonest
<1>5. QED BY <1>4, Invariance, PTL

LEMMA NamedRowsStay ==
  ASSUME MerchInv, [Next]_vars
  PROVE  /\ \A row \in transactions :
              /\ NameOf(row.from_user_id) = Caller(row.id)
              /\ NameOf(row.from_user_id)' = Caller(row.id)
              /\ NameOf(row.to_user_id) = asked[row.id].to
              /\ NameOf(row.to_user_id)' = asked[row.id].to
         /\ \A row \in purchases :
              /\ NameOf(row.user_id) = Caller(row.id)
              /\ NameOf(row.user_id)' = Caller(row.id)
         /\ NamedTransactions \subseteq NamedTransactions'
<1>1. ASSUME NEW row \in transactions
      PROVE  /\ NameOf(row.from_user_id) = Caller(row.id)
             /\ NameOf(row.from_user_id)' = Caller(row.id)
             /\ NameOf(row.to_user_id) = asked[row.id].to
             /\ NameOf(row.to_user_id)' = asked[row.id].to
  BY TransferParties, NamesStay
<1>2. ASSUME NEW row \in purchases
      PROVE  NameOf(row.user_id) = Caller(row.id) /\ NameOf(row.user_id)' = Caller(row.id)
  BY PurchaseParty, NamesStay
<1>3. transactions \subseteq transactions'
  <2>1. ASSUME NEW r \in Requests, Pay(r) PROVE transactions \subseteq transactions'
    BY <2>1, PayDoes DEF MerchInv, Transfers, Purchases
  <2>2. QED BY <2>1, StoreSteps DEF OpensFor, Opens
<1>4. NamedTransactions \subseteq NamedTransactions'
  BY <1>1, <1>3 DEF NamedTransactions
<1>5. QED BY <1>1, <1>2, <1>4

-----------------------------------------------------------------------------
(***************************************************************************)
(* The names that a look shows.                                            *)
(***************************************************************************)
ShownOK(i) ==
    shown[i] # NoRow =>
        /\ \A s \in shown[i].sent :
             /\ [id |-> s.id, from_user_id |-> Caller(i), to_user_id |-> s.to,
                 amount |-> s.amount] \in NamedTransactions
             /\ s.to = asked[s.id].to
        /\ \A s \in shown[i].received :
             [id |-> s.id, from_user_id |-> s.from, to_user_id |-> Caller(i),
              amount |-> s.amount] \in NamedTransactions

\* Asked for some ids, auth gives the one of an account the name of the account.
LEMMA NameFound ==
  ASSUME Acc!AuthInv, NEW n \in Names, Auth!Registered(n), NEW ids, users[n].id \in ids
  PROVE  Name(Auth!GetUsernames(ids), users[n].id) = n
<1> DEFINE found == {m \in Names : Auth!Registered(m) /\ users[m].id \in ids}
           names == [i \in {users[m].id : m \in found} |-> CHOOSE m \in found : users[m].id = i]
<1>1. n \in found
  OBVIOUS
<1>2. \A m \in found : users[m].id = users[n].id => m = n
  BY OneOwner DEF Owners
<1>3. (CHOOSE m \in found : users[m].id = users[n].id) = n
  BY <1>1, <1>2
<1>4. users[n].id \in DOMAIN names /\ names[users[n].id] = n
  BY <1>1, <1>3
<1>5. Auth!GetUsernames(ids) = names
  BY DEF Auth!GetUsernames
<1> HIDE DEF names
<1>6. QED BY <1>4, <1>5 DEF Name

\* The user that a look is about is the account its client logged in to.
LEMMA OwnRows ==
  ASSUME MerchInv, NEW i \in Looks, stage[i] = "names", NEW row \in history[i]
  PROVE  /\ row \in transactions
         /\ row.from_user_id = userID[i] => Caller(row.id) = Caller(i)
         /\ row.to_user_id = userID[i] => asked[row.id].to = Caller(i)
<1>1. row \in transactions
  BY DEF MerchInv, MerchTypes
<1>2. Caller(i) \in Names /\ Auth!Registered(Caller(i)) /\ userID[i] = users[Caller(i)].id
  BY CallerHasAccount DEF MerchInv, BearerInv, Known
<1>3. NamesKnown
  BY AccountNames DEF MerchInv
<1>4. NameOf(userID[i]) = Caller(i)
  BY <1>2, <1>3 DEF NamesKnown
<1>5. /\ NameOf(row.from_user_id) = Caller(row.id)
      /\ NameOf(row.to_user_id) = asked[row.id].to
  BY <1>1, <1>3, TransferParties DEF NamesKnown
<1>6. QED BY <1>1, <1>4, <1>5

LEMMA ShownStep ==
  ASSUME MerchInv, [Next]_vars, NEW i \in Looks, ShownOK(i)
  PROVE  ShownOK(i)'
<1>1. UNCHANGED asked /\ Caller(i)' = Caller(i) /\ NamedTransactions \subseteq NamedTransactions'
  BY Frame, NamedRowsStay DEF Caller
<1>2. CASE shown'[i] = shown[i]
  BY <1>1, <1>2 DEF ShownOK
<1>3. CASE GetUsernames(i)
  <2> DEFINE sent == {row \in history[i] : row.from_user_id = userID[i]}
             received == {row \in history[i] : row.to_user_id = userID[i]}
             ids == {row.to_user_id : row \in sent} \cup {row.from_user_id : row \in received}
             names == Auth!GetUsernames(ids)
  <2>1. /\ stage[i] = "names"
        /\ shown' = [shown EXCEPT ![i] = [sent |-> {Sent(row, names) : row \in sent},
                                          received |-> {Received(row, names) : row \in received}]]
    BY <1>3 DEF GetUsernames, At
  <2>2. shown'[i] = [sent |-> {Sent(row, names) : row \in sent},
                     received |-> {Received(row, names) : row \in received}]
    BY <2>1 DEF MerchInv, MerchTypes
  <2>3. Acc!AuthInv
    BY DEF MerchInv
  <2>4. ASSUME NEW row \in transactions
        PROVE  [id |-> row.id, from_user_id |-> Caller(row.id), to_user_id |-> asked[row.id].to,
                amount |-> row.amount] \in NamedTransactions
    BY <2>4, NamedRowsStay DEF NamedTransactions
  <2>5. ASSUME NEW row \in sent
        PROVE  /\ Sent(row, names) = [id |-> row.id, to |-> asked[row.id].to, amount |-> row.amount]
               /\ [id |-> row.id, from_user_id |-> Caller(i), to_user_id |-> asked[row.id].to,
                   amount |-> row.amount] \in NamedTransactions
    <3>1. row \in transactions /\ Caller(row.id) = Caller(i) /\ row.to_user_id \in ids
      BY <2>1, <2>5, OwnRows
    <3>2. Name(names, row.to_user_id) = asked[row.id].to
      BY <2>3, <3>1, TransferParties, NameFound
    <3>3. QED BY <2>4, <3>1, <3>2 DEF Sent
  <2>6. ASSUME NEW row \in received
        PROVE  /\ Received(row, names) =
                    [id |-> row.id, from |-> Caller(row.id), amount |-> row.amount]
               /\ [id |-> row.id, from_user_id |-> Caller(row.id), to_user_id |-> Caller(i),
                   amount |-> row.amount] \in NamedTransactions
    <3>1. row \in transactions /\ asked[row.id].to = Caller(i) /\ row.from_user_id \in ids
      BY <2>1, <2>6, OwnRows
    <3>2. Name(names, row.from_user_id) = Caller(row.id)
      BY <2>3, <3>1, TransferParties, NameFound
    <3>3. QED BY <2>4, <3>1, <3>2 DEF Received
  <2> HIDE DEF names, sent, received
  <2>7. ASSUME NEW s \in shown'[i].sent
        PROVE  /\ [id |-> s.id, from_user_id |-> Caller(i), to_user_id |-> s.to,
                   amount |-> s.amount] \in NamedTransactions
               /\ s.to = asked[s.id].to
    <3>1. PICK row \in sent : s = Sent(row, names)
      BY <2>2, <2>7
    <3>2. s = [id |-> row.id, to |-> asked[row.id].to, amount |-> row.amount]
      BY <2>5, <3>1
    <3>3. [id |-> row.id, from_user_id |-> Caller(i), to_user_id |-> asked[row.id].to,
           amount |-> row.amount] \in NamedTransactions
      BY <2>5
    <3>4. QED BY <3>2, <3>3
  <2>8. ASSUME NEW s \in shown'[i].received
        PROVE  [id |-> s.id, from_user_id |-> s.from, to_user_id |-> Caller(i),
                amount |-> s.amount] \in NamedTransactions
    <3>1. PICK row \in received : s = Received(row, names)
      BY <2>2, <2>8
    <3>2. s = [id |-> row.id, from |-> Caller(row.id), amount |-> row.amount]
      BY <2>6, <3>1
    <3>3. [id |-> row.id, from_user_id |-> Caller(row.id), to_user_id |-> Caller(i),
           amount |-> row.amount] \in NamedTransactions
      BY <2>6
    <3>4. QED BY <3>2, <3>3
  <2>9. QED BY <1>1, <2>7, <2>8 DEF ShownOK
<1>4. ASSUME NEW j \in Looks \ {i}, GetUsernames(j)
      PROVE  shown'[i] = shown[i]
  BY <1>4 DEF GetUsernames, MerchInv, MerchTypes
<1>5. (\E j \in Looks : GetUsernames(j)) \/ shown' = shown
  BY DEF Next, vars, calls, LoginBindingFails, LoginRuns, LoginEnds, Forward, AuthInterceptor,
         BalanceInterceptor, FetchUserID, GetGoodInfo, EnsureRecipient, Pay, Answer, CallEnds,
         FetchUserCoinTransfers, LookFails
<1>6. QED BY <1>2, <1>3, <1>4, <1>5

(***************************************************************************)
(* HistoryHasNames: the transfers a client is shown are its own, and the   *)
(* other side has the name it logged in with or was addressed by, for all  *)
(* that the store keeps ids and the names come from another service.       *)
(***************************************************************************)
THEOREM HistoryCorrect == Spec => []HistoryHasNames
<1> DEFINE AllShown == \A i \in Looks : ShownOK(i)
<1>1. Init => AllShown
  BY DEF Init, ShownOK
<1>2. MerchInv /\ AllShown /\ [Next]_vars => AllShown'
  BY ShownStep
<1>3. AllShown => HistoryHasNames
  BY DEF ShownOK, HistoryHasNames
<1> HIDE DEF AllShown
<1>4. QED BY <1>1, <1>2, <1>3, Invariance, PTL DEF Spec
=============================================================================

----------------------------- MODULE AuthProofs -----------------------------
(***************************************************************************)
(* Proofs about AuthRegistry, for any number of names, passwords and       *)
(* logins.  TokensAreTrue is not inductive by itself: a login signs the    *)
(* row it read or wrote some steps earlier, so the invariant has to say    *)
(* that this row is still the one in the table.                            *)
(***************************************************************************)
EXTENDS AuthProperties, TLAPS

\* No id is given twice, and none that the sequence has still to return.
IdsInv ==
    /\ \A n \in Names : Registered(n) => users[n].id < nextId
    /\ \A m, n \in Names :
         Registered(m) /\ Registered(n) /\ users[m].id = users[n].id => m = n

\* The row that login l works with is the one in the table, an answer ends its work, and what
\* it left to the server is that of a login which failed.
LoginInv(l) ==
    LET n == login[l].name IN
    /\ pc[l] \in {"verify", "issue"} => Registered(n) /\ info[l] = users[n]
    /\ pc[l] = "issue" => info[l].hash.of = login[l].password
    /\ reply[l] \notin {"none", "DeadlineExceeded"} \/ token[l] # NoRow =>
         pc[l] \in {"late", "done"}
    /\ pc[l] = "late" => reply[l] \in {"Internal", "DeadlineExceeded"} /\ token[l] = NoRow

\* What login l leaves behind: a token when it is answered OK, no row before its INSERT.
TraceInv(l) ==
    /\ reply[l] = "OK" => token[l] # NoRow
    /\ pc[l] \in {"lookup", "create", "late"} =>
         \A n \in Names : Registered(n) => users[n].hash.salt # l

AuthInv ==
    /\ TypeOK
    /\ IdsInv
    /\ \A l \in Logins : LoginInv(l) /\ TraceInv(l)
    /\ TokensAreTrue
    /\ RefusalsAreTrue

LEMMA InitInv == Init => AuthInv
BY RegistryAssumption
   DEF Init, AuthInv, TypeOK, IdsInv, LoginInv, TraceInv, TokensAreTrue, RefusalsAreTrue,
       Registered, UserRow

(***************************************************************************)
(* What a step does to the table: nothing, or one INSERT under a free key. *)
(***************************************************************************)
LEMMA RowsStay ==
  ASSUME TypeOK, [Next]_vars
  PROVE  \A n \in Names : Registered(n) => users'[n] = users[n]
BY DEF TypeOK, Next, vars, Authenticate, TryGetUserInfo, CreateUser, CreateUserRefused,
       VerifyPassword, IssueToken, AuthenticateFails, ServerInserts, CallerGivesUp, Insert,
       MayInsert, LoseId, Registered

LEMMA NewRowType ==
  ASSUME TypeOK, NEW l \in Logins, nextId <= MaxId
  PROVE  NewRow(l) \in UserRow /\ NewRow(l).id = nextId /\ NewRow(l).hash.of = login[l].password
BY RegistryAssumption DEF TypeOK, NewRow, HashPassword, UserRow

LEMMA TypeStep ==
  ASSUME TypeOK, \A l \in Logins : LoginInv(l), [Next]_vars
  PROVE  TypeOK'
<1>1. ASSUME NEW l \in Logins, TryGetUserInfo(l)
      PROVE  TypeOK'
  BY <1>1 DEF TypeOK, TryGetUserInfo
<1>2. ASSUME NEW l \in Logins, CreateUser(l)
      PROVE  TypeOK'
  BY <1>2, NewRowType, RegistryAssumption DEF TypeOK, CreateUser, MayInsert, Insert
<1>3. ASSUME NEW l \in Logins, CreateUserRefused(l)
      PROVE  TypeOK'
  BY <1>3, RegistryAssumption DEF TypeOK, CreateUserRefused, LoseId, Return, Answer
<1>4. ASSUME NEW l \in Logins, VerifyPassword(l)
      PROVE  TypeOK'
  BY <1>4 DEF TypeOK, VerifyPassword, Return, Answer
<1>5. ASSUME NEW l \in Logins, IssueToken(l)
      PROVE  TypeOK'
  <2>1. info[l] \in UserRow /\ login[l].name \in Names
    BY <1>5 DEF TypeOK, LoginInv, IssueToken, Registered
  <2>2. [uid |-> info[l].id, usr |-> login[l].name] \in [uid : 1 .. MaxId, usr : Names]
    BY <2>1 DEF UserRow
  <2>3. QED BY <1>5, <2>2 DEF TypeOK, IssueToken, Return, Answer
<1>6. ASSUME NEW l \in Logins, AuthenticateFails(l)
      PROVE  TypeOK'
  BY <1>6 DEF TypeOK, AuthenticateFails, Answer
<1>7. ASSUME NEW l \in Logins, ServerInserts(l)
      PROVE  TypeOK'
  BY <1>7, NewRowType, RegistryAssumption DEF TypeOK, ServerInserts, MayInsert, Insert, LoseId
<1>8. ASSUME NEW l \in Logins, CallerGivesUp(l)
      PROVE  TypeOK'
  BY <1>8 DEF TypeOK, CallerGivesUp
<1>9. CASE UNCHANGED vars
  BY <1>9 DEF TypeOK, vars
<1>10. QED
  BY <1>1, <1>2, <1>3, <1>4, <1>5, <1>6, <1>7, <1>8, <1>9 DEF Next, Authenticate

LEMMA InsertIds ==
  ASSUME TypeOK, IdsInv, NEW l \in Logins, MayInsert(l), Insert(l)
  PROVE  IdsInv'
<1> DEFINE k == login[l].name
<1>1. /\ k \in Names /\ users'[k] = NewRow(l) /\ users'[k].id = nextId
      /\ \A n \in Names \ {k} : users'[n] = users[n]
      /\ nextId' = nextId + 1 /\ nextId \in Int
  BY NewRowType DEF TypeOK, MayInsert, Insert
<1>2. \A n \in Names : Registered(n) => users[n].id \in Int
  BY DEF TypeOK, UserRow, Registered
<1>3. QED BY <1>1, <1>2 DEF IdsInv, Registered

LEMMA IdsStep ==
  ASSUME TypeOK, IdsInv, [Next]_vars
  PROVE  IdsInv'
<1>1. CASE users' = users /\ nextId' \in {nextId, nextId + 1}
  <2>1. \A n \in Names : Registered(n) => users[n].id \in Int
    BY DEF TypeOK, UserRow, Registered
  <2>2. nextId \in Int
    BY DEF TypeOK
  <2>3. QED BY <1>1, <2>1, <2>2 DEF IdsInv, Registered
<1>2. CASE \E l \in Logins : MayInsert(l) /\ Insert(l)
  BY <1>2, InsertIds
<1>3. QED
  BY <1>1, <1>2 DEF Next, vars, Authenticate, TryGetUserInfo, CreateUser, CreateUserRefused,
                    VerifyPassword, IssueToken, AuthenticateFails, ServerInserts,
                    CallerGivesUp, LoseId

(***************************************************************************)
(* A step is one of login l, or leaves all that belongs to l alone.        *)
(***************************************************************************)
Step(l) == Authenticate(l) \/ AuthenticateFails(l) \/ ServerInserts(l) \/ CallerGivesUp(l)

Idle(l) == pc'[l] = pc[l] /\ info'[l] = info[l] /\ token'[l] = token[l] /\ reply'[l] = reply[l]

LEMMA OthersIdle ==
  ASSUME TypeOK, NEW l \in Logins, NEW m \in Logins \ {l}, Step(m)
  PROVE  Idle(l)
<1>1. CASE TryGetUserInfo(m)
  BY <1>1 DEF TypeOK, TryGetUserInfo, Idle
<1>2. CASE CreateUser(m)
  BY <1>2 DEF TypeOK, CreateUser, Idle
<1>3. CASE CreateUserRefused(m)
  BY <1>3 DEF TypeOK, CreateUserRefused, Return, Answer, Idle
<1>4. CASE VerifyPassword(m)
  BY <1>4 DEF TypeOK, VerifyPassword, Return, Answer, Idle
<1>5. CASE IssueToken(m)
  BY <1>5 DEF TypeOK, IssueToken, Return, Answer, Idle
<1>6. CASE AuthenticateFails(m)
  BY <1>6 DEF TypeOK, AuthenticateFails, Answer, Idle
<1>7. CASE ServerInserts(m)
  BY <1>7 DEF TypeOK, ServerInserts, Idle
<1>8. CASE CallerGivesUp(m)
  BY <1>8 DEF TypeOK, CallerGivesUp, Idle
<1>9. QED BY <1>1, <1>2, <1>3, <1>4, <1>5, <1>6, <1>7, <1>8 DEF Step, Authenticate

LEMMA Alone ==
  ASSUME TypeOK, [Next]_vars, NEW l \in Logins
  PROVE  Step(l) \/ Idle(l)
<1>1. CASE UNCHANGED vars
  BY <1>1 DEF vars, Idle
<1>2. QED BY <1>1, OthersIdle DEF Next, Step

LEMMA SameLogin ==
  ASSUME TypeOK, [Next]_vars
  PROVE  login' = login
BY DEF Next, vars, Authenticate, TryGetUserInfo, CreateUser, CreateUserRefused,
       VerifyPassword, IssueToken, AuthenticateFails, ServerInserts, CallerGivesUp

\* A row that is there is a row, before and after the step, and the same one.
LEMMA RowKept ==
  ASSUME TypeOK, [Next]_vars, NEW n \in Names, Registered(n)
  PROVE  users'[n] = users[n] /\ Registered(n)' /\ users[n] \in UserRow
BY RowsStay DEF TypeOK, Registered

(***************************************************************************)
(* The other logins of a step, and the rows they rely on, stay put.        *)
(***************************************************************************)
LEMMA LoginStep ==
  ASSUME AuthInv, [Next]_vars, NEW l \in Logins
  PROVE  LoginInv(l)'
<1> DEFINE n == login[l].name
<1>1. TypeOK /\ n \in Names /\ login' = login /\ LoginInv(l)
  BY SameLogin DEF AuthInv, TypeOK
<1>2. Registered(n) => users'[n] = users[n] /\ Registered(n)'
  BY <1>1, RowKept
<1>3. CASE Idle(l)
  BY <1>1, <1>2, <1>3 DEF LoginInv, Idle, Registered
<1>4. CASE TryGetUserInfo(l)
  <2>1. /\ users' = users /\ reply' = reply /\ token' = token /\ info'[l] = users[n]
        /\ pc[l] = "lookup" /\ pc'[l] = IF Registered(n) THEN "verify" ELSE "create"
    BY <1>1, <1>4 DEF TypeOK, TryGetUserInfo
  <2>2. QED BY <1>1, <1>2, <2>1 DEF LoginInv, Registered
<1>5. CASE CreateUser(l)
  <2>1. /\ users'[n] = NewRow(l) /\ info'[l] = NewRow(l) /\ NewRow(l) \in UserRow
        /\ pc[l] = "create" /\ pc'[l] = "issue" /\ reply' = reply /\ token' = token
        /\ NewRow(l).hash.of = login[l].password
    BY <1>1, <1>5, NewRowType DEF TypeOK, CreateUser, MayInsert, Insert
  <2>2. NewRow(l) # NoRow
    BY <2>1, RegistryAssumption DEF UserRow
  <2>3. QED BY <1>1, <2>1, <2>2 DEF LoginInv, Registered
<1>6. CASE CreateUserRefused(l)
  <2>1. pc'[l] = "done"
    BY <1>1, <1>6 DEF TypeOK, CreateUserRefused, Return
  <2>2. QED BY <2>1 DEF LoginInv
<1>7. CASE VerifyPassword(l)
  <2>1. users' = users /\ info' = info /\ token' = token /\ pc[l] = "verify"
    BY <1>7 DEF VerifyPassword
  <2>2. CASE VerifyHash(login[l].password, info[l].hash)
    <3>1. pc'[l] = "issue" /\ reply' = reply
      BY <1>1, <1>7, <2>2 DEF TypeOK, VerifyPassword
    <3>2. QED BY <1>1, <1>2, <2>1, <2>2, <3>1 DEF LoginInv, VerifyHash
  <2>3. CASE ~VerifyHash(login[l].password, info[l].hash)
    <3>1. pc'[l] = "done"
      BY <1>1, <1>7, <2>3 DEF TypeOK, VerifyPassword, Return
    <3>2. QED BY <3>1 DEF LoginInv
  <2>4. QED BY <2>2, <2>3
<1>8. CASE IssueToken(l)
  <2>1. pc'[l] = "done"
    BY <1>1, <1>8 DEF TypeOK, IssueToken, Return
  <2>2. QED BY <2>1 DEF LoginInv
<1>9. CASE CallerGivesUp(l)
  <2>1. /\ users' = users /\ info' = info /\ pc' = pc /\ token' = token
        /\ reply[l] = "none" /\ reply'[l] = "DeadlineExceeded"
    BY <1>1, <1>9 DEF TypeOK, CallerGivesUp
  <2>2. QED BY <1>1, <1>2, <2>1 DEF LoginInv
<1>10. CASE AuthenticateFails(l)
  <2>1. /\ pc[l] \notin {"late", "done"} /\ pc'[l] \in {"late", "done"} /\ token' = token
        /\ reply'[l] = IF reply[l] = "none" THEN "Internal" ELSE reply[l]
    BY <1>1, <1>10 DEF TypeOK, AuthenticateFails, Answer
  <2>2. QED BY <1>1, <2>1 DEF LoginInv
<1>11. CASE ServerInserts(l)
  <2>1. pc'[l] = "done"
    BY <1>1, <1>11 DEF TypeOK, ServerInserts
  <2>2. QED BY <2>1 DEF LoginInv
<1>12. QED
  BY <1>1, <1>3, <1>4, <1>5, <1>6, <1>7, <1>8, <1>9, <1>10, <1>11, Alone DEF Step, Authenticate

TrueToken(l) ==
    token[l] # NoRow =>
        /\ Registered(login[l].name)
        /\ users[login[l].name].hash.of = login[l].password
        /\ token[l] = [uid |-> users[login[l].name].id, usr |-> login[l].name]

LEMMA TokensStep ==
  ASSUME AuthInv, [Next]_vars, NEW l \in Logins
  PROVE  TrueToken(l)'
<1> DEFINE n == login[l].name
<1>1. TypeOK /\ n \in Names /\ login' = login /\ LoginInv(l) /\ TrueToken(l)
  BY SameLogin DEF AuthInv, TypeOK, TokensAreTrue, TrueToken
<1>2. Registered(n) => users'[n] = users[n] /\ Registered(n)'
  BY <1>1, RowKept
<1>3. CASE token'[l] = token[l]
  BY <1>1, <1>2, <1>3 DEF TrueToken
<1>4. CASE IssueToken(l)
  <2>1. token'[l] = [uid |-> info[l].id, usr |-> n] /\ pc[l] = "issue" /\ users' = users
    BY <1>1, <1>4 DEF TypeOK, IssueToken
  <2>2. QED BY <1>1, <1>2, <2>1 DEF TrueToken, LoginInv
<1>5. Step(l) /\ ~IssueToken(l) => token' = token
  BY DEF Step, Authenticate, TryGetUserInfo, CreateUser, CreateUserRefused, VerifyPassword,
         AuthenticateFails, ServerInserts, CallerGivesUp
<1>6. QED BY <1>1, <1>3, <1>4, <1>5, Alone DEF Idle

TrueRefusal(l) ==
    reply[l] = "Unauthenticated" =>
        /\ Registered(login[l].name)
        /\ users[login[l].name].hash.of # login[l].password

LEMMA RefusalsStep ==
  ASSUME AuthInv, [Next]_vars, NEW l \in Logins
  PROVE  TrueRefusal(l)'
<1> DEFINE n == login[l].name
<1>1. TypeOK /\ n \in Names /\ login' = login /\ LoginInv(l) /\ TrueRefusal(l)
  BY SameLogin DEF AuthInv, TypeOK, RefusalsAreTrue, TrueRefusal
<1>2. Registered(n) => users'[n] = users[n] /\ Registered(n)'
  BY <1>1, RowKept
<1>3. CASE reply'[l] = reply[l] \/ reply'[l] # "Unauthenticated"
  BY <1>1, <1>2, <1>3 DEF TrueRefusal
<1>4. CASE VerifyPassword(l) /\ ~VerifyHash(login[l].password, info[l].hash)
  <2>1. pc[l] = "verify" /\ users' = users /\ info[l].hash.of # login[l].password
    BY <1>4 DEF VerifyPassword, VerifyHash
  <2>2. QED BY <1>1, <1>2, <2>1 DEF TrueRefusal, LoginInv
<1>5. CASE VerifyPassword(l) /\ VerifyHash(login[l].password, info[l].hash)
  BY <1>3, <1>5 DEF VerifyPassword
<1>6. CASE TryGetUserInfo(l) \/ CreateUser(l) \/ ServerInserts(l)
  BY <1>3, <1>6 DEF TryGetUserInfo, CreateUser, ServerInserts
<1>7. CASE CreateUserRefused(l) \/ IssueToken(l) \/ AuthenticateFails(l) \/ CallerGivesUp(l)
  <2>1. reply'[l] \in {reply[l], "OK", "Internal", "DeadlineExceeded"}
    BY <1>1, <1>7
       DEF TypeOK, CreateUserRefused, IssueToken, AuthenticateFails, CallerGivesUp, Return, Answer
  <2>2. QED BY <1>3, <2>1
<1>8. QED BY <1>1, <1>3, <1>4, <1>5, <1>6, <1>7, Alone DEF Step, Authenticate, Idle

(***************************************************************************)
(* An answer, once given, and a token, once signed, stay as they are.      *)
(***************************************************************************)
LEMMA RepliesStay ==
  ASSUME TypeOK, [Next]_vars, NEW l \in Logins, reply[l] # "none"
  PROVE  reply'[l] = reply[l]
<1>1. CASE TryGetUserInfo(l) \/ CreateUser(l) \/ ServerInserts(l)
  BY <1>1 DEF TryGetUserInfo, CreateUser, ServerInserts
<1>2. CASE CreateUserRefused(l) \/ VerifyPassword(l) \/ IssueToken(l)
  BY <1>2 DEF TypeOK, CreateUserRefused, VerifyPassword, IssueToken, Return, Answer
<1>3. CASE AuthenticateFails(l) \/ CallerGivesUp(l)
  BY <1>3 DEF TypeOK, AuthenticateFails, CallerGivesUp, Answer
<1>4. QED BY <1>1, <1>2, <1>3, Alone DEF Step, Authenticate, Idle

LEMMA TokensStay ==
  ASSUME AuthInv, [Next]_vars, NEW l \in Logins, token[l] # NoRow
  PROVE  token'[l] = token[l]
<1>1. CASE IssueToken(l)
  BY <1>1 DEF AuthInv, TypeOK, LoginInv, TokensAreTrue, IssueToken
<1>2. Step(l) /\ ~IssueToken(l) => token' = token
  BY DEF Step, Authenticate, TryGetUserInfo, CreateUser, CreateUserRefused, VerifyPassword,
         AuthenticateFails, ServerInserts, CallerGivesUp
<1>3. QED BY <1>1, <1>2, Alone DEF AuthInv, Idle

\* A row that was not there before is one of a login that was about to insert it.
LEMMA RowsAdded ==
  ASSUME TypeOK, [Next]_vars, NEW n \in Names, Registered(n)', ~Registered(n)
  PROVE  \E m \in Logins : pc'[m] \in {"issue", "done"} /\ users'[n] = NewRow(m)
<1>1. users' # users
  BY DEF Registered
<1>2. PICK m \in Logins : CreateUser(m) \/ ServerInserts(m)
  BY <1>1 DEF Next, vars, Authenticate, TryGetUserInfo, CreateUserRefused, VerifyPassword,
              IssueToken, AuthenticateFails, CallerGivesUp, LoseId
<1>3. pc'[m] \in {"issue", "done"} /\ Insert(m)
  BY <1>1, <1>2 DEF TypeOK, CreateUser, ServerInserts, LoseId
<1>4. users'[n] = NewRow(m)
  BY <1>3 DEF TypeOK, Insert, Registered
<1>5. QED BY <1>3, <1>4

LEMMA TraceStep ==
  ASSUME AuthInv, [Next]_vars, NEW l \in Logins
  PROVE  TraceInv(l)'
<1>1. TypeOK /\ TraceInv(l) /\ LoginInv(l)
  BY DEF AuthInv
<1>2. reply'[l] = "OK" => token'[l] # NoRow
  <2>1. CASE IssueToken(l)
    <3>1. token'[l] = [uid |-> info[l].id, usr |-> login[l].name] /\ pc[l] = "issue"
      BY <1>1, <2>1 DEF TypeOK, IssueToken
    <3>2. info[l] \in UserRow /\ login[l].name \in Names
      BY <1>1, <3>1 DEF TypeOK, LoginInv, Registered
    <3>3. token'[l] \in [uid : 1 .. MaxId, usr : Names]
      BY <3>1, <3>2 DEF UserRow
    <3>4. QED BY <3>3, RegistryAssumption
  <2>2. CASE reply'[l] = reply[l]
    BY <1>1, <2>2, TokensStay DEF TraceInv
  <2>3. CASE reply'[l] \in {"Unauthenticated", "Internal", "DeadlineExceeded"}
    BY <2>3
  <2>4. Step(l) /\ ~IssueToken(l) =>
          reply'[l] \in {reply[l], "Unauthenticated", "Internal", "DeadlineExceeded"}
    BY <1>1 DEF TypeOK, Step, Authenticate, TryGetUserInfo, CreateUser, CreateUserRefused,
                VerifyPassword, AuthenticateFails, ServerInserts, CallerGivesUp, Return, Answer
  <2>5. QED BY <1>1, <2>1, <2>2, <2>3, <2>4, Alone DEF Idle
<1>3. ASSUME pc'[l] \in {"lookup", "create", "late"}, NEW n \in Names, Registered(n)'
      PROVE  users'[n].hash.salt # l
  <2>1. pc[l] \in {"lookup", "create", "late"}
    BY <1>1, <1>3, Alone
       DEF TypeOK, Idle, Step, Authenticate, TryGetUserInfo, CreateUser, CreateUserRefused,
           VerifyPassword, IssueToken, AuthenticateFails, ServerInserts, CallerGivesUp, Return,
           Answer
  <2>2. CASE Registered(n)
    BY <1>1, <2>1, <2>2, RowsStay DEF TraceInv
  <2>3. CASE ~Registered(n)
    <3>1. PICK m \in Logins : /\ pc'[m] \in {"issue", "done"} /\ users'[n] = NewRow(m)
      BY <1>1, <1>3, <2>3, RowsAdded
    <3>2. m # l /\ users'[n].hash.salt = m
      BY <1>3, <3>1 DEF NewRow, HashPassword
    <3>3. QED BY <3>2
  <2>4. QED BY <2>2, <2>3
<1>4. QED BY <1>2, <1>3 DEF TraceInv

LEMMA InvStep == AuthInv /\ [Next]_vars => AuthInv'
<1> SUFFICES ASSUME AuthInv, [Next]_vars PROVE AuthInv'
  OBVIOUS
<1>1. TypeOK' /\ IdsInv'
  BY TypeStep, IdsStep DEF AuthInv
<1>2. \A l \in Logins : LoginInv(l)' /\ TraceInv(l)'
  BY LoginStep, TraceStep
<1>3. TokensAreTrue'
  BY TokensStep DEF TokensAreTrue, TrueToken
<1>4. RefusalsAreTrue'
  BY RefusalsStep DEF RefusalsAreTrue, TrueRefusal
<1>5. QED BY <1>1, <1>2, <1>3, <1>4 DEF AuthInv

LEMMA Invariance == Spec => []AuthInv
BY InitInv, InvStep, PTL DEF Spec

(***************************************************************************)
(* Every id given out fits the column and the int32 of the answer, and     *)
(* what a login signs is the id of a row, never of none.                   *)
(***************************************************************************)
THEOREM TypeCorrect == Spec => []TypeOK
<1>1. AuthInv => TypeOK
  BY DEF AuthInv
<1>2. QED BY <1>1, Invariance, PTL

(***************************************************************************)
(* However many logins race to register a name, a token is signed only for *)
(* the password that won, and names the account that is in the table.      *)
(***************************************************************************)
THEOREM TokensCorrect == Spec => []TokensAreTrue
<1>1. AuthInv => TokensAreTrue
  BY DEF AuthInv
<1>2. QED BY <1>1, Invariance, PTL

(***************************************************************************)
(* Nobody is told that a password is wrong that is, or will be, the right  *)
(* one.                                                                    *)
(***************************************************************************)
THEOREM RefusalsCorrect == Spec => []RefusalsAreTrue
<1>1. AuthInv => RefusalsAreTrue
  BY DEF AuthInv
<1>2. QED BY <1>1, Invariance, PTL

(***************************************************************************)
(* Ids and names translate back and forth: GetUsernames undoes GetUserID.  *)
(***************************************************************************)
THEOREM NamesCorrect == Spec => []NamesRoundTrip
<1>1. ASSUME AuthInv, NEW n \in Names, GetUserID(n) # NoRow
      PROVE  LET found == GetUsernames({GetUserID(n)}) IN
             DOMAIN found = {GetUserID(n)} /\ found[GetUserID(n)] = n
  <2>1. Registered(n) /\ GetUserID(n) = users[n].id
    BY <1>1 DEF GetUserID
  <2>2. {m \in Names : Registered(m) /\ users[m].id \in {users[n].id}} = {n}
    BY <1>1, <2>1 DEF AuthInv, IdsInv
  <2>3. {users[m].id : m \in {n}} = {users[n].id}
    OBVIOUS
  <2>4. (CHOOSE m \in {n} : users[m].id = users[n].id) = n
    OBVIOUS
  <2>5. GetUsernames({users[n].id}) = [i \in {users[n].id} |-> CHOOSE m \in {n} : users[m].id = i]
    BY <2>2, <2>3 DEF GetUsernames
  <2>6. QED BY <2>1, <2>4, <2>5
<1>2. AuthInv => NamesRoundTrip
  BY <1>1 DEF NamesRoundTrip
<1>3. QED BY <1>2, Invariance, PTL

(***************************************************************************)
(* A registered account keeps its id and its password.                     *)
(***************************************************************************)
THEOREM RowsCorrect == Spec => RowsAreForever
<1>1. AuthInv /\ [Next]_vars => [\A n \in Names : Registered(n) => users'[n] = users[n]]_vars
  BY RowsStay DEF AuthInv
<1>2. QED BY <1>1, Invariance, PTL DEF Spec, RowsAreForever
-----------------------------------------------------------------------------
(***************************************************************************)
(* The refinement: the table as a book of accounts.                        *)
(***************************************************************************)
Table == [n \in {m \in Names : Registered(m)} |->
            [id |-> users[n].id, password |-> users[n].hash.of]]

LEMMA BookInit == Init => Book!Init
<1> SUFFICES ASSUME Init PROVE Book!Init
  OBVIOUS
<1>1. {m \in Names : Registered(m)} = {}
  BY DEF Init, Registered
<1>2. Table = [n \in {} |-> NoRow]
  BY <1>1 DEF Table
<1>3. QED BY <1>2 DEF Init, Table, Book!Init

LEMMA BookEntries ==
  /\ DOMAIN Table = {m \in Names : Registered(m)}
  /\ \A n \in Names : Book!Registered(n) <=> Registered(n)
  /\ \A n \in Names : Registered(n) =>
       Table[n] = [id |-> users[n].id, password |-> users[n].hash.of]
BY DEF Table, Book!Registered

\* A step that leaves the table alone leaves the book alone.
LEMMA SameTable ==
  ASSUME users' = users
  PROVE  Table' = Table
BY DEF Table, Registered

LEMMA StillPending ==
  ASSUME AuthInv, NEW l \in Logins, pc[l] \notin {"late", "done"}
  PROVE  Book!Pending(l)
BY DEF AuthInv, LoginInv, Book!Pending

\* A login that inserts, or leaves an INSERT behind, has not been given a token or refused.
LEMMA StillUndecided ==
  ASSUME AuthInv, NEW l \in Logins, pc[l] # "done"
  PROVE  Book!Undecided(l)
BY DEF AuthInv, TypeOK, LoginInv, Book!Undecided, Book!Pending

\* The INSERT is the registration, before an answer or after it.
LEMMA InsertRegisters ==
  ASSUME AuthInv, NEW l \in Logins, pc[l] # "done", MayInsert(l), Insert(l),
         UNCHANGED <<login, token, reply>>
  PROVE  Book!Register(l)
<1> DEFINE n == login[l].name
           row == [id |-> nextId, password |-> login[l].password]
<1>1. n \in Storable /\ n \in Names /\ ~Registered(n) /\ ~Book!Registered(n)
  BY BookEntries, RegistryAssumption DEF AuthInv, TypeOK, MayInsert
<1>2. /\ users' = [users EXCEPT ![n] = NewRow(l)] /\ users \in [Names -> UserRow \cup {NoRow}]
      /\ NewRow(l) \in UserRow /\ NewRow(l).id = nextId
      /\ NewRow(l).hash.of = login[l].password /\ nextId \in 1 .. MaxId
  BY NewRowType DEF AuthInv, TypeOK, MayInsert, Insert
<1>3. NewRow(l) # NoRow
  BY <1>2, RegistryAssumption DEF UserRow
<1>4. \A m \in Names : Registered(m)' <=> Registered(m) \/ m = n
  BY <1>1, <1>2, <1>3 DEF Registered
<1>5. {m \in Names : Registered(m)'} = DOMAIN Table \cup {n}
  BY <1>1, <1>4, BookEntries
<1>6. ASSUME NEW m \in DOMAIN Table \cup {n}
      PROVE  [id |-> users'[m].id, password |-> users'[m].hash.of] =
               IF m = n THEN row ELSE Table[m]
  <2>1. CASE m = n
    BY <1>1, <1>2, <2>1
  <2>2. CASE m # n
    BY <1>2, <2>2, BookEntries
  <2>3. QED BY <2>1, <2>2
<1>7. Table' = [m \in DOMAIN Table \cup {n} |-> IF m = n THEN row ELSE Table[m]]
  BY <1>5, <1>6 DEF Table
<1>8. nextId \in 1 .. MaxId \ {Table[m].id : m \in DOMAIN Table}
  <2>1. ASSUME NEW m \in DOMAIN Table PROVE Table[m].id # nextId
    <3>1. m \in Names /\ Registered(m) /\ Table[m].id = users[m].id
      BY BookEntries
    <3>2. users[m].id < nextId /\ users[m].id \in Int /\ nextId \in Int
      BY <1>2, <3>1 DEF AuthInv, IdsInv, Registered, UserRow
    <3>3. QED BY <3>1, <3>2
  <2>2. QED BY <1>2, <2>1
<1>9. QED BY <1>1, <1>7, <1>8, StillUndecided DEF Table, Book!Register

\* A handler that returns with an error answers its caller, unless it gave up.
LEMMA FailStep ==
  ASSUME AuthInv, NEW l \in Logins, pc[l] \notin {"late", "done"}, users' = users,
         Answer(l, "Internal"), UNCHANGED <<login, token>>
  PROVE  Book!Fail(l)
<1>1. Table' = Table
  BY SameTable
<1>2. QED BY <1>1, StillPending DEF Answer, Book!Answer, Book!Fail, Table

LEMMA BookStep ==
  ASSUME AuthInv, [Next]_vars
  PROVE  [Book!Next]_Book!vars
<1>1. ASSUME UNCHANGED <<users, login, token, reply>>
      PROVE  UNCHANGED Book!vars
  BY <1>1, SameTable DEF Book!vars, Table
<1>2. ASSUME NEW l \in Logins, TryGetUserInfo(l)
      PROVE  [Book!Next]_Book!vars
  BY <1>1, <1>2 DEF TryGetUserInfo
<1>3. ASSUME NEW l \in Logins, CreateUser(l)
      PROVE  [Book!Next]_Book!vars
  BY <1>3, InsertRegisters DEF CreateUser, Book!Next
<1>4. ASSUME NEW l \in Logins, CreateUserRefused(l)
      PROVE  [Book!Next]_Book!vars
  BY <1>4, FailStep DEF CreateUserRefused, Return, LoseId, Book!Next
<1>5. ASSUME NEW l \in Logins, VerifyPassword(l)
      PROVE  [Book!Next]_Book!vars
  <2> DEFINE n == login[l].name
  <2>1. /\ pc[l] = "verify" /\ n \in Names /\ Registered(n) /\ info[l] = users[n]
        /\ UNCHANGED <<users, login, token>>
    BY <1>5 DEF AuthInv, TypeOK, LoginInv, VerifyPassword
  <2>2. Book!Registered(n) /\ Table[n].password = users[n].hash.of /\ Table' = Table
    BY <2>1, BookEntries, SameTable
  <2>3. CASE VerifyHash(login[l].password, info[l].hash)
    BY <1>1, <1>5, <2>1, <2>3 DEF VerifyPassword
  <2>4. CASE ~VerifyHash(login[l].password, info[l].hash)
    <3>1. Book!Answer(l, "Unauthenticated")
      BY <1>5, <2>4 DEF VerifyPassword, Return, Answer, Book!Answer
    <3>2. Book!Pending(l)
      BY <2>1, StillPending
    <3>3. Table[n].password # login[l].password
      BY <2>1, <2>2, <2>4 DEF VerifyHash
    <3>4. Book!Refuse(l)
      BY <2>1, <2>2, <3>1, <3>2, <3>3 DEF Book!Refuse, Table
    <3>5. QED BY <3>4 DEF Book!Next
  <2>5. QED BY <2>3, <2>4
<1>6. ASSUME NEW l \in Logins, IssueToken(l)
      PROVE  [Book!Next]_Book!vars
  <2> DEFINE n == login[l].name
  <2>1. /\ pc[l] = "issue" /\ n \in Names /\ Registered(n) /\ info[l] = users[n]
        /\ users[n].hash.of = login[l].password /\ UNCHANGED <<users, login>>
    BY <1>6 DEF AuthInv, TypeOK, LoginInv, IssueToken
  <2>2. /\ Book!Registered(n) /\ Table' = Table
        /\ Table[n].password = login[l].password /\ Table[n].id = info[l].id
    BY <2>1, BookEntries, SameTable
  <2>3. Book!Pending(l) /\ Book!Answer(l, "OK")
    BY <1>6, <2>1, StillPending DEF IssueToken, Return, Answer, Book!Answer
  <2>4. token' = [token EXCEPT ![l] = [uid |-> Table[n].id, usr |-> n]]
    BY <1>6, <2>2 DEF IssueToken
  <2>5. Book!SignIn(l)
    BY <2>1, <2>2, <2>3, <2>4 DEF Book!SignIn, Table
  <2>6. QED BY <2>5 DEF Book!Next
<1>7. ASSUME NEW l \in Logins, AuthenticateFails(l)
      PROVE  [Book!Next]_Book!vars
  BY <1>7, FailStep DEF AuthenticateFails, Book!Next
<1>8. ASSUME NEW l \in Logins, ServerInserts(l)
      PROVE  [Book!Next]_Book!vars
  <2>1. pc[l] # "done" /\ UNCHANGED <<login, token, reply>>
    BY <1>8 DEF ServerInserts
  <2>2. users' = users \/ (MayInsert(l) /\ Insert(l))
    BY <1>8 DEF ServerInserts, LoseId
  <2>3. UNCHANGED Book!vars \/ Book!Register(l)
    BY <1>1, <2>1, <2>2, InsertRegisters
  <2>4. QED BY <2>3 DEF Book!Next
<1>9. ASSUME NEW l \in Logins, CallerGivesUp(l)
      PROVE  [Book!Next]_Book!vars
  <2>1. Book!Answer(l, "DeadlineExceeded") /\ reply[l] = "none"
    BY <1>9 DEF CallerGivesUp, Book!Answer, AuthInv, TypeOK
  <2>2. Book!CallerGivesUp(l)
    BY <1>9, <2>1, SameTable DEF CallerGivesUp, Book!CallerGivesUp, Table
  <2>3. QED BY <2>2 DEF Book!Next
<1>10. CASE UNCHANGED vars
  BY <1>1, <1>10 DEF vars
<1>11. QED
  BY <1>2, <1>3, <1>4, <1>5, <1>6, <1>7, <1>8, <1>9, <1>10 DEF Next, Authenticate

(***************************************************************************)
(* Reading a row and inserting one in two statements, with results lost,   *)
(* callers gone and INSERTs executed after their handlers have returned,   *)
(* is registering an account at once and for good, and signing tokens for  *)
(* its password; a login that has got its token or its refusal registers   *)
(* nothing afterwards.  Of one that was told Internal, or not in time, the *)
(* account may still appear.                                               *)
(***************************************************************************)
THEOREM AccountsRefinement == Spec => ImplementsAccounts
BY BookInit, BookStep, Invariance, PTL DEF Spec, ImplementsAccounts, Book!Spec
=============================================================================

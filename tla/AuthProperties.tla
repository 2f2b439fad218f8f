--------------------------- MODULE AuthProperties ---------------------------
(***************************************************************************)
(* What must hold of logins and look-ups (AuthRegistry).                   *)
(***************************************************************************)
EXTENDS AuthRegistry

UserRow == [id : 1 .. MaxId, hash : [of : Passwords, salt : Logins]]

(***************************************************************************)
(* Type correctness: ids are those of a SERIAL column, which the service   *)
(* hands out as int32 (auth_service.go:63), and the sequence stops there.  *)
(***************************************************************************)
TypeOK ==
    /\ users \in [Names -> UserRow \cup {NoRow}]
    /\ nextId \in 1 .. MaxId + 1
    /\ login \in [Logins -> [name : Names, password : Passwords]]
    /\ pc \in [Logins -> {"lookup", "create", "verify", "issue", "late", "done"}]
    /\ info \in [Logins -> UserRow \cup {NoRow}]
    /\ token \in [Logins -> [uid : 1 .. MaxId, usr : Names] \cup {NoRow}]
    /\ reply \in [Logins -> {"none", "OK", "Unauthenticated", "Internal", "DeadlineExceeded"}]

(***************************************************************************)
(* A token names the account of its login, and was given to the password   *)
(* that account is registered with, however many logins raced to register  *)
(* it with passwords of their own (auth_case.go:36-64).                    *)
(***************************************************************************)
TokensAreTrue ==
    \A l \in Logins :
        LET n == login[l].name IN
        token[l] # NoRow =>
            /\ Registered(n)
            /\ users[n].hash.of = login[l].password
            /\ token[l] = [uid |-> users[n].id, usr |-> n]

(***************************************************************************)
(* "mismatched credentials" (auth_service.go:40) is said only to a         *)
(* password that is not, and will not become, the one of the account.      *)
(***************************************************************************)
RefusalsAreTrue ==
    \A l \in Logins :
        reply[l] = "Unauthenticated" =>
            /\ Registered(login[l].name)
            /\ users[login[l].name].hash.of # login[l].password

(***************************************************************************)
(* The store keeps ids and shows names: the id that SendCoins gets for a   *)
(* name (users.go:55) comes back as that name in a history (users.go:71),  *)
(* and no two names lead to one account.                                   *)
(***************************************************************************)
NamesRoundTrip ==
    \A n \in Names :
        GetUserID(n) # NoRow =>
            LET found == GetUsernames({GetUserID(n)}) IN
            DOMAIN found = {GetUserID(n)} /\ found[GetUserID(n)] = n

(***************************************************************************)
(* An account, once registered, keeps its id and its password: balances    *)
(* and histories of the store refer to it by id, in another database.      *)
(***************************************************************************)
RowsAreForever ==
    [][\A n \in Names : Registered(n) => users'[n] = users[n]]_vars

(***************************************************************************)
(* Refinement: two statements without a transaction, a sequence and salted *)
(* hashes implement accounts that are registered at once and for good.     *)
(* The INSERT is the registration, whether its result arrives or not and   *)
(* whenever the server executes it, even after the handler has answered    *)
(* Internal (auth_case.go:48, users.go:29); but a login that got a token   *)
(* or a refusal registers nothing any more.                                *)
(***************************************************************************)
Book == INSTANCE Accounts WITH
          accounts <- [n \in {m \in Names : Registered(m)} |->
                         [id |-> users[n].id, password |-> users[n].hash.of]]

ImplementsAccounts == Book!Spec

(***************************************************************************)
(* README.md:18 promises "automatic user registration on first login",     *)
(* README.md:55 "Authenticate (auto-registers on first login)".  On a calm *)
(* day, with names that fit and ids left, a login is then answered with a  *)
(* token or told that its password is wrong, and nothing else.             *)
(***************************************************************************)
LoginsRegister == \A l \in Logins : reply[l] # "Internal"
=============================================================================

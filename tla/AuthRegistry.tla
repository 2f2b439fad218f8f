---------------------------- MODULE AuthRegistry ----------------------------
(***************************************************************************)
(* The auth service: the table users, the logins that read it and then     *)
(* write it in two statements without a transaction, and the look-ups by   *)
(* which the store turns names into ids and ids into names.                *)
(***************************************************************************)
EXTENDS Integers

CONSTANTS
    Names,          \* usernames clients type
    Storable,       \* those that fit the column users.username, VARCHAR(50)
    Passwords,
    Logins,         \* calls of Authenticate in flight; each runs once
    MaxId,          \* the largest value of a SERIAL column
    NoRow           \* no row, and no token

ASSUME RegistryAssumption ==
    /\ Storable \subseteq Names
    /\ MaxId \in Nat
    /\ NoRow \notin [id : 1 .. MaxId, hash : [of : Passwords, salt : Logins]]
    /\ NoRow \notin [uid : 1 .. MaxId, usr : Names]

VARIABLES
    users,          \* committed rows of users: username -> [id, hash]
    nextId,         \* what the sequence of users.id returns next
    login,          \* login[l]: the username and password of a call
    pc,             \* pc[l]: what the handler of l does next, or "late": it has returned, but
                    \* the server may still execute its INSERT
    info,           \* info[l]: the row the handler works with
    token,          \* token[l]: the claims it signed
    reply           \* reply[l]: the code the caller was told, or "none"

vars == <<users, nextId, login, pc, info, token, reply>>

Init ==
    /\ users = [n \in Names |-> NoRow]
    /\ nextId = 1
    /\ login \in [Logins -> [name : Names, password : Passwords]]
    /\ pc = [l \in Logins |-> "lookup"]
    /\ info = [l \in Logins |-> NoRow]
    /\ token = [l \in Logins |-> NoRow]
    /\ reply = [l \in Logins |-> "none"]

-----------------------------------------------------------------------------
Registered(n) == users[n] # NoRow

(***************************************************************************)
(* argon2id: the hash of a password under a fresh salt, the call's own.    *)
(* Two hashes of one password differ; comparing a password with a hash     *)
(* tells whether it was made of it.                                        *)
(***************************************************************************)
HashPassword(l) == [of |-> login[l].password, salt |-> l]

VerifyHash(p, hash) == hash.of = p

\* A caller that gave up does not hear it.
Answer(l, code) == reply' = [reply EXCEPT ![l] = IF @ = "none" THEN code ELSE @]

\* The handler returns.
Return(l, code) == pc' = [pc EXCEPT ![l] = "done"] /\ Answer(l, code)

TryGetUserInfo(l) ==
    LET n == login[l].name IN
    /\ pc[l] = "lookup"
    /\ info' = [info EXCEPT ![l] = users[n]]
    /\ pc' = [pc EXCEPT ![l] = IF Registered(n) THEN "verify" ELSE "create"]
    /\ UNCHANGED <<users, nextId, login, token, reply>>

\* The row an INSERT of l adds, if the sequence, the column and the key allow it.
NewRow(l) == [id |-> nextId, hash |-> HashPassword(l)]

MayInsert(l) ==
    /\ nextId <= MaxId
    /\ login[l].name \in Storable
    /\ ~Registered(login[l].name)

Insert(l) ==
    /\ users' = [users EXCEPT ![login[l].name] = NewRow(l)]
    /\ nextId' = nextId + 1

\* Fault: the sequence is wider than the ids the service hands out.
CreateUser_Wide(l) ==
    /\ pc[l] = "create"
    /\ ~Registered(login[l].name)
    /\ Insert(l)
    /\ info' = [info EXCEPT ![l] = NewRow(l)]
    /\ pc' = [pc EXCEPT ![l] = "issue"]
    /\ UNCHANGED <<login, token, reply>>

\* Fault: the INSERT ends in ON CONFLICT (username) DO UPDATE.
CreateUser_Upsert(l) ==
    /\ pc[l] = "create"
    /\ nextId <= MaxId /\ login[l].name \in Storable
    /\ Insert(l)
    /\ info' = [info EXCEPT ![l] = NewRow(l)]
    /\ pc' = [pc EXCEPT ![l] = "issue"]
    /\ UNCHANGED <<login, token, reply>>

\* INSERT INTO users ... RETURNING, autocommitted.
CreateUser(l) ==
    /\ pc[l] = "create"
    /\ MayInsert(l)
    /\ Insert(l)
    /\ info' = [info EXCEPT ![l] = NewRow(l)]
    /\ pc' = [pc EXCEPT ![l] = "issue"]
    /\ UNCHANGED <<login, token, reply>>

\* An INSERT that fails takes its id with it, if it got as far as the sequence.
LoseId == users' = users /\ nextId' \in {nextId, nextId + 1} \cap (1 .. MaxId + 1)

\* Fault: the error of CreateUser is not looked at, and the zero UserInfo is signed.
CreateUserRefused_Ignored(l) ==
    /\ pc[l] = "create"
    /\ ~MayInsert(l)
    /\ LoseId
    /\ info' = [info EXCEPT ![l] = [id |-> 0, hash |-> HashPassword(l)]]
    /\ pc' = [pc EXCEPT ![l] = "issue"]
    /\ UNCHANGED <<login, token, reply>>

\* The key is taken, the name is too long or the sequence exhausted.
CreateUserRefused(l) ==
    /\ pc[l] = "create"
    /\ ~MayInsert(l)
    /\ LoseId
    /\ Return(l, "Internal")
    /\ UNCHANGED <<login, info, token>>

\* Fault: the result of the comparison is dropped, only its error is looked at.
VerifyPassword_Ignored(l) ==
    /\ pc[l] = "verify"
    /\ pc' = [pc EXCEPT ![l] = "issue"]
    /\ UNCHANGED <<users, nextId, login, info, token, reply>>

VerifyPassword(l) ==
    /\ pc[l] = "verify"
    /\ IF VerifyHash(login[l].password, info[l].hash)
       THEN pc' = [pc EXCEPT ![l] = "issue"] /\ UNCHANGED reply
       ELSE Return(l, "Unauthenticated")
    /\ UNCHANGED <<users, nextId, login, info, token>>

IssueToken(l) ==
    /\ pc[l] = "issue"
    /\ token' = [token EXCEPT ![l] = [uid |-> info[l].id, usr |-> login[l].name]]
    /\ Return(l, "OK")
    /\ UNCHANGED <<users, nextId, login, info>>

(***************************************************************************)
(* The database, the hasher or the signer fails.  A handler that loses the *)
(* connection or its context while it inserts returns without knowing what *)
(* becomes of the INSERT, which commits by itself.                         *)
(***************************************************************************)
AuthenticateFails(l) ==
    /\ pc[l] \notin {"late", "done"}
    /\ Answer(l, "Internal")
    /\ pc' = [pc EXCEPT ![l] = IF @ = "create" THEN "late" ELSE "done"]
    /\ UNCHANGED <<users, nextId, login, info, token>>

\* The server executes such an INSERT, or gives it up with or without an id.
ServerInserts(l) ==
    /\ pc[l] = "late"
    /\ (MayInsert(l) /\ Insert(l)) \/ LoseId
    /\ pc' = [pc EXCEPT ![l] = "done"]
    /\ UNCHANGED <<login, info, token, reply>>

\* The five seconds of the gateway are over.
CallerGivesUp(l) ==
    /\ reply[l] = "none"
    /\ reply' = [reply EXCEPT ![l] = "DeadlineExceeded"]
    /\ UNCHANGED <<users, nextId, login, pc, info, token>>

-----------------------------------------------------------------------------
Authenticate(l) ==
    \/ TryGetUserInfo(l) \/ CreateUser(l) \/ CreateUserRefused(l)
    \/ VerifyPassword(l) \/ IssueToken(l)

Next ==
    \E l \in Logins :
        Authenticate(l) \/ AuthenticateFails(l) \/ ServerInserts(l) \/ CallerGivesUp(l)

Spec == Init /\ [][Next]_vars

\* A day on which nothing fails and nobody is in a hurry.
CalmSpec == Init /\ [][\E l \in Logins : Authenticate(l)]_vars

-----------------------------------------------------------------------------
(***************************************************************************)
(* What the store asks of the service.                                     *)
(***************************************************************************)
\* Fault: no rows is not an error, so that a missing user has the id 0.
GetUserID_Zero(n) == IF Registered(n) THEN users[n].id ELSE 0

\* An id, or NoRow for codes.NotFound.
GetUserID(n) == IF Registered(n) THEN users[n].id ELSE NoRow

\* The names of those of the ids that exist.
GetUsernames(ids) ==
    LET found == {n \in Names : Registered(n) /\ users[n].id \in ids} IN
    [i \in {users[n].id : n \in found} |-> CHOOSE n \in found : users[n].id = i]
=============================================================================

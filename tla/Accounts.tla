------------------------------ MODULE Accounts ------------------------------
(***************************************************************************)
(* What the auth service promises its callers, with no statement, hash or  *)
(* sequence in sight: an account is registered at once and for good, under *)
(* an id of its own, with the password of a login that has neither been    *)
(* given a token nor refused; a token is for the password of the account   *)
(* and carries its id; a wrong password is refused.  A token or a refusal  *)
(* is the end of a login.  After a failure or a missed deadline its        *)
(* account may still appear, and after a missed deadline a token may still *)
(* be signed, which nobody gets.                                           *)
(***************************************************************************)
EXTENDS Integers

CONSTANTS Names, Storable, Passwords, Logins, MaxId, NoRow      \* see AuthRegistry

VARIABLES
    login,          \* login[l]: the username and password of a call
    accounts,       \* accounts[n]: id and password of n, for each n that has registered
    token,          \* token[l]: the claims l has a token for, or NoRow
    reply           \* reply[l]: what the caller of l was told, or "none"

vars == <<login, accounts, token, reply>>

Init ==
    /\ login \in [Logins -> [name : Names, password : Passwords]]
    /\ accounts = [n \in {} |-> NoRow]
    /\ token = [l \in Logins |-> NoRow]
    /\ reply = [l \in Logins |-> "none"]

Registered(n) == n \in DOMAIN accounts

\* The handler of l may still be at work.
Pending(l) == reply[l] \in {"none", "DeadlineExceeded"} /\ token[l] = NoRow

\* The handler may have failed, and what it asked of the database may yet be done.
Undecided(l) == Pending(l) \/ reply[l] = "Internal"

\* A caller that gave up does not hear it.
Answer(l, code) == reply' = [reply EXCEPT ![l] = IF @ = "none" THEN code ELSE @]

Register(l) ==
    LET n == login[l].name IN
    /\ Undecided(l)
    /\ n \in Storable /\ ~Registered(n)
    /\ \E id \in 1 .. MaxId \ {accounts[m].id : m \in DOMAIN accounts} :
         accounts' = [m \in DOMAIN accounts \cup {n} |->
                        IF m = n THEN [id |-> id, password |-> login[l].password]
                                 ELSE accounts[m]]
    /\ UNCHANGED <<login, token, reply>>

SignIn(l) ==
    LET n == login[l].name IN
    /\ Pending(l)
    /\ Registered(n) /\ accounts[n].password = login[l].password
    /\ token' = [token EXCEPT ![l] = [uid |-> accounts[n].id, usr |-> n]]
    /\ Answer(l, "OK")
    /\ UNCHANGED <<login, accounts>>

Refuse(l) ==
    LET n == login[l].name IN
    /\ Pending(l)
    /\ Registered(n) /\ accounts[n].password # login[l].password
    /\ Answer(l, "Unauthenticated")
    /\ UNCHANGED <<login, accounts, token>>

Fail(l) ==
    /\ Pending(l)
    /\ Answer(l, "Internal")
    /\ UNCHANGED <<login, accounts, token>>

CallerGivesUp(l) ==
    /\ reply[l] = "none"
    /\ Answer(l, "DeadlineExceeded")
    /\ UNCHANGED <<login, accounts, token>>

Next == \E l \in Logins : Register(l) \/ SignIn(l) \/ Refuse(l) \/ Fail(l) \/ CallerGivesUp(l)

Spec == Init /\ [][Next]_vars
=============================================================================

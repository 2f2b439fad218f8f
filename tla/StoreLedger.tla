----------------------------- MODULE StoreLedger -----------------------------
(***************************************************************************)
(* What the store promises its callers, with no transaction, lock or       *)
(* connection in sight: an account is opened once with the start balance;  *)
(* a transfer or a purchase happens at once or not at all, at most once    *)
(* per call, and only if the balance covers it; a call answered OK has     *)
(* happened; a call that was refused has not, and never will.  After       *)
(* "Internal" or an exceeded deadline the caller knows nothing: the effect *)
(* may even come later than the answer.                                    *)
(***************************************************************************)
EXTENDS StoreData

VARIABLES
    call,           \* call[r]: what call r asks for
    balances,       \* the committed rows of the three tables
    transactions,
    purchases,
    reply           \* reply[r]: what the caller of r was told, or "none"

vars == <<call, balances, transactions, purchases, reply>>

Init ==
    /\ call \in [Reqs -> Calls]
    /\ balances = [u \in Users |-> NoRow]
    /\ transactions = {}
    /\ purchases = {}
    /\ reply = [r \in Reqs |-> "none"]

Happened(r) == \E row \in transactions \cup purchases : row.id = r

\* A caller who has no answer yet may learn in the same step that it is done.
MayAcknowledge(r) ==
    reply' \in {reply, [reply EXCEPT ![r] = IF @ = "none" THEN "OK" ELSE @]}

OpenAccount(u) ==
    /\ balances[u] = NoRow
    /\ balances' = [balances EXCEPT ![u] = StartBalance]
    /\ UNCHANGED <<call, transactions, purchases>>

Transfer(r) ==
    LET c == call[r] IN
    /\ IsSend(c) /\ c.to \in Users \ {c.user}
    /\ ~Happened(r) /\ reply[r] \notin Refusals
    /\ balances[c.user] # NoRow /\ balances[c.user] >= c.amount
    /\ balances[c.to] # NoRow /\ balances[c.to] + c.amount <= MaxInt
    /\ balances' = [balances EXCEPT ![c.user] = @ - c.amount, ![c.to] = @ + c.amount]
    /\ transactions' = transactions \cup
         {[id |-> r, from_user_id |-> c.user, to_user_id |-> c.to, amount |-> c.amount]}
    /\ MayAcknowledge(r)
    /\ UNCHANGED <<call, purchases>>

Purchase(r) ==
    LET c == call[r] IN
    /\ ~IsSend(c) /\ c.good \in Goods
    /\ ~Happened(r) /\ reply[r] \notin Refusals
    /\ balances[c.user] # NoRow /\ balances[c.user] >= Price[c.good]
    /\ balances' = [balances EXCEPT ![c.user] = @ - Price[c.good]]
    /\ purchases' = purchases \cup {[id |-> r, user_id |-> c.user, good_id |-> c.good]}
    /\ MayAcknowledge(r)
    /\ UNCHANGED <<call, transactions>>

Answer(r, code) ==
    /\ reply[r] = "none"
    /\ code \in Refusals => ~Happened(r)
    /\ code = "OK" => Happened(r)
    /\ reply' = [reply EXCEPT ![r] = code]

Next ==
    \/ \E u \in Users : OpenAccount(u) /\ UNCHANGED reply
    \* the account may open in the very step that fails its call
    \/ \E u \in Users, r \in Reqs : OpenAccount(u) /\ Answer(r, "Internal")
    \/ \E r \in Reqs : Transfer(r) \/ Purchase(r)
    \/ \E r \in Reqs, code \in Codes :
         Answer(r, code) /\ UNCHANGED <<call, balances, transactions, purchases>>

Spec == Init /\ [][Next]_vars
=============================================================================

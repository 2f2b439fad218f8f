------------------------------ MODULE StoreData ------------------------------
(***************************************************************************)
(* The data the store service works on, shared by the abstract ledger      *)
(* (StoreLedger) and by the transactions that implement it (StoreTx): the  *)
(* calls of the gRPC interface, the status codes that answer them, and the *)
(* rows of the tables `transactions` and `purchases`.                      *)
(***************************************************************************)
EXTENDS Integers

CONSTANTS
    Users,          \* user ids the auth service has registered
    Goods,          \* names in the table goods, filled by the migration
    Price,          \* Price[g]: the column goods.price
    Reqs,           \* gRPC calls in flight; each runs once
    Calls,          \* what a call may ask for
    StartBalance,   \* domain.StartBalance
    MaxInt,         \* the largest value of a PostgreSQL INTEGER column
    NoRow,          \* no row of `balances` (or no version of one)
    Nobody          \* the owner of a row lock nobody holds

IsSend(c) == c.op = "SendCoins"

(***************************************************************************)
(* A call names its user by the id the token carries.  The recipient and   *)
(* the good are names typed by the client, so they need not exist.         *)
(***************************************************************************)
ASSUME CallsAssumption ==
    \A c \in Calls :
        /\ c.op \in {"BuyItem", "SendCoins"}
        /\ c.user \in Users
        /\ IsSend(c) => c.amount \in Nat

ASSUME DataAssumption ==
    /\ Price \in [Goods -> Nat]
    /\ MaxInt \in Nat
    /\ StartBalance \in 0 .. MaxInt
    /\ NoRow \notin Int
    /\ Nobody \notin Reqs

\* What the call takes from its user's balance.
Cost(c) == IF IsSend(c) THEN c.amount ELSE Price[c.good]

\* Fault: the column has neither its CHECK constraint nor a width.
Fits_Unchecked(n) == n \in Int

\* A value of balances.balance: INTEGER with CHECK (balance >= 0).
Fits(n) == n \in 0 .. MaxInt

\* The rows a call inserts; the call stands for the SERIAL id of its row.
TransferRow(r, c) ==
    [id |-> r, from_user_id |-> c.user, to_user_id |-> c.to, amount |-> c.amount]

PurchaseRow(r, c) == [id |-> r, user_id |-> c.user, good_id |-> c.good]

\* Answers that tell the caller that its call had no effect, and will have none.
Refusals == {"InvalidArgument", "NotFound", "FailedPrecondition", "Unauthenticated"}

\* Answers after which the caller cannot tell whether its call took effect.
Unknowns == {"Internal", "DeadlineExceeded"}

Codes == {"OK"} \cup Refusals \cup Unknowns
=============================================================================

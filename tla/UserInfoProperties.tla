------------------------- MODULE UserInfoProperties -------------------------
(***************************************************************************)
(* What must hold of GetUserInfo (UserInfo).                               *)
(***************************************************************************)
EXTENDS UserInfo

Ids == Users \cup {Username[u] : u \in Users}

Transfers == [id : Reqs, target : Ids, amount : Nat]

(***************************************************************************)
(* Type correctness: every other party of a transfer has an id or a name,  *)
(* never the "" that a map gives for a missing key (user_info_case.go:95), *)
(* and the pool is never overdrawn.                                        *)
(***************************************************************************)
TypeOK ==
    /\ txs \subseteq Reqs
    /\ rows \subseteq Infos \X {"outgoing", "incoming"}
    /\ Cardinality(rows) + Cardinality(txs) <= PoolSize
    /\ pc \in [Infos -> {"ensure", "gather", "done"}]
    /\ \A i \in Infos :
         /\ task[i]["main"] \in {"username", "balance", "done", "failed"}
         /\ task[i]["purchases"] \in {"query", "done", "failed"}
         /\ task[i]["transfers"] \in
              {"outgoing", "incoming", "process", "names", "done", "failed"}
         /\ got[i].balance \in 0 .. MaxInt \cup {NoRow}
         /\ got[i].inventory \in [Goods -> Nat]
         /\ got[i].sent \subseteq Transfers /\ got[i].received \subseteq Transfers
    /\ answer \in [Infos -> {"none", "OK", "Internal", "DeadlineExceeded"}]

\* How the transfers of a history appear to user u.
SentIn(history, u) ==
    {[id |-> row.id, to |-> Username[row.to_user_id], amount |-> row.amount] :
       row \in {h \in history : h.from_user_id = u}}

ReceivedIn(history, u) ==
    {[id |-> row.id, from |-> Username[row.from_user_id], amount |-> row.amount] :
       row \in {h \in history : h.to_user_id = u}}

(***************************************************************************)
(* A history that a client was shown, though it was read by two statements *)
(* while coins moved and converted twice on its way, lacks no transfer     *)
(* that was there when the call came in and shows none that did not        *)
(* happen, each in its direction and with the name of the other party      *)
(* (user_info_repository.go:73-101, user_info_case.go:82-108,              *)
(* store_service.go:113, store_adapter.go:67).  The inventory has nothing  *)
(* that was not bought.                                                    *)
(***************************************************************************)
HistoryIsCurrent ==
    \A i \in Infos :
        answer[i] = "OK" =>
            LET me == Caller[i]
                body == GetInfo(i)
            IN
            /\ SentIn(since[i].transactions, me) \subseteq body.sent
            /\ body.sent \subseteq SentIn(transactions, me)
            /\ ReceivedIn(since[i].transactions, me) \subseteq body.received
            /\ body.received \subseteq ReceivedIn(transactions, me)
            /\ \A item \in body.inventory :
                 item.quantity <= Inventory(purchases, me)[item.name]

(***************************************************************************)
(* A goroutine that has returned, with a result or with an error, before   *)
(* or after its context was cancelled, has given its connections back.     *)
(***************************************************************************)
ConnectionsAreReturned ==
    \A i \in Infos :
        task[i]["transfers"] \in {"names", "done", "failed"} \/ pc[i] = "done" =>
            rows \cap ({i} \X {"outgoing", "incoming"}) = {}

(***************************************************************************)
(* Every call returns, though calls may take all connections of the pool   *)
(* for their outgoing transfers and then wait for one another for those of *)
(* the incoming ones (user_info_repository.go:75-82): nothing in the store *)
(* resolves that, but the deadline of the gateway does.                    *)
(***************************************************************************)
EveryInfoCallReturns == \A i \in Infos : pc[i] # "done" ~> pc[i] = "done"

(***************************************************************************)
(* user_info_repository_test.go:136 expects of FetchUserPurchases that a   *)
(* "database error" becomes an error of the call, never a result: what was *)
(* bought before the call came in is then in the inventory it shows.       *)
(***************************************************************************)
InventoryIsComplete ==
    \A i \in Infos, g \in Goods :
        answer[i] = "OK" =>
            LET bought == Inventory(since[i].purchases, Caller[i])[g] IN
            bought > 0 => \E item \in GetInfo(i).inventory :
                              item.name = g /\ item.quantity >= bought
=============================================================================

# merch-store in TLA+

Specifications, model-checking runs and proofs for the merch store: a gateway, an
auth service and a store service in Go, each of the last two with a PostgreSQL
database of its own. Paths and line numbers refer to this repository.

1. [The system](#1-the-system) - 2. [Modules](#2-modules) -
3. [How the modules correspond to the code](#3-how-the-modules-correspond-to-the-code) -
4. [Runs](#4-runs) - 5. [Proofs](#5-proofs) - 6. [Disagreements found](#6-disagreements-found) -
7. [What is not modelled](#7-what-is-not-modelled) - 8. [Plan](#8-plan)

## 1. The system

    client --HTTP--> gateway --gRPC, 5 s--> store --SQL--> balances, goods, transactions, purchases
                        |                     |
                        |                     +--gRPC, 500 ms--> auth
                        +-------gRPC, 5 s----------------------> auth --SQL--> users

| Component | State | Operations | Talks to |
|---|---|---|---|
| Gateway (`internal/gateway`) | none | `POST /api/auth`, `GET /api/info`, `POST /api/sendCoin`, `GET /api/buy/:item`; puts a 5 s deadline on every call, copies the bearer token into gRPC metadata, turns status codes into HTTP codes | auth, store |
| Logins (`internal/auth/application`) | table `users` | `Authenticate`: read the row; insert one if there is none, verify the password otherwise; sign a token | PostgreSQL, argon2id, JWT |
| Look-ups (`internal/auth/grpc`) | table `users` | `GetUserID`, `GetUsernames` | PostgreSQL |
| Store interceptors (`internal/store/grpc`) | `balances` | check the token; open the caller's account | JWT, PostgreSQL |
| Purchases, transfers (`internal/store/application`) | `balances`, `purchases`, `transactions` | `BuyItem`, `SendCoins` | auth, goods, transaction manager |
| Transaction manager (`internal/pkg/database`) | one transaction per call | BEGIN READ COMMITTED, COMMIT, deferred ROLLBACK | pgxpool |
| User info (`internal/store`) | none | `GetUserInfo`: three goroutines, four queries | auth, pgxpool |
| Goods | table `goods` | read only; filled by a migration | |
| Lifecycle (`*/bootstrap`, `cmd`) | the servers, pools and client connections | `Run`, `Shutdown` | signals |
| Migrations, `env`, `logging`, generated code, Kubernetes, CI | | | |

What is hard in it:

* **Row locks.** A transfer locks the sender's row, then the recipient's. Opposite
  transfers deadlock; PostgreSQL kills one.
* **Check in Go, act in SQL.** The balance is compared with the price in Go and debited
  by a later statement; what makes the comparison hold is `FOR UPDATE` two statements before.
* **Failures at every statement**, and three clocks: the gateway gives up after 5 s, the
  store's look-ups in auth after 500 ms, and the server side of a transaction when it notices.
  ROLLBACK runs on the caller's context, so an expired one sends none: the transaction and
  its locks outlive the handler. A COMMIT whose answer is lost may have happened.
* **Two databases.** The store keeps ids that only auth can turn into names, with no foreign
  key between them.
* **Registration** reads and then inserts without a transaction.
* **GetUserInfo** reads a moving account with four statements, keeps one connection of the
  pool while it waits for a second, and loses the error of one result set.
* **Start and shutdown.** `main` and the goroutine that it starts share `a.server` and `a.dbpool` without
  synchronisation, and both act on the same signal: the one drains the server, the other closes the
  client connections that calls being drained still need.

What makes each component correct: coins are neither made nor lost, no account is overdrawn, no
update is lost, an answer is true whatever failed, each call has its effect at most once and
all of it (money); a token is only for the password of its account, ids and names are for ever
(auth); what is shown happened, and what had happened is shown (info); every call returns and
nothing stays locked or taken (all); an id means the same user in both databases, and a client pays
with its own coins whom it named (together); no process closes what its calls still use, each
exits when told to, and no answer becomes false by it (lifecycle). `PROJECT.json` lists the hazards at their lines, with the
properties aimed at each.

## 2. Modules

| Module | Contents |
|---|---|
| `StoreData` | calls, status codes, rows and column constraints shared by the store's modules |
| `StoreLedger` | abstract: what the store promises; atomic transfers and purchases |
| `StoreTx` | detailed: `BuyItem` and `SendCoins` by the SQL statement, with PostgreSQL's row locks |
| `StoreTxProperties` | its properties, the parts of its inductive invariant, the refinement mapping |
| `MCStoreTx` | instances for TLC: `store_tx`, `store_liveness`, `store_deadlock` |
| `StoreTxProofs`, `StoreRefinementProofs` | its theorems; the second also has the sums over the history that the books are made of |
| `Accounts` | abstract: what auth promises; accounts registered at once and for good |
| `AuthRegistry`, `AuthProperties`, `MCAuth`, `AuthProofs` | detailed: the auth service by the SQL statement, and the refinement mapping: `auth`, `auth_race` |
| `UserInfo`, `UserInfoProperties`, `MCUserInfo`, `UserInfoProofs` | `GetUserInfo` over `StoreLedger`: `info`, `info_pool`, `info_rows` |
| `Gateway`, `GatewayProperties`, `MCGateway`, `GatewayProofs` | requests for money operations from the client to `StoreLedger` and back: `gateway` |
| `MerchSystem`, `MerchProperties`, `MCMerch`, `MerchProofs`, `MerchRefinementProofs` | the services together, logins, tokens, ids and names over two databases: `merch` |
| `Lifecycle`, `LifecycleProperties`, `MCLifecycle`, `LifecycleProofs` | start, shutdown, death and restart of the three processes: `lifecycle`, `lifecycle_live` |

`MerchSystem` is composed of an instance of `AuthRegistry` and one of `StoreLedger` over ids, and
`MerchProperties` maps it to another instance of `StoreLedger`, over names.
`UserInfo` and `Gateway` instantiate `StoreLedger` too, the one as its environment, the other as the
store behind the door: `StoreTx` implements the ledger (run `store_tx`, theorem `Refinement`), so
they need not see statements and locks.

Definitions whose comment starts with "Fault:" are variants of the definition they precede,
each with one plausible bug. No specification uses them; replacing the definition by its
variant must break the property that `PROJECT.json` pairs with it under "mutants".

## 3. How the modules correspond to the code

**StoreTx.** `pc[r]` is where the handler goroutine of call `r` is; there is one action per
statement or remote call, with the failure of each beside it.

| `pc` | Code | Actions |
|---|---|---|
| `idle` | `auth_interceptor.go:32` | `AuthInterceptor`, `...Rejects` |
| `ensureCaller` | `balance_interceptor.go:40` | `BalanceInterceptor`, `...Fails` |
| `lookup` | `purchase_case.go:29`, `send_coins_case.go:34` | `GetGoodInfo`, `FetchUserID`, `...Fails` |
| `ensureTo` | `send_coins_case.go:43` | `EnsureRecipient`, `...Fails` |
| `begin` | `transactions.go:31` | `BeginTx`, `...Fails` |
| `lock` | `balances_repository.go:30`, and the comparison in Go | `LockAndGetUserBalance` |
| `debit`, `credit`, `insert` | `transaction_proceeder.go`, `purchaser.go` | `Debit`, `Credit`, `InsertRecord` |
| `commit`, `rollback` | `transactions.go:50`, `:38` | `Commit`, `CommitFails`, `Rollback` |

`tx`, `lock` and `work` are the server's side: whether the transaction is open, orphaned
(connection lost) or committing (COMMIT sent, result lost), who locked which row, and the
versions not yet committed. READ COMMITTED is modelled by re-reading: a statement that
obtains a lock sees the newest committed row (`Visible`). The foreign-key checks of the INSERTs
take key-share locks on rows the transaction has already locked, so they are not separate
steps. `ON CONFLICT DO NOTHING` can wait in PostgreSQL for a concurrent INSERT of the
same key; as the waiting changes no outcome, it is left out. An orphan executes no more
statements. A crash of the store process is, for the database and the callers, the failure of
all its calls, which the model has one by one.

**StoreLedger.** `OpenAccount`, `Transfer`, `Purchase`, `Answer`. The mapping is the identity
on `call`, `balances`, `transactions`, `purchases` and `reply`; `tx`, `lock`, `work`, `pc` and
`err` are hidden. COMMIT is the point at which a call happens, also when nobody is there any
more to hear of it.

**AuthRegistry.** `pc[l]` is `lookup`, `create`, `verify` or `issue` (`auth_case.go:37`, `:48`,
`:53`, `:63`), or `late`, when the handler has returned without knowing what becomes of its
autocommitted INSERT, which the server may still execute, at any later time (`ServerInserts`). A hash is
the password and a salt, the call that made it. An INSERT that fails in the database may have drawn an id from
the sequence; one whose result is lost has happened (`CreateUser`, then a failure at `issue`) or is `late`. `GetUserID` and `GetUsernames` change nothing and are operators. Which name belongs
to which token is what matters of a token here; its signature and expiry do not appear.

**Accounts.** `Register`, `SignIn`, `Refuse`, `Fail`, `CallerGivesUp`. The mapping reads the table as a book: a name
that has a row has its id and the password that the hash was made of. `nextId`, `pc`, `info` and the salts are hidden. The
INSERT is the registration, whenever it is executed, also when its result is lost. So what auth promises is
that a login has no effect after a token or a refusal; after a failure or a missed deadline the account may
still appear.

**UserInfo.** `task[i]` has the next step of each of the three goroutines. A result set that
is open is a member of `rows` and holds a connection; so does each transaction in `txs`. A
`QueryRow`, and a result set that its function reads at once, take and return theirs within
one step, since they wait for nothing in between. The balance interceptor that precedes the
handler is an action; a refused token is not repeated here. `since` is a history variable: the
rows there when the call came in. The inventory counts purchases by good, as the query does; a
transfer keeps an id, to tell apart equal ones, and the other party's id until
`convertToNamedTransferHistory` replaces it by a name. `ConvertToUserInfoResponse` and
`ConvertToUserInfo` are the two conversions on the way out, and the properties speak of `GetInfo`, the
body that the client reads.

**Gateway.** `stage[r]` is how far a request has got: `new`, `aborted` by the gateway itself (no
bearer token, `jwt_middleware.go:15`; body that does not bind, `store_handler.go:40`),
`forwarded` to the store, `serving` behind its `AuthInterceptor`. From there on `Serve` is the ledger's
`Transfer` or `Purchase`, `Answer` the return of the store's handler, `CallEnds` the end of
the five seconds or of the connection, after which `Serve` may still happen. `HandleGRPCError` writes
the HTTP status that follows from the code, 200 included; `status[r]` is 0 until then. A request
carries what the code tells apart of it: the form of its header, whether its token is
signed with the shared secret, when it expires, and whether its body binds. `now` is a clock
that anybody's steps may fall behind; `arrived` is a history variable. `Tries` is the client:
the requests in `Attempts` are one payment, made again whenever the last answer was not 200 and
never while an answer is due. `GET /api/info` and `POST /api/auth` pass through the same handlers and move
no coins; the one is in `UserInfo`, the other in `MerchSystem`.

**MerchSystem.** The variables of auth are `AuthRegistry`'s, with `reply` renamed to `authReply`; those
of the store are `StoreLedger`'s, where `Users` is the set of ids that the column can hold, 0 included,
and `call` is a function of what the handler knows (`IdCall`): the id from the token
(`userID`, `auth_interceptor.go:51`) and the id that `FetchUserID` returned (`toUserID`). `asked` and `bearer` are the client's: what it
asks for, by names, and the login whose token it sends, once that was answered 200 (`Bearers` says which assignments are looked at).
`stage[x]` is where the store's handler of `x` is: `parse` and `ensure` are the two interceptors, `handle`
the look-up of the recipient or the good, or the reading of the history, `ensureTo` the
recipient's account, `pay` the transaction, `names` the look-up of names. Failures and the gateway's deadline may come at each
of them, with the codes that the handler has there (`Codes`); at `pay` a COMMIT may come after the answer, and an INSERT
of a balance that fails at `ensure` or `ensureTo` may have been executed (`EnsureLost`). Expiry
and signature are reduced to a refusal at `parse`.

**Lifecycle.** The programs are data: `RunOf(s)` lists the steps of `Run`, from `net.Listen` in `main` to the
`select`; `ShutdownOf(s)` says what follows what in `Shutdown`; `HandlerOf(s, o)` lists the calls, statements and
payments of a request for `o`; the goroutines of `GetUserInfo`, which `UserInfo` interleaves, are taken one after
the other, with auth asked before and after the tables are read. A COMMIT that was sent before its handler failed or
its process died may have effect at any later time (`ServerCommits`). `run[s]` and `main[s]` are the positions of the two goroutines, `work[s][r]` and
`step[s][r]` those of a handler. `told[s]` is `mainCtx.Done()`, after a signal or `stop()`. Reading `a.server`
is a step of its own, and `main` may still be on its way out ("unseen") while `Run`, which it did not see, goes on. What
`GracefulStop` and `http.Server.Shutdown` do is modelled from their documentation: nothing new is accepted, and they
wait for the calls that run, the latter for at most `shutdownTimeout`. A write of `a.dbpool` is visible to who
has seen `a.server`: it comes before `RegisterService`, whose mutex `GracefulStop` takes. A client
connection is a `grpc.ClientConn`, which finds a restarted server again, and is closed for good by the deferred
`Close`. A process that ends takes its handlers with it (`cut` says why); one that restarts (Kubernetes) is as
`Fresh` as at the beginning.

## 4. Runs

| Run | Instance | Shows |
|---|---|---|
| `store_tx` | 3 calls of: opposite transfers, purchases of the same coins, a recipient seen for the first time, refused calls; start balance 2, INTEGER ends at 3 | `TypeOK`, `AccountsBalance`, `DebitIsCovered`, `NoLostUpdate`, `AnswersAreHonest`, the inductive invariant `TxInv`, and `ImplementsLedger`, with every statement free to fail |
| `store_liveness` | 2 calls of a ring of transfers and a purchase | `EveryCallReturns`, `LocksAreReleased` |
| `store_deadlock` | the same ring | violates `NeverDeadlocked`, see 6 |
| `auth` | 3 logins, 3 names (one does not fit), 2 passwords, 2 ids | `TypeOK`, `TokensAreTrue`, `RefusalsAreTrue`, `NamesRoundTrip`, `RowsAreForever`, `ImplementsAccounts` |
| `auth_race` | 3 logins, nothing fails | violates `LoginsRegister`, see 6 |
| `info` | 1 look, 2 money operations, 3 connections | `TypeOK`, `HistoryIsCurrent`, `ConnectionsAreReturned` |
| `info_pool` | 2 looks, 1 money operation, 2 connections | `EveryInfoCallReturns` |
| `info_rows` | 1 look, 2 money operations | violates `InventoryIsComplete`, see 6 |
| `gateway` | 2 attempts at one payment, each in order, without a token, forged, about to expire, or with a body that does not bind; a store that need not answer | `TypeOK`, `StatusesAreHonest`, `RetriesAreBounded`, `StrangersMoveNothing`, `EveryRequestIsAnswered` |
| `merch` | 2 logins under 2 names with 2 passwords, 2 requests to pay either or buy, each with the token of a login of its own, and 1 look with either token | `TypeOK`, `NoOrphans`, `OnlyOwnersPay`, `LoginStatusesAreHonest`, `HistoryHasNames`, `ImplementsNamedLedger` |
| `lifecycle` | 1 login, look or transfer; gateway and auth are up, the store starts; store and gateway are told to stop at any time, each service stops by itself when its listener fails, the store is also killed, and started again any number of times | `OrderlyExitCutsNobody`, `AnswersSurviveShutdown`, `SuccessIsWhole`, `PoolOutlivesHandlers`, `ShutdownFindsPool` |
| `lifecycle_live` | 1 transfer while the store starts and is told to stop | `StopsWhenTold`, `ExitsAfterRun` |

*Why the bounds are enough.* Two transactions make a lock cycle and lose an update; a third
adds one that commits between two statements of another, or waits behind the cycle. A balance of 2 against
amounts of 1 and 3 gives a covered, a just covered and an uncovered call, and the column's end at 3
an overflow. Two names and ids with three logins let two race for a name while
the third takes or misses the last id. For the pool, two looks on two connections are the
smallest case of everybody holding one and waiting for one; the pool of the code has at least four, and
the same happens with four looks. For the
gateway, a clock of two instants (`MaxTime`) lets a token expire before it arrives, never, or
between the gateway and the store; two attempts let a late charge fall behind another charge or a refusal
(and for more of them `RetriesAreBounded` is proved).
For the services together, two logins are two users or one with two sessions or a rival with another
password, and two requests with their tokens pay each other, themselves or a name that nobody registered; a
start balance of 1 lets the second payment depend on the first. Two payments with one token (`MCBearers` leaves
them out) differ from two with two tokens of one account, which are there, in nothing that the store reads.
For the lifecycle, any of its properties needs one handler and one process that ends to fail, and the store that starts
again is one that starts while a request is on its way; a login, a look and a transfer make every kind of step
between them, and a purchase is a transfer that asks nobody. Signals to auth, deaths of the other two services and several requests are left to
the theorems of `LifecycleProofs`, which hold for all of them.
Each call runs once, so all state spaces are finite.
`CHECK_DEADLOCK FALSE` because they end when all calls are done. Calls and logins are
interchangeable where `SYMMETRY` is used, never in a run with a liveness property.

*Fairness.* In StoreTx, weak fairness of each handler (`Handler(r)`): the Go scheduler runs
every goroutine; it does not say that a statement must ever fail, and does not
rely on a caller's deadline. Weak fairness of the server's actions: PostgreSQL's deadlock detector
runs after `deadlock_timeout`, and it ends, one way or the other, a transaction whose client is gone.
Lock waits are bounded without strong fairness because each call runs once. In UserInfo,
weak fairness of each handler, of the gateway's timer (`store_adapter.go:54`) and of a
transaction returning its connection, which is what `LocksAreReleased` and
`EveryCallReturns` give. In Gateway, weak
fairness of the gateway's five-second timer (`CallEnds`, `store_adapter.go:21,37`) and of its handler; none
of the store. In Lifecycle, weak fairness of both goroutines of each process, and of the deadlines that reach every handler
(`auth_adapter.go:20` and `store_adapter.go:21,37,54` of the gateway, passed on by gRPC); a database
or a peer need not answer. No fairness is assumed of failures.

## 5. Proofs

Every invariant and every refinement that a run checks is also proved, with TLAPS, for any number of users,
goods, calls, names, passwords, logins, looks, connections and requests, any prices and amounts, and any choice of
the services that start, stop and die. The assumptions are stated where the constants are declared, and TLC evaluates
them in every run:

* `CallsAssumption`, `DataAssumption` (`StoreData`): prices and amounts are natural numbers, a call's user is a
  registered id, the start balance fits its column, the values that stand for "no row" and "nobody" are no
  numbers and no calls. The gRPC types, the token and the schema say so.
* `RegistryAssumption` (`AuthRegistry`): the names that fit the column are names; "no row" is no row.
* `GatewayAssumption` (`Gateway`): what a request may carry; the attempts at a payment are finitely many.
* `InfoAssumption` (`UserInfo`): each look has a caller, each user a name that is not empty, the pool a connection.
* `SystemAssumption` (`MerchSystem`): the two of auth and the store again, for the constants they share;
  payments and looks are different requests, each sent with the token of some login.
* `LifecycleAssumption` (`Lifecycle`): requests are for one of the four operations; the services are the three.

*`StoreTxProofs`: `TypeCorrect`, `TxInvariant`, `DebitsAreCovered`, `NoUpdateIsLost`,
`AnswersAreTrue`.* None of the three safety properties is inductive. That a debit is covered
when its UPDATE runs needs that the row has been locked since it was read; that no update is
lost needs that whoever has written a row still holds its lock, and that nobody publishes
a row locked by another; that answers are true needs to know what a transaction left behind
by its handler may still do. `TxInv` says so in parts: `SessionInv` (where the handler is tells
whether the server has a transaction), `LockInv` (locks belong to live transactions and
existing rows), `LookupInv` (what was looked up stays true), `WorkInv` (uncommitted versions
are on locked rows and differ from the committed one by the call's own amounts), `StageInv` (how
much has been written) and `AnswerInv` (answers against tables). The central step is an isolation
lemma: a step of one call leaves every row locked by another, and that other's versions, as
they were. So the parts of `TxInv` for the calls that did not move follow at once, and
there is one lemma per action for the one that did.

*`StoreRefinementProofs`: `Refinement`.* Init maps to the ledger's Init; by `TxInv` each
action is `OpenAccount` (an insert of a missing row, alone or with its call failing),
`Transfer` or `Purchase` (COMMIT, at once or late: `StageInv` says which rows it publishes, `WorkInv`
with which values), `Answer` (the returns) or a stutter (everything else).

*`StoreRefinementProofs`: `BooksCorrect`.* `AccountsBalance` is a matter of the ledger's steps: an account that opens
has no rows, a transfer adds one row to what one user sent and another received, a purchase one row to what
was bought. `BooksInv` adds what makes the sums sums: finitely many rows, each new (`Happened`), each with an
amount or a good that has a price. The sums are folds, whose order the library chooses; that a row more is its
amount more, whatever the order (`AmountAdds`, `PriceAdds`), is shown by taking a smallest counterexample, which
exists because strict inclusion is well-founded on the subsets of a finite set (`SmallestSubset`).

*`AuthProofs`: `TypeCorrect`, `TokensCorrect`, `RefusalsCorrect`, `NamesCorrect`, `RowsCorrect`.* A login signs
what it read or wrote steps before, so the invariant says that this row is still the one of the
table (`LoginInv`), which holds as nothing changes a row (`RowsStay`); `IdsInv` says that no
id is given twice, from which the translation of ids to names and back follows.

*`AuthProofs`: `AccountsRefinement`.* Each action is `Register` (the INSERT, alone or with its login failing), `SignIn`,
`Refuse`, `Fail`, `CallerGivesUp` or a stutter. That the id is new is `IdsInv`; that what the handler read is still what the
book says is `LoginInv`, which also says that a login is over when it was given a token or refused, so that nothing is registered for
it afterwards; one that failed, or was given up, may be registered by an INSERT that is still on its way.

*`GatewayProofs`: `Invariance`, `TypeCorrect`, `StatusesCorrect`, `StrangersCorrect`, `RetriesCorrect`.* The
inductive invariant `GatewayInv` relates, for each request, its stage, its effect, the reply to
its call and its status: an effect needs the stage `serving`, which needs a token that had not expired
on arrival; a status is the image of the reply, or the request was aborted. What the ledger
allows after each reply then gives the honesty of each status. For the retries, at most one
attempt is pending (unanswered, or answered 200), as the client waits; whatever else has
happened must have been answered 500, and the bound is a count of finite sets.

*`UserInfoProofs`: `Invariance`, `TypeCorrect`, `ReturnedCorrect`, `HistoryCorrect`.* `HistoryIsCurrent` speaks of the
body that the client reads, long after the SELECTs. The invariant `InfoInv` says for each step of the transfers'
goroutine (`ReadInv`) that what it has read so far lies between the history when the call came in and the history
now; both ends only grow, so it stays true while others pay. Replacing ids by names keeps the inclusions,
because `ExtractUserIDs` asks for every id that was read. `CountInv` bounds the inventory by the purchases there
are. That a goroutine that has returned holds no connection follows from `OpenInv`: a result set is open at two
steps only, and only while the handler waits for its goroutines. `PoolInv` counts connections once, so that the pool
is never overdrawn.

*`MerchProofs`: `Invariance`, `TypeCorrect`, `OrphansCorrect`, `OwnersCorrect`, `LoginsCorrect`, `HistoryCorrect`.* A step of the
system is a step of `AuthRegistry` or does not touch its variables, so `AuthInv` carries over
by an instance of `AuthProofs`, with the fact that rows of `users` stay. The store's half of `MerchInv` says whose id is
where: past the interceptor `userID` is the id of the account behind the token (`BearerInv`), before the transaction
`toUserID` is that of the recipient (`RequestInv`), rows repeat what their request asked for (`RowsInv`), and an
account belongs to a registered id (`BalancesInv`). As ids are given once, each has one owner, and the
four properties follow.

*`MerchRefinementProofs`: `NamedRefinement`.* The mapping takes an id to the name that has it; it is a state function that
changes when somebody registers. The proof shows that registering changes nothing that is mapped (a new id has neither account
nor row), that opening the account of an id opens that of its name, that the ledger's transfer and purchase by ids
are those by names, and that answers are the same.

*`LifecycleProofs`: `Invariance`, `PoolCorrect`, `ShutdownCorrect`, `ExitsCorrect`, `AnswersCorrect`, `SuccessCorrect`.* `RunInv` ties the two
goroutines of a service together, which share fields without a lock: who sees `a.server` finds `Run` past
`newServer` and a pool that was kept; the main goroutine is at `close` or beyond only when the server accepts
nothing more and no handler is left. `CallInv` ties the handlers of one request together: the store's exists only
once the gateway has passed the request on; it comes to the payment of a transfer only over an answer of auth; it says ok
only if the coins have moved and does nothing after that, though a COMMIT that it sent may come late; and the
gateway says only what it heard, so that its successes are successes all the way down. Kills and restarts preserve both, as a process takes with it only
what is its own.

*Only model-checked:* liveness (`EveryCallReturns`, `LocksAreReleased`, `EveryInfoCallReturns`, `EveryRequestIsAnswered`,
`StopsWhenTold`, `ExitsAfterRun`), which rests on ENABLED and is beyond the prover.

## 6. Disagreements found

* **Opposite transfers deadlock** (`store_deadlock`). `README.md:20` promises "concurrent-safe
  transactions". No coins are lost, but PostgreSQL aborts one of the two (40P01), nothing retries, and its
  caller gets HTTP 500 for a valid transfer. Locking the two rows in the order of their ids would avoid it.
* **Concurrent first logins** (`auth_race`). `README.md:18` and `:55` promise registration on
  first login. The loser of the race for the INSERT gets HTTP 500 though its account exists and its
  password may be right. `ON CONFLICT DO NOTHING` and a second look would avoid it.
* **A broken result set is an inventory** (`info_rows`). `FetchUserPurchases` does not ask
  `rows.Err()`, so a database error after the query was sent is no error, against
  `user_info_repository_test.go:136`.

Not against any promise of the docs, but worth knowing: `FetchUserCoinTransfers` holds a connection
while it waits for a second, so as many concurrent `GET /api/info` as the pool has connections
stop the store until the gateway's deadline (`info_pool` passes only because of it); a failure of the auth
service is reported as "user not found" (`send_coins_case.go:35`), and so is a transfer that
the store itself has cut off from auth by closing its connection at the signal (`store_app.go:49`), before
`GracefulStop` has let it finish (a behaviour of `lifecycle`; the coins stay where they are); a signal that finds `a.server` unset
leaves a server that nobody drains, until `main` has returned; after an
exceeded deadline a client cannot know whether it has paid, and a retry pays again: `RetriesAreBounded`
is the best that a client can rely on, and with `<= 1` instead TLC finds two charges.

## 7. What is not modelled

* HTTP and gRPC encodings, wording, logging, argon2id and HMAC themselves: no property is about them.
* An INSERT of a balance that is executed after its handler has answered (`balances_repository.go:24`). It does what any
  further call that names the user does, and changes no balance that is there.
* `goods` and migrations at run time: nothing changes them while the services run.
* The sequences of the store's tables; rows are identified by the call that made them. `balances.id`, which nothing
  reads, is drawn for every request (`balances_repository.go:24`) and ends after 2147483647 of them; the INSERT's failure is
  in the models, its cause is not.
* Time, but for the expiry of tokens in `Gateway`: deadlines may pass at any moment.
* PostgreSQL failing as a whole or losing committed data.
* `MigrateDatabase` (`internal/pkg/database/migrations.go`): nothing calls it; goose runs from jobs of its own.
* `env` and `logging`, which look up strings and print; the messages of the generated code, which are records here, and
  their encoding; of the Kubernetes files everything but that ended containers are started again; CI files.
* Several replicas of a service: they share nothing but the database, where calls of two replicas meet
  as those of one do.

## 8. Plan

Modelled, in this order: the ledger and the money operations (they carry the system's promises),
their proofs and the refinement; the auth service and its proofs; user info over the ledger; the
gateway over the ledger, with its proofs; the services together, refining a ledger by name; start,
shutdown and restart; the conversions of looks.

Proved, in this order: the money operations and their refinement, auth, the gateway, the lifecycle, the services
together and their refinement by name, looks, the books, and auth as a book of accounts.

Next:

1. The seams between the modules: that the steps of `Gateway` and `UserInfo`, seen through `StoreLedger`'s variables,
   are steps of the ledger, so that with `Refinement` what is proved of either holds over statements and locks.
2. Action properties of the lifecycle and of the gateway that follow from their invariants: an answer, once written,
   is not changed; a server that stops does not serve again before its process has ended.

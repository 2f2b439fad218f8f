------------------------------ MODULE Lifecycle ------------------------------
(***************************************************************************)
(* Start and shutdown of the three processes while requests pass through   *)
(* them: gateway -> store -> auth, gateway -> auth.  In each process two   *)
(* goroutines meet over fields that nothing guards: the one that main      *)
(* starts listens and calls Run, which sets a.dbpool and a.server; main    *)
(* itself waits for a signal and calls Shutdown, which reads them.  Run    *)
(* returns on the signal too and closes the client connections, whether or *)
(* not handlers still need them.                                           *)
(***************************************************************************)
EXTENDS Integers, Sequences

CONSTANTS
    Requests,       \* HTTP requests; each comes in at most once
    Ops,            \* what they may ask for
    Started,        \* services that have been serving for long when we begin to look
    Stoppable,      \* services that may get a SIGTERM
    Killable,       \* services that may die: SIGKILL after the grace period, OOM, a panic
    Restartable     \* services that are started again when they have ended

Services == {"gateway", "store", "auth"}

ASSUME LifecycleAssumption ==
    /\ Ops \subseteq {"login", "info", "send", "buy"}
    /\ Started \subseteq Services
    /\ Stoppable \subseteq Services
    /\ Killable \subseteq Services
    /\ Restartable \subseteq Services

VARIABLES
    run,            \* run[s]: the step of RunOf(s) that its goroutine does next
    main,           \* main[s]: what the main goroutine does next
    told,           \* told[s]: mainCtx is done, by a signal or by stop()
    server,         \* server[s]: a.server and what it does
    result,         \* result[s]: errChan and the goroutine that calls Serve
    pool,           \* pool[s]: the pgxpool, "kept" once a.dbpool points to it
    conns,          \* conns[s]: services to which s has a client connection
    op,             \* op[r]: what request r asks for
    work,           \* work[s][r]: the handler of r in s, or how it ended
    step,           \* step[s][r]: its position in HandlerOf(s, op[r])
    moved,          \* requests whose coins have moved
    cut             \* <<s, r, why>>: the process ended under the handler

process == <<run, main, told, server, result, pool, conns>>
handlers == <<op, work, step, moved, cut>>
vars == <<process, handlers>>

-----------------------------------------------------------------------------
(***************************************************************************)
(* The programs.  Run: a service's name stands for grpc.NewClient to it.   *)
(***************************************************************************)
GatewayRun == <<"listen", "auth", "store", "newServer", "serve", "select">>

AuthRun == <<"listen", "openPool", "keepPool", "newServer", "serve", "select">>

\* Fault: a.server is assigned before a.dbpool.
StoreRun_ServerFirst ==
    <<"listen", "openPool", "auth", "newServer", "keepPool", "serve", "select">>

StoreRun == <<"listen", "openPool", "auth", "keepPool", "newServer", "serve", "select">>

RunOf(s) ==
    CASE s = "gateway" -> GatewayRun [] s = "store" -> StoreRun [] s = "auth" -> AuthRun

\* Shutdown: what follows each step, once a.server is found not to be nil.
GatewayShutdown == [check |-> "drain", drain |-> "exit"]

AuthShutdown == [check |-> "drain", drain |-> "close", close |-> "exit"]

\* Fault: the pool is closed before GracefulStop.
StoreShutdown_PoolFirst == [check |-> "close", close |-> "drain", drain |-> "exit"]

\* Fault: Stop instead of GracefulStop.
StoreShutdown_NoDrain == [check |-> "close", close |-> "exit"]

StoreShutdown == [check |-> "drain", drain |-> "close", close |-> "exit"]

ShutdownOf(s) ==
    CASE s = "gateway" -> GatewayShutdown [] s = "store" -> StoreShutdown
      [] s = "auth" -> AuthShutdown

\* Handlers: a service's name stands for a call to it, "db" for statements in a row that move no
\* coins, "money" for those that end in the COMMIT of a payment.
GatewayHandler(o) == IF o = "login" THEN <<"auth">> ELSE <<"store">>

\* GetUserInfo asks auth for the client's name and, when it has read its tables, for the names
\* in the history; what its goroutines do at the same time is taken one after the other.
StoreMethod(o) ==
    CASE o = "buy" -> <<"money">>
      [] o = "send" -> <<"auth", "money">>
      [] OTHER -> <<"auth", "db", "auth">>

\* The balance interceptor comes first.
StoreHandler(o) == <<"db">> \o StoreMethod(o)

AuthHandler == <<"db">>

HandlerOf(s, o) ==
    CASE s = "gateway" -> GatewayHandler(o) [] s = "store" -> StoreHandler(o)
      [] s = "auth" -> AuthHandler

-----------------------------------------------------------------------------
Serving(s) == [run |-> Len(RunOf(s)), server |-> "serving", result |-> "pending",
               pool |-> IF s = "gateway" THEN "none" ELSE "kept",
               conns |-> {RunOf(s)[n] : n \in DOMAIN RunOf(s)} \cap Services]

Fresh == [run |-> 1, server |-> "nil", result |-> "none", pool |-> "none", conns |-> {}]

Init ==
    LET at == [s \in Services |-> IF s \in Started THEN Serving(s) ELSE Fresh] IN
    /\ run = [s \in Services |-> at[s].run]
    /\ server = [s \in Services |-> at[s].server]
    /\ result = [s \in Services |-> at[s].result]
    /\ pool = [s \in Services |-> at[s].pool]
    /\ conns = [s \in Services |-> at[s].conns]
    /\ main = [s \in Services |-> "check"]
    /\ told = [s \in Services |-> FALSE]
    /\ op \in [Requests -> Ops]
    /\ work = [s \in Services |-> [r \in Requests |-> "none"]]
    /\ step = [s \in Services |-> [r \in Requests |-> 1]]
    /\ moved = {}
    /\ cut = {}

-----------------------------------------------------------------------------
(***************************************************************************)
(* The goroutine that main starts.                                         *)
(***************************************************************************)
Alive(s) == main[s] # "exited"

AtStep(s, x) == Alive(s) /\ run[s] \in DOMAIN RunOf(s) /\ RunOf(s)[run[s]] = x

Does(s, x) == AtStep(s, x) /\ run' = [run EXCEPT ![s] = @ + 1]

Listen(s) ==
    /\ Does(s, "listen")
    /\ UNCHANGED <<main, told, server, result, pool, conns, handlers>>

OpenPool(s) ==
    /\ Does(s, "openPool")
    /\ pool' = [pool EXCEPT ![s] = "opened"]
    /\ UNCHANGED <<main, told, server, result, conns, handlers>>

Dial(s, t) ==
    /\ Does(s, t)
    /\ conns' = [conns EXCEPT ![s] = @ \cup {t}]
    /\ UNCHANGED <<main, told, server, result, pool, handlers>>

KeepPool(s) ==
    /\ Does(s, "keepPool")
    /\ pool' = [pool EXCEPT ![s] = "kept"]
    /\ UNCHANGED <<main, told, server, result, conns, handlers>>

NewServer(s) ==
    /\ Does(s, "newServer")
    /\ server' = [server EXCEPT ![s] = "new"]
    /\ UNCHANGED <<main, told, result, pool, conns, handlers>>

GoServe(s) ==
    /\ Does(s, "serve")
    /\ result' = [result EXCEPT ![s] = "pending"]
    /\ UNCHANGED <<main, told, server, pool, conns, handlers>>

\* Fault: an error of Run is logged, and main goes on waiting.
Returns_NoStop(s, err) ==
    /\ run' = [run EXCEPT ![s] = Len(RunOf(s)) + 1]
    /\ conns' = [conns EXCEPT ![s] = {}]
    /\ UNCHANGED told /\ err \in BOOLEAN

\* Run returns: its deferred calls close the connections, and an error makes main stop.
Returns(s, err) ==
    /\ run' = [run EXCEPT ![s] = Len(RunOf(s)) + 1]
    /\ conns' = [conns EXCEPT ![s] = {}]
    /\ told' = [told EXCEPT ![s] = @ \/ err]

\* net.Listen, pgxpool.New or grpc.NewClient fails; a pool opened before is not closed.
StartFails(s) ==
    /\ \E x \in {"listen", "openPool"} \cup Services : AtStep(s, x)
    /\ Returns(s, TRUE)
    /\ UNCHANGED <<main, server, result, pool, handlers>>

Serve(s) ==
    /\ Alive(s)
    /\ result[s] = "pending" /\ server[s] = "new"
    /\ server' = [server EXCEPT ![s] = "serving"]
    /\ UNCHANGED <<run, main, told, result, pool, conns, handlers>>

\* Accept fails; connections accepted before live on.
ServeFails(s) ==
    /\ Alive(s)
    /\ result[s] = "pending" /\ server[s] = "serving"
    /\ server' = [server EXCEPT ![s] = "broken"]
    /\ result' = [result EXCEPT ![s] = "err"]
    /\ UNCHANGED <<run, main, told, pool, conns, handlers>>

\* http.ErrServerClosed is no error for the gateway, grpc.ErrServerStopped is one for the others.
ServeEnds(s) ==
    /\ Alive(s)
    /\ result[s] = "pending" /\ server[s] = "stopping"
    /\ \E res \in IF s = "gateway" THEN {"nil"} ELSE {"nil", "err"} :
         result' = [result EXCEPT ![s] = res]
    /\ UNCHANGED <<run, main, told, server, pool, conns, handlers>>

Select(s) ==
    /\ AtStep(s, "select")
    /\ \/ told[s] /\ Returns(s, FALSE)
       \/ result[s] = "nil" /\ Returns(s, FALSE)
       \/ result[s] = "err" /\ Returns(s, TRUE)
    /\ UNCHANGED <<main, server, result, pool, handlers>>

Returned(s) == run[s] = Len(RunOf(s)) + 1

-----------------------------------------------------------------------------
(***************************************************************************)
(* The main goroutine.                                                     *)
(***************************************************************************)
Signal(s) ==
    /\ s \in Stoppable /\ Alive(s) /\ ~told[s]
    /\ told' = [told EXCEPT ![s] = TRUE]
    /\ UNCHANGED <<run, main, server, result, pool, conns, handlers>>

\* a.server is read while Run may be about to write it.
Shutdown(s) ==
    /\ main[s] = "check" /\ told[s]
    /\ main' = [main EXCEPT ![s] = IF server[s] = "nil" THEN "unseen" ELSE ShutdownOf(s)["check"]]
    /\ UNCHANGED <<run, told, server, result, pool, conns, handlers>>

GracefulStop(s) ==
    /\ main[s] = "drain" /\ server[s] # "stopping"
    /\ server' = [server EXCEPT ![s] = "stopping"]
    /\ UNCHANGED <<run, main, told, result, pool, conns, handlers>>

Busy(s) == {r \in Requests : work[s][r] \in {"run", "wait"}}

Drained(s) ==
    /\ main[s] = "drain" /\ server[s] = "stopping" /\ Busy(s) = {}
    /\ main' = [main EXCEPT ![s] = ShutdownOf(s)["drain"]]
    /\ UNCHANGED <<run, told, server, result, pool, conns, handlers>>

ClosePool(s) ==
    /\ main[s] = "close"
    /\ pool' = [pool EXCEPT ![s] = "closed"]
    /\ main' = [main EXCEPT ![s] = ShutdownOf(s)["close"]]
    /\ UNCHANGED <<run, told, server, result, conns, handlers>>

\* The process is gone, and with it its handlers.
Ends(s, why) ==
    /\ main' = [main EXCEPT ![s] = "exited"]
    /\ work' = [work EXCEPT ![s] = [r \in Requests |-> IF r \in Busy(s) THEN "gone" ELSE @[r]]]
    /\ cut' = cut \cup {<<s, r, why>> : r \in Busy(s)}
    /\ UNCHANGED <<run, told, server, result, pool, conns, op, step, moved>>

\* Shutdown and main return; http.Server.Shutdown gives up after shutdownTimeout.
Exit(s) ==
    \/ main[s] \in {"unseen", "exit"} /\ Ends(s, main[s])
    \/ s = "gateway" /\ main[s] = "drain" /\ server[s] = "stopping" /\ Ends(s, "timeout")

Kill(s) == s \in Killable /\ Alive(s) /\ Ends(s, "killed")

\* A new process, which knows nothing of the old one's calls.
Restart(s) ==
    /\ s \in Restartable /\ ~Alive(s)
    /\ run' = [run EXCEPT ![s] = Fresh.run]
    /\ main' = [main EXCEPT ![s] = "check"]
    /\ told' = [told EXCEPT ![s] = FALSE]
    /\ server' = [server EXCEPT ![s] = Fresh.server]
    /\ result' = [result EXCEPT ![s] = Fresh.result]
    /\ pool' = [pool EXCEPT ![s] = Fresh.pool]
    /\ conns' = [conns EXCEPT ![s] = Fresh.conns]
    /\ UNCHANGED handlers

-----------------------------------------------------------------------------
(***************************************************************************)
(* The handlers.                                                           *)
(***************************************************************************)
Accepting(s) == Alive(s) /\ server[s] \in {"serving", "broken"}

Becomes(s, r, w) == work' = [work EXCEPT ![s][r] = w]

HttpRequest(r) ==
    /\ Accepting("gateway")
    /\ work["gateway"][r] = "none"
    /\ Becomes("gateway", r, "run")
    /\ UNCHANGED <<process, op, step, moved, cut>>

Position(s, r) == HandlerOf(s, op[r])[step[s][r]]

AtCall(s, r, t, w) == work[s][r] = w /\ Position(s, r) = t

\* The step is done: the next one, or a result.
Goes(s, r) ==
    IF step[s][r] = Len(HandlerOf(s, op[r]))
    THEN Becomes(s, r, "ok") /\ UNCHANGED step
    ELSE Becomes(s, r, "run") /\ step' = [step EXCEPT ![s][r] = @ + 1]

Invoke(s, t, r) ==
    /\ AtCall(s, r, t, "run")
    /\ t \in conns[s] /\ Accepting(t)
    /\ work' = [work EXCEPT ![s][r] = "wait", ![t][r] = "run"]
    /\ UNCHANGED <<process, op, step, moved, cut>>

\* Fault: the gateway takes any error for one of the client.
Failure_Blames(s, r) == IF s = "gateway" \/ op[r] = "send" THEN "notFound" ELSE "error"

\* SendCoins takes any error of FetchUserID for an unknown recipient.
Failure(s, r) == IF s = "store" /\ op[r] = "send" THEN "notFound" ELSE "error"

\* Fault: SendCoins logs the error of FetchUserID and goes on.
InvokeFails_Logged(s, t, r) ==
    /\ \/ AtCall(s, r, t, "run") /\ ~Accepting(t)
       \/ AtCall(s, r, t, "wait") /\ (~Alive(t) \/ work[t][r] = "gone")
       \/ (AtCall(s, r, t, "run") \/ AtCall(s, r, t, "wait")) /\ t \notin conns[s]
    /\ IF s = "store" THEN Goes(s, r) ELSE Becomes(s, r, Failure(s, r)) /\ UNCHANGED step
    /\ UNCHANGED <<process, op, moved, cut>>

\* The connection was closed by Run, or there is nobody at its other end.
InvokeFails(s, t, r) ==
    /\ \/ AtCall(s, r, t, "run") /\ ~Accepting(t)
       \/ AtCall(s, r, t, "wait") /\ (~Alive(t) \/ work[t][r] = "gone")
       \/ (AtCall(s, r, t, "run") \/ AtCall(s, r, t, "wait")) /\ t \notin conns[s]
    /\ Becomes(s, r, Failure(s, r))
    /\ UNCHANGED <<process, op, step, moved, cut>>

InvokeReturns(s, t, r) ==
    /\ AtCall(s, r, t, "wait") /\ t \in conns[s]
    /\ \/ work[t][r] = "ok" /\ Goes(s, r)
       \/ /\ work[t][r] \in {"notFound", "error"}
          /\ Becomes(s, r, IF s = "gateway" THEN work[t][r] ELSE Failure(s, r))
          /\ UNCHANGED step
    /\ UNCHANGED <<process, op, moved, cut>>

Query(s, r) ==
    /\ work[s][r] = "run" /\ Position(s, r) = "db" /\ pool[s] # "closed"
    /\ Goes(s, r)
    /\ UNCHANGED <<process, op, moved, cut>>

Money(s, r) ==
    /\ work[s][r] = "run" /\ Position(s, r) = "money" /\ pool[s] # "closed"
    /\ moved' = moved \cup {r}
    /\ Goes(s, r)
    /\ UNCHANGED <<process, op, cut>>

\* A statement fails, or its result is lost.
StatementFails(s, r) ==
    /\ work[s][r] = "run" /\ Position(s, r) \in {"db", "money"}
    /\ Becomes(s, r, "error")
    /\ UNCHANGED <<process, op, step, moved, cut>>

\* A COMMIT that was on its way when its handler failed, or its process died, has effect.
ServerCommits(r) ==
    /\ work["store"][r] \in {"error", "gone"} /\ Position("store", r) = "money"
    /\ moved' = moved \cup {r}
    /\ UNCHANGED <<process, op, work, step, cut>>

\* Fault: the handlers' contexts have no deadline.
Expires_Never(s, r) == FALSE /\ UNCHANGED <<s, r, vars>>

\* The gateway's limit on the call, or the 500 ms of the store, reaches every statement below.
Expires(s, r) ==
    /\ work[s][r] \in {"run", "wait"}
    /\ Becomes(s, r, IF Position(s, r) \in Services THEN Failure(s, r) ELSE "error")
    /\ UNCHANGED <<process, op, step, moved, cut>>

-----------------------------------------------------------------------------
Goroutine(s) ==
    \/ Listen(s) \/ OpenPool(s) \/ KeepPool(s) \/ NewServer(s) \/ GoServe(s)
    \/ \E t \in Services : Dial(s, t)
    \/ Serve(s) \/ ServeEnds(s) \/ Select(s)

Main(s) == Shutdown(s) \/ GracefulStop(s) \/ Drained(s) \/ ClosePool(s) \/ Exit(s)

Handle(s, r) ==
    \/ Query(s, r) \/ Money(s, r) \/ StatementFails(s, r) \/ Expires(s, r)
    \/ \E t \in Services : Invoke(s, t, r) \/ InvokeFails(s, t, r) \/ InvokeReturns(s, t, r)

Next ==
    \/ \E s \in Services :
         \/ Goroutine(s) \/ StartFails(s) \/ ServeFails(s)
         \/ Main(s) \/ Signal(s) \/ Kill(s) \/ Restart(s)
         \/ \E r \in Requests : Handle(s, r)
    \/ \E r \in Requests : HttpRequest(r) \/ ServerCommits(r)

Spec == Init /\ [][Next]_vars

(***************************************************************************)
(* The scheduler runs every goroutine, and deadlines expire.  A database   *)
(* need not answer, and nothing need fail.                                 *)
(***************************************************************************)
Fairness ==
    \A s \in Services :
        /\ WF_vars(Goroutine(s)) /\ WF_vars(Main(s))
        /\ \A r \in Requests : WF_vars(Expires(s, r))

FairSpec == Spec /\ Fairness
=============================================================================

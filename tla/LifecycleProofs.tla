-------------------------- MODULE LifecycleProofs --------------------------
(***************************************************************************)
(* Proofs about Lifecycle, for any number of requests and any choice of    *)
(* services that are up, may be stopped, may die and may start again.      *)
(* LifeInv has two parts: RunInv(s) says how far the two goroutines of     *)
(* service s may be apart, CallInv(r) how far the handlers of request r    *)
(* in the three services may.                                              *)
(***************************************************************************)
EXTENDS LifecycleProperties, SequenceTheorems, TLAPS

\* The position of newServer in RunOf(s).
ServerPos(s) == IF s = "store" THEN 5 ELSE 4

(***************************************************************************)
(* Who has a server has come past newServer and, but for the gateway, has  *)
(* a pool that was kept.  Shutdown goes on only with a server, and         *)
(* closes the pool when nothing runs and nothing more is accepted.         *)
(***************************************************************************)
RunInv(s) ==
    /\ server[s] # "nil" => run[s] > ServerPos(s)
    /\ s # "gateway" /\ server[s] # "nil" => pool[s] \in {"kept", "closed"}
    /\ s # "gateway" /\ run[s] = ServerPos(s) => pool[s] = "kept"
    /\ main[s] \in {"drain", "close", "exit"} => server[s] # "nil"
    /\ main[s] \in {"close", "exit"} => server[s] = "stopping"
    /\ pool[s] = "closed" => main[s] \in {"exit", "exited"}
    /\ main[s] \in {"close", "exit", "exited"} => Busy(s) = {}
    /\ s \in Started \ Restartable => server[s] # "nil" /\ main[s] # "unseen"

(***************************************************************************)
(* The store handles a request once, after the gateway has passed it on,   *)
(* and gets to the payment of a transfer only over auth's answer.  When    *)
(* coins have moved the handler has ended, and what it ended with is what  *)
(* the gateway may hear; who succeeds has heard of a success from below.   *)
(***************************************************************************)
CallInv(r) ==
    /\ work["store"][r] # "none" => op[r] # "login" /\ work["gateway"][r] \notin {"none", "run"}
    /\ work["store"][r] = "ok" /\ op[r] \in {"send", "buy"} => r \in moved
    /\ r \in moved => work["store"][r] \in {"ok", "error", "gone"}
    /\ r \in moved /\ op[r] = "send" => work["auth"][r] = "ok"
    /\ step["store"][r] = 3 /\ op[r] = "send" => work["auth"][r] = "ok"
    /\ op[r] = "buy" => work["auth"][r] = "none"
    /\ work["store"][r] = "ok" /\ op[r] # "buy" => work["auth"][r] = "ok"
    /\ work["gateway"][r] = "ok" => work[IF op[r] = "login" THEN "auth" ELSE "store"][r] = "ok"
    /\ work["gateway"][r] = "notFound" => work["store"][r] = "notFound"
    /\ work["auth"][r] # "notFound"

(***************************************************************************)
(* The types: that the variables of the processes are functions, and what  *)
(* they and those of the handlers hold.                                    *)
(***************************************************************************)
Functions ==
    /\ run = [x \in Services |-> run[x]] /\ main = [x \in Services |-> main[x]]
    /\ told = [x \in Services |-> told[x]] /\ server = [x \in Services |-> server[x]]
    /\ result = [x \in Services |-> result[x]] /\ pool = [x \in Services |-> pool[x]]
    /\ conns = [x \in Services |-> conns[x]]

ProcessOK(s) ==
    /\ run[s] \in 1 .. ServerPos(s) + 3
    /\ main[s] \in {"check", "unseen", "drain", "close", "exit", "exited"}
    /\ main[s] = "close" => s # "gateway"
    /\ told[s] \in BOOLEAN
    /\ server[s] \in {"nil", "new", "serving", "broken", "stopping"}
    /\ result[s] \in {"none", "pending", "nil", "err"}
    /\ pool[s] \in {"none", "opened", "kept", "closed"}
    /\ conns[s] \subseteq Services

HandlersOK ==
    /\ op \in [Requests -> Ops]
    /\ work \in [Services -> [Requests ->
                   {"none", "run", "wait", "ok", "notFound", "error", "gone"}]]
    /\ step \in [Services -> [Requests -> Nat]]
    /\ \A s \in Services, r \in Requests : step[s][r] \in DOMAIN HandlerOf(s, op[r])
    /\ moved \subseteq Requests
    /\ cut \subseteq Services \X Requests \X {"unseen", "exit", "timeout", "killed"}

LifeInv ==
    /\ Functions
    /\ HandlersOK
    /\ \A s \in Services : ProcessOK(s) /\ RunInv(s)
    /\ \A r \in Requests : CallInv(r)
    /\ OrderlyExitCutsNobody
-----------------------------------------------------------------------------
(***************************************************************************)
(* The programs: their lengths, and what is where in them.                 *)
(***************************************************************************)
LEMMA RunPrograms ==
  ASSUME NEW s \in Services
  PROVE  /\ Len(RunOf(s)) = ServerPos(s) + 2
         /\ DOMAIN RunOf(s) = 1 .. ServerPos(s) + 2
         /\ \A n \in 1 .. ServerPos(s) + 2 :
              /\ n < ServerPos(s) =>
                   RunOf(s)[n] \in {"listen", "openPool", "keepPool", "gateway", "store", "auth"}
              /\ n = ServerPos(s) => RunOf(s)[n] = "newServer"
              /\ n > ServerPos(s) => RunOf(s)[n] \in {"serve", "select"}
         /\ s # "gateway" => RunOf(s)[ServerPos(s) - 1] = "keepPool"
<1>1. CASE s = "gateway"
  <2>1. RunOf(s) = <<"listen", "auth", "store", "newServer", "serve", "select">> /\ ServerPos(s) = 4
    BY <1>1 DEF RunOf, GatewayRun, ServerPos
  <2>2. DOMAIN RunOf(s) = 1 .. 6
    BY <2>1
  <2>3. Len(RunOf(s)) = 6
    BY <2>1
  <2>4. /\ RunOf(s)[1] = "listen" /\ RunOf(s)[2] = "auth" /\ RunOf(s)[3] = "store"
        /\ RunOf(s)[4] = "newServer" /\ RunOf(s)[5] = "serve" /\ RunOf(s)[6] = "select"
    BY <2>1
  <2>5. \A n \in 1 .. ServerPos(s) + 2 :
           /\ n < ServerPos(s) =>
                RunOf(s)[n] \in {"listen", "openPool", "keepPool", "gateway", "store", "auth"}
           /\ n = ServerPos(s) => RunOf(s)[n] = "newServer"
           /\ n > ServerPos(s) => RunOf(s)[n] \in {"serve", "select"}
    BY <1>1, <2>4 DEF ServerPos
  <2>6. ServerPos(s) = 4
    BY <1>1 DEF ServerPos
  <2>7. Len(RunOf(s)) = ServerPos(s) + 2 /\ DOMAIN RunOf(s) = 1 .. ServerPos(s) + 2
    BY <2>2, <2>3, <2>6
  <2>8. s # "gateway" => RunOf(s)[ServerPos(s) - 1] = "keepPool"
    BY <1>1, <2>4, <2>6
  <2>9. QED BY <2>5, <2>7, <2>8
<1>2. CASE s = "store"
  <2>1. /\ RunOf(s) = <<"listen", "openPool", "auth", "keepPool", "newServer", "serve", "select">>
        /\ ServerPos(s) = 5
    BY <1>2 DEF RunOf, StoreRun, ServerPos
  <2>2. DOMAIN RunOf(s) = 1 .. 7
    BY <2>1
  <2>3. Len(RunOf(s)) = 7
    BY <2>1
  <2>4. /\ RunOf(s)[1] = "listen" /\ RunOf(s)[2] = "openPool" /\ RunOf(s)[3] = "auth"
        /\ RunOf(s)[4] = "keepPool" /\ RunOf(s)[5] = "newServer" /\ RunOf(s)[6] = "serve"
        /\ RunOf(s)[7] = "select"
    BY <2>1
  <2>5. \A n \in 1 .. ServerPos(s) + 2 :
           /\ n < ServerPos(s) =>
                RunOf(s)[n] \in {"listen", "openPool", "keepPool", "gateway", "store", "auth"}
           /\ n = ServerPos(s) => RunOf(s)[n] = "newServer"
           /\ n > ServerPos(s) => RunOf(s)[n] \in {"serve", "select"}
    BY <1>2, <2>4 DEF ServerPos
  <2>6. ServerPos(s) = 5
    BY <1>2 DEF ServerPos
  <2>7. Len(RunOf(s)) = ServerPos(s) + 2 /\ DOMAIN RunOf(s) = 1 .. ServerPos(s) + 2
    BY <2>2, <2>3, <2>6
  <2>8. s # "gateway" => RunOf(s)[ServerPos(s) - 1] = "keepPool"
    BY <1>2, <2>4, <2>6
  <2>9. QED BY <2>5, <2>7, <2>8
<1>3. CASE s = "auth"
  <2>1. /\ RunOf(s) = <<"listen", "openPool", "keepPool", "newServer", "serve", "select">>
        /\ ServerPos(s) = 4
    BY <1>3 DEF RunOf, AuthRun, ServerPos
  <2>2. DOMAIN RunOf(s) = 1 .. 6
    BY <2>1
  <2>3. Len(RunOf(s)) = 6
    BY <2>1
  <2>4. /\ RunOf(s)[1] = "listen" /\ RunOf(s)[2] = "openPool" /\ RunOf(s)[3] = "keepPool"
        /\ RunOf(s)[4] = "newServer" /\ RunOf(s)[5] = "serve" /\ RunOf(s)[6] = "select"
    BY <2>1
  <2>5. \A n \in 1 .. ServerPos(s) + 2 :
           /\ n < ServerPos(s) =>
                RunOf(s)[n] \in {"listen", "openPool", "keepPool", "gateway", "store", "auth"}
           /\ n = ServerPos(s) => RunOf(s)[n] = "newServer"
           /\ n > ServerPos(s) => RunOf(s)[n] \in {"serve", "select"}
    BY <1>3, <2>4 DEF ServerPos
  <2>6. ServerPos(s) = 4
    BY <1>3 DEF ServerPos
  <2>7. Len(RunOf(s)) = ServerPos(s) + 2 /\ DOMAIN RunOf(s) = 1 .. ServerPos(s) + 2
    BY <2>2, <2>3, <2>6
  <2>8. s # "gateway" => RunOf(s)[ServerPos(s) - 1] = "keepPool"
    BY <1>3, <2>4, <2>6
  <2>9. QED BY <2>5, <2>7, <2>8
<1>4. QED BY <1>1, <1>2, <1>3 DEF Services

LEMMA Prefixed ==
  ASSUME NEW h \in Seq({"db", "auth", "money"})
  PROVE  /\ Len(<<"db">> \o h) = 1 + Len(h)
         /\ (<<"db">> \o h)[1] = "db"
         /\ \A n \in 1 .. Len(h) : (<<"db">> \o h)[n + 1] = h[n]
         /\ DOMAIN (<<"db">> \o h) = 1 .. 1 + Len(h)
<1> DEFINE S == {"db", "auth", "money"}
<1>1. <<"db">> \in Seq(S) /\ Len(<<"db">>) = 1 /\ Len(h) \in Nat
  BY LenProperties
<1>2. /\ <<"db">> \o h \in Seq(S)
      /\ Len(<<"db">> \o h) = 1 + Len(h)
      /\ \A i \in 1 .. 1 + Len(h) : (<<"db">> \o h)[i] = IF i <= 1 THEN <<"db">>[i] ELSE h[i - 1]
  BY <1>1, ConcatProperties
<1>3. QED BY <1>1, <1>2, LenProperties

LEMMA HandlerPrograms ==
  ASSUME NEW o \in Ops
  PROVE  /\ Len(HandlerOf("gateway", o)) = 1 /\ DOMAIN HandlerOf("gateway", o) = 1 .. 1
         /\ HandlerOf("gateway", o)[1] = IF o = "login" THEN "auth" ELSE "store"
         /\ Len(HandlerOf("auth", o)) = 1 /\ DOMAIN HandlerOf("auth", o) = 1 .. 1
         /\ HandlerOf("auth", o)[1] = "db"
         /\ Len(HandlerOf("store", o)) = IF o = "send" THEN 3 ELSE IF o = "buy" THEN 2 ELSE 4
         /\ DOMAIN HandlerOf("store", o) = 1 .. Len(HandlerOf("store", o))
         /\ HandlerOf("store", o)[1] = "db"
         /\ HandlerOf("store", o)[2] = IF o = "buy" THEN "money" ELSE "auth"
         /\ o = "send" => HandlerOf("store", o)[3] = "money"
         /\ o \notin {"send", "buy"} => /\ HandlerOf("store", o)[3] = "db"
                                       /\ HandlerOf("store", o)[4] = "auth"
<1> DEFINE m == StoreMethod(o)
           S == {"db", "auth", "money"}
<1>1. HandlerOf("gateway", o) = IF o = "login" THEN <<"auth">> ELSE <<"store">>
  BY DEF HandlerOf, GatewayHandler
<1>2. HandlerOf("auth", o) = <<"db">>
  BY DEF HandlerOf, AuthHandler
<1>3. HandlerOf("store", o) = <<"db">> \o m
  BY DEF HandlerOf, StoreHandler
<1>4. /\ m \in Seq(S) /\ Len(m) = IF o = "send" THEN 2 ELSE IF o = "buy" THEN 1 ELSE 3
      /\ m[1] = IF o = "buy" THEN "money" ELSE "auth"
      /\ o = "send" => m[2] = "money"
      /\ o \notin {"send", "buy"} => m[2] = "db" /\ m[3] = "auth"
  <2>1. CASE o = "send"
    <3>1. m = <<"auth", "money">>
      BY <2>1 DEF StoreMethod
    <3>2. m \in Seq(S)
      BY <3>1
    <3>3. Len(m) = 2 /\ m[1] = "auth" /\ m[2] = "money"
      BY <3>1
    <3>4. QED BY <2>1, <3>2, <3>3
  <2>2. CASE o = "buy"
    <3>1. m = <<"money">>
      BY <2>2 DEF StoreMethod
    <3>2. m \in Seq(S)
      BY <3>1
    <3>3. Len(m) = 1 /\ m[1] = "money"
      BY <3>1
    <3>4. QED BY <2>2, <3>2, <3>3
  <2>3. CASE o \notin {"send", "buy"}
    <3>1. m = <<"auth", "db", "auth">>
      BY <2>3 DEF StoreMethod
    <3>2. m \in Seq(S)
      BY <3>1
    <3>3. Len(m) = 3 /\ m[1] = "auth" /\ m[2] = "db" /\ m[3] = "auth"
      BY <3>1
    <3>4. QED BY <2>3, <3>2, <3>3
  <2>4. QED BY <2>1, <2>2, <2>3
<1> HIDE DEF m
<1>5. /\ Len(HandlerOf("store", o)) = 1 + Len(m)
      /\ HandlerOf("store", o)[1] = "db"
      /\ DOMAIN HandlerOf("store", o) = 1 .. 1 + Len(m)
      /\ \A n \in 1 .. Len(m) : HandlerOf("store", o)[n + 1] = m[n]
  BY <1>3, <1>4, Prefixed
<1>6. HandlerOf("store", o)[2] = m[1]
  <2>1. 1 \in 1 .. Len(m) /\ 1 + 1 = 2
    BY <1>4
  <2>2. QED BY <1>5, <2>1
<1>7. /\ o # "buy" => HandlerOf("store", o)[3] = m[2]
      /\ o \notin {"send", "buy"} => HandlerOf("store", o)[4] = m[3]
  <2>1. o # "buy" => 2 \in 1 .. Len(m)
    BY <1>4
  <2>2. o \notin {"send", "buy"} => 3 \in 1 .. Len(m)
    BY <1>4
  <2>3. 2 + 1 = 3 /\ 3 + 1 = 4
    OBVIOUS
  <2>4. o # "buy" => HandlerOf("store", o)[3] = m[2]
    BY <1>5, <2>1, <2>3
  <2>5. o \notin {"send", "buy"} => HandlerOf("store", o)[4] = m[3]
    BY <1>5, <2>2, <2>3
  <2>6. QED BY <2>4, <2>5
<1>8. Len(HandlerOf("store", o)) = IF o = "send" THEN 3 ELSE IF o = "buy" THEN 2 ELSE 4
  BY <1>4, <1>5
<1>9. /\ Len(HandlerOf("gateway", o)) = 1 /\ DOMAIN HandlerOf("gateway", o) = 1 .. 1
      /\ HandlerOf("gateway", o)[1] = IF o = "login" THEN "auth" ELSE "store"
  BY <1>1
<1>10. /\ Len(HandlerOf("auth", o)) = 1 /\ DOMAIN HandlerOf("auth", o) = 1 .. 1
       /\ HandlerOf("auth", o)[1] = "db"
  BY <1>2
<1>11. QED BY <1>4, <1>5, <1>6, <1>7, <1>8, <1>9, <1>10

LEMMA ShutdownPrograms ==
  ASSUME NEW s \in Services
  PROVE  /\ DOMAIN ShutdownOf(s) = {"check", "drain"} \cup (IF s = "gateway" THEN {} ELSE {"close"})
         /\ ShutdownOf(s)["check"] = "drain"
         /\ ShutdownOf(s)["drain"] = IF s = "gateway" THEN "exit" ELSE "close"
         /\ s # "gateway" => ShutdownOf(s)["close"] = "exit"
<1>1. CASE s = "gateway"
  BY <1>1 DEF ShutdownOf, GatewayShutdown
<1>2. CASE s = "store"
  BY <1>2 DEF ShutdownOf, StoreShutdown
<1>3. CASE s = "auth"
  BY <1>3 DEF ShutdownOf, AuthShutdown
<1>4. QED BY <1>1, <1>2, <1>3 DEF Services

(***************************************************************************)
(* What the step that Run is at says of how far it has come.               *)
(***************************************************************************)
LEMMA StepsOfRun ==
  ASSUME NEW s \in Services, NEW y, AtStep(s, y)
  PROVE  /\ main[s] # "exited"
         /\ run[s] \in 1 .. ServerPos(s) + 2
         /\ y = "newServer" => run[s] = ServerPos(s)
         /\ y \in {"serve", "select"} => run[s] > ServerPos(s)
         /\ y \in {"listen", "openPool", "keepPool", "gateway", "store", "auth"} =>
              run[s] < ServerPos(s)
         /\ s # "gateway" /\ run[s] + 1 = ServerPos(s) => y = "keepPool"
<1>1. /\ run[s] \in 1 .. ServerPos(s) + 2 /\ RunOf(s)[run[s]] = y /\ main[s] # "exited"
  BY RunPrograms DEF AtStep, Alive
<1>2. ServerPos(s) \in {4, 5}
  BY DEF ServerPos
<1>3. s # "gateway" /\ run[s] + 1 = ServerPos(s) => y = "keepPool"
  BY <1>1, <1>2, RunPrograms
<1>4. /\ run[s] < ServerPos(s) =>
           y \in {"listen", "openPool", "keepPool", "gateway", "store", "auth"}
      /\ run[s] = ServerPos(s) => y = "newServer"
      /\ run[s] > ServerPos(s) => y \in {"serve", "select"}
  BY <1>1, RunPrograms
<1>5. run[s] < ServerPos(s) \/ run[s] = ServerPos(s) \/ run[s] > ServerPos(s)
  BY <1>1, <1>2
<1>6. QED BY <1>1, <1>3, <1>4, <1>5

-----------------------------------------------------------------------------
(***************************************************************************)
(* The steps of the two goroutines, apart from a process's end.            *)
(***************************************************************************)
ProcessStep(s) ==
    \/ Goroutine(s) \/ StartFails(s) \/ ServeFails(s) \/ Signal(s) \/ Restart(s)
    \/ Shutdown(s) \/ GracefulStop(s) \/ Drained(s) \/ ClosePool(s)

\* Nothing changes but the process of s.
OnlyProcess(s) ==
    /\ UNCHANGED handlers
    /\ \A x \in Services \ {s} :
         /\ run'[x] = run[x] /\ main'[x] = main[x] /\ told'[x] = told[x]
         /\ server'[x] = server[x] /\ result'[x] = result[x]
         /\ pool'[x] = pool[x] /\ conns'[x] = conns[x]

LEMMA ProcessStepIsLocal ==
  ASSUME Functions, NEW s \in Services, ProcessStep(s)
  PROVE  OnlyProcess(s) /\ Functions'
<1> USE DEF Functions, OnlyProcess, handlers, Does, Returns
<1>1. CASE Listen(s)
  BY <1>1 DEF Listen
<1>2. CASE OpenPool(s)
  BY <1>2 DEF OpenPool
<1>3. CASE KeepPool(s)
  BY <1>3 DEF KeepPool
<1>4. CASE NewServer(s)
  BY <1>4 DEF NewServer
<1>5. CASE GoServe(s)
  BY <1>5 DEF GoServe
<1>6. CASE \E t \in Services : Dial(s, t)
  BY <1>6 DEF Dial
<1>7. CASE Serve(s) \/ ServeEnds(s) \/ ServeFails(s)
  BY <1>7 DEF Serve, ServeEnds, ServeFails
<1>8. CASE Select(s) \/ StartFails(s)
  BY <1>8 DEF Select, StartFails
<1>9. CASE Signal(s) \/ Shutdown(s) \/ GracefulStop(s) \/ Drained(s) \/ ClosePool(s)
  BY <1>9 DEF Signal, Shutdown, GracefulStop, Drained, ClosePool
<1>10. CASE Restart(s)
  BY <1>10 DEF Restart
<1>11. QED
  BY <1>1, <1>2, <1>3, <1>4, <1>5, <1>6, <1>7, <1>8, <1>9, <1>10 DEF ProcessStep, Goroutine

LEMMA ProcessStepKeepsOwn ==
  ASSUME Functions, NEW s \in Services, ProcessOK(s), RunInv(s), ProcessStep(s)
  PROVE  ProcessOK(s)' /\ RunInv(s)'
<1>1. OnlyProcess(s)
  BY ProcessStepIsLocal
<1>2. Busy(s)' = Busy(s)
  BY <1>1 DEF OnlyProcess, handlers, Busy
<1>3. ServerPos(s) \in {4, 5} /\ Len(RunOf(s)) = ServerPos(s) + 2
  BY RunPrograms DEF ServerPos
<1> USE DEF Functions, ProcessOK, RunInv, Does, Returns
<1>4. CASE Listen(s)
  <2>1. run[s] < ServerPos(s) /\ (run[s] + 1 # ServerPos(s) \/ s = "gateway")
    BY <1>4, StepsOfRun DEF Listen
  <2>2. QED BY <1>2, <1>3, <1>4, <2>1, StepsOfRun DEF Listen
<1>5. CASE OpenPool(s)
  BY <1>2, <1>3, <1>5, StepsOfRun DEF OpenPool
<1>6. CASE KeepPool(s)
  BY <1>2, <1>3, <1>6, StepsOfRun DEF KeepPool
<1>7. CASE NewServer(s)
  BY <1>2, <1>3, <1>7, StepsOfRun DEF NewServer
<1>8. CASE GoServe(s)
  BY <1>2, <1>3, <1>8, StepsOfRun DEF GoServe
<1>9. ASSUME NEW t \in Services, Dial(s, t)
      PROVE  ProcessOK(s)' /\ RunInv(s)'
  BY <1>2, <1>3, <1>9, StepsOfRun DEF Dial, Services
<1>10. CASE Serve(s) \/ ServeEnds(s) \/ ServeFails(s)
  BY <1>2, <1>10 DEF Serve, ServeEnds, ServeFails, Alive
<1>11. CASE Select(s)
  <2>1. run[s] > ServerPos(s) /\ main[s] # "exited"
    BY <1>11, StepsOfRun DEF Select
  <2>2. told'[s] \in BOOLEAN
    BY <1>11 DEF Select
  <2>3. /\ run'[s] = Len(RunOf(s)) + 1 /\ conns'[s] = {}
        /\ UNCHANGED <<main, server, result, pool>>
    BY <1>11 DEF Select
  <2>4. QED BY <1>2, <1>3, <2>1, <2>2, <2>3
<1>12. CASE StartFails(s)
  <2>1. PICK x \in {"listen", "openPool"} \cup Services : AtStep(s, x)
    BY <1>12 DEF StartFails
  <2>2. x \in {"listen", "openPool", "keepPool", "gateway", "store", "auth"}
    BY DEF Services
  <2>3. run[s] < ServerPos(s) /\ main[s] # "exited"
    BY <2>1, <2>2, StepsOfRun
  <2>4. QED BY <1>2, <1>3, <1>12, <2>3 DEF StartFails
<1>13. CASE Signal(s)
  BY <1>2, <1>13 DEF Signal
<1>14. CASE Restart(s)
  BY <1>2, <1>3, <1>14 DEF Restart, Fresh
<1>15. CASE Shutdown(s)
  BY <1>2, <1>15, ShutdownPrograms DEF Shutdown
<1>16. CASE GracefulStop(s)
  BY <1>2, <1>16 DEF GracefulStop
<1>17. CASE Drained(s)
  BY <1>2, <1>17, ShutdownPrograms DEF Drained
<1>18. CASE ClosePool(s)
  <2>1. main[s] = "close" /\ s # "gateway"
    BY <1>18 DEF ClosePool
  <2>2. main'[s] = "exit" /\ pool'[s] = "closed"
    BY <1>18, <2>1, ShutdownPrograms DEF ClosePool
  <2>3. UNCHANGED <<run, told, server, result, conns>>
    BY <1>18 DEF ClosePool
  <2>4. QED BY <1>2, <1>3, <2>1, <2>2, <2>3
<1>19. QED
  BY <1>4, <1>5, <1>6, <1>7, <1>8, <1>9, <1>10, <1>11, <1>12, <1>13, <1>14, <1>15, <1>16, <1>17,
     <1>18 DEF ProcessStep, Goroutine

LEMMA ProcessStepKeeps ==
  ASSUME LifeInv, NEW s \in Services, ProcessStep(s)
  PROVE  LifeInv'
<1>1. OnlyProcess(s) /\ Functions' /\ ProcessOK(s)' /\ RunInv(s)'
  BY ProcessStepIsLocal, ProcessStepKeepsOwn DEF LifeInv
<1>2. ASSUME NEW x \in Services \ {s} PROVE ProcessOK(x)' /\ RunInv(x)'
  BY <1>1 DEF OnlyProcess, handlers, LifeInv, ProcessOK, RunInv, Busy
<1>3. HandlersOK'
  BY <1>1 DEF OnlyProcess, handlers, LifeInv, HandlersOK
<1>4. ASSUME NEW r \in Requests PROVE CallInv(r)'
  BY <1>1 DEF OnlyProcess, handlers, LifeInv, CallInv
<1>5. OrderlyExitCutsNobody'
  BY <1>1 DEF OnlyProcess, handlers, LifeInv, OrderlyExitCutsNobody
<1>6. QED BY <1>1, <1>2, <1>3, <1>4, <1>5 DEF LifeInv
-----------------------------------------------------------------------------
(***************************************************************************)
(* The end of a process.                                                   *)
(***************************************************************************)
LEMMA EndKeeps ==
  ASSUME LifeInv, NEW s \in Services, NEW why \in {"unseen", "exit", "timeout", "killed"},
         Ends(s, why), Busy(s) # {} =>
           \/ why = "killed"
           \/ why = "unseen" /\ s \notin Started \ Restartable
           \/ why = "timeout" /\ s = "gateway"
  PROVE  LifeInv'
<1>1. /\ main' = [main EXCEPT ![s] = "exited"]
      /\ UNCHANGED <<run, told, server, result, pool, conns, op, step, moved>>
      /\ cut' = cut \cup {<<s, r, why>> : r \in Busy(s)}
  BY DEF Ends
<1>2. /\ work' \in [Services -> [Requests ->
                      {"none", "run", "wait", "ok", "notFound", "error", "gone"}]]
      /\ \A x \in Services, r \in Requests :
           work'[x][r] = IF x = s /\ work[x][r] \in {"run", "wait"} THEN "gone" ELSE work[x][r]
  BY DEF Ends, LifeInv, HandlersOK, Busy
<1>3. Functions'
  BY <1>1 DEF LifeInv, Functions
<1>4. ASSUME NEW x \in Services PROVE ProcessOK(x)' /\ RunInv(x)'
  <2>1. Busy(x)' \subseteq Busy(x) /\ (x = s => Busy(x)' = {})
    BY <1>2 DEF Busy
  <2>2. main'[x] = IF x = s THEN "exited" ELSE main[x]
    BY <1>1 DEF LifeInv, Functions
  <2>3. QED BY <1>1, <2>1, <2>2 DEF LifeInv, ProcessOK, RunInv
<1>5. HandlersOK'
  <2>1. cut' \subseteq Services \X Requests \X {"unseen", "exit", "timeout", "killed"}
    BY <1>1 DEF LifeInv, HandlersOK, Busy
  <2>2. QED BY <1>1, <1>2, <2>1 DEF LifeInv, HandlersOK
<1>6. ASSUME NEW r \in Requests PROVE CallInv(r)'
  BY <1>1, <1>2 DEF LifeInv, CallInv, HandlersOK, Services
<1>7. OrderlyExitCutsNobody'
  BY <1>1 DEF LifeInv, OrderlyExitCutsNobody
<1>8. QED BY <1>3, <1>4, <1>5, <1>6, <1>7 DEF LifeInv

LEMMA ExitKeeps ==
  ASSUME LifeInv, NEW s \in Services, Exit(s) \/ Kill(s)
  PROVE  LifeInv'
<1>1. CASE Kill(s)
  BY <1>1, EndKeeps DEF Kill
<1>2. CASE main[s] = "unseen" /\ Ends(s, "unseen")
  BY <1>2, EndKeeps DEF LifeInv, RunInv
<1>3. CASE main[s] = "exit" /\ Ends(s, "exit")
  BY <1>3, EndKeeps DEF LifeInv, RunInv
<1>4. CASE s = "gateway" /\ Ends(s, "timeout")
  BY <1>4, EndKeeps
<1>5. QED BY <1>1, <1>2, <1>3, <1>4 DEF Exit
-----------------------------------------------------------------------------
(***************************************************************************)
(* The handlers: where they may be, and what a step makes of them.         *)
(***************************************************************************)
LEMMA Positions ==
  ASSUME HandlersOK, NEW s \in Services, NEW r \in Requests
  PROVE  /\ step[s][r] \in 1 .. Len(HandlerOf(s, op[r])) /\ Len(HandlerOf(s, op[r])) \in 1 .. 4
         /\ s # "store" => step[s][r] = Len(HandlerOf(s, op[r]))
         /\ s = "gateway" => Position(s, r) = IF op[r] = "login" THEN "auth" ELSE "store"
         /\ s = "auth" => Position(s, r) = "db"
         /\ s = "store" => /\ Position(s, r) \in {"db", "auth", "money"}
                           /\ step[s][r] = Len(HandlerOf(s, op[r])) /\ op[r] \in {"send", "buy"} =>
                                Position(s, r) = "money"
                           /\ Position(s, r) = "money" => /\ step[s][r] = Len(HandlerOf(s, op[r]))
                                                          /\ op[r] \in {"send", "buy"}
                           /\ Position(s, r) = "auth" => op[r] # "buy"
                           /\ step[s][r] = Len(HandlerOf(s, op[r])) => Position(s, r) # "db"
                           /\ op[r] = "send" /\ Position(s, r) = "db" => step[s][r] = 1
                           /\ op[r] = "send" /\ Position(s, r) = "auth" => step[s][r] = 2
                           /\ op[r] = "send" /\ Position(s, r) = "money" => step[s][r] = 3
<1>1. op[r] \in Ops /\ step[s][r] \in DOMAIN HandlerOf(s, op[r])
  BY DEF HandlersOK
<1>2. CASE s = "gateway"
  <2>1. Len(HandlerOf(s, op[r])) = 1 /\ step[s][r] = 1
    BY <1>1, <1>2, HandlerPrograms
  <2>2. Position(s, r) = IF op[r] = "login" THEN "auth" ELSE "store"
    BY <1>1, <1>2, <2>1, HandlerPrograms DEF Position
  <2>3. 1 \in 1 .. 1 /\ 1 \in 1 .. 4
    OBVIOUS
  <2>4. s # "auth" /\ s # "store"
    BY <1>2
  <2>5. QED BY ONLY <1>2, <2>1, <2>2, <2>3, <2>4
<1>3. CASE s = "auth"
  <2>1. Len(HandlerOf(s, op[r])) = 1 /\ step[s][r] = 1
    BY <1>1, <1>3, HandlerPrograms
  <2>2. Position(s, r) = "db"
    BY <1>1, <1>3, <2>1, HandlerPrograms DEF Position
  <2>3. 1 \in 1 .. 1 /\ 1 \in 1 .. 4
    OBVIOUS
  <2>4. s # "gateway" /\ s # "store"
    BY <1>3
  <2>5. QED BY <2>1, <2>2, <2>3, <2>4
<1>4. CASE s = "store"
  <2>1. /\ Len(HandlerOf(s, op[r])) = IF op[r] = "send" THEN 3 ELSE IF op[r] = "buy" THEN 2 ELSE 4
        /\ step[s][r] \in 1 .. Len(HandlerOf(s, op[r]))
    <3>1. HandlerOf(s, op[r]) = HandlerOf("store", op[r])
      BY <1>4
    <3>2. DOMAIN HandlerOf(s, op[r]) = 1 .. Len(HandlerOf(s, op[r]))
      BY <1>1, <3>1, HandlerPrograms
    <3>3. Len(HandlerOf(s, op[r])) = IF op[r] = "send" THEN 3 ELSE IF op[r] = "buy" THEN 2 ELSE 4
      BY <1>1, <3>1, HandlerPrograms
    <3>4. QED BY ONLY <1>1, <3>2, <3>3
  <2>2. /\ step[s][r] = 1 => Position(s, r) = "db"
        /\ step[s][r] = 2 => Position(s, r) = IF op[r] = "buy" THEN "money" ELSE "auth"
        /\ op[r] = "send" /\ step[s][r] = 3 => Position(s, r) = "money"
        /\ op[r] \notin {"send", "buy"} /\ step[s][r] = 3 => Position(s, r) = "db"
        /\ op[r] \notin {"send", "buy"} /\ step[s][r] = 4 => Position(s, r) = "auth"
    BY <1>1, <1>4, HandlerPrograms DEF Position
  <2>3. Len(HandlerOf(s, op[r])) \in 1 .. 4 /\ step[s][r] \in 1 .. 4
    BY <2>1
  <2>4. CASE op[r] = "send"
    <3>1. step[s][r] \in {1, 2, 3} /\ Len(HandlerOf(s, op[r])) = 3
      BY <2>1, <2>4
    <3>2. QED BY ONLY <1>4, <2>1, <2>2, <2>3, <2>4, <3>1
  <2>5. CASE op[r] = "buy"
    <3>1. step[s][r] \in {1, 2} /\ Len(HandlerOf(s, op[r])) = 2
      BY <2>1, <2>5
    <3>2. QED BY ONLY <1>4, <2>1, <2>2, <2>3, <2>5, <3>1
  <2>6. CASE op[r] \notin {"send", "buy"}
    <3>1. step[s][r] \in {1, 2, 3, 4} /\ Len(HandlerOf(s, op[r])) = 4
      BY <2>1, <2>6
    <3>2. QED BY ONLY <1>4, <2>1, <2>2, <2>3, <2>6, <3>1
  <2>7. QED BY <2>4, <2>5, <2>6
<1>5. QED BY <1>2, <1>3, <1>4 DEF Services

LEMMA Becoming ==
  ASSUME HandlersOK, NEW s \in Services, NEW r \in Requests,
         NEW w \in {"none", "run", "wait", "ok", "notFound", "error", "gone"}, Becomes(s, r, w)
  PROVE  /\ work' \in [Services -> [Requests ->
                          {"none", "run", "wait", "ok", "notFound", "error", "gone"}]]
         /\ \A x \in Services, q \in Requests :
              work'[x][q] = IF x = s /\ q = r THEN w ELSE work[x][q]
BY DEF HandlersOK, Becomes

LEMMA Going ==
  ASSUME HandlersOK, NEW s \in Services, NEW r \in Requests, Goes(s, r), UNCHANGED op
  PROVE  /\ step' \in [Services -> [Requests -> Nat]]
         /\ \A x \in Services, q \in Requests : step'[x][q] \in DOMAIN HandlerOf(x, op[q])
         /\ \A x \in Services, q \in Requests :
              step'[x][q] = IF x = s /\ q = r /\ step[s][r] # Len(HandlerOf(s, op[r]))
                            THEN step[s][r] + 1 ELSE step[x][q]
         /\ \/ step[s][r] = Len(HandlerOf(s, op[r])) /\ Becomes(s, r, "ok")
            \/ s = "store" /\ step[s][r] # Len(HandlerOf(s, op[r])) /\ Becomes(s, r, "run")
<1>1. CASE step[s][r] = Len(HandlerOf(s, op[r]))
  BY <1>1 DEF Goes, HandlersOK
<1>2. CASE step[s][r] # Len(HandlerOf(s, op[r]))
  <2>1. /\ s = "store" /\ step' = [step EXCEPT ![s][r] = @ + 1] /\ Becomes(s, r, "run")
        /\ step[s][r] + 1 \in 1 .. Len(HandlerOf(s, op[r]))
    BY <1>2, Positions DEF Goes
  <2>2. step[s][r] + 1 \in DOMAIN HandlerOf(s, op[r])
    BY <2>1, HandlerPrograms DEF HandlersOK
  <2>3. /\ step' \in [Services -> [Requests -> Nat]]
        /\ \A x \in Services, q \in Requests :
             step'[x][q] = IF x = s /\ q = r THEN step[s][r] + 1 ELSE step[x][q]
    BY <2>1 DEF HandlersOK
  <2>4. QED BY <1>2, <2>1, <2>2, <2>3 DEF HandlersOK
<1>3. QED BY <1>1, <1>2

\* A handler step leaves the processes alone and gives work only to who works or accepts.
LEMMA HandlersMove ==
  ASSUME LifeInv, UNCHANGED process, UNCHANGED cut, HandlersOK',
         \A x \in Services : Busy(x)' # {} => Busy(x) # {} \/ Accepting(x),
         \A r \in Requests : CallInv(r)'
  PROVE  LifeInv'
<1>1. Functions' /\ \A x \in Services : ProcessOK(x)'
  BY DEF process, LifeInv, Functions, ProcessOK
<1>2. ASSUME NEW x \in Services PROVE RunInv(x)'
  <2>1. Accepting(x) => main[x] \notin {"close", "exit", "exited"}
    BY DEF Accepting, Alive, LifeInv, RunInv
  <2>2. main[x] \in {"close", "exit", "exited"} => Busy(x)' = {}
    BY <2>1 DEF LifeInv, RunInv
  <2>3. QED BY <2>2 DEF process, LifeInv, RunInv
<1>3. OrderlyExitCutsNobody'
  BY DEF LifeInv, OrderlyExitCutsNobody
<1>4. QED BY <1>1, <1>2, <1>3 DEF LifeInv

\* The same for a step that changes what one handler does.
LEMMA OneMoves ==
  ASSUME LifeInv, NEW s \in Services, NEW r \in Requests,
         NEW w \in {"none", "run", "wait", "ok", "notFound", "error", "gone"}, Becomes(s, r, w),
         UNCHANGED process, UNCHANGED cut, UNCHANGED op,
         w \in {"run", "wait"} => work[s][r] \in {"run", "wait"} \/ Accepting(s),
         step' \in [Services -> [Requests -> Nat]],
         \A x \in Services, q \in Requests : step'[x][q] \in DOMAIN HandlerOf(x, op[q]),
         \A x \in Services, q \in Requests \ {r} : step'[x][q] = step[x][q],
         moved' = moved \/ moved' = moved \cup {r},
         CallInv(r)'
  PROVE  LifeInv'
<1>1. /\ work' \in [Services -> [Requests ->
                      {"none", "run", "wait", "ok", "notFound", "error", "gone"}]]
      /\ \A x \in Services, q \in Requests :
           work'[x][q] = IF x = s /\ q = r THEN w ELSE work[x][q]
  BY Becoming DEF LifeInv
<1>2. HandlersOK'
  BY <1>1 DEF LifeInv, HandlersOK
<1>3. ASSUME NEW x \in Services, Busy(x)' # {} PROVE Busy(x) # {} \/ Accepting(x)
  BY <1>1, <1>3 DEF Busy
<1>4. ASSUME NEW q \in Requests PROVE CallInv(q)'
  BY <1>1 DEF LifeInv, CallInv, Services
<1>5. QED BY <1>2, <1>3, <1>4, HandlersMove

LEMMA HttpRequestKeeps ==
  ASSUME LifeInv, NEW r \in Requests, HttpRequest(r)
  PROVE  LifeInv'
<1>1. "gateway" \in Services /\ work["gateway"][r] = "none" /\ Becomes("gateway", r, "run")
  BY DEF HttpRequest, Services
<1>2. CallInv(r)'
  BY <1>1, Becoming DEF HttpRequest, process, LifeInv, CallInv, Services
<1>3. QED BY <1>1, <1>2, OneMoves DEF HttpRequest, LifeInv, HandlersOK

LEMMA FailureIsRefusal ==
  ASSUME NEW s \in Services, NEW r \in Requests
  PROVE  Failure(s, r) \in {"notFound", "error"} /\ (s # "store" => Failure(s, r) = "error")
BY DEF Failure

LEMMA StatementsKeep ==
  ASSUME LifeInv, NEW s \in Services, NEW r \in Requests,
         Query(s, r) \/ Money(s, r) \/ StatementFails(s, r)
  PROVE  LifeInv'
<1>1. /\ work[s][r] = "run" /\ Position(s, r) \in {"db", "money"}
      /\ UNCHANGED process /\ UNCHANGED cut /\ UNCHANGED op
  BY DEF Query, Money, StatementFails
<1>2. s \in {"store", "auth"} /\ (s = "auth" => Position(s, r) = "db")
  BY <1>1, Positions DEF LifeInv, Services
<1>3. CASE Query(s, r)
  <2>1. Goes(s, r) /\ Position(s, r) = "db" /\ UNCHANGED moved
    BY <1>3 DEF Query
  <2>2. PICK w \in {"ok", "run"} : Becomes(s, r, w) /\ (s = "store" => w = "run")
    BY <1>1, <1>2, <2>1, Going, Positions DEF LifeInv
  <2>3. step'["store"][r] = 3 /\ op[r] = "send" => step["store"][r] = 3
    BY <1>1, <1>2, <2>1, Going, Positions DEF LifeInv, Services
  <2>4. CallInv(r)'
    BY <1>1, <1>2, <2>1, <2>2, <2>3, Becoming DEF LifeInv, CallInv, Services
  <2>5. QED BY <1>1, <2>1, <2>2, <2>4, Going, OneMoves DEF LifeInv
<1>4. CASE Money(s, r)
  <2>1. Goes(s, r) /\ Position(s, r) = "money" /\ moved' = moved \cup {r}
    BY <1>4 DEF Money
  <2>2. s = "store" /\ step[s][r] = Len(HandlerOf(s, op[r])) /\ op[r] \in {"send", "buy"}
    BY <1>1, <1>2, <2>1, Positions DEF LifeInv
  <2>3. Becomes(s, r, "ok") /\ UNCHANGED step
    BY <2>1, <2>2 DEF Goes
  <2>4. op[r] = "send" => step["store"][r] = 3
    BY <2>1, <2>2, Positions DEF LifeInv
  <2>5. /\ work'["store"][r] = "ok"
        /\ work'["gateway"][r] = work["gateway"][r] /\ work'["auth"][r] = work["auth"][r]
    BY <2>2, <2>3, Becoming DEF LifeInv, Services
  <2>6. CallInv(r) /\ work["store"][r] = "run"
    BY <1>1, <2>2 DEF LifeInv
  <2>7. op[r] = "send" => work["auth"][r] = "ok"
    BY <2>4, <2>6 DEF CallInv
  <2>8. CallInv(r)'
    BY ONLY <1>1, <2>1, <2>2, <2>3, <2>5, <2>6, <2>7 DEF CallInv
  <2>9. QED BY <1>1, <2>1, <2>3, <2>8, OneMoves DEF LifeInv, HandlersOK
<1>5. CASE StatementFails(s, r)
  <2>1. Becomes(s, r, "error") /\ UNCHANGED step /\ UNCHANGED moved
    BY <1>5 DEF StatementFails
  <2>2. CallInv(r)'
    BY <1>1, <1>2, <2>1, Becoming DEF LifeInv, CallInv, Services
  <2>3. QED BY <1>1, <2>1, <2>2, OneMoves DEF LifeInv, HandlersOK
<1>6. QED BY <1>3, <1>4, <1>5

LEMMA ServerCommitsKeeps ==
  ASSUME LifeInv, NEW r \in Requests, ServerCommits(r)
  PROVE  LifeInv'
<1>1. /\ work["store"][r] \in {"error", "gone"} /\ Position("store", r) = "money"
      /\ moved' = moved \cup {r} /\ UNCHANGED <<process, op, work, step, cut>>
  BY DEF ServerCommits
<1>2. op[r] = "send" => step["store"][r] = 3
  BY <1>1, Positions DEF LifeInv, Services
<1>3. HandlersOK'
  BY <1>1 DEF LifeInv, HandlersOK
<1>4. CallInv(r)'
  BY <1>1, <1>2 DEF LifeInv, CallInv
<1>5. ASSUME NEW q \in Requests PROVE CallInv(q)'
  BY <1>1, <1>4 DEF LifeInv, CallInv
<1>6. QED BY <1>1, <1>3, <1>5, HandlersMove DEF Busy

LEMMA RefusalKeeps ==
  ASSUME LifeInv, NEW s \in Services, NEW r \in Requests, NEW w \in {"notFound", "error"},
         work[s][r] \in {"run", "wait"}, Becomes(s, r, w),
         w = "notFound" => \/ s = "store"
                           \/ s = "gateway" /\ work["store"][r] = "notFound",
         UNCHANGED <<process, op, step, moved, cut>>
  PROVE  LifeInv'
<1>1. CallInv(r)'
  BY Becoming DEF LifeInv, CallInv, Services
<1>2. QED BY <1>1, OneMoves DEF LifeInv, HandlersOK

LEMMA FailuresKeep ==
  ASSUME LifeInv, NEW s \in Services, NEW r \in Requests,
         Expires(s, r) \/ \E t \in Services : InvokeFails(s, t, r)
  PROVE  LifeInv'
<1>1. CASE Expires(s, r)
  BY <1>1, FailureIsRefusal, RefusalKeeps DEF Expires
<1>2. ASSUME NEW t \in Services, InvokeFails(s, t, r)
      PROVE  LifeInv'
  BY <1>2, FailureIsRefusal, RefusalKeeps DEF InvokeFails, AtCall
<1>3. QED BY <1>1, <1>2

LEMMA InvokeReturnsKeeps ==
  ASSUME LifeInv, NEW s \in Services, NEW t \in Services, NEW r \in Requests,
         InvokeReturns(s, t, r)
  PROVE  LifeInv'
<1>1. /\ work[s][r] = "wait" /\ Position(s, r) = t
      /\ UNCHANGED process /\ UNCHANGED cut /\ UNCHANGED op /\ UNCHANGED moved
  BY DEF InvokeReturns, AtCall
<1>2. /\ s \in {"gateway", "store"}
      /\ s = "gateway" => t = IF op[r] = "login" THEN "auth" ELSE "store"
      /\ s = "store" => t = "auth" /\ op[r] # "buy"
  BY <1>1, Positions DEF LifeInv, Services
<1>3. CASE work[t][r] = "ok" /\ Goes(s, r)
  <2>1. PICK w \in {"ok", "run"} :
           /\ Becomes(s, r, w)
           /\ s = "gateway" => w = "ok"
           /\ s = "store" /\ w = "ok" => op[r] \notin {"send", "buy"}
    BY <1>1, <1>2, <1>3, Going, Positions DEF LifeInv, Services
  <2>2. s = "gateway" => step'["store"][r] = step["store"][r]
    BY <1>1, <1>3, Going DEF LifeInv, Services
  <2>3. CallInv(r)'
    BY <1>1, <1>2, <1>3, <2>1, <2>2, Becoming DEF LifeInv, CallInv, Services
  <2>4. QED BY <1>1, <1>3, <2>1, <2>3, Going, OneMoves DEF LifeInv
<1>4. CASE /\ work[t][r] \in {"notFound", "error"}
           /\ Becomes(s, r, IF s = "gateway" THEN work[t][r] ELSE Failure(s, r))
           /\ UNCHANGED step
  <2>1. s = "gateway" /\ work[t][r] = "notFound" => work["store"][r] = "notFound"
    BY <1>2 DEF LifeInv, CallInv
  <2>2. QED BY <1>1, <1>2, <1>4, <2>1, FailureIsRefusal, RefusalKeeps
<1>5. QED BY <1>3, <1>4 DEF InvokeReturns

LEMMA InvokeKeeps ==
  ASSUME LifeInv, NEW s \in Services, NEW t \in Services, NEW r \in Requests, Invoke(s, t, r)
  PROVE  LifeInv'
<1>1. /\ work[s][r] = "run" /\ Position(s, r) = t /\ Accepting(t)
      /\ work' = [work EXCEPT ![s][r] = "wait", ![t][r] = "run"]
      /\ UNCHANGED <<process, op, step, moved, cut>>
  BY DEF Invoke, AtCall
<1>2. \/ s = "gateway" /\ t = "store" /\ op[r] # "login"
      \/ s = "gateway" /\ t = "auth" /\ op[r] = "login"
      \/ s = "store" /\ t = "auth" /\ op[r] # "buy" /\ (op[r] = "send" => step[s][r] = 2)
  BY <1>1, Positions DEF LifeInv, Services
<1>3. /\ work' \in [Services -> [Requests ->
                      {"none", "run", "wait", "ok", "notFound", "error", "gone"}]]
      /\ \A x \in Services, q \in Requests :
           work'[x][q] = IF q # r THEN work[x][q] ELSE
                         IF x = t THEN "run" ELSE IF x = s THEN "wait" ELSE work[x][q]
  BY <1>1, <1>2 DEF LifeInv, HandlersOK
<1>4. HandlersOK'
  BY <1>1, <1>3 DEF LifeInv, HandlersOK
<1>5. ASSUME NEW x \in Services, Busy(x)' # {} PROVE Busy(x) # {} \/ Accepting(x)
  BY <1>1, <1>3, <1>5 DEF Busy
<1>6. ASSUME NEW q \in Requests PROVE CallInv(q)'
  BY <1>1, <1>2, <1>3 DEF LifeInv, CallInv, Services
<1>7. QED BY <1>1, <1>4, <1>5, <1>6, HandlersMove
-----------------------------------------------------------------------------
LEMMA InitLife == Init => LifeInv
<1> SUFFICES ASSUME Init PROVE LifeInv
  OBVIOUS
<1>1. Functions
  BY DEF Init, Functions
<1>2. HandlersOK
  <2>1. ASSUME NEW s \in Services, NEW r \in Requests
        PROVE  step[s][r] \in DOMAIN HandlerOf(s, op[r])
    <3>1. step[s][r] = 1 /\ op[r] \in Ops
      BY DEF Init
    <3>2. 1 \in DOMAIN HandlerOf(s, op[r])
      BY <3>1, HandlerPrograms DEF Services
    <3>3. QED BY <3>1, <3>2
  <2>2. QED BY <2>1 DEF Init, HandlersOK
<1>3. ASSUME NEW s \in Services PROVE ProcessOK(s) /\ RunInv(s)
  <2>1. ServerPos(s) \in {4, 5} /\ Len(RunOf(s)) = ServerPos(s) + 2
    BY RunPrograms DEF ServerPos
  <2>2. main[s] = "check" /\ told[s] \in BOOLEAN
    BY DEF Init
  <2>3. CASE s \in Started
    <3>1. /\ run[s] = ServerPos(s) + 2 /\ server[s] = "serving" /\ result[s] = "pending"
          /\ pool[s] = (IF s = "gateway" THEN "none" ELSE "kept") /\ conns[s] \subseteq Services
      BY <2>1, <2>3 DEF Init, Serving
    <3>2. ProcessOK(s)
      BY <2>1, <2>2, <3>1 DEF ProcessOK
    <3>3. RunInv(s)
      BY <2>1, <2>2, <3>1 DEF RunInv
    <3>4. QED BY <3>2, <3>3
  <2>4. CASE s \notin Started
    <3>1. /\ run[s] = 1 /\ server[s] = "nil" /\ result[s] = "none" /\ pool[s] = "none"
          /\ conns[s] = {}
      BY <2>4 DEF Init, Fresh
    <3>2. ProcessOK(s)
      BY <2>1, <2>2, <3>1 DEF ProcessOK
    <3>3. RunInv(s)
      BY <2>1, <2>2, <2>4, <3>1 DEF RunInv
    <3>4. QED BY <3>2, <3>3
  <2>5. QED BY <2>3, <2>4
<1>4. ASSUME NEW r \in Requests PROVE CallInv(r)
  BY DEF Init, CallInv, Services
<1>5. OrderlyExitCutsNobody
  BY DEF Init, OrderlyExitCutsNobody
<1>6. QED BY <1>1, <1>2, <1>3, <1>4, <1>5 DEF LifeInv

LEMMA NextKeeps == LifeInv /\ [Next]_vars => LifeInv'
<1> SUFFICES ASSUME LifeInv, [Next]_vars PROVE LifeInv'
  OBVIOUS
<1>1. ASSUME NEW s \in Services, ProcessStep(s) PROVE LifeInv'
  BY <1>1, ProcessStepKeeps
<1>2. ASSUME NEW s \in Services, Exit(s) \/ Kill(s) PROVE LifeInv'
  BY <1>2, ExitKeeps
<1>3. ASSUME NEW s \in Services, NEW r \in Requests, Handle(s, r) PROVE LifeInv'
  BY <1>3, StatementsKeep, FailuresKeep, InvokeReturnsKeeps, InvokeKeeps DEF Handle
<1>4. ASSUME NEW r \in Requests, HttpRequest(r) PROVE LifeInv'
  BY <1>4, HttpRequestKeeps
<1>5. ASSUME NEW r \in Requests, ServerCommits(r) PROVE LifeInv'
  BY <1>5, ServerCommitsKeeps
<1>6. CASE UNCHANGED vars
  BY <1>6 DEF vars, process, handlers, LifeInv, Functions, HandlersOK, ProcessOK, RunInv, Busy,
     CallInv, OrderlyExitCutsNobody, HandlerOf
<1>7. QED BY <1>1, <1>2, <1>3, <1>4, <1>5, <1>6 DEF Next, ProcessStep, Main

(***************************************************************************)
(* The inductive invariant holds however often services are signalled,     *)
(* stopped, killed and started, at whichever of their steps.               *)
(***************************************************************************)
THEOREM Invariance == Spec => []LifeInv
<1>1. QED BY InitLife, NextKeeps, PTL DEF Spec

(***************************************************************************)
(* PoolOutlivesHandlers: Shutdown of the store and of auth closes the      *)
(* pgxpool only when no handler is left, and none can come after it.       *)
(***************************************************************************)
THEOREM PoolCorrect == Spec => []PoolOutlivesHandlers
<1>1. LifeInv => PoolOutlivesHandlers
  BY DEF LifeInv, RunInv, PoolOutlivesHandlers, Services
<1>2. QED BY <1>1, Invariance, PTL

(***************************************************************************)
(* ShutdownFindsPool: a.dbpool, which Run assigns without a lock, is set   *)
(* whenever Shutdown has seen a.server, so Close is never called on nil.   *)
(***************************************************************************)
THEOREM ShutdownCorrect == Spec => []ShutdownFindsPool
<1>1. LifeInv => ShutdownFindsPool
  BY DEF LifeInv, RunInv, ShutdownFindsPool, Services
<1>2. QED BY <1>1, Invariance, PTL

(***************************************************************************)
(* OrderlyExitCutsNobody: Shutdown abandons a running handler only when    *)
(* it missed a.server or when the gateway's shutdownTimeout was over.      *)
(***************************************************************************)
THEOREM ExitsCorrect == Spec => []OrderlyExitCutsNobody
<1>1. QED BY Invariance, PTL DEF LifeInv

(***************************************************************************)
(* AnswersSurviveShutdown: whatever is stopped, killed or started again    *)
(* while BuyItem or SendCoins is under way, the gateway reports a success  *)
(* only of a payment, and an unknown recipient only when nothing was paid, *)
(* nor ever will be.                                                       *)
(***************************************************************************)
THEOREM AnswersCorrect == Spec => []AnswersSurviveShutdown
<1>1. LifeInv => AnswersSurviveShutdown
  BY DEF LifeInv, CallInv, AnswersSurviveShutdown
<1>2. QED BY <1>1, Invariance, PTL

(***************************************************************************)
(* SuccessIsWhole: a request that the gateway reports as a success has     *)
(* failed, been cut off or been left running in none of the services, and  *)
(* a transfer is paid only over an answer of auth to FetchUserID.          *)
(***************************************************************************)
THEOREM SuccessCorrect == Spec => []SuccessIsWhole
<1>1. ASSUME LifeInv, NEW r \in Requests, NEW s \in Services, work["gateway"][r] = "ok"
      PROVE  work[s][r] \in {"none", "ok"}
  <2>1. CASE op[r] = "login"
    <3>1. work["auth"][r] = "ok" /\ work["store"][r] = "none"
      BY <1>1, <2>1 DEF LifeInv, CallInv
    <3>2. QED BY <1>1, <3>1 DEF Services
  <2>2. CASE op[r] # "login"
    <3>1. work["store"][r] = "ok" /\ work["auth"][r] \in {"none", "ok"}
      BY <1>1, <2>2 DEF LifeInv, CallInv
    <3>2. QED BY <1>1, <3>1 DEF Services
  <2>3. QED BY <2>1, <2>2
<1>2. ASSUME LifeInv, NEW r \in Requests, r \in moved, op[r] = "send"
      PROVE  work["auth"][r] = "ok"
  BY <1>2 DEF LifeInv, CallInv
<1>3. LifeInv => SuccessIsWhole
  BY <1>1, <1>2 DEF SuccessIsWhole
<1>4. QED BY <1>3, Invariance, PTL
=============================================================================

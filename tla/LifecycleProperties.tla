------------------------ MODULE LifecycleProperties ------------------------
(***************************************************************************)
(* What must survive starts, shutdowns and deaths of the processes.        *)
(***************************************************************************)
EXTENDS Lifecycle

\* No handler of the store or of auth ever runs over a closed pool: Shutdown waits for
\* GracefulStop, and nothing is accepted after it, before a.dbpool.Close.
PoolOutlivesHandlers ==
    \A s \in {"store", "auth"} : Busy(s) # {} => pool[s] # "closed"

\* When Shutdown has found a server, a.dbpool is set as well, at whichever step of Run the
\* signal came: a.dbpool.Close is never called on nil.
ShutdownFindsPool ==
    \A s \in {"store", "auth"} : main[s] = "close" => pool[s] = "kept"

\* A process that was told to stop ends under a running handler only if its main goroutine
\* looked for a.server before Run had set it, or if the gateway's shutdownTimeout passed.
OrderlyExitCutsNobody ==
    \A c \in cut :
        \/ c[3] = "killed"
        \/ c[3] = "unseen" /\ c[1] \notin Started \ Restartable
        \/ c[3] = "timeout" /\ c[1] = "gateway"

\* Whatever stops or dies while a payment is under way, a client told that it succeeded has
\* paid, and a client told that the recipient does not exist has not and never will.
AnswersSurviveShutdown ==
    \A r \in Requests :
        /\ work["gateway"][r] = "ok" /\ op[r] \in {"send", "buy"} => r \in moved
        /\ work["gateway"][r] = "notFound" => r \notin moved

\* A request that is reported as a success has succeeded in every service it came to: none of
\* its handlers failed, was cut off by the end of its process, or is still running, whichever
\* connections and processes were lost on the way; and a transfer was not paid before auth had
\* told who the recipient is.
SuccessIsWhole ==
    \A r \in Requests :
        /\ work["gateway"][r] = "ok" => \A s \in Services : work[s][r] \in {"none", "ok"}
        /\ r \in moved /\ op[r] = "send" => work["auth"][r] = "ok"

\* A service that gets a signal, or stops itself, exits: no handler, connection or goroutine
\* keeps it up for ever.
StopsWhenTold == \A s \in Services : told[s] ~> main[s] = "exited"

\* No zombie: a service whose Run has returned, with or without an error, exits too.
ExitsAfterRun == \A s \in Services : Returned(s) ~> main[s] = "exited"
=============================================================================

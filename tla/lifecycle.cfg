\* A login, a look or a payment while the store and the gateway stop; the store may die and restart.
SPECIFICATION Spec
CONSTANTS
    Requests = {r1}
    Ops <- MCOps
    Started <- TheOthers
    Stoppable <- StoreAndGateway
    Killable <- TheStore
    Restartable <- TheStore
CHECK_DEADLOCK FALSE
INVARIANTS
    OrderlyExitCutsNobody
    AnswersSurviveShutdown
    SuccessIsWhole
    PoolOutlivesHandlers
    ShutdownFindsPool

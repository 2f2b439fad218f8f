\* Every process that was told to stop, or whose Run has returned, exits.
SPECIFICATION FairSpec
CONSTANTS
    Requests = {r1}
    Ops = {"send"}
    Started <- TheOthers
    Stoppable <- TheStore
    Killable = {}
    Restartable = {}
CHECK_DEADLOCK FALSE
PROPERTY
    StopsWhenTold
    ExitsAfterRun

---------------------------- MODULE MCLifecycle ----------------------------
(***************************************************************************)
(* Small instances of Lifecycle for TLC.                                   *)
(***************************************************************************)
EXTENDS LifecycleProperties

TheStore == {"store"}

\* Auth stops by itself when its listener fails.
StoreAndGateway == {"store", "gateway"}

\* The store is about to start; those around it have been serving for long.
TheOthers == Services \ TheStore

\* The shortest way through the services, the one with most calls, and the one that pays last.
MCOps == {"login", "info", "send"}
=============================================================================

------------------------------- MODULE Processes -------------------------------
(* What the models of request handlers have in common: FlyerFiles, Push-     *)
(* Delivery and Accounts.                                                    *)
EXTENDS Naturals, FiniteSets

CONSTANTS
  Handlers,   \* requests whose handlers take several steps
  Servers,    \* bound: how many of them run at once
  MaxFaults,  \* bound: failed requests and processes that stop
  None

\* The deployment of the backend: one process answers requests, and a handler
\* that does not await between its steps runs alone (render.yaml).
OneServer == Servers = 1 /\ IsFiniteSet(Handlers)
================================================================================

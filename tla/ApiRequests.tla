------------------------------ MODULE ApiRequests ------------------------------
(***************************************************************************)
(* What the handlers of the API process have in common: a request is at    *)
(* some await, has its local variables, may fail there, and is lost when   *)
(* the process dies.  A client makes one request at a time; requests of    *)
(* different clients interleave at every await.  The loops of the worker   *)
(* process behave the same way, except that nobody asks them to.           *)
(***************************************************************************)
EXTENDS Naturals, FiniteSets

CONSTANTS
    Clients,        \* requests and loops that may be in flight at once
    Workers,        \* those of them that are loops of worker processes
    None,
    MaxRequests,    \* bound: requests made
    MaxFaults       \* bound: calls that fail and processes that die

ASSUME ApiConstants ==
    /\ IsFiniteSet(Clients)
    /\ Workers \subseteq Clients
    /\ MaxRequests \in Nat
    /\ MaxFaults \in Nat

VARIABLES
    pc,         \* pc[c]: the await the request of c is at, "idle" for none
    req,        \* req[c]: the parameters and local variables of that request
    up,         \* the process serves requests
    requests, faults

Visitors == Clients \ Workers

apiVars == <<pc, req, up, requests, faults>>

ApiInit ==
    /\ pc = [c \in Clients |-> "idle"]
    /\ req = [c \in Clients |-> None]
    /\ up \in BOOLEAN
    /\ requests = 0
    /\ faults = 0

\* A request arrives with parameters r and comes to its first await.
Arrive(c, label, r) ==
    /\ up /\ c \in Visitors
    /\ pc[c] = "idle"
    /\ requests < MaxRequests
    /\ requests' = requests + 1
    /\ pc' = [pc EXCEPT ![c] = label]
    /\ req' = [req EXCEPT ![c] = r]
    /\ UNCHANGED <<up, faults>>

Goto(c, label, r) ==
    /\ pc' = [pc EXCEPT ![c] = label]
    /\ req' = [req EXCEPT ![c] = r]
    /\ UNCHANGED <<up, requests, faults>>

\* The handler returns or throws.
Finish(c) == Goto(c, "idle", None)

Faults == faults < MaxFaults /\ faults' = faults + 1

\* The statement c awaits fails, and the exception takes it to `label`.
Throws(c, label, r) ==
    /\ pc[c] # "idle"
    /\ Faults
    /\ pc' = [pc EXCEPT ![c] = label]
    /\ req' = [req EXCEPT ![c] = r]
    /\ UNCHANGED <<up, requests>>

\* It ends the request.
CallFails(c) == Throws(c, "idle", None)

\* A process dies with the requests C in it; its supervisor starts it again.
Lose(C) ==
    /\ \E c \in C : pc[c] # "idle"
    /\ Faults
    /\ pc' = [c \in Clients |-> IF c \in C THEN "idle" ELSE pc[c]]
    /\ req' = [c \in Clients |-> IF c \in C THEN None ELSE req[c]]
    /\ UNCHANGED <<up, requests>>

\* The API process dies, and what it does when it starts again matters.
ProcessDies ==
    /\ up /\ up' = FALSE
    /\ Faults
    /\ pc' = [c \in Clients |-> "idle"]
    /\ req' = [c \in Clients |-> None]
    /\ UNCHANGED requests

=============================================================================

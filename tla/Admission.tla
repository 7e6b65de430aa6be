----------------------------- MODULE Admission -----------------------------
(***************************************************************************)
(* What the request scheduler of Logos promises to a request, without the  *)
(* heaps, futures, counts and callbacks it keeps the promise with: it is   *)
(* given a deployment of a model it wants, at most once; it may wait for   *)
(* one model; whoever is taken from the waiters of a model has the highest *)
(* priority among them; and a request that leaves ends, or hands its       *)
(* deployment over to a waiter.                                            *)
(***************************************************************************)
EXTENDS Integers

CONSTANTS Requests, Models, Providers, Wants, Prio, None

VARIABLES
    phase,      \* "new", "waiting", "granted" or "gone"
    waits,      \* who waits for which model, as pairs
    at          \* the deployment of a granted request, or None

vars == <<phase, waits, at>>

Deployments == Models \X Providers

Init ==
    /\ phase = [r \in Requests |-> "new"]
    /\ waits = {}
    /\ at = [r \in Requests |-> None]

\* Nobody of S is taken before a waiter of higher priority for the same model.
InOrder(S) ==
    \A r \in S, s \in Requests \ S, m \in Models :
        <<m, r>> \in waits /\ <<m, s>> \in waits => Prio[s] <= Prio[r]

Waiting == {r \in Requests : phase[r] = "waiting"}

NoLonger(S) == {w \in waits : w[2] \notin S}

Admit(r, d) ==
    /\ phase[r] = "new" /\ d[1] \in Wants[r]
    /\ phase' = [phase EXCEPT ![r] = "granted"]
    /\ at' = [at EXCEPT ![r] = d]
    /\ UNCHANGED waits

Wait(r, m) ==
    /\ phase[r] = "new" /\ m \in Wants[r]
    /\ phase' = [phase EXCEPT ![r] = "waiting"]
    /\ waits' = waits \cup {<<m, r>>}
    /\ UNCHANGED at

\* One step may take several waiters.
Dispatch(S, to) ==
    /\ \A r \in S : <<to[r][1], r>> \in waits
    /\ InOrder(S)
    /\ phase' = [r \in Requests |-> IF r \in S THEN "granted" ELSE phase[r]]
    /\ at' = [r \in Requests |-> IF r \in S THEN to[r] ELSE at[r]]
    /\ waits' = NoLonger(S)

\* Turned away, given up, finished or cut off.
Leave(r) ==
    /\ phase[r] # "gone"
    /\ phase' = [phase EXCEPT ![r] = "gone"]
    /\ at' = [at EXCEPT ![r] = None]
    /\ waits' = NoLonger({r})

\* A request that ends passes its deployment to the first waiter.
HandOver(r, s) ==
    /\ phase[r] = "granted"
    /\ <<at[r][1], s>> \in waits
    /\ InOrder({s})
    /\ phase' = [phase EXCEPT ![r] = "gone", ![s] = "granted"]
    /\ at' = [at EXCEPT ![r] = None, ![s] = at[r]]
    /\ waits' = NoLonger({s})

Next ==
    \/ \E r \in Requests, d \in Deployments : Admit(r, d)
    \/ \E r \in Requests, m \in Models : Wait(r, m)
    \/ \E r \in Requests : Leave(r)
    \/ \E S \in SUBSET Waiting : \E to \in [S -> Deployments] : Dispatch(S, to)
    \/ \E s \in Waiting, r \in Requests : HandOver(r, s)

Spec == Init /\ [][Next]_vars
=============================================================================

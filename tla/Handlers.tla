------------------------------ MODULE Handlers ------------------------------
(* How every handler of the API runs: a slot holds the request it is busy    *)
(* with, the request names the database statement that comes next, and       *)
(* between two statements the other slots move.  A process that dies drops   *)
(* the request where it stands.                                              *)
EXTENDS Naturals, FiniteSets

CONSTANTS Workers      \* the requests that may be in flight at once

(* Any number of them, but not infinitely many, and at least one.            *)
ASSUME WorkersAreFinite == IsFiniteSet(Workers) /\ Workers # {}

VARIABLE req           \* what each of them is doing

Idle == [at |-> "idle"]
NoRequests == req = [w \in Workers |-> Idle]

At(w, stage) == req[w].at = stage
Running(w) == ~At(w, "idle")
Become(w, job) == req' = [req EXCEPT ![w] = job]
Start(w, job) == At(w, "idle") /\ Become(w, job)
Go(w, stage) == Become(w, [req[w] EXCEPT !.at = stage])
End(w) == Become(w, Idle)
=============================================================================

------------------------------- MODULE Requests -------------------------------
(***************************************************************************)
(* What the models of the API handlers share.  A behaviour takes place in  *)
(* a scene: one component of the server, the operations that clients send  *)
(* to it, whether they wait for each answer and whether requests may die.  *)
(* The component decides what store and ctx look like.                     *)
(*                                                                         *)
(* pc[r] is the asynchronous call that request r makes next and ctx[r]     *)
(* what its handler carries from call to call; the calls of other requests *)
(* come in between.                                                        *)
(***************************************************************************)
EXTENDS Naturals, FiniteSets

CONSTANTS
    Reqs,   \* requests, each sent at most once
    None,
    Scenes  \* the scenes a behaviour may take place in

ASSUME ScenesAssumption ==
    Scenes \subseteq [component: STRING, ops: SUBSET STRING,
                      sequential: BOOLEAN, deaths: BOOLEAN, requests: Nat]

VARIABLES
    scene,  \* the scene of this behaviour, which no step changes
    store,  \* what the back ends hold
    pc,
    ctx

vars == <<scene, store, pc, ctx>>

In(component) == scene.component = component
Running(r) == pc[r] \notin {"idle", "ok", "failed"}
Answered(r) == pc[r] = "ok"
Quiet == \A r \in Reqs : ~Running(r)

\* Request r may be sent, for operation op.
Sent(r, op) ==
    /\ pc[r] = "idle"
    /\ op \in scene.ops
    /\ Cardinality({q \in Reqs : pc[q] # "idle"}) < scene.requests
    /\ scene.sequential => Quiet

Goto(r, call) == pc' = [pc EXCEPT ![r] = call]
Carry(r, c) == ctx' = [ctx EXCEPT ![r] = c]

\* A check refuses the request before it has changed anything.
Refuse(r) == Goto(r, "failed") /\ UNCHANGED <<store, ctx>>

\* The process dies, or a call ends the request with an error.
Die(r) ==
    /\ scene.deaths /\ Running(r)
    /\ Goto(r, "failed")
    /\ UNCHANGED <<store, ctx>>
=============================================================================

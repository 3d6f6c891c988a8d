--------------------------- MODULE RequestService ---------------------------
(***************************************************************************)
(* What the JavaScript layers (ip/ipcommand.js, ip/route.js, ip/link.js,   *)
(* ip/neighbor.js) rely on when they use a netlink socket one request at a *)
(* time: a request that was sent completes once, either with an error or   *)
(* with exactly the messages the kernel answered to it.                    *)
(***************************************************************************)
EXTENDS Naturals

CONSTANT Reqs

VARIABLES
    status,   \* per request: "idle", "pending" or "done"
    answers,  \* per request: the messages the kernel has answered so far
    outcome   \* per request: what its callback was told

serviceVars == <<status, answers, outcome>>

NoOutcome == [kind |-> "none", msgs |-> {}]
ErrorOutcome == [kind |-> "error", msgs |-> {}]
Replied(ms) == [kind |-> "replies", msgs |-> ms]

Init ==
    /\ status = [r \in Reqs |-> "idle"]
    /\ answers = [r \in Reqs |-> {}]
    /\ outcome = [r \in Reqs |-> NoOutcome]

\* One request at a time.
Send(r) ==
    /\ status[r] = "idle"
    /\ \A q \in Reqs : status[q] # "pending"
    /\ status' = [status EXCEPT ![r] = "pending"]
    /\ UNCHANGED <<answers, outcome>>

\* The kernel answers only the pending request and takes nothing back.
Serve(r) ==
    /\ status[r] = "pending"
    /\ answers[r] \subseteq answers'[r]
    /\ answers' = [answers EXCEPT ![r] = answers'[r]]
    /\ UNCHANGED <<status, outcome>>

Complete(r) ==
    /\ status[r] = "pending"
    /\ status' = [status EXCEPT ![r] = "done"]
    /\ \E o \in {ErrorOutcome, Replied(answers[r])} :
          outcome' = [outcome EXCEPT ![r] = o]
    /\ UNCHANGED answers

Next == \E r \in Reqs : Send(r) \/ Serve(r) \/ Complete(r)

Safety == Init /\ [][Next]_serviceVars

\* Every request that is pending completes.
Completes == \A r \in Reqs : status[r] = "pending" ~> status[r] = "done"

Spec == Safety /\ Completes
=============================================================================

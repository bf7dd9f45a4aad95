-------------------------- MODULE DeliveryContract --------------------------
(***************************************************************************)
(* What Hikyaku promises of the deliveries of an event, whatever fails and   *)
(* whoever races: runs that follow one another, each with a budget of POSTs  *)
(* numbered once, and one outcome that the POSTs of that run account for.    *)
(* No row, lease, queue or clock is left.                                    *)
(***************************************************************************)
EXTENDS Naturals

CONSTANTS Deliveries, MAX_DELIVERY_ATTEMPTS

VARIABLES
    state,    \* [Deliveries -> {"absent", "open", "succeeded", "failed"}]
    run,      \* [Deliveries -> Nat], the replays so far
    posts,    \* the POSTs so far, <<delivery, run, number>>
    accepted  \* the <<delivery, run>> a POST of which was answered with a 2xx

contract == <<state, run, posts, accepted>>

Init ==
    /\ state = [d \in Deliveries |-> "absent"]
    /\ run = [d \in Deliveries |-> 0]
    /\ posts = {}
    /\ accepted = {}

\* An event is accepted, or repeated with more endpoints.
Accept ==
    /\ \E new \in SUBSET {d \in Deliveries : state[d] = "absent"} :
         state' = [d \in Deliveries |-> IF d \in new THEN "open" ELSE state[d]]
    /\ UNCHANGED <<run, posts, accepted>>

\* A POST has a number of its run that no other POST has. It may come late: the
\* delivery may be settled, or in a later run.
Post ==
    /\ \E d \in Deliveries, n \in 1 .. MAX_DELIVERY_ATTEMPTS :
         \E r \in 0 .. run[d] :
           /\ state[d] # "absent"
           /\ <<d, r, n>> \notin posts
           /\ posts' = posts \cup {<<d, r, n>>}
           /\ accepted' \in {accepted, accepted \cup {<<d, r>>}}
    /\ UNCHANGED <<state, run>>

Succeed ==
    /\ \E d \in Deliveries :
         /\ state[d] = "open"
         /\ <<d, run[d]>> \in accepted
         /\ state' = [state EXCEPT ![d] = "succeeded"]
    /\ UNCHANGED <<run, posts, accepted>>

Fail ==
    /\ \E d \in Deliveries :
         /\ state[d] = "open"
         /\ state' = [state EXCEPT ![d] = "failed"]
    /\ UNCHANGED <<run, posts, accepted>>

Replay ==
    /\ \E d \in Deliveries :
         /\ state[d] = "failed"
         /\ state' = [state EXCEPT ![d] = "open"]
         /\ run' = [run EXCEPT ![d] = @ + 1]
    /\ UNCHANGED <<posts, accepted>>

Next == Accept \/ Post \/ Succeed \/ Fail \/ Replay

Spec == Init /\ [][Next]_contract
=============================================================================

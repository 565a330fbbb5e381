------------------------------ MODULE Dispatch ------------------------------
(***************************************************************************)
(* What routing promises, whatever layers and fallbacks a request passes:  *)
(* a request that has been accepted may be given another of the candidate  *)
(* models and be bound to a provider that supports its model, and then it  *)
(* fails, or is answered by the provider it is bound to, or by one that    *)
(* supports its model.  Only its sender can bind it to any other provider, *)
(* or to one that there is not, and a new model undoes that.               *)
(***************************************************************************)
CONSTANTS
    Clients, Models, Candidates,
    Registered, \* the providers there are
    Supports,   \* Supports[m]: the providers that support model m
    Absent,     \* stands for a provider that there is not
    None, Failed

VARIABLES
    asked,      \* the model of each client's request in progress
    bound,      \* the provider it is bound to, if any
    outcome     \* who answered each client's last request

vars == <<asked, bound, outcome>>

Init ==
    /\ asked = [p \in Clients |-> None]
    /\ bound = [p \in Clients |-> None]
    /\ outcome = [p \in Clients |-> None]

Accept(p) ==
    /\ asked[p] = None
    /\ asked'[p] \in Models /\ asked' = [asked EXCEPT ![p] = asked'[p]]
    /\ bound'[p] \in Registered \cup {None, Absent} /\ bound' = [bound EXCEPT ![p] = bound'[p]]
    /\ outcome' = [outcome EXCEPT ![p] = None]

(* The new model comes with no provider. *)
Reassign(p) ==
    /\ asked[p] # None
    /\ asked'[p] \in Candidates /\ asked' = [asked EXCEPT ![p] = asked'[p]]
    /\ bound' = [bound EXCEPT ![p] = None]
    /\ UNCHANGED outcome

Bind(p) ==
    /\ asked[p] # None /\ bound[p] = None
    /\ \E i \in Supports[asked[p]] : bound' = [bound EXCEPT ![p] = i]
    /\ UNCHANGED <<asked, outcome>>

End(p, o) ==
    /\ asked[p] # None
    /\ asked' = [asked EXCEPT ![p] = None]
    /\ bound' = [bound EXCEPT ![p] = None]
    /\ outcome' = [outcome EXCEPT ![p] = o]

Answer(p) ==
    /\ asked[p] # None
    /\ bound[p] # Absent
    /\ \E i \in IF bound[p] = None THEN Supports[asked[p]] ELSE {bound[p]} : End(p, i)

Fail(p) == End(p, Failed)

Next ==
    \E p \in Clients :
        \/ Accept(p)
        \/ Reassign(p)
        \/ Bind(p)
        \/ Answer(p)
        \/ Fail(p)

Spec == Init /\ [][Next]_vars

=============================================================================

---------------------------- MODULE OperationLog -----------------------------
(***************************************************************************)
(* What an operation journal promises: requests take effect one at a time, *)
(* each of them whole, on the state the previous one left, at most once    *)
(* under one identifier; nothing else ever changes the state or adds an    *)
(* output.                                                                 *)
(***************************************************************************)
EXTENDS Integers, Sequences

CONSTANTS
    Submitted,     \* the requests callers may submit
    InitialState,  \* the state of a new runtime
    Perform(_, _)  \* what one command makes of a state

VARIABLES
    state,     \* the state all effective requests led to
    requests,  \* the effective requests, in order
    outputs    \* their outputs, in order

logVars == <<state, requests, outputs>>

Init ==
    /\ state = InitialState
    /\ requests = <<>>
    /\ outputs = <<>>

After(acc, done) ==
    [ok |-> acc.ok /\ done.ok, state |-> done.state, outputs |-> acc.outputs \o done.outputs]

\* All commands of a request, one after the other; all of them must succeed.
Performed(commands) ==
    LET run[i \in 0 .. Len(commands)] ==
            IF i = 0 THEN [ok |-> TRUE, state |-> state, outputs |-> <<>>]
                     ELSE After(run[i - 1], Perform(run[i - 1].state, commands[i]))
    IN  run[Len(commands)]

Effective(r, done) ==
    /\ done.ok
    /\ done.state # state
    /\ state' = done.state
    /\ requests' = Append(requests, r)
    /\ outputs' = outputs \o done.outputs

\* A request is meant for the state it expects to find.
Publish(r) ==
    /\ requests' = Append(requests, r)
    /\ r.expected = Len(requests)
    /\ \A i \in DOMAIN requests : requests[i].id # r.id
    /\ Effective(r, Performed(r.commands))

Next == requests' # requests /\ \E r \in Submitted : Publish(r)

Spec == Init /\ [][Next]_logVars
=============================================================================

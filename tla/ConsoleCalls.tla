---------------------------- MODULE ConsoleCalls -----------------------------
(***************************************************************************)
(* The calls a page of the web console has in flight, as request() of      *)
(* web/src/lib/api-client.ts makes them: one fetch per call, no queue, no  *)
(* time limit of its own and no cancellation.  The API serves them in any  *)
(* order, their answers arrive in any order, and a connection may break    *)
(* before the API sees a call or after it has done what was asked.         *)
(***************************************************************************)
EXTENDS Naturals, Sequences, FiniteSets

CONSTANTS MaxCalls,      \* calls a user lets pile up before they click again
          MaxClicks      \* clicks and keystrokes of one visit to a page

VARIABLES ui,            \* the state of the mounted page
          calls,         \* the calls in flight, in the order they were sent
          db,            \* what the API keeps
          clicks         \* clicks and keystrokes so far

vars == <<ui, calls, db, clicks>>

\* What fetch resolves to: an envelope the API sent, or nothing at all.
Ok(data) == [ok |-> TRUE, data |-> data]
Refused(code) == [ok |-> FALSE, code |-> code]
NetworkError == Refused("network")

\* A call the page sends: what it asks, and which handler goes on with the answer.
\* An effect waits for nothing.
Call(op, arg, then) ==
    [op |-> op, arg |-> arg, then |-> then, st |-> "sent", res |-> Refused("pending")]
Effect == <<"effect", 0>>
Get(op, then) == Call(op, [n |-> 0], then)

\* The API has answered call i; the answer is on its way.
Served(i, res) == [calls EXCEPT ![i].st = "served", ![i].res = res]

\* What request() returns, or throws, for call i in this state.
Answers(i) ==
    {NetworkError} \cup (IF calls[i].st = "served" THEN {calls[i].res} ELSE {})

\* A read that nothing is compared with is answered when its answer arrives.
Reads(data) == {NetworkError, Ok(data)}

\* A sequence without its element at i.
Without(s, i) == SubSeq(s, 1, i - 1) \o SubSeq(s, i + 1, Len(s))

\* A sequence without the element at an index in K, which holds one index or none.
Drop(s, K) == IF K = {} THEN s ELSE Without(s, CHOOSE k \in K : TRUE)

\* The calls left when the answer to call i has been handed to the page, and
\* those with the next call of the same handler.
Rest(i) == Without(calls, i)
Then(i, next) == Append(Rest(i), next)

Show(s) == ui' = s.u /\ calls' = s.cs
Set(u) == ui' = u /\ UNCHANGED calls
Send(u, call) == ui' = u /\ calls' = Append(calls, call)

\* Two bounds on what a user does, none on the program: they do not click for
\* ever, nor go on while nothing answers.
UserActs ==
    /\ Len(calls) < MaxCalls
    /\ clicks < MaxClicks
    /\ clicks' = clicks + 1
=============================================================================

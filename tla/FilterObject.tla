---------------------------- MODULE FilterObject ----------------------------
(***************************************************************************)
(* What "safe for concurrent use" promises of a Program: each call takes   *)
(* effect at one instant between its invocation and its return, and its    *)
(* answer is a function of the call alone.  Nothing a call does shows in   *)
(* the answer of another one, at the same time or later.                   *)
(***************************************************************************)
CONSTANTS Goroutine, Filter, Call, Answer(_, _)

VARIABLES
  filter,    \* what the object was made from
  pending,   \* the call a goroutine waits for: << >> or << call >>
  answer     \* the answer it got: << >> or << answer >>

objVars == << filter, pending, answer >>

ObjInit ==
  /\ filter \in Filter
  /\ pending = [g \in Goroutine |-> << >>]
  /\ answer = [g \in Goroutine |-> << >>]

Invoke(g, c) ==
  /\ pending[g] = << >> /\ answer[g] = << >>
  /\ pending' = [pending EXCEPT ![g] = << c >>]
  /\ UNCHANGED << filter, answer >>

TakeEffect(g) ==
  /\ pending[g] # << >>
  /\ answer' = [answer EXCEPT ![g] = << Answer(filter, pending[g][1]) >>]
  /\ pending' = [pending EXCEPT ![g] = << >>]
  /\ UNCHANGED filter

Respond(g) ==
  /\ answer[g] # << >>
  /\ answer' = [answer EXCEPT ![g] = << >>]
  /\ UNCHANGED << filter, pending >>

ObjNext ==
  \E g \in Goroutine :
    \/ \E c \in Call : Invoke(g, c)
    \/ TakeEffect(g)
    \/ Respond(g)

ObjSpec == ObjInit /\ [][ObjNext]_objVars
=============================================================================

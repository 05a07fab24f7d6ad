------------------------------- MODULE Mailbox -------------------------------
(***************************************************************************)
(* What EventLoop::runInLoop promises to its callers, without threads,     *)
(* locks or polling: a functor handed to the loop either runs at once (the *)
(* caller is on the loop's thread) or joins a first-in first-out queue     *)
(* from which the loop runs one functor at a time; every functor runs once.*)
(***************************************************************************)
EXTENDS Sequences, Functions

CONSTANT Funcs         \* the functors; each submission is its own value

VARIABLES pending,     \* accepted and not yet run, oldest first
          ran          \* run, in the order they ran

mailboxVars == <<pending, ran>>

Fresh(f) == f \notin Range(pending) /\ f \notin Range(ran)

Init == pending = <<>> /\ ran = <<>>

\* Another thread hands over f.
Submit(f) == /\ Fresh(f)
             /\ pending' = Append(pending, f)
             /\ UNCHANGED ran

\* The loop's own thread hands over f: it runs before the call returns.
RunDirect(f) == /\ Fresh(f)
                /\ ran' = Append(ran, f)
                /\ UNCHANGED pending

\* The loop runs the oldest functor.
RunNext == /\ pending # <<>>
           /\ ran' = Append(ran, Head(pending))
           /\ pending' = Tail(pending)

Next == RunNext \/ \E f \in Funcs : Submit(f) \/ RunDirect(f)

Spec == Init /\ [][Next]_mailboxVars
===============================================================================

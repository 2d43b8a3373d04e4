------------------------------ MODULE TaskPool ------------------------------
(***************************************************************************)
(* What ThreadPool promises its users: a submitted task is started at most *)
(* once, in the order of submission, by some thread, and may then finish.  *)
(***************************************************************************)
EXTENDS Sequences

CONSTANT Tasks

VARIABLES pending,   \* submitted tasks, the oldest first
          running,   \* tasks being executed
          finished   \* tasks that have returned

vars == <<pending, running, finished>>

Init ==
  /\ pending = <<>>
  /\ running = {}
  /\ finished = {}

Submitted(t) ==
  t \in running \cup finished \/ \E i \in DOMAIN pending : pending[i] = t

Submit(t) ==
  /\ ~Submitted(t)
  /\ pending' = Append(pending, t)
  /\ UNCHANGED <<running, finished>>

Start ==
  /\ pending # <<>>
  /\ running' = running \cup {Head(pending)}
  /\ pending' = Tail(pending)
  /\ UNCHANGED finished

Finish(t) ==
  /\ t \in running
  /\ running' = running \ {t}
  /\ finished' = finished \cup {t}
  /\ UNCHANGED pending

Next == Start \/ \E t \in Tasks : Submit(t) \/ Finish(t)

Spec == Init /\ [][Next]_vars

=============================================================================

--------------------------- MODULE SerialExecutor ---------------------------
(***************************************************************************)
(* What an executor backed by a single thread promises to the callers of   *)
(* ExecutorBase::Execute: every task it takes in is run once, in the order *)
(* the tasks were taken in, one at a time.  How tasks travel from the      *)
(* callers to the thread (locks, condition variables, a second queue) is   *)
(* not visible here; GuardThreadExecutor implements this module.           *)
(***************************************************************************)
EXTENDS Sequences

CONSTANTS Tasks,   \* the task objects callers may hand over
          NoTask   \* what is running when nothing is running

VARIABLES pending,   \* tasks taken in and not begun, oldest first
          running,   \* the task being run, or NoTask
          completed  \* the tasks that were run to their end at least once

vars == <<pending, running, completed>>

Init ==
  /\ pending = <<>>
  /\ running = NoTask
  /\ completed = {}

Submit(k) ==
  /\ pending' = Append(pending, k)
  /\ UNCHANGED <<running, completed>>

Begin ==
  /\ running = NoTask
  /\ pending # <<>>
  /\ running' = Head(pending)
  /\ pending' = Tail(pending)
  /\ UNCHANGED completed

End ==
  /\ running # NoTask
  /\ completed' = completed \cup {running}
  /\ running' = NoTask
  /\ UNCHANGED pending

Next == (\E k \in Tasks : Submit(k)) \/ Begin \/ End

SafeSpec == Init /\ [][Next]_vars

Spec == SafeSpec /\ WF_vars(Begin) /\ WF_vars(End)
=============================================================================

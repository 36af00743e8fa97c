---------------------------- MODULE FunctorQueue ----------------------------
(***************************************************************************)
(* What EventLoop::queueInLoop promises its callers, without threads,      *)
(* locks or wakeups: a functor handed in is run once, after every functor  *)
(* that was handed in before it, and it is run eventually.                 *)
(***************************************************************************)
EXTENDS Sequences

CONSTANT Functors   \* the callbacks that may be handed in

VARIABLES waiting,  \* handed in and not yet run, oldest first
          done      \* already run, in the order they were run

vars == <<waiting, done>>

Init == waiting = <<>> /\ done = <<>>

\* A caller hands in f.
Submit(f) ==
  /\ waiting' = Append(waiting, f)
  /\ UNCHANGED done

\* The loop runs the oldest functor.
Execute ==
  /\ waiting # <<>>
  /\ waiting' = Tail(waiting)
  /\ done' = Append(done, Head(waiting))

Next == Execute \/ \E f \in Functors : Submit(f)

SafeSpec == Init /\ [][Next]_vars

Spec == SafeSpec /\ WF_vars(Execute)
=============================================================================

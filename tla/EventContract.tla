--------------------------- MODULE EventContract ---------------------------
(***************************************************************************)
(* What SyncEvent, AtomicEvent and Semaphore promise: notifications are    *)
(* kept until a Wait takes one, and every Wait that returns has taken one  *)
(* (all of them, for an event that resets itself).                         *)
(***************************************************************************)
EXTENDS Integers

CONSTANT Threads

VARIABLES
  available, \* the notifications nobody has taken
  waiting,   \* the threads in Wait
  reset      \* a Wait takes all there is

vars == <<available, waiting, reset>>

Init == available = 0 /\ waiting = {} /\ reset \in BOOLEAN

Notify == available' = available + 1 /\ UNCHANGED <<waiting, reset>>

Call(t) ==
  /\ t \notin waiting
  /\ waiting' = waiting \cup {t}
  /\ UNCHANGED <<available, reset>>

Return(t) ==
  /\ t \in waiting /\ available > 0
  /\ waiting' = waiting \ {t}
  /\ available' = IF reset THEN 0 ELSE available - 1
  /\ UNCHANGED reset

Next == Notify \/ \E t \in Threads : Call(t) \/ Return(t)

Spec == Init /\ [][Next]_vars
=============================================================================

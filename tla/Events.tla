------------------------------- MODULE Events -------------------------------
(***************************************************************************)
(* The events a caller waits on for its answer, and Stop for the end of a  *)
(* loop: SyncEvent (a mutex and a condition variable), AtomicEvent (a spin *)
(* on an atomic counter) and Semaphore (a POSIX semaphore).  The threads   *)
(* of the application wait; the loop's thread notifies.                    *)
(***************************************************************************)
EXTENDS Integers

CONSTANTS
  Threads,  \* the threads that wait
  MaxNotify \* bound: the calls of Notify

ASSUME EventsAssumption == MaxNotify \in Nat

VARIABLES
  kind,     \* which of the three classes the event is
  reset,    \* reset_ (SyncEvent only)
  value,    \* value_, or the semaphore's value
  at,       \* where each thread is in Wait
  expected, \* AtomicEvent: what each thread has loaded
  notified  \* the calls of Notify so far

vars == <<kind, reset, value, at, expected, notified>>

Places == {"out", "in", "asleep", "swap"}

TypeOK ==
  /\ kind \in {"SyncEvent", "AtomicEvent", "Semaphore"}
  /\ reset \in BOOLEAN
  /\ value \in Nat /\ notified \in Nat
  /\ at \in [Threads -> Places]
  /\ expected \in [Threads -> Nat]

Init ==
  /\ kind \in {"SyncEvent", "AtomicEvent", "Semaphore"}
  /\ reset \in IF kind = "SyncEvent" THEN BOOLEAN ELSE {FALSE}
  /\ value = 0 /\ notified = 0
  /\ at = [t \in Threads |-> "out"]
  /\ expected = [t \in Threads |-> 0]

\* A thread calls Wait, and has yet to take the lock or look at the value.
Wait(t) ==
  /\ at[t] = "out"
  /\ at' = [at EXCEPT ![t] = "in"]
  /\ UNCHANGED <<kind, reset, value, expected, notified>>

\* SyncEvent::Notify as it must not be: one thread woken, and only by the
\* first notification.
WakeFirst ==
  \/ value = 0 /\ \E t \in Threads :
       at[t] = "asleep" /\ at' = [at EXCEPT ![t] = "in"]
  \/ (value > 0 \/ \A t \in Threads : at[t] # "asleep") /\ UNCHANGED at

\* signal_.notify_all: the sleeping threads go for the lock again.
WakeAll == at' = [t \in Threads |-> IF at[t] = "asleep" THEN "in" ELSE at[t]]

Notify ==
  /\ notified < MaxNotify
  /\ notified' = notified + 1
  /\ value' = value + 1
  /\ WakeAll
  /\ UNCHANGED <<kind, reset, expected>>

\* Takes a notification and leaves Wait.
Take(t) ==
  /\ at' = [at EXCEPT ![t] = "out"]
  /\ value' = IF reset THEN 0 ELSE value - 1

\* The body of SyncEvent::Wait, under the lock: sleep, or take.  A sleeping
\* thread may also wake for no reason, and look again.
SyncSleep(t) ==
  /\ kind = "SyncEvent" /\ at[t] = "in" /\ value = 0
  /\ at' = [at EXCEPT ![t] = "asleep"]
  /\ UNCHANGED <<kind, reset, value, expected, notified>>

SyncTake(t) ==
  /\ kind = "SyncEvent" /\ at[t] = "in" /\ value # 0
  /\ Take(t)
  /\ UNCHANGED <<kind, reset, expected, notified>>

Spurious(t) ==
  /\ at[t] = "asleep"
  /\ at' = [at EXCEPT ![t] = "in"]
  /\ UNCHANGED <<kind, reset, value, expected, notified>>

\* AtomicEvent::Wait spins: it loads the value and, when that is positive,
\* tries to swap it for one less.  The weak swap fails when the value is
\* another by now, and may fail when it is not.
Load(t) ==
  /\ kind = "AtomicEvent" /\ at[t] = "in" /\ value > 0
  /\ expected' = [expected EXCEPT ![t] = value]
  /\ at' = [at EXCEPT ![t] = "swap"]
  /\ UNCHANGED <<kind, reset, value, notified>>

SwapUnchecked(t) ==
  /\ at[t] = "swap"
  /\ at' = [at EXCEPT ![t] = "out"]
  /\ value' = expected[t] - 1
  /\ UNCHANGED <<kind, reset, expected, notified>>

Swap(t) ==
  /\ at[t] = "swap" /\ value = expected[t]
  /\ at' = [at EXCEPT ![t] = "out"]
  /\ value' = expected[t] - 1
  /\ UNCHANGED <<kind, reset, expected, notified>>

SwapFails(t) ==
  /\ at[t] = "swap"
  /\ at' = [at EXCEPT ![t] = "in"]
  /\ UNCHANGED <<kind, reset, value, expected, notified>>

\* Semaphore::Wait: sem_wait returns once it has decremented the value.
SemWait(t) ==
  /\ kind = "Semaphore" /\ at[t] = "in" /\ value > 0
  /\ Take(t)
  /\ UNCHANGED <<kind, reset, expected, notified>>

InWait(t) ==
  \/ SyncSleep(t) \/ SyncTake(t) \/ Spurious(t)
  \/ Load(t) \/ Swap(t) \/ SwapFails(t)
  \/ SemWait(t)

Next == Notify \/ \E t \in Threads : Wait(t) \/ InWait(t)

Spec == Init /\ [][Next]_vars

\* A thread that can run does: the mutex and the semaphore let a thread in,
\* and a swap that is tried again and again succeeds.
FairSpec ==
  /\ Spec
  /\ \A t \in Threads :
       /\ WF_vars(SyncSleep(t) \/ SyncTake(t)) /\ WF_vars(SemWait(t))
       /\ WF_vars(Load(t)) /\ WF_vars(Swap(t) \/ SwapFails(t)) /\ SF_vars(Swap(t))
-----------------------------------------------------------------------------
Contract == INSTANCE EventContract WITH
  available <- value,
  waiting <- {t \in Threads : at[t] # "out"}

\* sync_event.h:15, atomic_event.h:19, sem_event.h:25.  All three classes are
\* one counting event: whatever the interleaving of sleeps, wake-ups and swaps,
\* a Wait returns only by taking a notification no other Wait took.
KeepsContract == Contract!Spec

\* No wake-up is lost: once the notifications stop, no thread stays in Wait
\* beside a notification it could take.
NoLostWakeup == <>[](value = 0 \/ \A t \in Threads : at[t] = "out")
=============================================================================

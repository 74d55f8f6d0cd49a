---------------------------- MODULE EventsProofs ----------------------------
(***************************************************************************)
(* For any number of threads and notifications, the three events implement *)
(* EventContract.                                                          *)
(***************************************************************************)
EXTENDS Events, TLAPS

\* A thread that is about to swap has loaded a positive value, and only a
\* SyncEvent resets itself.
Inv ==
  /\ TypeOK
  /\ reset => kind = "SyncEvent"
  /\ \A t \in Threads : at[t] = "swap" => kind = "AtomicEvent" /\ expected[t] > 0

waiters == {t \in Threads : at[t] # "out"}

LEMMA InitInv == Init => Inv
<1> SUFFICES ASSUME Init PROVE Inv
  OBVIOUS
<1>1. reset \in BOOLEAN /\ (reset => kind = "SyncEvent")
  BY Zenon DEF Init
<1>2. /\ value \in Nat /\ notified \in Nat
      /\ at \in [Threads -> Places] /\ expected \in [Threads -> Nat]
  BY DEF Init, Places
<1>3. kind \in {"SyncEvent", "AtomicEvent", "Semaphore"}
  BY DEF Init
<1>4. \A t \in Threads : at[t] # "swap"
  BY DEF Init
<1> QED
  BY <1>1, <1>2, <1>3, <1>4 DEF Inv, TypeOK

LEMMA InWaitInv ==
  ASSUME Inv, NEW t \in Threads, Wait(t) \/ InWait(t)
  PROVE  Inv'
<1> USE DEF Inv, TypeOK, Places
<1>1. CASE Wait(t)
  BY <1>1 DEF Wait
<1>2. CASE SyncSleep(t)
  BY <1>2 DEF SyncSleep
<1>3. CASE SyncTake(t)
  BY <1>3 DEF SyncTake, Take
<1>4. CASE Spurious(t)
  BY <1>4 DEF Spurious
<1>5. CASE Load(t)
  BY <1>5 DEF Load
<1>6. CASE Swap(t)
  BY <1>6 DEF Swap
<1>7. CASE SwapFails(t)
  BY <1>7 DEF SwapFails
<1>8. CASE SemWait(t)
  BY <1>8 DEF SemWait, Take
<1> QED
  BY <1>1, <1>2, <1>3, <1>4, <1>5, <1>6, <1>7, <1>8 DEF InWait

LEMMA NotifyInv == Inv /\ Notify => Inv'
  BY DEF Inv, TypeOK, Places, Notify, WakeAll

LEMMA NextInv == Inv /\ [Next]_vars => Inv'
<1>1. Inv /\ UNCHANGED vars => Inv'
  BY DEF Inv, TypeOK, vars
<1> QED
  BY <1>1, InWaitInv, NotifyInv DEF Next

LEMMA Safe == Spec => []Inv
  BY InitInv, NextInv, PTL DEF Spec

\* A step inside Wait that does not return is none of the contract's.
LEMMA Unseen ==
  ASSUME Inv, NEW t \in Threads, at[t] # "out", NEW p \in Places \ {"out"},
         at' = [at EXCEPT ![t] = p], UNCHANGED <<value, reset>>
  PROVE  UNCHANGED <<value, waiters, reset>>
  BY DEF Inv, TypeOK, Places, waiters

\* A step that takes a notification is the contract's Return.
LEMMA Returned ==
  ASSUME Inv, NEW t \in Threads, at[t] # "out", value > 0,
         at' = [at EXCEPT ![t] = "out"], UNCHANGED reset,
         value' = IF reset THEN 0 ELSE value - 1
  PROVE  Contract!Return(t)
<1>1. {u \in Threads : at'[u] # "out"} = {u \in Threads : at[u] # "out"} \ {t}
  BY DEF Inv, TypeOK
<1>2. t \in {u \in Threads : at[u] # "out"}
  OBVIOUS
<1> QED
  BY <1>1, <1>2 DEF Contract!Return

LEMMA InWaitStep ==
  ASSUME Inv, NEW t \in Threads, InWait(t)
  PROVE  Contract!Return(t) \/ UNCHANGED <<value, waiters, reset>>
<1>1. CASE SyncSleep(t)
  BY <1>1, Unseen DEF SyncSleep, Places
<1>2. CASE SyncTake(t)
  <2>1. value > 0
    BY <1>2 DEF SyncTake, Inv, TypeOK
  <2> QED
    BY <1>2, <2>1, Returned DEF SyncTake, Take
<1>3. CASE Spurious(t)
  BY <1>3, Unseen DEF Spurious, Places
<1>4. CASE Load(t)
  BY <1>4, Unseen DEF Load, Places
<1>5. CASE Swap(t)
  <2>1. value > 0 /\ ~reset /\ value' = value - 1
    BY <1>5 DEF Swap, Inv, TypeOK
  <2> QED
    BY <1>5, <2>1, Returned DEF Swap
<1>6. CASE SwapFails(t)
  BY <1>6, Unseen DEF SwapFails, Places
<1>7. CASE SemWait(t)
  BY <1>7, Returned DEF SemWait, Take
<1> QED
  BY <1>1, <1>2, <1>3, <1>4, <1>5, <1>6, <1>7 DEF InWait

LEMMA WaitStep ==
  ASSUME Inv, NEW t \in Threads, Wait(t)
  PROVE  Contract!Call(t)
<1>1. {u \in Threads : at'[u] # "out"} = {u \in Threads : at[u] # "out"} \cup {t}
  BY DEF Wait, Inv, TypeOK
<1>2. t \notin {u \in Threads : at[u] # "out"}
  BY DEF Wait
<1> QED
  BY <1>1, <1>2 DEF Wait, Contract!Call

LEMMA NotifyStep == Inv /\ Notify => Contract!Notify
<1> SUFFICES ASSUME Inv, Notify PROVE Contract!Notify
  OBVIOUS
<1>1. {u \in Threads : at'[u] # "out"} = {u \in Threads : at[u] # "out"}
  BY DEF Notify, WakeAll, Inv, TypeOK
<1> QED
  BY <1>1 DEF Notify, Contract!Notify

LEMMA NextStep == Inv /\ [Next]_vars => [Contract!Next]_(Contract!vars)
<1>1. ASSUME UNCHANGED vars PROVE UNCHANGED Contract!vars
  BY <1>1 DEF vars, Contract!vars
<1>2. ASSUME UNCHANGED <<value, waiters, reset>> PROVE UNCHANGED Contract!vars
  BY <1>2 DEF waiters, Contract!vars
<1> QED
  BY <1>1, <1>2, InWaitStep, WaitStep, NotifyStep DEF Next, Contract!Next

\* Every behaviour of SyncEvent, AtomicEvent and Semaphore is one of the
\* counting event: no Wait returns without taking a notification of its own.
THEOREM EventsKeepContract == Spec => KeepsContract
<1>1. Init => Contract!Init
  BY DEF Init, Contract!Init
<1> QED
  BY <1>1, NextStep, Safe, PTL DEF Spec, KeepsContract, Contract!Spec
=============================================================================

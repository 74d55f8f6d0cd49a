------------------------------ MODULE RefCount ------------------------------
(***************************************************************************)
(* The count of one channel that RPCServerImpl::Accepted, in the           *)
(* acceptor's loop, posts to another dispatcher.  The count is a plain     *)
(* integer: Ref and UnRef load it and store it, and two threads may do so  *)
(* at once.  The count is two when the handler has been posted, for the    *)
(* intrusive_ptr of Accepted and for the copy bound in the handler.        *)
(***************************************************************************)
EXTENDS Integers, Sequences

VARIABLES
  count,    \* count_
  register, \* what each thread has loaded, or None
  todo,     \* the calls each thread has yet to make
  deleted,  \* an UnRef has deleted the channel
  failed    \* CHECK_GE(count_, 1) has failed

vars == <<count, register, todo, deleted, failed>>

Threads == {"acceptor", "dispatcher"}
None == -1

\* The acceptor's loop drops the intrusive_ptr of Accepted.  The dispatcher
\* puts the channel in the pool, starts a read and drops the handler's copy;
\* when the read fails, ReleaseChannel and the end of ReadInLoop drop theirs.
Accepted == <<"UnRef">>
StartChannelInLoop == <<"Ref", "Ref", "UnRef">>
ReadFails == <<"UnRef", "UnRef">>

Init ==
  /\ count = 2
  /\ register = [t \in Threads |-> None]
  /\ todo = [t \in Threads |-> IF t = "acceptor" THEN Accepted
                               ELSE StartChannelInLoop \o ReadFails]
  /\ deleted = FALSE /\ failed = FALSE

\* What is left of a deleted channel may be any number.
Load(t) ==
  /\ ~failed /\ todo[t] # <<>> /\ register[t] = None
  /\ \E n \in IF deleted THEN 0..2 ELSE {count} :
       /\ register' = [register EXCEPT ![t] = n]
       /\ failed' = (Head(todo[t]) = "UnRef" /\ n < 1)
  /\ UNCHANGED <<count, todo, deleted>>

Ref(t) ==
  /\ Head(todo[t]) = "Ref"
  /\ count' = register[t] + 1
  /\ UNCHANGED deleted

UnRef(t) ==
  /\ Head(todo[t]) = "UnRef"
  /\ count' = register[t] - 1
  /\ deleted' = (deleted \/ count' = 0)

Store(t) ==
  /\ ~failed /\ todo[t] # <<>> /\ register[t] # None
  /\ Ref(t) \/ UnRef(t)
  /\ register' = [register EXCEPT ![t] = None]
  /\ todo' = [todo EXCEPT ![t] = Tail(@)]
  /\ UNCHANGED failed

Next == \E t \in Threads : Load(t) \/ Store(t)

Spec == Init /\ [][Next]_vars

\* ref_count.h:28: UnRef is called only for a channel that is still counted.
CountAtLeastOne == ~failed
=============================================================================

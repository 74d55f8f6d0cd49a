----------------------- MODULE ClientLifecycleProofs -----------------------
(* The safety properties of ClientLifecycle. *)
EXTENDS ClientLifecycle, SequenceTheorems, TLAPS

(* What the destructor has posted by the time the owner is at step a. *)
PostedAt(a) ==
  IF a \in {"set need_stop_", "post CloseAll"} THEN <<"Terminate">>
  ELSE IF a \in {"reset keep_working_", "Wait", "gone"}
       THEN <<"Terminate", "CloseAll">>
  ELSE <<>>

(***************************************************************************)
(* The inductive invariant.  The semaphore has been posted exactly when    *)
(* the loop has ended and the owner has not taken it; need_stop_ tells how *)
(* far the destructor is; only a destructor that has reset keep_working_   *)
(* can leave a loop that is to run, or runs, without it; before the loop   *)
(* runs nothing the destructor posted is run; and when it returns, either  *)
(* that is still so or everything has been run.                            *)
(***************************************************************************)
Stopping == {"post CloseAll", "reset keep_working_", "Wait", "gone"}

Untouched == ~terminated /\ channel = "reading" /\ queue = PostedAt(app)

Drained == terminated /\ channel = "none" /\ queue = <<>>

ThreadInv ==
  /\ loop = "ended" <=> (stopped = 1 \/ app = "gone")
  /\ app = "gone" => stopped = 0
  /\ need_stop <=> app \in Stopping
  /\ loop = "no thread" => app # "open"
  /\ loop # "no thread" => app \notin {"new", "RunOnce", "crashed"}
  /\ loop \in {"RunOnce", "run"} => keep_working \/ app \in {"Wait", "gone"}

WorkInv ==
  /\ loop = "no thread" => ~terminated /\ channel = "none" /\ queue = PostedAt(app)
  /\ loop \in {"Loop", "RunOnce", "late store"} => Untouched
  /\ loop = "run" => \/ ~terminated /\ queue = PostedAt(app)
                     \/ terminated /\ queue \in {<<>>, <<"CloseAll">>}
                        /\ app \notin {"open", "delete"}
                        /\ (app \in {"set need_stop_", "post CloseAll"} => queue = <<>>)
  /\ loop \in {"Notify", "ended"} => \/ Untouched /\ app \in Stopping
                                     \/ Drained /\ app \in {"Wait", "gone"}

Inv == TypeOK /\ ThreadInv /\ WorkInv

-----------------------------------------------------------------------------
(* The types of the flags, and of the other variables. *)
FlagTypes ==
  /\ auto_reconnect \in BOOLEAN
  /\ connection \in BOOLEAN
  /\ terminated \in BOOLEAN
  /\ need_stop \in BOOLEAN
  /\ keep_working \in BOOLEAN
  /\ overwritten \in BOOLEAN

OtherTypes ==
  /\ app \in AppSteps
  /\ loop \in LoopSteps
  /\ attempt \in {"none", "going", "made", "failed"}
  /\ timers \in 0..2
  /\ channel \in {"none", "reading", "connecting"}
  /\ queue \in Seq({"Terminate", "CloseAll"})
  /\ stopped \in 0..1

(* TypeOK in two parts, each for a prover of its own. *)
LEMMA TypeParts == TypeOK <=> FlagTypes /\ OtherTypes
  BY Zenon DEF TypeOK, FlagTypes, OtherTypes

(* Each action keeps the types of the flags. *)
LEMMA FlagTypesKept == FlagTypes /\ [Next]_vars => FlagTypes'
<1> SUFFICES ASSUME FlagTypes, [Next]_vars PROVE FlagTypes'
  OBVIOUS
<1> USE DEF FlagTypes
<1>1. CASE Connect
  BY <1>1, Zenon DEF Connect, StartAttempt,
         connectVars, channelVars, stopVars
<1>2. CASE Connected
  BY <1>2, Zenon DEF Connected,
         connectVars, channelVars, stopVars
<1>3. CASE ExpireToConnect
  BY <1>3, Zenon DEF ExpireToConnect,
         connectVars, channelVars, stopVars
<1>4. CASE RunOnceReturns
  BY <1>4, Zenon DEF RunOnceReturns, StartAttempt,
         connectVars, channelVars, stopVars
<1>5. CASE Delete
  BY <1>5, Zenon DEF Delete,
         connectVars, channelVars, stopVars
<1>6. CASE TerminateChannel
  BY <1>6, Zenon DEF TerminateChannel,
         connectVars, channelVars, stopVars
<1>7. CASE Stop
  BY <1>7, Zenon DEF Stop,
         connectVars, channelVars, stopVars
<1>8. CASE Wait
  BY <1>8, Zenon DEF Wait,
         connectVars, channelVars, stopVars
<1>9. CASE Loop
  BY <1>9, Zenon DEF Loop,
         connectVars, channelVars, stopVars
<1>10. CASE RunOnce
  BY <1>10, Zenon DEF RunOnce,
         connectVars, channelVars, stopVars
<1>11. CASE LateStore
  BY <1>11, Zenon DEF LateStore,
         connectVars, channelVars, stopVars
<1>12. CASE RunHandler
  BY <1>12, Zenon DEF RunHandler,
         connectVars, channelVars, stopVars
<1>13. CASE RunReturns
  BY <1>13, Zenon DEF RunReturns,
         connectVars, channelVars, stopVars
<1>14. CASE Notify
  BY <1>14, Zenon DEF Notify,
         connectVars, channelVars, stopVars
<1>15. CASE AttemptEnds
  BY <1>15, Zenon DEF AttemptEnds,
         connectVars, channelVars, stopVars
<1>16. CASE ReadFails
  BY <1>16, Zenon DEF ReadFails,
         connectVars, channelVars, stopVars
<1>17. CASE Reconnected
  BY <1>17, Zenon DEF Reconnected,
         connectVars, channelVars, stopVars
<1>18. CASE UNCHANGED vars
  BY <1>18, Zenon DEF vars,
         connectVars, channelVars, stopVars
<1> QED
  BY <1>1, <1>2, <1>3, <1>4, <1>5, <1>6, <1>7, <1>8, <1>9,
     <1>10, <1>11, <1>12, <1>13, <1>14, <1>15, <1>16, <1>17, <1>18
     DEF Next, Owner, LoopThread

(* The semaphore has not been posted when the loop thread posts it. *)
LEMMA NotPostedYet ==
  ASSUME OtherTypes, ThreadInv, loop = "Notify"
  PROVE  stopped = 0 /\ app # "gone"
<1>1. stopped # 1 /\ app # "gone"
  BY Zenon DEF ThreadInv
<1>2. stopped \in 0..1
  BY DEF OtherTypes
<1> QED
  BY <1>1, <1>2

(* Each action keeps the types of the other variables. *)
LEMMA OtherTypesKept == OtherTypes /\ ThreadInv /\ [Next]_vars => OtherTypes'
<1> SUFFICES ASSUME OtherTypes, ThreadInv, [Next]_vars PROVE OtherTypes'
  OBVIOUS
<1>1. app' \in AppSteps /\ loop' \in LoopSteps
  <2>1. app \in AppSteps /\ loop \in LoopSteps
    BY DEF OtherTypes
  <2> QED
    BY <2>1, Zenon
       DEF Next, Owner, LoopThread, Connect, StartAttempt, Connected,
           ExpireToConnect, RunOnceReturns, Delete, TerminateChannel, Stop, Wait,
           Loop, RunOnce, LateStore, RunHandler, RunReturns, Notify, AttemptEnds,
           ReadFails, Reconnected, vars, AppSteps, LoopSteps
<1>2. attempt' \in {"none", "going", "made", "failed"}
  BY Zenon
     DEF OtherTypes, Next, Owner, LoopThread, Connect, StartAttempt, Connected,
         ExpireToConnect, RunOnceReturns, Delete, TerminateChannel, Stop, Wait,
         Loop, RunOnce, LateStore, RunHandler, RunReturns, Notify, AttemptEnds,
         ReadFails, Reconnected, vars, connectVars
<1>3. timers' \in 0..2
  <2>1. \/ timers' = timers
        \/ timers' = IF auto_reconnect THEN 2 ELSE 0
        \/ timers > 0 /\ timers' = timers - 1
    BY Zenon
       DEF Next, Owner, LoopThread, Connect, StartAttempt, Connected,
           ExpireToConnect, RunOnceReturns, Delete, TerminateChannel, Stop, Wait,
           Loop, RunOnce, LateStore, RunHandler, RunReturns, Notify, AttemptEnds,
           ReadFails, Reconnected, vars, connectVars
  <2>2. timers \in 0..2
    BY DEF OtherTypes
  <2> QED
    BY <2>1, <2>2
<1>4. channel' \in {"none", "reading", "connecting"}
  BY Zenon
     DEF OtherTypes, Next, Owner, LoopThread, Connect, StartAttempt, Connected,
         ExpireToConnect, RunOnceReturns, Delete, TerminateChannel, Stop, Wait,
         Loop, RunOnce, LateStore, RunHandler, RunReturns, Notify, AttemptEnds,
         ReadFails, Reconnected, vars, channelVars
<1>5. queue' \in Seq({"Terminate", "CloseAll"})
  <2>1. \/ queue' = queue
        \/ queue' = Append(queue, "Terminate")
        \/ queue' = Append(queue, "CloseAll")
        \/ queue # <<>> /\ queue' = Tail(queue)
    BY Zenon
       DEF Next, Owner, LoopThread, Connect, StartAttempt, Connected,
           ExpireToConnect, RunOnceReturns, Delete, TerminateChannel, Stop, Wait,
           Loop, RunOnce, LateStore, RunHandler, RunReturns, Notify, AttemptEnds,
           ReadFails, Reconnected, vars, stopVars
  <2>2. queue \in Seq({"Terminate", "CloseAll"})
    BY DEF OtherTypes
  <2> QED
    BY <2>1, <2>2
<1>6. stopped' \in 0..1
  <2>1. \/ stopped' = stopped
        \/ stopped > 0 /\ stopped' = stopped - 1
        \/ loop = "Notify" /\ stopped' = stopped + 1
    BY Zenon
       DEF Next, Owner, LoopThread, Connect, StartAttempt, Connected,
           ExpireToConnect, RunOnceReturns, Delete, TerminateChannel, Stop, Wait,
           Loop, RunOnce, LateStore, RunHandler, RunReturns, Notify, AttemptEnds,
           ReadFails, Reconnected, vars, stopVars
  <2>2. stopped \in 0..1
    BY DEF OtherTypes
  <2>3. loop = "Notify" => stopped = 0
    BY NotPostedYet
  <2> QED
    BY <2>1, <2>2, <2>3
<1> QED
  BY <1>1, <1>2, <1>3, <1>4, <1>5, <1>6 DEF OtherTypes

(* Each action keeps what the two threads know of each other. *)
LEMMA ThreadsKept == Inv /\ [Next]_vars => ThreadInv'
<1> SUFFICES ASSUME Inv, [Next]_vars PROVE ThreadInv'
  OBVIOUS
<1> USE DEF Inv, TypeOK
<1>1. CASE Connect
  BY <1>1
     DEF ThreadInv, Stopping, Connect, StartAttempt, connectVars, channelVars,
         stopVars
<1>2. CASE Connected
  BY <1>2 DEF ThreadInv, Stopping, Connected, connectVars, channelVars, stopVars
<1>3. CASE ExpireToConnect
  BY <1>3
     DEF ThreadInv, Stopping, ExpireToConnect, connectVars, channelVars,
         stopVars
<1>4. CASE RunOnceReturns
  BY <1>4
     DEF ThreadInv, Stopping, RunOnceReturns, StartAttempt, connectVars,
         channelVars, stopVars
<1>5. CASE Delete
  BY <1>5 DEF ThreadInv, Stopping, Delete, connectVars, channelVars, stopVars
<1>6. CASE TerminateChannel
  BY <1>6
     DEF ThreadInv, Stopping, TerminateChannel, connectVars, channelVars,
         stopVars
<1>7. CASE Stop
  BY <1>7 DEF ThreadInv, Stopping, Stop, connectVars, channelVars, stopVars
<1>8. CASE Wait
  BY <1>8 DEF ThreadInv, Stopping, Wait, connectVars, channelVars, stopVars
<1>9. CASE Loop
  BY <1>9 DEF ThreadInv, Stopping, Loop, connectVars, channelVars, stopVars
<1>10. CASE RunOnce
  BY <1>10 DEF ThreadInv, Stopping, RunOnce, connectVars, channelVars, stopVars
<1>11. CASE LateStore
  BY <1>11
     DEF ThreadInv, Stopping, LateStore, connectVars, channelVars, stopVars
<1>12. CASE RunHandler
  BY <1>12
     DEF ThreadInv, Stopping, RunHandler, connectVars, channelVars, stopVars
<1>13. CASE RunReturns
  BY <1>13
     DEF ThreadInv, Stopping, RunReturns, connectVars, channelVars, stopVars
<1>14. CASE Notify
  <2>1. stopped' = 1 /\ loop' = "ended" /\ app' = app /\ app # "gone"
    BY <1>14, NotPostedYet, TypeParts DEF Notify
  <2>2. need_stop' = need_stop
    BY <1>14 DEF Notify
  <2> QED
    <3>1. need_stop' <=> app' \in Stopping
      BY <2>1, <2>2, Zenon DEF ThreadInv
    <3>2. /\ loop # "no thread"
          /\ loop # "no thread" => app \notin {"new", "RunOnce", "crashed"}
      BY <1>14, Zenon DEF Notify, ThreadInv
    <3>3. app' = "gone" => stopped' = 0
      BY <2>1
    <3> QED
      BY <2>1, <3>1, <3>2, <3>3, Zenon DEF ThreadInv
<1>15. CASE AttemptEnds
  BY <1>15
     DEF ThreadInv, Stopping, AttemptEnds, connectVars, channelVars, stopVars
<1>16. CASE ReadFails
  BY <1>16
     DEF ThreadInv, Stopping, ReadFails, connectVars, channelVars, stopVars
<1>17. CASE Reconnected
  BY <1>17
     DEF ThreadInv, Stopping, Reconnected, connectVars, channelVars, stopVars
<1>18. CASE UNCHANGED vars
  BY <1>18 DEF ThreadInv, Stopping, vars, connectVars, channelVars, stopVars
<1> QED
  BY <1>1, <1>2, <1>3, <1>4, <1>5, <1>6, <1>7, <1>8, <1>9,
     <1>10, <1>11, <1>12, <1>13, <1>14, <1>15, <1>16, <1>17, <1>18
     DEF Next, Owner, LoopThread

(* What posting to and taking from the queue gives. *)
LEMMA QueueFacts ==
  /\ Append(<<>>, "Terminate") = <<"Terminate">>
  /\ Append(<<"Terminate">>, "CloseAll") = <<"Terminate", "CloseAll">>
  /\ Append(<<>>, "CloseAll") = <<"CloseAll">>
  /\ Head(<<"Terminate">>) = "Terminate" /\ Tail(<<"Terminate">>) = <<>>
  /\ Head(<<"CloseAll">>) = "CloseAll" /\ Tail(<<"CloseAll">>) = <<>>
  /\ Head(<<"Terminate", "CloseAll">>) = "Terminate"
  /\ Tail(<<"Terminate", "CloseAll">>) = <<"CloseAll">>
  /\ <<"CloseAll">> # <<>> /\ <<"Terminate">> # <<>>
<1>1. /\ Append(<<>>, "Terminate") = <<"Terminate">>
      /\ Append(<<>>, "CloseAll") = <<"CloseAll">>
  OBVIOUS
<1>2. Append(<<"Terminate">>, "CloseAll") = <<"Terminate", "CloseAll">>
  <2>1. /\ <<"Terminate">> \in Seq({"Terminate", "CloseAll"})
        /\ Len(<<"Terminate">>) = 1
        /\ "CloseAll" \in {"Terminate", "CloseAll"}
    OBVIOUS
  <2>2. /\ Append(<<"Terminate">>, "CloseAll") \in Seq({"Terminate", "CloseAll"})
        /\ Len(Append(<<"Terminate">>, "CloseAll")) = 2
    BY <2>1, AppendProperties
  <2>3. <<"Terminate", "CloseAll">> \in Seq({"Terminate", "CloseAll"})
    OBVIOUS
  <2>4. Len(<<"Terminate", "CloseAll">>) = 2
    OBVIOUS
  <2>5. \A i \in 1..2 :
          Append(<<"Terminate">>, "CloseAll")[i] = <<"Terminate", "CloseAll">>[i]
    OBVIOUS
  <2> QED
    BY <2>2, <2>3, <2>4, <2>5, SeqEqual
<1>3. /\ Head(<<"Terminate">>) = "Terminate" /\ Tail(<<"Terminate">>) = <<>>
      /\ Head(<<"CloseAll">>) = "CloseAll" /\ Tail(<<"CloseAll">>) = <<>>
  OBVIOUS
<1>4. /\ Head(<<"Terminate", "CloseAll">>) = "Terminate"
      /\ Tail(<<"Terminate", "CloseAll">>) = <<"CloseAll">>
  OBVIOUS
<1>5. <<"CloseAll">> # <<>> /\ <<"Terminate">> # <<>>
  OBVIOUS
<1> QED
  BY <1>1, <1>2, <1>3, <1>4, <1>5

(* Each action keeps what is left to do for the loop. *)
LEMMA WorkKept == Inv /\ [Next]_vars => WorkInv'
<1> SUFFICES ASSUME Inv, [Next]_vars PROVE WorkInv'
  OBVIOUS
<1> USE DEF Inv, TypeOK
<1>1. CASE Connect
  BY <1>1
     DEF WorkInv, ThreadInv, Untouched, Drained, PostedAt, Stopping, Connect,
         StartAttempt, connectVars, channelVars, stopVars
<1>2. CASE Connected
  BY <1>2
     DEF WorkInv, ThreadInv, Untouched, Drained, PostedAt, Stopping,
         Connected, connectVars, channelVars, stopVars
<1>3. CASE ExpireToConnect
  BY <1>3
     DEF WorkInv, ThreadInv, Untouched, Drained, PostedAt, Stopping,
         ExpireToConnect, connectVars, channelVars, stopVars
<1>4. CASE RunOnceReturns
  BY <1>4
     DEF WorkInv, ThreadInv, Untouched, Drained, PostedAt, Stopping,
         RunOnceReturns, StartAttempt, connectVars, channelVars, stopVars
<1>5. CASE Delete
  BY <1>5
     DEF WorkInv, ThreadInv, Untouched, Drained, PostedAt, Stopping, Delete,
         connectVars, channelVars, stopVars
<1>6. CASE TerminateChannel
  <2>1. /\ app = "delete" /\ app' = "set need_stop_"
        /\ queue' = Append(queue, "Terminate")
    BY <1>6 DEF TerminateChannel
  <2>2. UNCHANGED <<loop, terminated, channel>>
    BY <1>6 DEF TerminateChannel, channelVars
  <2>3. queue = <<>> /\ ~terminated /\ loop \notin {"Notify", "ended"}
    BY <2>1
       DEF WorkInv, ThreadInv, Untouched, Drained, PostedAt, Stopping,
           LoopSteps
  <2>4. queue' = <<"Terminate">>
    BY <2>1, <2>3, QueueFacts
  <2> QED
    BY <2>1, <2>2, <2>3, <2>4, Zenon DEF WorkInv, Untouched, PostedAt
<1>7. CASE Stop
  <2>1. UNCHANGED <<loop, terminated, channel>>
    BY <1>7 DEF Stop, channelVars
  <2>2. CASE app = "post CloseAll"
    <3>1. app' = "reset keep_working_" /\ queue' = Append(queue, "CloseAll")
      BY <1>7, <2>2 DEF Stop
    <3>2. \/ queue = <<"Terminate">> /\ queue' = <<"Terminate", "CloseAll">>
          \/ queue = <<>> /\ queue' = <<"CloseAll">> /\ terminated /\ loop = "run"
      BY <2>2, <3>1, QueueFacts, Zenon
         DEF WorkInv, ThreadInv, Untouched, Drained, PostedAt, Stopping,
             LoopSteps
    <3>3. CASE queue = <<"Terminate">>
      <4>1. queue' = PostedAt(app') /\ queue = PostedAt(app)
        BY <2>2, <3>1, <3>2, <3>3, Zenon DEF PostedAt
      <4>2. ~terminated /\ (loop \in {"Notify", "ended"} => Untouched)
        BY <2>2, <3>3, QueueFacts, Zenon
           DEF WorkInv, Untouched, Drained, LoopSteps
      <4> QED
        BY <2>1, <2>2, <3>1, <4>1, <4>2, Zenon
           DEF WorkInv, Untouched, Drained, Stopping
    <3>4. CASE queue' = <<"CloseAll">> /\ terminated /\ loop = "run"
      BY <2>1, <3>1, <3>4, Zenon DEF WorkInv
    <3> QED
      BY <3>2, <3>3, <3>4
  <2>3. CASE app # "post CloseAll"
    <3>1. /\ queue' = queue
          /\ \/ app = "set need_stop_" /\ app' = "post CloseAll"
             \/ app = "reset keep_working_" /\ app' = "Wait"
      BY <1>7, <2>3 DEF Stop
    <3> QED
      BY <2>1, <3>1, Zenon
         DEF WorkInv, ThreadInv, Untouched, Drained, PostedAt, Stopping
  <2> QED
    BY <2>2, <2>3
<1>8. CASE Wait
  BY <1>8
     DEF WorkInv, ThreadInv, Untouched, Drained, PostedAt, Stopping, Wait,
         connectVars, channelVars, stopVars
<1>9. CASE Loop
  BY <1>9
     DEF WorkInv, ThreadInv, Untouched, Drained, PostedAt, Stopping, Loop,
         connectVars, channelVars, stopVars
<1>10. CASE RunOnce
  BY <1>10
     DEF WorkInv, ThreadInv, Untouched, Drained, PostedAt, Stopping, RunOnce,
         connectVars, channelVars, stopVars
<1>11. CASE LateStore
  BY <1>11
     DEF WorkInv, ThreadInv, Untouched, Drained, PostedAt, Stopping,
         LateStore, connectVars, channelVars, stopVars
<1>12. CASE RunHandler
  <2>1. /\ loop = "run" /\ UNCHANGED <<app, loop>>
        /\ queue # <<>> /\ queue' = Tail(queue)
        /\ terminated' = (terminated \/ Head(queue) = "Terminate")
    BY <1>12 DEF RunHandler
  <2>2. CASE terminated
    <3>1. queue = <<"CloseAll">> /\ app \notin {"open", "delete"}
      BY <2>1, <2>2, Zenon DEF WorkInv
    <3>2. queue' = <<>> /\ terminated'
      BY <2>1, <2>2, <3>1, QueueFacts
    <3> QED
      BY <2>1, <3>1, <3>2, Zenon DEF WorkInv
  <2>3. CASE ~terminated
    <3>1. queue = PostedAt(app)
      BY <2>1, <2>3, Zenon DEF WorkInv
    <3>2. app \notin {"open", "delete"}
      BY <2>1, <3>1, Zenon DEF PostedAt
    <3>3. \/ queue = <<"Terminate">>
          \/ /\ queue = <<"Terminate", "CloseAll">>
             /\ app \notin {"set need_stop_", "post CloseAll"}
      BY <2>1, <3>1, Zenon DEF PostedAt
    <3>4. /\ terminated'
          /\ \/ queue' = <<>>
             \/ /\ queue' = <<"CloseAll">>
                /\ app \notin {"set need_stop_", "post CloseAll"}
      BY <2>1, <3>3, QueueFacts
    <3> QED
      BY <2>1, <3>2, <3>4, Zenon DEF WorkInv
  <2> QED
    BY <2>2, <2>3
<1>13. CASE RunReturns
  BY <1>13
     DEF WorkInv, ThreadInv, Untouched, Drained, PostedAt, Stopping,
         RunReturns, connectVars, channelVars, stopVars
<1>14. CASE Notify
  BY <1>14
     DEF WorkInv, ThreadInv, Untouched, Drained, PostedAt, Stopping, Notify,
         connectVars, channelVars, stopVars
<1>15. CASE AttemptEnds
  BY <1>15
     DEF WorkInv, ThreadInv, Untouched, Drained, PostedAt, Stopping,
         AttemptEnds, connectVars, channelVars, stopVars
<1>16. CASE ReadFails
  BY <1>16
     DEF WorkInv, ThreadInv, Untouched, Drained, PostedAt, Stopping,
         ReadFails, connectVars, channelVars, stopVars
<1>17. CASE Reconnected
  BY <1>17
     DEF WorkInv, ThreadInv, Untouched, Drained, PostedAt, Stopping,
         Reconnected, connectVars, channelVars, stopVars
<1>18. CASE UNCHANGED vars
  BY <1>18
     DEF WorkInv, ThreadInv, Untouched, Drained, PostedAt, Stopping, vars,
         connectVars, channelVars, stopVars
<1> QED
  BY <1>1, <1>2, <1>3, <1>4, <1>5, <1>6, <1>7, <1>8, <1>9,
     <1>10, <1>11, <1>12, <1>13, <1>14, <1>15, <1>16, <1>17, <1>18
     DEF Next, Owner, LoopThread

(* The inductive invariant holds of every behaviour of the two threads. *)
THEOREM Invariance == Spec => []Inv
<1>1. Init => Inv
  <2> SUFFICES ASSUME Init PROVE Inv
    OBVIOUS
  <2>1. FlagTypes /\ OtherTypes
    <3>1. FlagTypes
      BY Zenon DEF Init, FlagTypes
    <3>2. /\ app = "new" /\ loop = "no thread" /\ attempt = "none"
          /\ timers = 0 /\ channel = "none" /\ queue = <<>> /\ stopped = 0
      BY Zenon DEF Init
    <3>3. queue \in Seq({"Terminate", "CloseAll"})
      BY <3>2, EmptySeq
    <3>4. timers \in 0..2 /\ stopped \in 0..1
      <4>1. timers = 0 /\ stopped = 0
        BY <3>2, Zenon
      <4> QED
        BY <4>1
    <3>5. OtherTypes
      BY <3>2, <3>3, <3>4, Zenon DEF OtherTypes, AppSteps, LoopSteps
    <3> QED
      BY <3>1, <3>5
  <2>2. ThreadInv
    <3>1. stopped = 0
      BY Zenon DEF Init
    <3>2. stopped # 1
      BY <3>1
    <3> QED
      BY <3>1, <3>2, Zenon DEF Init, ThreadInv, Stopping
  <2>3. WorkInv
    BY Zenon DEF Init, WorkInv, PostedAt
  <2> QED
    BY <2>1, <2>2, <2>3, TypeParts DEF Inv
<1>2. Inv /\ [Next]_vars => Inv'
  <2>1. FlagTypes /\ OtherTypes <=> TypeOK
    BY Zenon, TypeParts
  <2>2. TypeOK' <=> FlagTypes' /\ OtherTypes'
    BY Zenon DEF TypeOK, FlagTypes, OtherTypes
  <2> QED
    BY FlagTypesKept, OtherTypesKept, ThreadsKept, WorkKept, <2>1, <2>2, Zenon
       DEF Inv
<1> QED
  BY <1>1, <1>2, PTL DEF Spec

(* Every variable keeps its type; in particular stopped_ is posted once. *)
THEOREM TypeCorrect == Spec => []TypeOK
<1>1. Inv => TypeOK
  BY DEF Inv
<1> QED
  BY <1>1, Invariance, PTL

(***************************************************************************)
(* When ~RPCClientImpl has returned, the loop thread is past its last      *)
(* access to the client.                                                   *)
(***************************************************************************)
THEOREM DestructionIsLast == Spec => []NoHandlerAfterDestruction
<1>1. Inv => NoHandlerAfterDestruction
  BY DEF Inv, ThreadInv, NoHandlerAfterDestruction
<1> QED
  BY <1>1, Invariance, PTL

(* The loop does not end while the client is open. *)
THEOREM LoopStays == Spec => []LoopRunsWhileOpen
<1>1. Inv => LoopRunsWhileOpen
  BY DEF Inv, WorkInv, Stopping, LoopRunsWhileOpen
<1> QED
  BY <1>1, Invariance, PTL

(***************************************************************************)
(* A client that is gone was shut down in order, or deleted before its     *)
(* loop ran anything.                                                      *)
(***************************************************************************)
THEOREM OrderlyShutDown == Spec => []ShutDownOrNeverRan
<1>1. Inv => ShutDownOrNeverRan
  BY DEF Inv, ThreadInv, WorkInv, Untouched, Drained, PostedAt,
         ShutDownOrNeverRan
<1> QED
  BY <1>1, Invariance, PTL
=============================================================================

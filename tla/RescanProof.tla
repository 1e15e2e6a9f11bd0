---------------------------- MODULE RescanProof ----------------------------
(***************************************************************************)
(* Theorems about the rescan engine for any number of configurations, any  *)
(* number of signals and any queue length.                                 *)
(***************************************************************************)
EXTENDS Rescan, QueueLemmas

\* The queue after a handler ran and posted others.
LEMMA Dispatched ==
    ASSUME TypeOK, NEW kind, NEW posted \in Seq(Handler), Dispatch(kind, posted)
    PROVE  /\ Head(ready) \in Handler
           /\ Head(ready).kind = kind
           /\ ready' \in Seq(Handler)
           /\ Range(ready) = {Head(ready)} \cup Range(Tail(ready))
           /\ Range(ready') = Range(Tail(ready)) \cup Range(posted)
<1>1. ready \in Seq(Handler) /\ ready # <<>> /\ Head(ready).kind = kind
      /\ ready' = Tail(ready) \o posted
  BY DEF TypeOK, Dispatch
<1>2. Head(ready) \in Handler
  BY <1>1, HeadAndTail
<1>3. \A s \in Seq(Handler) : s # <<>> =>
         /\ Tail(s) \o posted \in Seq(Handler)
         /\ Range(Tail(s) \o posted) = Range(Tail(s)) \cup Range(posted)
         /\ Range(s) = {Head(s)} \cup Range(Tail(s))
  BY RangeDispatch
<1>4. QED
  BY <1>1, <1>2, <1>3

\* The queue after a handler ran and posted nothing.
LEMMA DispatchedOnly ==
    ASSUME TypeOK, NEW kind, Dispatch(kind, <<>>)
    PROVE  /\ Head(ready) \in Handler
           /\ Head(ready).kind = kind
           /\ ready' \in Seq(Handler)
           /\ Range(ready) = {Head(ready)} \cup Range(ready')
<1>1. <<>> \in Seq(Handler) /\ Range(<<>>) = {}
  BY RangeShort
<1>2. QED
  BY <1>1, Dispatched

LEMMA TakenOnly ==
    ASSUME TypeOK, NEW kind, Dispatch(kind, <<>>)
    PROVE  /\ ready \in Seq(Handler) /\ ready # <<>>
           /\ Head(ready).kind = kind
           /\ ready' = Tail(ready)
<1>1. /\ ready \in Seq(Handler) /\ ready # <<>> /\ Head(ready).kind = kind
      /\ ready' = Tail(ready) \o <<>>
  BY DEF Dispatch, TypeOK
<1>2. Tail(ready) \in Seq(Handler)
  BY <1>1, HeadAndTail
<1>3. QED
  BY <1>1, <1>2

\* The queue without its head, and with one handler more at its end.
LEMMA Requeued ==
    ASSUME TypeOK, ready # <<>>
    PROVE  /\ Head(ready) \in Handler
           /\ Tail(ready) \in Seq(Handler)
           /\ Range(ready) = {Head(ready)} \cup Range(Tail(ready))
           /\ \A h \in Handler :
                /\ Append(Tail(ready), h) \in Seq(Handler)
                /\ Range(Append(Tail(ready), h)) = Range(Tail(ready)) \cup {h}
<1>1. ready \in Seq(Handler)
  BY DEF TypeOK
<1>2. Head(ready) \in Handler /\ Tail(ready) \in Seq(Handler)
      /\ Range(ready) = {Head(ready)} \cup Range(Tail(ready))
  BY <1>1, HeadAndTail
<1>3. \A s \in Seq(Handler) : \A h \in Handler :
         /\ Append(s, h) \in Seq(Handler)
         /\ Range(Append(s, h)) = Range(s) \cup {h}
  BY RangeAppend
<1>4. QED
  BY <1>2, <1>3

LEMMA Joined ==
    ASSUME TypeOK, NEW h \in Handler
    PROVE  /\ Append(ready, h) \in Seq(Handler)
           /\ Range(Append(ready, h)) = Range(ready) \cup {h}
BY RangeAppend DEF TypeOK

-----------------------------------------------------------------------------
(* Type correctness *)

LEMMA CallbackType ==
    ASSUME TypeOK, propertiesChangedCallback
    PROVE  instance' \in Nat /\ timer' \in Wait /\ dirty' \in BOOLEAN
<1>1. CASE shutdownStarted
  BY <1>1 DEF TypeOK, propertiesChangedCallback
<1>2. CASE ~shutdownStarted
  <2>1. instance + 1 \in Nat
    BY DEF TypeOK
  <2>2. [kind |-> "debounce", count |-> instance + 1] \in Wait
    BY <2>1 DEF Wait
  <2>3. QED
    BY <1>2, <2>1, <2>2 DEF propertiesChangedCallback
<1>3. QED
  BY <1>1, <1>2

LEMMA RunPassType ==
    ASSUME TypeOK, NEW s \in Scan
    PROVE  RunPass(s) \in Scan
BY DEF RunPass, Scan, Candidates, TypeOK

LEMMA CompletedType ==
    ASSUME TypeOK, ready # <<>>, NEW s \in Scan, Completed(s, Tail(ready))
    PROVE  /\ ready' \in Seq(Handler)
           /\ inProgress' \in BOOLEAN
           /\ scan' \in Scan
           /\ systemConfiguration' \in SUBSET Device
           /\ published' \in SUBSET Device
<1> DEFINE kept == systemConfiguration \ Pruned(s)
           h == [kind |-> "publish", count |-> s.count, new |-> DeriveNew(s, kept)]
<1>1. h \in Handler
  BY DEF Handler, DeriveNew, Scan, TypeOK
<1>2. /\ ready' = Append(Tail(ready), h)
      /\ inProgress' = FALSE
      /\ scan' = NoScan
      /\ systemConfiguration' = kept
      /\ published' = published \ Pruned(s)
  BY DEF Completed
<1>3. ready' \in Seq(Handler)
  BY <1>1, <1>2, Requeued
<1>4. NoScan \in Scan
  BY DEF NoScan, Scan
<1>5. QED
  BY <1>2, <1>3, <1>4 DEF TypeOK

LEMMA StartPassType ==
    ASSUME TypeOK, ready # <<>>, NEW s \in Scan, StartPass(s, Tail(ready))
    PROVE  /\ ready' \in Seq(Handler)
           /\ inProgress' \in BOOLEAN
           /\ scan' \in Scan
           /\ systemConfiguration' \in SUBSET Device
           /\ published' \in SUBSET Device
<1>1. CASE s.unread = {}
  BY <1>1, CompletedType DEF StartPass
<1>2. CASE s.unread # {}
  BY <1>2, Requeued DEF StartPass, TypeOK
<1>3. QED
  BY <1>1, <1>2

LEMMA TypeStep == TypeOK /\ [Next]_vars => TypeOK'
<1> SUFFICES ASSUME TypeOK, [Next]_vars PROVE TypeOK'
  OBVIOUS
<1>1. CASE HandleSignal
  BY <1>1, DispatchedOnly, CallbackType DEF HandleSignal, outputs, power, TypeOK
<1>2. CASE HandleShutdown
  BY <1>2, DispatchedOnly DEF HandleShutdown, outputs, power, TypeOK
<1>3. ASSUME NEW on \in BOOLEAN, HandlePower(on)
      PROVE  TypeOK'
  BY <1>3, DispatchedOnly DEF HandlePower, outputs, TypeOK
<1>4. CASE DebouncedStartsScan
  <2> DEFINE s == [NoScan EXCEPT !.count = Head(ready).count,
                                 !.old = systemConfiguration,
                                 !.missing = systemConfiguration]
  <2>1. ready # <<>> /\ Head(ready).kind = "debounced"
    BY <1>4 DEF DebouncedStartsScan
  <2>2. Head(ready).count \in Nat
    BY <2>1, Requeued DEF Handler, Plain, Signals
  <2>3. s \in Scan
    BY <2>2 DEF NoScan, Scan, TypeOK
  <2>4. StartPass(RunPass(s), Tail(ready))
    BY <1>4 DEF DebouncedStartsScan
  <2>5. QED
    BY <1>4, <2>1, <2>3, <2>4, RunPassType, StartPassType
       DEF DebouncedStartsScan, power, TypeOK
<1>5. CASE DebouncedWhileScanning
  BY <1>5, DispatchedOnly, CallbackType
     DEF DebouncedWhileScanning, outputs, power, TypeOK
<1>6. CASE DebouncedInShutdown
  BY <1>6, DispatchedOnly DEF DebouncedInShutdown, outputs, power, TypeOK
<1>7. CASE ProbesPass
  <2>1. <<[kind |-> "run"]>> \in Seq(Handler)
    BY DEF Handler, Plain
  <2>2. ready' \in Seq(Handler)
    BY <1>7, <2>1, Dispatched DEF ProbesPass
  <2>3. scan' \in Scan /\ systemConfiguration' \in SUBSET Device
    BY <1>7 DEF ProbesPass, Scan, Candidates, TypeOK
  <2>4. QED
    BY <1>7, <2>2, <2>3 DEF ProbesPass, outputs, power, TypeOK
<1>8. CASE NoProbePasses
  BY <1>8, CompletedType DEF NoProbePasses, power, TypeOK
<1>9. CASE RunNextPass
  <2>1. RunPass(scan) \in Scan
    BY RunPassType DEF TypeOK
  <2>2. QED
    BY <1>9, <2>1, StartPassType DEF RunNextPass, power, TypeOK
<1>10. CASE Publish
  <2> DEFINE posted == <<[kind |-> "write"], [Head(ready) EXCEPT !.kind = "post"]>>
  <2>1. ready # <<>> /\ Dispatch("publish", posted)
    BY <1>10 DEF Publish
  <2>2. Head(ready) \in [kind : {"publish", "post"}, count : Nat, new : SUBSET Device]
    BY <2>1, Requeued DEF Dispatch, Handler, Plain, Signals
  <2>3. posted \in Seq(Handler)
    <3>1. [kind |-> "write"] \in Handler
      BY DEF Handler, Plain
    <3>2. [Head(ready) EXCEPT !.kind = "post"] \in Handler
      BY <2>2 DEF Handler
    <3>3. QED
      BY <3>1, <3>2
  <2>4. ready' \in Seq(Handler)
    BY <2>1, <2>3, Dispatched
  <2>5. QED
    BY <1>10, <2>4 DEF Publish, outputs, power, TypeOK
<1>11. CASE WriteJsonFiles
  BY <1>11, DispatchedOnly DEF WriteJsonFiles, Persist, power, TypeOK
<1>12. CASE PostToDbus
  <2>1. ready' \in Seq(Handler) /\ Head(ready) \in Handler /\ Head(ready).kind = "post"
    BY <1>12, DispatchedOnly DEF PostToDbus
  <2>2. Head(ready).new \in SUBSET Device
    BY <2>1 DEF Handler, Plain, Signals
  <2>3. timer' \in Wait
    BY <1>12 DEF PostToDbus, startRemovedTimer, Wait, TypeOK
  <2>4. QED
    BY <1>12, <2>1, <2>2, <2>3 DEF PostToDbus, power, TypeOK
<1>13. CASE ReportRemoved
  BY <1>13, DispatchedOnly DEF ReportRemoved, outputs, TypeOK
<1>14. ASSUME NEW kind \in Signals, Arrives(kind), present' \in SUBSET Device
       PROVE  TypeOK'
  <2>1. [kind |-> kind] \in Handler
    BY DEF Handler, Plain
  <2>2. QED
    BY <1>14, <2>1, Joined DEF Arrives, outputs, power, TypeOK
<1>15. CASE Environment
  <2>1. /\ "signal" \in Signals /\ "shutdown" \in Signals
        /\ \A on \in BOOLEAN : (IF on THEN "powerOn" ELSE "powerOff") \in Signals
    BY DEF Signals
  <2>2. ASSUME NEW d \in Device, Appears(d) \/ Disappears(d) PROVE TypeOK'
    BY <2>1, <2>2, <1>14 DEF Appears, Disappears, TypeOK
  <2>3. CASE Poke
    BY <2>1, <2>3, <1>14 DEF Poke, TypeOK
  <2>4. CASE JobNew
    BY <2>1, <2>4, <1>14 DEF JobNew, TypeOK
  <2>5. ASSUME NEW on \in BOOLEAN, HostState(on) PROVE TypeOK'
    BY <2>1, <2>5, <1>14 DEF HostState, TypeOK
  <2>6. QED
    BY <1>15, <2>2, <2>3, <2>4, <2>5 DEF Environment
<1>16. CASE Expires
  <2> DEFINE h == IF timer.kind = "removed"
                  THEN [kind |-> "removed"]
                  ELSE [kind |-> "debounced", count |-> timer.count]
  <2>1. h \in Handler
    BY <1>16 DEF Expires, Wait, NoWait, Handler, Plain, TypeOK
  <2>2. ready' = Append(ready, h) /\ timer' = NoWait
    BY <1>16 DEF Expires
  <2>3. ready' \in Seq(Handler) /\ timer' \in Wait
    BY <2>1, <2>2, Joined DEF NoWait, Wait
  <2>4. QED
    BY <1>16, <2>3 DEF Expires, outputs, power, TypeOK
<1>17. ASSUME NEW d \in Device, Answered(d) PROVE TypeOK'
  <2>1. [kind |-> "replies"] \in Handler
    BY DEF Handler, Plain
  <2>2. ready' \in Seq(Handler)
    BY <1>17, <2>1, Joined DEF Answered, TypeOK
  <2>3. scan' \in Scan
    BY <1>17 DEF Answered, Scan, TypeOK
  <2>4. QED
    BY <1>17, <2>2, <2>3 DEF Answered, outputs, power, TypeOK
<1>18. CASE UNCHANGED vars
  BY <1>18 DEF vars, outputs, power, TypeOK
<1>19. QED
  BY <1>1, <1>2, <1>3, <1>4, <1>5, <1>6, <1>7, <1>8, <1>9, <1>10, <1>11,
     <1>12, <1>13, <1>15, <1>16, <1>17, <1>18 DEF Next, Run, Answers

LEMMA TypeInit == Init => TypeOK
<1> SUFFICES ASSUME Init PROVE TypeOK
  OBVIOUS
<1>1. ready \in Seq(Handler)
  <2>1. [kind |-> "signal"] \in Handler
    BY DEF Handler, Plain, Signals
  <2>2. QED
    BY <2>1 DEF Init
<1>2. QED
  BY <1>1 DEF Init, TypeOK, NoWait, Wait, NoScan, Scan

\* Every variable of the engine keeps its type.
THEOREM TypeCorrect == Spec => []TypeOK
BY TypeInit, TypeStep, PTL DEF Spec

-----------------------------------------------------------------------------
(* No signal is lost *)

\* No count in flight is newer than the last signal taken.
CountsBounded ==
    /\ scan.count <= instance
    /\ \A h \in Range(ready) : h.kind \in Counted => h.count <= instance

\* The inductive invariant.  NoSignalLost alone is not inductive: PostToDbus may
\* take the timer from a pending debounce wait unless NewestWaits rules out that
\* the publication's count is the newest, which needs CountsBounded in turn when
\* a signal arms the timer afresh.
SignalInv == TypeOK /\ CountsBounded /\ NewestWaits /\ NoSignalLost

\* What a handler that only takes itself off the queue leaves true.
LEMMA QueueShrinks ==
    ASSUME SignalInv, Range(ready') \subseteq Range(ready),
           UNCHANGED <<scan, timer, instance>>
    PROVE  CountsBounded' /\ NewestWaits'
BY DEF SignalInv, CountsBounded, NewestWaits

\* Taking a signal, or debouncing again, arms the timer with a fresh count.
LEMMA CallbackKeeps ==
    ASSUME SignalInv, propertiesChangedCallback, ~shutdownStarted,
           Range(ready') \subseteq Range(ready), UNCHANGED scan
    PROVE  CountsBounded' /\ NewestWaits' /\ timer'.kind = "debounce"
<1>1. /\ instance' = instance + 1
      /\ timer' = [kind |-> "debounce", count |-> instance + 1]
  BY DEF propertiesChangedCallback
<1>2. instance \in Nat /\ scan.count \in Nat
  BY DEF SignalInv, TypeOK, Scan
<1>3. \A h \in Range(ready) : h \in Handler
  BY RangeOfSeq DEF SignalInv, TypeOK
<1>4. \A h \in Range(ready) : h.kind \in Counted => h.count \in Nat
  BY <1>3 DEF Handler, Counted, Plain, Signals
<1>5. QED
  BY <1>1, <1>2, <1>4 DEF SignalInv, CountsBounded, NewestWaits

\* A finished scan hands its count to the publication.
LEMMA CompletedKeeps ==
    ASSUME SignalInv, ready # <<>>, NEW s \in Scan, Completed(s, Tail(ready)),
           s.count <= instance,
           timer.kind = "debounce" => s.count < instance,
           UNCHANGED <<timer, instance>>
    PROVE  /\ CountsBounded' /\ NewestWaits'
           /\ Range(Tail(ready)) \subseteq Range(ready')
<1> DEFINE kept == systemConfiguration \ Pruned(s)
           h == [kind |-> "publish", count |-> s.count, new |-> DeriveNew(s, kept)]
<1>1. h \in Handler
  BY DEF Handler, DeriveNew, Scan, SignalInv, TypeOK
<1>2. ready' = Append(Tail(ready), h) /\ scan' = NoScan
  BY DEF Completed
<1>3. /\ Range(ready') = Range(Tail(ready)) \cup {h}
      /\ Range(Tail(ready)) \subseteq Range(ready)
  BY <1>1, <1>2, Requeued DEF SignalInv
<1>4. instance \in Nat /\ scan'.count = 0 /\ s.count \in Nat
  BY <1>2 DEF NoScan, Scan, SignalInv, TypeOK
<1>5. timer.kind = "debounce" => 0 < instance
  BY <1>4
<1>6. QED
  BY <1>3, <1>4, <1>5 DEF SignalInv, CountsBounded, NewestWaits

LEMMA StartPassKeeps ==
    ASSUME SignalInv, ready # <<>>, NEW s \in Scan, StartPass(s, Tail(ready)),
           s.count <= instance,
           timer.kind = "debounce" => s.count < instance,
           UNCHANGED <<timer, instance>>
    PROVE  /\ CountsBounded' /\ NewestWaits'
           /\ Range(Tail(ready)) \subseteq Range(ready')
<1>1. CASE s.unread = {}
  BY <1>1, CompletedKeeps DEF StartPass
<1>2. CASE s.unread # {}
  <2>1. Range(ready') = Range(Tail(ready)) /\ Range(Tail(ready)) \subseteq Range(ready)
    BY <1>2, Requeued DEF StartPass, SignalInv
  <2>2. scan' = s
    BY <1>2 DEF StartPass
  <2>3. QED
    BY <2>1, <2>2 DEF SignalInv, CountsBounded, NewestWaits
<1>3. QED
  BY <1>1, <1>2

LEMMA SignalStep == SignalInv /\ [Next]_vars => SignalInv'
<1> SUFFICES ASSUME SignalInv, [Next]_vars PROVE SignalInv'
  OBVIOUS
<1>0. TypeOK /\ TypeOK'
  BY TypeStep DEF SignalInv
<1>1. CASE HandleSignal
  <2>1. Range(ready') \subseteq Range(ready) /\ UNCHANGED <<scan, shutdownStarted>>
        /\ propertiesChangedCallback /\ Range(ready) = {Head(ready)} \cup Range(ready')
        /\ Head(ready).kind = "signal"
    BY <1>0, <1>1, DispatchedOnly DEF HandleSignal
  <2>2. CASE shutdownStarted
    BY <1>0, <2>1, <2>2, QueueShrinks
       DEF propertiesChangedCallback, SignalInv, NoSignalLost
  <2>3. CASE ~shutdownStarted
    BY <1>0, <2>1, <2>3, CallbackKeeps DEF SignalInv, NoSignalLost
  <2>4. QED
    BY <2>2, <2>3
<1>2. ASSUME NEW kind \in Plain, Dispatch(kind, <<>>),
             UNCHANGED <<timer, instance, scan, dirty>>,
             shutdownStarted => shutdownStarted'
      PROVE  SignalInv'
  <2>1. /\ Range(ready) = {Head(ready)} \cup Range(ready')
        /\ Head(ready).kind # "debounced"
    BY <1>0, <1>2, DispatchedOnly DEF Plain, Signals
  <2>2. CountsBounded' /\ NewestWaits'
    BY <1>2, <2>1, QueueShrinks
  <2>3. NoSignalLost'
    BY <1>2, <2>1 DEF SignalInv, NoSignalLost, Queued
  <2>4. QED
    BY <1>0, <2>2, <2>3 DEF SignalInv
<1>3. CASE HandleShutdown
  BY <1>2, <1>3 DEF HandleShutdown, Plain, Signals
<1>4. ASSUME NEW on \in BOOLEAN, HandlePower(on) PROVE SignalInv'
  BY <1>2, <1>4 DEF HandlePower, Plain, Signals
<1>5. CASE DebouncedStartsScan
  <2> DEFINE s == [NoScan EXCEPT !.count = Head(ready).count,
                                 !.old = systemConfiguration,
                                 !.missing = systemConfiguration]
  <2>1. ready # <<>> /\ Head(ready).kind = "debounced"
    BY <1>5 DEF DebouncedStartsScan
  <2>2. Head(ready).count \in Nat /\ Head(ready) \in Range(ready)
    BY <1>0, <2>1, Requeued DEF Handler, Plain, Signals
  <2>3. s \in Scan /\ RunPass(s).count = Head(ready).count
    BY <1>0, <2>2 DEF NoScan, Scan, RunPass, TypeOK
  <2>4. /\ Head(ready).count <= instance
        /\ timer.kind = "debounce" => Head(ready).count < instance
    BY <2>1, <2>2 DEF SignalInv, CountsBounded, NewestWaits, Counted
  <2>5. StartPass(RunPass(s), Tail(ready)) /\ UNCHANGED <<timer, instance>>
    BY <1>5 DEF DebouncedStartsScan
  <2>6. CountsBounded' /\ NewestWaits'
    BY <1>0, <2>1, <2>3, <2>4, <2>5, RunPassType, StartPassKeeps
  <2>7. NoSignalLost'
    BY <1>5 DEF DebouncedStartsScan, NoSignalLost
  <2>8. QED
    BY <1>0, <2>6, <2>7 DEF SignalInv
<1>6. CASE DebouncedWhileScanning
  <2>1. /\ Range(ready') \subseteq Range(ready)
        /\ propertiesChangedCallback /\ ~shutdownStarted /\ UNCHANGED scan
    BY <1>0, <1>6, DispatchedOnly DEF DebouncedWhileScanning
  <2>2. QED
    BY <1>0, <2>1, CallbackKeeps DEF SignalInv, NoSignalLost
<1>7. CASE DebouncedInShutdown
  <2>1. /\ Range(ready') \subseteq Range(ready)
        /\ shutdownStarted' /\ UNCHANGED <<scan, timer, instance>>
    BY <1>0, <1>7, DispatchedOnly DEF DebouncedInShutdown
  <2>2. QED
    BY <1>0, <2>1, QueueShrinks DEF SignalInv, NoSignalLost
<1>8. CASE ProbesPass
  <2> DEFINE posted == <<[kind |-> "run"]>>
  <2>1. posted \in Seq(Handler) /\ Range(posted) = {[kind |-> "run"]}
    BY RangeShort DEF Handler, Plain
  <2>2. /\ Range(ready) = {Head(ready)} \cup Range(Tail(ready))
        /\ Range(ready') = Range(Tail(ready)) \cup {[kind |-> "run"]}
        /\ Head(ready).kind = "replies"
    BY <1>0, <1>8, <2>1, Dispatched DEF ProbesPass
  <2>3. UNCHANGED <<timer, instance, dirty, shutdownStarted>>
        /\ scan'.count = scan.count
    BY <1>0, <1>8 DEF ProbesPass, Scan, TypeOK
  <2>4. CountsBounded' /\ NewestWaits'
    BY <2>2, <2>3 DEF SignalInv, CountsBounded, NewestWaits, Counted
  <2>5. NoSignalLost'
    BY <2>2, <2>3 DEF SignalInv, NoSignalLost, Queued
  <2>6. QED
    BY <1>0, <2>4, <2>5 DEF SignalInv
<1>9. ASSUME NEW s \in Scan, s.count = scan.count, ready # <<>>,
             Head(ready).kind # "debounced",
             Completed(s, Tail(ready)) \/ StartPass(s, Tail(ready)),
             UNCHANGED <<timer, instance, dirty, shutdownStarted>>
      PROVE  SignalInv'
  <2>1. scan.count <= instance /\ (timer.kind = "debounce" => scan.count < instance)
    BY DEF SignalInv, CountsBounded, NewestWaits
  <2>2. /\ CountsBounded' /\ NewestWaits'
        /\ Range(Tail(ready)) \subseteq Range(ready')
    BY <1>9, <2>1, CompletedKeeps, StartPassKeeps
  <2>3. Range(ready) = {Head(ready)} \cup Range(Tail(ready))
    BY <1>0, <1>9, Requeued
  <2>4. NoSignalLost'
    BY <1>9, <2>2, <2>3 DEF SignalInv, NoSignalLost, Queued
  <2>5. QED
    BY <1>0, <2>2, <2>4 DEF SignalInv
<1>10. CASE NoProbePasses
  BY <1>0, <1>9, <1>10 DEF NoProbePasses, TypeOK
<1>11. CASE RunNextPass
  <2>1. RunPass(scan) \in Scan /\ RunPass(scan).count = scan.count
    BY <1>0, RunPassType DEF RunPass, Scan, TypeOK
  <2>2. QED
    BY <1>9, <1>11, <2>1 DEF RunNextPass
<1>12. CASE Publish
  <2> DEFINE post == [Head(ready) EXCEPT !.kind = "post"]
             posted == <<[kind |-> "write"], post>>
  <2>1. ready # <<>> /\ Dispatch("publish", posted) /\ Head(ready).kind = "publish"
    BY <1>12 DEF Publish, Dispatch
  <2>2. /\ Head(ready) \in [kind : {"publish", "post"}, count : Nat, new : SUBSET Device]
        /\ Head(ready) \in Range(ready)
    BY <1>0, <2>1, Requeued DEF Handler, Plain, Signals
  <2>3. /\ post \in Handler /\ post.count = Head(ready).count
        /\ post.kind # "debounced"
    BY <2>2 DEF Handler
  <2>4. [kind |-> "write"] \in Handler
    BY DEF Handler, Plain
  <2>5. posted \in Seq(Handler) /\ Range(posted) = {[kind |-> "write"], post}
    BY <2>3, <2>4, RangeShort
  <2>6. /\ Range(ready) = {Head(ready)} \cup Range(Tail(ready))
        /\ Range(ready') = Range(Tail(ready)) \cup {[kind |-> "write"], post}
    BY <1>0, <2>1, <2>5, Dispatched
  <2>7. UNCHANGED <<timer, instance, scan, dirty, shutdownStarted>>
    BY <1>12 DEF Publish
  <2>8. CountsBounded' /\ NewestWaits'
    BY <2>1, <2>2, <2>3, <2>6, <2>7 DEF SignalInv, CountsBounded, NewestWaits, Counted
  <2>9. NoSignalLost'
    BY <2>1, <2>6, <2>7 DEF SignalInv, NoSignalLost, Queued
  <2>10. QED
    BY <1>0, <2>8, <2>9 DEF SignalInv
<1>13. CASE WriteJsonFiles
  BY <1>2, <1>13 DEF WriteJsonFiles, Plain
<1>14. CASE PostToDbus
  <2>1. /\ Range(ready) = {Head(ready)} \cup Range(ready')
        /\ Head(ready).kind = "post" /\ Head(ready) \in Range(ready)
    BY <1>0, <1>14, DispatchedOnly DEF PostToDbus
  <2>2. UNCHANGED <<instance, scan, dirty, shutdownStarted>>
    BY <1>14 DEF PostToDbus
  <2>3. CASE timer' = timer
    BY <1>0, <2>1, <2>2, <2>3, QueueShrinks DEF SignalInv, NoSignalLost, Queued
  <2>4. CASE timer' = [kind |-> "removed"] /\ Head(ready).count = instance
    <3>1. timer.kind # "debounce"
      BY <1>0, <2>1, <2>4 DEF SignalInv, NewestWaits, Counted, TypeOK
    <3>2. CountsBounded' /\ NewestWaits'
      BY <2>1, <2>2, <2>4 DEF SignalInv, CountsBounded, NewestWaits
    <3>3. NoSignalLost'
      BY <2>1, <2>2, <3>1 DEF SignalInv, NoSignalLost, Queued
    <3>4. QED
      BY <1>0, <3>2, <3>3 DEF SignalInv
  <2>5. QED
    BY <1>14, <2>3, <2>4 DEF PostToDbus, MayStartRemovedTimer, startRemovedTimer
<1>15. CASE ReportRemoved
  BY <1>2, <1>15 DEF ReportRemoved, Plain
<1>16. ASSUME NEW kind \in Signals, Arrives(kind)
       PROVE  SignalInv'
  <2>1. [kind |-> kind] \in Handler /\ kind \notin Counted
    BY DEF Handler, Plain, Signals, Counted
  <2>2. Range(ready') = Range(ready) \cup {[kind |-> kind]}
    BY <1>0, <1>16, <2>1, Joined DEF Arrives
  <2>3. UNCHANGED <<timer, instance, scan, dirty, shutdownStarted>>
    BY <1>16 DEF Arrives
  <2>4. QED
    BY <1>0, <2>1, <2>2, <2>3
       DEF SignalInv, CountsBounded, NewestWaits, NoSignalLost, Queued
<1>17. CASE Environment
  <2>1. /\ "signal" \in Signals /\ "shutdown" \in Signals
        /\ \A on \in BOOLEAN : (IF on THEN "powerOn" ELSE "powerOff") \in Signals
    BY DEF Signals
  <2>2. QED
    BY <1>16, <1>17, <2>1
       DEF Environment, Appears, Disappears, Poke, JobNew, HostState
<1>18. CASE Expires
  <2>1. /\ timer # NoWait /\ timer' = NoWait
        /\ UNCHANGED <<instance, scan, dirty, shutdownStarted>>
    BY <1>18 DEF Expires
  <2>2. CASE timer.kind = "removed"
    <3>1. [kind |-> "removed"] \in Handler
      BY DEF Handler, Plain
    <3>2. Range(ready') = Range(ready) \cup {[kind |-> "removed"]}
      BY <1>0, <1>18, <2>2, <3>1, Joined DEF Expires
    <3>3. QED
      BY <1>0, <2>1, <2>2, <3>2
         DEF SignalInv, CountsBounded, NewestWaits, NoSignalLost, Queued, NoWait, Counted
  <2>3. CASE timer.kind = "debounce"
    <3> DEFINE h == [kind |-> "debounced", count |-> timer.count]
    <3>1. timer.count = instance /\ h \in Handler
      BY <1>0, <2>3 DEF SignalInv, NewestWaits, Handler, TypeOK
    <3>2. ready' = Append(ready, h)
      BY <1>18, <2>3 DEF Expires
    <3>3. Range(ready') = Range(ready) \cup {h}
      BY <1>0, <3>1, <3>2, Joined
    <3>4. CountsBounded' /\ NewestWaits'
      BY <1>0, <2>1, <3>1, <3>3 DEF SignalInv, CountsBounded, NewestWaits, NoWait, TypeOK
    <3>5. NoSignalLost'
      <4>1. h \in Range(ready') /\ h.kind \in {"debounced"}
        BY <3>3
      <4>2. Queued({"debounced"})'
        BY <4>1 DEF Queued
      <4>3. QED
        BY <4>2 DEF NoSignalLost
    <3>6. QED
      BY <1>0, <3>4, <3>5 DEF SignalInv
  <2>4. QED
    BY <1>0, <2>1, <2>2, <2>3 DEF TypeOK, Wait, NoWait
<1>19. ASSUME NEW d \in Device, Answered(d) PROVE SignalInv'
  <2>1. [kind |-> "replies"] \in Handler
    BY DEF Handler, Plain
  <2>2. Range(ready') \subseteq Range(ready) \cup {[kind |-> "replies"]}
        /\ Range(ready) \subseteq Range(ready')
    BY <1>0, <1>19, <2>1, Joined DEF Answered
  <2>3. UNCHANGED <<timer, instance, dirty, shutdownStarted>> /\ scan'.count = scan.count
    BY <1>0, <1>19 DEF Answered, Scan, TypeOK
  <2>4. QED
    BY <1>0, <2>2, <2>3
       DEF SignalInv, CountsBounded, NewestWaits, NoSignalLost, Queued, Counted
<1>20. CASE UNCHANGED vars
  BY <1>0, <1>20 DEF vars, SignalInv, CountsBounded, NewestWaits, NoSignalLost, Queued
<1>21. QED
  BY <1>1, <1>3, <1>4, <1>5, <1>6, <1>7, <1>8, <1>10, <1>11, <1>12, <1>13, <1>14,
     <1>15, <1>17, <1>18, <1>19, <1>20 DEF Next, Run, Answers

LEMMA SignalInit == Init => SignalInv
<1> SUFFICES ASSUME Init PROVE SignalInv
  OBVIOUS
<1>1. TypeOK
  BY TypeInit
<1>2. Range(ready) = {[kind |-> "signal"]}
  BY RangeShort DEF Init
<1>3. QED
  BY <1>1, <1>2
     DEF Init, SignalInv, CountsBounded, NewestWaits, NoSignalLost, NoWait, NoScan, Counted

\* A signal that was taken is never forgotten: neither by a busy engine, nor by
\* the removal timer that shares the debounce timer.
THEOREM SignalsAreKept == Spec => []NoSignalLost
<1>1. SignalInv => NoSignalLost
  BY DEF SignalInv
<1>2. QED
  BY <1>1, SignalInit, SignalStep, PTL DEF Spec

\* A pending debounce wait is newer than the running scan and every handler.
THEOREM WaitsAreNewest == Spec => []NewestWaits
<1>1. SignalInv => NewestWaits
  BY DEF SignalInv
<1>2. QED
  BY <1>1, SignalInit, SignalStep, PTL DEF Spec

-----------------------------------------------------------------------------
(* The scan in flight *)

\* At most one handler of these kinds stands in the queue.
AtMostOne(q, K) ==
    \A i, j \in 1..Len(q) : q[i].kind \in K /\ q[j].kind \in K => i = j

\* Taking the head: it was the only one, if it is of these kinds.
LEMMA OneAfterTaking ==
    ASSUME NEW q \in Seq(Handler), q # <<>>, NEW K, AtMostOne(q, K)
    PROVE  /\ AtMostOne(Tail(q), K)
           /\ Head(q).kind \in K => \A h \in Range(Tail(q)) : h.kind \notin K
<1>1. Tail(q) \in Seq(Handler)
  BY HeadAndTail
<1>2. /\ Len(q) \in Nat /\ 1 \in 1..Len(q) /\ Head(q) = q[1]
      /\ Len(Tail(q)) = Len(q) - 1
      /\ \A i \in 1..Len(Tail(q)) : i + 1 \in 1..Len(q) /\ Tail(q)[i] = q[i + 1]
  BY TailAt
<1>3. AtMostOne(Tail(q), K)
  BY <1>2 DEF AtMostOne
<1>4. ASSUME Head(q).kind \in K, NEW h \in Range(Tail(q)), h.kind \in K
      PROVE  FALSE
  <2>1. PICK i \in 1..Len(Tail(q)) : Tail(q)[i] = h
    BY <1>1, RangeAt
  <2>2. i + 1 \in 1..Len(q) /\ q[i + 1].kind \in K /\ q[1].kind \in K
    BY <1>2, <1>4, <2>1
  <2>3. i + 1 = 1
    BY <1>2, <2>2 DEF AtMostOne
  <2>4. QED
    BY <1>2, <2>1, <2>3
<1>5. QED
  BY <1>3, <1>4

\* One more at the end: it is the only one, if there was none before.
LEMMA OneAfterJoining ==
    ASSUME NEW q \in Seq(Handler), NEW e \in Handler, NEW K, AtMostOne(q, K),
           e.kind \in K => \A h \in Range(q) : h.kind \notin K
    PROVE  AtMostOne(Append(q, e), K)
<1>1. /\ Len(q) \in Nat /\ Len(Append(q, e)) = Len(q) + 1
      /\ \A i \in 1..Len(q) : Append(q, e)[i] = q[i]
      /\ Append(q, e)[Len(q) + 1] = e
      /\ \A i \in 1..Len(Append(q, e)) : i \in 1..Len(q) \/ i = Len(q) + 1
  BY AppendAt
<1>2. \A i \in 1..Len(q) : q[i] \in Range(q)
  BY RangeAt
<1>3. QED
  BY <1>1, <1>2 DEF AtMostOne

\* The handlers that carry the running scan on.
OfScan == {"replies", "run"}

\* A scan runs exactly while replies are outstanding or one handler will carry
\* it on; it knows nothing missing, and what it began with and what it found
\* are in the configuration.
ScanInv ==
    /\ scan.missing = {}
    /\ scan.old \subseteq systemConfiguration
    /\ scan.passed \subseteq systemConfiguration
    /\ ~inProgress => scan = NoScan /\ ~Queued(OfScan)
    /\ inProgress => scan.unread # {} \/ Queued(OfScan)
    /\ Queued(OfScan) => scan.unread = {}
    /\ AtMostOne(ready, OfScan)

\* No handler of the scan came or went.
LEMMA ScanUntouched ==
    ASSUME ScanInv, UNCHANGED <<inProgress, scan, systemConfiguration>>,
           Queued(OfScan)' <=> Queued(OfScan), AtMostOne(ready', OfScan)
    PROVE  ScanInv'
BY DEF ScanInv

LEMMA ScanNotCarriedOn ==
    ASSUME TypeOK, ScanInv, NEW kind, kind \notin OfScan, Dispatch(kind, <<>>),
           UNCHANGED <<inProgress, scan, systemConfiguration>>
    PROVE  ScanInv'
<1>1. /\ Head(ready).kind = kind
      /\ Range(ready) = {Head(ready)} \cup Range(ready')
  BY DispatchedOnly
<1>2. Queued(OfScan)' <=> Queued(OfScan)
  BY <1>1 DEF Queued
<1>3. AtMostOne(ready', OfScan)
  BY TakenOnly, OneAfterTaking DEF ScanInv
<1>4. QED
  BY <1>2, <1>3, ScanUntouched

LEMMA ScanJoinedByOther ==
    ASSUME TypeOK, ScanInv, NEW h \in Handler, h.kind \notin OfScan,
           ready' = Append(ready, h),
           UNCHANGED <<inProgress, scan, systemConfiguration>>
    PROVE  ScanInv'
<1>1. Queued(OfScan)' <=> Queued(OfScan)
  BY Joined DEF Queued
<1>2. AtMostOne(ready', OfScan)
  BY OneAfterJoining DEF TypeOK, ScanInv
<1>3. QED
  BY <1>1, <1>2, ScanUntouched

\* Once the head is taken nothing else carries the scan on, if the head did or
\* no scan runs.
LEMMA NothingElseCarriesOn ==
    ASSUME TypeOK, ScanInv, ready # <<>>, Head(ready).kind \in OfScan \/ ~inProgress
    PROVE  /\ AtMostOne(Tail(ready), OfScan)
           /\ \A h \in Range(Tail(ready)) : h.kind \notin OfScan
<1>1. ready \in Seq(Handler)
  BY DEF TypeOK
<1>2. Range(Tail(ready)) \subseteq Range(ready)
  BY Requeued
<1>3. QED
  BY <1>1, <1>2, OneAfterTaking DEF ScanInv, Queued

LEMMA CompletedScan ==
    ASSUME TypeOK, ScanInv, ready # <<>>, Head(ready).kind \in OfScan \/ ~inProgress,
           NEW s \in Scan, s.missing = {}, Completed(s, Tail(ready))
    PROVE  /\ ScanInv'
           /\ systemConfiguration' = systemConfiguration
           /\ published' = published
<1> DEFINE h == [kind |-> "publish", count |-> s.count,
                 new |-> DeriveNew(s, systemConfiguration)]
<1>1. Pruned(s) = {}
  BY DEF Pruned
<1>2. /\ systemConfiguration' = systemConfiguration /\ published' = published
      /\ inProgress' = FALSE /\ scan' = NoScan
      /\ ready' = Append(Tail(ready), h)
  BY <1>1 DEF Completed
<1>3. h \in Handler /\ h.kind \notin OfScan
  BY DEF Handler, DeriveNew, Scan, TypeOK, OfScan
<1>4. AtMostOne(ready', OfScan)
  BY <1>2, <1>3, NothingElseCarriesOn, Requeued, OneAfterJoining
<1>5. ~Queued(OfScan)'
  BY <1>2, <1>3, NothingElseCarriesOn, Requeued DEF Queued
<1>6. QED
  BY <1>2, <1>4, <1>5 DEF ScanInv, NoScan

LEMMA StartPassScan ==
    ASSUME TypeOK, ScanInv, ready # <<>>, Head(ready).kind \in OfScan \/ ~inProgress,
           NEW s \in Scan, s.missing = {}, s.old \subseteq systemConfiguration,
           s.passed \subseteq systemConfiguration, StartPass(s, Tail(ready))
    PROVE  /\ ScanInv'
           /\ systemConfiguration' = systemConfiguration
           /\ published' = published
<1>1. CASE s.unread = {}
  BY <1>1, CompletedScan DEF StartPass
<1>2. CASE s.unread # {}
  <2>1. /\ scan' = s /\ inProgress' /\ ready' = Tail(ready)
        /\ UNCHANGED <<systemConfiguration, published>>
    BY <1>2 DEF StartPass
  <2>2. ~Queued(OfScan)' /\ AtMostOne(ready', OfScan)
    BY <2>1, NothingElseCarriesOn DEF Queued
  <2>3. QED
    BY <1>2, <2>1, <2>2 DEF ScanInv
<1>3. QED
  BY <1>1, <1>2

\* The scan a debounced handler begins.
FirstPass ==
    RunPass([NoScan EXCEPT !.count = Head(ready).count,
                           !.old = systemConfiguration,
                           !.missing = systemConfiguration])

LEMMA FirstPassIs ==
    ASSUME TypeOK, DebouncedStartsScan
    PROVE  /\ ready # <<>> /\ Head(ready).kind = "debounced"
           /\ ~inProgress /\ ~shutdownStarted
           /\ FirstPass \in Scan
           /\ FirstPass.missing = {}
           /\ FirstPass.old = systemConfiguration
           /\ FirstPass.passed = {}
           /\ FirstPass.seen = {}
           /\ Device \ systemConfiguration \subseteq FirstPass.unread
           /\ StartPass(FirstPass, Tail(ready))
<1> DEFINE s == [NoScan EXCEPT !.count = Head(ready).count,
                               !.old = systemConfiguration,
                               !.missing = systemConfiguration]
<1>1. /\ ready # <<>> /\ Head(ready).kind = "debounced"
      /\ ~inProgress /\ ~shutdownStarted
      /\ StartPass(FirstPass, Tail(ready))
  BY DEF DebouncedStartsScan, MayBeginScan, FirstPass
<1>2. Head(ready).count \in Nat
  BY <1>1, Requeued DEF Handler, Plain, Signals
<1>3. s \in Scan
  BY <1>2 DEF NoScan, Scan, TypeOK
<1>4. FirstPass = RunPass(s) /\ FirstPass \in Scan
  BY <1>3, RunPassType DEF FirstPass
<1>5. /\ s.missing = systemConfiguration /\ s.old = systemConfiguration
      /\ s.passed = {} /\ s.seen = {}
  BY DEF NoScan
<1>6. /\ FirstPass.missing = {} /\ FirstPass.old = systemConfiguration
      /\ FirstPass.passed = {} /\ FirstPass.seen = {}
      /\ FirstPass.unread = Candidates(s) \ {}
  BY <1>3, <1>4, <1>5 DEF RunPass, Scan
<1>7. Device \ systemConfiguration \subseteq FirstPass.unread
  BY <1>5, <1>6 DEF Candidates
<1>8. QED
  BY <1>1, <1>4, <1>6, <1>7

\* The pass a scan goes on with.
LEMMA NextPassIs ==
    ASSUME TypeOK, ScanInv, RunNextPass
    PROVE  /\ ready # <<>> /\ Head(ready).kind = "run" /\ inProgress
           /\ RunPass(scan) \in Scan
           /\ RunPass(scan).missing = {}
           /\ RunPass(scan).old = scan.old
           /\ RunPass(scan).passed = scan.passed
           /\ RunPass(scan).seen = scan.seen
           /\ Device \ (systemConfiguration \cup scan.seen) \subseteq RunPass(scan).unread
           /\ StartPass(RunPass(scan), Tail(ready))
<1>1. ready # <<>> /\ Head(ready).kind = "run" /\ StartPass(RunPass(scan), Tail(ready))
  BY DEF RunNextPass
<1>2. inProgress
  BY <1>1, Requeued DEF ScanInv, Queued, OfScan
<1>3. scan \in Scan /\ scan.missing = {} /\ scan.passed \subseteq systemConfiguration
  BY DEF TypeOK, ScanInv
<1>4. /\ RunPass(scan).missing = {} /\ RunPass(scan).old = scan.old
      /\ RunPass(scan).passed = scan.passed /\ RunPass(scan).seen = scan.seen
      /\ RunPass(scan).unread = Candidates(scan) \ scan.seen
  BY <1>3 DEF RunPass, Scan
<1>5. Device \ (systemConfiguration \cup scan.seen) \subseteq RunPass(scan).unread
  BY <1>3, <1>4 DEF Candidates
<1>6. QED
  BY <1>1, <1>2, <1>3, <1>4, <1>5, RunPassType

\* The queue once a pass whose probes pass has posted the next one.
LEMMA CarriedOnIs ==
    ASSUME TypeOK, ScanInv, Dispatch("replies", <<[kind |-> "run"]>>)
    PROVE  /\ Head(ready).kind = "replies" /\ Head(ready) \in Range(ready)
           /\ Range(ready') = Range(Tail(ready)) \cup {[kind |-> "run"]}
           /\ Queued(OfScan)' /\ AtMostOne(ready', OfScan)
<1> DEFINE run == [kind |-> "run"]
<1>1. /\ ready # <<>> /\ Head(ready).kind = "replies" /\ Head(ready).kind \in OfScan
      /\ ready' = Tail(ready) \o <<run>>
  BY DEF Dispatch, OfScan
<1>2. run \in Handler /\ run.kind \in OfScan
  BY DEF Handler, Plain, OfScan
<1>3. Tail(ready) \in Seq(Handler)
  BY <1>1, Requeued
<1>4. ready' = Append(Tail(ready), run)
  BY <1>1, <1>2, <1>3, PostedAre
<1>5. /\ Range(ready') = Range(Tail(ready)) \cup {run}
      /\ Range(ready) = {Head(ready)} \cup Range(Tail(ready))
  BY <1>1, <1>2, <1>4, Requeued
<1>6. Queued(OfScan)'
  BY <1>2, <1>5 DEF Queued
<1>7. /\ AtMostOne(Tail(ready), OfScan)
      /\ \A h \in Range(Tail(ready)) : h.kind \notin OfScan
  BY <1>1, NothingElseCarriesOn
<1>8. AtMostOne(ready', OfScan)
  BY <1>2, <1>3, <1>4, <1>7, OneAfterJoining
<1>9. QED
  BY <1>1, <1>5, <1>6, <1>8

\* The queue once publishNewConfiguration has posted the file's handler, which
\* makes it q, and the interfaces' handler behind that.
PublishTo(q, post) ==
    /\ ready # <<>> /\ Head(ready).kind = "publish"
    /\ post.kind = "post" /\ post.new = Head(ready).new
    /\ q = Append(Tail(ready), [kind |-> "write"])
    /\ ready' = Append(q, post)
    /\ Range(ready) = {Head(ready)} \cup Range(Tail(ready))
    /\ Range(q) = Range(Tail(ready)) \cup {[kind |-> "write"]}
    /\ Range(ready') = Range(Tail(ready)) \cup {[kind |-> "write"], post}

LEMMA PublishIs ==
    ASSUME TypeOK, Publish
    PROVE  \E q \in Seq(Handler), post \in Handler : PublishTo(q, post)
<1> DEFINE post == [Head(ready) EXCEPT !.kind = "post"]
           write == [kind |-> "write"]
           q == Append(Tail(ready), write)
<1>1. /\ ready # <<>> /\ Head(ready).kind = "publish"
      /\ ready' = Tail(ready) \o <<write, post>>
  BY DEF Publish, Dispatch
<1>2. Head(ready) \in [kind : {"publish", "post"}, count : Nat, new : SUBSET Device]
  BY <1>1, Requeued DEF Handler, Plain, Signals
<1>3. post \in Handler /\ post.kind = "post" /\ post.new = Head(ready).new
  BY <1>2 DEF Handler
<1>4. write \in Handler
  BY DEF Handler, Plain
<1>5. /\ Tail(ready) \in Seq(Handler)
      /\ Range(ready) = {Head(ready)} \cup Range(Tail(ready))
      /\ q \in Seq(Handler) /\ Range(q) = Range(Tail(ready)) \cup {write}
  BY <1>1, <1>4, Requeued
<1>6. ready' = Append(q, post)
  BY <1>1, <1>3, <1>4, <1>5, PostedAre
<1>7. Range(ready') = Range(q) \cup {post}
  <2>1. \A t \in Seq(Handler) : \A h \in Handler :
           Range(Append(t, h)) = Range(t) \cup {h}
    BY RangeAppend
  <2>2. Range(Append(q, post)) = Range(q) \cup {post}
    BY <1>3, <1>5, <2>1
  <2>3. QED
    BY <1>6, <2>2
<1>8. Range(ready') = Range(Tail(ready)) \cup {write, post}
  BY <1>5, <1>7
<1>9. PublishTo(q, post)
  BY <1>1, <1>3, <1>5, <1>6, <1>8 DEF PublishTo
<1>10. QED
  BY <1>3, <1>5, <1>9

LEMMA ScanStep == TypeOK /\ ScanInv /\ [Next]_vars => ScanInv'
<1> SUFFICES ASSUME TypeOK, ScanInv, [Next]_vars PROVE ScanInv'
  OBVIOUS
<1> USE DEF OfScan
<1>1. CASE HandleSignal
  BY <1>1, ScanNotCarriedOn DEF HandleSignal
<1>2. CASE HandleShutdown
  BY <1>2, ScanNotCarriedOn DEF HandleShutdown
<1>3. ASSUME NEW on \in BOOLEAN, HandlePower(on) PROVE ScanInv'
  BY <1>3, ScanNotCarriedOn DEF HandlePower
<1>4. CASE DebouncedStartsScan
  BY <1>4, FirstPassIs, StartPassScan
<1>5. CASE DebouncedWhileScanning
  BY <1>5, ScanNotCarriedOn DEF DebouncedWhileScanning
<1>6. CASE DebouncedInShutdown
  BY <1>6, ScanNotCarriedOn DEF DebouncedInShutdown
<1>7. CASE ProbesPass
  <2>1. /\ Head(ready).kind = "replies" /\ Head(ready) \in Range(ready)
        /\ Queued(OfScan)' /\ AtMostOne(ready', OfScan)
    BY <1>7, CarriedOnIs DEF ProbesPass
  <2>3. inProgress /\ scan.unread = {}
    BY <2>1 DEF ScanInv, Queued
  <2>6. /\ scan'.missing = scan.missing /\ scan'.old = scan.old
        /\ scan'.unread = scan.unread
        /\ scan'.passed = scan.passed \cup (Candidates(scan) \cap scan.seen)
        /\ systemConfiguration' = systemConfiguration \cup (Candidates(scan) \cap scan.seen)
        /\ inProgress' = inProgress
    BY <1>7 DEF ProbesPass, TypeOK, Scan
  <2>7. QED
    BY <2>1, <2>3, <2>6 DEF ScanInv
<1>8. CASE NoProbePasses
  BY <1>8, CompletedScan DEF NoProbePasses, TypeOK, ScanInv
<1>9. CASE RunNextPass
  BY <1>9, NextPassIs, StartPassScan DEF ScanInv
<1>10. CASE Publish
  <2>1. PICK q \in Seq(Handler), post \in Handler : PublishTo(q, post)
    BY <1>10, PublishIs
  <2>2. ready \in Seq(Handler) /\ AtMostOne(Tail(ready), OfScan)
    BY <2>1, OneAfterTaking DEF PublishTo, TypeOK, ScanInv
  <2>3. [kind |-> "write"] \in Handler /\ Tail(ready) \in Seq(Handler)
    BY <2>1, Requeued DEF PublishTo, Handler, Plain
  <2>4. AtMostOne(q, OfScan)
    BY <2>1, <2>2, <2>3, OneAfterJoining DEF PublishTo
  <2>5. AtMostOne(ready', OfScan)
    BY <2>1, <2>4, OneAfterJoining DEF PublishTo
  <2>6. Queued(OfScan)' <=> Queued(OfScan)
    BY <2>1 DEF PublishTo, Queued
  <2>7. UNCHANGED <<inProgress, scan, systemConfiguration>>
    BY <1>10 DEF Publish
  <2>8. QED
    BY <2>5, <2>6, <2>7, ScanUntouched
<1>11. CASE WriteJsonFiles
  BY <1>11, ScanNotCarriedOn DEF WriteJsonFiles
<1>12. CASE PostToDbus
  BY <1>12, ScanNotCarriedOn DEF PostToDbus
<1>13. CASE ReportRemoved
  BY <1>13, ScanNotCarriedOn DEF ReportRemoved
<1>14. ASSUME NEW kind \in Signals, Arrives(kind) PROVE ScanInv'
  <2>1. [kind |-> kind] \in Handler /\ kind \notin OfScan
    BY DEF Handler, Plain, Signals
  <2>2. QED
    BY <1>14, <2>1, ScanJoinedByOther DEF Arrives
<1>15. CASE Environment
  <2>1. /\ "signal" \in Signals /\ "shutdown" \in Signals
        /\ \A on \in BOOLEAN : (IF on THEN "powerOn" ELSE "powerOff") \in Signals
    BY DEF Signals
  <2>2. QED
    BY <1>14, <1>15, <2>1
       DEF Environment, Appears, Disappears, Poke, JobNew, HostState
<1>16. CASE Expires
  <2> DEFINE h == IF timer.kind = "removed"
                  THEN [kind |-> "removed"]
                  ELSE [kind |-> "debounced", count |-> timer.count]
  <2>1. h \in Handler /\ h.kind \notin OfScan
    BY <1>16 DEF Expires, Wait, NoWait, Handler, Plain, TypeOK
  <2>2. ready' = Append(ready, h) /\ UNCHANGED <<inProgress, scan, systemConfiguration>>
    BY <1>16 DEF Expires
  <2>3. QED
    BY <2>1, <2>2, ScanJoinedByOther
<1>17. ASSUME NEW d \in Device, Answered(d) PROVE ScanInv'
  <2> DEFINE h == [kind |-> "replies"]
  <2>1. h \in Handler
    BY DEF Handler, Plain
  <2>2. d \in scan.unread /\ inProgress /\ ~Queued(OfScan)
    BY <1>17 DEF Answered, ScanInv, NoScan
  <2>3. /\ scan'.unread = scan.unread \ {d}
        /\ scan'.missing = scan.missing /\ scan'.old = scan.old
        /\ scan'.passed = scan.passed
        /\ UNCHANGED <<inProgress, systemConfiguration>>
    BY <1>17 DEF Answered, TypeOK, Scan
  <2>4. CASE scan.unread = {d}
    <3>1. ready' = Append(ready, h)
      BY <1>17, <2>4 DEF Answered
    <3>2. AtMostOne(ready', OfScan)
      BY <2>1, <2>2, <3>1, OneAfterJoining DEF TypeOK, ScanInv, Queued
    <3>3. Queued(OfScan)'
      BY <2>1, <3>1, Joined DEF Queued
    <3>4. QED
      BY <2>2, <2>3, <2>4, <3>2, <3>3 DEF ScanInv
  <2>5. CASE scan.unread # {d}
    <3>1. ready' = ready /\ scan'.unread # {}
      BY <1>17, <2>2, <2>3, <2>5 DEF Answered
    <3>2. QED
      BY <2>2, <2>3, <3>1 DEF ScanInv, Queued
  <2>6. QED
    BY <2>4, <2>5
<1>18. CASE UNCHANGED vars
  BY <1>18 DEF vars, ScanInv, Queued, AtMostOne, NoScan
<1>19. QED
  BY <1>1, <1>2, <1>3, <1>4, <1>5, <1>6, <1>7, <1>8, <1>9, <1>10, <1>11,
     <1>12, <1>13, <1>15, <1>16, <1>17, <1>18 DEF Next, Run, Answers

LEMMA ScanInit == Init => ScanInv
<1> SUFFICES ASSUME Init PROVE ScanInv
  OBVIOUS
<1>1. Range(ready) = {[kind |-> "signal"]} /\ Len(ready) = 1
  BY RangeShort DEF Init
<1>2. QED
  BY <1>1 DEF Init, ScanInv, NoScan, Queued, OfScan, AtMostOne

-----------------------------------------------------------------------------
(* What is published and written *)

\* Handlers that carry records to postToDbus, and the records they carry.
Carrying == {"publish", "post"}
Carried(H) == UNION {h.new : h \in {g \in H : g.kind \in Carrying}}

LEMMA CarriedSplit ==
    /\ \A G, h : h.kind \in Carrying =>
          /\ Carried({h} \cup G) = h.new \cup Carried(G)
          /\ Carried(G \cup {h}) = Carried(G) \cup h.new
    /\ \A G, h : h.kind \notin Carrying =>
          Carried({h} \cup G) = Carried(G) /\ Carried(G \cup {h}) = Carried(G)
<1>1. ASSUME NEW G, NEW h, h.kind \in Carrying
      PROVE  /\ Carried({h} \cup G) = h.new \cup Carried(G)
             /\ Carried(G \cup {h}) = Carried(G) \cup h.new
  BY <1>1 DEF Carried
<1>2. ASSUME NEW G, NEW h, h.kind \notin Carrying
      PROVE  Carried({h} \cup G) = Carried(G) /\ Carried(G \cup {h}) = Carried(G)
  BY <1>2 DEF Carried
<1>3. QED
  BY <1>1, <1>2

\* Where they stand, and that no two of them, nor P, share a record.
Carriers(q) == {i \in 1..Len(q) : q[i].kind \in Carrying}
Apart(q, P) ==
    \A i \in Carriers(q) :
        /\ q[i].new \cap P = {}
        /\ \A j \in Carriers(q) \ {i} : q[i].new \cap q[j].new = {}

LEMMA ApartAfterTaking ==
    ASSUME NEW q \in Seq(Handler), q # <<>>, NEW P, Apart(q, P)
    PROVE  /\ Apart(Tail(q), P)
           /\ Head(q).kind \in Carrying =>
                /\ Apart(Tail(q), P \cup Head(q).new)
                /\ Head(q).new \cap P = {}
                /\ Head(q).new \cap Carried(Range(Tail(q))) = {}
<1>1. Tail(q) \in Seq(Handler)
  BY HeadAndTail
<1>2. /\ Len(q) \in Nat /\ 1 \in 1..Len(q) /\ Head(q) = q[1]
      /\ Len(Tail(q)) = Len(q) - 1
      /\ \A i \in 1..Len(Tail(q)) : i + 1 \in 1..Len(q) /\ Tail(q)[i] = q[i + 1]
  BY TailAt
<1>3. \A i \in Carriers(Tail(q)) :
         /\ i \in Nat /\ i + 1 \in Carriers(q) /\ i + 1 # 1
         /\ Tail(q)[i] = q[i + 1]
  BY <1>2 DEF Carriers
<1>4. Apart(Tail(q), P)
  <2>1. ASSUME NEW i \in Carriers(Tail(q))
        PROVE  /\ Tail(q)[i].new \cap P = {}
               /\ \A j \in Carriers(Tail(q)) \ {i} :
                     Tail(q)[i].new \cap Tail(q)[j].new = {}
    <3>1. i + 1 \in Carriers(q) /\ Tail(q)[i] = q[i + 1]
      BY <1>3
    <3>2. \A j \in Carriers(Tail(q)) \ {i} :
             j + 1 \in Carriers(q) \ {i + 1} /\ Tail(q)[j] = q[j + 1]
      <4>1. SUFFICES ASSUME NEW j \in Carriers(Tail(q)), j # i
                     PROVE  j + 1 \in Carriers(q) /\ j + 1 # i + 1
                            /\ Tail(q)[j] = q[j + 1]
        OBVIOUS
      <4>2. i \in Nat /\ j \in Nat /\ j + 1 \in Carriers(q) /\ Tail(q)[j] = q[j + 1]
        BY <1>3
      <4>3. j + 1 # i + 1
        BY <4>1, <4>2
      <4>4. QED
        BY <4>2, <4>3
    <3>3. \A k \in Carriers(q) \ {i + 1} : q[i + 1].new \cap q[k].new = {}
      BY <3>1 DEF Apart
    <3>4. QED
      BY <3>1, <3>2, <3>3 DEF Apart
  <2>2. QED
    BY <2>1 DEF Apart
<1>5. ASSUME Head(q).kind \in Carrying
      PROVE  /\ Apart(Tail(q), P \cup Head(q).new)
             /\ Head(q).new \cap P = {}
             /\ Head(q).new \cap Carried(Range(Tail(q))) = {}
  <2>1. 1 \in Carriers(q)
    BY <1>2, <1>5 DEF Carriers
  <2>2. \A i \in Carriers(Tail(q)) : Tail(q)[i].new \cap Head(q).new = {}
    <3>1. \A i \in Carriers(q) \ {1} : q[1].new \cap q[i].new = {}
      BY <2>1 DEF Apart
    <3>2. \A i \in Carriers(Tail(q)) :
             i + 1 \in Carriers(q) \ {1} /\ Tail(q)[i] = q[i + 1]
      BY <1>3
    <3>3. Head(q) = q[1]
      BY <1>2
    <3>4. QED
      BY <3>1, <3>2, <3>3
  <2>3. Apart(Tail(q), P \cup Head(q).new)
    BY <1>4, <2>2 DEF Apart
  <2>4. Head(q).new \cap P = {}
    BY <1>2, <2>1 DEF Apart
  <2>5. ASSUME NEW h \in Range(Tail(q)), h.kind \in Carrying
        PROVE  Head(q).new \cap h.new = {}
    <3>1. PICK i \in 1..Len(Tail(q)) : Tail(q)[i] = h
      BY <1>1, RangeAt
    <3>2. i \in Carriers(Tail(q))
      BY <2>5, <3>1 DEF Carriers
    <3>3. QED
      BY <2>2, <3>1, <3>2
  <2>6. Head(q).new \cap Carried(Range(Tail(q))) = {}
    BY <2>5 DEF Carried
  <2>7. QED
    BY <2>3, <2>4, <2>6
<1>6. QED
  BY <1>4, <1>5

LEMMA ApartAfterJoining ==
    ASSUME NEW q \in Seq(Handler), NEW e \in Handler, NEW P, Apart(q, P),
           e.kind \in Carrying => /\ e.new \cap P = {}
                                  /\ e.new \cap Carried(Range(q)) = {}
    PROVE  Apart(Append(q, e), P)
<1> DEFINE r == Append(q, e)
<1>1. /\ Len(q) \in Nat /\ Len(r) = Len(q) + 1
      /\ \A i \in 1..Len(q) : r[i] = q[i]
      /\ r[Len(q) + 1] = e
      /\ \A i \in 1..Len(r) : i \in 1..Len(q) \/ i = Len(q) + 1
  BY AppendAt
<1>2. \A i \in 1..Len(q) : q[i] \in Range(q)
  BY RangeAt
<1>3. \A i \in Carriers(r) : \/ i \in Carriers(q) /\ r[i] = q[i]
                             \/ i = Len(q) + 1 /\ r[i] = e /\ e.kind \in Carrying
  BY <1>1 DEF Carriers
<1>4. e.kind \in Carrying => \A i \in Carriers(q) : e.new \cap q[i].new = {}
  <2>1. \A i \in Carriers(q) : q[i] \in Range(q) /\ q[i].kind \in Carrying
    BY <1>2 DEF Carriers
  <2>2. \A i \in Carriers(q) : q[i].new \subseteq Carried(Range(q))
    BY <2>1 DEF Carried
  <2>3. QED
    BY <2>2
<1> HIDE DEF r
<1>5. ASSUME NEW i \in Carriers(r)
      PROVE  /\ r[i].new \cap P = {}
             /\ \A j \in Carriers(r) \ {i} : r[i].new \cap r[j].new = {}
  <2>1. r[i].new \cap P = {}
    BY <1>3 DEF Apart
  <2>2. ASSUME NEW j \in Carriers(r) \ {i} PROVE r[i].new \cap r[j].new = {}
    BY <1>3, <1>4 DEF Apart
  <2>3. QED
    BY <2>1, <2>2
<1>6. QED
  BY <1>5 DEF Apart, r

\* What will be published once every handler has run: the snapshot the running
\* scan derives the new records from, or everything when none runs.
Base == IF inProgress THEN scan.old ELSE systemConfiguration

\* Nothing falls between two scans: what is published and what handlers carry
\* is that snapshot, and the file is up to date or about to be.
OutputsInv ==
    /\ published \cup Carried(Range(ready)) = Base
    /\ Apart(ready, published)
    /\ \/ written = systemConfiguration
       \/ shutdownStarted
       \/ inProgress
       \/ Queued({"publish", "write"})

LEMMA ApartIsTheInvariant == Apart(ready, published) <=> NeverPublishedTwice
BY DEF Apart, Carriers, Carrying, NeverPublishedTwice, Unpublished

\* A handler that carries no records and writes no file ran and posted nothing.
LEMMA OutputsAfterTaking ==
    ASSUME TypeOK, OutputsInv, NEW kind, kind \notin Carrying \cup {"write"},
           Dispatch(kind, <<>>), Base' = Base,
           UNCHANGED <<inProgress, systemConfiguration, published, written>>,
           shutdownStarted => shutdownStarted'
    PROVE  OutputsInv'
<1>1. /\ Head(ready).kind = kind
      /\ Range(ready) = {Head(ready)} \cup Range(ready')
  BY DispatchedOnly
<1>2. Carried(Range(ready')) = Carried(Range(ready))
  BY <1>1, CarriedSplit
<1>3. Queued({"publish", "write"}) <=> Queued({"publish", "write"})'
  BY <1>1 DEF Queued, Carrying
<1>4. Apart(ready', published)
  BY TakenOnly, ApartAfterTaking DEF OutputsInv
<1>5. QED
  BY <1>2, <1>3, <1>4 DEF OutputsInv

\* A handler that carries no records joined the queue.
LEMMA OutputsAfterJoining ==
    ASSUME TypeOK, OutputsInv, NEW h \in Handler, h.kind \notin Carrying,
           ready' = Append(ready, h), Base' = Base,
           UNCHANGED <<inProgress, systemConfiguration, published, written,
                       shutdownStarted>>
    PROVE  OutputsInv'
<1>1. Range(ready') = Range(ready) \cup {h}
  BY Joined
<1>2. Carried(Range(ready')) = Carried(Range(ready))
  BY <1>1, CarriedSplit
<1>3. Queued({"publish", "write"}) => Queued({"publish", "write"})'
  BY <1>1 DEF Queued
<1>4. Apart(ready', published)
  BY ApartAfterJoining DEF TypeOK, OutputsInv
<1>5. QED
  BY <1>2, <1>3, <1>4 DEF OutputsInv

\* A finished scan hands on what was not in its snapshot.
LEMMA CompletedOutputs ==
    ASSUME TypeOK, ScanInv, OutputsInv, ready # <<>>,
           Head(ready).kind \notin Carrying,
           NEW s \in Scan, s.missing = {}, s.old = Base, Completed(s, Tail(ready))
    PROVE  OutputsInv'
<1> DEFINE h == [kind |-> "publish", count |-> s.count,
                 new |-> DeriveNew(s, systemConfiguration)]
<1>1. Pruned(s) = {}
  BY DEF Pruned
<1>2. /\ systemConfiguration' = systemConfiguration /\ published' = published
      /\ inProgress' = FALSE /\ ready' = Append(Tail(ready), h)
  BY <1>1 DEF Completed
<1>3. /\ h \in Handler /\ h.kind \in Carrying /\ h.kind \in {"publish", "write"}
      /\ h.new = systemConfiguration \ Base
  BY DEF Handler, DeriveNew, Scan, TypeOK, Carrying
<1>4. /\ Tail(ready) \in Seq(Handler)
      /\ Range(ready) = {Head(ready)} \cup Range(Tail(ready))
      /\ Range(ready') = Range(Tail(ready)) \cup {h}
  BY <1>2, <1>3, Requeued
<1>5. published \cup Carried(Range(Tail(ready))) = Base
  BY <1>4, CarriedSplit DEF OutputsInv
<1>6. Base \subseteq systemConfiguration /\ Base' = systemConfiguration
  BY <1>2 DEF Base, ScanInv
<1>7. published' \cup Carried(Range(ready')) = Base'
  BY <1>2, <1>3, <1>4, <1>5, <1>6, CarriedSplit
<1>8. Apart(ready', published')
  <2>1. Apart(Tail(ready), published)
    BY ApartAfterTaking DEF TypeOK, OutputsInv
  <2>2. h.new \cap published = {} /\ h.new \cap Carried(Range(Tail(ready))) = {}
    BY <1>3, <1>5
  <2>3. QED
    BY <1>2, <1>3, <1>4, <2>1, <2>2, ApartAfterJoining
<1>9. Queued({"publish", "write"})'
  BY <1>3, <1>4 DEF Queued
<1>10. QED
  BY <1>7, <1>8, <1>9 DEF OutputsInv

LEMMA StartPassOutputs ==
    ASSUME TypeOK, ScanInv, OutputsInv, ready # <<>>,
           Head(ready).kind \notin Carrying \cup {"write"},
           NEW s \in Scan, s.missing = {}, s.old = Base, StartPass(s, Tail(ready))
    PROVE  OutputsInv'
<1>1. CASE s.unread = {}
  BY <1>1, CompletedOutputs DEF StartPass
<1>2. CASE s.unread # {}
  <2>1. /\ scan' = s /\ inProgress' /\ ready' = Tail(ready)
        /\ UNCHANGED <<systemConfiguration, published>>
    BY <1>2 DEF StartPass
  <2>2. Base' = Base
    BY <2>1 DEF Base
  <2>3. Range(ready) = {Head(ready)} \cup Range(ready')
    BY <2>1, Requeued
  <2>4. Carried(Range(ready')) = Carried(Range(ready))
    BY <2>3, CarriedSplit
  <2>5. Apart(ready', published')
    BY <2>1, ApartAfterTaking DEF TypeOK, OutputsInv
  <2>6. QED
    BY <2>1, <2>2, <2>4, <2>5 DEF OutputsInv
<1>3. QED
  BY <1>1, <1>2

LEMMA OutputsStep == TypeOK /\ ScanInv /\ OutputsInv /\ [Next]_vars => OutputsInv'
<1> SUFFICES ASSUME TypeOK, ScanInv, OutputsInv, [Next]_vars PROVE OutputsInv'
  OBVIOUS
<1> USE DEF Carrying, outputs
<1>1. CASE HandleSignal
  BY <1>1, OutputsAfterTaking DEF HandleSignal, Base
<1>2. CASE HandleShutdown
  BY <1>2, OutputsAfterTaking DEF HandleShutdown, Base
<1>3. ASSUME NEW on \in BOOLEAN, HandlePower(on) PROVE OutputsInv'
  BY <1>3, OutputsAfterTaking DEF HandlePower, Base
<1>4. CASE DebouncedStartsScan
  BY <1>4, FirstPassIs, StartPassOutputs DEF Base
<1>5. CASE DebouncedWhileScanning
  BY <1>5, OutputsAfterTaking DEF DebouncedWhileScanning, Base
<1>6. CASE DebouncedInShutdown
  BY <1>6, OutputsAfterTaking DEF DebouncedInShutdown, Base
<1>7. CASE ProbesPass
  <2>1. /\ Dispatch("replies", <<[kind |-> "run"]>>)
        /\ UNCHANGED <<inProgress, published>> /\ scan'.old = scan.old
    BY <1>7 DEF ProbesPass, TypeOK, Scan
  <2>2. /\ ready \in Seq(Handler) /\ ready # <<>> /\ Head(ready).kind = "replies"
        /\ Head(ready) \in Range(ready)
        /\ ready' = Tail(ready) \o <<[kind |-> "run"]>>
        /\ Range(ready') = Range(Tail(ready)) \cup {[kind |-> "run"]}
    BY <2>1, CarriedOnIs DEF Dispatch, TypeOK
  <2>3. inProgress /\ Base' = Base
    BY <2>1, <2>2 DEF ScanInv, Queued, OfScan, Base
  <2>4. /\ Tail(ready) \in Seq(Handler) /\ [kind |-> "run"] \in Handler
        /\ Range(ready) = {Head(ready)} \cup Range(Tail(ready))
    BY <2>2, Requeued DEF Handler, Plain
  <2>5. ready' = Append(Tail(ready), [kind |-> "run"])
    BY <2>2, <2>4, PostedAre
  <2>6. Carried(Range(ready')) = Carried(Range(ready))
    <3>1. [kind |-> "run"].kind \notin Carrying
      OBVIOUS
    <3>2. Carried(Range(Tail(ready)) \cup {[kind |-> "run"]}) = Carried(Range(Tail(ready)))
      BY <3>1, CarriedSplit
    <3>3. Carried({Head(ready)} \cup Range(Tail(ready))) = Carried(Range(Tail(ready)))
      BY <2>2, CarriedSplit
    <3>4. QED
      BY <2>2, <2>4, <3>2, <3>3
  <2>7. Apart(Tail(ready), published)
    BY <2>2, ApartAfterTaking DEF OutputsInv
  <2>8. Apart(ready', published)
    <3>1. [kind |-> "run"].kind \notin Carrying
      OBVIOUS
    <3>2. QED
      BY <2>4, <2>5, <2>7, <3>1, ApartAfterJoining
  <2>9. QED
    BY <2>1, <2>3, <2>6, <2>8 DEF OutputsInv
<1>8. CASE NoProbePasses
  <2>1. /\ ready # <<>> /\ Head(ready).kind = "replies"
        /\ Completed(scan, Tail(ready)) /\ UNCHANGED <<written, shutdownStarted>>
    BY <1>8 DEF NoProbePasses
  <2>2. inProgress
    BY <2>1, Requeued DEF ScanInv, Queued, OfScan
  <2>3. scan \in Scan /\ scan.missing = {} /\ scan.old = Base
    BY <2>2 DEF TypeOK, ScanInv, Base
  <2>4. QED
    BY <2>1, <2>3, CompletedOutputs
<1>9. CASE RunNextPass
  BY <1>9, NextPassIs, StartPassOutputs DEF Base
<1>10. CASE Publish
  <2>1. PICK q \in Seq(Handler), post \in Handler : PublishTo(q, post)
    BY <1>10, PublishIs
  <2>2. /\ ready \in Seq(Handler) /\ Tail(ready) \in Seq(Handler)
        /\ [kind |-> "write"] \in Handler /\ Head(ready) \in Handler
    BY <2>1, Requeued DEF PublishTo, TypeOK, Handler, Plain
  <2>3. /\ Apart(Tail(ready), published)
        /\ Head(ready).new \cap published = {}
        /\ Head(ready).new \cap Carried(Range(Tail(ready))) = {}
    BY <2>1, <2>2, ApartAfterTaking DEF PublishTo, OutputsInv
  <2>4. Carried(Range(q)) = Carried(Range(Tail(ready)))
    BY <2>1, CarriedSplit DEF PublishTo
  <2>5. Apart(q, published)
    <3>1. [kind |-> "write"].kind \notin Carrying
      OBVIOUS
    <3>2. q = Append(Tail(ready), [kind |-> "write"])
      BY <2>1 DEF PublishTo
    <3>3. QED
      BY <2>2, <2>3, <3>1, <3>2, ApartAfterJoining
  <2>6. Apart(ready', published)
    BY <2>1, <2>3, <2>4, <2>5, ApartAfterJoining DEF PublishTo
  <2>7. Range(ready') = Range(q) \cup {post}
    BY <2>1 DEF PublishTo
  <2>8. Carried(Range(ready')) = Carried(Range(ready))
    <3>1. /\ Head(ready).kind \in Carrying /\ post.kind \in Carrying
          /\ post.new = Head(ready).new
          /\ Range(ready) = {Head(ready)} \cup Range(Tail(ready))
      BY <2>1 DEF PublishTo
    <3>2. Carried(Range(q) \cup {post}) = Carried(Range(q)) \cup post.new
      BY <3>1, CarriedSplit
    <3>3. Carried({Head(ready)} \cup Range(Tail(ready)))
            = Head(ready).new \cup Carried(Range(Tail(ready)))
      BY <3>1, CarriedSplit
    <3>4. QED
      BY <2>4, <2>7, <3>1, <3>2, <3>3
  <2>9. Queued({"publish", "write"})'
    BY <2>1 DEF PublishTo, Queued
  <2>10. published' = published /\ Base' = Base
    BY <1>10 DEF Publish, Base
  <2>11. QED
    BY <2>6, <2>8, <2>9, <2>10 DEF OutputsInv
<1>11. CASE WriteJsonFiles
  <2>1. /\ Dispatch("write", <<>>) /\ written' = Persist
        /\ UNCHANGED <<published, systemConfiguration, shutdownStarted>>
        /\ Base' = Base
    BY <1>11 DEF WriteJsonFiles, Base
  <2>2. Head(ready).kind = "write" /\ Range(ready) = {Head(ready)} \cup Range(ready')
    BY <2>1, DispatchedOnly
  <2>3. Carried(Range(ready')) = Carried(Range(ready))
    BY <2>2, CarriedSplit
  <2>4. Apart(ready', published)
    BY <2>1, TakenOnly, ApartAfterTaking DEF OutputsInv
  <2>5. QED
    BY <2>1, <2>3, <2>4 DEF OutputsInv, Persist
<1>12. CASE PostToDbus
  <2>1. /\ Dispatch("post", <<>>) /\ published' = published \cup Head(ready).new
        /\ UNCHANGED <<inProgress, systemConfiguration, written, shutdownStarted>>
        /\ Base' = Base
    BY <1>12 DEF PostToDbus, Base
  <2>2. Head(ready).kind = "post" /\ Range(ready) = {Head(ready)} \cup Range(ready')
    BY <2>1, DispatchedOnly
  <2>3. Carried(Range(ready)) = Head(ready).new \cup Carried(Range(ready'))
    BY <2>2, CarriedSplit
  <2>4. Apart(ready', published')
    BY <2>1, TakenOnly, ApartAfterTaking DEF OutputsInv
  <2>5. Queued({"publish", "write"}) <=> Queued({"publish", "write"})'
    BY <2>2 DEF Queued
  <2>6. QED
    BY <2>1, <2>3, <2>4, <2>5 DEF OutputsInv
<1>13. CASE ReportRemoved
  BY <1>13, OutputsAfterTaking DEF ReportRemoved, Base
<1>14. ASSUME NEW kind \in Signals, Arrives(kind) PROVE OutputsInv'
  <2>1. [kind |-> kind] \in Handler /\ kind \notin Carrying
    BY DEF Handler, Plain, Signals
  <2>2. QED
    BY <1>14, <2>1, OutputsAfterJoining DEF Arrives, Base
<1>15. CASE Environment
  <2>1. /\ "signal" \in Signals /\ "shutdown" \in Signals
        /\ \A on \in BOOLEAN : (IF on THEN "powerOn" ELSE "powerOff") \in Signals
    BY DEF Signals
  <2>2. QED
    BY <1>14, <1>15, <2>1
       DEF Environment, Appears, Disappears, Poke, JobNew, HostState
<1>16. CASE Expires
  <2> DEFINE h == IF timer.kind = "removed"
                  THEN [kind |-> "removed"]
                  ELSE [kind |-> "debounced", count |-> timer.count]
  <2>1. h \in Handler /\ h.kind \notin Carrying
    BY <1>16 DEF Expires, Wait, NoWait, Handler, Plain, TypeOK
  <2>2. /\ ready' = Append(ready, h) /\ Base' = Base
        /\ UNCHANGED <<inProgress, systemConfiguration, published, written,
                       shutdownStarted>>
    BY <1>16 DEF Expires, Base
  <2>3. QED
    BY <2>1, <2>2, OutputsAfterJoining
<1>17. ASSUME NEW d \in Device, Answered(d) PROVE OutputsInv'
  <2>1. [kind |-> "replies"] \in Handler
    BY DEF Handler, Plain
  <2>2. /\ UNCHANGED <<inProgress, systemConfiguration, published, written,
                       shutdownStarted>>
        /\ scan'.old = scan.old
    BY <1>17 DEF Answered, TypeOK, Scan
  <2>3. Base' = Base
    BY <2>2 DEF Base
  <2>4. CASE scan.unread = {d}
    BY <1>17, <2>1, <2>2, <2>3, <2>4, OutputsAfterJoining DEF Answered
  <2>5. CASE scan.unread # {d}
    BY <1>17, <2>2, <2>3, <2>5 DEF Answered, OutputsInv, Queued
  <2>6. QED
    BY <2>4, <2>5
<1>18. CASE UNCHANGED vars
  BY <1>18 DEF vars, OutputsInv, Base, Queued, Apart, Carriers
<1>19. QED
  BY <1>1, <1>2, <1>3, <1>4, <1>5, <1>6, <1>7, <1>8, <1>9, <1>10, <1>11,
     <1>12, <1>13, <1>15, <1>16, <1>17, <1>18 DEF Next, Run, Answers

LEMMA OutputsInit == Init => OutputsInv
<1> SUFFICES ASSUME Init PROVE OutputsInv
  OBVIOUS
<1>1. Range(ready) = {[kind |-> "signal"]} /\ Len(ready) = 1
      /\ ready[1].kind = "signal"
  BY RangeShort DEF Init
<1>2. Carried(Range(ready)) = {} /\ Carriers(ready) = {}
  BY <1>1 DEF Carried, Carriers, Carrying
<1>3. QED
  BY <1>2 DEF Init, OutputsInv, Base, Apart

\* Once everything has settled, D-Bus and system.json show the configuration.
THEOREM OutputsEndUpAgreeing == Spec => []OutputsAgree
<1>1. TypeOK /\ ScanInv /\ OutputsInv => OutputsAgree
  <2> SUFFICES ASSUME OutputsInv, Quiescent
               PROVE  /\ published = systemConfiguration
                      /\ shutdownStarted \/ written = systemConfiguration
    BY DEF OutputsAgree
  <2>1. ready = <<>> /\ ~inProgress /\ Range(ready) = {}
    BY RangeShort DEF Quiescent
  <2>2. Carried(Range(ready)) = {} /\ ~Queued({"publish", "write"})
    BY <2>1 DEF Carried, Queued
  <2>3. QED
    BY <2>1, <2>2 DEF OutputsInv, Base
<1>2. QED
  BY <1>1, TypeInit, TypeStep, ScanInit, ScanStep, OutputsInit, OutputsStep, PTL
     DEF Spec

\* No record is given its interfaces twice, however many scans complete before
\* the first of them has been published.
THEOREM PublishedOnce == Spec => []NeverPublishedTwice
<1>1. OutputsInv => NeverPublishedTwice
  BY ApartIsTheInvariant DEF OutputsInv
<1>2. QED
  BY <1>1, TypeInit, TypeStep, ScanInit, ScanStep, OutputsInit, OutputsStep, PTL
     DEF Spec

-----------------------------------------------------------------------------
(* Whatever is on the bus is detected *)

\* A rescan is bound to begin, or never will again.
RescanAhead ==
    \/ shutdownStarted
    \/ timer.kind = "debounce"
    \/ Queued({"signal", "debounced"})

\* The running scan has seen d, or will ask for it.
ScanFinds(d) ==
    inProgress /\ (d \in scan.unread \cup scan.seen \/ Queued({"run"}))

\* Everything on the bus that is not in the inventory yet will be found; when a
\* pass goes on, whatever it has seen is in the inventory.
DetectInv ==
    /\ Queued({"run"}) => scan.seen \subseteq systemConfiguration
    /\ \A d \in present \ systemConfiguration : RescanAhead \/ ScanFinds(d)

LEMMA DetectUntouched ==
    ASSUME DetectInv, UNCHANGED <<inProgress, scan, systemConfiguration>>,
           Queued({"run"})' <=> Queued({"run"}),
           \/ RescanAhead'
           \/ (RescanAhead => RescanAhead') /\ present' \subseteq present
    PROVE  DetectInv'
<1>1. /\ Queued({"run"}) => scan.seen \subseteq systemConfiguration
      /\ \A d \in present \ systemConfiguration : RescanAhead \/ ScanFinds(d)
  BY DEF DetectInv
<1>2. \A d : ScanFinds(d) => ScanFinds(d)'
  BY DEF ScanFinds
<1>3. QED
  BY <1>1, <1>2 DEF DetectInv

\* A handler ran that the rescans and the scan do not hang on.
LEMMA DetectAfterTaking ==
    ASSUME TypeOK, DetectInv, NEW kind, kind \notin {"signal", "debounced", "run"},
           Dispatch(kind, <<>>),
           UNCHANGED <<inProgress, scan, systemConfiguration, present>>,
           shutdownStarted => shutdownStarted',
           timer.kind = "debounce" => timer'.kind = "debounce"
    PROVE  DetectInv'
<1>1. Head(ready).kind = kind /\ Range(ready) = {Head(ready)} \cup Range(ready')
  BY DispatchedOnly
<1>2. /\ Queued({"run"})' <=> Queued({"run"})
      /\ Queued({"signal", "debounced"})' <=> Queued({"signal", "debounced"})
  BY <1>1 DEF Queued
<1>3. RescanAhead => RescanAhead'
  BY <1>2 DEF RescanAhead
<1>4. QED
  BY <1>2, <1>3, DetectUntouched

\* A signal was taken, or a wait that found a scan running.
LEMMA DetectAfterCallback ==
    ASSUME TypeOK, DetectInv, NEW kind, kind # "run", Dispatch(kind, <<>>),
           UNCHANGED <<inProgress, scan, systemConfiguration>>,
           shutdownStarted' \/ timer'.kind = "debounce"
    PROVE  DetectInv'
<1>1. Head(ready).kind = kind /\ Range(ready) = {Head(ready)} \cup Range(ready')
  BY DispatchedOnly
<1>2. Queued({"run"})' <=> Queued({"run"})
  BY <1>1 DEF Queued
<1>3. QED
  BY <1>2, DetectUntouched DEF RescanAhead

\* What a pass leaves: nothing carries the scan on, and it is over or asks.
LEMMA StartPassDetects ==
    ASSUME TypeOK, ScanInv, ready # <<>>, Head(ready).kind \in OfScan \/ ~inProgress,
           NEW s \in Scan, s.missing = {}, StartPass(s, Tail(ready)),
           present \ systemConfiguration \subseteq s.unread,
           UNCHANGED present
    PROVE  DetectInv'
<1>1. \A h \in Range(Tail(ready)) : h.kind \notin OfScan
  BY NothingElseCarriesOn
<1>2. CASE s.unread = {}
  <2> DEFINE h == [kind |-> "publish", count |-> s.count,
                   new |-> DeriveNew(s, systemConfiguration)]
  <2>1. Completed(s, Tail(ready)) /\ Pruned(s) = {}
    BY <1>2 DEF StartPass, Pruned
  <2>2. /\ systemConfiguration' = systemConfiguration
        /\ ready' = Append(Tail(ready), h)
    BY <2>1 DEF Completed
  <2>3. h \in Handler /\ h.kind = "publish"
    BY DEF Handler, DeriveNew, Scan, TypeOK
  <2>4. Range(ready') = Range(Tail(ready)) \cup {h}
    BY <2>2, <2>3, Requeued
  <2>5. ~Queued({"run"})'
    BY <1>1, <2>3, <2>4 DEF Queued, OfScan
  <2>6. present' \ systemConfiguration' = {}
    BY <1>2, <2>2
  <2>7. QED
    BY <2>5, <2>6 DEF DetectInv
<1>3. CASE s.unread # {}
  <2>1. /\ scan' = s /\ inProgress' /\ ready' = Tail(ready)
        /\ systemConfiguration' = systemConfiguration
    BY <1>3 DEF StartPass
  <2>2. ~Queued({"run"})'
    BY <1>1, <2>1 DEF Queued, OfScan
  <2>3. QED
    BY <2>1, <2>2 DEF DetectInv, ScanFinds
<1>4. QED
  BY <1>2, <1>3

LEMMA DetectStep == SignalInv /\ ScanInv /\ DetectInv /\ [Next]_vars => DetectInv'
<1> SUFFICES ASSUME SignalInv, ScanInv, DetectInv, [Next]_vars PROVE DetectInv'
  OBVIOUS
<1>0. TypeOK
  BY DEF SignalInv
<1>1. CASE HandleSignal
  BY <1>0, <1>1, DetectAfterCallback DEF HandleSignal, propertiesChangedCallback
<1>2. CASE HandleShutdown
  BY <1>0, <1>2, DetectAfterCallback DEF HandleShutdown
<1>3. ASSUME NEW on \in BOOLEAN, HandlePower(on) PROVE DetectInv'
  BY <1>0, <1>3, DetectAfterTaking DEF HandlePower
<1>4. CASE DebouncedStartsScan
  <2>1. present \subseteq Device /\ UNCHANGED present
    BY <1>0, <1>4 DEF DebouncedStartsScan, TypeOK
  <2>2. present \ systemConfiguration \subseteq FirstPass.unread
    BY <1>0, <1>4, <2>1, FirstPassIs
  <2>3. QED
    BY <1>0, <1>4, <2>1, <2>2, FirstPassIs, StartPassDetects
<1>5. CASE DebouncedWhileScanning
  BY <1>0, <1>5, DetectAfterCallback
     DEF DebouncedWhileScanning, propertiesChangedCallback
<1>6. CASE DebouncedInShutdown
  BY <1>0, <1>6, DetectAfterCallback DEF DebouncedInShutdown
<1>7. CASE ProbesPass
  <2>1. /\ Head(ready).kind = "replies" /\ Head(ready) \in Range(ready)
        /\ Range(ready') = Range(Tail(ready)) \cup {[kind |-> "run"]}
    BY <1>0, <1>7, CarriedOnIs DEF ProbesPass
  <2>2. inProgress
    BY <2>1 DEF ScanInv, Queued, OfScan
  <2>3. inProgress' /\ Queued({"run"})'
    BY <1>7, <2>1, <2>2 DEF ProbesPass, Queued
  <2>4. /\ scan'.seen = scan.seen /\ scan.seen \subseteq Device
        /\ systemConfiguration' = systemConfiguration \cup (Candidates(scan) \cap scan.seen)
    BY <1>0, <1>7 DEF ProbesPass, TypeOK, Scan
  <2>5. scan.seen \ systemConfiguration \subseteq Candidates(scan)
    BY <2>4 DEF Candidates, ScanInv
  <2>6. QED
    BY <2>3, <2>4, <2>5 DEF DetectInv, ScanFinds
<1>8. CASE NoProbePasses
  <2> DEFINE h == [kind |-> "publish", count |-> scan.count,
                   new |-> DeriveNew(scan, systemConfiguration)]
  <2>1. /\ ready # <<>> /\ Head(ready).kind = "replies"
        /\ Candidates(scan) \cap scan.seen = {}
        /\ Completed(scan, Tail(ready))
        /\ UNCHANGED <<timer, shutdownStarted, present>>
    BY <1>8 DEF NoProbePasses
  <2>2. scan \in Scan /\ Pruned(scan) = {}
    BY <1>0 DEF ScanInv, Pruned, TypeOK
  <2>3. /\ systemConfiguration' = systemConfiguration
        /\ ready' = Append(Tail(ready), h)
    BY <2>1, <2>2 DEF Completed
  <2>4. h \in Handler /\ h.kind = "publish"
    BY <1>0, <2>2 DEF Handler, DeriveNew, Scan, TypeOK
  <2>5. /\ Range(ready') = Range(Tail(ready)) \cup {h}
        /\ Range(ready) = {Head(ready)} \cup Range(Tail(ready))
    BY <1>0, <2>1, <2>3, <2>4, Requeued
  <2>6. \A g \in Range(Tail(ready)) : g.kind \notin OfScan
    BY <1>0, <2>1, NothingElseCarriesOn DEF OfScan
  <2>7. ~Queued({"run"}) /\ ~Queued({"run"})'
    BY <2>1, <2>4, <2>5, <2>6 DEF Queued, OfScan
  <2>8. RescanAhead => RescanAhead'
    BY <2>1, <2>5 DEF RescanAhead, Queued
  <2>9. scan.unread = {}
    BY <2>1, <2>5 DEF ScanInv, Queued, OfScan
  <2>10. \A d \in present \ systemConfiguration : ~ScanFinds(d)
    <3>1. present \ systemConfiguration \subseteq Candidates(scan)
      BY <1>0 DEF Candidates, ScanInv, TypeOK
    <3>2. QED
      BY <2>1, <2>7, <2>9, <3>1 DEF ScanFinds
  <2>11. QED
    BY <2>1, <2>3, <2>7, <2>8, <2>10 DEF DetectInv
<1>9. CASE RunNextPass
  <2>1. present \subseteq Device /\ UNCHANGED present
    BY <1>0, <1>9 DEF RunNextPass, TypeOK
  <2>2. ready # <<>> /\ Head(ready).kind = "run"
    BY <1>9 DEF RunNextPass
  <2>3. scan.seen \subseteq systemConfiguration
    BY <1>0, <2>2, Requeued DEF DetectInv, Queued
  <2>4. present \ systemConfiguration \subseteq RunPass(scan).unread
    BY <1>0, <1>9, <2>1, <2>3, NextPassIs
  <2>5. QED
    BY <1>0, <1>9, <2>1, <2>2, <2>4, NextPassIs, StartPassDetects DEF OfScan
<1>10. CASE Publish
  <2>1. PICK q \in Seq(Handler), post \in Handler : PublishTo(q, post)
    BY <1>0, <1>10, PublishIs
  <2>2. /\ Queued({"run"})' <=> Queued({"run"})
        /\ Queued({"signal", "debounced"})' <=> Queued({"signal", "debounced"})
    BY <2>1 DEF PublishTo, Queued
  <2>3. UNCHANGED <<inProgress, scan, systemConfiguration, shutdownStarted, timer,
                    present>>
    BY <1>10 DEF Publish
  <2>4. QED
    BY <2>2, <2>3, DetectUntouched DEF RescanAhead
<1>11. CASE WriteJsonFiles
  BY <1>0, <1>11, DetectAfterTaking DEF WriteJsonFiles
<1>12. CASE PostToDbus
  <2>1. Head(ready).kind = "post" /\ Head(ready) \in Range(ready)
    BY <1>0, <1>12, DispatchedOnly DEF PostToDbus
  <2>2. Head(ready).count = instance => timer.kind # "debounce"
    BY <1>0, <2>1 DEF SignalInv, NewestWaits, Counted, TypeOK
  <2>3. timer.kind = "debounce" => timer' = timer
    BY <1>12, <2>2 DEF PostToDbus, MayStartRemovedTimer
  <2>4. QED
    BY <1>0, <1>12, <2>3, DetectAfterTaking DEF PostToDbus
<1>13. CASE ReportRemoved
  BY <1>0, <1>13, DetectAfterTaking DEF ReportRemoved
<1>14. ASSUME NEW kind \in Signals, Arrives(kind),
              kind = "signal" \/ present' = present
       PROVE  DetectInv'
  <2>1. [kind |-> kind] \in Handler /\ kind # "run"
    BY DEF Handler, Plain, Signals
  <2>2. Range(ready') = Range(ready) \cup {[kind |-> kind]}
    BY <1>0, <1>14, <2>1, Joined DEF Arrives
  <2>3. Queued({"run"})' <=> Queued({"run"})
    BY <2>1, <2>2 DEF Queued
  <2>4. /\ RescanAhead => RescanAhead'
        /\ kind = "signal" => RescanAhead'
    BY <1>14, <2>2 DEF Arrives, RescanAhead, Queued
  <2>5. QED
    BY <1>14, <2>3, <2>4, DetectUntouched DEF Arrives
<1>15. CASE Environment
  <2>1. /\ "signal" \in Signals /\ "shutdown" \in Signals
        /\ \A on \in BOOLEAN : (IF on THEN "powerOn" ELSE "powerOff") \in Signals
    BY DEF Signals
  <2>2. QED
    BY <1>14, <1>15, <2>1
       DEF Environment, Appears, Disappears, Poke, JobNew, HostState
<1>16. CASE Expires
  <2> DEFINE h == IF timer.kind = "removed"
                  THEN [kind |-> "removed"]
                  ELSE [kind |-> "debounced", count |-> timer.count]
  <2>1. /\ h \in Handler
        /\ (h.kind = "removed" /\ timer.kind = "removed") \/ h.kind = "debounced"
    BY <1>0, <1>16 DEF Expires, Wait, NoWait, Handler, Plain, TypeOK
  <2>2. /\ ready' = Append(ready, h)
        /\ UNCHANGED <<inProgress, scan, systemConfiguration, shutdownStarted,
                       present>>
    BY <1>16 DEF Expires
  <2>3. Range(ready') = Range(ready) \cup {h}
    BY <1>0, <2>1, <2>2, Joined
  <2>4. Queued({"run"})' <=> Queued({"run"})
    BY <2>1, <2>3 DEF Queued
  <2>5. RescanAhead => RescanAhead'
    BY <2>1, <2>2, <2>3 DEF RescanAhead, Queued
  <2>6. QED
    BY <2>2, <2>4, <2>5, DetectUntouched
<1>17. ASSUME NEW d \in Device, Answered(d) PROVE DetectInv'
  <2> DEFINE h == [kind |-> "replies"]
  <2>1. d \in scan.unread /\ inProgress /\ ~Queued(OfScan)
    BY <1>17 DEF Answered, ScanInv, NoScan
  <2>2. /\ scan'.unread = scan.unread \ {d}
        /\ scan'.seen = scan.seen \cup ({d} \cap present)
        /\ UNCHANGED <<inProgress, systemConfiguration, shutdownStarted, timer,
                       present>>
    BY <1>0, <1>17 DEF Answered, TypeOK, Scan
  <2>3. /\ Range(ready) \subseteq Range(ready')
        /\ Range(ready') \subseteq Range(ready) \cup {h}
    BY <1>0, <1>17, Joined DEF Answered, Handler, Plain
  <2>4. ~Queued({"run"}) /\ ~Queued({"run"})'
    BY <2>1, <2>3 DEF Queued, OfScan
  <2>5. RescanAhead => RescanAhead'
    BY <2>2, <2>3 DEF RescanAhead, Queued
  <2>6. \A e \in present : ScanFinds(e) => ScanFinds(e)'
    BY <2>2, <2>4 DEF ScanFinds
  <2>7. QED
    BY <2>2, <2>4, <2>5, <2>6 DEF DetectInv
<1>18. CASE UNCHANGED vars
  BY <1>18, DetectUntouched DEF vars, RescanAhead, Queued
<1>19. QED
  BY <1>1, <1>2, <1>3, <1>4, <1>5, <1>6, <1>7, <1>8, <1>9, <1>10, <1>11,
     <1>12, <1>13, <1>15, <1>16, <1>17, <1>18 DEF Next, Run, Answers

LEMMA DetectInit == Init => DetectInv
<1> SUFFICES ASSUME Init PROVE DetectInv
  OBVIOUS
<1>1. Range(ready) = {[kind |-> "signal"]}
  BY RangeShort DEF Init
<1>2. QED
  BY <1>1 DEF Init, DetectInv, RescanAhead, Queued

\* Once everything has settled, every object on the bus is in the inventory,
\* whenever it appeared: before, under or behind the read of a running scan.
THEOREM AllDetected == Spec => []DetectedWhenQuiet
<1>1. DetectInv => DetectedWhenQuiet
  BY RangeShort DEF DetectInv, DetectedWhenQuiet, Quiescent, RescanAhead, ScanFinds,
     Queued
<1>2. QED
  BY <1>1, TypeInit, TypeStep, SignalInit, SignalStep, ScanInit, ScanStep,
     DetectInit, DetectStep, PTL DEF Spec, SignalInv

-----------------------------------------------------------------------------
(* The promise, and what a shutdown freezes *)

\* A pass of a scan begun or going on is over at once, or leaves it running.
LEMMA StartPassEnds ==
    ASSUME NEW s, NEW rest, StartPass(s, rest)
    PROVE  inProgress' \in BOOLEAN
BY DEF StartPass, Completed

\* Every step of the engine is a step of the promise, or none for its clients.
LEMMA PromiseStep ==
    TypeOK /\ ScanInv /\ [Next]_vars => [Promise!Next]_(Promise!promiseVars)
<1> SUFFICES ASSUME TypeOK, ScanInv, [Next]_vars
             PROVE  \/ Promise!Next
                    \/ UNCHANGED <<dirty, inProgress, shutdownStarted>>
  BY DEF Promise!promiseVars
<1> USE DEF Promise!Next
<1>1. ASSUME propertiesChangedCallback, UNCHANGED <<inProgress, shutdownStarted>>
      PROVE  Promise!Request \/ UNCHANGED <<dirty, inProgress, shutdownStarted>>
  BY <1>1 DEF propertiesChangedCallback, Promise!Request
<1>2. CASE HandleSignal
  BY <1>1, <1>2 DEF HandleSignal
<1>3. CASE HandleShutdown
  BY <1>3 DEF HandleShutdown, Promise!Stop
<1>4. CASE DebouncedStartsScan
  <2>1. ~inProgress /\ ~shutdownStarted /\ inProgress' \in BOOLEAN
    BY <1>4, FirstPassIs, StartPassEnds
  <2>2. dirty' = FALSE /\ UNCHANGED shutdownStarted
    BY <1>4 DEF DebouncedStartsScan
  <2>3. QED
    BY <2>1, <2>2 DEF Promise!Begin
<1>5. CASE DebouncedWhileScanning
  BY <1>1, <1>5 DEF DebouncedWhileScanning
<1>6. ASSUME inProgress, inProgress' \in BOOLEAN, UNCHANGED <<dirty, shutdownStarted>>
      PROVE  Promise!End \/ UNCHANGED <<dirty, inProgress, shutdownStarted>>
  BY <1>6 DEF TypeOK, Promise!End
<1>7. CASE NoProbePasses
  <2>1. ready # <<>> /\ Head(ready).kind = "replies"
    BY <1>7 DEF NoProbePasses
  <2>2. inProgress
    BY <2>1, Requeued DEF ScanInv, Queued, OfScan
  <2>3. QED
    BY <1>6, <1>7, <2>2 DEF NoProbePasses, Completed
<1>8. CASE RunNextPass
  BY <1>6, <1>8, NextPassIs, StartPassEnds DEF RunNextPass
<1>9. CASE \/ \E on \in BOOLEAN : HandlePower(on)
           \/ DebouncedInShutdown \/ ProbesPass \/ Publish \/ WriteJsonFiles
           \/ PostToDbus \/ ReportRemoved
  BY <1>9 DEF HandlePower, DebouncedInShutdown, ProbesPass, Publish,
              WriteJsonFiles, PostToDbus, ReportRemoved
<1>10. CASE Environment \/ Expires \/ Answers
  BY <1>10 DEF Environment, Appears, Disappears, Poke, JobNew, HostState, Arrives,
               Expires, Answers, Answered
<1>11. CASE UNCHANGED vars
  BY <1>11 DEF vars
<1>12. QED
  BY <1>2, <1>3, <1>4, <1>5, <1>7, <1>8, <1>9, <1>10, <1>11 DEF Next, Run

\* The engine implements the promise its clients rely on: a scan begins only
\* while none runs and the system is up, and no request is dropped.
THEOREM EngineImplementsPromise == Spec => Promise!Spec
<1>1. Init => Promise!Init
  BY DEF Init, Promise!Init
<1>2. QED
  BY <1>1, PromiseStep, TypeInit, TypeStep, ScanInit, ScanStep, PTL
     DEF Spec, Promise!Spec

\* Once shutdown began system.json stays as it was and no scan starts.
THEOREM ShutdownFreezesTheFile == Spec => ShutdownFreezes
<1>1. ASSUME TypeOK, ScanInv, [Next]_vars, shutdownStarted
      PROVE  written' = written
  <2> USE <1>1
  <2>1. CASE WriteJsonFiles
    BY <2>1 DEF WriteJsonFiles, Persist
  <2>2. CASE \/ HandleSignal \/ HandleShutdown \/ \E on \in BOOLEAN : HandlePower(on)
             \/ DebouncedStartsScan \/ DebouncedWhileScanning \/ DebouncedInShutdown
             \/ ProbesPass \/ NoProbePasses \/ RunNextPass \/ Publish \/ PostToDbus
             \/ ReportRemoved
    BY <2>2 DEF HandleSignal, HandleShutdown, HandlePower, DebouncedStartsScan,
                DebouncedWhileScanning, DebouncedInShutdown, ProbesPass,
                NoProbePasses, RunNextPass, Publish, PostToDbus, ReportRemoved,
                outputs
  <2>3. CASE Environment \/ Expires \/ Answers
    BY <2>3 DEF Environment, Appears, Disappears, Poke, JobNew, HostState, Arrives,
                Expires, Answers, Answered, outputs
  <2>4. QED
    BY <2>1, <2>2, <2>3 DEF Next, Run, vars
<1>2. ASSUME TypeOK, ScanInv, [Next]_vars, shutdownStarted, ~inProgress
      PROVE  ~inProgress'
  <2>1. [Promise!Next]_(Promise!promiseVars)
    BY <1>2, PromiseStep
  <2>2. QED
    BY <1>2, <2>1 DEF Promise!Next, Promise!Request, Promise!Begin, Promise!End,
                      Promise!Stop, Promise!promiseVars
<1>3. TypeOK /\ ScanInv /\ [Next]_vars =>
        [shutdownStarted => /\ written' = written
                            /\ ~inProgress => ~inProgress']_vars
  BY <1>1, <1>2
<1>4. QED
  BY <1>3, TypeInit, TypeStep, ScanInit, ScanStep, PTL DEF Spec, ShutdownFreezes

=============================================================================

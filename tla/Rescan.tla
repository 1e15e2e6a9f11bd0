------------------------------- MODULE Rescan -------------------------------
(***************************************************************************)
(* The rescan engine of entity-manager (entity_manager.cpp): D-Bus signals *)
(* are debounced through one steady_timer, at most one PerformScan runs at *)
(* a time, a finished scan is published by a chain of posted handlers, and *)
(* the SAME timer then delays the report of devices that did not come back *)
(* since the previous boot.                                                *)
(*                                                                         *)
(* The process is single threaded: `ready' is the io_context's queue and   *)
(* every handler runs to its end before the next one starts.  Signals,     *)
(* expired timers and D-Bus replies join the queue at its end, so whatever *)
(* one handler posts runs after everything that was ready before.          *)
(*                                                                         *)
(* A device stands for one configuration, the D-Bus object its probe       *)
(* matches and the record it adds.  PerformScan's probing is abstracted to *)
(* one read per device here and is detailed in module PerformScan.         *)
(***************************************************************************)
EXTENDS Naturals, Sequences, FiniteSets, Functions

CONSTANTS
    Device,       \* configurations, each with the one D-Bus object it probes
    Templated,    \* configurations whose Name has a template: never skipped
    NeedsPower,   \* records whose PowerState is On or BiosPost
    MaxInstance,  \* bound on propertiesChangedInstance
    MaxReady      \* bound on queued handlers when the environment adds one

ASSUME TemplatedAssumption == Templated \subseteq Device
ASSUME NeedsPowerAssumption == NeedsPower \subseteq Device
ASSUME BoundsAssumption == MaxInstance \in Nat /\ MaxReady \in Nat

VARIABLES
    ready,             \* posted handlers, in the order they will run
    timer,             \* the wait pending on propertiesChangedTimer
    instance,          \* propertiesChangedInstance
    inProgress,        \* propertiesChangedInProgress
    scan,              \* the PerformScan in flight
    systemConfiguration,
    lastJson,          \* what the previous run of the process persisted
    published,         \* records postToDbus has created interfaces for
    written,           \* the records in system.json
    shutdownStarted,
    powerStatusOn,
    scannedPowerOff,
    scannedPowerOn,
    reported,          \* records the removal timer logged as removed
    present,           \* environment: objects on the bus
    dirty              \* history: a signal was handled, no scan began since

vars == <<ready, timer, instance, inProgress, scan, systemConfiguration,
          lastJson, published, written, shutdownStarted, powerStatusOn,
          scannedPowerOff, scannedPowerOn, reported, present, dirty>>

power == <<powerStatusOn, scannedPowerOff, scannedPowerOn, reported>>
outputs == <<published, written>>

-----------------------------------------------------------------------------
(* Handlers, waits and scans *)

Signals == {"signal", "shutdown", "powerOn", "powerOff"}
Plain == Signals \cup {"removed", "replies", "run", "write"}

Counted == {"debounced", "publish", "post"}

Handler == [kind : Plain] \cup [kind : {"debounced"}, count : Nat]
             \cup [kind : {"publish", "post"}, count : Nat,
                   new : SUBSET Device]

Wait == [kind : {"none", "removed"}] \cup [kind : {"debounce"}, count : Nat]

NoWait == [kind |-> "none"]

\* The count captured by the completion, the snapshot of the configuration
\* when the scan began, the records still missing, what GetAll returned, the
\* names that passed, and the objects whose reply is outstanding.
Scan == [count : Nat, old : SUBSET Device, missing : SUBSET Device,
         seen : SUBSET Device, passed : SUBSET Device,
         unread : SUBSET Device]

NoScan == [count |-> 0, old |-> {}, missing |-> {}, seen |-> {},
           passed |-> {}, unread |-> {}]

Queued(K) == \E h \in Range(ready) : h.kind \in K

TypeOK ==
    /\ ready \in Seq(Handler)
    /\ timer \in Wait
    /\ instance \in Nat
    /\ inProgress \in BOOLEAN
    /\ scan \in Scan
    /\ systemConfiguration \in SUBSET Device
    /\ lastJson \in SUBSET Device
    /\ published \in SUBSET Device
    /\ written \in SUBSET Device
    /\ shutdownStarted \in BOOLEAN
    /\ powerStatusOn \in BOOLEAN
    /\ scannedPowerOff \in BOOLEAN
    /\ scannedPowerOn \in BOOLEAN
    /\ reported \in SUBSET Device
    /\ present \in SUBSET Device
    /\ dirty \in BOOLEAN

\* main(): lastJson is loaded before io.run(), and the first scan is posted.
Init ==
    /\ ready = <<[kind |-> "signal"]>>
    /\ timer = NoWait
    /\ instance = 0
    /\ inProgress = FALSE
    /\ scan = NoScan
    /\ systemConfiguration = {}
    /\ lastJson \in SUBSET Device
    /\ published = {}
    /\ written = {}
    /\ shutdownStarted = FALSE
    /\ powerStatusOn = FALSE
    /\ scannedPowerOff = FALSE
    /\ scannedPowerOn = FALSE
    /\ reported = {}
    /\ present \in SUBSET Device
    /\ dirty = FALSE

-----------------------------------------------------------------------------
(* Triggers and the debounce timer *)

RearmWithoutCounting ==
    IF shutdownStarted
    THEN UNCHANGED <<instance, timer, dirty>>
    ELSE /\ timer' = [kind |-> "debounce", count |-> instance]
         /\ dirty' = TRUE
         /\ UNCHANGED instance

\* propertiesChangedCallback(): a new wait replaces whatever wait was pending
\* on the timer; the handler of the replaced wait only sees aborted.
propertiesChangedCallback ==
    IF shutdownStarted
    THEN UNCHANGED <<instance, timer, dirty>>
    ELSE /\ instance' = instance + 1
         /\ timer' = [kind |-> "debounce", count |-> instance + 1]
         /\ dirty' = TRUE

\* The handler at the head of the queue has this kind and posts these others.
Dispatch(kind, posted) ==
    /\ ready # <<>>
    /\ Head(ready).kind = kind
    /\ ready' = Tail(ready) \o posted

\* NameOwnerChanged, InterfacesAdded, InterfacesRemoved, PropertiesChanged,
\* the ReScan method, and main's first post.
HandleSignal ==
    /\ Dispatch("signal", <<>>)
    /\ propertiesChangedCallback
    /\ UNCHANGED <<inProgress, scan, systemConfiguration, lastJson, outputs,
                   shutdownStarted, power, present>>

\* onJobNew for a shutdown unit.
HandleShutdown ==
    /\ Dispatch("shutdown", <<>>)
    /\ shutdownStarted' = TRUE
    /\ UNCHANGED <<timer, instance, inProgress, scan, systemConfiguration,
                   lastJson, outputs, power, present, dirty>>

\* handlePowerMatch, and the reply to getInitialPowerStatus.
HandlePower(on) ==
    /\ Dispatch(IF on THEN "powerOn" ELSE "powerOff", <<>>)
    /\ powerStatusOn' = on
    /\ UNCHANGED <<timer, instance, inProgress, scan, systemConfiguration,
                   lastJson, outputs, shutdownStarted, scannedPowerOff,
                   scannedPowerOn, reported, present, dirty>>

-----------------------------------------------------------------------------
(* One rescan *)

\* Configurations PerformScan::processConfigurations still probes.
Candidates(s) ==
    Device \ (s.passed \cup (systemConfiguration \ Templated))

\* PerformScan::run(): every record already in systemConfiguration is struck
\* off the missing ones, then the objects of the remaining configurations
\* that no earlier pass fetched are asked for.
RunPass(s) ==
    [s EXCEPT !.missing = @ \ systemConfiguration,
              !.unread = Candidates(s) \ s.seen]

\* deriveNewConfiguration: the records that were not there when it began.
DeriveFromLastJson(s, kept) == kept \ (s.old \cup lastJson)
DeriveNothing(s, kept) == kept
DeriveNew(s, kept) == kept \ s.old

\* pruneConfiguration: a record behind host power is kept while power is off,
\* because nothing can be said about it.
Pruned(s) == {d \in s.missing : powerStatusOn \/ d \notin NeedsPower}

\* The completion given to PerformScan: prune, derive what is new, publish.
Completed(s, rest) ==
    LET kept == systemConfiguration \ Pruned(s)
    IN  /\ systemConfiguration' = kept
        /\ published' = published \ Pruned(s)
        /\ inProgress' = FALSE
        /\ scan' = NoScan
        /\ ready' = Append(rest, [kind |-> "publish", count |-> s.count,
                                  new |-> DeriveNew(s, kept)])

\* Nothing to ask for: the scan ends in the handler that ran it.
StartPass(s, rest) ==
    IF s.unread = {}
    THEN Completed(s, rest)
    ELSE /\ scan' = s
         /\ inProgress' = TRUE
         /\ ready' = rest
         /\ UNCHANGED <<systemConfiguration, published>>

BeginAnyTime == TRUE
MayBeginScan == ~inProgress

\* propertiesChangedCallbackDebounced while no scan runs.
DebouncedStartsScan ==
    /\ ready # <<>>
    /\ Head(ready).kind = "debounced"
    /\ ~shutdownStarted
    /\ MayBeginScan
    /\ StartPass(RunPass([NoScan EXCEPT !.count = Head(ready).count,
                                        !.old = systemConfiguration,
                                        !.missing = systemConfiguration]),
                 Tail(ready))
    /\ dirty' = FALSE
    /\ UNCHANGED <<timer, instance, lastJson, written, shutdownStarted, power,
                   present>>

DropWhileScanning ==
    /\ Dispatch("debounced", <<>>)
    /\ ~shutdownStarted
    /\ inProgress
    /\ UNCHANGED <<timer, instance, inProgress, scan, systemConfiguration,
                   lastJson, outputs, shutdownStarted, power, present, dirty>>

\* ... while a scan runs: debounce again.
DebouncedWhileScanning ==
    /\ Dispatch("debounced", <<>>)
    /\ ~shutdownStarted
    /\ inProgress
    /\ propertiesChangedCallback
    /\ UNCHANGED <<inProgress, scan, systemConfiguration, lastJson, outputs,
                   shutdownStarted, power, present>>

\* ... after shutdown began: dropped.
DebouncedInShutdown ==
    /\ Dispatch("debounced", <<>>)
    /\ shutdownStarted
    /\ UNCHANGED <<timer, instance, inProgress, scan, systemConfiguration,
                   lastJson, outputs, shutdownStarted, power, present, dirty>>

\* The last reply of a pass releases the probes, which are evaluated in their
\* destructors, and then the PerformScan: another pass when a probe passed.
ProbesPass ==
    LET passing == Candidates(scan) \cap scan.seen
    IN  /\ Dispatch("replies", <<[kind |-> "run"]>>)
        /\ passing # {}
        /\ systemConfiguration' = systemConfiguration \cup passing
        /\ scan' = [scan EXCEPT !.passed = @ \cup passing]
        /\ UNCHANGED <<timer, instance, inProgress, lastJson, outputs,
                       shutdownStarted, power, present, dirty>>

NoProbePasses ==
    /\ ready # <<>>
    /\ Head(ready).kind = "replies"
    /\ Candidates(scan) \cap scan.seen = {}
    /\ Completed(scan, Tail(ready))
    /\ UNCHANGED <<timer, instance, lastJson, written, shutdownStarted, power,
                   present, dirty>>

RunNextPass ==
    /\ ready # <<>>
    /\ Head(ready).kind = "run"
    /\ StartPass(RunPass(scan), Tail(ready))
    /\ UNCHANGED <<timer, instance, lastJson, written, shutdownStarted, power,
                   present, dirty>>

-----------------------------------------------------------------------------
(* Publishing *)

\* publishNewConfiguration: the file and the interfaces follow in handlers of
\* their own.
Publish ==
    /\ ready # <<>>
    /\ Dispatch("publish", <<[kind |-> "write"],
                             [Head(ready) EXCEPT !.kind = "post"]>>)
    /\ UNCHANGED <<timer, instance, inProgress, scan, systemConfiguration,
                   lastJson, outputs, shutdownStarted, power, present, dirty>>

PersistAlways == systemConfiguration
Persist == IF shutdownStarted THEN written ELSE systemConfiguration

\* writeJsonFiles(systemConfiguration)
WriteJsonFiles ==
    /\ Dispatch("write", <<>>)
    /\ written' = Persist
    /\ UNCHANGED <<timer, instance, inProgress, scan, systemConfiguration,
                   lastJson, published, shutdownStarted, power, present,
                   dirty>>

\* startRemovedTimer: the early returns, then a wait on the shared timer.
startRemovedTimer ==
    IF \/ systemConfiguration = {}
       \/ lastJson = {}
       \/ scannedPowerOn
       \/ ~powerStatusOn /\ scannedPowerOff
    THEN UNCHANGED timer
    ELSE timer' = [kind |-> "removed"]

StartWhenever(count) == TRUE
StartWhenStale(count) == count # instance

\* The timer may only be taken while no newer signal has armed it.
MayStartRemovedTimer(count) == count = instance

\* postToDbus(newConfiguration), then the report of removed devices.
PostToDbus ==
    /\ Dispatch("post", <<>>)
    /\ published' = published \cup Head(ready).new
    /\ IF MayStartRemovedTimer(Head(ready).count)
       THEN startRemovedTimer
       ELSE UNCHANGED timer
    /\ UNCHANGED <<instance, inProgress, scan, systemConfiguration, lastJson,
                   written, shutdownStarted, power, present, dirty>>

\* pruneDevice for one record of lastJson.
Reportable(d) ==
    /\ d \notin systemConfiguration
    /\ ~(d \in NeedsPower /\ (~powerStatusOn \/ scannedPowerOff))

\* The removal timer's handler.
ReportRemoved ==
    /\ Dispatch("removed", <<>>)
    /\ reported' = reported \cup {d \in lastJson : Reportable(d)}
    /\ scannedPowerOff' = TRUE
    /\ scannedPowerOn' = (scannedPowerOn \/ powerStatusOn)
    /\ UNCHANGED <<timer, instance, inProgress, scan, systemConfiguration,
                   lastJson, outputs, shutdownStarted, powerStatusOn, present,
                   dirty>>

-----------------------------------------------------------------------------
(* The event loop's sources *)

\* Counts that queued handlers may still add to the instance.
Outstanding ==
    Cardinality({i \in 1..Len(ready) : ready[i].kind \in {"signal", "debounced"}})

Arrives(kind) ==
    /\ Len(ready) < MaxReady
    /\ kind = "signal" => instance + Outstanding < MaxInstance
    /\ ready' = Append(ready, [kind |-> kind])
    /\ UNCHANGED <<timer, instance, inProgress, scan, systemConfiguration,
                   lastJson, outputs, shutdownStarted, power, dirty>>

\* An object appears on or leaves the bus, and its signal is sent.
Appears(d) == d \notin present /\ present' = present \cup {d} /\ Arrives("signal")
Disappears(d) == d \in present /\ present' = present \ {d} /\ Arrives("signal")

\* A name owner or a property changes, or a client calls ReScan.
Poke == UNCHANGED present /\ Arrives("signal")

\* systemd queues a shutdown job, or the host changes its power state.
JobNew == UNCHANGED present /\ ~Queued({"shutdown"}) /\ ~shutdownStarted
            /\ Arrives("shutdown")
HostState(on) ==
    /\ UNCHANGED present
    /\ ~Queued({"powerOn", "powerOff"})
    /\ powerStatusOn # on
    /\ Arrives(IF on THEN "powerOn" ELSE "powerOff")

\* The timer expires: its handler can no longer be cancelled.  (The bound keeps
\* a scan from being debounced behind for ever: it lets the wait outlast it.)
Expires ==
    /\ timer # NoWait
    /\ \/ instance + Outstanding < MaxInstance
       \/ ~inProgress /\ ~Queued({"debounced"})
       \/ timer.kind = "removed"
    /\ timer' = NoWait
    /\ ready' = Append(ready,
                       IF timer.kind = "removed"
                       THEN [kind |-> "removed"]
                       ELSE [kind |-> "debounced", count |-> timer.count])
    /\ UNCHANGED <<instance, inProgress, scan, systemConfiguration, lastJson,
                   outputs, shutdownStarted, power, present, dirty>>

\* A GetAll is answered with what is on the bus then (or fails for an object
\* that is gone); the pass goes on once the last answer is in.
Answered(d) ==
    /\ d \in scan.unread
    /\ scan' = [scan EXCEPT !.unread = @ \ {d},
                            !.seen = @ \cup ({d} \cap present)]
    /\ ready' = IF scan.unread = {d}
                THEN Append(ready, [kind |-> "replies"])
                ELSE ready
    /\ UNCHANGED <<timer, instance, inProgress, systemConfiguration, lastJson,
                   outputs, shutdownStarted, power, present, dirty>>

-----------------------------------------------------------------------------

Run ==
    \/ HandleSignal
    \/ HandleShutdown
    \/ \E on \in BOOLEAN : HandlePower(on)
    \/ DebouncedStartsScan
    \/ DebouncedWhileScanning
    \/ DebouncedInShutdown
    \/ ProbesPass
    \/ NoProbePasses
    \/ RunNextPass
    \/ Publish
    \/ WriteJsonFiles
    \/ PostToDbus
    \/ ReportRemoved

Environment ==
    \/ \E d \in Device : Appears(d) \/ Disappears(d)
    \/ Poke
    \/ JobNew
    \/ \E on \in BOOLEAN : HostState(on)

Answers == \E d \in Device : Answered(d)

Next == Run \/ Environment \/ Expires \/ Answers

Spec == Init /\ [][Next]_vars

\* The loop runs what is ready, a wait expires, and a D-Bus call is answered:
\* it succeeds, fails, or times out and is given up after its retries.
FairSpec == Spec /\ WF_vars(Run) /\ WF_vars(Expires) /\ WF_vars(Answers)

-----------------------------------------------------------------------------
(* Properties *)

\* No signal is lost: once propertiesChangedCallback has taken a signal, a wait
\* or an expired wait that will start a scan exists until a scan begins, even
\* though startRemovedTimer takes the same timer and a busy engine re-arms it.
NoSignalLost ==
    dirty => \/ shutdownStarted
             \/ timer.kind = "debounce"
             \/ Queued({"debounced"})

\* The pending debounce wait carries the newest count, and neither the running
\* scan nor any queued handler carries it too: `count == instance' therefore
\* tells a publication that no wait would be cancelled by taking the timer.
NewestWaits ==
    timer.kind = "debounce" =>
        /\ timer.count = instance
        /\ scan.count < instance
        /\ \A h \in Range(ready) : h.kind \in Counted => h.count < instance

Quiescent == ready = <<>> /\ ~inProgress /\ timer.kind # "debounce"

\* Once everything has settled, every object on the bus is in the inventory,
\* also one that appeared after the running scan had read it as absent.
DetectedWhenQuiet ==
    Quiescent /\ ~shutdownStarted => present \subseteq systemConfiguration

\* Once everything has settled, D-Bus and system.json show the configuration:
\* no record falls between the snapshot of one scan and that of the next.
OutputsAgree ==
    Quiescent => /\ published = systemConfiguration
                 /\ shutdownStarted \/ written = systemConfiguration

Unpublished == {i \in 1..Len(ready) : ready[i].kind \in {"publish", "post"}}

\* postToDbus never creates the interfaces of a record a second time, though a
\* scan may complete before the previous one has been published.
NeverPublishedTwice ==
    \A i \in Unpublished :
        /\ ready[i].new \cap published = {}
        /\ \A j \in Unpublished \ {i} : ready[i].new \cap ready[j].new = {}

\* After shutdown began no scan starts and system.json stays as it was, so the
\* providers that leave the bus first cannot cost the next boot its records.
ShutdownFreezes ==
    [][shutdownStarted => /\ written' = written
                          /\ ~inProgress => ~inProgress']_vars

\* With something to compare, the removal timer fires after the last signal,
\* though every signal and every scan in between takes the timer from it.
RemovalIsDecided ==
    (systemConfiguration # {} /\ lastJson # {})
        ~> (scannedPowerOff \/ shutdownStarted)

Promise == INSTANCE RescanPromise
             WITH pending <- dirty, scanning <- inProgress,
                  stopped <- shutdownStarted

\* The engine implements the promise its clients rely on.
KeepsPromise == Promise!FairSpec

\* README.md, Requirement 4, and the comment on the completion (entity_manager
\* .cpp): a record whose hardware is no longer seen is pruned by a rescan.
UndetectedIsPruned ==
    Quiescent /\ ~shutdownStarted /\ powerStatusOn
        => systemConfiguration \subseteq present

=============================================================================

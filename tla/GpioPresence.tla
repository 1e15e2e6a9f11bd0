---------------------------- MODULE GpioPresence ------------------------------
(***************************************************************************)
(* The gpio-presence daemon: configurations come and go on D-Bus           *)
(* (config_provider.cpp), each names GPIO lines and the levels that mean   *)
(* its device is there (device_presence.cpp), and one coroutine per line   *)
(* waits for edges (gpio_presence_manager.cpp).                            *)
(*                                                                         *)
(* Coroutines run one at a time, in the order they became ready.  What the *)
(* entity manager sends reaches the daemon in the order it was sent:       *)
(* sending appends to `ready', so a message still on its way is one not    *)
(* sent yet.  An exception that leaves a coroutine ends the process, which *)
(* systemd starts again (Restart=always).                                  *)
(***************************************************************************)
EXTENDS Naturals, Sequences, FiniteSets, Functions, SequencesExt

CONSTANTS
    Config,      \* object paths of configurations
    Line,        \* GPIO lines
    Pins,        \* configuration -> its lines and the level each must have
    Faulty,      \* lines that may be faulty: requesting or reading one may fail
    MaxChanges   \* bound on what the entity manager and the hardware do

ASSUME PinsAssumption ==
    \A c \in Config : DOMAIN Pins[c] \subseteq Line /\ Range(Pins[c]) \subseteq BOOLEAN
ASSUME FaultyAssumption == Faulty \subseteq Line
ASSUME FiniteAssumption ==
    IsFiniteSet(Config) /\ \A c \in Config : IsFiniteSet(DOMAIN Pins[c])
ASSUME BoundAssumption == MaxChanges \in Nat

VARIABLES
    exported,     \* environment: configurations on D-Bus
    level,        \* environment: the level of each line
    changes,
    faulty,       \* environment: the lines that are faulty
    calls,        \* calls to the entity manager it has not answered, in order
    mapper,       \* GetSubTree: "asked" or "done"
    matching,     \* the InterfacesAdded and InterfacesRemoved matches exist
    ready,        \* coroutines that can run, and messages, in order
    edges,        \* lines with an edge event nobody has read
    up,           \* the process runs
    presenceMap,
    detectedIface,\* configurations whose DevicePresence interface is there
    gpioState,
    gpioLines,
    fdios,
    waiting,      \* lines whose coroutine waits in fdio->next()
    missed        \* history: exported, and nothing on its way or handled tells of it

world == <<exported, level, changes, faulty>>
process == <<calls, mapper, matching, ready, up, presenceMap, detectedIface,
             gpioState, gpioLines, fdios, waiting, missed>>
vars == <<world, edges, process>>

Lines(c) == DOMAIN Pins[c]

Call == [kind : {"properties", "compatible"}, config : Config]
Task == Call \cup [kind : {"added", "removed", "unknown"}, config : Config]
             \cup [kind : {"start", "resume", "stale"}, line : Line]
             \cup [kind : {"match"}] \cup [kind : {"subtree"}, configs : SUBSET Config]

TypeOK ==
    /\ exported \in SUBSET Config
    /\ level \in [Line -> BOOLEAN]
    /\ changes \in 0..MaxChanges
    /\ faulty \in SUBSET Faulty
    /\ calls \in Seq(Call)
    /\ mapper \in {"asked", "done"}
    /\ matching \in BOOLEAN
    /\ ready \in Seq(Task)
    /\ edges \in SUBSET Line
    /\ up \in BOOLEAN
    /\ presenceMap \in SUBSET Config
    /\ detectedIface \in SUBSET presenceMap
    /\ DOMAIN gpioState \in SUBSET Line /\ Range(gpioState) \subseteq BOOLEAN
    /\ gpioLines \in SUBSET Line
    /\ fdios \in SUBSET gpioLines
    /\ waiting \in SUBSET fdios  \* so no coroutine waits on a freed fdio
    /\ missed \in SUBSET Config

\* main() and initialize(): the handlers are spawned, that is queued; GetSubTree
\* is called at once.
Started ==
    /\ calls' = <<>>
    /\ mapper' = "asked"
    /\ matching' = FALSE
    /\ ready' = <<[kind |-> "match"]>>
    /\ up' = TRUE
    /\ presenceMap' = {}
    /\ detectedIface' = {}
    /\ gpioState' = <<>>
    /\ gpioLines' = {}
    /\ fdios' = {}
    /\ waiting' = {}
    /\ missed' = exported

Init ==
    /\ exported \in SUBSET Config
    /\ level \in [Line -> BOOLEAN]
    /\ changes = 0
    /\ faulty \in SUBSET Faulty
    /\ edges = {}
    /\ calls = <<>>
    /\ mapper = "asked"
    /\ matching = FALSE
    /\ ready = <<[kind |-> "match"]>>
    /\ up = TRUE
    /\ presenceMap = {}
    /\ detectedIface = {}
    /\ gpioState = <<>>
    /\ gpioLines = {}
    /\ fdios = {}
    /\ waiting = {}
    /\ missed = exported

-----------------------------------------------------------------------------
(* The coroutines *)

Run(kind, posted) ==
    /\ up
    /\ ready # <<>>
    /\ Head(ready).kind = kind
    /\ ready' = Tail(ready) \o posted

\* An exception leaves a coroutine: the process ends, the kernel releases its
\* lines and D-Bus its interfaces.
Dies ==
    /\ up' = FALSE
    /\ ready' = <<>>
    /\ calls' = <<>>
    /\ presenceMap' = {}
    /\ detectedIface' = {}
    /\ waiting' = {}
    /\ gpioLines' = {}
    /\ fdios' = {}
    /\ edges' = {}
    /\ UNCHANGED <<mapper, matching, gpioState, missed>>

Restart ==
    /\ ~up
    /\ Started
    /\ UNCHANGED <<world, edges>>

SetUpMatches ==
    /\ Run("match", <<>>)
    /\ matching' = TRUE
    /\ UNCHANGED <<world, edges, calls, mapper, up, presenceMap, detectedIface,
                   gpioState, gpioLines, fdios, waiting, missed>>

Fetch(c) == [kind |-> "properties", config |-> c]

FetchEach(configs) ==
    [i \in 1..Cardinality(configs) |-> Fetch(SetToSeq(configs)[i])]

\* getConfig resumes: every configuration GetSubTree returned is fetched, none
\* if it failed.
GetConfig ==
    /\ Run("subtree", <<>>)
    /\ calls' = calls \o FetchEach(Head(ready).configs)
    /\ UNCHANGED <<world, edges, mapper, matching, up, presenceMap,
                   detectedIface, gpioState, gpioLines, fdios, waiting, missed>>

HandleInterfacesAdded ==
    /\ Run("added", <<>>)
    /\ calls' = Append(calls, Fetch(Head(ready).config))
    /\ UNCHANGED <<world, edges, mapper, matching, up, presenceMap,
                   detectedIface, gpioState, gpioLines, fdios, waiting, missed>>

\* addConfigFromDbusAsync after its first co_await: ask for the Compatible
\* names of the parent.
PropertiesReturned ==
    /\ Run("properties", <<>>)
    /\ calls' = Append(calls, [kind |-> "compatible", config |-> Head(ready).config])
    /\ UNCHANGED <<world, edges, mapper, matching, up, presenceMap,
                   detectedIface, gpioState, gpioLines, fdios, waiting, missed>>

\* ... or the error that nobody catches: the object had gone.
PropertiesFailed ==
    /\ up
    /\ ready # <<>>
    /\ Head(ready).kind = "unknown"
    /\ Dies
    /\ UNCHANGED world

-----------------------------------------------------------------------------
(* DevicePresence *)

AnyPin(c, state) == \E l \in Lines(c) : l \in DOMAIN state /\ state[l] = Pins[c][l]

\* isPresent: every line is known and has the level of its polarity.
isPresent(c, state) ==
    \A l \in Lines(c) : l \in DOMAIN state /\ state[l] = Pins[c][l]

\* updateGPIOPresence(line) of each configuration in C: the interface follows.
Updated(C, affected, state) ==
    (C \ affected) \cup {c \in affected : isPresent(c, state)}

\* updatePresence: the cached level, then every configuration with this line.
UpdatePresence(l, value) ==
    LET state == [x \in DOMAIN gpioState \cup {l} |-> IF x = l THEN value ELSE gpioState[x]]
    IN  /\ gpioState' = state
        /\ detectedIface' = Updated(detectedIface,
                                    {c \in presenceMap : l \in Lines(c)}, state)

-----------------------------------------------------------------------------
(* Adding and removing configurations *)

\* Lines addConfig requests: those no configuration has asked for yet.
Untracked(wanted) == wanted \ gpioLines

SpawnOneReader(lines) ==
    SelectSeq([i \in 1..Cardinality(lines) |-> [kind |-> "start", line |-> SetToSeq(lines)[i]]],
              LAMBDA t : t.line = SetToSeq(lines)[1])
SpawnReaders(lines) ==
    [i \in 1..Cardinality(lines) |-> [kind |-> "start", line |-> SetToSeq(lines)[i]]]

\* addConfig(obj): restore presence from the cached levels, then request the
\* lines.  The loop returns at the first line that fails; one that was found
\* but could not be requested stays in gpioLines.
AddConfig ==
    /\ up
    /\ ready # <<>>
    /\ Head(ready).kind = "compatible"
    /\ LET c == Head(ready).config
           new == Untracked(Lines(c))
       IN  /\ presenceMap' = presenceMap \cup {c}
           /\ detectedIface' = Updated(detectedIface \ {c},
                  IF Lines(c) \cap DOMAIN gpioState = {} THEN {} ELSE {c}, gpioState)
           /\ \E requested \in SUBSET new, failed \in SUBSET (new \cap faulty) :
                /\ \/ failed = {} /\ requested = new
                   \/ Cardinality(failed) = 1 /\ requested \cap failed = {}
                /\ gpioLines' = gpioLines \cup requested \cup failed
                /\ fdios' = fdios \cup requested
                /\ ready' = Tail(ready) \o SpawnReaders(requested)
    /\ UNCHANGED <<world, edges, calls, mapper, matching, up, gpioState, waiting,
                   missed>>

ReleaseItsOwn(c, others) == Lines(c) \cap gpioLines
\* Lines no configuration needs any more.
Unneeded(c, others) == gpioLines \ UNION {Lines(o) : o \in others}

\* The DevicePresence goes, and its interface with it.
Withdrawn(c) == detectedIface \ {c}

\* A coroutine that was about to resume keeps a reference to a freed fdio.
Orphaned(tasks, released) ==
    [i \in 1..Len(tasks) |->
        IF tasks[i].kind = "resume" /\ tasks[i].line \in released
        THEN [tasks[i] EXCEPT !.kind = "stale"] ELSE tasks[i]]

\* removeConfig: a configuration that is not there yet is ignored; its lines
\* are released when no other one needs them.  Erasing a missing fdio (a line
\* that could not be requested) is undefined: the process may end.
RemoveConfig ==
    /\ up
    /\ ready # <<>>
    /\ Head(ready).kind = "removed"
    /\ LET c == Head(ready).config
           others == presenceMap \ {c}
           released == IF c \in presenceMap THEN Unneeded(c, others) ELSE {}
       IN  \/ /\ presenceMap' = others
              /\ detectedIface' = Withdrawn(c)
              /\ gpioLines' = gpioLines \ released
              /\ fdios' = fdios \ released
              /\ waiting' = waiting \ released
              /\ edges' = edges \ released
              /\ ready' = Orphaned(Tail(ready), released)
              /\ UNCHANGED <<calls, mapper, matching, up, gpioState, missed>>
           \/ ~(released \subseteq fdios) /\ Dies
    /\ UNCHANGED world

-----------------------------------------------------------------------------
(* One coroutine per line *)

get_value_cached(l) == IF l \in DOMAIN gpioState THEN gpioState[l] ELSE level[l]
get_value(l) == level[l]

Ends == UNCHANGED <<gpioState, detectedIface, waiting, edges>>

\* readGPIOAsyncEvent starts: the fdio may have gone already, or the first read
\* fails; otherwise it waits, which is fatal if another coroutine does so.
ReaderStarts ==
    /\ up
    /\ ready # <<>>
    /\ Head(ready).kind = "start"
    /\ LET l == Head(ready).line
       IN  \/ /\ l \notin waiting
              /\ ready' = Tail(ready)
              /\ \/ l \notin fdios \ faulty /\ Ends
                 \/ /\ l \in fdios
                    /\ UpdatePresence(l, get_value(l))
                    /\ waiting' = waiting \cup {l}
                    /\ UNCHANGED edges
              /\ UNCHANGED <<calls, mapper, matching, up, presenceMap,
                             gpioLines, fdios, missed>>
           \/ l \in waiting /\ Dies
    /\ UNCHANGED world

\* fdio->next() returns: read the event and the level, and wait again.
ReaderResumes ==
    /\ up
    /\ ready # <<>>
    /\ Head(ready).kind = "resume"
    /\ LET l == Head(ready).line
       IN  \/ /\ l \notin waiting
              /\ ready' = Tail(ready)
              /\ edges' = edges \ {l}
              /\ waiting' = waiting \cup {l}
              /\ UpdatePresence(l, get_value(l))
              /\ UNCHANGED <<calls, mapper, matching, up, presenceMap,
                             gpioLines, fdios, missed>>
           \/ l \in waiting /\ Dies
    /\ UNCHANGED world

\* ... after the line was released: gpioLines[line] is an empty line, which
\* throws.  If the line was requested again meanwhile it is read, and the wait
\* on the freed fdio is undefined: the process or the coroutine ends.
StaleReaderResumes ==
    /\ up
    /\ ready # <<>>
    /\ Head(ready).kind = "stale"
    /\ LET l == Head(ready).line
       IN  \/ Dies
           \/ /\ l \in fdios
              /\ ready' = Tail(ready)
              /\ edges' = edges \ {l}
              /\ UpdatePresence(l, get_value(l))
              /\ UNCHANGED <<calls, mapper, matching, up, presenceMap, gpioLines,
                             fdios, waiting, missed>>
    /\ UNCHANGED world

-----------------------------------------------------------------------------
(* The entity manager, the mapper, the hardware *)

Sends(kind, c) ==
    ready' = IF up /\ matching THEN Append(ready, [kind |-> kind, config |-> c]) ELSE ready

Export(c) ==
    /\ changes < MaxChanges
    /\ changes' = changes + 1
    /\ c \notin exported
    /\ exported' = exported \cup {c}
    /\ Sends("added", c)
    /\ missed' = IF up /\ matching THEN missed ELSE missed \cup {c}
    /\ UNCHANGED <<level, faulty, edges, calls, mapper, matching, up, presenceMap,
                   detectedIface, gpioState, gpioLines, fdios, waiting>>

Unexport(c) ==
    /\ changes < MaxChanges
    /\ changes' = changes + 1
    /\ c \in exported
    /\ exported' = exported \ {c}
    /\ Sends("removed", c)
    /\ missed' = missed \ {c}
    /\ UNCHANGED <<level, faulty, edges, calls, mapper, matching, up, presenceMap,
                   detectedIface, gpioState, gpioLines, fdios, waiting>>

\* It answers its calls in turn; the Compatible names are optional.
Answer ==
    /\ calls # <<>>
    /\ calls' = Tail(calls)
    /\ ready' = Append(ready,
           IF Head(calls).kind = "properties" /\ Head(calls).config \notin exported
           THEN [Head(calls) EXCEPT !.kind = "unknown"]
           ELSE Head(calls))
    /\ UNCHANGED <<world, edges, mapper, matching, up, presenceMap, detectedIface,
                   gpioState, gpioLines, fdios, waiting, missed>>

\* GetSubTree answers with what is exported, or fails: getConfig catches that,
\* goes on with nothing and does not ask again.
AnswerSubTree ==
    /\ up
    /\ mapper = "asked"
    /\ mapper' = "done"
    /\ \E res \in {exported, {}} :
          /\ ready' = Append(ready, [kind |-> "subtree", configs |-> res])
          /\ missed' = missed \ res
    /\ UNCHANGED <<world, edges, calls, matching, up, presenceMap, detectedIface,
                   gpioState, gpioLines, fdios, waiting>>

\* A line changes; one that is requested has an event to read.
Toggle(l) ==
    /\ changes < MaxChanges
    /\ changes' = changes + 1
    /\ level' = [level EXCEPT ![l] = ~@]
    /\ edges' = edges \cup ({l} \cap fdios)
    /\ UNCHANGED <<exported, faulty, process>>

\* The event loop sees the event and resumes the coroutine that waits for it.
Edge(l) ==
    /\ l \in edges \cap waiting
    /\ waiting' = waiting \ {l}
    /\ ready' = Append(ready, [kind |-> "resume", line |-> l])
    /\ UNCHANGED <<world, edges, calls, mapper, matching, up, presenceMap,
                   detectedIface, gpioState, gpioLines, fdios, missed>>

-----------------------------------------------------------------------------

Coroutine ==
    \/ SetUpMatches
    \/ GetConfig
    \/ HandleInterfacesAdded
    \/ PropertiesReturned
    \/ PropertiesFailed
    \/ AddConfig
    \/ RemoveConfig
    \/ ReaderStarts
    \/ ReaderResumes
    \/ StaleReaderResumes

Edges == \E l \in Line : Edge(l)

Environment ==
    \/ \E c \in Config : Export(c) \/ Unexport(c)
    \/ \E l \in Line : Toggle(l)

Next == Coroutine \/ Restart \/ Answer \/ AnswerSubTree \/ Edges \/ Environment

Spec == Init /\ [][Next]_vars

\* The loop runs what is ready, calls are answered, systemd restarts the daemon.
FairSpec == /\ Spec
            /\ WF_vars(Coroutine) /\ WF_vars(Edges) /\ WF_vars(Restart)
            /\ WF_vars(Answer) /\ WF_vars(AnswerSubTree)

-----------------------------------------------------------------------------
(* Properties *)

Settled ==
    /\ up /\ ready = <<>> /\ calls = <<>> /\ mapper = "done" /\ edges = {}

Sound == {c \in Config : Lines(c) \cap faulty = {}}

\* The hardware is there.  Nothing updates a configuration that names no line.
Seated(c) == Lines(c) # {} /\ \A l \in Lines(c) : level[l] = Pins[c][l]

\* When everything has been handled, a device is announced exactly when all its
\* lines have their levels: whatever order configurations sharing lines came,
\* went and came back in, and whatever was cached meanwhile.
PresenceIsTrue ==
    Settled => \A c \in presenceMap \cap Sound : c \in detectedIface <=> Seated(c)

\* A line that is requested always has a coroutine that reads it now or will:
\* configurations that share it come and go without leaving it deaf.
NeverDeaf ==
    up => \A l \in fdios \ faulty :
        \/ l \in waiting
        \/ \E t \in Range(ready) : t.kind \in {"start", "resume"} /\ t.line = l

\* Once the world stands still, the daemon ends up true to every configuration
\* that was in GetSubTree's answer or that a signal announced, crashes and a
\* failing GetSubTree included.  One that was there before the match and that no
\* answer named is never found; that is what the code does (config_provider.cpp).
EventuallyTrue ==
    <>[](up /\ \A c \in (exported \cap Sound) \ missed :
                  c \in detectedIface <=> Seated(c))

=============================================================================

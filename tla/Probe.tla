------------------------------- MODULE Probe --------------------------------
(***************************************************************************)
(* Evaluation of one configuration's "Probe" (perform_probe.cpp) over what *)
(* a scan has read from D-Bus.  A probe is a sequence of tokens; AND and   *)
(* OR apply from left to right, and every D-Bus statement adds the devices *)
(* it matches to the devices found, whatever the outcome.                  *)
(*                                                                         *)
(* The property map an interface returns is one Value; a D-Bus statement   *)
(* is the set of the values it matches (matchProbe.cpp's comparisons and   *)
(* regular expressions).  A name is a sequence that starts with the        *)
(* configuration it comes from.                                            *)
(***************************************************************************)
EXTENDS Naturals, Sequences, SequencesExt

CONSTANTS
    Path,       \* D-Bus object paths
    PathOrder,  \* the order of dbusProbeObjects, a map sorted by path
    Interface,
    Value,      \* property maps
    NoValue     \* an interface that is not there; the device of a bare TRUE

ASSUME PathOrderAssumption ==
    PathOrder \in Seq(Path) /\ \A p \in Path : \E i \in 1..Len(PathOrder) : PathOrder[i] = p

Operators == {"opAnd", "opOr"}
Keywords == Operators \cup {"boolTrue", "boolFalse", "matchOne"}

Keyword(type) == [type |-> type]
Found(name) == [type |-> "found", name |-> name]
Dbus(iface, values) ==
    [type |-> "dbusProbe", interface |-> iface, values |-> values]

\* What a scan has read: NoValue where no GetAll was answered.
Objects == [Path -> [Interface -> Value \cup {NoValue}]]
NothingRead == [p \in Path |-> [i \in Interface |-> NoValue]]

\* FoldLeft, as a recursive function.
Fold(Op(_, _), base, seq) ==
    LET after[n \in 0..Len(seq)] ==
            IF n = 0 THEN base ELSE Op(after[n - 1], seq[n])
    IN  after[Len(seq)]

\* probeDbus, for the property maps one interface has on the paths.
Match(found, value, values) == IF value \in values THEN Append(found, value) ELSE found
Matching(view, values) == Fold(LAMBDA found, p : Match(found, view[p], values), <<>>, PathOrder)

Devices(token, objects) ==
    Matching([p \in Path |-> objects[p][token.interface]], token.values)

\* The outcome of one token, given the result of those before it; an operator
\* keeps the outcome of the token it follows.
Outcome(token, s, objects, passedProbes) ==
    CASE token.type = "boolTrue"  -> TRUE
      [] token.type = "boolFalse" -> FALSE
      [] token.type = "matchOne"  -> s.ret
      [] token.type = "found"     -> token.name \in passedProbes
      [] token.type = "dbusProbe" -> Devices(token, objects) # <<>>
      [] OTHER                    -> s.cur

ApplyAtOnce(s, type, cur) ==
    IF s.first THEN cur
    ELSE IF type = "opAnd" THEN s.ret /\ cur
    ELSE IF s.last = "opOr" THEN s.ret \/ cur
    ELSE s.ret

\* AND and OR take effect on the operand that follows them; the first token is
\* the result so far, and an operand after no operator is read and ignored.
Apply(s, type, cur) ==
    CASE s.first         -> cur
      [] s.last = "opAnd" -> s.ret /\ cur
      [] s.last = "opOr"  -> s.ret \/ cur
      [] OTHER           -> s.ret

KeepLast(devices) == <<devices[Len(devices)]>>

\* A probe that passes with no device yields one empty device; MATCH_ONE keeps
\* one device only.
Chosen(ret, matchOne, devices) ==
    LET found == IF ret /\ devices = <<>> THEN <<NoValue>> ELSE devices
    IN  IF ret /\ matchOne THEN KeepLast(found) ELSE found

\* What is known of a probe before its first token, and after one more.
NoToken == [ret |-> FALSE, cur |-> TRUE, devices |-> <<>>, last |-> "boolFalse",
            first |-> TRUE, matchOne |-> FALSE]

EvaluateToken(s, token, objects, passedProbes) ==
    LET cur == Outcome(token, s, objects, passedProbes)
    IN  [ret |-> Apply(s, token.type, cur),
         cur |-> cur,
         devices |-> IF token.type = "dbusProbe"
                     THEN s.devices \o Devices(token, objects)
                     ELSE s.devices,
         last |-> token.type,
         first |-> FALSE,
         matchOne |-> s.matchOne \/ token.type = "matchOne"]

Evaluated(command, objects, passedProbes) ==
    Fold(LAMBDA s, token : EvaluateToken(s, token, objects, passedProbes), NoToken, command)

\* doProbe: whether the probe passes, and the devices it found.
DoProbe(command, objects, passedProbes) ==
    LET end == Evaluated(command, objects, passedProbes)
    IN  [ret |-> end.ret,
         devices |-> Chosen(end.ret, end.matchOne, end.devices)]

-----------------------------------------------------------------------------
(* What a probe means *)

IsOperand(token) == token.type \in {"boolTrue", "boolFalse", "found", "dbusProbe"}

\* operand (operator operand)* [MATCH_ONE]: what configurations write.
WellFormed(command) ==
    \E n \in 1..Len(command) :
        /\ n % 2 = 1
        /\ \A i \in 1..n : IF i % 2 = 1 THEN IsOperand(command[i])
                           ELSE command[i].type \in Operators
        /\ \/ Len(command) = n
           \/ Len(command) = n + 1 /\ command[n + 1].type = "matchOne"

True(token, objects, passedProbes) == Outcome(token, NoToken, objects, passedProbes)

\* Some true operand begins the probe or follows an OR, and every operand behind
\* an AND after it is true.
Means(command, objects, passedProbes) ==
    \E k \in 1..Len(command) :
        /\ IsOperand(command[k]) /\ True(command[k], objects, passedProbes)
        /\ k = 1 \/ command[k - 1].type = "opOr"
        /\ \A j \in k + 1..Len(command) :
              IsOperand(command[j]) /\ command[j - 1].type = "opAnd" =>
                  True(command[j], objects, passedProbes)

=============================================================================

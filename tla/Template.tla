------------------------------- MODULE Template -------------------------------
(***************************************************************************)
(* Replacing $NAME and $NAME + 1 * 2 in one string of a record by the      *)
(* properties of the object its probe matched, interface by interface,     *)
(* once for most strings and twice for those beneath Exposes.              *)
(*                                                                         *)
(* A string is a sequence of atoms: a word, a space, an operator, "$", a   *)
(* piece of a property's name, a number.  Upper and lower case are one.     *)
(* An object is a sequence of interfaces, in the order they are gone        *)
(* through, each a sequence of properties in the order of their names.      *)
(***************************************************************************)
EXTENDS Integers, Sequences, FiniteSets, SequencesExt

-----------------------------------------------------------------------------
(* Atoms and strings *)

Word(w) == <<w, 0>>
Number(n) == <<"#", n>>
Space == Word(" ")
templateChar == Word("$")
mathChars == {Word("+"), Word("-"), Word("*"), Word("/"), Word("%")}

Text(str) == [is |-> "string", str |-> str]

IsNumber(str) == Len(str) = 1 /\ str[1][1] = "#"

AppearsAt(str, i, search) ==
    i + Len(search) - 1 <= Len(str) /\ SubSeq(str, i, i + Len(search) - 1) = search

\* Where search begins, or 0.
iFindFirst(str, search) ==
    LET at == {i \in DOMAIN str : AppearsAt(str, i, search)}
    IN  IF at = {} THEN 0 ELSE CHOOSE i \in at : \A j \in at : i <= j

Splice(str, first, last, new) ==
    SubSeq(str, 1, first - 1) \o new \o SubSeq(str, last + 1, Len(str))

\* Mutant: only the first one.
ReplaceFirst(str, search, replace) ==
    Splice(str, iFindFirst(str, search), iFindFirst(str, search) + Len(search) - 1, replace)

\* For a replacement in which search does not appear.
iReplaceAll(str, search, replace) ==
    LET Once(s) ==
            LET at == iFindFirst(s, search)
            IN  IF at = 0 THEN s ELSE Splice(s, at, at + Len(search) - 1, replace)
    IN  FoldLeft(LAMBDA s, atom : Once(s), str, str)

\* The words between spaces; two spaces have an empty one between them.
split(str) ==
    FoldLeft(LAMBDA words, atom :
                 IF atom = Space THEN Append(words, <<>>)
                 ELSE [words EXCEPT ![Len(words)] = Append(@, atom)],
             <<<<>>>>, str)

Join(words) == FlattenSeq([i \in DOMAIN words |-> <<Space>> \o words[i]])

-----------------------------------------------------------------------------
(* Expressions *)

\* C++ rounds towards 0.
Quotient(a, b) ==
    LET abs(x) == IF x < 0 THEN -x ELSE x
        q == abs(a) \div abs(b)
    IN  IF (a < 0) = (b < 0) THEN q ELSE -q

Throws == [is |-> "throws", str |-> <<>>]

EvaluateOne(a, op, b) ==
    CASE op = Word("+") -> a + b
      [] op = Word("-") -> a - b
      [] op = Word("*") -> a * b
      [] op = Word("/") -> Quotient(a, b)
      [] op = Word("%") -> a - b * Quotient(a, b)

IsOperator(word) == Len(word) = 1 /\ word[1] \in mathChars

\* stoi takes a word that begins with a number.
IsConstant(word) == word # <<>> /\ word[1][1] = "#"

\* Operators and constants in turn, up to a word that should be an operator
\* and is none; a word that should be a constant and is none is skipped.
\* taken is the number of words it went through.
evaluate(substitute, words) ==
    FoldLeft(
        LAMBDA state, word :
            IF state.ended THEN state
            ELSE IF state.isOperator
            THEN IF IsOperator(word)
                 THEN [state EXCEPT !.next = word[1], !.isOperator = FALSE, !.taken = @ + 1]
                 ELSE [state EXCEPT !.ended = TRUE]
            ELSE IF ~IsConstant(word) THEN [state EXCEPT !.taken = @ + 1]
            ELSE IF word[1][2] = 0 /\ state.next \in {Word("/"), Word("%")}
            THEN [state EXCEPT !.ended = TRUE, !.failed = TRUE]
            ELSE [state EXCEPT !.number = EvaluateOne(@, state.next, word[1][2]),
                               !.isOperator = TRUE, !.taken = @ + 1],
        [number |-> substitute, next |-> Word("+"), isOperator |-> TRUE, taken |-> 0,
         ended |-> FALSE, failed |-> FALSE],
        words)

-----------------------------------------------------------------------------
(* One property in one string *)

\* An operator behind the variable and a space.
Math(str, after) ==
    /\ after + 1 <= Len(str)
    /\ str[after] = Space
    /\ str[after + 1] \in mathChars

\* The first use of the property, if it is an expression.
ReplaceExpression(str, property, at, after) ==
    LET words == split(SubSeq(str, after + 1, Len(str)))
        result == evaluate(property.value[1][2], words)
    IN  IF Len(words) < 2 THEN Text(str)
        ELSE IF ~IsNumber(property.value) \/ property.type = "string" \/ result.failed
        THEN Throws
        ELSE Text(SubSeq(str, 1, at - 1) \o <<Number(result.number)>>
                    \o Join(SubSeq(words, result.taken + 1, Len(words))))

\* The string is the property and nothing else: "exact" has the value's type.
templateCharReplaceOneProperty(str, property) ==
    LET templateName == <<templateChar>> \o property.name
        at == iFindFirst(str, templateName)
        after == at + Len(templateName)
    IN  IF at = 0 THEN Text(str)
        ELSE IF str = templateName THEN [is |-> "exact", str |-> property.value]
        ELSE IF Math(str, after) THEN ReplaceExpression(str, property, at, after)
        ELSE Text(iReplaceAll(str, templateName, property.value))

-----------------------------------------------------------------------------
(* One interface *)

index == [name |-> <<Word("INDEX")>>, type |-> "number", value |-> <<Number(3)>>]

\* A string that is a number becomes one, unless it begins with 00 or is
\* negative.
Parsed(str) ==
    [is |-> IF IsNumber(str) /\ str[1][2] >= 0 THEN "number" ELSE "string", str |-> str]

\* Its type is not kept.
WithIndex(str) ==
    LET found == templateCharReplaceOneProperty(str, index)
    IN  [is |-> IF found.is = "exact" THEN "string" ELSE found.is,
         str |-> found.str, type |-> index.type]

\* The properties in turn, until the string is one of them.
ReplaceLoop(str, interface) ==
    FoldLeft(LAMBDA found, property :
                 IF found.is # "string" THEN found
                 ELSE LET new == templateCharReplaceOneProperty(found.str, property)
                      IN  [is |-> new.is, str |-> new.str, type |-> property.type],
             WithIndex(str), interface)

templateCharReplace(old, interface) ==
    IF old.is # "string" THEN old
    ELSE LET found == ReplaceLoop(old.str, interface)
         IN  CASE found.is = "throws" -> Throws
               [] found.is = "exact" -> [is |-> found.type, str |-> found.str]
               [] found.is = "string" -> Parsed(found.str)

-----------------------------------------------------------------------------
(* What is left is taken out, each up to the next space. *)

handleLeftOverTemplateVarOnce(str) ==
    LET at == iFindFirst(str, <<templateChar>>)
        ends == {i \in at..Len(str) : str[i] = Space}
        end == IF ends = {} THEN Len(str)
               ELSE (CHOOSE i \in ends : \A j \in ends : i <= j) - 1
    IN  IF at = 0 THEN str ELSE Splice(str, at, end, <<>>)

handleLeftOverTemplateVars(str) ==
    FoldLeft(LAMBDA s, atom : handleLeftOverTemplateVarOnce(s), str, str)

-----------------------------------------------------------------------------
(* What the author means *)

(* A piece is [prefix, name, ops, suffix]: words glued to a variable, the   *)
(* name of its property (<<>> if it is only text), and what to compute.     *)
(* Pieces are written one behind the other, with spaces between.            *)
Operation(op) == <<Space, op[1], Space, Number(op[2])>>

Operations(ops) == FlattenSeq([i \in DOMAIN ops |-> Operation(ops[i])])

Variable(name) == IF name = <<>> THEN <<>> ELSE <<templateChar>> \o name

Spaced(strings) == Tail(Join(strings))

Written(pieces) ==
    Spaced([i \in DOMAIN pieces |->
        pieces[i].prefix \o Variable(pieces[i].name) \o Operations(pieces[i].ops)
            \o pieces[i].suffix])

-----------------------------------------------------------------------------
(* One string, once it is published *)

GoneThrough(found, object) == FoldLeft(templateCharReplace, found, object)

Times(kind) == IF kind = "exposes" THEN 2 ELSE 1

\* replaceTemplateFields leaves what is beneath Exposes to
\* applyTemplateAndExposeActions, which has gone through the object before it.
Replaced(str, object, kind) ==
    LET found == FoldLeft(LAMBDA last, n : GoneThrough(last, object), Text(str),
                          [n \in 1..Times(kind) |-> n])
    IN  IF found.is = "string" THEN Text(handleLeftOverTemplateVars(found.str)) ELSE found

-----------------------------------------------------------------------------
(* What the author may expect *)

Properties(object) == {index} \cup UNION {ToSet(object[i]) : i \in DOMAIN object}

PropertyOf(piece, object) == {p \in Properties(object) : p.name = piece.name}

\* From left to right.
Computed(n, ops) == FoldLeft(LAMBDA a, op : EvaluateOne(a, op[1], op[2]), n, ops)

\* What a piece stands for.  Of a variable that is not there nothing is kept
\* that is glued to its end.
Means(piece, object) ==
    IF piece.name = <<>> THEN piece.prefix
    ELSE IF PropertyOf(piece, object) = {} THEN piece.prefix \o Operations(piece.ops)
    ELSE LET property == CHOOSE p \in PropertyOf(piece, object) : TRUE
         IN  piece.prefix
             \o (IF piece.ops = <<>> THEN property.value
                 ELSE <<Number(Computed(property.value[1][2], piece.ops))>>)
             \o piece.suffix

Meaning(template, object) ==
    Spaced([i \in DOMAIN template |-> Means(template[i], object)])

\* How often the string is searched for a property: the index with every
\* interface, others with their own.
Searched(p, object, kind) == Times(kind) * (IF p = index THEN Len(object) ELSE 1)

\* One search replaces the first use if it is an expression, and all uses,
\* as they are, if it is none.
UsesOf(template, p) == SelectSeq(template, LAMBDA piece : piece.name = p.name)

Leading(uses) == Cardinality({i \in DOMAIN uses : \A j \in 1..i : uses[j].ops # <<>>})

Enough(template, object, kind) ==
    \A p \in Properties(object) :
        LET uses == UsesOf(template, p)
            computed == Leading(uses)
            searched == Searched(p, object, kind)
        IN  \/ computed = Len(uses) /\ computed <= searched
            \/ /\ \A i \in computed + 1..Len(uses) : uses[i].ops = <<>>
               /\ computed < searched

\* The name of one property does not begin that of another that is used.
Distinct(template, object) ==
    \A p \in Properties(object), i \in DOMAIN template :
        IsPrefix(p.name, template[i].name) => p.name = template[i].name

Calculable(template, object) ==
    \A i \in DOMAIN template :
        template[i].ops # <<>> =>
            /\ \A p \in PropertyOf(template[i], object) : p.type = "number"
            /\ \A j \in DOMAIN template[i].ops : template[i].ops[j][2] # 0

IsSound(template, object, kind) ==
    /\ Distinct(template, object)
    /\ Calculable(template, object)
    /\ Enough(template, object, kind)
=============================================================================

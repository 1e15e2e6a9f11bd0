--------------------------- MODULE MCExposeActions ----------------------------
(***************************************************************************)
(* A baseboard with two connectors and a fan of its own, a chassis with    *)
(* fans for the connectors that disables the baseboard's fan, and a        *)
(* backplane that disables a connector and has one of its own.             *)
(*                                                                         *)
(* Strings of up to three pieces, and five objects: a FRU alone, with an   *)
(* interface before and behind it, with a property whose name begins       *)
(* another's, and without properties.                                      *)
(***************************************************************************)
EXTENDS ExposeActions, Template

MCKeyOrder == <<"chassis", "baseboard", "backplane">>

MCNames == {"connector 1", "connector 2", "connector 3", "board fan", "fan 1", "fan 2",
            "fan 3", "spare"}

Exposed(name, status, bind, disable) ==
    [Name |-> name, Status |-> status, Bind |-> bind, DisableNode |-> disable]

MCExposes ==
    [baseboard |->
        <<Exposed("connector 1", "disabled", {}, {}),
          Exposed("connector 2", "disabled", {}, {}),
          Exposed("board fan", "okay", {}, {})>>,
     chassis |->
        <<Exposed("fan 1", "okay", {"connector 1"}, {"board fan"}),
          Exposed("fan 2", "okay", {"connector 1", "connector 2"}, {})>>,
     backplane |->
        <<Exposed("connector 3", "disabled", {}, {}),
          Exposed("fan 3", "okay", {"connector 3"}, {"connector 2", "fan 3"}),
          Exposed("spare", "okay", {}, {})>>]

-----------------------------------------------------------------------------
Property(name, type, str) == [name |-> name, type |-> type, value |-> str]

BUS == <<Word("BUS")>>
BUS_ID == <<Word("BUS"), Word("_ID")>>
SERIAL == <<Word("SERIAL")>>
NAME == <<Word("NAME")>>

Fru == <<Property(BUS, "number", <<Number(7)>>),
         Property(SERIAL, "string", <<Number(1640)>>)>>

Other == <<Property(NAME, "string", <<Word("card"), Space, Word("B")>>)>>

Clashing == <<Property(BUS, "number", <<Number(7)>>),
              Property(BUS_ID, "number", <<Number(9)>>)>>

MCObjects == {<<Fru>>, <<Fru, Other>>, <<Other, Fru>>, <<Clashing>>, <<<<>>>>}

Piece(prefix, name, ops, suffix) ==
    [prefix |-> prefix, name |-> name, ops |-> ops, suffix |-> suffix]

Pieces ==
    {Piece(<<Word("FAN")>>, <<>>, <<>>, <<>>),
     Piece(<<>>, BUS, <<>>, <<>>),
     Piece(<<Word("FCB_")>>, BUS, <<<<Word("-"), 15>>>>, <<>>),
     Piece(<<>>, BUS, <<<<Word("*"), 4>>, <<Word("-"), 1>>, <<Word("%"), 4>>>>, <<>>),
     Piece(<<>>, BUS_ID, <<>>, <<>>),
     Piece(<<>>, SERIAL, <<>>, <<>>),
     Piece(<<>>, SERIAL, <<<<Word("+"), 1>>>>, <<>>),
     Piece(<<>>, BUS, <<<<Word("/"), 0>>>>, <<>>),
     Piece(<<Word("PSU")>>, NAME, <<>>, <<Word("_Temp")>>),
     Piece(<<>>, index.name, <<<<Word("+"), 1>>>>, <<>>),
     Piece(<<>>, index.name, <<<<Word("/"), 2>>>>, <<>>)}

MCTemplates == UNION {[1..n -> Pieces] : n \in 1..3}

\* A string that its author may expect to work does: whichever properties the
\* interfaces have and in whatever order they come, each variable is replaced
\* by its own property, expressions are computed from left to right, what is
\* not there is taken out, and the text about them is untouched.
ReplacedAsMeant ==
    Init =>
        \A template \in MCTemplates, object \in MCObjects, kind \in {"exposes", "other"} :
            IsSound(template, object, kind) =>
                Replaced(Written(template), object, kind).str = Meaning(template, object)
=============================================================================

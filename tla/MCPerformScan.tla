--------------------------- MODULE MCPerformScan ----------------------------
(***************************************************************************)
(* Instances of PerformScan for TLC, and every well-formed probe of up to  *)
(* MaxTokens tokens over a few statements.                                 *)
(***************************************************************************)
EXTENDS PerformScan

CONSTANTS slot, plane,            \* paths
          fru, item,              \* interfaces
          red, blue, green, body, \* property maps
          sameLabel,
          chassis, riser, kit, base,
          MaxTokens               \* bound on the length of a probe

MCPath == {slot, plane}
MCPathOrder == <<plane, slot>>
MCInterface == {fru, item}
MCValue == {red, blue, green, body}

\* Two cards may sit in the slot, one more and the chassis on the plane.
MCOffers == [p \in MCPath |-> [i \in MCInterface |->
    CASE p = slot /\ i = fru   -> {red, blue}
      [] p = plane /\ i = fru  -> {green}
      [] p = plane /\ i = item -> {body}
      [] OTHER                 -> {}]]

\* The kit needs the first riser, which needs the chassis, which is loaded last.
MCConfig == {kit, riser, base, chassis}
MCLoadOrder == <<kit, riser, base, chassis>>
MCCommand == [c \in Config |->
    CASE c = kit     -> <<Found(<<riser, 1>>)>>
      [] c = riser   -> <<Dbus(fru, {red, blue, green}), Keyword("opAnd"), Found(<<chassis>>)>>
      [] c = base    -> <<Keyword("boolTrue")>>
      [] c = chassis -> <<Dbus(item, {body}), Keyword("matchOne")>>]
MCNaming == [c \in Config |-> IF c = riser THEN "index" ELSE "fixed"]
MCLabel == [v \in MCValue |-> sameLabel]

\* The first boot, and a boot after one that had the card `blue' as riser 1.
MCBoots == {<<>>, (<<riser, blue>> :> <<riser, 1>>) @@ (<<chassis, body>> :> <<chassis>>)}

-----------------------------------------------------------------------------
(* Probes *)

Operands == {Found(<<chassis>>), Dbus(fru, {red}), Dbus(fru, {red, blue}), Dbus(fru, {})}
Tokens == Operands \cup {Keyword(k) : k \in {"opAnd", "opOr", "matchOne"}}
MCProbes == {c \in UNION {[1..n -> Tokens] : n \in 1..MaxTokens} : WellFormed(c)}

=============================================================================

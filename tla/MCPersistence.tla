---------------------------- MODULE MCPersistence ----------------------------
(* A chassis with a fan loop and a sensor with two thresholds, and a riser. *)
EXTENDS Persistence

CONSTANTS chassis, riser, fan, sensor, low, high

MCRecord == {chassis, riser}
MCKey == {fan, sensor}
MCValue == {low, high}
MCSettable == {fan}
MCTypeIsLast == {sensor}

MCItem(key, parts) == [key |-> key, whole |-> TRUE, value |-> low, parts |-> parts]
MCDefault ==
    [r \in MCRecord |->
       IF r = chassis
       THEN [asset |-> Null, exposes |-> <<MCItem(fan, <<>>), MCItem(sensor, <<low, low>>)>>]
       ELSE [asset |-> low, exposes |-> <<>>]]
MCFound == {{chassis}, {chassis, riser}}
=============================================================================

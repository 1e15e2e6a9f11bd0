--------------------------- MODULE MCGpioPresence ---------------------------
(* Instances of GpioPresence for TLC. *)
EXTENDS GpioPresence

CONSTANTS cable, card, slot0a, slot0b

\* The README's slot: two devices that share its lines.
MCConfig == {cable, card}
MCLine == {slot0a, slot0b}
MCPins == (cable :> (slot0a :> TRUE)) @@ (card :> (slot0a :> FALSE @@ slot0b :> TRUE))
MCFaulty == {slot0b}

=============================================================================

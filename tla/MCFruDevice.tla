----------------------------- MODULE MCFruDevice ------------------------------
(***************************************************************************)
(* A root bus 0, where the baseboard's FRU belongs, and bus 1, a channel   *)
(* of a mux on it.                                                         *)
(***************************************************************************)
EXTENDS FruDevice, TLC

CONSTANTS p, f1

MCRoot == 0 :> NoBus @@ 1 :> 0
FruOf(n, v) == [name |-> n, field |-> [f \in Fields |-> v]]

\* FRUs that share a name and one without, a device that does not answer in
\* full, a drive; next to them a FRU whose address is blocked and one behind
\* an eeprom driver.
ScanPlug ==
    [loc \in Loc |->
        CASE loc = <<0, 0>>   -> {FruOf(p, 0)}
          [] loc = <<0, 20>>  -> {None, FruOf(p, 0), Mute}
          [] loc = <<0, 21>>  -> {FruOf(NoName, 0)}
          [] loc = <<0, 80>>  -> {FruOf(NoName, 0)}
          [] loc = <<1, 20>>  -> {None, FruOf(NoName, 0)}
          [] loc = <<1, 106>> -> {Drive}
          [] OTHER            -> {None}]
NoLoc == {}
EepromLoc == {<<0, 80>>}
NextLoc == {<<0, 21>>}
WrittenFrus == {FruOf(p, 1)}
=============================================================================

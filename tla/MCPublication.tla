---------------------------- MODULE MCPublication -----------------------------
(***************************************************************************)
(* A chassis with associations of its own, which says it powers the board  *)
(* as the supply does; a board in it that claims to power it; and a supply *)
(* under a name of its own that powers the board and says it contains it   *)
(* too, and is in the board's socket.  Board and supply expose the same    *)
(* sensor.                                                                 *)
(***************************************************************************)
EXTENDS Publication

CONSTANTS Chassis, Board, Supply, Sensor, Eeprom

Item(type, port, role, power) ==
    [Type |-> type, Port |-> port, PortType |-> role, PowerPort |-> power, Status |-> "okay"]

MCRecord ==
    Chassis :> [Type |-> "Chassis", Own |-> TRUE, Custom |-> FALSE, Path |-> NoPath,
                Devices |-> {},
                Exposes |-> {Item("Port", "slot", "containing", FALSE),
                             Item("Port", "slot", "powered_by", FALSE),
                             Item("Port", "power", "powering", FALSE)}]
    @@ Board :> [Type |-> "Board", Own |-> FALSE, Custom |-> FALSE, Path |-> "fru",
                 Devices |-> {Sensor, Eeprom},
                 Exposes |-> {Item("Port", "slot", "contained_by", FALSE),
                              Item("Port", "slot", "powering", FALSE),
                              Item("UpstreamPort", "socket", "none", FALSE),
                              Item("Port", "power", "powered_by", FALSE)}]
    @@ Supply :> [Type |-> "PowerSupply", Own |-> FALSE, Custom |-> TRUE, Path |-> "psu",
                  Devices |-> {Sensor},
                  Exposes |-> {Item("Port", "power", "powering", FALSE),
                               Item("Port", "slot", "containing", FALSE),
                               Item("DownstreamPort", "socket", "none", TRUE),
                               [Item("Port", "slot", "contained_by", FALSE)
                                   EXCEPT !.Status = "disabled"]}]
=============================================================================

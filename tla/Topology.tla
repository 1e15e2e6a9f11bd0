------------------------------- MODULE Topology -------------------------------
(***************************************************************************)
(* Ports of boards, and the associations between boards that share one.    *)
(* The names of the associations, the boards' types and the sides are the  *)
(* code's; a port item of a record is what addBoard takes from it.         *)
(***************************************************************************)
EXTENDS Naturals

AssocName(name, reverse, on, onReverse) ==
    [name |-> name, reverse |-> reverse,
     allowedOnBoardTypes |-> on, allowedOnBoardTypesReverse |-> onReverse]

getReverse(assoc) ==
    AssocName(assoc.reverse, assoc.name,
              assoc.allowedOnBoardTypesReverse, assoc.allowedOnBoardTypes)

assocContaining ==
    AssocName("containing", "contained_by", {"Board", "Chassis"},
              {"Board", "Chassis", "Cpu", "Dimm", "PowerSupply", "NVMe"})
assocPowering ==
    AssocName("powering", "powered_by", {"Chassis", "PowerSupply"},
              {"Board", "Chassis", "PowerSupply"})
assocContainedBy == getReverse(assocContaining)
assocPoweredBy == getReverse(assocPowering)

supportedAssocs == {assocContaining, assocContainedBy, assocPowering, assocPoweredBy}

\* Roles a board takes on a port by one item: a port to something beneath it,
\* one of a chosen role, or one of any other type that ends in "Port".
Roles(item) ==
    {assoc \in supportedAssocs :
        \/ item.Type = "DownstreamPort"
           /\ (assoc = assocContainedBy \/ (item.PowerPort /\ assoc = assocPowering))
        \/ item.Type = "Port" /\ assoc.name = item.PortType
        \/ item.Type = "UpstreamPort" /\ assoc \in {assocContaining, assocPoweredBy}}

\* ports: who takes part in which port, in which roles.
addBoard(ports, path, item) ==
    ports \cup {[port |-> item.Port, path |-> path, assoc |-> assoc] : assoc \in Roles(item)}

\* Mutant: whoever is on the port will do.
AnyOther(ports, member) ==
    {other \in ports : other.port = member.port /\ other.path # member.path}

\* Others on the port that take the reverse role.
Partners(ports, member) ==
    {other \in ports :
        /\ other.port = member.port
        /\ other.path # member.path
        /\ other.assoc = getReverse(member.assoc)}

\* The sides an association is published at.
Published(assoc) == assoc \notin {assocContaining, assocPoweredBy}

\* fillAssocForPortId for all: what the new boards are to show.
PortAssocs(ports, boardTypes, newPaths) ==
    UNION {{[path |-> member.path, name |-> member.assoc.name, other |-> other.path] :
                other \in Partners(ports, member)} :
           member \in {x \in ports :
               /\ boardTypes[x.path] \in x.assoc.allowedOnBoardTypes
               /\ x.path \in newPaths
               /\ Published(x.assoc)}}

getAssocs(ports, boardTypes, probePaths, newPaths) ==
    PortAssocs(ports, boardTypes, newPaths)
        \cup {[path |-> entry[1], name |-> "probing", other |-> entry[2]] :
              entry \in {x \in probePaths : x[1] \in newPaths}}
=============================================================================

---------------------------- MODULE MCExtensions ----------------------------
(***************************************************************************)
(* The extensions: ext-walls and ext-props around one door (Extensions),   *)
(* and ext-av between two zones and two proximity groups (ExtAv).  They    *)
(* share the bus and no state, so that a behaviour runs one `part` or the  *)
(* other.                                                                  *)
(***************************************************************************)
EXTENDS Extensions

CONSTANTS Zones, Groups, AvFaults, AvMaxQueue

VARIABLES part, place, group, status, events, handling, playerStatus, activeZoneRoom,
          zoneAudio, clientRoom, excused, lost

Apart == {{d} : d \in Doors}

Av == INSTANCE ExtAv WITH Faults <- AvFaults, MaxQueue <- AvMaxQueue

\* Rooms have different names, and None is none of what may be there.
ASSUME AvAssumption ==
  /\ Zones \cap Groups = {} /\ None \notin Zones \cup Groups \cup {"dnd", "available"}
  /\ None \notin [room : Zones, pc : {"mint", "record", "eject"}]

avVars == <<place, group, status, events, handling, playerStatus, activeZoneRoom, zoneAudio,
            clientRoom, excused, lost>>
all == <<vars, avVars, part>>

PartsInit == Init /\ Av!Init /\ part \in {"doors", "av"}
PartsNext ==
  \/ part = "doors" /\ Next /\ UNCHANGED <<avVars, part>>
  \/ part = "av" /\ Av!Next /\ UNCHANGED <<vars, part>>

Doors_(A) == part = "doors" /\ A /\ UNCHANGED <<avVars, part>>

\* Fairness of Extensions, in the behaviours that run it.
PartsSpec ==
  /\ PartsInit /\ [][PartsNext]_all
  /\ WF_all(Doors_(WallsReady)) /\ WF_all(Doors_(PropsReady))
  /\ WF_all(Doors_(RegistrationArrives)) /\ SF_all(Doors_(Tick))
  /\ WF_all(Doors_(Answer)) /\ WF_all(Doors_(PropsAct)) /\ WF_all(Doors_(WallsAct))
  /\ WF_all(Doors_(OptionsArrive)) /\ WF_all(Doors_(ZonesArrive))
  /\ \A x \in Exts : WF_all(Doors_(Ask(x)))
  /\ \A p \in Registrars : WF_all(Doors_(Publish(p)))
  /\ \A p \in Exts \cup {"worldsim"} : WF_all(Doors_(Start(p)))

\* Types of the variables of both.
TypesOK == TypeOK /\ Av!TypeOK

\* The client's A/V room follows the player (see ExtAv).
RoomFollowsPlayer == Av!RoomFollowsPlayer
=============================================================================

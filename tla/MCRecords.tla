----------------------------- MODULE MCRecords -----------------------------
(***************************************************************************)
(* What the world simulation stores: a player's place (Persistence), a     *)
(* player's profile (Profile) and the world's options (WorldOptions).      *)
(* They share no state, so that a behaviour runs one `part`.               *)
(*                                                                         *)
(* Places are three coordinate values on two maps: two to move between and *)
(* one to travel to.                                                       *)
(***************************************************************************)
EXTENDS Persistence, TLC

CONSTANTS q1, q2, q3, m1, m2, ProfileFaults, Edits, MaxWork, MaxTold,
          Editors, Services, Timeouts, Hosts, OptionsFaults, MaxCrashes, MaxQueue

VARIABLES part,
  edited, guest, row, entity, id, dirty, work, told, heard, screen, refused,
  host, stored, current, boot, unsent, queue, phase, view, form, lost, crashes

MCHome == (q1 :> m1) @@ (q2 :> m1) @@ (q3 :> m2)

\* Fields that share a component, or are saved apart.
MCEdits == {{"status", "name"}, {"afk", "sprite"}, {"options", "name"}}

P == INSTANCE Profile WITH Faults <- ProfileFaults, failed <- refused
O == INSTANCE WorldOptions WITH Faults <- OptionsFaults

\* None is none of what may be there.
ASSUME ProfileAssumption ==
  /\ None \notin [P!Fields -> P!Values \cup {P!StandIn}]
  /\ None \notin [todo : {<<"save">>, <<"save", "tell">>, <<"tell">>}, value : P!Values, id : P!Ids]
  /\ MaxTold \in Nat

\* Durations are those that the form, which knows minutes, makes of them.
ASSUME OptionsAssumption ==
  /\ None \notin O!Options
  /\ Services \subseteq {"ext-rec", "audit"}
  /\ Timeouts \subseteq Nat /\ 600 \in Timeouts
  /\ \A t \in Timeouts : (t \div 60) * 60 \in Timeouts \cup {0}
  /\ MaxCrashes \in Nat /\ MaxQueue \in Nat

profileVars ==
  <<edited, guest, row, entity, id, dirty, work, told, heard, screen, refused>>
optionsVars ==
  <<host, stored, current, boot, unsent, queue, phase, view, form, lost, crashes>>
all == <<vars, profileVars, optionsVars, part>>

\* The initial states, one of them for the parts that do not run.
PartsInit ==
  /\ Init /\ P!Init /\ O!Init
  /\ part \in {"places", "profile", "options"}
  /\ part # "places" => record.coords = q1
  /\ part # "profile" => ~guest /\ edited = {"status", "name"}
  /\ part # "options" => host = CHOOSE h \in Hosts : TRUE
PartsNext ==
  \/ part = "places" /\ Next /\ UNCHANGED <<profileVars, optionsVars, part>>
  \/ part = "profile" /\ P!Next /\ UNCHANGED <<vars, optionsVars, part>>
  \/ part = "options" /\ O!Next /\ UNCHANGED <<vars, profileVars, part>>

Places_(A) == part = "places" /\ A /\ UNCHANGED <<profileVars, optionsVars, part>>

\* Fairness of Persistence, in the behaviours that run it.
PartsSpec ==
  /\ PartsInit /\ [][PartsNext]_all
  /\ SF_all(Places_(Checkpoint))
  /\ \A w \in Workers : WF_all(Places_(Write(w)))

\* Types of the variables of all three.
TypesOK == TypeOK /\ P!TypeOK /\ O!TypeOK

\* Row, entity, browsers and ext-av agree about the player (see Profile).
ProfileAgrees == P!ProfileAgrees

\* Options reach those that live by them (see WorldOptions).
OptionsReach == O!OptionsReach
=============================================================================

------------------------------ MODULE Profile ------------------------------
(***************************************************************************)
(* One player's name, status, sprite, options and AFK flag: the entity     *)
(* that the world simulation holds, the player's row in PocketBase, what   *)
(* two browsers show, and the status that ext-av has heard.                *)
(*                                                                         *)
(* Each field has a client subject and (but for AFK) an admin subject of   *)
(* its own, so that up to nine handlers work at once.  A handler changes   *)
(* the entity under s.mu, and saves and publishes after releasing it,      *)
(* while the tick replicates what is marked dirty.                         *)
(*                                                                         *)
(* A value is 0 (what a new row holds: no name, Available, no sprite, no   *)
(* options, present) or 1.  Input that a handler refuses changes nothing   *)
(* and is left out, as are the audit events and the replies.               *)
(***************************************************************************)
EXTENDS Naturals, Sequences, FiniteSets

CONSTANTS
  None,
  Faults,      \* subset of {"overlap", "store"}
  MaxWork,     \* bound: handlers at work
  MaxTold,     \* bound: statuses on their way to ext-av
  Edits        \* bound: the sets of fields that are edited in one behaviour

Values == {0, 1}
StandIn == 2   \* the name made of the entity id
Label == {"name", "status", "afk"}          \* what the DisplayName component carries
Saved == {"name", "status", "sprite", "options"}
Fields == Saved \cup {"afk"}
\* A subject for each field; the pusher forwards to those of the client.
ClientHandlers == {"client"} \X Fields
AdminHandlers == {"admin"} \X Saved
Handlers == ClientHandlers \cup AdminHandlers
Viewers == {"self", "other"}

\* The entity ids of a session: that of the row, or one made up for it
\* (a guest's, or a player's whose row could not be read).
Ids == {"stored", "made up"}

VARIABLES
  edited,      \* the fields that are edited
  guest,       \* the player has not logged in
  row,         \* the player's row in PocketBase
  entity,      \* the live entity's fields, or None
  id,          \* the id of the entity
  dirty,       \* dirtyName and dirtyAppearance
  work,        \* what each handler has still to do
  told,        \* worldsim.player_status, on its way
  heard,       \* ext-av: playerStatus
  screen,      \* what each browser shows of the player, or None
  failed       \* history: fields whose last save was refused, and "unheard": so
               \* was the status when the session before ended

vars == <<edited, guest, row, entity, id, dirty, work, told, heard, screen, failed>>

New(fields) == [f \in fields |-> 0]

Init ==
  /\ edited \in Edits
  /\ guest \in BOOLEAN
  /\ row = New(Saved)
  /\ entity = None /\ id = "made up"
  /\ dirty = {}
  /\ work = [h \in Handlers |-> None]
  /\ told = <<>> /\ heard = New(Ids)
  /\ screen = [v \in Viewers |-> None]
  /\ failed = {}

Busy == {h \in Handlers : work[h] # None}

\* Handlers of one field, or a handler and the next session, work at once
\* only with "overlap".
Alone(f) == "overlap" \in Faults \/ \A h \in Busy : h[2] # f

-----------------------------------------------------------------------------
(* Sessions. *)

\* The entity of a row.  AFK is not stored.
Loaded(r, sprite) ==
  [f \in Fields |-> IF f = "sprite" THEN sprite ELSE IF f = "afk" THEN 0 ELSE r[f]]

\* A player without a name is called after the entity.
Named(e) == [e EXCEPT !.name = IF @ = 0 THEN StandIn ELSE @]

Appears(e, i) ==
  /\ entity' = Named(e) /\ id' = i
  /\ dirty' = {}
  /\ UNCHANGED <<edited, guest, work, told, screen>>

\* provisionClient for a player with a row (made now if there was none): the
\* one without a sprite is given one of the catalog, which is saved.
Connect ==
  /\ entity = None /\ ~guest
  /\ "overlap" \in Faults \/ Busy = {}
  /\ LET sprite == IF row.sprite = 0 THEN 1 ELSE row.sprite
     IN  Appears(Loaded(row, sprite), "stored") /\ row' = [row EXCEPT !.sprite = sprite]
  /\ failed' = IF failed \cap {"status", "unheard"} = {} THEN {} ELSE {"unheard"}
  /\ UNCHANGED heard

\* provisionClient for a guest, or when PocketBase does not answer: an entity
\* that no row knows.
ConnectUnknown ==
  /\ entity = None /\ (guest \/ "store" \in Faults)
  /\ "overlap" \in Faults \/ Busy = {}
  /\ told = <<>>
  /\ Appears(New(Fields), "made up")
  /\ heard' = [heard EXCEPT !["made up"] = 0]
  /\ UNCHANGED <<row, failed>>

\* despawnClient.  Handlers go on with the id they have.
Disconnect ==
  /\ entity # None
  /\ entity' = None /\ dirty' = {}
  /\ screen' = [v \in Viewers |-> None]
  /\ UNCHANGED <<edited, guest, row, id, work, told, heard, failed>>

-----------------------------------------------------------------------------
(* Handlers. *)

\* The steps that follow the change: saving, and publishing a status.
Steps(f) ==
  CASE f = "afk" -> <<>>
    [] f = "status" -> <<"save", "tell">>
    [] OTHER -> <<"save">>

\* The dirty flag of a field.  Options are not replicated.
Flags(f) ==
  CASE f \in Label -> {"name"}
    [] f = "sprite" -> {"appearance"}
    [] OTHER -> {}

\* What a handler does up to the release of s.mu.
Apply(h, x) ==
  LET f == h[2] IN
  /\ f \in edited
  /\ work[h] = None /\ Alone(f) /\ Cardinality(Busy) < MaxWork
  /\ entity # None
  /\ entity' = [entity EXCEPT ![f] = x]
  /\ dirty' = dirty \cup Flags(f)
  /\ work' = [work EXCEPT ![h] = IF Steps(f) = <<>> THEN None
                                 ELSE [todo |-> Steps(f), value |-> x, id |-> id]]
  /\ UNCHANGED <<edited, guest, row, id, told, heard, screen, failed>>

\* The client's handlers ...
SetName(x) == Apply(<<"client", "name">>, x)
SetSpriteBase(x) == Apply(<<"client", "sprite">>, x)
SetPlayerOptions(x) == Apply(<<"client", "options">>, x)
\* (A status, or an AFK flag, that the entity has already ends the handler.)
SetStatus(x) == entity # None /\ entity.status # x /\ Apply(<<"client", "status">>, x)
SetAfk(x) == entity # None /\ entity.afk # x /\ Apply(<<"client", "afk">>, x)

\* ... and the admin's.
AdminSetName(x) == Apply(<<"admin", "name">>, x)
AdminSetSprite(x) == Apply(<<"admin", "sprite">>, x)
AdminSetPlayerOptions(x) == Apply(<<"admin", "options">>, x)
AdminSetStatus(x) == entity # None /\ entity.status # x /\ Apply(<<"admin", "status">>, x)

Advance(h) ==
  work' = [work EXCEPT ![h] =
    IF Len(@.todo) = 1 THEN None ELSE [todo |-> Tail(@.todo), value |-> @.value, id |-> @.id]]

\* UserStore.Update... writes the field in the row that has the entity id, and
\* does nothing when none has.
Save(h) ==
  LET f == h[2] IN
  /\ work[h] # None /\ Head(work[h].todo) = "save"
  /\ IF work[h].id = "stored"
       THEN /\ row' = [row EXCEPT ![f] = work[h].value]
            /\ failed' = failed \ {f}
       ELSE UNCHANGED <<row, failed>>
  /\ Advance(h)
  /\ UNCHANGED <<edited, guest, entity, id, dirty, told, heard, screen>>

\* Mutant: what was not saved is not told either.
SaveFailsSilently(h) ==
  /\ "store" \in Faults
  /\ work[h] # None /\ Head(work[h].todo) = "save" /\ work[h].id = "stored"
  /\ failed' = failed \cup {h[2]}
  /\ work' = [work EXCEPT ![h] = None]
  /\ UNCHANGED <<edited, guest, row, entity, id, dirty, told, heard, screen>>

\* PocketBase refuses the write: the handler goes on.
SaveFails(h) ==
  /\ "store" \in Faults
  /\ work[h] # None /\ Head(work[h].todo) = "save" /\ work[h].id = "stored"
  /\ failed' = failed \cup {h[2]}
  /\ Advance(h)
  /\ UNCHANGED <<edited, guest, row, entity, id, dirty, told, heard, screen>>

\* The status goes out on worldsim.player_status.
Tell(h) ==
  /\ work[h] # None /\ Head(work[h].todo) = "tell"
  /\ Len(told) < MaxTold
  /\ told' = Append(told, [id |-> work[h].id, value |-> work[h].value])
  /\ failed' = IF work[h].id = "stored" THEN failed \ {"unheard"} ELSE failed
  /\ Advance(h)
  /\ UNCHANGED <<edited, guest, row, entity, id, dirty, heard, screen>>

\* ext-av's handler of worldsim.player_status.
Hear ==
  /\ told # <<>>
  /\ heard' = [heard EXCEPT ![Head(told).id] = Head(told).value]
  /\ told' = Tail(told)
  /\ UNCHANGED <<edited, guest, row, entity, id, dirty, work, screen, failed>>

-----------------------------------------------------------------------------
(* ReplicationSystem.Step. *)

LabelOf(e) == [f \in Label |-> e[f]]

\* A spawn carries everything, but no label for an entity without a name.
\* (The player's own sprite on the player's own screen is not followed.)
Spawned(v, e) == [label  |-> IF e.name = 0 THEN None ELSE LabelOf(e),
                  sprite |-> IF v = "self" THEN None ELSE e.sprite]

\* Updates carry what is dirty; the player's own sprite is not sent back.
Updated(v, s, e) ==
  [label  |-> IF "name" \in dirty THEN LabelOf(e) ELSE s.label,
   sprite |-> IF "appearance" \in dirty /\ v = "other" THEN e.sprite ELSE s.sprite]

\* One tick; near: the other player is near enough to see this one.
Tick(near) ==
  /\ entity # None
  /\ screen' = [v \in Viewers |->
       IF v = "other" /\ ~near THEN None
       ELSE IF screen[v] = None THEN Spawned(v, entity)
       ELSE Updated(v, screen[v], entity)]
  /\ dirty' = {}
  /\ UNCHANGED <<edited, guest, row, entity, id, work, told, heard, failed>>

-----------------------------------------------------------------------------
Next ==
  \/ Connect
  \/ ConnectUnknown
  \/ Disconnect
  \/ \E x \in Values :
       \/ SetName(x) \/ SetSpriteBase(x) \/ SetPlayerOptions(x) \/ SetStatus(x) \/ SetAfk(x)
       \/ AdminSetName(x) \/ AdminSetSprite(x) \/ AdminSetPlayerOptions(x) \/ AdminSetStatus(x)
  \/ \E h \in Handlers :
       \/ Save(h)
       \/ SaveFails(h)
       \/ Tell(h)
  \/ Hear
  \/ \E near \in BOOLEAN : Tick(near)

Spec == Init /\ [][Next]_vars

-----------------------------------------------------------------------------
(* Properties. *)

TypeOK ==
  /\ edited \in Edits /\ guest \in BOOLEAN
  /\ row \in [Saved -> Values]
  /\ entity = None \/ entity \in [Fields -> Values \cup {StandIn}]
  /\ id \in Ids /\ dirty \subseteq {"name", "appearance"}
  /\ \A h \in Busy : work[h].value \in Values /\ work[h].id \in Ids
  /\ Len(told) <= MaxTold /\ heard \in [Ids -> Values]
  /\ failed \subseteq Saved \cup {"unheard"}

\* The handlers are done, ext-av has heard everything and a tick has passed.
Settled == entity # None /\ Busy = {} /\ told = <<>> /\ dirty = {}

\* The row holds what the entity has, but for saves that were refused and for
\* the name that stands in for none.
RowAgrees ==
  id = "stored" => \A f \in Saved \ failed :
    row[f] = entity[f] \/ (f = "name" /\ row[f] = 0 /\ entity[f] = StandIn)

\* Browsers show the present label (unless there is no name to show) and, to
\* others, the present sprite.
ScreensAgree == \A v \in Viewers : screen[v] # None =>
  /\ entity.name # 0 => screen[v].label = LabelOf(entity)
  /\ v = "other" => screen[v].sprite = entity.sprite

\* ext-av, which keeps who is in do-not-disturb out of conversations, has the
\* present status: one that was heard but not saved is gone with its session.
HeardAgrees == id = "made up" \/ "unheard" \notin failed => heard[id] = entity.status

\* Once the handlers are done, the entity, the row, the browsers and ext-av
\* agree about the player: across sessions, refused saves, and clients that
\* come near and leave between ticks.
ProfileAgrees == Settled => RowAgrees /\ ScreensAgree /\ HeardAgrees
=============================================================================

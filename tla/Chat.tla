-------------------------------- MODULE Chat --------------------------------
(***************************************************************************)
(* Chat lines and pings, from the window where they are typed to those     *)
(* where they show: the pusher, the handlers of worldsim (worldsim.go,     *)
(* admin_actions.go, ping.go) and back through the pusher.                 *)
(*                                                                         *)
(* A handler decides under s.mu for whom a line is, and publishes after    *)
(* releasing it: on chat.broadcast, which the pusher copies to every       *)
(* window it has, or on the inboxes of the recipients, one by one.  Every  *)
(* subscription has a queue and a goroutine of its own, and nothing is     *)
(* kept for a subscription that is gone.  NATS and WebSockets lose nothing *)
(* else.                                                                   *)
(*                                                                         *)
(* A line is a number; names, texts and their truncation are left out.     *)
(***************************************************************************)
EXTENDS Naturals, Sequences, FiniteSets

CONSTANTS
  Windows,     \* client ids
  None,
  Moods,       \* bound: a subset of Mood, what Change takes a player to
  MaxLines     \* bound: lines and pings in one behaviour

\* The three subscriptions of worldsim, and the queues through which the
\* pusher sends what they make.
Handlers == {"client.chat", "admin.chat", "client.ping"}
Inboxes == {"chat_inbox", "ping_inbox"}

\* currentProximityGroup, and whether Status is DoNotDisturb.
Mood == [circle : {"", "circle"}, dnd : BOOLEAN]

VARIABLES
  window,      \* pusher: where handleWS stands
  player,      \* worldsim: circle and do-not-disturb of a client's entity, or None
  asked,       \* the queue of each handler
  sending,     \* what each handler has yet to publish
  broadcast,   \* the queue of chat.broadcast
  writing,     \* pusher: the line its handler copies, and the windows still to do
  inbox,       \* the queues of client.<id>.chat_inbox and client.<id>.ping_inbox
  heard,       \* what each window has shown
  lines,       \* history: how many lines were typed
  meant        \* history: for whom each line was, when it was handled

vars == <<window, player, asked, sending, broadcast, writing, inbox, heard, lines, meant>>

worldVars == <<player, asked, sending, lines, meant>>

Init ==
  /\ window = [w \in Windows |-> "new"]
  /\ player = [w \in Windows |-> None]
  /\ asked = [h \in Handlers |-> <<>>]
  /\ sending = [h \in Handlers |-> None]
  /\ broadcast = <<>> /\ writing = None
  /\ inbox = [w \in Windows |-> [i \in Inboxes |-> <<>>]]
  /\ heard = [w \in Windows |-> <<>>]
  /\ lines = 0 /\ meant = <<>>

\* s.sessions of the pusher: also windows that are not, or never, let in.
sessions == {w \in Windows : window[w] \in {"waiting", "in"}}

-----------------------------------------------------------------------------
(* Windows and players.                                                    *)

\* handleWS subscribes the inboxes and stores the session, and then asks
\* worldsim.  A copy that is under way may include the new session.
Connect(w) ==
  /\ window[w] = "new"
  /\ window' = [window EXCEPT ![w] = "waiting"]
  /\ \/ writing # None /\ writing' = [writing EXCEPT !.to = @ \cup {w}]
     \/ UNCHANGED writing
  /\ UNCHANGED <<worldVars, broadcast, inbox, heard>>

\* provisionClient, and its answer.
LetIn(w) ==
  /\ window[w] = "waiting"
  /\ window' = [window EXCEPT ![w] = "in"]
  /\ player' = [player EXCEPT ![w] = [circle |-> "", dnd |-> FALSE]]
  /\ UNCHANGED <<asked, sending, lines, meant, broadcast, writing, inbox, heard>>

\* handleWS returns: a window was closed, or refused.
Close(w) ==
  /\ w \in sessions
  /\ window' = [window EXCEPT ![w] = "closed"]
  /\ inbox' = [inbox EXCEPT ![w] = [i \in Inboxes |-> <<>>]]
  /\ UNCHANGED <<worldVars, broadcast, writing, heard>>

\* despawnClient.
Leave(w) ==
  /\ window[w] = "closed" /\ player[w] # None
  /\ player' = [player EXCEPT ![w] = None]
  /\ UNCHANGED <<window, asked, sending, lines, meant, broadcast, writing, inbox, heard>>

\* ProximitySystem and handleSetStatus.
Change(w) ==
  /\ player[w] # None
  /\ \E mood \in Moods \ {player[w]} : player' = [player EXCEPT ![w] = mood]
  /\ UNCHANGED <<window, asked, sending, lines, meant, broadcast, writing, inbox, heard>>

-----------------------------------------------------------------------------
(* Requests.                                                               *)

Ask(h, request) ==
  /\ lines + Len(asked["client.chat"]) + Len(asked["admin.chat"]) + Len(asked["client.ping"])
       < MaxLines
  /\ asked' = [asked EXCEPT ![h] = Append(@, request)]
  /\ UNCHANGED <<window, player, sending, broadcast, writing, inbox, heard, lines, meant>>

\* ClientFrame_Chat.
Say(w, channel) ==
  window[w] = "in" /\ Ask("client.chat", [who |-> w, channel |-> channel])

\* The MCP tool send_chat_as speaks for an entity.
SayAs(w, channel) ==
  window[w] # "new" /\ Ask("admin.chat", [who |-> w, channel |-> channel])

\* ClientFrame_PingPlayer.
Ping(w, target) ==
  window[w] = "in" /\ target # w /\ Ask("client.ping", [who |-> target, channel |-> "ping"])

-----------------------------------------------------------------------------
(* Handlers.                                                               *)

\* The handler is done with the request at its head, under s.mu, and has a
\* line for the recipients.
Decide(h, channel, recipients) ==
  /\ asked' = [asked EXCEPT ![h] = Tail(@)]
  /\ lines' = lines + 1
  /\ meant' = Append(meant, recipients)
  /\ sending' = [sending EXCEPT ![h] =
       [line |-> [id |-> lines + 1, channel |-> channel, by |-> h], to |-> recipients]]
  /\ UNCHANGED <<window, player, broadcast, writing, inbox, heard>>

Drop(h) ==
  /\ asked' = [asked EXCEPT ![h] = Tail(@)]
  /\ UNCHANGED <<window, player, sending, broadcast, writing, inbox, heard, lines, meant>>

Ready(h) == asked[h] # <<>> /\ sending[h] = None

\* The clients of the sender's circle, the sender's own among them.
Circle(w) ==
  {v \in Windows : player[v] # None /\ player[w].circle # "" /\ player[v].circle = player[w].circle}

\* What handleChat and the admin's handler have in common.
Chat(h) ==
  /\ Ready(h)
  /\ LET request == Head(asked[h]) IN
       CASE player[request.who] = None -> Drop(h)
         [] player[request.who] # None /\ request.channel = "global" ->
              Decide(h, "global", sessions)
         [] player[request.who] # None /\ request.channel = "proximity" ->
              IF Circle(request.who) = {} THEN Drop(h)
              ELSE Decide(h, "proximity", Circle(request.who))

handleChat == Chat("client.chat")
adminChat == Chat("admin.chat")

\* subscribeClientPing: nothing for one who does not want to be disturbed.
handlePing ==
  /\ Ready("client.ping")
  /\ LET target == Head(asked["client.ping"]).who IN
       IF player[target] = None \/ player[target].dnd THEN Drop("client.ping")
       ELSE Decide("client.ping", "ping", {target})

\* Mutant: a global line goes to the inboxes, one after the other.
BroadcastToInboxes(h) ==
  /\ sending[h] # None /\ sending[h].line.channel = "global"
  /\ \E w \in sending[h].to :
       /\ inbox' = [inbox EXCEPT ![w]["chat_inbox"] = Append(@, sending[h].line)]
       /\ sending' = [sending EXCEPT ![h] =
            IF @.to = {w} THEN None ELSE [line |-> @.line, to |-> @.to \ {w}]]
  /\ UNCHANGED <<window, player, asked, broadcast, writing, heard, lines, meant>>

\* A global line is published once.
Broadcast(h) ==
  /\ sending[h] # None /\ sending[h].line.channel = "global"
  /\ broadcast' = Append(broadcast, sending[h].line)
  /\ sending' = [sending EXCEPT ![h] = None]
  /\ UNCHANGED <<window, player, asked, writing, inbox, heard, lines, meant>>

InboxOf(h) == IF h = "client.ping" THEN "ping_inbox" ELSE "chat_inbox"

\* Others to one recipient after the other: in vain if the window is closed.
SendTo(h, w) ==
  /\ sending[h] # None /\ sending[h].line.channel # "global" /\ w \in sending[h].to
  /\ inbox' = IF w \in sessions
              THEN [inbox EXCEPT ![w][InboxOf(h)] = Append(@, sending[h].line)]
              ELSE inbox
  /\ sending' = [sending EXCEPT ![h] =
       IF @.to = {w} THEN None ELSE [line |-> @.line, to |-> @.to \ {w}]]
  /\ UNCHANGED <<window, player, asked, broadcast, writing, heard, lines, meant>>

-----------------------------------------------------------------------------
(* The pusher.                                                             *)

\* The handler of chat.broadcast takes a line ...
Copy ==
  /\ broadcast # <<>> /\ writing = None
  /\ writing' = [line |-> Head(broadcast), to |-> sessions]
  /\ broadcast' = Tail(broadcast)
  /\ UNCHANGED <<window, worldVars, inbox, heard>>

\* ... and writes it to the windows, as far as they are still open.
CopyTo(w) ==
  /\ writing # None /\ w \in writing.to
  /\ heard' = IF w \in sessions THEN [heard EXCEPT ![w] = Append(@, writing.line)] ELSE heard
  /\ writing' = [writing EXCEPT !.to = @ \ {w}]
  /\ UNCHANGED <<window, worldVars, broadcast, inbox>>

Copied ==
  /\ writing # None /\ writing.to = {}
  /\ writing' = None
  /\ UNCHANGED <<window, worldVars, broadcast, inbox, heard>>

\* The handlers of a window's inboxes.
Pass(w, i) ==
  /\ inbox[w][i] # <<>>
  /\ heard' = [heard EXCEPT ![w] = Append(@, Head(inbox[w][i]))]
  /\ inbox' = [inbox EXCEPT ![w][i] = Tail(@)]
  /\ UNCHANGED <<window, worldVars, broadcast, writing>>

Next ==
  \/ \E w \in Windows :
       \/ Connect(w) \/ LetIn(w) \/ Close(w) \/ Leave(w) \/ Change(w)
       \/ \E channel \in {"global", "proximity"} : Say(w, channel) \/ SayAs(w, channel)
       \/ \E target \in Windows : Ping(w, target)
       \/ \E h \in Handlers : SendTo(h, w)
       \/ \E i \in Inboxes : Pass(w, i)
       \/ CopyTo(w)
  \/ \E h \in Handlers : Broadcast(h)
  \/ handleChat \/ adminChat \/ handlePing \/ Copy \/ Copied

Spec == Init /\ [][Next]_vars

-----------------------------------------------------------------------------
(* Properties.                                                             *)

TypeOK ==
  /\ window \in [Windows -> {"new", "waiting", "in", "closed"}]
  /\ player \in [Windows -> Mood \cup {None}]
  /\ writing = None \/ writing.to \subseteq Windows
  /\ \A h \in Handlers : sending[h] = None \/ sending[h].to \subseteq Windows
  /\ lines = Len(meant) /\ lines <= MaxLines

Shows(w, line) == \E n \in DOMAIN heard[w] : heard[w][n] = line
Earlier(w, a, b) == \E m, n \in DOMAIN heard[w] : m < n /\ heard[w][m] = a /\ heard[w][n] = b

\* Two windows that show two global lines show them in one order, whoever
\* spoke, through whatever handler.
OneOrder ==
  \A v, w \in Windows : \A m, n \in DOMAIN heard[w] :
    m < n /\ heard[w][m].channel = "global" /\ heard[w][n].channel = "global"
      => ~Earlier(v, heard[w][n], heard[w][m])

\* A window shows the lines of one handler and channel in the order in which
\* they were handled, none of them twice.
InOrder ==
  \A w \in Windows : \A m, n \in DOMAIN heard[w] :
    m < n /\ heard[w][m].channel = heard[w][n].channel /\ heard[w][m].by = heard[w][n].by
      => heard[w][m].id < heard[w][n].id

\* Only a circle hears what is said in it.
Private ==
  \A w \in Windows : \A n \in DOMAIN heard[w] :
    heard[w][n].channel # "global" => w \in meant[heard[w][n].id]

AtRest ==
  /\ broadcast = <<>> /\ writing = None /\ \A h \in Handlers : sending[h] = None
  /\ \A w \in Windows, i \in Inboxes : inbox[w][i] = <<>>

\* When nothing is under way, every window for which a line was meant, if it is
\* still open, has shown it.
Complete ==
  AtRest => \A w \in sessions, id \in DOMAIN meant :
              w \in meant[id] => \E n \in DOMAIN heard[w] : heard[w][n].id = id

\* A conversation is the same for all who take part: in one order, without
\* gaps or repetitions, and without listeners from elsewhere, while windows and
\* circles come and go between the steps of the handlers.
ConversationsAgree == OneOrder /\ InOrder /\ Private /\ Complete
=============================================================================

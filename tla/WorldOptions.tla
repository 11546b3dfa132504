---------------------------- MODULE WorldOptions ----------------------------
(***************************************************************************)
(* The server-wide options: the NATS KV key that worldsim alone writes,    *)
(* its copy in memory, the editors that read, change and replace all of    *)
(* it (the admin portal's form, the MCP tools), and those that live by it: *)
(* worldsim's own mailer ("smtp"), ext-rec, and the audit service's        *)
(* notifier.                                                               *)
(*                                                                         *)
(* Set changes KV and memory under m.mu and publishes after releasing it;  *)
(* a worldsim that starts reads KV, answers, and then publishes too.  NATS *)
(* keeps nothing for who has not subscribed.                               *)
(*                                                                         *)
(* The options are reduced to one of each kind: allow_player_teleport,     *)
(* which only worldsim reads; the mailer's settings; who receives error    *)
(* emails, of whom validation refuses a king without an address; a         *)
(* duration, that the form rounds; and a mirror of the environment.        *)
(***************************************************************************)
EXTENDS Naturals, Sequences

CONSTANTS
  None,
  Editors,     \* subset of {"admin", "mcp"}
  Services,    \* subset of {"ext-rec", "audit"}
  Timeouts,    \* values of ffmpeg_timeout, in seconds
  Hosts,       \* values of PUBLIC_HOST
  Faults,      \* subset of {"crash", "overlap", "early", "gap"}
  MaxCrashes,  \* bound: times that worldsim dies
  MaxQueue     \* bound: broadcasts waiting at one subscriber

Options == [teleport: BOOLEAN, mail: {"mailhog", "smtp"}, timeout: Timeouts,
            errors: {"none", "king", "king without address"}, host: Hosts]
Editable == {"teleport", "mail", "timeout", "errors"}
Subscribers == {"smtp"} \cup Services

\* What a subscriber takes from the options.
Read(c, o) ==
  CASE c = "smtp" -> o.mail
    [] c = "ext-rec" -> <<o.timeout, o.host>>
    [] c = "audit" -> o.errors

VARIABLES
  host,        \* PUBLIC_HOST of the worldsim that runs
  stored,      \* KV: world_options/current, or None
  current,     \* worldsim: m.current, or None when it is down
  boot,        \* worldsim: "down", "loaded", "serving", "listening", "up"
  unsent,      \* worldsim: what Set, and the start, have still to publish
  queue,       \* broadcasts on their way to each subscriber
  phase,       \* of each subscriber: "down", "fetched", "on"
  view,        \* what each subscriber goes by, or None
  form,        \* what each editor has open, or None
  lost,        \* history: fields that the last edit changed unasked
  crashes      \* history: times that worldsim died

vars == <<host, stored, current, boot, unsent, queue, phase, view, form, lost, crashes>>
worldsimVars == <<host, stored, current, boot, unsent, crashes>>
viewVars == <<queue, phase, view>>

\* defaultWorldOptions.
Defaults(h) == [teleport |-> FALSE, mail |-> "mailhog", timeout |-> 600,
                errors |-> "king without address", host |-> h]

Init ==
  /\ host \in Hosts
  /\ stored = None /\ current = None /\ boot = "down"
  /\ unsent = [set |-> None, start |-> None]
  /\ queue = [c \in Subscribers |-> <<>>]
  /\ phase = [c \in Subscribers |-> "down"] /\ view = [c \in Subscribers |-> None]
  /\ form = [e \in Editors |-> None] /\ lost = {} /\ crashes = 0

-----------------------------------------------------------------------------
(* worldsim *)

\* Mutant: what is stored is loaded as it is.
LoadedStored == IF stored = None THEN Defaults(host) ELSE stored

\* What NewWorldOptionsManager starts from: the seed, or what is stored with
\* the host of the environment.
Loaded == IF stored = None THEN Defaults(host) ELSE [stored EXCEPT !.host = host]

\* NewWorldOptionsManager puts what it starts from, and main applies the
\* options to PocketBase's mailer.
Start ==
  /\ boot = "down" /\ boot' = "loaded"
  /\ stored' = Loaded /\ current' = Loaded
  /\ phase' = [phase EXCEPT !["smtp"] = "fetched"]
  /\ view' = [view EXCEPT !["smtp"] = Read("smtp", Loaded)]
  /\ UNCHANGED <<host, unsent, queue, form, lost, crashes>>

\* subscribeWorldOptions: worldsim answers get and set.
Serve ==
  /\ boot = "loaded" /\ boot' = "serving"
  /\ UNCHANGED <<host, stored, current, unsent, viewVars, form, lost, crashes>>

\* The subscription to world_options.update that feeds the mailer.
Listen ==
  /\ boot = "serving" /\ boot' = "listening"
  /\ phase' = [phase EXCEPT !["smtp"] = "on"]
  /\ UNCHANGED <<host, stored, current, unsent, queue, view, form, lost, crashes>>

\* PublishUpdate, with worldsim.ready: the options are read under m.mu ...
Announce ==
  /\ boot = "listening" /\ boot' = "up"
  /\ "early" \in Faults \/ unsent.set = None
  /\ unsent' = [unsent EXCEPT !.start = current]
  /\ UNCHANGED <<host, stored, current, viewVars, form, lost, crashes>>

\* ... and published, as Set publishes after it released m.mu.
Publish(by) ==
  /\ unsent[by] # None
  /\ "gap" \in Faults \/ \A c \in Services : phase[c] # "fetched"
  /\ \A c \in Subscribers : phase[c] = "on" => Len(queue[c]) < MaxQueue
  /\ queue' = [c \in Subscribers |->
       IF phase[c] = "on" THEN Append(queue[c], Read(c, unsent[by])) ELSE queue[c]]
  /\ unsent' = [unsent EXCEPT ![by] = None]
  /\ UNCHANGED <<host, stored, current, boot, phase, view, form, lost, crashes>>

\* worldsim dies, and is started again with whatever its environment says.
Crash(h) ==
  /\ "crash" \in Faults /\ boot # "down" /\ crashes < MaxCrashes
  /\ crashes' = crashes + 1
  /\ boot' = "down" /\ current' = None /\ host' = h
  /\ unsent' = [set |-> None, start |-> None]
  /\ queue' = [queue EXCEPT !["smtp"] = <<>>]
  /\ phase' = [phase EXCEPT !["smtp"] = "down"] /\ view' = [view EXCEPT !["smtp"] = None]
  /\ UNCHANGED <<stored, form, lost>>

Serving == boot \in {"serving", "listening", "up"}

-----------------------------------------------------------------------------
(* Editors *)

\* What the editor holds of options: the form has whole minutes, and the
\* type of the MCP server lacks allow_player_teleport, which is then false.
Seen(e, o) == [o EXCEPT !.timeout = IF e = "admin" THEN (@ \div 60) * 60 ELSE @,
                        !.teleport = e = "admin" /\ @]

\* world_options.get, for an editor.
Open(e) ==
  /\ Serving /\ form[e] = None
  /\ "overlap" \in Faults \/ \A other \in Editors : form[other] = None
  /\ form' = [form EXCEPT ![e] = Seen(e, current)]
  /\ UNCHANGED <<worldsimVars, viewVars, lost>>

\* What the form posts: no minutes is the default of ten.
Posted(e, o) == IF e = "admin" /\ o.timeout = 0 THEN [o EXCEPT !.timeout = 600] ELSE o

\* validateWorldOptions.
Valid(o) == o.timeout >= 1 /\ o.errors # "king without address"

\* WorldOptionsManager.Set, up to the release of m.mu: all is replaced but
\* what mirrors the environment.
Set(o) ==
  /\ current' = [o EXCEPT !.host = current.host]
  /\ stored' = current'
  /\ unsent' = [unsent EXCEPT !.set = current']

\* world_options.set: the editor posts what it holds, with one field changed.
\* The subscription handles one request at a time.
Submit(e, field, to) ==
  /\ form[e] # None /\ Serving /\ unsent.set = None
  /\ "early" \in Faults \/ unsent.start = None
  /\ form' = [form EXCEPT ![e] = None]
  /\ LET o == Posted(e, [form[e] EXCEPT ![field] = to])
     IN  IF Valid(o)
           THEN /\ Set(o)
                /\ lost' = {f \in Editable \ {field} : o[f] # current[f]}
           ELSE UNCHANGED <<current, stored, unsent, lost>>
  /\ UNCHANGED <<host, boot, crashes, viewVars>>

Change == \E e \in Editors, field \in Editable :
  \E to \in {Seen(e, o)[field] : o \in Options} : Submit(e, field, to)

-----------------------------------------------------------------------------
(* Subscribers *)

\* A service starts and asks for the options.  Without an answer ext-rec
\* exits (and is started again), and the notifier goes on with none.
Fetch(c) ==
  /\ phase[c] = "down" /\ (c = "ext-rec" => Serving)
  /\ phase' = [phase EXCEPT ![c] = "fetched"]
  /\ view' = [view EXCEPT ![c] = IF Serving THEN Read(c, current) ELSE None]
  /\ UNCHANGED <<worldsimVars, queue, form, lost>>

\* Then it subscribes, ...
Subscribe(c) ==
  /\ phase[c] = "fetched"
  /\ phase' = [phase EXCEPT ![c] = "on"]
  /\ UNCHANGED <<worldsimVars, queue, view, form, lost>>

\* ... and it may stop.
Stop(c) ==
  /\ phase[c] # "down"
  /\ phase' = [phase EXCEPT ![c] = "down"] /\ view' = [view EXCEPT ![c] = None]
  /\ queue' = [queue EXCEPT ![c] = <<>>]
  /\ UNCHANGED <<worldsimVars, form, lost>>

\* A broadcast arrives: options, which the mailer and ext-rec take.  The
\* notifier looks for a reply around them, finds no ok in it, and returns.
Arrive(c) ==
  /\ queue[c] # <<>>
  /\ view' = [view EXCEPT ![c] = IF c = "audit" THEN @ ELSE Head(queue[c])]
  /\ queue' = [queue EXCEPT ![c] = Tail(@)]
  /\ UNCHANGED <<worldsimVars, phase, form, lost>>

-----------------------------------------------------------------------------
Next ==
  \/ Start \/ Serve \/ Listen \/ Announce
  \/ \E by \in {"set", "start"} : Publish(by)
  \/ \E h \in Hosts : Crash(h)
  \/ \E e \in Editors : Open(e)
  \/ Change
  \/ \E c \in Services : Fetch(c) \/ Subscribe(c) \/ Stop(c)
  \/ \E c \in Subscribers : Arrive(c)

Spec == Init /\ [][Next]_vars

-----------------------------------------------------------------------------
(* Properties. *)

TypeOK ==
  /\ host \in Hosts
  /\ stored \in Options \cup {None} /\ current \in Options \cup {None}
  /\ \A by \in {"set", "start"} : unsent[by] \in Options \cup {None}
  /\ \A c \in Subscribers :
       Len(queue[c]) <= MaxQueue /\ view[c] \in {Read(c, o) : o \in Options} \cup {None}
  /\ lost \subseteq Editable /\ crashes <= MaxCrashes

\* worldsim has started, and everything it published was heard.
Settled ==
  /\ boot = "up" /\ unsent = [set |-> None, start |-> None]
  /\ queue = [c \in Subscribers |-> <<>>]

Reaches(c) == phase[c] = "on" => view[c] = Read(c, current)

\* The mailer and ext-rec go by the options in memory, which are those in KV
\* and have the host of the environment: after edits, whenever ext-rec was
\* started, and when worldsim died between storing options and publishing
\* them.
OptionsReach == Settled =>
  /\ \A c \in Subscribers \ {"audit"} : Reaches(c)
  /\ stored = current /\ current.host = host

\* The notifier does too: "Hot-reload on world_options.update. worldsim
\* broadcasts the full options JSON on every save and on worldsim.ready."
\* (cmd/audit/notifier.go:52)
OptionsReachAudit == "audit" \in Services /\ Settled => Reaches("audit")

\* An edit changes the field it is about and keeps the others: "call
\* get_world_options first, modify the fields you want to change, then pass
\* the full object back" (cmd/mcp/tools.go:388).
EditsAreKept == lost = {}
=============================================================================

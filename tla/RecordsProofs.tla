--------------------------- MODULE RecordsProofs ---------------------------
(***************************************************************************)
(* Theorems about WorldOptions (O) and Profile (P), as MCRecords puts them *)
(* beside Persistence, for any editors, services, hosts, handlers at work, *)
(* refused saves, restarts and sessions.                                   *)
(*                                                                         *)
(* What an editor or a handler changed is, until everyone knows it, still  *)
(* to be published or saved by somebody: Heeded says which broadcast will  *)
(* bring a subscriber up to date, Kept, ToldRow, ToldEntity and Shown what *)
(* the row, ext-av and the browsers lack and who is about to supply it.    *)
(***************************************************************************)
EXTENDS MCRecords, PersistenceProofs

-----------------------------------------------------------------------------
(* The world's options. *)

\* What editors hold: the form may show no minutes.
Forms == [teleport : BOOLEAN, mail : {"mailhog", "smtp"}, timeout : Timeouts \cup {0},
          errors : {"none", "king", "king without address"}, host : Hosts]
Answers(c) == {O!Read(c, o) : o \in O!Options}

OptionsTypes ==
  /\ host \in Hosts
  /\ stored \in O!Options \cup {None} /\ current \in O!Options \cup {None}
  /\ boot \in {"down", "loaded", "serving", "listening", "up"}
  /\ unsent \in [set : O!Options \cup {None}, start : O!Options \cup {None}]
  /\ DOMAIN queue = O!Subscribers
  /\ \A c \in O!Subscribers : queue[c] \in Seq(Answers(c)) /\ Len(queue[c]) <= MaxQueue
  /\ DOMAIN view = O!Subscribers
  /\ \A c \in O!Subscribers : view[c] \in Answers(c) \cup {None}
  /\ phase \in [O!Subscribers -> {"down", "fetched", "on"}]
  /\ form \in [Editors -> Forms \cup {None}]
  /\ lost \subseteq O!Editable /\ crashes \in 0..MaxCrashes

\* A worldsim that runs has the options of KV, with the host of its
\* environment; it hears its own broadcasts from "listening" on; broadcasts
\* wait only for who has subscribed.
Booted ==
  /\ boot # "down" => current \in O!Options /\ stored = current /\ current.host = host
  /\ boot = "down" => current = None /\ unsent.set = None /\ unsent.start = None
  /\ phase["smtp"] = (CASE boot = "down" -> "down"
                        [] boot \in {"loaded", "serving"} -> "fetched"
                        [] boot \in {"listening", "up"} -> "on")
  /\ \A c \in O!Subscribers : queue[c] # <<>> => phase[c] = "on"

OptionsSane == OptionsTypes /\ Booted

LEMMA SubscribersAre ==
  /\ "smtp" \in O!Subscribers /\ Services \subseteq O!Subscribers /\ "smtp" \notin Services
  /\ \A c \in O!Subscribers : c = "smtp" \/ c \in Services
BY OptionsAssumption DEF O!Subscribers

LEMMA SeenIs ==
  ASSUME NEW e \in Editors, NEW o \in O!Options
  PROVE  O!Seen(e, o) \in Forms
<1> DEFINE minutes == IF e = "admin" THEN (o.timeout \div 60) * 60 ELSE o.timeout
           teleports == e = "admin" /\ o.teleport
<1>1. minutes \in Timeouts \cup {0}
  BY OptionsAssumption DEF O!Options
<1>2. teleports \in BOOLEAN
  OBVIOUS
<1>3. O!Seen(e, o) = [o EXCEPT !.timeout = minutes, !.teleport = teleports]
  BY DEF O!Seen
<1> HIDE DEF minutes, teleports
<1>4. [o EXCEPT !.timeout = minutes, !.teleport = teleports] \in Forms
  BY <1>1, <1>2 DEF O!Options, Forms
<1> QED BY <1>3, <1>4

\* An edited form is one.
LEMMA EditIs ==
  ASSUME NEW e \in Editors, NEW f \in Forms, NEW field \in O!Editable, NEW o \in O!Options
  PROVE  [f EXCEPT ![field] = O!Seen(e, o)[field]] \in Forms
<1> DEFINE s == O!Seen(e, o)
<1>1. s \in Forms
  BY SeenIs
<1> HIDE DEF s
<1>2. [f EXCEPT ![field] = s[field]] \in Forms
  BY <1>1 DEF O!Editable, Forms
<1> QED BY <1>2 DEF s

\* What passes validation has minutes.
LEMMA SetIs ==
  ASSUME NEW e \in Editors, NEW f \in Forms, current \in O!Options,
         O!Valid(O!Posted(e, f)), O!Set(O!Posted(e, f))
  PROVE  /\ current' \in O!Options /\ current'.host = current.host /\ stored' = current'
         /\ unsent' = [unsent EXCEPT !.set = current']
<1> DEFINE o == O!Posted(e, f)
<1>1. o \in Forms
  <2>1. 600 \in Timeouts \cup {0}
    BY OptionsAssumption
  <2>2. ASSUME NEW t \in Timeouts \cup {0} PROVE [f EXCEPT !.timeout = t] \in Forms
    BY DEF Forms
  <2>3. o = f \/ o = [f EXCEPT !.timeout = 600]
    BY DEF O!Posted
  <2> QED BY <2>1, <2>2, <2>3
<1>2. O!Valid(o) /\ O!Set(o)
  OBVIOUS
<1> HIDE DEF o
<1>3. o.timeout \in Timeouts /\ current.host \in Hosts
  <2>1. o.timeout \in Timeouts \cup {0}
    BY <1>1 DEF Forms
  <2>2. o.timeout >= 1
    BY <1>2 DEF O!Valid
  <2>3. current.host \in Hosts
    BY DEF O!Options
  <2> QED BY <2>1, <2>2, <2>3
<1>4. current' = [o EXCEPT !.host = current.host] /\ stored' = current'
      /\ unsent' = [unsent EXCEPT !.set = current']
  BY <1>2 DEF O!Set
<1> DEFINE h == current.host
           new == [o EXCEPT !.host = h]
<1> HIDE DEF h
<1>5. new \in O!Options /\ new.host = h
  BY <1>1, <1>3 DEF O!Options, Forms, h
<1> QED BY <1>4, <1>5 DEF h

LEMMA LoadedIs ==
  ASSUME OptionsTypes
  PROVE  O!Loaded \in O!Options /\ O!Loaded.host = host
<1>1. CASE stored = None
  BY <1>1, OptionsAssumption DEF O!Loaded, O!Defaults, O!Options, OptionsTypes
<1>2. CASE stored # None
  BY <1>2 DEF O!Loaded, O!Options, OptionsTypes
<1> QED BY <1>1, <1>2

LEMMA AnswerIs ==
  ASSUME NEW c, NEW o \in O!Options
  PROVE  O!Read(c, o) \in Answers(c)
BY DEF Answers

\* A broadcast is added to a queue, or taken from it.
LEMMA QueueGrows ==
  ASSUME NEW T, NEW q \in Seq(T), NEW x \in T
  PROVE  /\ Append(q, x) \in Seq(T) /\ Len(Append(q, x)) = Len(q) + 1 /\ Len(q) \in Nat
         /\ Append(q, x) # <<>> /\ Append(q, x)[Len(Append(q, x))] = x
OBVIOUS

LEMMA QueueShrinks ==
  ASSUME NEW T, NEW q \in Seq(T), q # <<>>
  PROVE  /\ Head(q) \in T /\ Tail(q) \in Seq(T) /\ Len(Tail(q)) = Len(q) - 1
         /\ Len(q) \in Nat /\ Len(q) >= 1
         /\ IF Tail(q) = <<>> THEN Head(q) = q[Len(q)] ELSE Tail(q)[Len(Tail(q))] = q[Len(q)]
<1>1. Len(q) \in Nat /\ Len(q) >= 1 /\ Tail(q) \in Seq(T) /\ Len(Tail(q)) = Len(q) - 1
  OBVIOUS
<1>2. Head(q) = q[1] /\ \A n \in 1..Len(q) : q[n] \in T
  OBVIOUS
<1>3. \A n \in 1..(Len(q) - 1) : Tail(q)[n] = q[n + 1]
  OBVIOUS
<1> DEFINE t == Tail(q)
<1>4. t \in Seq(T) /\ Len(t) = Len(q) - 1 /\ \A n \in 1..(Len(q) - 1) : t[n] = q[n + 1]
  BY <1>1, <1>3
<1> HIDE DEF t
<1>5. t = <<>> <=> Len(t) = 0
  BY <1>4
<1>6. IF t = <<>> THEN Head(q) = q[Len(q)] ELSE t[Len(t)] = q[Len(q)]
  BY <1>1, <1>2, <1>4, <1>5
<1> QED BY <1>1, <1>2, <1>6 DEF t

\* What the subscribers have: queue and view of one of them change, or none.
LEMMA ViewsStay ==
  ASSUME OptionsTypes, UNCHANGED <<queue, view>>
  PROVE  /\ DOMAIN queue' = O!Subscribers /\ DOMAIN view' = O!Subscribers
         /\ \A c \in O!Subscribers :
              /\ queue'[c] \in Seq(Answers(c)) /\ Len(queue'[c]) <= MaxQueue
              /\ view'[c] \in Answers(c) \cup {None}
BY DEF OptionsTypes

LEMMA StartKeepsSane ==
  ASSUME OptionsSane, O!Start \/ O!Serve \/ O!Listen \/ O!Announce
  PROVE  OptionsSane'
<1> USE DEF OptionsSane
<1>1. CASE O!Start
  <2>1. O!Loaded \in O!Options /\ O!Loaded.host = host
    BY LoadedIs
  <2>2. /\ phase' \in [O!Subscribers -> {"down", "fetched", "on"}]
        /\ phase'["smtp"] = "fetched"
        /\ \A c \in O!Subscribers : c # "smtp" => phase'[c] = phase[c]
    BY <1>1, SubscribersAre DEF O!Start, OptionsTypes
  <2>3. /\ DOMAIN view' = O!Subscribers
        /\ \A c \in O!Subscribers : view'[c] \in Answers(c) \cup {None}
    <3>1. O!Read("smtp", O!Loaded) \in Answers("smtp")
      BY <2>1, AnswerIs
    <3> QED BY <1>1, <3>1, SubscribersAre DEF O!Start, OptionsTypes
  <2>4. OptionsTypes'
    BY <1>1, <2>1, <2>2, <2>3 DEF O!Start, OptionsTypes
  <2>5. Booted'
    <3>1. /\ boot' = "loaded" /\ current' \in O!Options /\ stored' = current' /\ current'.host = host'
      BY <1>1, <2>1 DEF O!Start
    <3>2. \A c \in O!Subscribers : queue'[c] # <<>> => phase'[c] = "on"
      BY <1>1, <2>2 DEF O!Start, Booted
    <3> QED BY <2>2, <3>1, <3>2 DEF Booted
  <2> QED BY <2>4, <2>5
<1>2. CASE O!Serve
  <2>1. OptionsTypes'
    BY <1>2 DEF O!Serve, OptionsTypes, O!viewVars
  <2>2. Booted'
    BY <1>2 DEF O!Serve, Booted, O!viewVars
  <2> QED BY <2>1, <2>2
<1>3. CASE O!Listen
  <2>1. /\ phase' \in [O!Subscribers -> {"down", "fetched", "on"}]
        /\ phase'["smtp"] = "on"
        /\ \A c \in O!Subscribers : c # "smtp" => phase'[c] = phase[c]
    BY <1>3, SubscribersAre DEF O!Listen, OptionsTypes
  <2>2. OptionsTypes'
    BY <1>3, <2>1 DEF O!Listen, OptionsTypes
  <2>3. Booted'
    BY <1>3, <2>1 DEF O!Listen, Booted
  <2> QED BY <2>2, <2>3
<1>4. CASE O!Announce
  <2>1. current \in O!Options
    BY <1>4 DEF O!Announce, Booted
  <2>2. unsent' \in [set : O!Options \cup {None}, start : O!Options \cup {None}]
    BY <1>4, <2>1 DEF O!Announce, OptionsTypes
  <2>3. OptionsTypes'
    BY <1>4, <2>2 DEF O!Announce, OptionsTypes, O!viewVars
  <2>4. Booted'
    BY <1>4 DEF O!Announce, Booted, O!viewVars
  <2> QED BY <2>3, <2>4
<1> QED BY <1>1, <1>2, <1>3, <1>4

LEMMA PublishKeepsSane ==
  ASSUME OptionsSane, NEW by \in {"set", "start"}, O!Publish(by)
  PROVE  OptionsSane'
<1> USE DEF OptionsSane
<1>1. unsent[by] \in O!Options
  BY DEF O!Publish, OptionsTypes
<1>2. \A c \in O!Subscribers :
        queue'[c] = IF phase[c] = "on" THEN Append(queue[c], O!Read(c, unsent[by])) ELSE queue[c]
  BY DEF O!Publish
<1>3. ASSUME NEW c \in O!Subscribers
      PROVE  queue'[c] \in Seq(Answers(c)) /\ Len(queue'[c]) <= MaxQueue
  <2>1. O!Read(c, unsent[by]) \in Answers(c) /\ queue[c] \in Seq(Answers(c)) /\ Len(queue[c]) <= MaxQueue
    BY <1>1, AnswerIs DEF OptionsTypes
  <2>2. phase[c] = "on" => Len(queue[c]) < MaxQueue
    BY DEF O!Publish
  <2> DEFINE new == Append(queue[c], O!Read(c, unsent[by]))
  <2>3. new \in Seq(Answers(c)) /\ Len(new) = Len(queue[c]) + 1 /\ Len(queue[c]) \in Nat
    BY <2>1, QueueGrows
  <2>4. queue'[c] = IF phase[c] = "on" THEN new ELSE queue[c]
    BY <1>2
  <2> HIDE DEF new
  <2> QED BY <2>1, <2>2, <2>3, <2>4, OptionsAssumption
<1>4. DOMAIN queue' = O!Subscribers
  BY DEF O!Publish
<1>5. unsent' \in [set : O!Options \cup {None}, start : O!Options \cup {None}]
  BY DEF O!Publish, OptionsTypes
<1>6. OptionsTypes'
  BY <1>3, <1>4, <1>5 DEF O!Publish, OptionsTypes
<1>7. Booted'
  <2>1. boot # "down"
    BY DEF O!Publish, Booted
  <2>2. \A c \in O!Subscribers : queue'[c] # <<>> => phase'[c] = "on"
    BY <1>2 DEF O!Publish, Booted
  <2> QED BY <2>1, <2>2 DEF O!Publish, Booted
<1> QED BY <1>6, <1>7

LEMMA CrashKeepsSane ==
  ASSUME OptionsSane, NEW h \in Hosts, O!Crash(h)
  PROVE  OptionsSane'
<1> USE DEF OptionsSane
<1>1. /\ phase' \in [O!Subscribers -> {"down", "fetched", "on"}]
      /\ phase'["smtp"] = "down" /\ queue'["smtp"] = <<>> /\ view'["smtp"] = None
      /\ DOMAIN queue' = O!Subscribers /\ DOMAIN view' = O!Subscribers
      /\ \A c \in O!Subscribers :
           c # "smtp" => phase'[c] = phase[c] /\ queue'[c] = queue[c] /\ view'[c] = view[c]
  BY SubscribersAre DEF O!Crash, OptionsTypes
<1>2. \A c \in O!Subscribers : queue'[c] \in Seq(Answers(c)) /\ Len(queue'[c]) <= MaxQueue
  <2>1. <<>> \in Seq(Answers("smtp")) /\ Len(<<>>) <= MaxQueue
    BY OptionsAssumption
  <2> QED BY <1>1, <2>1 DEF OptionsTypes
<1>3. \A c \in O!Subscribers : view'[c] \in Answers(c) \cup {None}
  BY <1>1 DEF OptionsTypes
<1>4. crashes' \in 0..MaxCrashes
  BY OptionsAssumption DEF O!Crash, OptionsTypes
<1>5. unsent' \in [set : O!Options \cup {None}, start : O!Options \cup {None}]
  BY DEF O!Crash
<1>6. OptionsTypes'
  BY <1>1, <1>2, <1>3, <1>4, <1>5 DEF O!Crash, OptionsTypes
<1>7. Booted'
  BY <1>1 DEF O!Crash, Booted
<1> QED BY <1>6, <1>7

LEMMA EditorsKeepSane ==
  ASSUME OptionsSane, O!Change \/ \E e \in Editors : O!Open(e)
  PROVE  OptionsSane'
<1> USE DEF OptionsSane
<1>1. ASSUME O!Serving PROVE boot # "down" /\ current \in O!Options /\ stored = current /\ current.host = host
  BY <1>1 DEF O!Serving, Booted
<1>2. ASSUME NEW e \in Editors, O!Open(e) PROVE OptionsSane'
  <2>1. O!Seen(e, current) \in Forms
    BY <1>1, <1>2, SeenIs DEF O!Open
  <2>2. form' \in [Editors -> Forms \cup {None}]
    BY <1>2, <2>1 DEF O!Open, OptionsTypes
  <2>3. OptionsTypes'
    BY <1>2, <2>2 DEF O!Open, OptionsTypes, O!worldsimVars, O!viewVars
  <2>4. Booted'
    BY <1>2 DEF O!Open, Booted, O!worldsimVars, O!viewVars
  <2> QED BY <2>3, <2>4
<1>3. ASSUME NEW e \in Editors, NEW field \in O!Editable, NEW o \in O!Options,
             O!Submit(e, field, O!Seen(e, o)[field])
      PROVE  OptionsSane'
  <2> DEFINE f == [form[e] EXCEPT ![field] = O!Seen(e, o)[field]]
             p == O!Posted(e, f)
  <2>1. f \in Forms
    <3>1. form[e] \in Forms
      BY <1>3 DEF O!Submit, OptionsTypes
    <3> QED BY <3>1, EditIs
  <2>2. form' \in [Editors -> Forms \cup {None}]
    BY <1>3 DEF O!Submit, OptionsTypes
  <2>3. /\ UNCHANGED <<host, boot, crashes, queue, phase, view>> /\ O!Serving
        /\ IF O!Valid(p) THEN O!Set(p) /\ lost' = {g \in O!Editable \ {field} : p[g] # current[g]}
                         ELSE UNCHANGED <<current, stored, unsent, lost>>
    BY <1>3 DEF O!Submit, O!viewVars
  <2> HIDE DEF f, p
  <2>4. CASE ~O!Valid(p)
    <3>1. OptionsTypes'
      BY <2>2, <2>3, <2>4 DEF OptionsTypes
    <3>2. Booted'
      BY <2>3, <2>4 DEF Booted
    <3> QED BY <3>1, <3>2
  <2>5. CASE O!Valid(p)
    <3>1. /\ current' \in O!Options /\ current'.host = current.host /\ stored' = current'
          /\ unsent' = [unsent EXCEPT !.set = current']
      BY <1>1, <2>1, <2>3, <2>5, SetIs DEF p
    <3>2. unsent' \in [set : O!Options \cup {None}, start : O!Options \cup {None}]
      BY <3>1 DEF OptionsTypes
    <3>3. lost' \subseteq O!Editable
      BY <2>3, <2>5
    <3>4. OptionsTypes'
      BY <2>2, <2>3, <3>1, <3>2, <3>3 DEF OptionsTypes
    <3>5. Booted'
      BY <1>1, <2>3, <3>1 DEF Booted
    <3> QED BY <3>4, <3>5
  <2> QED BY <2>4, <2>5
<1> QED BY <1>2, <1>3 DEF O!Change

LEMMA SubscribersKeepSane ==
  ASSUME OptionsSane,
         \/ \E c \in Services : O!Fetch(c) \/ O!Subscribe(c) \/ O!Stop(c)
         \/ \E c \in O!Subscribers : O!Arrive(c)
  PROVE  OptionsSane'
<1> USE DEF OptionsSane
<1>1. ASSUME NEW c \in Services, O!Fetch(c) PROVE OptionsSane'
  <2>1. (IF O!Serving THEN O!Read(c, current) ELSE None) \in Answers(c) \cup {None}
    BY AnswerIs DEF O!Serving, Booted
  <2>2. /\ phase' \in [O!Subscribers -> {"down", "fetched", "on"}]
        /\ phase'[c] = "fetched" /\ phase[c] = "down"
        /\ \A d \in O!Subscribers : d # c => phase'[d] = phase[d]
        /\ DOMAIN view' = O!Subscribers
        /\ \A d \in O!Subscribers : view'[d] \in Answers(d) \cup {None}
    BY <1>1, <2>1, SubscribersAre DEF O!Fetch, OptionsTypes
  <2>3. OptionsTypes'
    BY <1>1, <2>2 DEF O!Fetch, OptionsTypes, O!worldsimVars
  <2>4. Booted'
    BY <1>1, <2>2, SubscribersAre DEF O!Fetch, Booted, O!worldsimVars
  <2> QED BY <2>3, <2>4
<1>2. ASSUME NEW c \in Services, O!Subscribe(c) PROVE OptionsSane'
  <2>1. /\ phase' \in [O!Subscribers -> {"down", "fetched", "on"}]
        /\ phase'[c] = "on"
        /\ \A d \in O!Subscribers : d # c => phase'[d] = phase[d]
    BY <1>2, SubscribersAre DEF O!Subscribe, OptionsTypes
  <2>2. OptionsTypes'
    BY <1>2, <2>1 DEF O!Subscribe, OptionsTypes, O!worldsimVars
  <2>3. Booted'
    BY <1>2, <2>1, SubscribersAre DEF O!Subscribe, Booted, O!worldsimVars
  <2> QED BY <2>2, <2>3
<1>3. ASSUME NEW c \in Services, O!Stop(c) PROVE OptionsSane'
  <2>1. /\ phase' \in [O!Subscribers -> {"down", "fetched", "on"}]
        /\ queue'[c] = <<>> /\ view'[c] = None
        /\ DOMAIN queue' = O!Subscribers /\ DOMAIN view' = O!Subscribers
        /\ \A d \in O!Subscribers :
             d # c => phase'[d] = phase[d] /\ queue'[d] = queue[d] /\ view'[d] = view[d]
    BY <1>3, SubscribersAre DEF O!Stop, OptionsTypes
  <2>2. <<>> \in Seq(Answers(c)) /\ Len(<<>>) <= MaxQueue
    BY OptionsAssumption
  <2>3. \A d \in O!Subscribers :
          /\ queue'[d] \in Seq(Answers(d)) /\ Len(queue'[d]) <= MaxQueue
          /\ view'[d] \in Answers(d) \cup {None}
    BY <2>1, <2>2 DEF OptionsTypes
  <2>4. OptionsTypes'
    BY <1>3, <2>1, <2>3 DEF O!Stop, OptionsTypes, O!worldsimVars
  <2>5. Booted'
    BY <1>3, <2>1, SubscribersAre DEF O!Stop, Booted, O!worldsimVars
  <2> QED BY <2>4, <2>5
<1>4. ASSUME NEW c \in O!Subscribers, O!Arrive(c) PROVE OptionsSane'
  <2>1. queue[c] \in Seq(Answers(c)) /\ Len(queue[c]) <= MaxQueue /\ queue[c] # <<>>
    BY <1>4 DEF O!Arrive, OptionsTypes
  <2>2. /\ Head(queue[c]) \in Answers(c) /\ Tail(queue[c]) \in Seq(Answers(c))
        /\ Len(Tail(queue[c])) = Len(queue[c]) - 1 /\ Len(queue[c]) \in Nat
    BY <2>1, QueueShrinks
  <2>3. /\ DOMAIN queue' = O!Subscribers /\ DOMAIN view' = O!Subscribers
        /\ \A d \in O!Subscribers : queue'[d] = IF d = c THEN Tail(queue[c]) ELSE queue[d]
        /\ \A d \in O!Subscribers : d # c => view'[d] = view[d]
        /\ view'[c] = IF c = "audit" THEN view[c] ELSE Head(queue[c])
    BY <1>4 DEF O!Arrive, OptionsTypes
  <2> DEFINE rest == Tail(queue[c])
  <2> HIDE DEF rest
  <2>4. ASSUME NEW d \in O!Subscribers
        PROVE  /\ queue'[d] \in Seq(Answers(d)) /\ Len(queue'[d]) <= MaxQueue
               /\ view'[d] \in Answers(d) \cup {None}
    <3>1. rest \in Seq(Answers(c)) /\ Len(rest) <= MaxQueue
      BY <2>1, <2>2, OptionsAssumption DEF rest
    <3>2. queue'[d] = IF d = c THEN rest ELSE queue[d]
      BY <2>3 DEF rest
    <3>3. view'[d] \in Answers(d) \cup {None}
      BY <2>2, <2>3 DEF OptionsTypes
    <3> QED BY <3>1, <3>2, <3>3 DEF OptionsTypes
  <2>5. OptionsTypes'
    BY <1>4, <2>3, <2>4 DEF O!Arrive, OptionsTypes, O!worldsimVars
  <2>6. Booted'
    BY <1>4, <2>3 DEF O!Arrive, Booted, O!worldsimVars
  <2> QED BY <2>5, <2>6
<1> QED BY <1>1, <1>2, <1>3, <1>4

LEMMA OptionsSaneHolds == O!Spec => []OptionsSane
<1>1. O!Init => OptionsSane
  <2> SUFFICES ASSUME O!Init PROVE OptionsSane
    OBVIOUS
  <2>1. \A c \in O!Subscribers : <<>> \in Seq(Answers(c)) /\ Len(<<>>) <= MaxQueue
    BY OptionsAssumption
  <2>2. OptionsTypes
    BY <2>1, OptionsAssumption DEF O!Init, OptionsTypes
  <2>3. Booted
    BY SubscribersAre DEF O!Init, Booted
  <2> QED BY <2>2, <2>3 DEF OptionsSane
<1>2. OptionsSane /\ [O!Next]_O!vars => OptionsSane'
  <2>1. ASSUME OptionsSane, UNCHANGED O!vars PROVE OptionsSane'
    BY <2>1 DEF O!vars, OptionsSane, OptionsTypes, Booted
  <2> QED
    BY <2>1, StartKeepsSane, PublishKeepsSane, CrashKeepsSane, EditorsKeepSane, SubscribersKeepSane
    DEF O!Next
<1> QED BY <1>1, <1>2, PTL DEF O!Spec

\* What a subscriber goes by once it has heard all that waits.
Latest(c) == IF queue[c] = <<>> THEN view[c] ELSE queue[c][Len(queue[c])]
Unsent == unsent.set # None \/ unsent.start # None

\* What is published is current, and until something is, whoever asked or
\* listens has heard it, or has it waiting.
Heeded ==
  /\ \A by \in {"set", "start"} : unsent[by] # None => unsent[by] = current
  /\ \A c \in O!Subscribers \ {"audit"} :
       phase[c] # "down" /\ boot = "up" /\ ~Unsent => Latest(c) = O!Read(c, current)

InStep == "early" \notin OptionsFaults /\ "gap" \notin OptionsFaults

LEMMA StartKeepsHeeded ==
  ASSUME InStep, OptionsSane, Heeded,
         \/ O!Start \/ O!Serve \/ O!Listen \/ O!Announce
         \/ \E h \in Hosts : O!Crash(h)
  PROVE  Heeded'
<1> USE DEF OptionsSane
<1>1. CASE O!Start
  BY <1>1 DEF O!Start, Heeded, Booted, Unsent
<1>2. CASE O!Serve
  BY <1>2 DEF O!Serve, Heeded
<1>3. CASE O!Listen
  BY <1>3 DEF O!Listen, Heeded
<1>4. CASE O!Announce
  <2>1. current # None /\ unsent.set = None
    BY <1>4, OptionsAssumption DEF O!Announce, Booted, InStep
  <2>2. unsent'.set = None /\ unsent'.start = current
    BY <1>4, <2>1 DEF O!Announce, OptionsTypes
  <2>3. current' = current
    BY <1>4 DEF O!Announce
  <2> QED BY <2>1, <2>2, <2>3 DEF Heeded, Unsent
<1>5. ASSUME NEW h \in Hosts, O!Crash(h) PROVE Heeded'
  BY <1>5 DEF O!Crash, Heeded
<1> QED BY <1>1, <1>2, <1>3, <1>4, <1>5

LEMMA PublishKeepsHeeded ==
  ASSUME InStep, OptionsSane, Heeded, NEW by \in {"set", "start"}, O!Publish(by)
  PROVE  Heeded'
<1> USE DEF OptionsSane
<1>1. unsent[by] = current /\ current \in O!Options
  BY DEF O!Publish, Heeded, OptionsTypes
<1>2. \A b \in {"set", "start"} : unsent'[b] = IF b = by THEN None ELSE unsent[b]
  BY DEF O!Publish, OptionsTypes
<1>3. UNCHANGED <<boot, current, phase, view>>
  BY DEF O!Publish
<1>4. ASSUME NEW c \in O!Subscribers \ {"audit"}, phase[c] # "down", boot = "up"
      PROVE  Latest(c)' = O!Read(c, current)
  <2>1. phase[c] = "on"
    <3>1. CASE c \in Services
      BY <1>4, <3>1 DEF O!Publish, InStep, OptionsTypes
    <3>2. CASE c = "smtp"
      BY <1>4, <3>2 DEF Booted
    <3> QED BY <1>4, <3>1, <3>2, SubscribersAre
  <2> DEFINE new == Append(queue[c], O!Read(c, current))
  <2>2. queue'[c] = new
    BY <1>1, <2>1 DEF O!Publish
  <2>3. queue[c] \in Seq(Answers(c)) /\ O!Read(c, current) \in Answers(c)
    BY <1>1, AnswerIs DEF OptionsTypes
  <2>4. new # <<>> /\ new[Len(new)] = O!Read(c, current)
    BY <2>3, QueueGrows
  <2> HIDE DEF new
  <2> QED BY <2>2, <2>4 DEF Latest
<1> QED BY <1>1, <1>2, <1>3, <1>4 DEF Heeded

LEMMA EditorsKeepHeeded ==
  ASSUME InStep, OptionsSane, Heeded, O!Change \/ \E e \in Editors : O!Open(e)
  PROVE  Heeded'
<1> USE DEF OptionsSane
<1>1. ASSUME UNCHANGED <<current, boot, unsent, queue, phase, view>> PROVE Heeded'
  BY <1>1 DEF Heeded, Latest, Unsent
<1>2. ASSUME NEW e \in Editors, O!Open(e) PROVE Heeded'
  BY <1>1, <1>2 DEF O!Open, O!worldsimVars, O!viewVars
<1>3. ASSUME NEW e \in Editors, NEW field \in O!Editable, NEW o \in O!Options,
             O!Submit(e, field, O!Seen(e, o)[field])
      PROVE  Heeded'
  <2> DEFINE f == [form[e] EXCEPT ![field] = O!Seen(e, o)[field]]
             p == O!Posted(e, f)
  <2>1. f \in Forms
    <3>1. form[e] \in Forms
      BY <1>3 DEF O!Submit, OptionsTypes
    <3> QED BY <3>1, EditIs
  <2>2. /\ UNCHANGED <<boot, queue, phase, view>> /\ O!Serving
        /\ unsent.set = None /\ unsent.start = None
        /\ IF O!Valid(p) THEN O!Set(p) ELSE UNCHANGED <<current, stored, unsent>>
    BY <1>3 DEF O!Submit, O!viewVars, InStep
  <2> HIDE DEF f, p
  <2>3. CASE ~O!Valid(p)
    BY <1>1, <2>2, <2>3
  <2>4. CASE O!Valid(p)
    <3>1. current \in O!Options
      BY <2>2 DEF O!Serving, Booted
    <3>2. current' \in O!Options /\ unsent' = [unsent EXCEPT !.set = current']
      BY <2>1, <2>2, <2>4, <3>1, SetIs DEF p
    <3>3. unsent'.set = current' /\ unsent'.start = None /\ current' # None
      BY <2>2, <3>2, OptionsAssumption DEF OptionsTypes
    <3> QED BY <3>3 DEF Heeded, Unsent
  <2> QED BY <2>3, <2>4
<1> QED BY <1>2, <1>3 DEF O!Change

LEMMA SubscribersKeepHeeded ==
  ASSUME InStep, OptionsSane, Heeded,
         \/ \E c \in Services : O!Fetch(c) \/ O!Subscribe(c) \/ O!Stop(c)
         \/ \E c \in O!Subscribers : O!Arrive(c)
  PROVE  Heeded'
<1> USE DEF OptionsSane
<1>1. ASSUME UNCHANGED <<current, boot, unsent>>,
             \A c \in O!Subscribers \ {"audit"} :
               phase'[c] # "down" /\ boot = "up" =>
                 Latest(c)' = O!Read(c, current) \/ (phase[c] # "down" /\ Latest(c)' = Latest(c))
      PROVE  Heeded'
  BY <1>1 DEF Heeded, Unsent
<1>2. ASSUME NEW c \in Services, O!Fetch(c) PROVE Heeded'
  <2>1. /\ phase[c] = "down" /\ view'[c] = IF O!Serving THEN O!Read(c, current) ELSE None
        /\ queue' = queue /\ UNCHANGED <<current, boot, unsent>>
        /\ \A d \in O!Subscribers : d # c => phase'[d] = phase[d] /\ view'[d] = view[d]
    BY <1>2, SubscribersAre DEF O!Fetch, OptionsTypes, O!worldsimVars
  <2>2. queue[c] = <<>>
    BY <2>1, SubscribersAre DEF Booted
  <2>3. boot = "up" => Latest(c)' = O!Read(c, current)
    BY <2>1, <2>2 DEF Latest, O!Serving
  <2>4. \A d \in O!Subscribers : d # c => Latest(d)' = Latest(d)
    BY <2>1 DEF Latest
  <2> QED BY <1>1, <2>1, <2>3, <2>4
<1>3. ASSUME NEW c \in Services, O!Subscribe(c) PROVE Heeded'
  <2>1. /\ phase[c] = "fetched" /\ UNCHANGED <<queue, view, current, boot, unsent>>
        /\ \A d \in O!Subscribers : d # c => phase'[d] = phase[d]
    BY <1>3, SubscribersAre DEF O!Subscribe, OptionsTypes, O!worldsimVars
  <2> QED BY <1>1, <2>1 DEF Latest
<1>4. ASSUME NEW c \in Services, O!Stop(c) PROVE Heeded'
  <2>1. /\ phase'[c] = "down" /\ UNCHANGED <<current, boot, unsent>>
        /\ \A d \in O!Subscribers :
             d # c => phase'[d] = phase[d] /\ queue'[d] = queue[d] /\ view'[d] = view[d]
    BY <1>4, SubscribersAre DEF O!Stop, OptionsTypes, O!worldsimVars
  <2> QED BY <1>1, <2>1 DEF Latest
<1>5. ASSUME NEW c \in O!Subscribers, O!Arrive(c) PROVE Heeded'
  <2> DEFINE q == queue[c]
             rest == Tail(q)
  <2>1. q \in Seq(Answers(c)) /\ q # <<>>
    BY <1>5 DEF O!Arrive, OptionsTypes
  <2>2. IF rest = <<>> THEN Head(q) = q[Len(q)] ELSE rest[Len(rest)] = q[Len(q)]
    BY <2>1, QueueShrinks
  <2>3. /\ UNCHANGED <<current, boot, unsent, phase>>
        /\ \A d \in O!Subscribers : d # c => queue'[d] = queue[d] /\ view'[d] = view[d]
        /\ queue'[c] = rest /\ (c # "audit" => view'[c] = Head(q))
    BY <1>5 DEF O!Arrive, OptionsTypes, O!worldsimVars
  <2> HIDE DEF rest
  <2>4. c # "audit" => Latest(c)' = Latest(c)
    BY <2>1, <2>2, <2>3 DEF Latest
  <2>5. \A d \in O!Subscribers : d # c => Latest(d)' = Latest(d)
    BY <2>3 DEF Latest
  <2> QED BY <1>1, <2>3, <2>4, <2>5
<1> QED BY <1>2, <1>3, <1>4, <1>5

LEMMA HeededHolds == ASSUME InStep PROVE O!Spec => []Heeded
<1>1. O!Init => Heeded
  BY DEF O!Init, Heeded
<1>2. OptionsSane /\ Heeded /\ [O!Next]_O!vars => Heeded'
  <2>1. ASSUME Heeded, UNCHANGED O!vars PROVE Heeded'
    BY <2>1 DEF O!vars, Heeded, Latest, Unsent
  <2> QED
    BY <2>1, StartKeepsHeeded, PublishKeepsHeeded, EditorsKeepHeeded, SubscribersKeepHeeded
    DEF O!Next
<1> QED BY <1>1, <1>2, OptionsSaneHolds, PTL DEF O!Spec

\* The mailer and ext-rec go by the options in memory, which are those in KV
\* with the host of the environment, once all that was published is heard:
\* for every editor and host, however often options are set, broadcasts wait,
\* services restart and worldsim dies between storing and publishing.
THEOREM OptionsAlwaysReach ==
  ASSUME InStep
  PROVE  O!Spec => []OptionsReach
<1>1. OptionsSane /\ Heeded => OptionsReach
  <2> SUFFICES ASSUME OptionsSane, Heeded, O!Settled
               PROVE  /\ \A c \in O!Subscribers \ {"audit"} : O!Reaches(c)
                      /\ stored = current /\ current.host = host
    BY DEF OptionsReach, O!OptionsReach
  <2>1. boot = "up" /\ ~Unsent /\ \A c \in O!Subscribers : queue[c] = <<>>
    BY DEF O!Settled, Unsent
  <2>2. ASSUME NEW c \in O!Subscribers \ {"audit"} PROVE O!Reaches(c)
    BY <2>1 DEF Heeded, Latest, O!Reaches
  <2>3. stored = current /\ current.host = host
    BY <2>1 DEF OptionsSane, Booted
  <2> QED BY <2>2, <2>3
<1> QED BY <1>1, OptionsSaneHolds, HeededHolds, PTL

-----------------------------------------------------------------------------
(* The player's profile. *)

Jobs == [todo : {<<"save">>, <<"save", "tell">>, <<"tell">>}, value : P!Values, id : P!Ids]
Notices == [id : P!Ids, value : P!Values]

\* A handler has steps left, and only that of a status has one to tell.
ProfileTypes ==
  /\ P!TypeOK
  /\ work \in [P!Handlers -> Jobs \cup {None}]
  /\ told \in Seq(Notices)
  /\ \A h \in P!Busy : h[2] \in P!Saved /\ (h[2] = "status" <=> work[h].todo # <<"save">>)

\* No two handlers have the same field.  Those of a live entity carry its id
\* and what it has in their fields.
Apart ==
  /\ \A g, h \in P!Busy : g[2] = h[2] => g = h
  /\ entity # None => \A h \in P!Busy : work[h].id = id /\ work[h].value = entity[h[2]]

Saving(f) == \E h \in P!Busy : h[2] = f /\ Head(work[h].todo) = "save"

\* The row has the entity's fields, or a handler is about to save them.
Kept == entity # None /\ id = "stored" => \A f \in P!Saved \ refused :
  row[f] = entity[f] \/ (f = "name" /\ row[f] = 0 /\ entity[f] = P!StandIn) \/ Saving(f)

\* v is the last status told of i, whether or not ext-av has heard it yet.
LastTold(i, v) ==
  \/ heard[i] = v /\ \A n \in 1..Len(told) : told[n].id # i
  \/ \E n \in 1..Len(told) :
       told[n].id = i /\ told[n].value = v /\ \A m \in 1..Len(told) : m > n => told[m].id # i

Telling(i) == \E h \in P!Busy : h[2] = "status" /\ work[h].id = i

\* Between sessions, what was last told of the row's player is what the row
\* has; during one, it is what the entity has.
ToldRow == {"status", "unheard"} \cap refused = {} /\ ~Telling("stored")
             => LastTold("stored", row["status"])
RowTold == \A h \in P!Busy : work[h].todo = <<"tell">> /\ work[h].id = "stored"
            => "status" \in refused \/ row["status"] = work[h].value
ToldEntity == entity # None /\ (id = "made up" \/ "unheard" \notin refused) /\ ~Telling(id)
                => LastTold(id, entity["status"])

\* Screens show the entity but for what is dirty.
Shown ==
  /\ entity = None => \A v \in P!Viewers : screen[v] = None
  /\ entity # None => \A v \in P!Viewers : screen[v] # None =>
       /\ "name" \notin dirty /\ entity["name"] # 0 => screen[v].label = P!LabelOf(entity)
       /\ v = "other" /\ "appearance" \notin dirty => screen[v].sprite = entity["sprite"]

ProfileInv == ProfileTypes /\ Apart /\ Kept /\ ToldRow /\ RowTold /\ ToldEntity /\ Shown

LEMMA HandlersAre ==
  /\ \A h \in P!Handlers : h[2] \in P!Fields
  /\ \A h \in P!Handlers : h[2] # "afk" => h[2] \in P!Saved
BY DEF P!Handlers, P!ClientHandlers, P!AdminHandlers, P!Fields, P!Saved

\* What is told comes after all that was told before.
LEMMA ToldGrows ==
  ASSUME told \in Seq(Notices), NEW i \in P!Ids, NEW v \in P!Values,
         told' = Append(told, [id |-> i, value |-> v]), heard' = heard
  PROVE  /\ LastTold(i, v)'
         /\ \A j : \A w : j # i /\ LastTold(j, w) => LastTold(j, w)'
<1> DEFINE x == [id |-> i, value |-> v]
           new == Append(told, x)
<1>1. x \in Notices /\ x.id = i /\ x.value = v
  BY DEF Notices
<1>2. told' = new /\ Len(told) \in Nat
  OBVIOUS
<1> HIDE DEF x
<1>3. /\ Len(new) = Len(told) + 1 /\ new[Len(told) + 1] = x
      /\ \A n \in 1..Len(told) : new[n] = told[n]
  BY <1>1
<1> HIDE DEF new
<1>4. LastTold(i, v)'
  <2>1. Len(told) + 1 \in 1..Len(new)
    BY <1>2, <1>3
  <2>2. \A m \in 1..Len(new) : ~(m > Len(told) + 1)
    BY <1>2, <1>3
  <2> QED BY <2>1, <2>2, <1>1, <1>2, <1>3 DEF LastTold
<1>5. ASSUME NEW j, NEW w, j # i, LastTold(j, w) PROVE LastTold(j, w)'
  <2>1. \A n \in 1..Len(new) : (n \in 1..Len(told) /\ new[n] = told[n]) \/ (new[n] = x /\ new[n].id # j)
    BY <1>1, <1>2, <1>3, <1>5
  <2>2. CASE heard[j] = w /\ \A n \in 1..Len(told) : told[n].id # j
    <3>1. heard'[j] = w
      BY <2>2
    <3>2. \A n \in 1..Len(new) : new[n].id # j
      BY <2>1, <2>2
    <3> QED BY <3>1, <3>2, <1>2 DEF LastTold
  <2>3. CASE ~(heard[j] = w /\ \A n \in 1..Len(told) : told[n].id # j)
    <3>1. PICK n \in 1..Len(told) :
            told[n].id = j /\ told[n].value = w /\ \A m \in 1..Len(told) : m > n => told[m].id # j
      BY <1>5, <2>3 DEF LastTold
    <3>2. n \in 1..Len(new) /\ new[n].id = j /\ new[n].value = w
      BY <3>1, <1>2, <1>3
    <3>3. \A m \in 1..Len(new) : m > n => new[m].id # j
      BY <3>1, <2>1
    <3> QED BY <3>2, <3>3, <1>2 DEF LastTold
  <2> QED BY <2>2, <2>3
<1> QED BY <1>4, <1>5

\* Hearing a status does not change which was told last.
LEMMA ToldShrinks ==
  ASSUME told \in Seq(Notices), told # <<>>, heard \in [P!Ids -> P!Values],
         told' = Tail(told), heard' = [heard EXCEPT ![Head(told).id] = Head(told).value],
         NEW i \in P!Ids, NEW v, LastTold(i, v)
  PROVE  LastTold(i, v)'
<1> DEFINE t == Tail(told)
           x == Head(told)
           h == [heard EXCEPT ![x.id] = x.value]
<1>1. told' = t /\ heard' = h /\ Len(told) \in Nat /\ Len(told) >= 1 /\ x \in Notices /\ x = told[1]
  OBVIOUS
<1>2. Len(t) = Len(told) - 1 /\ \A n \in 1..(Len(told) - 1) : t[n] = told[n + 1]
  OBVIOUS
<1> HIDE DEF t, x
<1>3. x.id \in P!Ids
  BY <1>1 DEF Notices
<1>4. h[x.id] = x.value /\ \A j \in P!Ids : j # x.id => h[j] = heard[j]
  BY <1>3
<1>5. \A n \in 1..Len(t) : n + 1 \in 1..Len(told) /\ n + 1 > 1 /\ t[n] = told[n + 1]
  <2>1. ASSUME NEW n \in 1..Len(t) PROVE n \in 1..(Len(told) - 1) /\ n + 1 \in 1..Len(told) /\ n + 1 > 1
    BY <1>1, <1>2
  <2> QED BY <2>1, <1>2
<1> HIDE DEF h
<1>6. CASE heard[i] = v /\ \A n \in 1..Len(told) : told[n].id # i
  <2>1. x.id # i
    BY <1>1, <1>6
  <2>2. \A n \in 1..Len(t) : t[n].id # i
    BY <1>6, <1>5
  <2> QED BY <2>1, <2>2, <1>1, <1>4, <1>6 DEF LastTold
<1>7. CASE ~(heard[i] = v /\ \A n \in 1..Len(told) : told[n].id # i)
  <2>1. PICK n \in 1..Len(told) :
          told[n].id = i /\ told[n].value = v /\ \A m \in 1..Len(told) : m > n => told[m].id # i
    BY <1>7 DEF LastTold
  <2>2. CASE n = 1
    <3>1. h[i] = v
      BY <2>1, <2>2, <1>1, <1>4
    <3>2. \A m \in 1..Len(t) : t[m].id # i
      BY <2>1, <2>2, <1>5
    <3> QED BY <3>1, <3>2, <1>1 DEF LastTold
  <2>3. CASE n # 1
    <3>1. n - 1 \in 1..Len(t) /\ t[n - 1].id = i /\ t[n - 1].value = v
      <4>1. n - 1 \in 1..(Len(told) - 1) /\ (n - 1) + 1 = n
        BY <2>3, <1>1
      <4> QED BY <4>1, <1>2, <2>1
    <3>2. \A m \in 1..Len(t) : m > n - 1 => t[m].id # i
      <4>1. ASSUME NEW m \in 1..Len(t), m > n - 1 PROVE m + 1 > n
        BY <4>1, <1>1, <1>2
      <4> QED BY <4>1, <1>5, <2>1
    <3> QED BY <3>1, <3>2, <1>1 DEF LastTold
  <2> QED BY <2>2, <2>3
<1> QED BY <1>6, <1>7

LEMMA ToldStays ==
  ASSUME told' = told, heard' = heard, NEW i, NEW v, LastTold(i, v)
  PROVE  LastTold(i, v)'
BY DEF LastTold

\* Once everything is heard, the last status told is the one heard.
LEMMA AllHeard ==
  ASSUME told = <<>>, NEW i, NEW v
  PROVE  LastTold(i, v) <=> heard[i] = v
BY DEF LastTold

\* A handler that takes a step has one step less, and keeps what it carries.
LEMMA JobAdvances ==
  ASSUME ProfileTypes, NEW h \in P!Handlers, work[h] # None, P!Advance(h)
  PROVE  /\ work' \in [P!Handlers -> Jobs \cup {None}]
         /\ \A g \in P!Handlers : g # h => work'[g] = work[g]
         /\ work[h].todo = <<"save", "tell">> =>
              /\ work'[h] \in Jobs
              /\ work'[h].todo = <<"tell">>
              /\ work'[h].value = work[h].value /\ work'[h].id = work[h].id
         /\ work[h].todo # <<"save", "tell">> => work'[h] = None
<1> DEFINE j == work[h]
           new == IF Len(j.todo) = 1 THEN None ELSE [todo |-> Tail(j.todo), value |-> j.value, id |-> j.id]
<1>1. j \in Jobs
  BY DEF ProfileTypes
<1>2. work' = [work EXCEPT ![h] = new]
  BY DEF P!Advance
<1> HIDE DEF j
<1>3. CASE j.todo = <<"save", "tell">>
  <2>1. new = [todo |-> <<"tell">>, value |-> j.value, id |-> j.id]
    BY <1>3
  <2>2. j.value \in P!Values /\ j.id \in P!Ids
    BY <1>1 DEF Jobs
  <2> HIDE DEF new
  <2>3. new \in Jobs /\ new.todo = <<"tell">> /\ new.value = j.value /\ new.id = j.id
    BY <2>1, <2>2 DEF Jobs
  <2> QED BY <2>3, <1>2, <1>3 DEF ProfileTypes, j
<1>4. CASE j.todo # <<"save", "tell">>
  <2>1. new = None
    BY <1>1, <1>4 DEF Jobs
  <2> HIDE DEF new
  <2> QED BY <2>1, <1>2, <1>4 DEF ProfileTypes, j
<1> QED BY <1>3, <1>4

\* One handler, or a session, at a time for each field.
InTime == "overlap" \notin ProfileFaults

LEMMA EmptyTold ==
  ASSUME told = <<>>
  PROVE  told \in Seq(Notices) /\ Len(told) <= MaxTold
<1>1. <<>> \in Seq(Notices) /\ Len(<<>>) = 0
  OBVIOUS
<1>2. told \in Seq(Notices) /\ Len(told) = 0
  BY <1>1
<1> QED BY <1>2, ProfileAssumption

LEMMA ProfileInit == P!Init => ProfileInv
<1> SUFFICES ASSUME P!Init PROVE ProfileInv
  OBVIOUS
<1> USE DEF P!Init
<1>1. P!Busy = {}
  BY DEF P!Busy
<1>2. ProfileTypes
  <2>1. P!TypeOK
    <3>2. row \in [P!Saved -> P!Values] /\ heard \in [P!Ids -> P!Values]
      BY DEF P!New, P!Values
    <3>3. Len(told) <= MaxTold
      BY EmptyTold
    <3> QED BY <1>1, <3>2, <3>3 DEF P!TypeOK, P!Ids
  <2>2. work \in [P!Handlers -> Jobs \cup {None}]
    OBVIOUS
  <2>3. told \in Seq(Notices)
    BY EmptyTold
  <2> QED BY <2>1, <2>2, <2>3, <1>1 DEF ProfileTypes
<1>3. ToldRow
  BY AllHeard DEF ToldRow, P!New, P!Ids, P!Saved
<1> QED BY <1>1, <1>2, <1>3 DEF ProfileInv, Apart, Kept, RowTold, ToldEntity, Shown

LEMMA EntityIs ==
  ASSUME ProfileTypes, entity # None
  PROVE  entity \in [P!Fields -> P!Values \cup {P!StandIn}]
BY DEF ProfileTypes, P!TypeOK

\* What Apply does, field by field.
LEMMA ApplyIs ==
  ASSUME ProfileTypes, NEW h \in P!Handlers, NEW x \in P!Values, P!Apply(h, x)
  PROVE  /\ InTime => \A g \in P!Busy : g[2] # h[2]
         /\ work' \in [P!Handlers -> Jobs \cup {None}]
         /\ \A g \in P!Handlers : g # h => work'[g] = work[g]
         /\ work[h] = None
         /\ h[2] = "afk" => work'[h] = None
         /\ h[2] # "afk" =>
              /\ work'[h] # None
              /\ work'[h].todo = IF h[2] = "status" THEN <<"save", "tell">> ELSE <<"save">>
              /\ work'[h].value = x /\ work'[h].id = id
         /\ entity # None /\ entity' # None
         /\ entity' \in [P!Fields -> P!Values \cup {P!StandIn}]
         /\ entity'[h[2]] = x
         /\ \A g \in P!Fields : g # h[2] => entity'[g] = entity[g]
         /\ dirty \subseteq dirty' /\ dirty' \subseteq {"name", "appearance"}
         /\ h[2] \in P!Label => "name" \in dirty'
         /\ h[2] = "sprite" => "appearance" \in dirty'
         /\ UNCHANGED <<edited, guest, row, id, told, heard, screen, refused>>
<1> DEFINE f == h[2]
           job == [todo |-> P!Steps(f), value |-> x, id |-> id]
           new == IF P!Steps(f) = <<>> THEN None ELSE job
<1>1. /\ work[h] = None /\ P!Alone(f) /\ entity # None
      /\ entity' = [entity EXCEPT ![f] = x]
      /\ dirty' = dirty \cup P!Flags(f)
      /\ work' = [work EXCEPT ![h] = new]
      /\ UNCHANGED <<edited, guest, row, id, told, heard, screen, refused>>
  BY DEF P!Apply
<1>2. f \in P!Fields
  BY HandlersAre
<1>3. InTime => \A g \in P!Busy : g[2] # f
  BY <1>1 DEF P!Alone, InTime
<1>4. f = "afk" => new = None
  BY DEF P!Steps
<1>5. f # "afk" => /\ job \in Jobs /\ new = job
                   /\ job.todo = IF f = "status" THEN <<"save", "tell">> ELSE <<"save">>
                   /\ job.value = x /\ job.id = id
  <2>1. f # "afk" => P!Steps(f) = IF f = "status" THEN <<"save", "tell">> ELSE <<"save">>
    BY DEF P!Steps
  <2>2. id \in P!Ids
    BY DEF ProfileTypes, P!TypeOK
  <2> QED BY <2>1, <2>2 DEF Jobs
<1> HIDE DEF new, job
<1>6. new \in Jobs \cup {None}
  BY <1>4, <1>5
<1>7. work' \in [P!Handlers -> Jobs \cup {None}] /\ work'[h] = new
      /\ \A g \in P!Handlers : g # h => work'[g] = work[g]
  BY <1>1, <1>6 DEF ProfileTypes
<1>8. None \notin Jobs
  BY ProfileAssumption DEF Jobs
<1>9. /\ entity' \in [P!Fields -> P!Values \cup {P!StandIn}]
      /\ entity'[f] = x
      /\ \A g \in P!Fields : g # f => entity'[g] = entity[g]
  BY <1>1, <1>2, EntityIs
<1>10. entity' # None
  BY <1>9, ProfileAssumption
<1>11. /\ P!Flags(f) \subseteq {"name", "appearance"}
       /\ f \in P!Label => "name" \in P!Flags(f)
       /\ f = "sprite" => "appearance" \in P!Flags(f)
  BY <1>2 DEF P!Flags, P!Label, P!Fields, P!Saved
<1>12. dirty \subseteq {"name", "appearance"}
  BY DEF ProfileTypes, P!TypeOK
<1>13. /\ dirty \subseteq dirty' /\ dirty' \subseteq {"name", "appearance"}
       /\ f \in P!Label => "name" \in dirty'
       /\ f = "sprite" => "appearance" \in dirty'
  BY <1>1, <1>11, <1>12
<1>14. f # "afk" => /\ work'[h] # None
                    /\ work'[h].todo = IF f = "status" THEN <<"save", "tell">> ELSE <<"save">>
                    /\ work'[h].value = x /\ work'[h].id = id
  BY <1>5, <1>7, <1>8
<1>15. f = "afk" => work'[h] = None
  BY <1>4, <1>7
<1> HIDE DEF f
<1>16. InTime => \A g \in P!Busy : g[2] # h[2]
  BY <1>3 DEF f
<1> QED BY <1>1, <1>7, <1>9, <1>10, <1>13, <1>14, <1>15, <1>16 DEF f

\* Who is at work after Apply.
LEMMA ApplyBusy ==
  ASSUME ProfileTypes, NEW h \in P!Handlers, NEW x \in P!Values, P!Apply(h, x)
  PROVE  /\ h \notin P!Busy
         /\ \A g \in P!Busy' :
              \/ g = h /\ h[2] # "afk"
              \/ g # h /\ g \in P!Busy /\ work'[g] = work[g]
         /\ \A g \in P!Busy : g \in P!Busy' /\ work'[g] = work[g] /\ g # h
         /\ h[2] # "afk" => h \in P!Busy'
BY ApplyIs DEF P!Busy

LEMMA ApplyTypes ==
  ASSUME ProfileTypes, NEW h \in P!Handlers, NEW x \in P!Values, P!Apply(h, x)
  PROVE  ProfileTypes'
<1>1. P!TypeOK'
  <2>1. \A g \in P!Busy' : work'[g].value \in P!Values /\ work'[g].id \in P!Ids
    BY ApplyIs, ApplyBusy DEF ProfileTypes, P!TypeOK
  <2> QED BY <2>1, ApplyIs DEF ProfileTypes, P!TypeOK
<1>2. \A g \in P!Busy' : g[2] \in P!Saved /\ (g[2] = "status" <=> work'[g].todo # <<"save">>)
  <2>1. h[2] # "afk" => h[2] \in P!Saved
    BY HandlersAre
  <2>2. h[2] # "afk" => (h[2] = "status" <=> work'[h].todo # <<"save">>)
    BY ApplyIs
  <2> QED BY <2>1, <2>2, ApplyBusy DEF ProfileTypes
<1> QED BY <1>1, <1>2, ApplyIs DEF ProfileTypes

LEMMA ApplyStep ==
  ASSUME ProfileInv, InTime, NEW h \in P!Handlers, NEW x \in P!Values, P!Apply(h, x)
  PROVE  ProfileInv'
<1> USE DEF ProfileInv
<1>1. ProfileTypes'
  BY ApplyTypes
<1>2. Apart'
  <2>1. ASSUME NEW g \in P!Busy', NEW k \in P!Busy', g[2] = k[2] PROVE g = k
    BY <2>1, ApplyIs, ApplyBusy DEF Apart
  <2>2. ASSUME NEW g \in P!Busy' PROVE work'[g].id = id' /\ work'[g].value = entity'[g[2]]
    <3>1. CASE g = h
      BY <3>1, ApplyIs, ApplyBusy
    <3>2. CASE g # h
      <4>1. g \in P!Busy /\ work'[g] = work[g] /\ g[2] # h[2] /\ g[2] \in P!Fields
        BY <3>2, ApplyIs, ApplyBusy, HandlersAre DEF P!Busy
      <4> QED BY <4>1, ApplyIs DEF Apart
    <3> QED BY <3>1, <3>2
  <2> QED BY <2>1, <2>2 DEF Apart
<1>3. Kept'
  <2>1. ASSUME NEW f, Saving(f) PROVE Saving(f)'
    BY <2>1, ApplyBusy DEF Saving
  <2>2. h[2] # "afk" => Saving(h[2])'
    <3>1. h[2] # "afk" => Head(work'[h].todo) = "save"
      BY ApplyIs
    <3> QED BY <3>1, ApplyBusy DEF Saving
  <2>3. \A f \in P!Saved : f \in P!Fields /\ f # "afk"
    BY DEF P!Saved, P!Fields
  <2>4. \A f \in P!Saved : f # h[2] => entity'[f] = entity[f]
    BY <2>3, ApplyIs
  <2>5. entity # None /\ UNCHANGED <<row, id, refused>>
    BY ApplyIs
  <2>6. CASE id = "stored"
    <3> SUFFICES ASSUME NEW f \in P!Saved, f \notin refused
                 PROVE  \/ row[f] = entity'[f]
                        \/ f = "name" /\ row[f] = 0 /\ entity'[f] = P!StandIn
                        \/ Saving(f)'
      BY <2>5 DEF Kept
    <3>1. CASE f = h[2]
      BY <3>1, <2>2, <2>3
    <3>2. CASE f # h[2]
      BY <3>2, <2>1, <2>4, <2>5, <2>6 DEF Kept
    <3> QED BY <3>1, <3>2
  <2> QED BY <2>5, <2>6 DEF Kept
<1>4. \A i : Telling(i) => Telling(i)'
  BY ApplyBusy DEF Telling
<1>5. ToldRow'
  BY <1>4, ApplyIs, ToldStays DEF ToldRow
<1>6. RowTold'
  <2>1. h[2] # "afk" => work'[h].todo # <<"tell">>
    BY ApplyIs
  <2> QED BY <2>1, ApplyIs, ApplyBusy DEF RowTold
<1>7. ToldEntity'
  <2>1. CASE h[2] = "status"
    <3>1. h \in P!Busy' /\ work'[h].id = id'
      BY <2>1, ApplyIs, ApplyBusy
    <3> QED BY <2>1, <3>1 DEF ToldEntity, Telling
  <2>2. CASE h[2] # "status"
    <3>1. entity'["status"] = entity["status"]
      BY <2>2, ApplyIs DEF P!Fields, P!Saved
    <3>2. entity # None /\ UNCHANGED <<id, told, heard, refused>>
      BY ApplyIs
    <3> QED BY <3>1, <3>2, <1>4 DEF ToldEntity, Telling, LastTold
  <2> QED BY <2>1, <2>2
<1>8. Shown'
  <2>1. \A f \in P!Label \cup {"sprite"} : f \in P!Fields
    BY DEF P!Label, P!Fields, P!Saved
  <2>2. "name" \notin dirty' => P!LabelOf(entity') = P!LabelOf(entity) /\ entity'["name"] = entity["name"]
    <3>1. "name" \notin dirty' => \A f \in P!Label : entity'[f] = entity[f]
      BY <2>1, ApplyIs
    <3> QED BY <3>1 DEF P!LabelOf, P!Label
  <2>3. "appearance" \notin dirty' => entity'["sprite"] = entity["sprite"]
    BY <2>1, ApplyIs
  <2> QED BY <2>2, <2>3, ApplyIs DEF Shown
<1> QED BY <1>1, <1>2, <1>3, <1>5, <1>6, <1>7, <1>8

\* Who is at work after a handler's step, and what they have left.
LEMMA AdvanceBusy ==
  ASSUME ProfileTypes, NEW h \in P!Handlers, work[h] # None, P!Advance(h)
  PROVE  /\ h \in P!Busy
         /\ \A g \in P!Busy' : /\ g \in P!Busy
                               /\ work'[g].value = work[g].value /\ work'[g].id = work[g].id
                               /\ g # h => work'[g] = work[g]
         /\ \A g \in P!Busy : g # h => g \in P!Busy' /\ work'[g] = work[g]
         /\ IF work[h].todo = <<"save", "tell">> THEN h \in P!Busy' /\ work'[h].todo = <<"tell">>
                                                 ELSE h \notin P!Busy'
<1>1. None \notin Jobs
  BY ProfileAssumption DEF Jobs
<1>2. /\ \A g \in P!Handlers : g # h => work'[g] = work[g]
      /\ work[h].todo = <<"save", "tell">> =>
              /\ work'[h] \in Jobs
              /\ work'[h].todo = <<"tell">>
              /\ work'[h].value = work[h].value /\ work'[h].id = work[h].id
      /\ work[h].todo # <<"save", "tell">> => work'[h] = None
  BY JobAdvances
<1> QED BY <1>1, <1>2 DEF P!Busy

LEMMA AdvanceTypes ==
  ASSUME ProfileTypes, NEW h \in P!Handlers, work[h] # None, P!Advance(h),
         UNCHANGED <<edited, guest, entity, id, dirty>>
  PROVE  /\ work' \in [P!Handlers -> Jobs \cup {None}]
         /\ \A g \in P!Busy' : /\ work'[g].value \in P!Values /\ work'[g].id \in P!Ids
                               /\ g[2] \in P!Saved
                               /\ g[2] = "status" <=> work'[g].todo # <<"save">>
         /\ Apart => Apart'
<1>1. work' \in [P!Handlers -> Jobs \cup {None}]
  BY JobAdvances
<1>2. ASSUME NEW g \in P!Busy'
      PROVE  /\ work'[g].value \in P!Values /\ work'[g].id \in P!Ids
             /\ g[2] \in P!Saved
             /\ g[2] = "status" <=> work'[g].todo # <<"save">>
  <2>1. g \in P!Busy /\ work'[g].value = work[g].value /\ work'[g].id = work[g].id
    BY AdvanceBusy
  <2>2. work[g].value \in P!Values /\ work[g].id \in P!Ids
        /\ g[2] \in P!Saved /\ (g[2] = "status" <=> work[g].todo # <<"save">>)
    BY <2>1 DEF ProfileTypes, P!TypeOK
  <2>3. work'[g] = work[g] \/ (work[g].todo = <<"save", "tell">> /\ work'[g].todo = <<"tell">>)
    BY AdvanceBusy
  <2> QED BY <2>1, <2>2, <2>3
<1>3. Apart => Apart'
  BY AdvanceBusy DEF Apart
<1> QED BY <1>1, <1>2, <1>3

\* A job's first step and its length.
LEMMA JobIs ==
  ASSUME ProfileTypes, NEW h \in P!Handlers, work[h] # None
  PROVE  /\ h \in P!Busy /\ work[h] \in Jobs /\ h[2] \in P!Saved /\ h[2] # "unheard"
         /\ Head(work[h].todo) = "save" \/ Head(work[h].todo) = "tell"
         /\ Head(work[h].todo) = "tell" <=> work[h].todo = <<"tell">>
         /\ h[2] = "status" /\ Head(work[h].todo) = "save" => work[h].todo = <<"save", "tell">>
         /\ work[h].todo = <<"tell">> => h[2] = "status"
<1>1. h \in P!Busy /\ work[h] \in Jobs
  BY DEF P!Busy, ProfileTypes
<1>2. h[2] \in P!Saved /\ (h[2] = "status" <=> work[h].todo # <<"save">>)
  BY <1>1 DEF ProfileTypes
<1>3. work[h].todo \in {<<"save">>, <<"save", "tell">>, <<"tell">>}
  BY <1>1 DEF Jobs
<1>4. Head(<<"save">>) = "save" /\ Head(<<"save", "tell">>) = "save" /\ Head(<<"tell">>) = "tell"
  OBVIOUS
<1>5. <<"save">> # <<"tell">>
  BY <1>4
<1> QED BY <1>1, <1>2, <1>3, <1>4, <1>5 DEF P!Saved

\* A save that succeeds, is refused, or has no row to go to.
LEMMA SaveIs ==
  ASSUME ProfileTypes, NEW h \in P!Handlers, P!Save(h) \/ P!SaveFails(h)
  PROVE  /\ work[h] # None /\ Head(work[h].todo) = "save" /\ P!Advance(h)
         /\ UNCHANGED <<edited, guest, entity, id, dirty, told, heard, screen>>
         /\ h \in P!Busy /\ h[2] \in P!Saved /\ h[2] # "unheard"
         /\ h[2] = "status" => work[h].todo = <<"save", "tell">>
         /\ row' \in [P!Saved -> P!Values] /\ refused' \subseteq P!Saved \cup {"unheard"}
         /\ \A g \in P!Saved : g # h[2] => row'[g] = row[g]
         /\ \A g : g # h[2] => (g \in refused' <=> g \in refused)
         /\ work[h].id = "stored" => row'[h[2]] = work[h].value \/ h[2] \in refused'
         /\ work[h].id # "stored" => row' = row /\ refused' = refused
<1> DEFINE f == h[2]
           v == work[h].value
<1>1. /\ work[h] # None /\ Head(work[h].todo) = "save" /\ P!Advance(h)
      /\ UNCHANGED <<edited, guest, entity, id, dirty, told, heard, screen>>
  BY DEF P!Save, P!SaveFails
<1>2. \/ work[h].id = "stored" /\ row' = [row EXCEPT ![f] = v] /\ refused' = refused \ {f}
      \/ work[h].id = "stored" /\ row' = row /\ refused' = refused \cup {f}
      \/ work[h].id # "stored" /\ row' = row /\ refused' = refused
  BY DEF P!Save, P!SaveFails
<1>3. /\ h \in P!Busy /\ f \in P!Saved /\ f # "unheard" /\ v \in P!Values
      /\ f = "status" => work[h].todo = <<"save", "tell">>
  BY <1>1, JobIs DEF Jobs
<1>4. row \in [P!Saved -> P!Values] /\ refused \subseteq P!Saved \cup {"unheard"}
  BY DEF ProfileTypes, P!TypeOK
<1>5. /\ row' \in [P!Saved -> P!Values] /\ refused' \subseteq P!Saved \cup {"unheard"}
      /\ \A g \in P!Saved : g # f => row'[g] = row[g]
      /\ \A g : g # f => (g \in refused' <=> g \in refused)
      /\ work[h].id = "stored" => row'[f] = v \/ f \in refused'
      /\ work[h].id # "stored" => row' = row /\ refused' = refused
  BY <1>2, <1>3, <1>4
<1> QED BY <1>1, <1>3, <1>5

LEMMA SaveTypes ==
  ASSUME ProfileTypes, NEW h \in P!Handlers, P!Save(h) \/ P!SaveFails(h)
  PROVE  ProfileTypes'
<1>1. /\ work[h] # None /\ P!Advance(h)
      /\ UNCHANGED <<edited, guest, entity, id, dirty, told, heard>>
      /\ row' \in [P!Saved -> P!Values] /\ refused' \subseteq P!Saved \cup {"unheard"}
  BY SaveIs
<1>2. P!TypeOK'
  BY <1>1, AdvanceTypes DEF ProfileTypes, P!TypeOK
<1> QED BY <1>1, <1>2, AdvanceTypes DEF ProfileTypes

LEMMA SaveStep ==
  ASSUME ProfileInv, NEW h \in P!Handlers, P!Save(h) \/ P!SaveFails(h)
  PROVE  ProfileInv'
<1> USE DEF ProfileInv
<1> DEFINE f == h[2]
           v == work[h].value
<1>1. /\ work[h] # None /\ Head(work[h].todo) = "save" /\ P!Advance(h)
      /\ UNCHANGED <<edited, guest, entity, id, dirty, told, heard, screen>>
  BY SaveIs
<1>3. /\ h \in P!Busy /\ f \in P!Saved /\ f # "unheard"
      /\ f = "status" => work[h].todo = <<"save", "tell">>
  BY SaveIs
<1>5. /\ \A g \in P!Saved : g # f => row'[g] = row[g]
      /\ \A g : g # f => (g \in refused' <=> g \in refused)
      /\ work[h].id = "stored" => row'[f] = v \/ f \in refused'
      /\ work[h].id # "stored" => row' = row /\ refused' = refused
  BY SaveIs
<1> HIDE DEF v
<1>6. ProfileTypes'
  BY SaveTypes
<1>7. Apart'
  BY <1>1, AdvanceTypes
<1>8. Kept'
  <2> SUFFICES ASSUME entity # None, id = "stored", NEW g \in P!Saved, g \notin refused'
               PROVE  \/ row'[g] = entity[g]
                      \/ g = "name" /\ row'[g] = 0 /\ entity[g] = P!StandIn
                      \/ Saving(g)'
    BY <1>1 DEF Kept
  <2>1. work[h].id = "stored" /\ v = entity[f]
    BY <1>3 DEF Apart, v
  <2>2. CASE g = f
    BY <2>1, <2>2, <1>5
  <2>3. CASE g # f
    <3>1. g \notin refused /\ row'[g] = row[g]
      BY <2>3, <1>5
    <3>2. Saving(g) => Saving(g)'
      BY <2>3, <1>1, AdvanceBusy DEF Saving
    <3> QED BY <3>1, <3>2 DEF Kept
  <2> QED BY <2>2, <2>3
<1>9. \A i : Telling(i) => Telling(i)'
  <2>1. ASSUME NEW i, NEW g \in P!Busy, g[2] = "status", work[g].id = i
        PROVE  g \in P!Busy' /\ work'[g].id = i
    BY <2>1, <1>1, <1>3, AdvanceBusy
  <2> QED BY <2>1 DEF Telling
<1>10. ToldRow'
  <2>1. CASE f = "status" /\ work[h].id = "stored"
    <3>1. h \in P!Busy' /\ work'[h].id = "stored"
      BY <2>1, <1>1, <1>3, AdvanceBusy
    <3> QED BY <2>1, <3>1 DEF ToldRow, Telling
  <2>2. CASE ~(f = "status" /\ work[h].id = "stored")
    <3>1. /\ row'["status"] = row["status"]
          /\ {"status", "unheard"} \cap refused' = {"status", "unheard"} \cap refused
      BY <2>2, <1>3, <1>5 DEF P!Saved
    <3> QED BY <3>1, <1>1, <1>9 DEF ToldRow, LastTold
  <2> QED BY <2>1, <2>2
<1>11. RowTold'
  <2> SUFFICES ASSUME NEW g \in P!Busy', work'[g].todo = <<"tell">>, work'[g].id = "stored"
               PROVE  "status" \in refused' \/ row'["status"] = work'[g].value
    BY DEF RowTold
  <2>1. g \in P!Handlers /\ g \in P!Busy /\ g[2] = "status" /\ work[g].id = "stored" /\ work'[g].value = work[g].value
    <3>1. <<"tell">> # <<"save">>
      <4>1. Head(<<"tell">>) # Head(<<"save">>)
        OBVIOUS
      <4> QED BY <4>1
    <3> QED BY <3>1, <1>1, AdvanceBusy, AdvanceTypes DEF P!Busy
  <2>2. CASE g = h
    BY <2>1, <2>2, <1>5 DEF v
  <2>3. CASE g # h
    <3>1. f # "status" /\ work[g].todo = <<"tell">>
      BY <2>1, <2>3, <1>1, <1>3, AdvanceBusy DEF Apart
    <3>2. "status" \in refused \/ row["status"] = work[g].value
      BY <2>1, <3>1 DEF RowTold
    <3> QED BY <2>1, <3>1, <3>2, <1>5 DEF P!Saved
  <2> QED BY <2>2, <2>3
<1>12. ToldEntity'
  <2>1. "unheard" \in refused' <=> "unheard" \in refused
    BY <1>3, <1>5
  <2> QED BY <2>1, <1>1, <1>9 DEF ToldEntity, Telling, LastTold
<1>13. Shown'
  BY <1>1 DEF Shown, P!LabelOf
<1> QED BY <1>6, <1>7, <1>8, <1>10, <1>11, <1>12, <1>13

LEMMA TellTypes ==
  ASSUME ProfileTypes, NEW h \in P!Handlers, P!Tell(h)
  PROVE  ProfileTypes'
<1>1. /\ work[h] # None /\ Head(work[h].todo) = "tell" /\ P!Advance(h) /\ Len(told) < MaxTold
      /\ told' = Append(told, [id |-> work[h].id, value |-> work[h].value])
      /\ refused' = IF work[h].id = "stored" THEN refused \ {"unheard"} ELSE refused
      /\ UNCHANGED <<edited, guest, row, entity, id, dirty, heard, screen>>
  BY DEF P!Tell
<1>2. /\ h \in P!Busy /\ h[2] = "status" /\ work[h].todo = <<"tell">>
      /\ work[h].id \in P!Ids /\ work[h].value \in P!Values
  BY <1>1, JobIs DEF Jobs
<1>3. told' \in Seq(Notices) /\ Len(told') <= MaxTold
  <2> DEFINE x == [id |-> work[h].id, value |-> work[h].value]
  <2>1. x \in Notices
    BY <1>2 DEF Notices
  <2>2. told \in Seq(Notices) /\ told' = Append(told, x)
    BY <1>1 DEF ProfileTypes
  <2> HIDE DEF x
  <2>3. Len(told) \in Nat /\ Append(told, x) \in Seq(Notices) /\ Len(Append(told, x)) = Len(told) + 1
    BY <2>1, <2>2
  <2> QED BY <2>2, <2>3, <1>1, ProfileAssumption
<1>4. P!TypeOK'
  BY <1>1, <1>3, AdvanceTypes DEF ProfileTypes, P!TypeOK
<1> QED BY <1>1, <1>3, <1>4, AdvanceTypes DEF ProfileTypes

LEMMA TellStep ==
  ASSUME ProfileInv, NEW h \in P!Handlers, P!Tell(h)
  PROVE  ProfileInv'
<1> USE DEF ProfileInv
<1>1. /\ work[h] # None /\ Head(work[h].todo) = "tell" /\ P!Advance(h) /\ Len(told) < MaxTold
      /\ told' = Append(told, [id |-> work[h].id, value |-> work[h].value])
      /\ refused' = IF work[h].id = "stored" THEN refused \ {"unheard"} ELSE refused
      /\ UNCHANGED <<edited, guest, row, entity, id, dirty, heard, screen>>
  BY DEF P!Tell
<1>2. /\ h \in P!Busy /\ h[2] = "status" /\ work[h].todo = <<"tell">>
      /\ work[h].id \in P!Ids /\ work[h].value \in P!Values
  BY <1>1, JobIs DEF Jobs
<1>3. h \notin P!Busy'
  <2>1. <<"tell">> # <<"save", "tell">>
    <3>1. Head(<<"tell">>) # Head(<<"save", "tell">>)
      OBVIOUS
    <3> QED BY <3>1
  <2> QED BY <2>1, <1>1, <1>2, AdvanceBusy
<1>5. /\ \A i, v : i = work[h].id /\ v = work[h].value => LastTold(i, v)'
      /\ \A j, w : j # work[h].id /\ LastTold(j, w) => LastTold(j, w)'
  <2> DEFINE n == work[h].id
             a == work[h].value
  <2>1. PICK i \in P!Ids, v \in P!Values : i = n /\ v = a
    BY <1>2
  <2>2. told' = Append(told, [id |-> i, value |-> v]) /\ heard' = heard /\ told \in Seq(Notices)
    BY <2>1, <1>1 DEF ProfileTypes
  <2>3. LastTold(i, v)' /\ \A j : \A w : j # i /\ LastTold(j, w) => LastTold(j, w)'
    BY <2>2, ToldGrows
  <2> QED BY <2>1, <2>3
<1>6. ProfileTypes'
  BY TellTypes
<1>7. Apart'
  BY <1>1, AdvanceTypes
<1>8. Kept'
  <2>1. \A f : Saving(f) => Saving(f)'
    BY <1>1, AdvanceBusy DEF Saving
  <2>2. \A f \in P!Saved : f \in refused' <=> f \in refused
    BY <1>1 DEF P!Saved
  <2> QED BY <2>1, <2>2, <1>1 DEF Kept
<1>9. ToldRow'
  <2> SUFFICES ASSUME {"status", "unheard"} \cap refused' = {}, ~(Telling("stored")')
               PROVE  LastTold("stored", row["status"])'
    BY DEF ToldRow
  <2>1. CASE work[h].id = "stored"
    <3>1. row["status"] = work[h].value /\ row' = row
      BY <2>1, <1>1, <1>2 DEF RowTold
    <3>2. PICK v : v = row["status"]
      OBVIOUS
    <3>3. LastTold("stored", v)'
      BY <2>1, <3>1, <3>2, <1>5
    <3> QED BY <3>1, <3>2, <3>3 DEF LastTold
  <2>2. CASE work[h].id # "stored"
    <3>1. {"status", "unheard"} \cap refused = {} /\ row' = row
      BY <2>2, <1>1
    <3>2. ~Telling("stored")
      BY <2>2, <1>1, AdvanceBusy DEF Telling
    <3>3. PICK v : v = row["status"]
      OBVIOUS
    <3>4. LastTold("stored", v)
      BY <3>1, <3>2, <3>3 DEF ToldRow
    <3>5. LastTold("stored", v)'
      BY <2>2, <3>4, <1>5
    <3> QED BY <3>1, <3>3, <3>5 DEF LastTold
  <2> QED BY <2>1, <2>2
<1>10. RowTold'
  <2>1. "status" \in refused' <=> "status" \in refused
    BY <1>1
  <2>2. \A g \in P!Busy' : g \in P!Busy /\ work'[g] = work[g]
    BY <1>1, <1>3, AdvanceBusy
  <2> QED BY <2>1, <2>2, <1>1 DEF RowTold
<1>11. ToldEntity'
  <2> SUFFICES ASSUME entity # None PROVE LastTold(id, entity["status"])'
    BY <1>1 DEF ToldEntity
  <2>1. work[h].id = id /\ work[h].value = entity["status"]
    BY <1>2 DEF Apart
  <2>2. PICK i, v : i = id /\ v = entity["status"]
    OBVIOUS
  <2>3. LastTold(i, v)'
    BY <2>1, <2>2, <1>5
  <2> QED BY <2>2, <2>3, <1>1 DEF LastTold
<1>12. Shown'
  BY <1>1 DEF Shown, P!LabelOf
<1> QED BY <1>6, <1>7, <1>8, <1>9, <1>10, <1>11, <1>12

LEMMA HearTypes ==
  ASSUME ProfileTypes, P!Hear
  PROVE  ProfileTypes'
<1>1. /\ told # <<>> /\ heard' = [heard EXCEPT ![Head(told).id] = Head(told).value]
      /\ told' = Tail(told) /\ told \in Seq(Notices) /\ heard \in [P!Ids -> P!Values]
      /\ UNCHANGED <<edited, guest, row, entity, id, dirty, work, screen, refused>>
  BY DEF P!Hear, ProfileTypes, P!TypeOK
<1> DEFINE t == Tail(told)
           x == Head(told)
<1>2. x \in Notices /\ t \in Seq(Notices) /\ Len(t) = Len(told) - 1 /\ Len(told) \in Nat
  BY <1>1
<1>3. Len(told) <= MaxTold /\ MaxTold \in Nat
  BY ProfileAssumption DEF ProfileTypes, P!TypeOK
<1>4. told' = t /\ heard' = [heard EXCEPT ![x.id] = x.value]
  BY <1>1
<1> HIDE DEF t, x
<1>5. x.id \in P!Ids /\ x.value \in P!Values
  BY <1>2 DEF Notices
<1>6. told' \in Seq(Notices) /\ Len(told') <= MaxTold /\ heard' \in [P!Ids -> P!Values]
  BY <1>2, <1>3, <1>4, <1>5, <1>1
<1>7. P!Busy' = P!Busy
  BY <1>1 DEF P!Busy
<1> QED BY <1>6, <1>7, <1>1 DEF ProfileTypes, P!TypeOK

LEMMA HearStep ==
  ASSUME ProfileInv, P!Hear
  PROVE  ProfileInv'
<1> USE DEF ProfileInv
<1>1. /\ told # <<>> /\ heard' = [heard EXCEPT ![Head(told).id] = Head(told).value]
      /\ told' = Tail(told) /\ told \in Seq(Notices) /\ heard \in [P!Ids -> P!Values]
      /\ UNCHANGED <<edited, guest, row, entity, id, dirty, work, screen, refused>>
  BY DEF P!Hear, ProfileTypes, P!TypeOK
<1>2. \A i \in P!Ids : \A v : LastTold(i, v) => LastTold(i, v)'
  BY <1>1, ToldShrinks
<1>3. ProfileTypes'
  BY HearTypes
<1>4. P!Busy' = P!Busy
  BY <1>1 DEF P!Busy
<1>5. "stored" \in P!Ids /\ id \in P!Ids
  BY DEF P!Ids, ProfileTypes, P!TypeOK
<1>6. ToldRow'
  <2> SUFFICES ASSUME {"status", "unheard"} \cap refused = {}, ~Telling("stored")
               PROVE  LastTold("stored", row["status"])'
    BY <1>1, <1>4 DEF ToldRow, Telling
  <2>1. PICK v : v = row["status"]
    OBVIOUS
  <2>2. LastTold("stored", v)'
    BY <2>1, <1>2, <1>5 DEF ToldRow
  <2> QED BY <2>1, <2>2, <1>1 DEF LastTold
<1>7. ToldEntity'
  <2> SUFFICES ASSUME entity # None, id = "made up" \/ "unheard" \notin refused, ~Telling(id)
               PROVE  LastTold(id, entity["status"])'
    BY <1>1, <1>4 DEF ToldEntity, Telling
  <2>1. PICK i, v : i = id /\ v = entity["status"]
    OBVIOUS
  <2>2. LastTold(i, v)
    BY <2>1 DEF ToldEntity
  <2>3. LastTold(i, v)'
    BY <2>1, <2>2, <1>2, <1>5
  <2> QED BY <2>1, <2>3, <1>1 DEF LastTold
<1> QED BY <1>1, <1>3, <1>4, <1>6, <1>7 DEF Apart, Kept, Saving, RowTold, Shown, P!LabelOf

LEMMA TickTypes ==
  ASSUME ProfileTypes, NEW near \in BOOLEAN, P!Tick(near)
  PROVE  ProfileTypes'
<1>1. /\ dirty' = {}
      /\ UNCHANGED <<edited, guest, row, entity, id, work, told, heard, refused>>
  BY DEF P!Tick
<1>2. P!Busy' = P!Busy
  BY <1>1 DEF P!Busy
<1> QED BY <1>1, <1>2 DEF ProfileTypes, P!TypeOK

LEMMA TickStep ==
  ASSUME ProfileInv, NEW near \in BOOLEAN, P!Tick(near)
  PROVE  ProfileInv'
<1> USE DEF ProfileInv
<1>1. /\ entity # None /\ dirty' = {}
      /\ UNCHANGED <<edited, guest, row, entity, id, work, told, heard, refused>>
  BY DEF P!Tick
<1>2. P!Busy' = P!Busy
  BY <1>1 DEF P!Busy
<1>3. ProfileTypes'
  BY TickTypes
<1>4. Shown'
  <2> SUFFICES ASSUME NEW v \in P!Viewers, screen'[v] # None
               PROVE  /\ entity["name"] # 0 => screen'[v].label = P!LabelOf(entity)
                      /\ v = "other" => screen'[v].sprite = entity["sprite"]
    BY <1>1 DEF Shown, P!LabelOf
  <2>1. screen'[v] = IF v = "other" /\ ~near THEN None
                     ELSE IF screen[v] = None THEN P!Spawned(v, entity)
                     ELSE P!Updated(v, screen[v], entity)
    BY DEF P!Tick
  <2>2. CASE screen[v] = None
    <3>1. screen'[v] = P!Spawned(v, entity)
      BY <2>1, <2>2
    <3> QED BY <3>1 DEF P!Spawned
  <2>3. CASE screen[v] # None
    <3>1. screen'[v] = P!Updated(v, screen[v], entity)
      BY <2>1, <2>3
    <3> QED BY <2>3, <3>1, <1>1 DEF P!Updated, Shown
  <2> QED BY <2>2, <2>3
<1>5. Apart' /\ Kept' /\ RowTold'
  BY <1>1, <1>2 DEF Apart, Kept, Saving, RowTold
<1>6. ToldRow' /\ ToldEntity'
  BY <1>1, <1>2 DEF ToldRow, ToldEntity, Telling, LastTold
<1> QED BY <1>3, <1>4, <1>5, <1>6

LEMMA NoneTold ==
  ASSUME told = <<>>
  PROVE  \A n \in 1..Len(told) : FALSE
OBVIOUS

\* What a session starts with.
LEMMA NamedIs ==
  ASSUME NEW e \in [P!Fields -> P!Values]
  PROVE  /\ P!Named(e) \in [P!Fields -> P!Values \cup {P!StandIn}]
         /\ \A f \in P!Fields \ {"name"} : P!Named(e)[f] = e[f]
         /\ P!Named(e)["name"] = IF e["name"] = 0 THEN P!StandIn ELSE e["name"]
<1>1. P!Named(e) = [e EXCEPT !["name"] = IF e["name"] = 0 THEN P!StandIn ELSE e["name"]]
  BY DEF P!Named
<1>2. "name" \in P!Fields
  BY DEF P!Fields, P!Saved
<1> QED BY <1>1, <1>2

LEMMA AppearsTypes ==
  ASSUME ProfileTypes, NEW e \in [P!Fields -> P!Values], NEW i \in P!Ids, P!Appears(e, i),
         row' \in [P!Saved -> P!Values], heard' \in [P!Ids -> P!Values],
         refused' \subseteq P!Saved \cup {"unheard"}
  PROVE  ProfileTypes'
<1>1. /\ entity' = P!Named(e) /\ id' = i /\ dirty' = {}
      /\ UNCHANGED <<edited, guest, work, told, screen>>
  BY DEF P!Appears
<1>2. entity' \in [P!Fields -> P!Values \cup {P!StandIn}]
  BY <1>1, NamedIs
<1>3. P!Busy' = P!Busy
  BY <1>1 DEF P!Busy
<1> QED BY <1>1, <1>2, <1>3 DEF ProfileTypes, P!TypeOK

LEMMA AppearsIs ==
  ASSUME ProfileInv, InTime, NEW e \in [P!Fields -> P!Values], NEW i \in P!Ids,
         entity = None, P!Busy = {}, P!Appears(e, i)
  PROVE  /\ entity' \in [P!Fields -> P!Values \cup {P!StandIn}]
         /\ \A f \in P!Fields \ {"name"} : entity'[f] = e[f]
         /\ entity'["name"] = IF e["name"] = 0 THEN P!StandIn ELSE e["name"]
         /\ P!Busy' = {} /\ Apart' /\ RowTold' /\ Shown'
<1>1. /\ entity' = P!Named(e) /\ id' = i /\ dirty' = {}
      /\ UNCHANGED <<edited, guest, work, told, screen>>
  BY DEF P!Appears
<1>4. /\ entity' \in [P!Fields -> P!Values \cup {P!StandIn}]
      /\ \A f \in P!Fields \ {"name"} : entity'[f] = e[f]
      /\ entity'["name"] = IF e["name"] = 0 THEN P!StandIn ELSE e["name"]
  BY <1>1, NamedIs
<1>5. P!Busy' = {}
  BY <1>1 DEF P!Busy
<1>6. Apart' /\ RowTold'
  BY <1>5 DEF Apart, RowTold
<1>7. \A v \in P!Viewers : screen'[v] = None
  BY <1>1 DEF ProfileInv, Shown
<1>8. Shown'
  BY <1>7 DEF Shown
<1> QED BY <1>4, <1>5, <1>6, <1>8

LEMMA ConnectIs ==
  ASSUME ProfileTypes, P!Connect
  PROVE  \E e \in [P!Fields -> P!Values] :
           /\ entity = None /\ P!Appears(e, "stored") /\ "stored" \in P!Ids /\ (InTime => P!Busy = {})
           /\ refused' = (IF refused \cap {"status", "unheard"} = {} THEN {} ELSE {"unheard"})
           /\ row' \in [P!Saved -> P!Values] /\ \A f \in P!Saved : row'[f] = e[f]
           /\ row'["status"] = row["status"] /\ row["status"] = e["status"]
           /\ UNCHANGED heard
<1> DEFINE sprite == IF row["sprite"] = 0 THEN 1 ELSE row["sprite"]
           e == P!Loaded(row, sprite)
<1>1. /\ entity = None /\ (InTime => P!Busy = {}) /\ P!Appears(e, "stored")
      /\ row' = [row EXCEPT !["sprite"] = sprite]
      /\ refused' = (IF refused \cap {"status", "unheard"} = {} THEN {} ELSE {"unheard"})
      /\ UNCHANGED heard
  BY DEF P!Connect, InTime
<1>2. row \in [P!Saved -> P!Values] /\ P!TypeOK
  BY DEF ProfileTypes, P!TypeOK
<1>3. sprite \in P!Values
  BY <1>2 DEF P!Values, P!Saved
<1>4. e = [f \in P!Fields |-> IF f = "sprite" THEN sprite ELSE IF f = "afk" THEN 0 ELSE row[f]]
  BY DEF P!Loaded
<1> HIDE DEF sprite, e
<1>5. e \in [P!Fields -> P!Values]
  <2>1. \A f \in P!Fields : f # "afk" => row[f] \in P!Values
    BY <1>2 DEF P!Fields, P!Saved
  <2> QED BY <2>1, <1>3, <1>4 DEF P!Values
<1>6. row' \in [P!Saved -> P!Values] /\ \A f \in P!Saved : row'[f] = e[f]
  BY <1>1, <1>2, <1>3, <1>4 DEF P!Saved, P!Fields
<1>7. row'["status"] = row["status"] /\ row["status"] = e["status"]
  BY <1>1, <1>2, <1>4 DEF P!Saved, P!Fields
<1>8. "stored" \in P!Ids
  BY DEF P!Ids
<1> QED BY <1>1, <1>5, <1>6, <1>7, <1>8

LEMMA ConnectTypes ==
  ASSUME ProfileTypes, P!Connect
  PROVE  ProfileTypes'
<1>1. PICK e \in [P!Fields -> P!Values] :
        /\ P!Appears(e, "stored") /\ "stored" \in P!Ids
        /\ refused' = (IF refused \cap {"status", "unheard"} = {} THEN {} ELSE {"unheard"})
        /\ row' \in [P!Saved -> P!Values]
        /\ UNCHANGED heard
  BY ConnectIs
<1>2. heard' \in [P!Ids -> P!Values] /\ refused' \subseteq P!Saved \cup {"unheard"}
  BY <1>1 DEF ProfileTypes, P!TypeOK
<1> QED BY <1>1, <1>2, AppearsTypes

LEMMA ConnectStep ==
  ASSUME ProfileInv, InTime, P!Connect
  PROVE  ProfileInv'
<1>0. ProfileTypes
  BY DEF ProfileInv
<1>1. PICK e \in [P!Fields -> P!Values] :
        /\ entity = None /\ P!Busy = {} /\ P!Appears(e, "stored") /\ "stored" \in P!Ids
        /\ refused' = (IF refused \cap {"status", "unheard"} = {} THEN {} ELSE {"unheard"})
        /\ row' \in [P!Saved -> P!Values] /\ \A f \in P!Saved : row'[f] = e[f]
        /\ row'["status"] = row["status"] /\ row["status"] = e["status"]
        /\ UNCHANGED heard
  BY <1>0, ConnectIs
<1>9. /\ entity' \in [P!Fields -> P!Values \cup {P!StandIn}]
      /\ \A f \in P!Fields \ {"name"} : entity'[f] = e[f]
      /\ entity'["name"] = IF e["name"] = 0 THEN P!StandIn ELSE e["name"]
      /\ P!Busy' = {} /\ Apart' /\ RowTold' /\ Shown'
  BY <1>1, AppearsIs
<1>10. id' = "stored" /\ dirty' = {} /\ UNCHANGED <<edited, guest, work, told, screen, heard>>
  BY <1>1 DEF P!Appears
<1>11. ProfileTypes'
  BY <1>0, ConnectTypes
<1>12. Kept'
  <2> SUFFICES ASSUME NEW f \in P!Saved
               PROVE  row'[f] = entity'[f] \/ (f = "name" /\ row'[f] = 0 /\ entity'[f] = P!StandIn)
    BY DEF Kept
  <2>1. f \in P!Fields
    BY DEF P!Fields
  <2> QED BY <2>1, <1>1, <1>9
<1>13. "unheard" \notin refused' => LastTold("stored", row["status"])
  <2>1. ~Telling("stored")
    BY <1>1 DEF Telling
  <2> QED BY <2>1, <1>1 DEF ProfileInv, ToldRow
<1>14. ToldRow'
  BY <1>1, <1>10, <1>13 DEF ToldRow, LastTold
<1>15. entity'["status"] = row["status"]
  BY <1>1, <1>9 DEF P!Fields, P!Saved
<1>16. ToldEntity'
  BY <1>10, <1>13, <1>15 DEF ToldEntity, LastTold
<1> QED BY <1>9, <1>11, <1>12, <1>14, <1>16 DEF ProfileInv

LEMMA ConnectUnknownTypes ==
  ASSUME ProfileTypes, P!ConnectUnknown
  PROVE  ProfileTypes'
<1> DEFINE e == P!New(P!Fields)
<1>1. /\ P!Appears(e, "made up")
      /\ heard' = [heard EXCEPT !["made up"] = 0] /\ UNCHANGED <<row, refused>>
  BY DEF P!ConnectUnknown
<1>2. e \in [P!Fields -> P!Values]
  BY DEF P!New, P!Values
<1>3. "made up" \in P!Ids
  BY DEF P!Ids
<1>4. /\ heard' \in [P!Ids -> P!Values] /\ row' \in [P!Saved -> P!Values]
      /\ refused' \subseteq P!Saved \cup {"unheard"}
  BY <1>1 DEF P!Values, ProfileTypes, P!TypeOK
<1> HIDE DEF e
<1> QED BY <1>1, <1>2, <1>3, <1>4, AppearsTypes

LEMMA ConnectUnknownStep ==
  ASSUME ProfileInv, InTime, P!ConnectUnknown
  PROVE  ProfileInv'
<1> DEFINE e == P!New(P!Fields)
<1>1. /\ entity = None /\ P!Busy = {} /\ told = <<>> /\ P!Appears(e, "made up")
      /\ heard' = [heard EXCEPT !["made up"] = 0] /\ UNCHANGED <<row, refused>>
  BY DEF P!ConnectUnknown, InTime
<1>2. e = [f \in P!Fields |-> 0] /\ e \in [P!Fields -> P!Values]
  BY DEF P!New, P!Values
<1> HIDE DEF e
<1>3. "made up" \in P!Ids /\ "stored" \in P!Ids /\ heard \in [P!Ids -> P!Values] /\ 0 \in P!Values
  BY DEF P!Ids, P!Values, ProfileInv, ProfileTypes, P!TypeOK
<1>4. /\ entity' \in [P!Fields -> P!Values \cup {P!StandIn}]
      /\ \A f \in P!Fields \ {"name"} : entity'[f] = e[f]
      /\ P!Busy' = {} /\ Apart' /\ RowTold' /\ Shown'
  BY <1>1, <1>2, <1>3, AppearsIs
<1>5. id' = "made up" /\ dirty' = {} /\ UNCHANGED <<edited, guest, work, told, screen>>
  BY <1>1 DEF P!Appears
<1>6. heard' \in [P!Ids -> P!Values] /\ heard'["made up"] = 0 /\ heard'["stored"] = heard["stored"]
  BY <1>1, <1>3
<1>7. ProfileTypes'
  BY ConnectUnknownTypes DEF ProfileInv
<1>8. entity'["status"] = 0
  BY <1>2, <1>4 DEF P!Fields, P!Saved
<1>9. ToldEntity'
  <2>1. \A n \in 1..Len(told) : FALSE
    BY <1>1, NoneTold
  <2> QED BY <2>1, <1>5, <1>6, <1>8 DEF ToldEntity, LastTold
<1>10. ToldRow'
  <2>1. ~Telling("stored")
    BY <1>1 DEF Telling
  <2>2. \A n \in 1..Len(told) : FALSE
    BY <1>1, NoneTold
  <2> QED BY <2>1, <2>2, <1>1, <1>5, <1>6 DEF ProfileInv, ToldRow, LastTold
<1> QED BY <1>4, <1>5, <1>7, <1>9, <1>10 DEF ProfileInv, Kept

LEMMA DisconnectTypes ==
  ASSUME ProfileTypes, P!Disconnect
  PROVE  ProfileTypes'
<1>1. /\ entity' = None /\ dirty' = {}
      /\ UNCHANGED <<edited, guest, row, id, work, told, heard, refused>>
  BY DEF P!Disconnect
<1>2. P!Busy' = P!Busy
  BY <1>1 DEF P!Busy
<1> QED BY <1>1, <1>2 DEF ProfileTypes, P!TypeOK

LEMMA DisconnectStep ==
  ASSUME ProfileInv, P!Disconnect
  PROVE  ProfileInv'
<1> USE DEF ProfileInv
<1>1. /\ entity' = None /\ dirty' = {} /\ screen' = [v \in P!Viewers |-> None]
      /\ UNCHANGED <<edited, guest, row, id, work, told, heard, refused>>
  BY DEF P!Disconnect
<1>2. P!Busy' = P!Busy
  BY <1>1 DEF P!Busy
<1>3. ProfileTypes'
  BY DisconnectTypes
<1>4. Apart' /\ Kept' /\ RowTold' /\ ToldEntity'
  BY <1>1, <1>2 DEF Apart, Kept, RowTold, ToldEntity
<1>5. ToldRow'
  BY <1>1, <1>2 DEF ToldRow, Telling, LastTold
<1>6. Shown'
  BY <1>1 DEF Shown
<1> QED BY <1>3, <1>4, <1>5, <1>6

LEMMA ProfileStutters ==
  ASSUME ProfileInv, UNCHANGED P!vars
  PROVE  ProfileInv'
<1> USE DEF ProfileInv, P!vars
<1>1. P!Busy' = P!Busy
  BY DEF P!Busy
<1>2. ProfileTypes'
  BY <1>1 DEF ProfileTypes, P!TypeOK
<1>3. Apart' /\ Kept' /\ RowTold'
  BY <1>1 DEF Apart, Kept, Saving, RowTold
<1>4. ToldRow' /\ ToldEntity'
  BY <1>1 DEF ToldRow, ToldEntity, Telling, LastTold
<1>5. Shown'
  BY DEF Shown, P!LabelOf
<1> QED BY <1>2, <1>3, <1>4, <1>5

\* The handlers of clients and admins change a field each.
LEMMA EditsApply ==
  ASSUME NEW x \in P!Values,
         \/ P!SetName(x) \/ P!SetSpriteBase(x) \/ P!SetPlayerOptions(x) \/ P!SetStatus(x) \/ P!SetAfk(x)
         \/ P!AdminSetName(x) \/ P!AdminSetSprite(x) \/ P!AdminSetPlayerOptions(x)
         \/ P!AdminSetStatus(x)
  PROVE  \E h \in P!Handlers : P!Apply(h, x)
<1>1. /\ \A f \in P!Fields : <<"client", f>> \in P!Handlers
      /\ \A f \in P!Saved : <<"admin", f>> \in P!Handlers
  BY DEF P!Handlers, P!ClientHandlers, P!AdminHandlers
<1>2. P!Saved = {"name", "status", "sprite", "options"} /\ P!Saved \cup {"afk"} = P!Fields
  BY DEF P!Saved, P!Fields
<1> QED BY <1>1, <1>2 DEF P!SetName, P!SetSpriteBase, P!SetPlayerOptions, P!SetStatus, P!SetAfk,
          P!AdminSetName, P!AdminSetSprite, P!AdminSetPlayerOptions, P!AdminSetStatus

\* Types are kept whatever overlaps.
LEMMA ProfileTypesKept ==
  ASSUME ProfileTypes, [P!Next]_(P!vars)
  PROVE  ProfileTypes'
<1>1. ASSUME NEW h \in P!Handlers, NEW x \in P!Values, P!Apply(h, x) PROVE ProfileTypes'
  BY <1>1, ApplyTypes
<1>2. ASSUME NEW h \in P!Handlers, P!Save(h) \/ P!SaveFails(h) PROVE ProfileTypes'
  BY <1>2, SaveTypes
<1>3. ASSUME NEW h \in P!Handlers, P!Tell(h) PROVE ProfileTypes'
  BY <1>3, TellTypes
<1>4. ASSUME NEW near \in BOOLEAN, P!Tick(near) PROVE ProfileTypes'
  BY <1>4, TickTypes
<1>5. CASE UNCHANGED P!vars
  <2>1. P!Busy' = P!Busy
    BY <1>5 DEF P!vars, P!Busy
  <2> QED BY <2>1, <1>5 DEF P!vars, ProfileTypes, P!TypeOK
<1> QED BY <1>1, <1>2, <1>3, <1>4, <1>5, EditsApply, ConnectTypes, ConnectUnknownTypes,
           DisconnectTypes, HearTypes DEF P!Next

LEMMA ProfileStep ==
  ASSUME ProfileInv, InTime, [P!Next]_(P!vars)
  PROVE  ProfileInv'
<1>1. CASE P!Connect
  BY <1>1, ConnectStep
<1>2. CASE P!ConnectUnknown
  BY <1>2, ConnectUnknownStep
<1>3. CASE P!Disconnect
  BY <1>3, DisconnectStep
<1>4. ASSUME NEW x \in P!Values,
             \/ P!SetName(x) \/ P!SetSpriteBase(x) \/ P!SetPlayerOptions(x) \/ P!SetStatus(x) \/ P!SetAfk(x)
             \/ P!AdminSetName(x) \/ P!AdminSetSprite(x) \/ P!AdminSetPlayerOptions(x)
             \/ P!AdminSetStatus(x)
      PROVE  ProfileInv'
  <2>1. \E h \in P!Handlers : P!Apply(h, x)
    BY <1>4, EditsApply
  <2> QED BY <2>1, ApplyStep
<1>5. ASSUME NEW h \in P!Handlers, P!Save(h) \/ P!SaveFails(h) PROVE ProfileInv'
  BY <1>5, SaveStep
<1>6. ASSUME NEW h \in P!Handlers, P!Tell(h) PROVE ProfileInv'
  BY <1>6, TellStep
<1>7. CASE P!Hear
  BY <1>7, HearStep
<1>8. ASSUME NEW near \in BOOLEAN, P!Tick(near) PROVE ProfileInv'
  BY <1>8, TickStep
<1>9. CASE UNCHANGED P!vars
  BY <1>9, ProfileStutters
<1> QED BY <1>1, <1>2, <1>3, <1>4, <1>5, <1>6, <1>7, <1>8, <1>9 DEF P!Next

LEMMA ProfileInvHolds == ASSUME InTime PROVE P!Spec => []ProfileInv
BY ProfileInit, ProfileStep, PTL DEF P!Spec

\* When the handlers are done nothing is about to be saved or told.
LEMMA SettledAgrees == ProfileInv => ProfileAgrees
<1> SUFFICES ASSUME ProfileInv, P!Settled PROVE P!RowAgrees /\ P!ScreensAgree /\ P!HeardAgrees
  BY DEF ProfileAgrees, P!ProfileAgrees
<1> USE DEF ProfileInv
<1>1. entity # None /\ P!Busy = {} /\ told = <<>> /\ dirty = {}
  BY DEF P!Settled
<1>2. P!RowAgrees
  BY <1>1 DEF P!RowAgrees, Kept, Saving
<1>3. P!ScreensAgree
  BY <1>1 DEF P!ScreensAgree, Shown
<1>4. P!HeardAgrees
  <2> SUFFICES ASSUME id = "made up" \/ "unheard" \notin refused PROVE heard[id] = entity["status"]
    BY DEF P!HeardAgrees
  <2>1. LastTold(id, entity["status"])
    BY <1>1 DEF ToldEntity, Telling
  <2>2. \A n \in 1..Len(told) : FALSE
    BY <1>1, NoneTold
  <2> QED BY <2>1, <2>2 DEF LastTold
<1> QED BY <1>2, <1>3, <1>4

\* Unless handlers of one field, or a handler and the next session, overlap,
\* the entity, the row, the browsers and ext-av agree about the player
\* whenever the handlers are done: for any number of handlers at work, any
\* refused saves and any sessions.
THEOREM ProfilesAgree == ASSUME InTime PROVE P!Spec => []ProfileAgrees
BY ProfileInvHolds, SettledAgrees, PTL

-----------------------------------------------------------------------------
(* The three together. *)

\* Whichever part runs, each module's own variables do what it says.
LEMMA PartsAreSpecs == PartsSpec => Spec /\ P!Spec /\ O!Spec
<1>1. PartsInit => Init /\ P!Init /\ O!Init
  BY DEF PartsInit
<1>2. [PartsNext]_all => [Next]_vars
  BY DEF PartsNext, all
<1>3. [PartsNext]_all => [P!Next]_(P!vars)
  BY DEF PartsNext, all, profileVars, P!vars
<1>4. [PartsNext]_all => [O!Next]_(O!vars)
  BY DEF PartsNext, all, optionsVars, O!vars
<1> QED BY <1>1, <1>2, <1>3, <1>4, PTL DEF PartsSpec, Spec, P!Spec, O!Spec

\* Every variable of the three modules keeps its type, and no bound of theirs
\* is passed.
THEOREM TypesAlwaysOK == PartsSpec => []TypesOK
<1>1. OptionsSane => O!TypeOK
  <2> SUFFICES ASSUME OptionsTypes PROVE O!TypeOK
    BY DEF OptionsSane
  <2>1. \A by \in {"set", "start"} : unsent[by] \in O!Options \cup {None}
    <3>1. unsent \in [set : O!Options \cup {None}, start : O!Options \cup {None}]
      BY DEF OptionsTypes
    <3> QED BY <3>1
  <2>2. \A c \in O!Subscribers :
          Len(queue[c]) <= MaxQueue /\ view[c] \in {O!Read(c, o) : o \in O!Options} \cup {None}
    BY DEF OptionsTypes, Answers
  <2>3. crashes <= MaxCrashes
    BY OptionsAssumption DEF OptionsTypes
  <2> QED BY <2>1, <2>2, <2>3 DEF OptionsTypes, O!TypeOK
<1>2. ProfileTypes => P!TypeOK
  BY DEF ProfileTypes
<1>3. TypeOK /\ P!TypeOK /\ O!TypeOK => TypesOK
  BY DEF TypesOK
<1>4. P!Spec => []ProfileTypes
  <2>1. P!Init => ProfileTypes
    BY ProfileInit DEF ProfileInv
  <2> QED BY <2>1, ProfileTypesKept, PTL DEF P!Spec
<1> QED BY <1>1, <1>2, <1>3, <1>4, PartsAreSpecs, TypeCorrect, OptionsSaneHolds, PTL
=============================================================================

-------------------------- MODULE IdentityRegistry --------------------------
(***************************************************************************)
(* What worldsim promises about player identities, without any of the      *)
(* machinery that keeps the promise (see Session).                         *)
(*                                                                         *)
(* An identity (a persistent entity id, or the per-connection id of a      *)
(* guest) is held by at most one connection.  A connection may hold only   *)
(* an identity that is its own, it may take a held identity over only      *)
(* after its user agreed to displace the other window, and a connection    *)
(* that lost its identity never holds one again: connection ids are not    *)
(* reused, so whoever comes back does so as a new connection.              *)
(***************************************************************************)
EXTENDS Naturals

CONSTANTS Clients,           \* connections
          Identities,        \* what a connection can hold
          MayHold(_, _),     \* MayHold(e, c): e is an identity of c
          None               \* no connection

VARIABLES holder,            \* [Identities -> Clients \cup {None}]
          consent,           \* connections whose user agreed to displace
          ended              \* connections whose session is over

vars == <<holder, consent, ended>>

Holders == {holder[e] : e \in Identities} \ {None}

\* A connection that may still begin a session.
Fresh(c) == c \notin ended /\ c \notin Holders

Init ==
  /\ holder = [e \in Identities |-> None]
  /\ consent = {}
  /\ ended = {}

\* A fresh connection is given a free identity of its own.
Claim(e, c) ==
  /\ Fresh(c) /\ MayHold(e, c)
  /\ holder[e] = None
  /\ holder' = [holder EXCEPT ![e] = c]
  /\ consent' \in {consent, consent \ {c}}
  /\ UNCHANGED ended

\* A connection whose user agreed takes its identity from another window.
TakeOver(e, c) ==
  /\ Fresh(c) /\ MayHold(e, c) /\ c \in consent
  /\ holder[e] # None
  /\ holder' = [holder EXCEPT ![e] = c]
  /\ ended' = ended \cup {holder[e]}
  /\ consent' \in {consent, consent \ {c}}

\* The session holding e is over.  The connection that caused it (a banned
\* one that displaced it and was then refused) may lose its consent with it.
Release(e) ==
  /\ holder[e] # None
  /\ holder' = [holder EXCEPT ![e] = None]
  /\ ended' = ended \cup {holder[e]}
  /\ \E c \in Clients : consent' \in {consent, consent \ {c}}

\* The process that keeps the registry restarts: every session is over.
Forget ==
  /\ holder' = [e \in Identities |-> None]
  /\ ended' = ended \cup Holders
  /\ consent' \in SUBSET consent

Agree(c) ==
  /\ Fresh(c)
  /\ consent' = consent \cup {c}
  /\ UNCHANGED <<holder, ended>>

Withdraw ==
  /\ consent' \in SUBSET consent
  /\ UNCHANGED <<holder, ended>>

Next ==
  \/ \E e \in Identities : Release(e) \/ \E c \in Clients : Claim(e, c) \/ TakeOver(e, c)
  \/ \E c \in Clients : Agree(c)
  \/ Forget
  \/ Withdraw

Spec == Init /\ [][Next]_vars
=============================================================================

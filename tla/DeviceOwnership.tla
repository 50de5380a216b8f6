--------------------------- MODULE DeviceOwnership ---------------------------
(***************************************************************************)
(* What opening promises to the clients of libhid: a client asks for an    *)
(* interface, is granted one that no open HIDInterface has or is refused,  *)
(* never waits for ever, and has what it was granted until it closes it.   *)
(***************************************************************************)
CONSTANTS
    Client,     \* who may own something
    Resource,   \* what can be owned
    None        \* no resource, not a member of Resource

VARIABLES
    phase,      \* is a client "closed", "opening" or "open"?
    owns        \* the resource of a client that is open

ownVars == <<phase, owns>>

OwnTypeOK ==
    /\ phase \in [Client -> {"closed", "opening", "open"}]
    /\ owns \in [Client -> Resource \cup {None}]

OwnInit ==
    /\ phase = [c \in Client |-> "closed"]
    /\ owns = [c \in Client |-> None]

Request(c) ==
    /\ phase[c] = "closed"
    /\ phase' = [phase EXCEPT ![c] = "opening"]
    /\ UNCHANGED owns

Grant(c, r) ==
    /\ phase[c] = "opening"
    /\ \A b \in Client : owns[b] # r
    /\ phase' = [phase EXCEPT ![c] = "open"]
    /\ owns' = [owns EXCEPT ![c] = r]

Refuse(c) ==
    /\ phase[c] = "opening"
    /\ phase' = [phase EXCEPT ![c] = "closed"]
    /\ UNCHANGED owns

Release(c) ==
    /\ phase[c] = "open"
    /\ phase' = [phase EXCEPT ![c] = "closed"]
    /\ owns' = [owns EXCEPT ![c] = None]

Answer(c) == Refuse(c) \/ \E r \in Resource : Grant(c, r)

OwnNext == \E c \in Client : Request(c) \/ Answer(c) \/ Release(c)

OwnSafety == OwnInit /\ [][OwnNext]_ownVars

OwnSpec == OwnSafety /\ \A c \in Client : WF_ownVars(Answer(c))
=============================================================================

-------------------------- MODULE PublisherRegistry --------------------------
(***************************************************************************)
(* What the publishers registry promises to the people who use it: a set   *)
(* of rows that only grows, in which no identifier and no endpoint appears *)
(* twice, and whose rows a liveness check may stamp but never add, remove  *)
(* or rename (registry/registration.py, registry/publishers_store.py and   *)
(* the "Deployers" section of README.md).  PublisherFile shows how far the *)
(* JSON file keeps this promise.                                           *)
(***************************************************************************)
EXTENDS Naturals

CONSTANTS
    Ids,             \* IVOA identifiers
    Endpoints,       \* normalized endpoint URLs
    Stamps           \* what last_checked_at / check_status can be

VARIABLES
    publishers,      \* the rows
    acked            \* identifiers whose registration was answered with 201

Row == [id : Ids, endpoint : Endpoints, check : Stamps]
pvars == <<publishers, acked>>

Init ==
    /\ publishers = {}
    /\ acked = {}

(* A publisher is added under a free identifier and endpoint.              *)
Register(row) ==
    /\ \A p \in publishers : p.id # row.id /\ p.endpoint # row.endpoint
    /\ publishers' = publishers \cup {row}
    /\ UNCHANGED acked

(* Only what is in the registry is acknowledged.                           *)
Acknowledge(id) ==
    /\ \E p \in publishers : p.id = id
    /\ acked' = acked \cup {id}
    /\ UNCHANGED publishers

(* The liveness check stamps the publishers it probed.                     *)
Annotate(probed, stamp) ==
    /\ publishers' = {IF p.id \in probed THEN [p EXCEPT !.check = stamp] ELSE p :
                          p \in publishers}
    /\ UNCHANGED acked

Next ==
    \/ \E row \in Row : Register(row)
    \/ \E id \in Ids : Acknowledge(id)
    \/ \E probed \in SUBSET Ids, stamp \in Stamps : Annotate(probed, stamp)

Spec == Init /\ [][Next]_pvars
=============================================================================

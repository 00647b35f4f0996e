-------------------------- MODULE MCPublisherCheck --------------------------
(* A small instance of PublisherCheck for TLC.                             *)
EXTENDS PublisherCheck, TLC

CONSTANTS i1, i2, u1, u2

Good(id) == [kind |-> "reply", http_ok |-> TRUE, xml |-> TRUE, error |-> FALSE,
             registry |-> TRUE, resource_id |-> id, oai_id |-> None]
Refused == [Good(None) EXCEPT !.kind = "no_answer"]
Invalid == [Good(None) EXCEPT !.kind = "raises"]
HttpError == [Good(None) EXCEPT !.http_ok = FALSE]
OaiError == [Good(None) EXCEPT !.error = TRUE]
NoRegistry == [Good(None) EXCEPT !.registry = FALSE, !.oai_id = i1]
OnlyOaiId(id) == [Good(None) EXCEPT !.oai_id = id]

(* One endpoint is well or down; the other has every other trouble, and    *)
(* gives its identifier in a place of its own.                             *)
TwoServers == u1 :> {Good(i1), Refused, HttpError} @@
              u2 :> {OnlyOaiId(i2), Good(None), NoRegistry, OaiError, Invalid}

Symmetry == Permutations(Inodes) \cup Permutations(Checkers)
=============================================================================

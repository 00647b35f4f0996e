----------------------------- MODULE OaiListing -----------------------------
(***************************************************************************)
(* An OAI-PMH client that lists Benson's catalog page by page with any     *)
(* arguments, while maintainers edit the catalog between its requests.     *)
(* The client keeps the token it was given and what it has received.       *)
(***************************************************************************)
EXTENDS OaiServer

CONSTANTS
    Queries,         \* the arguments the client starts a listing with
    MaxEdits         \* bounds the maintainers' edits

ASSUME ListingAssumption == Queries \subseteq Arguments /\ MaxEdits \in Nat

VARIABLES
    client,          \* the listing the client is making
    start,           \* the catalog when the listing started
    edits            \* how many edits there were since

vars == <<catalog, client, start, edits>>

(* The client: between listings, waiting for the next page, done, or       *)
(* refused with code.                                                      *)
Client == [at : {"idle", "listing", "done", "refused"}, q : Arguments \cup {None},
           next : Nat \cup {None}, got : Seq(Ids), code : Outcomes]

NoListing == [at |-> "idle", q |-> None, next |-> None, got |-> <<>>, code |-> "ok"]

After(q, got, reply) ==
    [at |-> IF reply.code # "ok" THEN "refused"
            ELSE IF reply.next = None THEN "done" ELSE "listing",
     q |-> q, next |-> reply.next, got |-> got \o reply.page, code |-> reply.code]

First(q) ==
    /\ client.at = "idle"
    /\ \E reply \in {ListReply(catalog, q)} : client' = After(q, <<>>, reply)
    /\ start' = catalog
    /\ UNCHANGED <<catalog, edits>>

Resume ==
    /\ client.at = "listing"
    /\ \E reply \in {ResumeReply(catalog, client.q, client.next)} :
          client' = After(client.q, client.got, reply)
    /\ UNCHANGED <<catalog, start, edits>>

(* Edits before a listing are other initial catalogs.                      *)
Edit ==
    /\ client.at = "listing"
    /\ edits < MaxEdits
    /\ edits' = edits + 1
    /\ Maintain \/ \E i \in Standards : StartWriting(i)
    /\ UNCHANGED <<client, start>>

Close ==
    /\ client.at = "listing"
    /\ \E i \in Standards : FinishWriting(i)
    /\ UNCHANGED <<client, start, edits>>

Init ==
    /\ catalog \in [Standards -> {rec \in Record : rec.whole} \cup {None}]
    /\ client = NoListing
    /\ start = catalog
    /\ edits = 0

Next == (\E q \in Queries : First(q)) \/ Resume \/ Edit \/ Close
Spec == Init /\ [][Next]_vars
FairSpec == Spec /\ WF_vars(Resume)

-----------------------------------------------------------------------------
(* Properties.                                                             *)

Got == {client.got[n] : n \in DOMAIN client.got}

(* What the OAI arguments ask for, record by record.                       *)
Asked(cat, q, i) ==
    LET rec == RecordOf(cat, i) IN
    /\ i \in Standards => cat[i] # None
    /\ q.set # "other"
    /\ \/ rec.deleted
       \/ /\ q.from # None => Day(q.from.at) =< Day(rec.stamp)
          /\ q.until # None =>
                \/ rec.stamp =< q.until.at
                \/ q.until.kind = "day" /\ Day(rec.stamp) = Day(q.until.at)

(* If nobody edits the catalog during a listing, the pages together hold   *)
(* exactly the records the arguments ask for, each once and in one order,  *)
(* however they are cut (server.py 106-125, 161-170, 330-353).             *)
ExactListing ==
    client.at = "done" /\ edits = 0 =>
        /\ Got = {i \in Ids : Asked(catalog, client.q, i)}
        /\ \A m, n \in DOMAIN client.got :
              m < n => client.got[m] < client.got[n]

(* A listing without dates misses no record that was in the catalog when   *)
(* it started, although the cursor is an offset into a list that edits     *)
(* shift between two pages, and although files are written between them:   *)
(* one that does not parse never shortens a listing (resumption.py 11-17,  *)
(* server.py 161-170, standards_store.py 81-83).                           *)
NothingMissed ==
    client.at = "done" /\ client.q.from = None /\ client.q.until = None =>
        {i \in Ids : i \in Standards => start[i] # None} \subseteq Got

(* The server remembers what it has listed ("deletedRecord" persistent,    *)
(* server.py 194): every identifier a client was given, in whatever state  *)
(* of the catalog, can be fetched with GetRecord later on, unless the      *)
(* format is not supported (server.py 426-452).                            *)
ListedCanBeFetched ==
    \A n \in DOMAIN client.got, prefix \in {"supported", "unsupported", None}, twice \in BOOLEAN :
        GetRecordReply(catalog, client.got[n], twice, prefix) # "idDoesNotExist"

(* Every listing comes to an end: a token is given only when there is more *)
(* to list, however the catalog is edited meanwhile (server.py 166-170).   *)
ListingEnds == (client.at = "listing") ~> (client.at \in {"done", "refused"})

-----------------------------------------------------------------------------
(* What the documentation says and the code does not do.                   *)

(* An invalid from or until gets an OAI error code: "Return an OAI error   *)
(* code when from/until are invalid" (dates.py 71), also when it looks     *)
(* like a date.                                                            *)
InvalidDatesAreRefused ==
    client.at = "refused" => client.code # "raise"
=============================================================================

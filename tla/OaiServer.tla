------------------------------ MODULE OaiServer ------------------------------
(***************************************************************************)
(* Benson's own OAI-PMH endpoint: the catalog of standards and registry    *)
(* records (registry/standards_store.py) and its answers to the six verbs  *)
(* (oai/server.py, oai/dates.py, oai/resumption.py).  The server keeps     *)
(* nothing between requests: a resumption token carries the query and a    *)
(* cursor, and every request reads the catalog directory again.            *)
(* Maintainers edit the directory between any two requests.                *)
(***************************************************************************)
EXTENDS Integers, Sequences, FiniteSets

CONSTANTS
    OwnStamps,       \* the datestamps of the registry's own records, in order
    NStandards,      \* how many standards there may be
    Stamps,          \* datestamps of standards; day d is 2d (0h) and 2d+1 (later)
    Contents,        \* what the files of standards may hold
    Epoch,           \* the first datestamp of 1970
    PageSize,        \* OAI_MAX_RECORDS
    None

ASSUME ServerAssumption ==
    /\ OwnStamps \in Seq(Nat) /\ OwnStamps # <<>> /\ NStandards \in Nat
    /\ Stamps \subseteq Nat /\ Epoch \in Nat
    /\ Contents \subseteq {"sound", "invalid", "misdated"}
    /\ PageSize \in Nat \ {0}

VARIABLE
    catalog          \* per standard its record, or None when there is no file

(* Records are numbered in the order of the catalog: the registry's own in *)
(* their fixed order, then the standards in the order of identifiers.      *)
Own == 0 - Len(OwnStamps) .. 0 - 1
Standards == 1..NStandards
Ids == Own \cup Standards

(* Any file that parses and has an identifier is served: a sound one, one  *)
(* whose resource the schemas reject, and one whose datestamp has the      *)
(* shape of a date but is none, and sorts where stamp says.                *)
Record == [stamp : Stamps, deleted : BOOLEAN, whole : BOOLEAN, content : Contents]

-----------------------------------------------------------------------------
(* The catalog.                                                            *)

(* Fault: a file that does not parse is left out.                          *)
Parses_Skipped(cat) == TRUE
Parses(cat) == \A i \in Standards : cat[i] # None => cat[i].whole

(* record_in_range reads the datestamp of every active record, whatever    *)
(* the bounds, and strptime raises on one that is no date.                 *)
Datable(cat) ==
    \A i \in Standards : cat[i] # None /\ cat[i].content = "misdated" => cat[i].deleted

(* Fault: files whose record is deleted are not loaded.                    *)
Loaded_NoDeleted(cat, i) == cat[i] # None /\ ~cat[i].deleted

(* _reload_if_needed: one file that does not parse raises, and the request *)
(* with it.                                                                *)
Loaded(cat, i) == cat[i] # None /\ cat[i].whole

(* How many of the records S come before i, and S as a sorted list.        *)
Rank(S, i) == Cardinality({j \in S : j < i})
InOrder(S) == CHOOSE list \in [1..Cardinality(S) -> S] :
                  \A m, n \in 1..Cardinality(S) : m < n => list[m] < list[n]

(* all_records: the own records and the standards.                         *)
all_records(cat) == Own \cup {i \in Standards : Loaded(cat, i)}
RecordOf(cat, i) ==
    IF i \in Standards THEN cat[i]
    ELSE [stamp |-> OwnStamps[Len(OwnStamps) + 1 + i], deleted |-> FALSE, whole |-> TRUE,
          content |-> "sound"]

(* A maintainer adds a file, marks its record deleted or rewrites it.      *)
(* Files stay: the server announces deletedRecord=persistent.              *)
AddFile(i) ==
    /\ catalog[i] = None
    /\ \E stamp \in Stamps, content \in Contents :
          catalog' = [catalog EXCEPT ![i] = [stamp |-> stamp, deleted |-> FALSE,
                                             whole |-> TRUE, content |-> content]]

MarkDeleted(i) ==
    /\ catalog[i] # None
    /\ catalog' = [catalog EXCEPT ![i].deleted = TRUE]

Rewrite(i) ==
    /\ catalog[i] # None
    /\ \E stamp \in Stamps, content \in Contents :
          catalog' = [catalog EXCEPT ![i].stamp = stamp, ![i].content = content]

Maintain == \E i \in Standards : AddFile(i) \/ MarkDeleted(i) \/ Rewrite(i)

(* A file, a new one too, is opened for writing: it does not parse before  *)
(* it is whole again.                                                      *)
StartWriting(i) == catalog[i] # None /\ catalog' = [catalog EXCEPT ![i].whole = FALSE]
FinishWriting(i) == catalog[i] # None /\ catalog' = [catalog EXCEPT ![i].whole = TRUE]

-----------------------------------------------------------------------------
(* Requests.  A bound is a day, an instant, text that is no date, or text  *)
(* with the shape of a date that the calendar does not have.               *)

Bound == [kind : {"day", "seconds"}, at : Nat]
            \cup [kind : {"junk", "impossible"}, at : {0}]
Arguments == [twice : BOOLEAN,                          \* an argument is repeated
              prefix : {"supported", "unsupported", None},
              set : {"ivo_managed", "other", None},
              from : Bound \cup {None}, until : Bound \cup {None}]

(* None is no record, number, name or date.                                *)
ASSUME NoneAssumption ==
    None \notin Record \cup Nat \cup Bound
                  \cup {"supported", "unsupported", "ivo_managed", "other"}

Day(t) == t \div 2

(* parse_oai_date: strptime raises on an impossible date.                  *)
Raises(bound) == bound # None /\ bound.kind = "impossible"
Unparsed(bound) == bound # None /\ bound.kind = "junk"

(* What becomes of a list request; "raise" is an exception nobody catches. *)
Outcomes == {"ok", "raise", "badArgument", "cannotDisseminateFormat", "noSetHierarchy",
             "noRecordsMatch"}

(* validate_from_until.                                                    *)
validate_from_until(from, until) ==
    IF from # None /\ from.kind = "seconds" THEN "badArgument"
    ELSE IF Raises(from) THEN "raise"
    ELSE IF Unparsed(from) THEN "badArgument"
    ELSE IF Raises(until) THEN "raise"
    ELSE IF Unparsed(until) THEN "badArgument"
    ELSE IF from # None /\ until # None
              /\ (from.kind # until.kind \/ from.at > until.at) THEN "badArgument"
    ELSE "ok"

(* Fault: a repeated argument counts once.                                 *)
validate_list_args_TakesFirst(q) ==
    IF q.prefix = None THEN "badArgument"
    ELSE IF q.prefix # "supported" THEN "cannotDisseminateFormat"
    ELSE IF q.set = "other" THEN "noSetHierarchy"
    ELSE LET dates == validate_from_until(q.from, q.until) IN
         IF dates # "ok" THEN dates
         ELSE IF q.until # None /\ q.until.at < Epoch THEN "noRecordsMatch"
         ELSE "ok"

(* _validate_list_args without a resumption token.                         *)
validate_list_args(q) ==
    IF q.twice THEN "badArgument"
    ELSE IF q.prefix = None THEN "badArgument"
    ELSE IF q.prefix # "supported" THEN "cannotDisseminateFormat"
    ELSE IF q.set = "other" THEN "noSetHierarchy"
    ELSE LET dates == validate_from_until(q.from, q.until) IN
         IF dates # "ok" THEN dates
         ELSE IF q.until # None /\ q.until.at < Epoch THEN "noRecordsMatch"
         ELSE "ok"

(* Fault: the day of until counts only up to its beginning.                *)
record_in_range_Instant(stamp, from, until) ==
    /\ from # None => IF from.kind = "day" THEN Day(stamp) >= Day(from.at)
                                           ELSE stamp >= from.at
    /\ until # None => stamp =< until.at

(* record_in_range; a day bound includes all of its day.                   *)
record_in_range(stamp, from, until) ==
    /\ from # None => IF from.kind = "day" THEN Day(stamp) >= Day(from.at)
                                           ELSE stamp >= from.at
    /\ until # None => IF until.kind = "day" THEN Day(stamp) =< Day(until.at)
                                             ELSE stamp =< until.at

(* _filter_records: deleted records always pass, others when in range.     *)
filter_records(cat, q) ==
    {i \in all_records(cat) :
        LET rec == RecordOf(cat, i) IN
        /\ q.set \in {None, "ivo_managed"}
        /\ rec.deleted \/ record_in_range(rec.stamp, q.from, q.until)}

(* Python's list[cursor : upto] of the sorted records S.                   *)
Slice(S, cursor, upto) == InOrder({i \in S : Rank(S, i) \in cursor..upto - 1})

(* Fault: every page has a token, whose cursor is at most the list's end.  *)
Paginate_Clamped(S, cursor) ==
    LET next == cursor + PageSize
        last == Cardinality(S)
    IN  [page |-> Slice(S, cursor, next), next |-> IF next < last THEN next ELSE last]

(* _paginate: list[cursor : cursor + page_size] and the next cursor.       *)
Paginate(S, cursor) ==
    LET next == cursor + PageSize
    IN  [page |-> Slice(S, cursor, next),
         next |-> IF next >= Cardinality(S) THEN None ELSE next]

Error(code) == [code |-> code, page |-> <<>>, next |-> None]

(* ListRecords and ListIdentifiers from a cursor on.                       *)
Listable(cat) == Parses(cat) /\ Datable(cat)
ListFrom(cat, q, cursor) ==
    LET cut == Paginate(filter_records(cat, q), cursor) IN
    IF ~Listable(cat) THEN Error("raise")
    ELSE IF cut.page = <<>> /\ cursor = 0 THEN Error("noRecordsMatch")
    ELSE [code |-> "ok", page |-> cut.page, next |-> cut.next]

(* The answer to a first request and to one with a resumption token, which *)
(* carries the arguments and the cursor.                                   *)
ListReply(cat, q) ==
    IF validate_list_args(q) = "ok" THEN ListFrom(cat, q, 0)
    ELSE Error(validate_list_args(q))
ResumeReply(cat, q, cursor) == ListFrom(cat, q, cursor)

(* get_by_identifier: does it find a record?                               *)
Served(cat, i) == i \in all_records(cat)
Lookup(cat, i) ==
    IF ~Parses(cat) THEN "raise" ELSE IF Served(cat, i) THEN "ok" ELSE "idDoesNotExist"

(* GetRecord with its two arguments, perhaps left out or repeated.         *)
GetRecordReply(cat, i, twice, prefix) ==
    IF twice \/ i = None \/ prefix = None THEN "badArgument"
    ELSE IF prefix # "supported" THEN "cannotDisseminateFormat"
    ELSE Lookup(cat, i)

(* dispatch_oai_verb for a request without a token or with a junk one:     *)
(* "ok", the OAI error code, or "raise".                                   *)
dispatch(cat, request) ==
    CASE request.verb = "Identify" ->
            IF request.extra THEN "badArgument" ELSE IF Parses(cat) THEN "ok" ELSE "raise"
      [] request.verb = "ListMetadataFormats" ->
            IF request.id = None THEN "ok" ELSE Lookup(cat, request.id)
      [] request.verb = "ListSets" -> "ok"
      [] request.verb \in {"ListIdentifiers", "ListRecords"} ->
            IF request.junkToken /\ ~request.args.twice THEN "badResumptionToken"
            ELSE ListReply(cat, request.args).code
      [] request.verb = "GetRecord" ->
            GetRecordReply(cat, request.id, request.args.twice, request.args.prefix)
      [] OTHER -> "badVerb"
=============================================================================

---------------------------- MODULE MCOaiListing ----------------------------
(* Small instances of OaiListing for TLC: standards of the end of day 1    *)
(* and the beginning of day 2, bounds on both days.                        *)
EXTENDS OaiListing

RofrStamps == <<4, 2, 3>>
SomeStamps == {3, 4}

Dates == {None, [kind |-> "day", at |-> 2], [kind |-> "day", at |-> 4]}
Untils == Dates \cup {[kind |-> "seconds", at |-> 3]}
Junk == [kind |-> "junk", at |-> 0]
Early == [kind |-> "day", at |-> 0]
Impossible == [kind |-> "impossible", at |-> 0]

Query(twice, prefix, set, from, until) ==
    [twice |-> twice, prefix |-> prefix, set |-> set, from |-> from, until |-> until]

GoodQueries ==
    {Query(FALSE, "supported", "ivo_managed", from, until) : from \in Dates, until \in Untils}
BadQueries ==
    {Query(TRUE, "supported", None, None, None), Query(FALSE, None, None, None, None),
     Query(FALSE, "unsupported", None, None, None), Query(FALSE, "supported", "other", None, None),
     Query(FALSE, "supported", None, Junk, None), Query(FALSE, "supported", None, None, Early)}
AllQueries == GoodQueries \cup BadQueries
DatedQueries ==
    {Query(FALSE, "supported", None, from, until) :
        from \in {None, Junk, Impossible}, until \in {None, Junk, Impossible}}
=============================================================================

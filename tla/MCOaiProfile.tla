---------------------------- MODULE MCOaiProfile ----------------------------
(* Small instances of OaiProfile for TLC: a standard of 2000-01-01 (late)  *)
(* or of a day after all the probes' dates.                                *)
EXTENDS OaiProfile

RofrStamps == <<D2002 + 4, D2000 + 1>>
SomeStamps == {D2000 + 1, D2002 + 2}
AllContents == {"sound", "invalid", "misdated"}

Xml(codes, valid) == [http_ok |-> TRUE, xml |-> TRUE, valid |-> valid, codes |-> codes]
HttpError == [Xml({}, FALSE) EXCEPT !.http_ok = FALSE]
NoXml == [Xml({}, FALSE) EXCEPT !.xml = FALSE]

AllAnswers == {Xml(codes, valid) : codes \in SUBSET Codes, valid \in BOOLEAN}
                  \cup {HttpError, NoXml}
SomeBreakdowns == {Xml({}, TRUE), Xml({}, FALSE), Xml({"badArgument"}, TRUE),
                   Xml({"badVerb"}, TRUE), HttpError, NoXml}
=============================================================================

---------------------------- MODULE MCOaiHarvest ----------------------------
(* Small instances of OaiHarvest for TLC.                                  *)
EXTENDS OaiHarvest

RofrStamps == <<4, 2>>
OneStamp == {3}
R(id, kind) == [id |-> id, kind |-> kind]

Records == {<<>>, <<R(1, "full")>>, <<R(1, "empty"), R(2, "full")>>,
            <<R(1, "deleted"), R(1, "full"), R(3, "full"), R(2, "empty")>>}
AllReplies == {OaiError, NoXml} \cup {Page(records, token) : records \in Records, token \in {None, 7}}
=============================================================================

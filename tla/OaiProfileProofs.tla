-------------------------- MODULE OaiProfileProofs --------------------------
(***************************************************************************)
(* Proofs about the verdicts of phases 1 and 2, for every catalog of the   *)
(* own server and every edit of it between two requests, every answer of   *)
(* an endpoint that always answers alike, and every answer and moment of a *)
(* breakdown.                                                              *)
(***************************************************************************)
EXTENDS OaiProfile, OaiServerProofs

-----------------------------------------------------------------------------
(* The invariant.                                                          *)

Tests == {{"pass"}, {"fail"}}
Queries == Seq(Tests)
CaseNumbers == 0..Len(Cases) + 1
CheckNumbers == 1..Len(IVOA_CHECKS) + 1

ProfileTypeOK ==
    /\ CatalogType(catalog) /\ Parses(catalog)
    /\ probe \in [next : CaseNumbers, own : BOOLEAN,
                  fixed : Answers \cup Breakdowns \cup {None}, queries : Queries]
    /\ profile \in [next : CheckNumbers, builtin_schemas : BOOLEAN, queries : Queries]

(* The report has one query for each request sent, those of phase 2 after  *)
(* all of phase 1.                                                         *)
QueriesInStep ==
    /\ probe.next = 0 => probe = NoReport
    /\ probe.next # 0 => Len(probe.queries) = probe.next - 1
    /\ Len(profile.queries) = profile.next - 1
    /\ profile.next > 1 => probe.next = Len(Cases) + 1

(* The probes of an endpoint that always answers alike are judged by that  *)
(* one answer.                                                             *)
ConstantJudged ==
    probe.next # 0 /\ ~probe.own =>
        /\ probe.fixed # None
        /\ \A n \in DOMAIN probe.queries :
              probe.queries[n] = probe_test(Passes(Cases[n], probe.fixed))

(* The last query of all is answered after any breakdown.                  *)
LastJudged ==
    Done /\ probe.fixed # None =>
        profile.queries[Len(IVOA_CHECKS)] =
            ri_test(Verdict(probe.fixed, profile.builtin_schemas))

(* The inductive invariant.                                                *)
PInv == ProfileTypeOK /\ QueriesInStep /\ ConstantJudged /\ LastJudged

-----------------------------------------------------------------------------
(* What the own server answers.                                            *)

LEMMA Lengths ==
    /\ Len(Cases) = 28 /\ DOMAIN Cases = 1..28
    /\ Len(IVOA_CHECKS) = 4 /\ DOMAIN IVOA_CHECKS = 1..4
BY DEF Cases, IVOA_CHECKS

(* An answer without an error passes a case that wants none, and an error  *)
(* passes one that wants or allows it.                                     *)
LEMMA CodePasses ==
    ASSUME NEW case, NEW code, dispatch(catalog, case.request) = code,
           \/ code = "ok" /\ case.expect = {}
           \/ code \in Codes /\ code \in case.expect
           \/ code \in Codes /\ case.expect = {} /\ code \in case.optional
    PROVE  Passes(case, OwnAnswer(case.request))
<1>1. code # "raise" /\ (code = "ok" => code \notin Codes)
  BY DEF Codes
<1>2. OwnAnswer(case.request).http_ok /\ OwnAnswer(case.request).xml
  BY <1>1 DEF OwnAnswer
<1>3. OwnAnswer(case.request).codes = {code} \cap Codes
  BY DEF OwnAnswer
<1>4. CASE code = "ok" /\ case.expect = {}
  <2>1. OwnAnswer(case.request).codes = {}
    BY <1>1, <1>3, <1>4
  <2> QED BY <1>2, <1>4, <2>1 DEF Passes, acceptable
<1>5. CASE code \in Codes /\ code \in case.expect
  <2>1. OwnAnswer(case.request).codes = {code}
    BY <1>3, <1>5
  <2> QED BY <1>2, <1>5, <2>1 DEF Passes, acceptable
<1>6. CASE code \in Codes /\ case.expect = {} /\ code \in case.optional
  <2>1. OwnAnswer(case.request).codes = {code}
    BY <1>3, <1>6
  <2> QED BY <1>2, <1>6, <2>1 DEF Passes, acceptable
<1> QED BY <1>4, <1>5, <1>6

(* An own record is of D2001 or later, so a list that asks for no more     *)
(* than that is not empty.                                                 *)
LEMMA ListIsAnswered ==
    ASSUME CatalogType(catalog), Listable(catalog),
           NEW q, q.set \in {None, "ivo_managed"}, q.until = None,
           q.from \in {None, On(D2001)}, validate_list_args(q) = "ok"
    PROVE  ListReply(catalog, q).code = "ok"
<1>1. PICK n \in DOMAIN OwnStamps : OwnStamps[n] >= D2001
  BY ProbesAssumption
<1> DEFINE i == n - (Len(OwnStamps) + 1)
<1>2. /\ Len(OwnStamps) \in Nat /\ n \in 1..Len(OwnStamps) /\ OwnStamps[n] \in Nat
      /\ NStandards \in Nat
  BY ServerAssumption
<1>3. i \in Own /\ i \notin Standards /\ Len(OwnStamps) + 1 + i = n
  BY <1>2 DEF Own, Standards
<1>4. RecordOf(catalog, i).stamp = OwnStamps[n]
  BY <1>3 DEF RecordOf
<1>5. OwnStamps[n] \div 2 >= 4
  BY <1>1, <1>2 DEF D2001
<1>6. record_in_range(OwnStamps[n], q.from, q.until)
  <2>1. CASE q.from = None
    BY <2>1 DEF record_in_range
  <2>2. CASE q.from = On(D2001)
    <3>1. q.from.kind = "day" /\ q.from.at = 8
      BY <2>2 DEF On, D2001
    <3>2. 8 \div 2 = 4
      OBVIOUS
    <3> QED BY <1>5, <3>1, <3>2 DEF record_in_range, Day
  <2> QED BY <2>1, <2>2
<1>7. i \in filter_records(catalog, q)
  BY <1>3, <1>4, <1>6 DEF filter_records, all_records
<1>8. ListFrom(catalog, q, 0).code = "ok"
  <2>1. /\ ListFrom(catalog, q, 0).code = "raise" <=> ~Listable(catalog)
        /\ ListFrom(catalog, q, 0).code \in {"ok", "raise", "noRecordsMatch"}
        /\ ListFrom(catalog, q, 0).code = "noRecordsMatch" => filter_records(catalog, q) = {}
    BY ListFromFacts
  <2> QED BY <1>7, <2>1
<1>9. ListReply(catalog, q) = ListFrom(catalog, q, 0)
  BY DEF ListReply
<1> QED BY <1>8, <1>9

(* The arguments of the probes: which are refused, and with what.          *)
LEMMA ArgumentsJudged ==
    /\ validate_list_args(OaiDc) = "ok"
    /\ validate_list_args([OaiDc EXCEPT !.set = "ivo_managed"]) = "ok"
    /\ validate_list_args(Between(On(D2000), On(D2000))) = "ok"
    /\ validate_list_args(Wrong) = "noSetHierarchy"
    /\ validate_list_args(Between(On(D2001), AtSecond(D2002))) = "badArgument"
    /\ validate_list_args(Between(On(D2000), On(D1999))) = "badArgument"
    /\ validate_list_args(NoArgs) = "badArgument"
    /\ validate_list_args([NoArgs EXCEPT !.prefix = "unsupported"]) = "cannotDisseminateFormat"
    /\ validate_list_args([OaiDc EXCEPT !.twice = TRUE]) = "badArgument"
    /\ validate_list_args(Between(On(D2001), None)) = "ok"
    /\ validate_list_args(Between(AtSecond(D2001), None)) = "badArgument"
    /\ validate_list_args(Between(RandomDate, None)) = "badArgument"
    /\ validate_list_args(Between(None, AtSecond(D1969))) = "noRecordsMatch"
<1>1. /\ None # "supported" /\ None # "unsupported" /\ None # "other"
      /\ \A day \in Nat : On(day) # None /\ AtSecond(day) # None
      /\ RandomDate # None
  BY NoneAssumption DEF Bound, On, AtSecond, RandomDate
<1> DEFINE Accepted(q) == q.twice = FALSE /\ q.prefix = "supported"
<1>2. /\ Accepted(OaiDc) /\ OaiDc.set = None /\ OaiDc.from = None /\ OaiDc.until = None
      /\ LET q == [OaiDc EXCEPT !.set = "ivo_managed"]
         IN  Accepted(q) /\ q.set = "ivo_managed" /\ q.from = None /\ q.until = None
      /\ \A from, until :
            LET q == Between(from, until)
            IN  Accepted(q) /\ q.set = None /\ q.from = from /\ q.until = until
      /\ Accepted(Wrong) /\ Wrong.set = "other"
  BY DEF OaiDc, NoArgs, Between, Wrong
<1>3. \A day \in Nat : /\ On(day).kind = "day" /\ On(day).at = day
                       /\ AtSecond(day).kind = "seconds" /\ AtSecond(day).at = day
  BY DEF On, AtSecond
<1>4. RandomDate.kind = "junk"
  BY DEF RandomDate
<1>5. D1969 = 0 /\ D1999 = 4 /\ D2000 = 6 /\ D2001 = 8 /\ D2002 = 10
  BY DEF D1969, D1999, D2000, D2001, D2002
<1>6. Epoch \in Nat /\ 0 < Epoch /\ Epoch =< 4
  BY ServerAssumption, ProbesAssumption, <1>5
<1>7. /\ validate_list_args(OaiDc) = "ok"
      /\ validate_list_args([OaiDc EXCEPT !.set = "ivo_managed"]) = "ok"
      /\ validate_list_args(Wrong) = "noSetHierarchy"
      /\ validate_list_args(NoArgs) = "badArgument"
  BY <1>1, <1>2 DEF validate_list_args, validate_from_until, Raises, Unparsed, NoArgs
<1>8. /\ validate_list_args([NoArgs EXCEPT !.prefix = "unsupported"]) = "cannotDisseminateFormat"
      /\ validate_list_args([OaiDc EXCEPT !.twice = TRUE]) = "badArgument"
  BY <1>1 DEF validate_list_args, NoArgs, OaiDc
<1>9. ASSUME NEW from, NEW until
      PROVE  validate_list_args(Between(from, until)) =
                LET dates == validate_from_until(from, until) IN
                IF dates # "ok" THEN dates
                ELSE IF until # None /\ until.at < Epoch THEN "noRecordsMatch"
                ELSE "ok"
  BY <1>1, <1>2 DEF validate_list_args
<1>10. /\ validate_from_until(On(D2000), On(D2000)) = "ok"
       /\ validate_from_until(On(D2001), AtSecond(D2002)) = "badArgument"
       /\ validate_from_until(On(D2000), On(D1999)) = "badArgument"
       /\ validate_from_until(On(D2001), None) = "ok"
       /\ validate_from_until(AtSecond(D2001), None) = "badArgument"
       /\ validate_from_until(RandomDate, None) = "badArgument"
       /\ validate_from_until(None, AtSecond(D1969)) = "ok"
  BY <1>1, <1>3, <1>4, <1>5 DEF validate_from_until, Raises, Unparsed
<1>11. /\ On(D2000) # None /\ ~(On(D2000).at < Epoch)
       /\ AtSecond(D1969) # None /\ AtSecond(D1969).at < Epoch
  BY <1>1, <1>3, <1>5, <1>6
<1> QED BY <1>7, <1>8, <1>9, <1>10, <1>11

(* No record has the identifier that the probes make up.                   *)
LEMMA WrongIdUnknown ==
    ASSUME Parses(catalog)
    PROVE  WrongId # None /\ Lookup(catalog, WrongId) = "idDoesNotExist"
<1>1. Len(OwnStamps) \in Nat /\ NStandards \in Nat
  BY ServerAssumption, LenProperties
<1>2. 0 \notin Own /\ 0 \notin Standards
  BY <1>1 DEF Own, Standards
<1>3. 0 # None
  BY NoneAssumption
<1> QED BY <1>2, <1>3 DEF WrongId, Lookup, Served, all_records

(* What the server makes of a request of a probe.                          *)
LEMMA Dispatched ==
    ASSUME Parses(catalog)
    PROVE  /\ dispatch(catalog, Ask("Identify", NoArgs)) = "ok"
           /\ dispatch(catalog, [Ask("Identify", NoArgs) EXCEPT !.extra = TRUE]) = "badArgument"
           /\ dispatch(catalog, Ask("ListMetadataFormats", NoArgs)) = "ok"
           /\ dispatch(catalog, Ask("ListSets", NoArgs)) = "ok"
           /\ \A verb \in {"ListIdentifiers", "ListRecords"} :
                 /\ \A args : dispatch(catalog, Ask(verb, args)) = ListReply(catalog, args).code
                 /\ dispatch(catalog, JunkToken(verb).request) = "badResumptionToken"
           /\ dispatch(catalog, [Ask("ListMetadataFormats", NoArgs) EXCEPT !.id = WrongId])
                 = "idDoesNotExist"
           /\ dispatch(catalog, Ask("GetRecord", OaiDc)) = "badArgument"
           /\ dispatch(catalog, [Ask("GetRecord", OaiDc) EXCEPT !.id = WrongId])
                 = "idDoesNotExist"
           /\ dispatch(catalog, Ask("IllegalVerb", NoArgs)) = "badVerb"
<1>1. None # "supported" /\ OaiDc.twice = FALSE /\ OaiDc.prefix = "supported"
      /\ NoArgs.twice = FALSE
  BY NoneAssumption DEF OaiDc, NoArgs
<1>2. /\ dispatch(catalog, Ask("Identify", NoArgs)) = "ok"
      /\ dispatch(catalog, [Ask("Identify", NoArgs) EXCEPT !.extra = TRUE]) = "badArgument"
      /\ dispatch(catalog, Ask("ListMetadataFormats", NoArgs)) = "ok"
      /\ dispatch(catalog, Ask("ListSets", NoArgs)) = "ok"
      /\ dispatch(catalog, Ask("IllegalVerb", NoArgs)) = "badVerb"
  BY DEF dispatch, Ask
<1>3. ASSUME NEW verb \in {"ListIdentifiers", "ListRecords"}, NEW args
      PROVE  dispatch(catalog, Ask(verb, args)) = ListReply(catalog, args).code
  BY DEF dispatch, Ask
<1>4. ASSUME NEW verb \in {"ListIdentifiers", "ListRecords"}
      PROVE  dispatch(catalog, JunkToken(verb).request) = "badResumptionToken"
  BY <1>1 DEF dispatch, Ask, JunkToken, Case
<1>5. dispatch(catalog, [Ask("ListMetadataFormats", NoArgs) EXCEPT !.id = WrongId])
         = "idDoesNotExist"
  BY WrongIdUnknown DEF dispatch, Ask
<1>6. dispatch(catalog, Ask("GetRecord", OaiDc)) = "badArgument"
  BY DEF dispatch, Ask, GetRecordReply
<1>7. dispatch(catalog, [Ask("GetRecord", OaiDc) EXCEPT !.id = WrongId]) = "idDoesNotExist"
  BY <1>1, WrongIdUnknown DEF dispatch, Ask, GetRecordReply
<1> QED BY <1>2, <1>3, <1>4, <1>5, <1>6, <1>7

(* A list request that is refused gets the reason as its code.             *)
LEMMA ListCodes ==
    ASSUME Listable(catalog), NEW q
    PROVE  /\ validate_list_args(q) # "ok" => ListReply(catalog, q).code = validate_list_args(q)
           /\ validate_list_args(q) = "ok" =>
                 ListReply(catalog, q).code \in {"ok", "noRecordsMatch"}
<1>1. validate_list_args(q) # "ok" => ListReply(catalog, q).code = validate_list_args(q)
  BY DEF ListReply, Error
<1>2. CASE validate_list_args(q) = "ok"
  <2>1. /\ ListFrom(catalog, q, 0).code = "raise" <=> ~Listable(catalog)
        /\ ListFrom(catalog, q, 0).code \in {"ok", "raise", "noRecordsMatch"}
    BY ListFromFacts
  <2>2. ListReply(catalog, q) = ListFrom(catalog, q, 0)
    BY <1>2 DEF ListReply
  <2> QED BY <1>2, <2>1, <2>2
<1> QED BY <1>1, <1>2

(* The own server passes every probe, whatever its catalog holds that can  *)
(* be listed: by what it answers.                                          *)
LEMMA OwnPassesProbes ==
    ASSUME CatalogType(catalog), Listable(catalog), NEW n \in DOMAIN Cases
    PROVE  Passes(Cases[n], OwnAnswer(Cases[n].request))
<1> DEFINE code(k) == dispatch(catalog, Cases[k].request)
           IsFine(k) == code(k) = "ok" /\ Cases[k].expect = {}
           IsExpected(k) == code(k) \in Codes /\ code(k) \in Cases[k].expect
           IsOptional(k) == /\ code(k) \in Codes
                            /\ Cases[k].expect = {} /\ code(k) \in Cases[k].optional
           Lists == {"ListIdentifiers", "ListRecords"}
<1>0. Parses(catalog)
  BY DEF Listable
<1>1. /\ ListReply(catalog, OaiDc).code = "ok"
      /\ ListReply(catalog, [OaiDc EXCEPT !.set = "ivo_managed"]).code = "ok"
      /\ ListReply(catalog, Between(On(D2001), None)).code = "ok"
  <2>1. OaiDc.set = None /\ OaiDc.until = None /\ OaiDc.from = None
    BY DEF OaiDc, NoArgs
  <2>2. LET q == [OaiDc EXCEPT !.set = "ivo_managed"]
        IN  q.set = "ivo_managed" /\ q.until = None /\ q.from = None
    BY DEF OaiDc, NoArgs
  <2>3. LET q == Between(On(D2001), None)
        IN  q.set = None /\ q.until = None /\ q.from = On(D2001)
    BY DEF Between, OaiDc, NoArgs
  <2>4. ListReply(catalog, OaiDc).code = "ok"
    BY <2>1, ArgumentsJudged, ListIsAnswered
  <2>5. ListReply(catalog, [OaiDc EXCEPT !.set = "ivo_managed"]).code = "ok"
    <3> DEFINE q == [OaiDc EXCEPT !.set = "ivo_managed"]
    <3>1. /\ q.set \in {None, "ivo_managed"} /\ q.until = None
          /\ q.from \in {None, On(D2001)} /\ validate_list_args(q) = "ok"
      BY <2>2, ArgumentsJudged
    <3> HIDE DEF q
    <3>2. ListReply(catalog, q).code = "ok"
      BY <3>1, ListIsAnswered
    <3> QED BY <3>2 DEF q
  <2>6. ListReply(catalog, Between(On(D2001), None)).code = "ok"
    BY <2>3, ArgumentsJudged, ListIsAnswered
  <2> QED BY <2>4, <2>5, <2>6
<1>2. \A k \in {1, 3, 4} : IsFine(k)
  BY <1>0, Dispatched DEF Cases, Case
<1>3. \A k \in {5, 6, 15, 26} : IsFine(k)
  BY <1>0, Dispatched, <1>1 DEF Cases, Case
<1>4. \A k \in {2, 18, 19, 20, 28} : IsExpected(k)
  <2>1. /\ Cases[2].request = [Ask("Identify", NoArgs) EXCEPT !.extra = TRUE]
        /\ Cases[2].expect = {"badArgument"}
    BY DEF Cases, Case
  <2>2. /\ Cases[18].request = [Ask("ListMetadataFormats", NoArgs) EXCEPT !.id = WrongId]
        /\ Cases[20].request = [Ask("GetRecord", OaiDc) EXCEPT !.id = WrongId]
        /\ Cases[18].expect = NoId /\ Cases[20].expect = NoId
    BY DEF Cases, Case
  <2>3. /\ Cases[19].request = Ask("GetRecord", OaiDc) /\ Cases[19].expect = {"badArgument"}
        /\ Cases[28].request = Ask("IllegalVerb", NoArgs) /\ Cases[28].expect = {"badVerb"}
    BY DEF Cases, Case
  <2> QED BY <1>0, Dispatched, <2>1, <2>2, <2>3 DEF Codes, NoId
<1>5. \A k \in {14, 27} : IsExpected(k)
  <2>1. \A verb : JunkToken(verb).expect = {"badResumptionToken"}
    BY DEF JunkToken, Case
  <2>2. Cases[14] = JunkToken("ListIdentifiers") /\ Cases[27] = JunkToken("ListRecords")
    BY DEF Cases
  <2> QED BY <1>0, Dispatched, <2>1, <2>2 DEF Codes
<1>6. \A k \in {8, 9, 10, 11, 12, 13, 17} : IsExpected(k)
  BY <1>0, Dispatched, ListCodes, ArgumentsJudged DEF Cases, Case, Codes, NoMatch
<1>7. \A k \in {22, 23, 24, 25} : IsExpected(k)
  BY <1>0, Dispatched, ListCodes, ArgumentsJudged DEF Cases, Case, Codes, NoMatch
<1>8. IsOptional(16)
  BY <1>0, Dispatched, ListCodes, ArgumentsJudged DEF Cases, Optional, Case, Codes
<1>9. \A k \in {7, 21} : IsFine(k) \/ IsOptional(k)
  <2>1. \A k \in {7, 21} : Cases[k].expect = {} /\ Cases[k].optional = NoMatch
    BY DEF Cases, Optional, Case
  <2>2. \A k \in {7, 21} : code(k) = ListReply(catalog, Between(On(D2000), On(D2000))).code
    BY <1>0, Dispatched DEF Cases, Optional, Case
  <2>3. ListReply(catalog, Between(On(D2000), On(D2000))).code \in {"ok", "noRecordsMatch"}
    BY ListCodes, ArgumentsJudged
  <2> HIDE DEF code
  <2> QED BY <2>1, <2>2, <2>3 DEF Codes, NoMatch
<1>10. IsFine(n) \/ IsExpected(n) \/ IsOptional(n)
  <2>1. n \in 1..28
    BY Lengths
  <2> HIDE DEF IsFine, IsExpected, IsOptional
  <2> QED BY <2>1, <1>2, <1>3, <1>4, <1>5, <1>6, <1>7, <1>8, <1>9
<1> QED BY <1>10, CodePasses

(* While the catalog is not flawed it can be listed, and all that it may   *)
(* show satisfies the schemas if they are asked for.                       *)
LEMMA SoundCatalog ==
    ASSUME Parses(catalog), ~Flawed
    PROVE  /\ Listable(catalog)
           /\ profile.builtin_schemas =>
                 /\ IdentifyValid /\ EarliestValid
                 /\ \A i \in Present(catalog) : RecordValid(i)
<1>1. Datable(catalog)
  BY DEF Flawed, Datable
<1>2. ASSUME profile.builtin_schemas
      PROVE  /\ IdentifyValid
             /\ \A i \in Present(catalog) : RecordValid(i)
  <2>1. IdentifyValid /\ Own \subseteq OwnValid
    BY <1>2 DEF Flawed
  <2>2. ASSUME NEW i \in Present(catalog) PROVE RecordValid(i)
    <3>1. CASE i \in Standards
      BY <1>2, <3>1 DEF Flawed, Present
    <3>2. CASE i \notin Standards
      BY <2>1, <3>2 DEF RecordValid, Present, Ids
    <3> QED BY <3>1, <3>2
  <2> QED BY <2>1, <2>2
<1>3. ASSUME profile.builtin_schemas PROVE EarliestValid
  <2> SUFFICES ASSUME NEW i \in all_records(catalog),
                      RecordOf(catalog, i).content = "misdated"
               PROVE  FALSE
    BY DEF EarliestValid
  <2>1. i \in Standards /\ catalog[i] # None /\ catalog[i].content = "misdated"
    <3>1. CASE i \in Standards
      BY <3>1, ServerAssumption DEF RecordOf, all_records, Loaded, Own, Standards
    <3>2. CASE i \notin Standards
      <4>1. RecordOf(catalog, i).content = "sound"
        BY <3>2 DEF RecordOf
      <4> QED BY <4>1
    <3> QED BY <3>1, <3>2
  <2>2. RecordValid(i)
    BY <1>3, <2>1 DEF Flawed
  <2> QED BY <2>1, <2>2 DEF RecordValid
<1> QED BY <1>1, <1>2, <1>3 DEF Listable

(* And the own server passes every query of phase 2 then.                  *)
LEMMA OwnPassesChecks ==
    ASSUME CatalogType(catalog), Parses(catalog), ~Flawed, NEW n \in DOMAIN IVOA_CHECKS
    PROVE  Verdict(OwnAnswer(IVOA_CHECKS[n]), profile.builtin_schemas)
<1> DEFINE q == [OaiDc EXCEPT !.set = "ivo_managed"]
           request == IVOA_CHECKS[n]
<1>0. Listable(catalog)
  BY SoundCatalog
<1>1. /\ q.set \in {None, "ivo_managed"} /\ q.until = None
      /\ q.from \in {None, On(D2001)} /\ validate_list_args(q) = "ok"
  BY ArgumentsJudged DEF OaiDc, NoArgs
<1>2. ListReply(catalog, q).code = "ok"
  <2> HIDE DEF q
  <2> QED BY <1>0, <1>1, ListIsAnswered
<1>3. dispatch(catalog, request) = "ok"
  <2>1. \A k \in 1..4 : dispatch(catalog, IVOA_CHECKS[k]) = "ok"
    BY <1>2, Dispatched DEF IVOA_CHECKS
  <2> QED BY <2>1, Lengths
<1>4. /\ request.verb \in {"Identify", "ListMetadataFormats", "ListSets", "ListRecords"}
      /\ request.verb = "ListRecords" => request.args = q
  <2>1. n \in 1..4
    BY Lengths
  <2> QED BY <2>1 DEF IVOA_CHECKS, Ask
<1> HIDE DEF q, request
<1>5. ASSUME NEW k \in DOMAIN ListReply(catalog, q).page, profile.builtin_schemas
      PROVE  RecordValid(ListReply(catalog, q).page[k])
  <2> DEFINE reply == ListFrom(catalog, q, 0)
             S == filter_records(catalog, q)
  <2>1. ListReply(catalog, q) = reply
    BY <1>1 DEF ListReply
  <2>2. reply.page \in Seq(S)
    BY <1>2, <2>1, ListFromFacts
  <2>3. reply.page[k] \in S
    <3>1. k \in DOMAIN reply.page
      BY <1>5, <2>1
    <3> HIDE DEF reply, S
    <3> QED BY <2>2, <3>1
  <2>4. S \subseteq Present(catalog)
    BY FilterFacts
  <2> HIDE DEF reply, S
  <2> QED BY <1>5, <2>1, <2>3, <2>4, SoundCatalog
<1>6. profile.builtin_schemas => OwnAnswerValid(request)
  BY <1>4, <1>5, SoundCatalog DEF OwnAnswerValid
<1> QED BY <1>3, <1>6 DEF OwnAnswer, Verdict, Codes, request

-----------------------------------------------------------------------------
(* Each step keeps the invariant.                                          *)

LEMMA InitPInv == Init => PInv
<1> SUFFICES ASSUME Init PROVE PInv
  OBVIOUS
<1>1. /\ catalog \in [Standards -> {rec \in Record : rec.whole} \cup {None}]
      /\ probe = NoReport
      /\ profile \in [next : {1}, builtin_schemas : BOOLEAN, queries : {<<>>}]
  BY DEF Init
<1>2. <<>> \in Queries /\ Len(<<>>) = 0 /\ 0 \in CaseNumbers /\ 1 \in CheckNumbers
  BY Lengths DEF Queries, CaseNumbers, CheckNumbers
<1>3. CatalogType(catalog) /\ Parses(catalog)
  <2>1. \A i \in Standards : catalog[i] \in {rec \in Record : rec.whole} \cup {None}
    BY <1>1
  <2> QED BY <1>1, <2>1 DEF CatalogType, Parses
<1>4. ProfileTypeOK
  <2>1. probe \in [next : CaseNumbers, own : BOOLEAN,
                   fixed : Answers \cup Breakdowns \cup {None}, queries : Queries]
    BY <1>1, <1>2 DEF NoReport
  <2>2. profile \in [next : CheckNumbers, builtin_schemas : BOOLEAN, queries : Queries]
    BY <1>1, <1>2
  <2> QED BY <1>3, <2>1, <2>2 DEF ProfileTypeOK
<1>5. probe.next = 0 /\ probe.own = FALSE /\ profile.next = 1 /\ profile.queries = <<>>
  BY <1>1 DEF NoReport
<1>6. QueriesInStep
  BY <1>1, <1>2, <1>5 DEF QueriesInStep
<1>7. ConstantJudged
  BY <1>5 DEF ConstantJudged
<1>8. LastJudged
  BY <1>5, Lengths DEF LastJudged, Done
<1> QED BY <1>3, <1>4, <1>6, <1>7, <1>8 DEF PInv

LEMMA BeginPInv ==
    ASSUME PInv, NEW fixed \in Answers \cup {None}, Begin(fixed), UNCHANGED profile
    PROVE  PInv'
<1>0. ProfileTypeOK /\ QueriesInStep
  BY DEF PInv
<1>1. /\ probe.next = 0 /\ UNCHANGED <<catalog, profile>>
      /\ probe' = [probe EXCEPT !.next = 1, !.own = (fixed = None), !.fixed = fixed]
  BY DEF Begin
<1>2. probe.queries = <<>> /\ profile.next = 1 /\ Len(profile.queries) = 0
  BY <1>0, <1>1, Lengths DEF ProfileTypeOK, QueriesInStep, NoReport, CheckNumbers
<1>3. /\ probe'.next = 1 /\ probe'.own = (fixed = None) /\ probe'.fixed = fixed
      /\ probe'.queries = <<>>
  BY <1>0, <1>1, <1>2 DEF ProfileTypeOK
<1>4. ProfileTypeOK'
  <2>1. 1 \in CaseNumbers
    BY Lengths DEF CaseNumbers
  <2> QED BY <1>0, <1>1, <2>1 DEF ProfileTypeOK, CatalogType, Parses
<1>5. QueriesInStep'
  BY <1>1, <1>2, <1>3 DEF QueriesInStep
<1>6. ConstantJudged'
  <2>1. DOMAIN probe'.queries = {}
    BY <1>3
  <2> QED BY <1>3, <2>1 DEF ConstantJudged
<1>7. LastJudged'
  BY <1>1, <1>2, Lengths DEF LastJudged, Done
<1> QED BY <1>4, <1>5, <1>6, <1>7 DEF PInv

(* One more query in a report.                                             *)
LEMMA OneMoreQuery ==
    ASSUME NEW queries \in Queries, NEW test \in Tests, NEW n \in Nat \ {0},
           Len(queries) = n - 1
    PROVE  LET longer == Append(queries, test)
           IN  /\ longer \in Queries /\ Len(longer) = n /\ longer[n] = test
               /\ DOMAIN longer = DOMAIN queries \cup {n}
               /\ \A k \in DOMAIN queries : longer[k] = queries[k]
<1>1. queries \in Seq(Tests) /\ n = Len(queries) + 1
  BY DEF Queries
<1> DEFINE longer == Append(queries, test)
<1>2. /\ longer \in Seq(Tests) /\ Len(longer) = n /\ longer[n] = test
      /\ \A k \in 1..Len(queries) : longer[k] = queries[k]
  BY <1>1, AppendProperties
<1>3. DOMAIN longer = 1..n /\ DOMAIN queries = 1..Len(queries)
  BY <1>1, <1>2
<1>4. 1..n = (1..n - 1) \cup {n}
  OBVIOUS
<1> HIDE DEF longer
<1> QED BY <1>2, <1>3, <1>4 DEF Queries, longer

LEMMA ProbePInv ==
    ASSUME PInv, SendProbe, UNCHANGED profile
    PROVE  PInv'
<1>0. ProfileTypeOK /\ QueriesInStep /\ ConstantJudged
  BY DEF PInv
<1> DEFINE asked == Cases[probe.next]
           test == probe_test(Passes(asked, AnswerTo(asked.request)))
<1>1. /\ probe.next \in DOMAIN Cases /\ UNCHANGED <<catalog, profile>>
      /\ probe' = [probe EXCEPT !.next = @ + 1, !.queries = Append(@, test)]
  BY DEF SendProbe
<1>2. probe.next \in Nat \ {0} /\ probe.next =< 28
  BY <1>1, Lengths
<1>3. /\ probe.queries \in Queries /\ Len(probe.queries) = probe.next - 1
      /\ profile.next = 1 /\ Len(profile.queries) = 0
  <2>1. profile.next \in CheckNumbers /\ probe.queries \in Queries
    BY <1>0 DEF ProfileTypeOK
  <2>2. profile.next \in Nat \ {0} /\ ~(profile.next > 1)
    BY <1>0, <1>2, <2>1, Lengths DEF QueriesInStep, CheckNumbers
  <2>3. profile.next = 1
    BY <2>2
  <2> QED BY <1>0, <1>2, <2>1, <2>3 DEF QueriesInStep
<1>4. test \in Tests
  BY DEF probe_test, Tests
<1> HIDE DEF asked, test
<1>5. /\ probe'.next = probe.next + 1 /\ probe'.own = probe.own /\ probe'.fixed = probe.fixed
      /\ probe'.queries = Append(probe.queries, test)
  BY <1>0, <1>1 DEF ProfileTypeOK
<1>6. /\ probe'.queries \in Queries /\ Len(probe'.queries) = probe.next
      /\ probe'.queries[probe.next] = test
      /\ DOMAIN probe'.queries = DOMAIN probe.queries \cup {probe.next}
      /\ \A n \in DOMAIN probe.queries : probe'.queries[n] = probe.queries[n]
  BY <1>2, <1>3, <1>4, <1>5, OneMoreQuery
<1>7. ProfileTypeOK'
  <2>1. probe.next + 1 \in CaseNumbers
    BY <1>2, Lengths DEF CaseNumbers
  <2>2. Append(probe.queries, test) \in Queries
    BY <1>5, <1>6
  <2> QED BY <1>0, <1>1, <2>1, <2>2 DEF ProfileTypeOK, CatalogType, Parses
<1>8. QueriesInStep'
  BY <1>0, <1>1, <1>2, <1>3, <1>5, <1>6 DEF QueriesInStep
<1>9. ConstantJudged'
  <2> SUFFICES ASSUME ~probe.own PROVE ConstantJudged'
    BY <1>5 DEF ConstantJudged
  <2>1. probe.fixed # None /\ \A n \in DOMAIN probe.queries :
           probe.queries[n] = probe_test(Passes(Cases[n], probe.fixed))
    BY <1>0, <1>2 DEF ConstantJudged
  <2>2. test = probe_test(Passes(Cases[probe.next], probe.fixed))
    BY <2>1 DEF test, asked, AnswerTo
  <2> QED BY <1>5, <1>6, <2>1, <2>2 DEF ConstantJudged
<1>10. LastJudged'
  BY <1>1, <1>3, Lengths DEF LastJudged, Done
<1> QED BY <1>7, <1>8, <1>9, <1>10 DEF PInv

(* An edit that is seen whole leaves a catalog that parses.                *)
LEMMA EditParses ==
    ASSUME CatalogType(catalog), Parses(catalog), Maintain
    PROVE  CatalogType(catalog') /\ Parses(catalog')
<1>1. CatalogType(catalog')
  BY CatalogEdits
<1>2. ASSUME NEW i \in Standards, AddFile(i) \/ MarkDeleted(i) \/ Rewrite(i)
      PROVE  Parses(catalog')
  <2>1. \A j \in Standards : j # i => catalog'[j] = catalog[j]
    BY <1>2 DEF AddFile, MarkDeleted, Rewrite, CatalogType
  <2>2. catalog'[i] # None => catalog'[i].whole
    <3>1. CASE AddFile(i)
      BY <3>1 DEF AddFile, CatalogType
    <3>2. CASE MarkDeleted(i) \/ Rewrite(i)
      <4>1. catalog[i] \in Record /\ catalog[i].whole
        BY <3>2 DEF MarkDeleted, Rewrite, CatalogType, Parses
      <4> QED BY <3>2, <4>1 DEF MarkDeleted, Rewrite, CatalogType, Record
    <3> QED BY <1>2, <3>1, <3>2
  <2> QED BY <2>1, <2>2 DEF Parses
<1> QED BY <1>1, <1>2 DEF Maintain

LEMMA EditPInv ==
    ASSUME PInv, Edit, UNCHANGED profile
    PROVE  PInv'
<1>0. ProfileTypeOK /\ QueriesInStep /\ ConstantJudged /\ LastJudged
  BY DEF PInv
<1>1. UNCHANGED <<probe, profile>> /\ Maintain
  BY DEF Edit
<1>2. ProfileTypeOK'
  BY <1>0, <1>1, EditParses DEF ProfileTypeOK
<1>3. QueriesInStep' /\ ConstantJudged' /\ LastJudged'
  BY <1>0, <1>1 DEF QueriesInStep, ConstantJudged, LastJudged, Done
<1> QED BY <1>2, <1>3 DEF PInv

LEMMA BreakDownPInv ==
    ASSUME PInv, ~Done, NEW answer \in Breakdowns, BreakDown(answer), UNCHANGED profile
    PROVE  PInv'
<1>0. ProfileTypeOK /\ QueriesInStep /\ ConstantJudged
  BY DEF PInv
<1>1. /\ UNCHANGED <<catalog, profile>> /\ probe.next # 0 /\ probe.fixed = None
      /\ probe' = [probe EXCEPT !.fixed = answer]
  BY DEF BreakDown
<1>2. /\ probe'.next = probe.next /\ probe'.own = probe.own /\ probe'.fixed = answer
      /\ probe'.queries = probe.queries
  BY <1>0, <1>1 DEF ProfileTypeOK
<1>3. probe.own
  BY <1>0, <1>1 DEF ConstantJudged
<1>4. ProfileTypeOK'
  BY <1>0, <1>1 DEF ProfileTypeOK, CatalogType, Parses
<1>5. QueriesInStep'
  BY <1>0, <1>1, <1>2 DEF QueriesInStep
<1>6. ConstantJudged'
  BY <1>2, <1>3 DEF ConstantJudged
<1>7. LastJudged'
  BY <1>1 DEF LastJudged, Done
<1> QED BY <1>4, <1>5, <1>6, <1>7 DEF PInv

LEMMA QueryPInv ==
    ASSUME PInv, SendQuery
    PROVE  PInv'
<1>0. ProfileTypeOK /\ QueriesInStep /\ ConstantJudged
  BY DEF PInv
<1> DEFINE request == IVOA_CHECKS[profile.next]
           ok == Verdict(AnswerTo(request), profile.builtin_schemas)
           test == ri_test(ok)
<1>1. /\ probe.next = Len(Cases) + 1 /\ profile.next \in DOMAIN IVOA_CHECKS
      /\ UNCHANGED <<catalog, probe>>
      /\ profile' = [profile EXCEPT !.next = @ + 1, !.queries = Append(@, test)]
  BY DEF SendQuery, pvars
<1>2. profile.next \in Nat \ {0} /\ profile.next =< 4
  BY <1>1, Lengths
<1>3. profile.queries \in Queries /\ Len(profile.queries) = profile.next - 1
  BY <1>0 DEF ProfileTypeOK, QueriesInStep
<1>4. test \in Tests
  BY DEF ri_test, Tests
<1> HIDE DEF test, ok, request
<1>5. /\ profile'.next = profile.next + 1 /\ profile'.builtin_schemas = profile.builtin_schemas
      /\ profile'.queries = Append(profile.queries, test)
  BY <1>0, <1>1 DEF ProfileTypeOK
<1>6. /\ profile'.queries \in Queries /\ Len(profile'.queries) = profile.next
      /\ profile'.queries[profile.next] = test
      /\ DOMAIN profile'.queries = DOMAIN profile.queries \cup {profile.next}
      /\ \A n \in DOMAIN profile.queries : profile'.queries[n] = profile.queries[n]
  BY <1>2, <1>3, <1>4, <1>5, OneMoreQuery
<1>7. ProfileTypeOK'
  <2>1. profile.next + 1 \in CheckNumbers
    BY <1>2, Lengths DEF CheckNumbers
  <2>2. Append(profile.queries, test) \in Queries
    BY <1>5, <1>6
  <2> QED BY <1>0, <1>1, <2>1, <2>2 DEF ProfileTypeOK, CatalogType, Parses
<1>8. QueriesInStep'
  BY <1>0, <1>1, <1>2, <1>5, <1>6 DEF QueriesInStep
<1>9. ConstantJudged'
  BY <1>0, <1>1 DEF ConstantJudged
<1>10. LastJudged'
  <2> SUFFICES ASSUME Done', probe.fixed # None
               PROVE  profile'.queries[4] =
                         ri_test(Verdict(probe.fixed, profile'.builtin_schemas))
    BY <1>1, Lengths DEF LastJudged
  <2>1. profile.next = 4
    BY <1>2, <1>5, Lengths DEF Done
  <2>2. test = ri_test(Verdict(probe.fixed, profile.builtin_schemas))
    BY DEF test, ok, AnswerTo
  <2> QED BY <1>5, <1>6, <2>1, <2>2
<1> QED BY <1>7, <1>8, <1>9, <1>10 DEF PInv

(* The invariant holds in every reachable state.                           *)
LEMMA PInvariance == Spec => []PInv
<1>1. ASSUME PInv, [Next]_vars PROVE PInv'
  <2>1. ASSUME NEW fixed \in Answers \cup {None}, Begin(fixed), UNCHANGED profile PROVE PInv'
    BY <1>1, <2>1, BeginPInv
  <2>2. CASE SendProbe /\ UNCHANGED profile
    BY <1>1, <2>2, ProbePInv
  <2>3. CASE Edit /\ UNCHANGED profile
    BY <1>1, <2>3, EditPInv
  <2>4. ASSUME ~Done, NEW answer \in Breakdowns, BreakDown(answer), UNCHANGED profile
        PROVE  PInv'
    BY <1>1, <2>4, BreakDownPInv
  <2>5. CASE SendQuery
    BY <1>1, <2>5, QueryPInv
  <2>6. CASE UNCHANGED vars
    BY <1>1, <2>6 DEF PInv, ProfileTypeOK, QueriesInStep, ConstantJudged,
       LastJudged, Done, vars
  <2> QED BY <1>1, <2>1, <2>2, <2>3, <2>4, <2>5, <2>6 DEF Next, Phase1
<1> QED BY InitPInv, <1>1, PTL DEF Spec

-----------------------------------------------------------------------------
(* The counts, and the theorems.                                           *)

(* A section has no failures just when all its queries pass.               *)
LEMMA CountFacts ==
    ASSUME NEW queries \in Queries
    PROVE  /\ fail_count(queries) \in Nat
           /\ (\A n \in DOMAIN queries : queries[n] = {"pass"}) => fail_count(queries) = 0
           /\ (\E n \in DOMAIN queries : queries[n] = {"fail"}) => fail_count(queries) > 0
<1> DEFINE failing == {n \in DOMAIN queries : query_status(queries[n]) = "fail"}
<1>1. queries \in Seq(Tests)
  BY DEF Queries
<1>2. DOMAIN queries = 1..Len(queries) /\ Len(queries) \in Nat
  BY <1>1
<1>3. IsFiniteSet(failing)
  <2>1. 1 \in Int /\ Len(queries) \in Int
    BY <1>2
  <2>2. IsFiniteSet(DOMAIN queries)
    BY <1>2, <2>1, FS_Interval
  <2> QED BY <2>2, FS_Subset
<1>4. fail_count(queries) = Cardinality(failing)
  BY DEF fail_count
<1>5. (\A n \in DOMAIN queries : queries[n] = {"pass"}) => failing = {}
  BY DEF query_status
<1>6. (\E n \in DOMAIN queries : queries[n] = {"fail"}) => failing # {}
  BY DEF query_status
<1> HIDE DEF failing
<1>7. Cardinality(failing) \in Nat /\ (Cardinality(failing) = 0 <=> failing = {})
  BY <1>3, FS_CardinalityType, FS_EmptySet
<1> QED BY <1>4, <1>5, <1>6, <1>7

(* A query that passes adds no failure.                                    *)
LEMMA PassAddsNoFailure ==
    ASSUME NEW queries \in Queries
    PROVE  fail_count(Append(queries, {"pass"})) = fail_count(queries)
<1> DEFINE longer == Append(queries, {"pass"})
<1>1. /\ longer \in Queries /\ DOMAIN longer = DOMAIN queries \cup {Len(queries) + 1}
      /\ longer[Len(queries) + 1] = {"pass"}
      /\ \A k \in DOMAIN queries : longer[k] = queries[k]
  <2>1. Len(queries) \in Nat /\ {"pass"} \in Tests
    BY DEF Queries, Tests
  <2>2. Len(queries) + 1 \in Nat \ {0} /\ Len(queries) = (Len(queries) + 1) - 1
    BY <2>1
  <2> QED BY <2>1, <2>2, OneMoreQuery
<1>2. query_status({"pass"}) # "fail"
  BY DEF query_status
<1> HIDE DEF longer
<1>3. {k \in DOMAIN longer : query_status(longer[k]) = "fail"}
         = {k \in DOMAIN queries : query_status(queries[k]) = "fail"}
  BY <1>1, <1>2
<1> QED BY <1>3 DEF fail_count, longer

(* Benson's server fails none of Benson's probes and profile checks while  *)
(* its catalog is not flawed, for every number of own records and          *)
(* standards, all their dates and contents and every edit between two      *)
(* requests that is seen whole, as long as one own record is of 2001 or    *)
(* later (phase1_tests_data.py 32-174, phase2.py 129-151, server.py        *)
(* 244-287, 455-483, xsd_validate.py 80-117).                              *)
THEOREM OwnServerConforms == Spec => SelfConformance
<1> DEFINE Conforms == probe.own /\ probe.fixed = None /\ nfail' # nfail => Flawed
<1>1. ASSUME PInv, [Next]_vars PROVE [Conforms]_vars
  <2> SUFFICES ASSUME Next, probe.own, probe.fixed = None, ~Flawed PROVE nfail' = nfail
    BY <1>1
  <2>1. /\ CatalogType(catalog) /\ Parses(catalog) /\ Listable(catalog)
        /\ probe.queries \in Queries /\ profile.queries \in Queries
    BY <1>1, SoundCatalog DEF PInv, ProfileTypeOK
  <2>2. probe \in [next : CaseNumbers, own : BOOLEAN,
                   fixed : Answers \cup Breakdowns \cup {None}, queries : Queries]
        /\ profile \in [next : CheckNumbers, builtin_schemas : BOOLEAN, queries : Queries]
    BY <1>1 DEF PInv, ProfileTypeOK
  <2>3. CASE SendProbe /\ UNCHANGED profile
    <3>1. /\ probe.next \in DOMAIN Cases
          /\ AnswerTo(Cases[probe.next].request) = OwnAnswer(Cases[probe.next].request)
      BY <2>3 DEF SendProbe, AnswerTo
    <3>2. Passes(Cases[probe.next], AnswerTo(Cases[probe.next].request))
      BY <2>1, <3>1, OwnPassesProbes
    <3>3. probe'.queries = Append(probe.queries, {"pass"}) /\ profile' = profile
      BY <2>2, <2>3, <3>2 DEF SendProbe, probe_test
    <3> QED BY <2>1, <3>3, PassAddsNoFailure DEF nfail, fail_count
  <2>4. CASE SendQuery
    <3>1. /\ profile.next \in DOMAIN IVOA_CHECKS
          /\ AnswerTo(IVOA_CHECKS[profile.next]) = OwnAnswer(IVOA_CHECKS[profile.next])
      BY <2>4 DEF SendQuery, AnswerTo
    <3>2. Verdict(AnswerTo(IVOA_CHECKS[profile.next]), profile.builtin_schemas)
      BY <2>1, <3>1, OwnPassesChecks
    <3>3. profile'.queries = Append(profile.queries, {"pass"}) /\ probe' = probe
      BY <2>2, <2>4, <3>2 DEF SendQuery, ri_test, pvars
    <3> QED BY <2>1, <3>3, PassAddsNoFailure DEF nfail, fail_count
  <2>5. ASSUME NEW fixed, Begin(fixed) \/ BreakDown(fixed) \/ Edit, UNCHANGED profile
        PROVE  nfail' = nfail
    <3>1. probe'.queries = probe.queries /\ profile' = profile
      BY <2>2, <2>5 DEF Begin, BreakDown, Edit
    <3> QED BY <3>1 DEF nfail, fail_count
  <2> QED BY <2>3, <2>4, <2>5 DEF Next, Phase1
<1> QED BY <1>1, PInvariance, PTL DEF Spec, SelfConformance

(* No answer whatever is a good one to all the probes: the first wants no  *)
(* error and the last one wants badVerb (phase1.py 109-135).               *)
THEOREM OneAnswerNeverPasses == Spec => []ConstantAnswerFails
<1>1. PInv => ConstantAnswerFails
  <2> SUFFICES ASSUME PInv, Done, ~probe.own PROVE nfail > 0
    BY DEF ConstantAnswerFails
  <2>1. probe.queries \in Queries /\ profile.queries \in Queries
    BY DEF PInv, ProfileTypeOK
  <2>2. probe.next = 29 /\ profile.next = 5
    <3>1. profile.next = 5
      BY Lengths DEF Done
    <3>2. probe.next = Len(Cases) + 1
      BY <3>1 DEF PInv, QueriesInStep
    <3> QED BY <3>1, <3>2, Lengths
  <2>3. Len(probe.queries) = 28
    BY <2>2 DEF PInv, QueriesInStep
  <2>4. 1 \in DOMAIN probe.queries /\ 28 \in DOMAIN probe.queries
    BY <2>1, <2>3 DEF Queries
  <2>5. \A n \in {1, 28} :
           probe.queries[n] = probe_test(Passes(Cases[n], probe.fixed))
    BY <2>2, <2>4 DEF PInv, ConstantJudged
  <2>6. /\ Passes(Cases[1], probe.fixed) => probe.fixed.codes = {}
        /\ Passes(Cases[28], probe.fixed) => probe.fixed.codes # {}
    <3>1. Cases[1].expect = {} /\ Cases[1].optional = {} /\ Cases[28].expect = {"badVerb"}
      BY DEF Cases, Case
    <3> QED BY <3>1 DEF Passes, acceptable
  <2>7. \E n \in DOMAIN probe.queries : probe.queries[n] = {"fail"}
    BY <2>4, <2>5, <2>6 DEF probe_test
  <2>8. fail_count(probe.queries) > 0 /\ fail_count(probe.queries) \in Nat
        /\ fail_count(profile.queries) \in Nat
    BY <2>1, <2>7, CountFacts
  <2> QED BY <2>8 DEF nfail
<1> QED BY <1>1, PInvariance, PTL

(* A breakdown at any moment before the last query shows in the counts,    *)
(* unless the answer since is a good one to that query (phase1.py 109-135, *)
(* phase2.py 114-172).                                                     *)
THEOREM BreakdownAlwaysShows == Spec => []BreakdownShows
<1>1. PInv => BreakdownShows
  <2> SUFFICES ASSUME PInv, Done, probe.fixed # None,
                      ~Verdict(probe.fixed, profile.builtin_schemas)
               PROVE  nfail > 0
    BY DEF BreakdownShows, Verdict
  <2>1. probe.queries \in Queries /\ profile.queries \in Queries
    BY DEF PInv, ProfileTypeOK
  <2>2. profile.queries[4] = {"fail"}
    BY Lengths DEF PInv, LastJudged, ri_test
  <2>3. Len(profile.queries) = 4
    BY Lengths DEF PInv, QueriesInStep, Done
  <2>4. 4 \in DOMAIN profile.queries
    BY <2>1, <2>3 DEF Queries
  <2>5. fail_count(profile.queries) > 0 /\ fail_count(probe.queries) \in Nat
        /\ fail_count(profile.queries) \in Nat
    BY <2>1, <2>2, <2>4, CountFacts
  <2> QED BY <2>5 DEF nfail
<1> QED BY <1>1, PInvariance, PTL
=============================================================================

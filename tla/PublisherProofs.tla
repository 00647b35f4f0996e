--------------------------- MODULE PublisherProofs ---------------------------
(***************************************************************************)
(* Proofs about PublisherFile and PublisherCheck for any number of         *)
(* checkers, identifiers, endpoints, inodes and checks, and whatever the   *)
(* endpoints answer: the file implements the abstract registry, the        *)
(* check-publishers command is a process of the file, and what it stamps   *)
(* as ok has earned it.  Type correctness holds whether or not sections    *)
(* overlap; the other theorems need that they do not.                      *)
(***************************************************************************)
EXTENDS PublisherCheck, TLAPS

(* A process that is registering has the row it registers.                 *)
HasArgument ==
    \A p \in Procs :
        \/ proc[p].at \in {"identifier", "endpoint", "upsert", "respond"}
        \/ proc[p].then # "idle"
        => proc[p].arg \in Row

TypeInv == TypeOK /\ HasArgument

(* The idle process is a process.                                          *)
LEMMA IdleType == Idle \in Proc
BY ConstantsAssumption DEF Idle, Proc

(* Stamping rows yields rows, one for each, with its identifier and        *)
(* endpoint.                                                               *)
LEMMA StampFacts ==
    ASSUME NEW rows \in SUBSET Row, NEW probed, NEW check \in 0..MaxChecks
    PROVE  /\ Stamp(rows, probed, check) \subseteq Row
           /\ \A s \in Stamp(rows, probed, check) :
                 \E r \in rows : r.id = s.id /\ r.endpoint = s.endpoint
           /\ \A r \in rows :
                 \E s \in Stamp(rows, probed, check) : r.id = s.id /\ r.endpoint = s.endpoint
<1> DEFINE New(r) == IF r.id \in probed THEN [r EXCEPT !.check = check] ELSE r
<1>1. \A r \in rows : New(r) \in Row /\ New(r).id = r.id /\ New(r).endpoint = r.endpoint
  BY DEF Row
<1>2. Stamp(rows, probed, check) = {New(r) : r \in rows}
  BY DEF Stamp
<1> HIDE DEF New
<1> QED BY <1>1, <1>2

(* What a process reads is a set of rows.                                  *)
LEMMA ReadType ==
    ASSUME TypeOK
    PROVE  Read \subseteq Row
BY DEF TypeOK, Read, Text

-----------------------------------------------------------------------------
(* Type correctness.                                                       *)

(* A process whose argument is a row wherever it needs one.                *)
GoodProc ==
    {q \in Proc : (\/ q.at \in {"identifier", "endpoint", "upsert", "respond"}
                   \/ q.then # "idle")
                  => q.arg \in Row}

(* The idle process has nothing to register.                               *)
LEMMA IdleGood == Idle \in GoodProc
<1>1. Idle.at = "idle" /\ Idle.then = "idle"
  BY DEF Idle
<1> QED BY <1>1, IdleType DEF GoodProc

(* Every process is good in a well-typed state.                            *)
LEMMA ProcGood ==
    ASSUME TypeInv, NEW p \in Procs
    PROVE  proc[p] \in GoodProc /\ proc[p] \in Proc
BY DEF TypeInv, TypeOK, HasArgument, GoodProc

(* A process that becomes a good one leaves the processes well typed.      *)
LEMMA BecomesType ==
    ASSUME TypeInv, NEW p \in Procs, NEW new \in GoodProc, Becomes(p, new)
    PROVE  proc' \in [Procs -> Proc] /\ HasArgument'
BY DEF TypeInv, TypeOK, HasArgument, GoodProc, Becomes

(* Starting a write makes a good process of one with its argument.         *)
LEMMA StartWriteGood ==
    ASSUME NEW q \in GoodProc, NEW doc \in SUBSET Row,
           NEW then \in {"idle", "identifier", "respond"},
           then # "idle" => q.arg \in Row
    PROVE  [q EXCEPT !.at = "open", !.doc = doc, !.then = then] \in GoodProc
BY DEF GoodProc, Proc

(* The server's own steps keep the types.                                  *)
LEMMA ServeType ==
    ASSUME TypeInv, Serve
    PROVE  TypeInv'
<1>0. /\ Server \in Procs
      /\ proc[Server] \in GoodProc
      /\ Read \subseteq Row
      /\ TypeOK
  BY ProcGood, ReadType DEF Procs, TypeInv
<1>1. CASE Seed
  <2>1. [proc[Server] EXCEPT !.at = "open", !.doc = {}, !.then = "idle"] \in GoodProc
    BY <1>0, StartWriteGood
  <2> QED
    BY <1>0, <1>1, <2>1, BecomesType DEF Seed, StartWrite, NoFileChange, TypeOK, TypeInv
<1>2. CASE FindByIdentifier
  <2>1. proc[Server].arg \in Row /\ [proc[Server] EXCEPT !.at = "endpoint"] \in GoodProc
    BY <1>0, <1>2 DEF FindByIdentifier, GoodProc, Proc
  <2>2. PICK new \in GoodProc : Becomes(Server, new)
    BY <1>2, <2>1, IdleGood DEF FindByIdentifier
  <2> QED
    BY <1>0, <1>2, <2>2, BecomesType DEF FindByIdentifier, NoFileChange, TypeOK, TypeInv
<1>3. CASE FindByEndpoint
  <2>1. proc[Server].arg \in Row /\ [proc[Server] EXCEPT !.at = "upsert"] \in GoodProc
    BY <1>0, <1>3 DEF FindByEndpoint, GoodProc, Proc
  <2>2. PICK new \in GoodProc : Becomes(Server, new)
    BY <1>3, <2>1, IdleGood DEF FindByEndpoint
  <2> QED
    BY <1>0, <1>3, <2>2, BecomesType DEF FindByEndpoint, NoFileChange, TypeOK, TypeInv
<1>4. CASE Upsert
  <2> DEFINE doc == {r \in Read : r.id # proc[Server].arg.id} \cup {proc[Server].arg}
  <2>1. proc[Server].arg \in Row
    BY <1>0, <1>4 DEF Upsert, GoodProc
  <2>2. [proc[Server] EXCEPT !.at = "open", !.doc = doc, !.then = "respond"] \in GoodProc
    BY <2>1, <1>0, StartWriteGood
  <2>3. PICK new \in GoodProc : Becomes(Server, new)
    BY <1>4, <2>2, IdleGood DEF Upsert, StartWrite
  <2> QED
    BY <1>0, <1>4, <2>3, BecomesType DEF Upsert, NoFileChange, TypeOK, TypeInv
<1>5. CASE Respond
  <2>1. proc[Server].arg.id \in Ids
    BY <1>0, <1>5 DEF Respond, GoodProc, Row
  <2> QED
    BY <1>0, <1>5, <2>1, IdleGood, BecomesType DEF Respond, NoFileChange, TypeOK, TypeInv
<1>6. ASSUME NEW id \in Ids, NEW endpoint \in Endpoints, Register(id, endpoint)
      PROVE  TypeInv'
  <2> DEFINE row == [id |-> id, endpoint |-> endpoint, check |-> 0]
  <2>1. row \in Row
    BY ConstantsAssumption DEF Row
  <2> HIDE DEF row
  <2>2. [Idle EXCEPT !.arg = row, !.at = "open", !.then = "identifier"] \in GoodProc
    BY <2>1, IdleType DEF GoodProc, Proc
  <2>3. [Idle EXCEPT !.arg = row, !.at = "identifier"] \in GoodProc
    BY <2>1, IdleType DEF GoodProc, Proc
  <2>4. PICK new \in GoodProc : Becomes(Server, new)
    BY <1>6, <2>2, <2>3 DEF Register, row
  <2> QED
    BY <1>0, <1>6, <2>4, BecomesType DEF Register, NoFileChange, TypeOK, TypeInv
<1> QED BY <1>1, <1>2, <1>3, <1>4, <1>5, <1>6 DEF Serve

(* A checker's own steps keep the types.                                   *)
LEMMA CheckType ==
    ASSUME TypeInv, NEW c \in Checkers, Check(c)
    PROVE  TypeInv'
<1>0. /\ c \in Procs
      /\ proc[c] \in GoodProc /\ proc[c] \in Proc
      /\ Read \subseteq Row
      /\ TypeOK
  BY ProcGood, ReadType DEF Procs, TypeInv
<1>1. CASE Load(c)
  <2>1. checks + 1 \in 0..MaxChecks
    BY <1>0, <1>1, ConstantsAssumption DEF Load, TypeOK
  <2>2. IdsOf(Read) \subseteq Ids
    BY <1>0 DEF IdsOf, Row
  <2>3. [Idle EXCEPT !.at = "probing", !.doc = Read, !.probed = IdsOf(Read),
                     !.check = checks + 1] \in GoodProc
    BY <1>0, <2>1, <2>2, IdleGood DEF GoodProc, Proc, Idle
  <2>4. PICK new \in GoodProc : Becomes(c, new)
    BY <1>1, <2>3, IdleGood DEF Load
  <2> QED
    BY <1>0, <1>1, <2>1, <2>4, BecomesType DEF Load, NoFileChange, TypeOK, TypeInv
<1>2. CASE EndWithoutAnnotating(c)
  BY <1>0, <1>2, IdleGood, BecomesType DEF EndWithoutAnnotating, NoFileChange, TypeOK, TypeInv
<1>3. CASE AnnotateChecks(c)
  <2> DEFINE doc == Stamp(Read, proc[c].probed, proc[c].check)
  <2>1. doc \in SUBSET Row
    BY <1>0, StampFacts DEF Proc
  <2>2. [proc[c] EXCEPT !.at = "open", !.doc = doc, !.then = "idle"] \in GoodProc
    BY <1>0, <2>1, StartWriteGood
  <2>3. PICK new \in GoodProc : Becomes(c, new)
    BY <1>3, <2>2, IdleGood DEF AnnotateChecks, StartWrite
  <2> QED
    BY <1>0, <1>3, <2>3, BecomesType DEF AnnotateChecks, NoFileChange, TypeOK, TypeInv
<1> QED BY <1>1, <1>2, <1>3 DEF Check

(* The steps of a write and a crash keep the types.                        *)
LEMMA WriteType ==
    ASSUME TypeInv, NEW p \in Procs, Write(p)
    PROVE  TypeInv'
<1>0. proc[p] \in GoodProc /\ proc[p] \in Proc /\ TypeOK
  BY ProcGood DEF TypeInv
<1>D. Doc({}) \in Text /\ Doc(proc[p].doc) \in Text /\ Garbled \in Text
  BY <1>0 DEF Doc, Garbled, Text, Proc
<1>1. CASE OpenTmp(p)
  <2>1. PICK f \in Inodes :
           /\ tmp' = f
           /\ content' = [content EXCEPT ![f] = Doc({})]
           /\ Becomes(p, [proc[p] EXCEPT !.at = "write", !.file = f])
    BY <1>0, <1>1 DEF OpenTmp, TypeOK
  <2>2. [proc[p] EXCEPT !.at = "write", !.file = f] \in GoodProc
    BY <1>0 DEF GoodProc, Proc
  <2> QED
    BY <1>0, <1>D, <1>1, <2>1, <2>2, BecomesType DEF OpenTmp, TypeOK, TypeInv
<1>2. CASE WriteTmp(p)
  <2>1. [proc[p] EXCEPT !.at = "replace", !.file = None] \in GoodProc
    BY <1>0 DEF GoodProc, Proc
  <2>2. content' \in [Inodes -> Text]
    BY <1>0, <1>D, <1>2 DEF WriteTmp, TypeOK
  <2> QED
    BY <1>0, <1>2, <2>1, <2>2, BecomesType DEF WriteTmp, TypeOK, TypeInv
<1>3. CASE ReplaceFile(p)
  <2>1. proc[p].then # "idle" => [proc[p] EXCEPT !.at = proc[p].then, !.doc = {}] \in GoodProc
    BY <1>0 DEF GoodProc, Proc
  <2>2. PICK new \in GoodProc : Becomes(p, new)
    BY <1>3, <2>1, IdleGood DEF ReplaceFile
  <2> QED
    BY <1>0, <1>3, <2>2, BecomesType DEF ReplaceFile, TypeOK, TypeInv
<1>4. CASE Crash(p)
  <2>1. content' \in [Inodes -> Text]
    BY <1>0, <1>D, <1>4 DEF Crash, TypeOK
  <2> QED
    BY <1>0, <1>4, <2>1, IdleGood, BecomesType DEF Crash, TypeOK, TypeInv
<1> QED BY <1>1, <1>2, <1>3, <1>4 DEF Write

(* The file, the processes and the acknowledged identifiers are always of  *)
(* the declared kinds, with or without overlapping sections.               *)
THEOREM FileTypeCorrect == Spec => []TypeOK
<1>1. Init => TypeInv
  BY IdleType, ConstantsAssumption
  DEF Init, TypeInv, TypeOK, HasArgument, Idle, Doc, Text
<1>2. TypeInv /\ [Next]_vars => TypeInv'
  <2> SUFFICES ASSUME TypeInv, [Next]_vars PROVE TypeInv'
    OBVIOUS
  <2>1. CASE UNCHANGED vars
    BY <2>1 DEF vars, TypeInv, TypeOK, HasArgument
  <2> QED BY <2>1, ServeType, CheckType, WriteType DEF Next
<1>3. TypeInv => TypeOK
  BY DEF TypeInv
<1> QED BY <1>1, <1>2, <1>3, PTL DEF Spec
-----------------------------------------------------------------------------
(* The inductive invariant for sections that do not overlap.               *)

EndpointsOf(rows) == {r.endpoint : r \in rows}

(* What process p, being in state q and about to replace the file, will    *)
(* make of it: a seed, one more row, or stamped rows.                      *)
Intent(p, q) ==
    /\ p = Server /\ q.then # "respond" => path = None /\ q.doc = {}
    /\ p = Server /\ q.then = "respond" =>
          /\ q.doc = Read \cup {q.arg}
          /\ q.arg.id \notin IdsOf(Read)
          /\ q.arg.endpoint \notin EndpointsOf(Read)
    /\ p # Server =>
          \E probed \in SUBSET Ids, check \in 0..MaxChecks : q.doc = Stamp(Read, probed, check)

Writing(q) == q.at \in {"open", "write", "replace"}

(* What process p, being in state q, may rely on at each of its steps.     *)
Local(p, q) ==
    /\ p # Server => q.at \in {"idle", "probing", "open", "write", "replace"} /\ q.then = "idle"
    /\ q.at = "write" => tmp # None /\ q.file = tmp /\ content[tmp] = Doc({})
    /\ q.at = "replace" => tmp # None /\ content[tmp] = Doc(q.doc)
    /\ Writing(q) => Intent(p, q)
    /\ q.at \in {"endpoint", "upsert"} => q.arg.id \notin IdsOf(Read)
    /\ q.at = "upsert" => q.arg.endpoint \notin EndpointsOf(Read)
    /\ q.at = "respond" => q.arg.id \in IdsOf(Read)

FileInv ==
    /\ path # None => path # tmp
    /\ Readable
    /\ acked \subseteq IdsOf(Read)
    /\ NoDuplicates

OneSection == \A p, q \in Procs : InSection(p) /\ InSection(q) => p = q

IInv ==
    /\ TypeInv
    /\ FileInv
    /\ OneSection
    /\ \A p \in Procs : Local(p, proc[p])

(* An idle process relies on nothing.                                      *)
LEMMA IdleLocal ==
    ASSUME NEW p
    PROVE  Local(p, Idle) /\ ~Writing(Idle)
BY DEF Local, Idle, Writing

(* A process outside every section relies only on the identifiers and      *)
(* endpoints in the file.                                                  *)
LEMMA LocalKept ==
    ASSUME NEW p, NEW q, Local(p, q), ~Writing(q),
           IdsOf(Read)' = IdsOf(Read), EndpointsOf(Read)' = EndpointsOf(Read)
    PROVE  Local(p, q)'
BY DEF Local, Writing

(* When process p is the only one that changed, and it was free to enter a *)
(* section if it did, there is still only one section.                     *)
LEMMA OneSectionKept ==
    ASSUME Overlap = FALSE, OneSection, NEW p \in Procs, NEW new, TypeInv,
           Becomes(p, new), Writing(new) => Free(p) \/ InSection(p)
    PROVE  OneSection'
<1>1. \A q \in Procs : q # p => proc'[q] = proc[q]
  BY DEF Becomes, TypeInv, TypeOK
<1>2. proc'[p] = new
  BY DEF Becomes, TypeInv, TypeOK
<1>3. \A q \in Procs : q # p /\ InSection(q)' => InSection(q)
  BY <1>1 DEF InSection
<1>4. InSection(p)' => Free(p) \/ InSection(p)
  BY <1>2 DEF InSection, Writing
<1>5. InSection(p)' => \A q \in Procs : q # p => ~InSection(q)
  BY <1>4 DEF Free, OneSection
<1> QED BY <1>3, <1>5 DEF OneSection

(* A step that leaves the files alone.                                     *)
LEMMA QuietStep ==
    ASSUME Overlap = FALSE, IInv, TypeInv', NEW p \in Procs, NEW new,
           Becomes(p, new), NoFileChange, Local(p, new),
           Writing(new) => Free(p),
           acked' \subseteq IdsOf(Read)
    PROVE  IInv'
<1>1. /\ Read' = Read
      /\ Readable' = Readable
      /\ \A q, r : Local(q, r) => Local(q, r)'
  BY DEF NoFileChange, Read, Readable, Local, Intent
<1>2. FileInv'
  BY <1>1 DEF IInv, FileInv, NoFileChange, NoDuplicates
<1>3. OneSection'
  BY OneSectionKept DEF IInv
<1>4. \A q \in Procs : Local(q, proc[q])'
  <2>1. \A q \in Procs : proc'[q] = proc[q] \/ (q = p /\ proc'[q] = new)
    BY DEF Becomes, IInv, TypeInv, TypeOK
  <2> QED BY <1>1, <2>1 DEF IInv
<1> QED BY <1>2, <1>3, <1>4 DEF IInv

(* A step of the process in the section that changes at most               *)
(* publishers.json.tmp.                                                    *)
LEMMA TmpStep ==
    ASSUME Overlap = FALSE, IInv, TypeInv', NEW p \in Procs, NEW new,
           InSection(p), Becomes(p, new), Local(p, new)',
           path' = path, acked' = acked,
           path # None => path # tmp' /\ content'[path] = content[path]
    PROVE  IInv' /\ Read' = Read
<1>1. Read' = Read /\ Readable' = Readable
  BY DEF Read, Readable
<1>2. FileInv'
  BY <1>1 DEF IInv, FileInv, NoDuplicates
<1>3. OneSection'
  BY OneSectionKept DEF IInv
<1>4. ASSUME NEW q \in Procs PROVE Local(q, proc[q])'
  <2>1. CASE q = p
    BY <2>1 DEF Becomes, IInv, TypeInv, TypeOK
  <2>2. CASE q # p
    <3>1. proc'[q] = proc[q] /\ ~Writing(proc[q]) /\ Local(q, proc[q])
      BY <2>2 DEF Becomes, IInv, TypeInv, TypeOK, OneSection, InSection, Writing
    <3> QED BY <1>1, <3>1, LocalKept
  <2> QED BY <2>1, <2>2
<1> QED BY <1>1, <1>2, <1>3, <1>4 DEF IInv

-----------------------------------------------------------------------------
(* Every action keeps the invariant.                                       *)

(* The server's own steps change no file.                                  *)
LEMMA ServeInv ==
    ASSUME Overlap = FALSE, IInv, Serve
    PROVE  IInv' /\ Read' = Read
<1>0. /\ Server \in Procs
      /\ proc[Server] \in GoodProc /\ proc[Server] \in Proc
      /\ Local(Server, proc[Server])
      /\ TypeInv /\ TypeInv'
      /\ Readable /\ acked \subseteq IdsOf(Read)
  BY ProcGood, ServeType DEF IInv, FileInv, Procs
<1>1. CASE Seed
  <2> DEFINE new == [proc[Server] EXCEPT !.at = "open", !.doc = {}, !.then = "idle"]
  <2>1. Local(Server, new)
    BY <1>0, <1>1 DEF Seed, Local, Intent, Writing, Proc
  <2> QED
    BY <1>0, <1>1, <2>1, QuietStep DEF Seed, StartWrite, NoFileChange, Read
<1>2. CASE FindByIdentifier
  <2>1. PICK new : Becomes(Server, new) /\ Local(Server, new) /\ ~Writing(new)
    <3>1. CASE \A r \in Read : r.id # proc[Server].arg.id
      <4> DEFINE new == [proc[Server] EXCEPT !.at = "endpoint"]
      <4>1. Local(Server, new) /\ ~Writing(new)
        BY <1>0, <3>1 DEF Local, Writing, IdsOf, Proc
      <4> QED BY <1>0, <1>2, <3>1, <4>1 DEF FindByIdentifier
    <3>2. CASE ~\A r \in Read : r.id # proc[Server].arg.id
      BY <1>2, <3>2, IdleLocal DEF FindByIdentifier
    <3> QED BY <3>1, <3>2
  <2> QED BY <1>0, <1>2, <2>1, QuietStep DEF FindByIdentifier, NoFileChange, Read
<1>3. CASE FindByEndpoint
  <2>1. PICK new : Becomes(Server, new) /\ Local(Server, new) /\ ~Writing(new)
    <3>1. CASE \A r \in Read : r.endpoint # proc[Server].arg.endpoint
      <4> DEFINE new == [proc[Server] EXCEPT !.at = "upsert"]
      <4>1. Local(Server, new) /\ ~Writing(new)
        BY <1>0, <1>3, <3>1 DEF FindByEndpoint, Local, Writing, EndpointsOf, Proc
      <4> QED BY <1>0, <1>3, <3>1, <4>1 DEF FindByEndpoint
    <3>2. CASE ~\A r \in Read : r.endpoint # proc[Server].arg.endpoint
      BY <1>3, <3>2, IdleLocal DEF FindByEndpoint
    <3> QED BY <3>1, <3>2
  <2> QED BY <1>0, <1>3, <2>1, QuietStep DEF FindByEndpoint, NoFileChange, Read
<1>4. CASE Upsert
  <2> DEFINE doc == {r \in Read : r.id # proc[Server].arg.id} \cup {proc[Server].arg}
             new == [proc[Server] EXCEPT !.at = "open", !.doc = doc, !.then = "respond"]
  <2>1. proc[Server].arg.id \notin IdsOf(Read)
        /\ proc[Server].arg.endpoint \notin EndpointsOf(Read)
    BY <1>0, <1>4 DEF Upsert, Local
  <2>2. doc = Read \cup {proc[Server].arg}
    BY <2>1 DEF IdsOf
  <2> HIDE DEF doc
  <2>3. Local(Server, new)
    BY <1>0, <2>1, <2>2 DEF Local, Intent, Writing, Proc
  <2>4. Becomes(Server, new)
    BY <1>0, <1>4 DEF Upsert, StartWrite, doc
  <2> QED BY <1>0, <1>4, <2>3, <2>4, QuietStep DEF Upsert, NoFileChange, Read
<1>5. CASE Respond
  <2>1. acked' \subseteq IdsOf(Read)
    BY <1>0, <1>5 DEF Respond, Local
  <2> QED BY <1>0, <1>5, <2>1, IdleLocal, QuietStep DEF Respond, NoFileChange, Read
<1>6. ASSUME NEW id \in Ids, NEW endpoint \in Endpoints, Register(id, endpoint)
      PROVE  IInv' /\ Read' = Read
  <2> DEFINE row == [id |-> id, endpoint |-> endpoint, check |-> 0]
             seeding == [Idle EXCEPT !.arg = row, !.at = "open", !.then = "identifier"]
             finding == [Idle EXCEPT !.arg = row, !.at = "identifier"]
  <2>1. path = None => Local(Server, seeding)
    BY <1>0 DEF Local, Intent, Writing, Idle
  <2>2. Local(Server, finding)
    BY DEF Local, Writing, Idle
  <2>3. PICK new : Becomes(Server, new) /\ Local(Server, new)
    BY <1>6, <2>1, <2>2 DEF Register
  <2> QED BY <1>0, <1>6, <2>3, QuietStep DEF Register, NoFileChange, Read
<1> QED BY <1>1, <1>2, <1>3, <1>4, <1>5, <1>6 DEF Serve

(* A checker's own steps change no file.                                   *)
LEMMA CheckInv ==
    ASSUME Overlap = FALSE, IInv, NEW c \in Checkers, Check(c)
    PROVE  IInv' /\ Read' = Read
<1>0. /\ c \in Procs /\ c # Server
      /\ proc[c] \in Proc /\ Local(c, proc[c])
      /\ TypeInv /\ TypeInv'
      /\ Readable /\ acked \subseteq IdsOf(Read)
  BY ProcGood, CheckType, ConstantsAssumption DEF IInv, FileInv, Procs
<1>1. CASE Load(c)
  <2> DEFINE new == [Idle EXCEPT !.at = "probing", !.doc = Read, !.probed = IdsOf(Read),
                                 !.check = checks + 1]
  <2>1. Local(c, new) /\ ~Writing(new)
    BY <1>0 DEF Local, Writing, Idle
  <2>2. Becomes(c, new)
    BY <1>0, <1>1 DEF Load
  <2> QED BY <1>0, <1>1, <2>1, <2>2, QuietStep DEF Load, NoFileChange, Read
<1>2. CASE EndWithoutAnnotating(c)
  BY <1>0, <1>2, IdleLocal, QuietStep DEF EndWithoutAnnotating, NoFileChange, Read
<1>3. CASE AnnotateChecks(c)
  <2> DEFINE doc == Stamp(Read, proc[c].probed, proc[c].check)
             new == [proc[c] EXCEPT !.at = "open", !.doc = doc, !.then = "idle"]
  <2>1. proc[c].probed \in SUBSET Ids /\ proc[c].check \in 0..MaxChecks
    BY <1>0 DEF Proc
  <2>2. \E probed \in SUBSET Ids, check \in 0..MaxChecks : doc = Stamp(Read, probed, check)
    BY <2>1
  <2> HIDE DEF doc
  <2>3. Local(c, new)
    BY <1>0, <2>2 DEF Local, Intent, Writing, Proc
  <2>4. Becomes(c, new)
    BY <1>0, <1>3 DEF AnnotateChecks, StartWrite, doc
  <2> QED BY <1>0, <1>3, <2>3, <2>4, QuietStep DEF AnnotateChecks, NoFileChange, Read
<1> QED BY <1>1, <1>2, <1>3 DEF Check

(* What moving the next version into place makes of the file: the same     *)
(* rows, one more row, or stamped rows.                                    *)
Replaced(p) ==
    \/ proc[p].arg \in Row /\ Registry!Register(proc[p].arg)
    \/ \E probed \in SUBSET Ids, check \in 0..MaxChecks : Registry!Annotate(probed, check)
    \/ UNCHANGED <<Read, acked>>

(* Moving the next version into place does what its process intended.      *)
LEMMA ReplaceIsPromised ==
    ASSUME Overlap = FALSE, IInv, NEW p \in Procs, ReplaceFile(p)
    PROVE  /\ Replaced(p)
           /\ Readable' /\ path' # None /\ tmp' = None
           /\ Read' = proc[p].doc
<1>0. /\ Local(p, proc[p]) /\ proc[p] \in GoodProc /\ proc[p].at = "replace"
      /\ Intent(p, proc[p])
  BY ProcGood DEF IInv, Local, ReplaceFile, Writing
<1>1. /\ path' = tmp /\ tmp # None /\ tmp' = None
      /\ content'[tmp] = Doc(proc[p].doc) /\ acked' = acked
  BY <1>0 DEF Local, ReplaceFile
<1>2. Read' = proc[p].doc /\ Readable'
  BY <1>1 DEF Read, Readable, Doc
<1>3. CASE p = Server /\ proc[p].then # "respond"
  BY <1>0, <1>1, <1>2, <1>3 DEF Intent, Read, Replaced
<1>4. CASE p = Server /\ proc[p].then = "respond"
  <2>1. proc[p].arg \in Row
    BY <1>0, <1>4 DEF GoodProc
  <2>2. Read' = Read \cup {proc[p].arg}
        /\ \A r \in Read : r.id # proc[p].arg.id /\ r.endpoint # proc[p].arg.endpoint
    BY <1>0, <1>2, <1>4 DEF Intent, IdsOf, EndpointsOf
  <2>3. Registry!Register(proc[p].arg)
    BY <1>1, <2>2 DEF Registry!Register
  <2> QED BY <1>1, <1>2, <2>1, <2>3 DEF Replaced
<1>5. CASE p # Server
  <2>1. PICK probed \in SUBSET Ids, check \in 0..MaxChecks : Read' = Stamp(Read, probed, check)
    BY <1>0, <1>2, <1>5 DEF Intent
  <2>2. Registry!Annotate(probed, check)
    BY <1>1, <2>1 DEF Stamp, Registry!Annotate
  <2> QED BY <1>1, <1>2, <2>2 DEF Replaced
<1> QED BY <1>1, <1>2, <1>3, <1>4, <1>5

(* A checker that moves the next version into place has only stamped rows. *)
LEMMA CheckerReplaces ==
    ASSUME Overlap = FALSE, IInv, NEW c \in Checkers, ReplaceFile(c)
    PROVE  /\ IdsOf(Read)' = IdsOf(Read) /\ EndpointsOf(Read)' = EndpointsOf(Read)
           /\ NoDuplicates'
           /\ {<<r.id, r.endpoint>> : r \in Read'} = {<<r.id, r.endpoint>> : r \in Read}
<1>0. /\ c \in Procs /\ c # Server /\ Read \subseteq Row /\ Readable /\ NoDuplicates
      /\ Read' = proc[c].doc
      /\ Intent(c, proc[c])
  BY ReplaceIsPromised, ReadType, ConstantsAssumption
  DEF Procs, IInv, TypeInv, FileInv, Local, ReplaceFile, Writing
<1>1. PICK probed \in SUBSET Ids, check \in 0..MaxChecks : Read' = Stamp(Read, probed, check)
  BY <1>0 DEF Intent
<1> DEFINE New(r) == IF r.id \in probed THEN [r EXCEPT !.check = check] ELSE r
<1>2. \A r \in Read : New(r).id = r.id /\ New(r).endpoint = r.endpoint
  BY <1>0 DEF Row
<1>3. Read' = {New(r) : r \in Read}
  BY <1>1 DEF Stamp
<1> HIDE DEF New
<1>4. IdsOf(Read)' = IdsOf(Read) /\ EndpointsOf(Read)' = EndpointsOf(Read)
  BY <1>2, <1>3 DEF IdsOf, EndpointsOf
<1>5. ASSUME NEW r \in Read', NEW s \in Read', r.id = s.id \/ r.endpoint = s.endpoint
      PROVE  r = s
  <2>1. PICK a \in Read, b \in Read : r = New(a) /\ s = New(b)
    BY <1>3
  <2>2. a = b
    BY <1>0, <1>2, <1>5, <2>1 DEF NoDuplicates
  <2> QED BY <2>1, <2>2
<1>6. NoDuplicates'
  BY <1>5 DEF NoDuplicates
<1>7. {<<r.id, r.endpoint>> : r \in Read'} = {<<r.id, r.endpoint>> : r \in Read}
  BY <1>2, <1>3
<1> QED BY <1>4, <1>6, <1>7

(* Moving the next version into place keeps the invariant.                 *)
LEMMA ReplaceInv ==
    ASSUME Overlap = FALSE, IInv, TypeInv', NEW p \in Procs, ReplaceFile(p)
    PROVE  IInv'
<1>0. /\ Local(p, proc[p]) /\ proc[p] \in GoodProc /\ proc[p] \in Proc
      /\ proc[p].at = "replace" /\ Intent(p, proc[p]) /\ InSection(p)
      /\ TypeInv
  BY ProcGood DEF IInv, Local, ReplaceFile, Writing, InSection
<1>1. Readable' /\ path' # None /\ tmp' = None /\ Read' = proc[p].doc /\ acked' = acked
  BY ReplaceIsPromised DEF ReplaceFile
<1>N. PICK new : new = IF proc[p].then = "idle" THEN Idle
                       ELSE [proc[p] EXCEPT !.at = proc[p].then, !.doc = {}]
  OBVIOUS
<1>2. Becomes(p, new) /\ ~Writing(new)
  BY <1>0, <1>N DEF ReplaceFile, Local, Writing, Idle, Proc
<1>3. /\ IdsOf(Read) \subseteq IdsOf(Read)'
      /\ NoDuplicates'
      /\ Local(p, new)'
  <2>1. CASE p # Server
    <3>1. p \in Checkers /\ proc[p].then = "idle"
      BY <1>0, <2>1 DEF Procs, Local
    <3>2. Local(p, Idle)'
      BY DEF Local, Idle, Writing
    <3> QED BY <1>N, <3>1, <3>2, CheckerReplaces
  <2>2. CASE p = Server /\ proc[p].then # "respond"
    <3>1. Read = {} /\ Read' = {}
      BY <1>0, <1>1, <2>2 DEF Intent, Read
    <3>2. IdsOf(Read) \subseteq IdsOf(Read)' /\ NoDuplicates'
      BY <3>1 DEF IdsOf, NoDuplicates
    <3>3. new.at \in {"idle", "identifier"}
      BY <1>0, <1>N, <2>2 DEF Idle, Proc
    <3>4. Local(p, new)'
      BY <2>2, <3>3 DEF Local, Writing
    <3> QED BY <3>2, <3>4
  <2>3. CASE p = Server /\ proc[p].then = "respond"
    <3>1. /\ Read' = Read \cup {proc[p].arg}
          /\ \A r \in Read : r.id # proc[p].arg.id /\ r.endpoint # proc[p].arg.endpoint
      BY <1>0, <1>1, <2>3 DEF Intent, IdsOf, EndpointsOf
    <3>2. IdsOf(Read) \subseteq IdsOf(Read)' /\ proc[p].arg.id \in IdsOf(Read)'
      BY <3>1 DEF IdsOf
    <3>3. NoDuplicates'
      BY <3>1 DEF NoDuplicates, IInv, FileInv
    <3>4. new.at = "respond" /\ new.arg = proc[p].arg
      BY <1>0, <1>N, <2>3 DEF Proc
    <3>5. Local(p, new)'
      BY <2>3, <3>2, <3>4 DEF Local, Writing
    <3> QED BY <3>2, <3>3, <3>5
  <2> QED BY <2>1, <2>2, <2>3
<1>4. FileInv'
  BY <1>1, <1>3 DEF IInv, FileInv
<1>5. OneSection'
  BY <1>0, <1>2, OneSectionKept DEF IInv
<1>6. ASSUME NEW q \in Procs PROVE Local(q, proc[q])'
  <2>1. CASE q = p
    BY <1>0, <1>2, <1>3, <2>1 DEF Becomes, TypeInv, TypeOK
  <2>2. CASE q # p
    <3>1. proc'[q] = proc[q] /\ ~Writing(proc[q]) /\ Local(q, proc[q])
      BY <1>0, <1>2, <2>2 DEF Becomes, IInv, TypeInv, TypeOK, OneSection, InSection, Writing
    <3>2. CASE p = Server
      <4>1. Local(q, proc[q])'
        BY <2>2, <3>1, <3>2 DEF Local, Writing
      <4> QED BY <4>1
    <3>3. CASE p # Server
      <4>1. p \in Checkers
        BY <3>3 DEF Procs
      <4> QED BY <3>1, <4>1, CheckerReplaces, LocalKept
    <3> QED BY <3>2, <3>3
  <2> QED BY <2>1, <2>2
<1> QED BY <1>4, <1>5, <1>6 DEF IInv

(* Writing, moving the file into place and crashing keep the invariant;    *)
(* all but the move leave what is read as it is.                           *)
LEMMA WriteInv ==
    ASSUME Overlap = FALSE, IInv, NEW p \in Procs, Write(p)
    PROVE  IInv' /\ (~ReplaceFile(p) => Read' = Read /\ acked' = acked)
<1>0. /\ Local(p, proc[p]) /\ proc[p] \in Proc
      /\ TypeInv /\ TypeInv' /\ TypeOK
      /\ path # None => path # tmp
      /\ acked \subseteq IdsOf(Read)
  BY ProcGood, WriteType DEF IInv, TypeInv, FileInv
<1>1. CASE OpenTmp(p)
  <2>1. PICK f \in Inodes :
           /\ f # path /\ tmp' = f
           /\ content' = [content EXCEPT ![f] = Doc({})]
           /\ Becomes(p, [proc[p] EXCEPT !.at = "write", !.file = f])
    BY <1>0, <1>1, ConstantsAssumption DEF OpenTmp, TypeOK
  <2>N. PICK new : new = [proc[p] EXCEPT !.at = "write", !.file = f]
    OBVIOUS
  <2>2. InSection(p) /\ Intent(p, proc[p]) /\ path' = path /\ acked' = acked
    BY <1>0, <1>1 DEF OpenTmp, InSection, Local, Writing
  <2>3. path # None => content'[path] = content[path]
    BY <1>0, <2>1 DEF TypeOK
  <2>4. Read' = Read
    BY <2>2, <2>3 DEF Read
  <2>5. Intent(p, new)'
    BY <1>0, <2>N, <2>2, <2>4 DEF Intent, Proc
  <2>6. content'[f] = Doc({}) /\ f # None
    BY <1>0, <2>1, ConstantsAssumption DEF TypeOK
  <2>7. Local(p, new)'
    BY <1>0, <1>1, <2>N, <2>1, <2>5, <2>6 DEF Local, OpenTmp, Writing, Proc
  <2>8. ~ReplaceFile(p)
    BY <1>1 DEF OpenTmp, ReplaceFile
  <2> QED BY <1>0, <2>N, <2>1, <2>2, <2>3, <2>7, <2>8, TmpStep
<1>2. CASE WriteTmp(p)
  <2>N. PICK new : new = [proc[p] EXCEPT !.at = "replace", !.file = None]
    OBVIOUS
  <2>1. /\ InSection(p) /\ Intent(p, proc[p]) /\ path' = path /\ tmp' = tmp /\ acked' = acked
        /\ tmp # None /\ proc[p].file = tmp /\ content[tmp] = Doc({})
        /\ Becomes(p, new)
    BY <1>0, <1>2, <2>N DEF WriteTmp, InSection, Local, Writing
  <2>2. content' = [content EXCEPT ![tmp] = Doc(proc[p].doc)]
    BY <1>2, <2>1 DEF WriteTmp
  <2>3. path # None => content'[path] = content[path]
    BY <1>0, <2>2 DEF TypeOK
  <2>4. Read' = Read
    BY <2>1, <2>3 DEF Read
  <2>5. Intent(p, new)'
    BY <1>0, <2>N, <2>1, <2>4 DEF Intent, Proc
  <2>6. content'[tmp] = Doc(proc[p].doc)
    BY <1>0, <2>1, <2>2 DEF TypeOK
  <2>7. Local(p, new)'
    BY <1>0, <1>2, <2>N, <2>1, <2>5, <2>6 DEF Local, WriteTmp, Writing, Proc
  <2>8. ~ReplaceFile(p)
    BY <1>2 DEF WriteTmp, ReplaceFile
  <2> QED BY <1>0, <2>1, <2>3, <2>7, <2>8, TmpStep
<1>3. CASE ReplaceFile(p)
  BY <1>0, <1>3, ReplaceInv
<1>4. CASE Crash(p)
  <2>1. CASE proc[p].at = "write"
    <3>1. /\ InSection(p) /\ path' = path /\ tmp' = tmp /\ acked' = acked
          /\ tmp # None /\ proc[p].file = tmp
          /\ Becomes(p, Idle)
      BY <1>0, <1>4, <2>1 DEF Crash, InSection, Local
    <3>2. path # None => content'[path] = content[path]
      BY <1>0, <1>4, <3>1 DEF Crash, TypeOK
    <3>3. Local(p, Idle)'
      BY DEF Local, Idle, Writing
    <3>4. ~ReplaceFile(p)
      BY <2>1 DEF ReplaceFile
    <3> QED BY <1>0, <3>1, <3>2, <3>3, <3>4, TmpStep
  <2>2. CASE proc[p].at # "write"
    <3>1. NoFileChange /\ Becomes(p, Idle) /\ acked' = acked
      BY <1>4, <2>2 DEF Crash, NoFileChange
    <3>2. Read' = Read
      BY <3>1 DEF NoFileChange, Read
    <3> QED BY <1>0, <3>1, <3>2, IdleLocal, QuietStep
  <2> QED BY <2>1, <2>2
<1> QED BY <1>1, <1>2, <1>3, <1>4 DEF Write

(* The invariant holds at the start and is kept by every step.             *)
LEMMA Inductive ==
    ASSUME Overlap = FALSE
    PROVE  /\ Init => IInv
           /\ IInv /\ [Next]_vars => IInv'
<1>1. ASSUME Init PROVE IInv
  <2>1. TypeInv
    BY <1>1, IdleType, ConstantsAssumption DEF Init, TypeInv, TypeOK, HasArgument, Idle, Doc, Text
  <2>2. \A p \in Procs : proc[p] = Idle
    BY <1>1 DEF Init
  <2>3. OneSection
    BY <2>2 DEF OneSection, InSection, Idle
  <2>4. FileInv
    BY <1>1 DEF Init, FileInv, Readable, Read, NoDuplicates
  <2> QED BY <2>1, <2>2, <2>3, <2>4, IdleLocal DEF IInv
<1>2. ASSUME IInv, [Next]_vars PROVE IInv'
  <2>1. CASE UNCHANGED vars
    BY <1>2, <2>1
    DEF vars, IInv, TypeInv, TypeOK, HasArgument, FileInv, OneSection, InSection, Local, Intent,
        Read, Readable, NoDuplicates
  <2> QED BY <1>2, <2>1, ServeInv, CheckInv, WriteInv DEF Next
<1> QED BY <1>1, <1>2

(* Without overlapping sections, publishers.json is at every moment, also  *)
(* after crashes, a complete document that has every acknowledged          *)
(* registration.                                                           *)
THEOREM RegistrationsSurvive ==
    ASSUME Overlap = FALSE
    PROVE  Spec => []AckedIsStored
<1>1. IInv => AckedIsStored
  BY DEF IInv, FileInv, AckedIsStored
<1> QED BY <1>1, Inductive, PTL DEF Spec

(* Without overlapping sections, no identifier and no endpoint is ever     *)
(* listed twice.                                                           *)
THEOREM NeverListedTwice ==
    ASSUME Overlap = FALSE
    PROVE  Spec => []NoDuplicates
<1>1. IInv => NoDuplicates
  BY DEF IInv, FileInv
<1> QED BY <1>1, Inductive, PTL DEF Spec

(* Without overlapping sections, a liveness check changes nothing but      *)
(* stamps.                                                                 *)
THEOREM ChecksOnlyStamp ==
    ASSUME Overlap = FALSE
    PROVE  Spec => CheckOnlyStamps
<1> DEFINE Pairs == {<<r.id, r.endpoint>> : r \in Read}
           A == \A c \in Checkers : proc'[c] # proc[c] =>
                   {<<r.id, r.endpoint>> : r \in Read} = {<<r.id, r.endpoint>> : r \in Read'}
<1>1. ASSUME IInv, [Next]_vars PROVE [A]_vars
  <2> SUFFICES ASSUME NEW c \in Checkers, proc'[c] # proc[c]
               PROVE  {<<r.id, r.endpoint>> : r \in Read} = {<<r.id, r.endpoint>> : r \in Read'}
    OBVIOUS
  <2>1. CASE Serve \/ UNCHANGED vars
    <3>1. Read' = Read
      BY <1>1, <2>1, ServeInv DEF vars, Read
    <3> QED BY <3>1
  <2>2. ASSUME NEW d \in Checkers, Check(d) PROVE Read' = Read
    BY <1>1, <2>2, CheckInv
  <2>3. ASSUME NEW p \in Procs, Write(p), ~ReplaceFile(p) PROVE Read' = Read
    BY <1>1, <2>3, WriteInv
  <2>4. ASSUME NEW p \in Procs, ReplaceFile(p) PROVE ReplaceFile(c)
    BY <1>1, <2>4 DEF ReplaceFile, Becomes, IInv, TypeInv, TypeOK, Procs
  <2>5. CASE ReplaceFile(c)
    BY <1>1, <2>5, CheckerReplaces
  <2> QED BY <1>1, <2>1, <2>2, <2>3, <2>4, <2>5 DEF Next
<1> QED BY <1>1, Inductive, PTL DEF Spec, CheckOnlyStamps

(* Without overlapping sections, the file keeps the promise of             *)
(* PublisherRegistry: every step of a process is a step of the abstract    *)
(* registry or invisible in it.                                            *)
THEOREM FileImplementsRegistry ==
    ASSUME Overlap = FALSE
    PROVE  Spec => RegistrySpec
<1>1. Init => Registry!Init
  BY DEF Init, Registry!Init, Read
<1>2. ASSUME IInv, [Next]_vars PROVE [Registry!Next]_(Registry!pvars)
  <2> USE DEF Registry!pvars
  <2>1. CASE UNCHANGED vars
    BY <2>1 DEF vars, Read
  <2>2. CASE Serve
    <3>1. Read' = Read
      BY <1>2, <2>2, ServeInv
    <3>2. CASE Respond
      <4>1. proc[Server].arg.id \in IdsOf(Read) /\ proc[Server].arg.id \in Ids
        BY <1>2, <3>2, ProcGood DEF Respond, IInv, Local, Procs, GoodProc, Row
      <4>2. Registry!Acknowledge(proc[Server].arg.id)
        BY <3>1, <3>2, <4>1 DEF Respond, IdsOf, Registry!Acknowledge
      <4> QED BY <4>1, <4>2 DEF Registry!Next
    <3>3. CASE ~Respond
      BY <2>2, <3>1, <3>3
      DEF Serve, Seed, FindByIdentifier, FindByEndpoint, Upsert, Register
    <3> QED BY <3>2, <3>3
  <2>3. ASSUME NEW c \in Checkers, Check(c) PROVE [Registry!Next]_(Registry!pvars)
    <3>1. Read' = Read
      BY <1>2, <2>3, CheckInv
    <3> QED BY <2>3, <3>1 DEF Check, Load, EndWithoutAnnotating, AnnotateChecks
  <2>4. ASSUME NEW p \in Procs, Write(p) PROVE [Registry!Next]_(Registry!pvars)
    <3>1. CASE ReplaceFile(p)
      <4>1. Replaced(p)
        BY <1>2, <3>1, ReplaceIsPromised
      <4> QED BY <4>1 DEF Replaced, Registry!Next, Registry!Row, Row
    <3>2. CASE ~ReplaceFile(p)
      BY <1>2, <2>4, <3>2, WriteInv
    <3> QED BY <3>1, <3>2
  <2> QED BY <1>2, <2>1, <2>2, <2>3, <2>4 DEF Next
<1> QED BY <1>1, <1>2, Inductive, PTL DEF Spec, RegistrySpec, Registry!Spec

-----------------------------------------------------------------------------
(* The check-publishers command.                                           *)

(* Every step of the command is a step of PublisherFile or leaves the file *)
(* and the processes alone.                                                *)
LEMMA CheckedStep ==
    ASSUME [CheckedNext]_cvars
    PROVE  [Next]_vars
<1>1. CASE UNCHANGED cvars
  BY <1>1 DEF cvars, vars
<1>2. CASE Serve \/ Write(Server)
  BY <1>2 DEF Next, Procs
<1>3. ASSUME NEW c \in Checkers, Command(c) PROVE [Next]_vars
  <2>1. CASE LoadRows(c) \/ ProbeRaises(c) \/ DryRun(c) \/ Annotate(c)
    BY <2>1 DEF LoadRows, ProbeRaises, DryRun, Annotate, Check, Next
  <2>2. CASE Finish(c) \/ OpenTmp(c) \/ WriteTmp(c) \/ Crash(c)
    BY <2>2 DEF Finish, Write, Procs, Next
  <2>3. CASE Probe(c)
    BY <2>3 DEF Probe
  <2> QED BY <1>3, <2>1, <2>2, <2>3 DEF Command
<1> QED BY <1>1, <1>2, <1>3 DEF CheckedNext

(* The command implements PublisherFile, so that what is proved of the     *)
(* file holds beside the full command, too.                                *)
THEOREM CheckedIsFile == CheckedSpec => IsPublisherFile
<1>1. CheckedInit => Init
  BY DEF CheckedInit
<1> QED BY <1>1, CheckedStep, PTL DEF CheckedSpec, IsPublisherFile, Spec

-----------------------------------------------------------------------------
(* The listed pairs of identifier and endpoint only grow.                  *)

Lists(rows, id, endpoint) == \E r \in rows : r.id = id /\ r.endpoint = endpoint

(* A publisher that is listed stays listed, with its endpoint.             *)
LEMMA ListedStays ==
    ASSUME Overlap = FALSE, IInv, [Next]_vars, NEW id, NEW endpoint,
           Lists(Read, id, endpoint)
    PROVE  Lists(Read', id, endpoint)
<1>0. Read \subseteq Row
  BY ReadType DEF IInv, TypeInv
<1>1. CASE Read' = Read
  BY <1>1
<1>2. ASSUME NEW p \in Procs, ReplaceFile(p) PROVE Lists(Read', id, endpoint)
  <2>1. Replaced(p)
    BY <1>2, ReplaceIsPromised
  <2>2. CASE Registry!Register(proc[p].arg)
    BY <2>2 DEF Registry!Register, Lists
  <2>3. ASSUME NEW probed \in SUBSET Ids, NEW check \in 0..MaxChecks,
               Registry!Annotate(probed, check)
        PROVE  Lists(Read', id, endpoint)
    <3>1. Read' = Stamp(Read, probed, check)
      BY <2>3 DEF Registry!Annotate, Stamp
    <3> QED BY <1>0, <3>1, StampFacts DEF Lists
  <2> QED BY <1>1, <2>1, <2>2, <2>3 DEF Replaced
<1>3. CASE UNCHANGED vars
  BY <1>3 DEF vars, Read, Lists
<1> QED BY <1>1, <1>2, <1>3, ServeInv, CheckInv, WriteInv DEF Next

-----------------------------------------------------------------------------
(* What a stamp of ok rests on.                                            *)

ServedAs(id, endpoint) ==
    \E answer \in Serves[endpoint] :
        answer.registry /\ ~answer.error /\ live_id(answer) = id

(* The row that a check has found ok is still listed as it was found.      *)
FoundOk ==
    \A k \in 1..MaxChecks, id \in Ids : report[k].status[id] = "ok" =>
        \E endpoint \in Endpoints : Lists(Read, id, endpoint) /\ ServedAs(id, endpoint)

(* What a check asks is what is listed.                                    *)
AsksListed ==
    \A c \in Checkers : proc[c].at = "probing" =>
        \A r \in proc[c].doc : r \in Row /\ Lists(Read, r.id, r.endpoint)

ReportType == report \in [1..MaxChecks -> Report]

CheckInvariant == ReportType /\ FoundOk /\ AsksListed

(* A probe finds ok only what is served.                                   *)
LEMMA OkIsServed ==
    ASSUME NEW pub \in Row, NEW answer \in Serves[pub.endpoint],
           _check_one(pub, answer) = "ok"
    PROVE  ServedAs(pub.id, pub.endpoint)
BY DEF _check_one, ServedAs

(* Any status a probe comes to is one.                                     *)
LEMMA CheckOneType ==
    ASSUME NEW pub, NEW answer
    PROVE  _check_one(pub, answer) \in Status
BY DEF _check_one, Status

(* What a check asks stays what is listed.                                 *)
LEMMA AsksListedKept ==
    ASSUME Overlap = FALSE, IInv, IInv', AsksListed, [Next]_vars
    PROVE  AsksListed'
<1> SUFFICES ASSUME NEW c \in Checkers, proc'[c].at = "probing", NEW r \in proc'[c].doc
             PROVE  r \in Row /\ Lists(Read', r.id, r.endpoint)
  BY DEF AsksListed
<1>0. /\ TypeOK /\ c \in Procs /\ c # Server /\ Server \in Procs
      /\ Read \subseteq Row /\ Local(c, proc[c])
  BY ReadType, ConstantsAssumption DEF IInv, TypeInv, Procs
<1>1. CASE proc'[c] = proc[c]
  BY <1>1, ListedStays DEF AsksListed
<1>2. CASE Load(c)
  <2>1. proc'[c].doc = Read /\ Read' = Read
    BY <1>0, <1>2 DEF Load, Becomes, Idle, NoFileChange, Read, TypeOK
  <2> QED BY <1>0, <2>1 DEF Lists
<1>3. ASSUME NEW p \in Procs, p # c, \E new : Becomes(p, new)
      PROVE  proc'[c] = proc[c]
  BY <1>0, <1>3 DEF Becomes, TypeOK
<1>4. CASE Serve
  <2>1. \E new : Becomes(Server, new)
    BY <1>4 DEF Serve, Seed, FindByIdentifier, FindByEndpoint, Upsert, Respond, Register, StartWrite
  <2> QED BY <1>0, <1>1, <1>3, <2>1
<1>5. ASSUME NEW d \in Checkers, Check(d), d # c PROVE proc'[c] = proc[c]
  <2>1. \E new : Becomes(d, new)
    BY <1>5 DEF Check, Load, EndWithoutAnnotating, AnnotateChecks, StartWrite
  <2> QED BY <1>3, <1>5, <2>1 DEF Procs
<1>6. CASE EndWithoutAnnotating(c) \/ AnnotateChecks(c)
  <2>1. proc[c].at = "probing" /\ proc[c] \in Proc
    BY <1>0, <1>6 DEF EndWithoutAnnotating, AnnotateChecks, TypeOK
  <2>2. CASE \E rows, then : StartWrite(c, rows, then)
    <3>1. proc'[c].at = "open"
      BY <1>0, <2>1, <2>2 DEF StartWrite, Becomes, TypeOK, Proc
    <3> QED BY <3>1
  <2>3. CASE Becomes(c, Idle)
    <3>1. proc'[c].at = "idle"
      BY <1>0, <2>3 DEF Becomes, Idle, TypeOK
    <3> QED BY <3>1
  <2>4. Becomes(c, Idle) \/ \E rows, then : StartWrite(c, rows, then)
    BY <1>6 DEF EndWithoutAnnotating, AnnotateChecks
  <2> QED BY <2>2, <2>3, <2>4
<1>7. ASSUME NEW p \in Procs, Write(p) PROVE proc'[c] = proc[c] \/ proc'[c].at # "probing"
  <2>1. proc[c] \in Proc
    BY <1>0 DEF TypeOK
  <2>2. CASE p # c
    <3>1. \E new : Becomes(p, new)
      BY <1>7 DEF Write, OpenTmp, WriteTmp, ReplaceFile, Crash
    <3> QED BY <1>3, <2>2, <3>1
  <2>3. CASE p = c
    <3>1. CASE OpenTmp(c)
      BY <1>0, <2>1, <3>1 DEF OpenTmp, Becomes, TypeOK, Proc
    <3>2. CASE WriteTmp(c)
      BY <1>0, <2>1, <3>2 DEF WriteTmp, Becomes, TypeOK, Proc
    <3>3. CASE ReplaceFile(c)
      BY <1>0, <2>1, <3>3 DEF ReplaceFile, Becomes, TypeOK, Proc, Local, Idle
    <3>4. CASE Crash(c)
      BY <1>0, <2>1, <3>4 DEF Crash, Becomes, TypeOK, Proc, Idle
    <3> QED BY <1>7, <2>3, <3>1, <3>2, <3>3, <3>4 DEF Write
  <2> QED BY <2>2, <2>3
<1>8. CASE UNCHANGED vars
  BY <1>1, <1>8 DEF vars
<1> QED BY <1>1, <1>2, <1>4, <1>5, <1>6, <1>7, <1>8 DEF Next, Check

(* The report of a check that reads the rows or ends keeps its statuses.   *)
SameStatuses == \A k \in 1..MaxChecks : report'[k].status = report[k].status

(* Check k finds something out about pub, which is listed.                 *)
Finds(k, pub) ==
    /\ Lists(Read, pub.id, pub.endpoint)
    /\ \A j \in 1..MaxChecks, id \in Ids :
          <<j, id>> # <<k, pub.id>> => report'[j].status[id] = report[j].status[id]
    /\ report'[k].status[pub.id] = "ok" => ServedAs(pub.id, pub.endpoint)

(* Ending a check leaves its statuses alone.                               *)
LEMMA EndsWithType ==
    ASSUME ReportType, NEW c, NEW exit \in {"zero", "one", "dry", "traceback"},
           EndsWith(c, exit)
    PROVE  ReportType' /\ SameStatuses
<1> DEFINE k == proc[c].check
           new == [report[k] EXCEPT !.exit = exit]
<1>1. report' = [report EXCEPT ![k] = new]
  BY DEF EndsWith
<1>2. CASE k \in 1..MaxChecks
  <2>1. new \in Report /\ new.status = report[k].status
    BY <1>2 DEF ReportType, Report
  <2> HIDE DEF new
  <2> QED BY <1>1, <1>2, <2>1 DEF ReportType, SameStatuses
<1>3. CASE k \notin 1..MaxChecks
  <2>1. report' = report
    BY <1>1, <1>3 DEF ReportType
  <2> QED BY <2>1 DEF ReportType, SameStatuses
<1> QED BY <1>2, <1>3

(* Every step of the command keeps the statuses or adds that of a row it   *)
(* has asked about.                                                        *)
LEMMA StatusStep ==
    ASSUME ReportType, TypeOK, AsksListed, [CheckedNext]_cvars
    PROVE  /\ ReportType'
           /\ \/ SameStatuses
              \/ \E k \in 1..MaxChecks, pub \in Row : Finds(k, pub)
<1>1. CASE UNCHANGED report
  BY <1>1 DEF ReportType, SameStatuses
<1>2. ASSUME NEW c \in Checkers, LoadRows(c) PROVE ReportType' /\ SameStatuses
  <2>1. IdsOf(Read) \subseteq Ids /\ checks + 1 \in 1..MaxChecks
    BY <1>2, ReadType, ConstantsAssumption DEF IdsOf, Row, LoadRows, Load, TypeOK
  <2>2. PICK new \in Report : /\ report' = [report EXCEPT ![checks + 1] = new]
                              /\ new.status = report[checks + 1].status
    <3> DEFINE old == report[checks + 1]
    <3>1. old \in Report
      BY <2>1 DEF ReportType
    <3>2. CASE Readable
      <4> DEFINE new == [old EXCEPT !.listed = IdsOf(Read)]
      <4>1. new \in Report /\ new.status = old.status
        BY <2>1, <3>1 DEF Report
      <4> QED BY <1>2, <3>2, <4>1 DEF LoadRows
    <3>3. CASE ~Readable
      <4> DEFINE new == [old EXCEPT !.exit = "traceback"]
      <4>1. new \in Report /\ new.status = old.status
        BY <3>1 DEF Report
      <4> QED BY <1>2, <3>3, <4>1 DEF LoadRows
    <3> QED BY <3>2, <3>3
  <2> QED BY <2>1, <2>2 DEF ReportType, SameStatuses
<1>3. ASSUME NEW c \in Checkers, ProbeRaises(c) \/ DryRun(c) \/ Annotate(c) \/ Finish(c)
      PROVE  ReportType' /\ SameStatuses
  <2>1. UNCHANGED report \/ \E exit \in {"zero", "one", "dry", "traceback"} : EndsWith(c, exit)
    BY <1>3 DEF ProbeRaises, DryRun, Annotate, Finish, exit_code
  <2> QED BY <1>1, <2>1, EndsWithType DEF SameStatuses
<1>4. ASSUME NEW c \in Checkers, Probe(c)
      PROVE  /\ ReportType'
             /\ \/ SameStatuses
                \/ \E k \in 1..MaxChecks, pub \in Row : Finds(k, pub)
  <2> DEFINE k == proc[c].check
  <2>0. PICK pub \in proc[c].doc : \E answer \in Serves[pub.endpoint] :
           report' = [report EXCEPT ![k].status[pub.id] = _check_one(pub, answer)]
    BY <1>4 DEF Probe, Pending
  <2>1. PICK answer \in Serves[pub.endpoint] :
           report' = [report EXCEPT ![k].status[pub.id] = _check_one(pub, answer)]
    BY <2>0
  <2>2. /\ pub \in Row /\ Lists(Read, pub.id, pub.endpoint)
        /\ k \in 0..MaxChecks
    BY <1>4 DEF Probe, AsksListed, TypeOK, Procs, Proc
  <2>3. CASE k = 0
    <3>1. report' = report
      BY <2>1, <2>3 DEF ReportType
    <3> QED BY <1>1, <3>1
  <2>4. CASE k # 0
    <3>1. k \in 1..MaxChecks /\ pub.id \in Ids
      BY <2>2, <2>4, ConstantsAssumption DEF Row
    <3>2. /\ report'[k].status = [report[k].status EXCEPT ![pub.id] = _check_one(pub, answer)]
          /\ report[k] \in Report /\ report'[k] \in Report
          /\ report' \in [1..MaxChecks -> Report]
          /\ \A j \in 1..MaxChecks : j # k => report'[j] = report[j]
      <4> DEFINE new == [report[k] EXCEPT !.status[pub.id] = _check_one(pub, answer)]
      <4>1. report[k] \in Report
        BY <3>1 DEF ReportType
      <4>2. /\ new \in Report
            /\ new.status = [report[k].status EXCEPT ![pub.id] = _check_one(pub, answer)]
        BY <3>1, <4>1, CheckOneType DEF Report
      <4>3. report' = [report EXCEPT ![k] = new]
        BY <2>1
      <4> HIDE DEF new
      <4> QED BY <3>1, <4>1, <4>2, <4>3 DEF ReportType
    <3>3. report'[k].status[pub.id] = _check_one(pub, answer)
      BY <3>1, <3>2 DEF Report
    <3>4. report'[k].status[pub.id] = "ok" => ServedAs(pub.id, pub.endpoint)
      BY <2>2, <3>3, OkIsServed
    <3>5. Finds(k, pub)
      BY <2>2, <3>1, <3>2, <3>4 DEF Finds, Report
    <3> QED BY <2>2, <3>1, <3>2, <3>5 DEF ReportType
  <2> QED BY <2>2, <2>3, <2>4
<1> QED BY <1>1, <1>2, <1>3, <1>4 DEF CheckedNext, Command, cvars

(* The invariant holds at the start and is kept by every step.             *)
LEMMA CheckInductive ==
    ASSUME Overlap = FALSE
    PROVE  /\ CheckedInit => IInv /\ CheckInvariant
           /\ IInv /\ CheckInvariant /\ [CheckedNext]_cvars => IInv' /\ CheckInvariant'
<1>1. ASSUME CheckedInit PROVE IInv /\ CheckInvariant
  <2>1. IInv
    BY <1>1, Inductive DEF CheckedInit
  <2>2. Unread \in Report /\ \A id \in Ids : Unread.status[id] = None
    BY DEF Unread, Report
  <2>3. ReportType /\ FoundOk
    BY <1>1, <2>2, ServesAssumption DEF CheckedInit, ReportType, FoundOk, Status
  <2>4. AsksListed
    BY <1>1 DEF CheckedInit, Init, AsksListed, Idle, Procs
  <2> QED BY <2>1, <2>3, <2>4 DEF CheckInvariant
<1>2. ASSUME IInv, CheckInvariant, [CheckedNext]_cvars PROVE IInv' /\ CheckInvariant'
  <2>1. [Next]_vars
    BY <1>2, CheckedStep
  <2>2. IInv'
    BY <1>2, <2>1, Inductive
  <2>3. AsksListed'
    BY <1>2, <2>1, <2>2, AsksListedKept DEF CheckInvariant
  <2>4. /\ ReportType'
        /\ SameStatuses \/ \E k \in 1..MaxChecks, pub \in Row : Finds(k, pub)
    BY <1>2, StatusStep DEF CheckInvariant, IInv, TypeInv
  <2>5. ASSUME NEW k \in 1..MaxChecks, NEW id \in Ids, report[k].status[id] = "ok"
        PROVE  \E endpoint \in Endpoints : Lists(Read', id, endpoint) /\ ServedAs(id, endpoint)
    <3>1. PICK endpoint \in Endpoints : Lists(Read, id, endpoint) /\ ServedAs(id, endpoint)
      BY <1>2, <2>5 DEF CheckInvariant, FoundOk
    <3> QED BY <1>2, <2>1, <3>1, ListedStays
  <2>6. FoundOk'
    <3> SUFFICES ASSUME NEW k \in 1..MaxChecks, NEW id \in Ids, report'[k].status[id] = "ok"
                 PROVE  \E endpoint \in Endpoints :
                           Lists(Read', id, endpoint) /\ ServedAs(id, endpoint)
      BY DEF FoundOk, ServedAs
    <3>1. CASE report[k].status[id] = "ok"
      BY <2>5, <3>1
    <3>2. CASE report[k].status[id] # "ok"
      <4>1. PICK pub \in Row : Finds(k, pub) /\ pub.id = id
        BY <2>4, <3>2 DEF SameStatuses, Finds
      <4>2. /\ ServedAs(id, pub.endpoint) /\ Lists(Read, id, pub.endpoint)
            /\ pub.endpoint \in Endpoints
        BY <4>1 DEF Finds, Row
      <4> QED BY <1>2, <2>1, <4>2, ListedStays
    <3> QED BY <3>1, <3>2
  <2> QED BY <2>2, <2>3, <2>4, <2>6 DEF CheckInvariant
<1> QED BY <1>1, <1>2

(* A row that a check has stamped as ok is of an endpoint that serves a    *)
(* registry under the identifier of the row, for any number of checks and  *)
(* registrations at the same time and crashes, as long as their sections   *)
(* do not overlap.                                                         *)
THEOREM OkIsAlwaysEarned ==
    ASSUME Overlap = FALSE
    PROVE  CheckedSpec => []OkIsEarned
<1>1. ASSUME IInv, CheckInvariant, NEW r \in Read, Shows(r, "ok")
      PROVE  ServedAs(r.id, r.endpoint)
  <2>1. r \in Row /\ r.id \in Ids /\ r.check \in 1..MaxChecks /\ report[r.check].status[r.id] = "ok"
    BY <1>1, ReadType, ConstantsAssumption DEF IInv, TypeInv, Row, Shows
  <2>2. PICK s \in Read : s.id = r.id /\ ServedAs(r.id, s.endpoint)
    BY <1>1, <2>1 DEF CheckInvariant, FoundOk, Lists
  <2>3. s = r
    BY <1>1, <2>2 DEF IInv, FileInv, NoDuplicates
  <2> QED BY <2>2, <2>3
<1>2. IInv /\ CheckInvariant => OkIsEarned
  BY <1>1 DEF OkIsEarned, ServedAs
<1> QED BY <1>2, CheckInductive, PTL DEF CheckedSpec

-----------------------------------------------------------------------------
(* Stamps and exit codes: what a check writes back is complete.            *)

Stamped(rows, id) == \E s \in rows : s.id = id /\ s.check # 0

Answered(k) == \A id \in report[k].listed : report[k].status[id] # None

(* What a checker in state q is about to write back.                       *)
Checking(q) ==
    /\ q.at = "probing" \/ Writing(q) =>
          q.check \in 1..checks /\ q.probed = report[q.check].listed
    /\ q.at = "probing" => q.probed = IdsOf(q.doc)
    /\ Writing(q) => Answered(q.check) /\ q.doc = Stamp(Read, q.probed, q.check)

(* Registered rows come without the stamp of a check.                      *)
ProcInv ==
    /\ \A c \in Checkers : Checking(proc[c])
    /\ proc[Server].arg # None => proc[Server].arg.check = 0

StampedTogether ==
    \A r \in Read : r.check # 0 =>
        /\ r.check =< checks /\ Answered(r.check)
        /\ \A id \in report[r.check].listed : Stamped(Read, id)

ZeroIsTrue ==
    \A k \in 1..MaxChecks : report[k].exit = "zero" =>
        \A id \in report[k].listed : report[k].status[id] = "ok" /\ Stamped(Read, id)

LaterUnread == \A k \in 1..MaxChecks : k > checks => report[k] = Unread

ListedIn == \A k \in 1..MaxChecks : report[k].listed \subseteq IdsOf(Read)

StampInv == ReportType /\ ProcInv /\ StampedTogether /\ ZeroIsTrue /\ LaterUnread /\ ListedIn

(* What a step may do to the checks that have been started.                *)
ReportGrows ==
    \A k \in 1..checks :
        /\ report'[k].listed = report[k].listed
        /\ \A id \in Ids :
              report[k].status[id] # None => report'[k].status[id] = report[k].status[id]

(* What a step may do to the rows of the file.                             *)
StampedBy(c) ==
    /\ ReplaceFile(c) /\ Writing(proc[c])
    /\ Read' = Stamp(Read, proc[c].probed, proc[c].check)

RowsGrow ==
    \/ Read' = Read
    \/ \E row \in Row : row.check = 0 /\ Read' = Read \cup {row}
    \/ \E c \in Checkers : StampedBy(c)

(* Statuses and lists of the checks are never taken back.                  *)
LEMMA ReportStep ==
    ASSUME ReportType, TypeOK, ProcInv, [CheckedNext]_cvars
    PROVE  ReportGrows
<1>0. checks \in 0..MaxChecks /\ MaxChecks \in Nat /\ 1..checks \subseteq 1..MaxChecks
  BY ConstantsAssumption DEF TypeOK
<1>1. CASE UNCHANGED report
  BY <1>1 DEF ReportGrows
<1>2. ASSUME NEW c \in Checkers, LoadRows(c) PROVE ReportGrows
  <2>1. \A k \in 1..checks : report'[k] = report[k]
    BY <1>0, <1>2 DEF LoadRows, ReportType
  <2> QED BY <2>1 DEF ReportGrows
<1>3. ASSUME NEW c \in Checkers, NEW exit \in {"zero", "one", "dry", "traceback"},
             EndsWith(c, exit)
      PROVE  ReportGrows
  <2>1. \A k \in 1..MaxChecks :
           /\ report'[k].listed = report[k].listed
           /\ report'[k].status = report[k].status
    BY <1>3 DEF EndsWith, ReportType, Report
  <2> QED BY <1>0, <2>1 DEF ReportGrows
<1>4. ASSUME NEW c \in Checkers, ProbeRaises(c) \/ DryRun(c) \/ Annotate(c) \/ Finish(c)
      PROVE  ReportGrows
  <2>1. UNCHANGED report \/ \E exit \in {"zero", "one", "dry", "traceback"} : EndsWith(c, exit)
    BY <1>4 DEF ProbeRaises, DryRun, Annotate, Finish, exit_code
  <2> QED BY <1>1, <1>3, <2>1
<1>5. ASSUME NEW c \in Checkers, Probe(c) PROVE ReportGrows
  <2> DEFINE k == proc[c].check
  <2>1. PICK pub \in Pending(c), status \in Status :
           report' = [report EXCEPT ![k].status[pub.id] = status]
    <3>1. PICK pub \in Pending(c) : \E answer \in Serves[pub.endpoint] :
             report' = [report EXCEPT ![k].status[pub.id] = _check_one(pub, answer)]
      BY <1>5 DEF Probe
    <3> QED BY <3>1, CheckOneType
  <2>2. k \in 1..checks /\ report[k].status[pub.id] = None
    BY <1>5, <2>1 DEF Probe, ProcInv, Checking, Pending, Of
  <2>3. \A j \in 1..checks : report[j] \in Report
    BY <1>0 DEF ReportType
  <2> DEFINE new == [report[k] EXCEPT !.status[pub.id] = status]
  <2>4. new.listed = report[k].listed
        /\ \A id \in Ids : id # pub.id => new.status[id] = report[k].status[id]
    BY <2>2, <2>3 DEF Report
  <2>5. report' = [report EXCEPT ![k] = new]
    BY <2>1
  <2> HIDE DEF new
  <2>6. \A j \in 1..checks : report'[j] = IF j = k THEN new ELSE report[j]
    BY <1>0, <2>5 DEF ReportType
  <2> QED BY <2>2, <2>4, <2>6 DEF ReportGrows
<1> QED BY <1>1, <1>2, <1>4, <1>5 DEF CheckedNext, Command, cvars

(* Checks that are not started yet have found nothing.                     *)
LEMMA LaterStep ==
    ASSUME ReportType, TypeOK, ProcInv, LaterUnread, [CheckedNext]_cvars
    PROVE  LaterUnread' /\ checks =< checks'
<1>0. checks \in 0..MaxChecks /\ MaxChecks \in Nat
  BY ConstantsAssumption DEF TypeOK
<1>1. ASSUME NEW c \in Checkers, LoadRows(c) PROVE LaterUnread' /\ checks =< checks'
  <2>1. checks' = checks + 1
    BY <1>1 DEF LoadRows, Load
  <2>2. \A k \in 1..MaxChecks : k # checks + 1 => report'[k] = report[k]
    BY <1>1 DEF LoadRows, ReportType
  <2> QED BY <1>0, <2>1, <2>2 DEF LaterUnread
<1>2. ASSUME ~\E c \in Checkers : LoadRows(c)
      PROVE  checks' = checks
  BY <1>2 DEF CheckedNext, Command, cvars, Serve, Seed, Register, FindByIdentifier,
     FindByEndpoint, Upsert, Respond, Write, OpenTmp, WriteTmp, ReplaceFile, Crash, Probe, vars,
     ProbeRaises, DryRun, EndWithoutAnnotating, Annotate, AnnotateChecks, Finish
<1>3. ASSUME ~\E c \in Checkers : LoadRows(c), report' # report
      PROVE  \E c \in Checkers : /\ proc[c].check \in 1..checks
                                 /\ \A k \in 1..MaxChecks : k # proc[c].check =>
                                       report'[k] = report[k]
  <2>1. PICK c \in Checkers : Probe(c) \/ ProbeRaises(c) \/ DryRun(c) \/ Annotate(c) \/ Finish(c)
    BY <1>3 DEF CheckedNext, Command, cvars
  <2>2. proc[c].at = "probing" \/ Writing(proc[c])
    BY <2>1 DEF Probe, ProbeRaises, DryRun, EndWithoutAnnotating, Annotate, AnnotateChecks,
                Finish, ReplaceFile, Writing
  <2>3. \E new : report' = [report EXCEPT ![proc[c].check] = new]
    BY <1>3, <2>1 DEF Probe, ProbeRaises, DryRun, Annotate, Finish, EndsWith
  <2> QED BY <2>2, <2>3 DEF ProcInv, Checking, ReportType
<1>4. ASSUME ~\E c \in Checkers : LoadRows(c) PROVE LaterUnread' /\ checks =< checks'
  BY <1>0, <1>2, <1>3, <1>4 DEF LaterUnread
<1> QED BY <1>1, <1>4

(* A step keeps the rows, adds an unstamped one or stamps those of a check.*)
LEMMA RowsStep ==
    ASSUME Overlap = FALSE, IInv, ProcInv, [CheckedNext]_cvars
    PROVE  RowsGrow
<1>0. [Next]_vars
  BY CheckedStep
<1>1. ASSUME NEW p \in Procs, ReplaceFile(p) PROVE RowsGrow
  <2>0. /\ Read' = proc[p].doc /\ Local(p, proc[p]) /\ Intent(p, proc[p])
        /\ Writing(proc[p])
        /\ proc[p].then # "idle" => proc[p].arg \in Row
    BY <1>1, ReplaceIsPromised DEF IInv, TypeInv, HasArgument, Local, ReplaceFile, Writing
  <2>1. CASE p # Server
    <3>1. p \in Checkers
      BY <2>1 DEF Procs
    <3> QED BY <1>1, <2>0, <3>1 DEF RowsGrow, StampedBy, ProcInv, Checking
  <2>2. CASE p = Server /\ proc[p].then = "respond"
    <3>1. proc[p].arg \in Row /\ proc[p].arg.check = 0
      BY <2>0, <2>2, ConstantsAssumption DEF ProcInv
    <3> QED BY <2>0, <2>2, <3>1 DEF RowsGrow, Intent
  <2>3. CASE p = Server /\ proc[p].then # "respond"
    BY <2>0, <2>3 DEF RowsGrow, Intent, Read
  <2> QED BY <2>1, <2>2, <2>3
<1>2. CASE UNCHANGED vars
  BY <1>2 DEF vars, Read, RowsGrow
<1>3. CASE Serve \/ \E c \in Checkers : Check(c)
  BY <1>3, ServeInv, CheckInv DEF RowsGrow
<1>4. ASSUME NEW p \in Procs, Write(p), ~ReplaceFile(p) PROVE RowsGrow
  BY <1>4, WriteInv DEF RowsGrow
<1> QED BY <1>0, <1>1, <1>2, <1>3, <1>4 DEF Next

(* The rows that a check stamps, and those it does not.                    *)
LEMMA StampChecks ==
    ASSUME NEW rows \in SUBSET Row, NEW probed, NEW check \in 1..MaxChecks
    PROVE  /\ \A s \in Stamp(rows, probed, check) : s \in rows \/ s.check = check
           /\ \A id : id \in probed /\ id \in IdsOf(rows) => Stamped(Stamp(rows, probed, check), id)
           /\ \A id : Stamped(rows, id) => Stamped(Stamp(rows, probed, check), id)
           /\ IdsOf(rows) \subseteq IdsOf(Stamp(rows, probed, check))
<1> DEFINE New(r) == IF r.id \in probed THEN [r EXCEPT !.check = check] ELSE r
<1>0. check # 0
  BY ConstantsAssumption
<1>1. \A r \in rows : /\ New(r).id = r.id
                      /\ New(r) = r \/ New(r).check = check
                      /\ r.id \in probed => New(r).check = check
  BY DEF Row
<1>2. Stamp(rows, probed, check) = {New(r) : r \in rows}
  BY DEF Stamp
<1> HIDE DEF New
<1>3. \A s \in Stamp(rows, probed, check) : s \in rows \/ s.check = check
  BY <1>1, <1>2
<1>4. ASSUME NEW r \in rows, r.id \in probed \/ r.check # 0
      PROVE  Stamped(Stamp(rows, probed, check), r.id)
  BY <1>0, <1>1, <1>2, <1>4 DEF Stamped
<1>5. IdsOf(rows) \subseteq IdsOf(Stamp(rows, probed, check))
  BY <1>1, <1>2 DEF IdsOf
<1>6. \A id : id \in probed /\ id \in IdsOf(rows) => Stamped(Stamp(rows, probed, check), id)
  BY <1>4 DEF IdsOf
<1>7. \A id : Stamped(rows, id) => Stamped(Stamp(rows, probed, check), id)
  BY <1>4 DEF Stamped
<1> QED BY <1>3, <1>5, <1>6, <1>7

(* What is listed stays so, what is stamped stays so, and a row is new,    *)
(* old or stamped by a check that has all its answers.                     *)
LEMMA RowsFacts ==
    ASSUME Overlap = FALSE, IInv, ProcInv, ListedIn, RowsGrow
    PROVE  /\ IdsOf(Read) \subseteq IdsOf(Read')
           /\ \A id : Stamped(Read, id) => Stamped(Read', id)
           /\ \A r \in Read' :
                 \/ r.check = 0 \/ r \in Read
                 \/ /\ r.check \in 1..checks /\ Answered(r.check)
                    /\ \A id \in report[r.check].listed : Stamped(Read', id)
<1>0. Read \subseteq Row /\ checks \in 0..MaxChecks /\ MaxChecks \in Nat
  BY ReadType, ConstantsAssumption DEF IInv, TypeInv, TypeOK
<1>1. CASE Read' = Read
  BY <1>1
<1>2. ASSUME NEW row \in Row, row.check = 0, Read' = Read \cup {row}
      PROVE  /\ IdsOf(Read) \subseteq IdsOf(Read')
             /\ \A id : Stamped(Read, id) => Stamped(Read', id)
             /\ \A r \in Read' : r.check = 0 \/ r \in Read
  BY <1>2 DEF IdsOf, Stamped
<1>3. ASSUME NEW c \in Checkers, StampedBy(c)
      PROVE  /\ IdsOf(Read) \subseteq IdsOf(Read')
             /\ \A id : Stamped(Read, id) => Stamped(Read', id)
             /\ \A r \in Read' :
                   \/ r \in Read
                   \/ /\ r.check \in 1..checks /\ Answered(r.check)
                      /\ \A id \in report[r.check].listed : Stamped(Read', id)
  <2> DEFINE k == proc[c].check
  <2>1. /\ k \in 1..checks /\ proc[c].probed = report[k].listed /\ Answered(k)
        /\ Read' = Stamp(Read, proc[c].probed, k)
    BY <1>3 DEF StampedBy, ProcInv, Checking
  <2>2. k \in 1..MaxChecks /\ report[k].listed \subseteq IdsOf(Read)
    BY <1>0, <2>1 DEF ListedIn
  <2> HIDE DEF k
  <2> QED BY <1>0, <2>1, <2>2, StampChecks
<1> QED BY <1>1, <1>2, <1>3 DEF RowsGrow

(* A checker that a step leaves alone.                                     *)
LEMMA OthersKept ==
    ASSUME TypeOK, ReportType, NEW q, Checking(q), ReportGrows, checks =< checks',
           checks' \in Nat, Writing(q) => Read' = Read
    PROVE  Checking(q)'
<1>0. checks \in Nat /\ \A k \in 1..checks : report[k].listed \subseteq Ids
  BY ConstantsAssumption DEF TypeOK, ReportType, Report
<1>1. CASE q.at = "probing" \/ Writing(q)
  <2>1. /\ q.check \in 1..checks /\ q.check \in 1..checks'
        /\ report'[q.check].listed = report[q.check].listed
        /\ Answered(q.check) => Answered(q.check)'
    BY <1>0, <1>1 DEF Checking, ReportGrows, Answered
  <2> QED BY <1>1, <2>1 DEF Checking, Writing
<1>2. CASE ~(q.at = "probing" \/ Writing(q))
  BY <1>2 DEF Checking, Writing
<1> QED BY <1>1, <1>2

(* The rows a server registers stay without a stamp.                       *)
LEMMA ArgumentStep ==
    ASSUME IInv, ProcInv, [Next]_vars
    PROVE  proc'[Server].arg # None => proc'[Server].arg.check = 0
<1>0. /\ TypeOK /\ Server \in Procs /\ proc[Server] \in Proc
      /\ Idle.arg = None
      /\ proc[Server].arg # None => proc[Server].arg.check = 0
  BY DEF IInv, TypeInv, TypeOK, Procs, Idle, ProcInv
<1> DEFINE Kept == proc'[Server].arg \in {None, proc[Server].arg}
<1>1. ASSUME Becomes(Server, Idle) PROVE Kept
  <2>1. proc'[Server] = Idle
    BY <1>0, <1>1 DEF Becomes, TypeOK
  <2> QED BY <1>0, <2>1
<1>2. ASSUME NEW p \in Procs, p # Server, \E new : Becomes(p, new)
      PROVE  proc'[Server] = proc[Server]
  BY <1>0, <1>2 DEF Becomes, TypeOK
<1>3. ASSUME NEW at, Becomes(Server, [proc[Server] EXCEPT !.at = at]) PROVE Kept
  <2>1. proc'[Server] = [proc[Server] EXCEPT !.at = at]
    BY <1>0, <1>3 DEF Becomes, TypeOK
  <2> QED BY <1>0, <2>1 DEF Proc
<1>10. ASSUME NEW at, NEW doc, Becomes(Server, [proc[Server] EXCEPT !.at = at, !.doc = doc])
      PROVE  Kept
  <2>1. proc'[Server] = [proc[Server] EXCEPT !.at = at, !.doc = doc]
    BY <1>0, <1>10 DEF Becomes, TypeOK
  <2> QED BY <1>0, <2>1 DEF Proc
<1>11. ASSUME NEW at, NEW file, Becomes(Server, [proc[Server] EXCEPT !.at = at, !.file = file])
      PROVE  Kept
  <2>1. proc'[Server] = [proc[Server] EXCEPT !.at = at, !.file = file]
    BY <1>0, <1>11 DEF Becomes, TypeOK
  <2> QED BY <1>0, <2>1 DEF Proc
<1>12. ASSUME NEW doc, NEW then, StartWrite(Server, doc, then) PROVE Kept
  <2>1. proc'[Server] = [proc[Server] EXCEPT !.at = "open", !.doc = doc, !.then = then]
    BY <1>0, <1>12 DEF StartWrite, Becomes, TypeOK
  <2> QED BY <1>0, <2>1 DEF Proc
<1>4. ASSUME Seed \/ FindByIdentifier \/ FindByEndpoint \/ Upsert \/ Respond PROVE Kept
  <2>1. CASE Seed \/ Upsert
    <3>1. Becomes(Server, Idle) \/ \E doc, then : StartWrite(Server, doc, then)
      BY <2>1 DEF Seed, Upsert
    <3> QED BY <1>1, <1>12, <3>1
  <2>2. CASE FindByIdentifier \/ FindByEndpoint \/ Respond
    <3>1. Becomes(Server, Idle) \/ \E at : Becomes(Server, [proc[Server] EXCEPT !.at = at])
      BY <2>2 DEF FindByIdentifier, FindByEndpoint, Respond
    <3> QED BY <1>1, <1>3, <3>1
  <2> QED BY <1>4, <2>1, <2>2
<1>5. ASSUME NEW id \in Ids, NEW endpoint \in Endpoints, Register(id, endpoint)
      PROVE  proc'[Server].arg.check = 0
  <2> DEFINE row == [id |-> id, endpoint |-> endpoint, check |-> 0]
  <2>1. PICK new : Becomes(Server, new) /\ new.arg = row
    <3> DEFINE seeding == [Idle EXCEPT !.arg = row, !.at = "open", !.then = "identifier"]
               finding == [Idle EXCEPT !.arg = row, !.at = "identifier"]
    <3>1. Becomes(Server, seeding) \/ Becomes(Server, finding)
      BY <1>5 DEF Register
    <3>2. seeding.arg = row /\ finding.arg = row
      BY DEF Idle
    <3> QED BY <3>1, <3>2
  <2> QED BY <1>0, <2>1 DEF Becomes, TypeOK
<1>6. ASSUME Write(Server) PROVE Kept
  <2>1. \/ Becomes(Server, Idle)
        \/ \E at, file : Becomes(Server, [proc[Server] EXCEPT !.at = at, !.file = file])
        \/ \E at, doc : Becomes(Server, [proc[Server] EXCEPT !.at = at, !.doc = doc])
    BY <1>6 DEF Write, OpenTmp, WriteTmp, ReplaceFile, Crash
  <2> QED BY <1>1, <1>10, <1>11, <2>1
<1>7. ASSUME NEW p \in Procs, p # Server, Write(p) \/ Check(p) PROVE proc'[Server] = proc[Server]
  BY <1>2, <1>7 DEF Write, OpenTmp, WriteTmp, ReplaceFile, Crash, Check, Load,
                    EndWithoutAnnotating, AnnotateChecks, StartWrite
<1>8. CASE UNCHANGED vars
  BY <1>0, <1>8 DEF vars
<1>9. Checkers \subseteq Procs /\ Server \notin Checkers
  BY ConstantsAssumption DEF Procs
<1> QED BY <1>0, <1>4, <1>5, <1>6, <1>7, <1>8, <1>9 DEF Next, Serve

(* A checker goes on to write what it has all the answers for.             *)
LEMMA CheckingStep ==
    ASSUME Overlap = FALSE, IInv, IInv', ReportType, ProcInv, ReportGrows,
           checks =< checks', [CheckedNext]_cvars, NEW c \in Checkers
    PROVE  Checking(proc[c])'
<1>0. /\ TypeOK /\ TypeOK' /\ c \in Procs /\ c # Server /\ Server \in Procs
      /\ proc[c] \in Proc /\ Checking(proc[c]) /\ Local(c, proc[c]) /\ Readable
      /\ checks \in 0..MaxChecks /\ checks' \in Nat /\ MaxChecks \in Nat
  BY ConstantsAssumption DEF IInv, TypeInv, TypeOK, Procs, ProcInv, FileInv
<1>1. ASSUME proc'[c].at \notin {"probing", "open", "write", "replace"}
      PROVE  Checking(proc[c])'
  BY <1>1 DEF Checking, Writing
<1>2. ASSUME proc'[c] = proc[c], Writing(proc[c]) => Read' = Read
      PROVE  Checking(proc[c])'
  <2>1. PICK q : q = proc[c]
    OBVIOUS
  <2>2. proc'[c] = q /\ Checking(q) /\ (Writing(q) => Read' = Read)
    BY <1>0, <1>2, <2>1
  <2>3. Checking(q)'
    BY <1>0, <2>2, OthersKept
  <2> QED BY <2>2, <2>3 DEF Checking, Writing
<1>3. CASE LoadRows(c)
  <2>1. /\ proc'[c] = [Idle EXCEPT !.at = "probing", !.doc = Read,
                                   !.probed = IdsOf(Read), !.check = checks + 1]
        /\ checks' = checks + 1 /\ checks + 1 \in 1..MaxChecks
    BY <1>0, <1>3 DEF LoadRows, Load, Becomes, TypeOK
  <2>2. /\ proc'[c].at = "probing" /\ proc'[c].doc = Read
        /\ proc'[c].probed = IdsOf(Read) /\ proc'[c].check = checks + 1
    BY <2>1 DEF Idle
  <2>3. report'[checks + 1].listed = IdsOf(Read)
    BY <1>0, <1>3, <2>1 DEF LoadRows, ReportType, Report
  <2>4. IdsOf(proc'[c].doc) = IdsOf(Read)
    BY <2>2
  <2> QED BY <1>0, <2>1, <2>2, <2>3, <2>4 DEF Checking, Writing, IdsOf
<1>4. CASE ProbeRaises(c) \/ DryRun(c) \/ Crash(c)
  <2>1. proc'[c] = Idle
    BY <1>0, <1>4 DEF ProbeRaises, DryRun, EndWithoutAnnotating, Crash, Becomes, TypeOK
  <2> QED BY <1>1, <2>1 DEF Idle
<1>5. CASE Annotate(c)
  <2> DEFINE p == proc[c]
             doc == Stamp(Read, p.probed, p.check)
  <2>1. /\ proc'[c] = [p EXCEPT !.at = "open", !.doc = doc, !.then = "idle"]
        /\ report' = report /\ checks' = checks /\ Read' = Read
    BY <1>0, <1>5 DEF Annotate, AnnotateChecks, StartWrite, Becomes, TypeOK, NoFileChange, Read
  <2>2. /\ p.check \in 1..checks /\ p.probed = report[p.check].listed /\ p.probed = IdsOf(p.doc)
        /\ Pending(c) = {}
    BY <1>0, <1>5 DEF Annotate, Probed, Checking
  <2>3. Answered(p.check)
    BY <2>2 DEF Answered, Pending, Of, IdsOf
  <2>4. /\ proc'[c].at = "open" /\ proc'[c].doc = doc
        /\ proc'[c].probed = p.probed /\ proc'[c].check = p.check
    BY <1>0, <2>1 DEF Proc
  <2>5. Read' = Read /\ proc'[c].doc = Stamp(Read', proc'[c].probed, proc'[c].check)
    BY <2>1, <2>4
  <2>6. Answered(p.check)'
    BY <2>1, <2>3, <2>4 DEF Answered
  <2> QED BY <2>1, <2>2, <2>3, <2>4, <2>5 DEF Checking, Writing, Answered, Stamp
<1>6. CASE OpenTmp(c) \/ WriteTmp(c)
  <2>1. /\ Writing(proc[c]) /\ Writing(proc'[c]) /\ proc'[c].at # "probing"
        /\ proc'[c].doc = proc[c].doc /\ proc'[c].probed = proc[c].probed
        /\ proc'[c].check = proc[c].check
    <3>1. CASE OpenTmp(c)
      <4>1. PICK f : Becomes(c, [proc[c] EXCEPT !.at = "write", !.file = f])
        BY <3>1 DEF OpenTmp
      <4>2. proc'[c] = [proc[c] EXCEPT !.at = "write", !.file = f] /\ proc[c].at = "open"
        BY <1>0, <3>1, <4>1 DEF OpenTmp, Becomes, TypeOK
      <4> QED BY <1>0, <4>2 DEF Proc, Writing
    <3>2. CASE WriteTmp(c)
      <4>1. proc'[c] = [proc[c] EXCEPT !.at = "replace", !.file = None] /\ proc[c].at = "write"
        BY <1>0, <3>2 DEF WriteTmp, Becomes, TypeOK
      <4> QED BY <1>0, <4>1 DEF Proc, Writing
    <3> QED BY <1>6, <3>1, <3>2
  <2>2. Read' = Read /\ checks' = checks
    BY <1>0, <1>6, WriteInv DEF Write, OpenTmp, WriteTmp, ReplaceFile
  <2>3. PICK q : q = proc[c]
    OBVIOUS
  <2>4. Checking(q)' /\ Writing(q)
    BY <1>0, <2>1, <2>2, <2>3, OthersKept
  <2>5. /\ q.check \in 1..checks' /\ q.probed = report'[q.check].listed
        /\ \A id \in report'[q.check].listed : report'[q.check].status[id] # None
        /\ q.doc = Stamp(Read', q.probed, q.check)
    BY <2>4 DEF Checking, Answered, Stamp
  <2> QED BY <2>1, <2>3, <2>5 DEF Checking, Answered, Stamp
<1>7. CASE ReplaceFile(c)
  <2>1. proc'[c] = Idle
    BY <1>0, <1>7 DEF ReplaceFile, Local, Becomes, TypeOK
  <2> QED BY <1>1, <2>1 DEF Idle
<1>8. ASSUME NEW p \in Procs, p # c, Write(p) PROVE Checking(proc[c])'
  <2>1. \E new : Becomes(p, new)
    BY <1>8 DEF Write, OpenTmp, WriteTmp, ReplaceFile, Crash
  <2>2. proc'[c] = proc[c]
    BY <1>0, <1>8, <2>1 DEF Becomes, TypeOK
  <2>3. Writing(proc[c]) => ~ReplaceFile(p)
    BY <1>0, <1>8 DEF IInv, OneSection, InSection, Writing, ReplaceFile
  <2> QED BY <1>2, <1>8, <2>2, <2>3, WriteInv
<1>9. CASE Serve
  <2>1. \E new : Becomes(Server, new)
    BY <1>9 DEF Serve, Seed, FindByIdentifier, FindByEndpoint, Upsert, Respond, Register, StartWrite
  <2>2. proc'[c] = proc[c]
    BY <1>0, <2>1 DEF Becomes, TypeOK
  <2> QED BY <1>2, <1>9, <2>2, ServeInv
<1>10. ASSUME NEW d \in Checkers, d # c, Check(d) PROVE Checking(proc[c])'
  <2>1. \E new : Becomes(d, new)
    BY <1>10 DEF Check, Load, EndWithoutAnnotating, AnnotateChecks, StartWrite
  <2>2. proc'[c] = proc[c]
    BY <1>0, <1>10, <2>1 DEF Becomes, TypeOK
  <2> QED BY <1>2, <1>10, <2>2, CheckInv
<1>11. CASE UNCHANGED vars
  BY <1>2, <1>11 DEF vars, Read
<1>12. ASSUME NEW d \in Checkers, d # c, Command(d) PROVE Checking(proc[c])'
  <2>1. d \in Procs
    BY DEF Procs
  <2>2. UNCHANGED vars \/ Check(d) \/ Write(d)
    BY <1>12 DEF Command, Probe, LoadRows, ProbeRaises, DryRun, Annotate, Finish, Check, Write
  <2> QED BY <1>8, <1>10, <1>11, <1>12, <2>1, <2>2
<1>13. CASE Command(c)
  <2>1. UNCHANGED vars \/ LoadRows(c) \/ ProbeRaises(c) \/ DryRun(c) \/ Crash(c) \/ Annotate(c)
        \/ OpenTmp(c) \/ WriteTmp(c) \/ ReplaceFile(c)
    BY <1>13 DEF Command, Probe, Finish
  <2> QED BY <1>3, <1>4, <1>5, <1>6, <1>7, <1>11, <2>1
<1>14. CASE UNCHANGED cvars
  BY <1>11, <1>14 DEF cvars, vars
<1> QED BY <1>0, <1>8, <1>9, <1>12, <1>13, <1>14 DEF CheckedNext

(* The exit code 0 is that of a check that ends now, with every status ok. *)
LEMMA ExitStep ==
    ASSUME ReportType, TypeOK, ProcInv, LaterUnread, [CheckedNext]_cvars,
           NEW k \in 1..MaxChecks, report'[k].exit = "zero", report[k].exit # "zero"
    PROVE  \E c \in Checkers :
              /\ ReplaceFile(c) /\ proc[c].check = k /\ Writing(proc[c])
              /\ \A id \in report[k].listed : report[k].status[id] = "ok"
<1>0. report[k] \in Report
  BY DEF ReportType
<1>2. ASSUME NEW c \in Checkers, NEW exit, EndsWith(c, exit)
      PROVE  proc[c].check = k /\ exit = "zero"
  BY <1>0, <1>2 DEF EndsWith, ReportType, Report
<1>3. CASE UNCHANGED report
  BY <1>3
<1>4. ASSUME NEW c \in Checkers, LoadRows(c) PROVE FALSE
  <2>1. \/ report' = [report EXCEPT ![checks + 1] = [@ EXCEPT !.listed = IdsOf(Read)]]
        \/ report' = [report EXCEPT ![checks + 1] = [@ EXCEPT !.exit = "traceback"]]
    BY <1>4 DEF LoadRows
  <2>2. [report[k] EXCEPT !.listed = IdsOf(Read)].exit = report[k].exit
        /\ [report[k] EXCEPT !.exit = "traceback"].exit = "traceback"
    BY <1>0 DEF Report
  <2>3. CASE k = checks + 1
    BY <2>1, <2>2, <2>3 DEF ReportType
  <2>4. CASE k # checks + 1
    BY <2>1, <2>4 DEF ReportType
  <2> QED BY <2>3, <2>4
<1>5. ASSUME NEW c \in Checkers, Probe(c) PROVE FALSE
  <2>1. PICK id, status : report' = [report EXCEPT ![proc[c].check].status[id] = status]
    BY <1>5 DEF Probe
  <2> DEFINE new == [report[k] EXCEPT !.status[id] = status]
  <2>2. new.exit = report[k].exit
    BY <1>0 DEF Report
  <2>3. report'[k] \in {report[k], new}
    BY <2>1 DEF ReportType
  <2> QED BY <2>2, <2>3
<1>6. ASSUME NEW c \in Checkers, ProbeRaises(c) \/ DryRun(c) \/ Annotate(c) PROVE FALSE
  BY <1>2, <1>3, <1>6 DEF ProbeRaises, DryRun, Annotate
<1>7. ASSUME NEW c \in Checkers, Finish(c)
      PROVE  /\ ReplaceFile(c) /\ proc[c].check = k /\ Writing(proc[c])
             /\ \A id \in report[k].listed : report[k].status[id] = "ok"
  <2>1. proc[c].check = k /\ (IF tmp = None THEN "traceback" ELSE exit_code(Of(c))) = "zero"
    BY <1>2, <1>7 DEF Finish
  <2>2. exit_code(report[k]) = "zero"
    BY <2>1 DEF Of
  <2> QED BY <1>7, <2>1, <2>2 DEF exit_code, Finish, ReplaceFile, Writing
<1> QED BY <1>3, <1>4, <1>5, <1>6, <1>7 DEF CheckedNext, Command, cvars

(* What is newly listed has been read.                                     *)
LEMMA ListedStep ==
    ASSUME ReportType, TypeOK, LaterUnread, [CheckedNext]_cvars,
           NEW k \in 1..MaxChecks, k > checks
    PROVE  report'[k].listed \subseteq IdsOf(Read) \/ report'[k].listed = report[k].listed
<1>0. report[k] \in Report
  BY DEF ReportType
<1>1. CASE UNCHANGED report
  BY <1>1
<1>2. ASSUME NEW c \in Checkers, LoadRows(c)
      PROVE  report'[k].listed \subseteq IdsOf(Read) \/ report'[k].listed = report[k].listed
  <2>1. \/ report' = [report EXCEPT ![checks + 1] = [@ EXCEPT !.listed = IdsOf(Read)]]
        \/ report' = [report EXCEPT ![checks + 1] = [@ EXCEPT !.exit = "traceback"]]
    BY <1>2 DEF LoadRows
  <2>2. [report[k] EXCEPT !.listed = IdsOf(Read)].listed = IdsOf(Read)
        /\ [report[k] EXCEPT !.exit = "traceback"].listed = report[k].listed
    BY <1>0 DEF Report
  <2>3. CASE k = checks + 1
    BY <2>1, <2>2, <2>3 DEF ReportType
  <2>4. CASE k # checks + 1
    BY <2>1, <2>4 DEF ReportType
  <2> QED BY <2>3, <2>4
<1>3. ASSUME NEW c \in Checkers, NEW exit, EndsWith(c, exit)
      PROVE  report'[k].listed = report[k].listed
  BY <1>0, <1>3 DEF EndsWith, ReportType, Report
<1>4. ASSUME NEW c \in Checkers, Probe(c) PROVE report'[k].listed = report[k].listed
  <2>1. PICK id, status : report' = [report EXCEPT ![proc[c].check].status[id] = status]
    BY <1>4 DEF Probe
  <2> DEFINE new == [report[k] EXCEPT !.status[id] = status]
  <2>2. new.listed = report[k].listed
    BY <1>0 DEF Report
  <2>3. report'[k] \in {report[k], new}
    BY <2>1 DEF ReportType
  <2> QED BY <2>2, <2>3
<1>5. ASSUME NEW c \in Checkers, ProbeRaises(c) \/ DryRun(c) \/ Annotate(c) \/ Finish(c)
      PROVE  report'[k].listed = report[k].listed
  BY <1>1, <1>3, <1>5 DEF ProbeRaises, DryRun, Annotate, Finish
<1> QED BY <1>1, <1>2, <1>4, <1>5 DEF CheckedNext, Command, cvars

(* Every step keeps the invariant of stamps and exit codes.                *)
LEMMA StampStep ==
    ASSUME Overlap = FALSE, IInv, IInv', ReportType, ReportType', StampInv,
           [CheckedNext]_cvars
    PROVE  StampInv'
<1>0. /\ TypeOK /\ checks \in 0..MaxChecks /\ MaxChecks \in Nat /\ Read \subseteq Row
      /\ ProcInv /\ StampedTogether /\ ZeroIsTrue /\ LaterUnread /\ ListedIn
      /\ [Next]_vars
  BY ReadType, ConstantsAssumption, CheckedStep DEF IInv, TypeInv, TypeOK, StampInv
<1>1. ReportGrows /\ LaterUnread' /\ checks =< checks'
  BY <1>0, ReportStep, LaterStep
<1>2. ProcInv'
  BY <1>0, <1>1, ArgumentStep, CheckingStep DEF ProcInv
<1>3. /\ IdsOf(Read) \subseteq IdsOf(Read')
      /\ \A id : Stamped(Read, id) => Stamped(Read', id)
      /\ \A r \in Read' :
            \/ r.check = 0 \/ r \in Read
            \/ /\ r.check \in 1..checks /\ Answered(r.check)
               /\ \A id \in report[r.check].listed : Stamped(Read', id)
  BY <1>0, RowsStep, RowsFacts
<1>4. \A k \in 1..checks :
         /\ report'[k].listed = report[k].listed /\ report[k].listed \subseteq Ids
         /\ Answered(k) => \A id \in report'[k].listed : report'[k].status[id] # None
  BY <1>0, <1>1 DEF ReportGrows, Answered, ReportType, Report
<1>5. StampedTogether'
  <2> SUFFICES ASSUME NEW r \in Read', r.check # 0
               PROVE  /\ r.check =< checks'
                      /\ \A id \in report'[r.check].listed :
                            report'[r.check].status[id] # None /\ Stamped(Read', id)
    BY DEF StampedTogether, Answered, Stamped
  <2>1. /\ r.check \in 1..checks /\ Answered(r.check)
        /\ \A id \in report[r.check].listed : Stamped(Read', id)
    <3>1. CASE r \in Read
      <4>1. r.check \in 0..MaxChecks
        BY <1>0, <3>1 DEF Row
      <4> QED BY <1>0, <1>3, <3>1, <4>1 DEF StampedTogether
    <3> QED BY <1>3, <3>1
  <2>2. r.check =< checks'
    BY <1>0, <1>1, <2>1, ConstantsAssumption DEF TypeOK, IInv, TypeInv
  <2> QED BY <1>4, <2>1, <2>2
<1>6. ListedIn'
  <2> SUFFICES ASSUME NEW k \in 1..MaxChecks PROVE report'[k].listed \subseteq IdsOf(Read')
    BY DEF ListedIn, IdsOf
  <2>1. report[k].listed \subseteq IdsOf(Read)
    BY <1>0 DEF ListedIn
  <2>2. CASE k =< checks
    BY <1>0, <1>3, <1>4, <2>1, <2>2
  <2>3. CASE ~(k =< checks)
    <3>1. k > checks
      BY <1>0, <2>3
    <3> QED BY <1>0, <1>3, <2>1, <3>1, ListedStep
  <2> QED BY <2>2, <2>3
<1>7. ZeroIsTrue'
  <2> SUFFICES ASSUME NEW k \in 1..MaxChecks, report'[k].exit = "zero",
                      NEW id \in report'[k].listed
               PROVE  report'[k].status[id] = "ok" /\ Stamped(Read', id)
    BY DEF ZeroIsTrue, Stamped
  <2>1. CASE report[k].exit = "zero"
    <3>1. k \in 1..checks
      BY <1>0, <2>1 DEF LaterUnread, Unread
    <3>2. id \in report[k].listed /\ id \in Ids
      BY <1>4, <3>1
    <3>3. report[k].status[id] = "ok" /\ Stamped(Read, id)
      BY <1>0, <2>1, <3>2 DEF ZeroIsTrue
    <3> QED BY <1>1, <1>3, <3>1, <3>2, <3>3, ServesAssumption DEF ReportGrows, Status
  <2>2. CASE report[k].exit # "zero"
    <3>1. PICK c \in Checkers :
             /\ ReplaceFile(c) /\ proc[c].check = k /\ Writing(proc[c])
             /\ \A i \in report[k].listed : report[k].status[i] = "ok"
      BY <1>0, <2>2, ExitStep
    <3>2. /\ k \in 1..checks /\ proc[c].probed = report[k].listed
          /\ proc[c].doc = Stamp(Read, report[k].listed, k)
      BY <1>0, <3>1 DEF ProcInv, Checking
    <3>3. Read' = Stamp(Read, report[k].listed, k)
      <4>1. c \in Procs
        BY DEF Procs
      <4> QED BY <3>1, <3>2, <4>1, ReplaceIsPromised
    <3>4. id \in report[k].listed /\ id \in Ids /\ id \in IdsOf(Read)
      BY <1>0, <1>4, <3>2 DEF ListedIn
    <3>5. Stamped(Read', id)
      BY <1>0, <3>3, <3>4, StampChecks
    <3>6. report[k].status[id] = "ok"
      BY <3>1, <3>4
    <3> QED BY <1>1, <3>2, <3>4, <3>5, <3>6, ServesAssumption DEF ReportGrows, Status
  <2> QED BY <2>1, <2>2
<1> QED BY <1>1, <1>2, <1>5, <1>6, <1>7 DEF StampInv

(* The invariants hold at the start and are kept by every step.            *)
LEMMA StampInductive ==
    ASSUME Overlap = FALSE
    PROVE  /\ CheckedInit => StampInv
           /\ IInv /\ CheckInvariant /\ StampInv /\ [CheckedNext]_cvars => StampInv'
<1>1. ASSUME CheckedInit PROVE StampInv
  <2>1. \A k \in 1..MaxChecks : report[k] = Unread
    BY <1>1 DEF CheckedInit
  <2>2. Unread \in Report /\ Unread.listed = {} /\ Unread.exit = "running"
    BY DEF Unread, Report
  <2>3. ReportType
    BY <1>1, <2>2 DEF CheckedInit, ReportType
  <2>4. Read = {} /\ \A p \in Procs : proc[p] = Idle
    BY <1>1 DEF CheckedInit, Init, Read
  <2>5. ProcInv
    BY <2>4 DEF ProcInv, Checking, Writing, Idle, Procs
  <2> QED BY <2>1, <2>2, <2>3, <2>4, <2>5
          DEF StampInv, StampedTogether, ZeroIsTrue, LaterUnread, ListedIn
<1>2. ASSUME IInv, CheckInvariant, StampInv, [CheckedNext]_cvars PROVE StampInv'
  <2>1. IInv' /\ CheckInvariant'
    BY <1>2, CheckInductive
  <2> QED BY <1>2, <2>1, StampStep DEF CheckInvariant
<1> QED BY <1>1, <1>2

(* What checks write back is complete: a row that any check has stamped    *)
(* stands among the stamped rows of all that it listed, and each of them   *)
(* has an answer, for any number of checks, crashes and failing probes.    *)
THEOREM AlwaysAnnotatedTogether ==
    ASSUME Overlap = FALSE
    PROVE  CheckedSpec => []AnnotatedTogether
<1>1. StampInv => AnnotatedTogether
  BY DEF StampInv, StampedTogether, AnnotatedTogether, Answered, Stamped
<1> QED BY <1>1, CheckInductive, StampInductive, PTL DEF CheckedSpec

(* The exit code 0 of any check says that all that it listed is ok and is  *)
(* stamped in the file, then and ever after.                               *)
THEOREM ExitZeroIsTrue ==
    ASSUME Overlap = FALSE
    PROVE  CheckedSpec => []ExitZeroMeansOk
<1>1. IInv /\ StampInv => ExitZeroMeansOk
  <2> SUFFICES ASSUME IInv, StampInv PROVE ExitZeroMeansOk
    OBVIOUS
  <2>1. 1..checks \subseteq 1..MaxChecks
    BY ConstantsAssumption DEF IInv, TypeInv, TypeOK
  <2> QED BY <2>1 DEF StampInv, ZeroIsTrue, ExitZeroMeansOk, Stamped
<1> QED BY <1>1, CheckInductive, StampInductive, PTL DEF CheckedSpec
==============================================================================

---------------------------- MODULE PublisherFile ----------------------------
(***************************************************************************)
(* The publishers registry on disk (registry/publishers_store.py), used by *)
(* two kinds of processes: the server, which seeds the file and registers  *)
(* publishers (registry/registration.py), and the command                  *)
(* "benson check-publishers" (main.py, registry/publishers_check.py).      *)
(*                                                                         *)
(* A step is one access to the file system.  Every section of the store    *)
(* holds an asyncio.Lock and never awaits in it, so within one process     *)
(* sections exclude each other; between processes nothing does.  Overlap   *)
(* says whether sections of two processes may overlap in time.  A process  *)
(* may crash at every step and is started again.                           *)
(***************************************************************************)
EXTENDS Naturals, FiniteSets

CONSTANTS
    Server,          \* the server process
    Checkers,        \* processes that run check-publishers, again and again
    Inodes,          \* enough of them for one to be always unused
    Ids,             \* IVOA identifiers
    Endpoints,       \* normalized endpoint URLs
    MaxChecks,       \* bounds the number of checks that are started
    Overlap,         \* do sections of different processes overlap?
    None

VARIABLES
    path,            \* inode of publishers.json, or None
    tmp,             \* inode of publishers.json.tmp, or None
    content,         \* per inode its text: a document, or a garbled one
    proc,            \* what each process is doing
    checks,          \* how many checks have been started
    acked            \* identifiers whose registration was answered with 201

vars == <<path, tmp, content, proc, checks, acked>>

Procs == {Server} \cup Checkers

(* check is the number of the check that stamped the row, 0 for the stamp  *)
(* that the registration itself puts on it.                                *)
Row == [id : Ids, endpoint : Endpoints, check : 0..MaxChecks]

Text == [json : BOOLEAN, rows : SUBSET Row]
Doc(rows) == [json |-> TRUE, rows |-> rows]    \* the empty file reads as Doc({})
Garbled == [json |-> FALSE, rows |-> {}]

(* A process: where it is, the row to register, the document in memory,    *)
(* the open file, where it continues after the write, and the identifiers  *)
(* it has probed with its check number.                                    *)
Proc == [at : {"idle", "identifier", "endpoint", "upsert", "open", "write",
               "replace", "respond", "probing"},
         arg : Row \cup {None}, doc : SUBSET Row, file : Inodes \cup {None},
         then : {"idle", "identifier", "respond"},
         probed : SUBSET Ids, check : 0..MaxChecks]

Idle == [at |-> "idle", arg |-> None, doc |-> {}, file |-> None,
         then |-> "idle", probed |-> {}, check |-> 0]

ASSUME ConstantsAssumption ==
    /\ MaxChecks \in Nat
    /\ Overlap \in BOOLEAN
    /\ Server \notin Checkers
    /\ None \notin Inodes \cup Row

-----------------------------------------------------------------------------
InSection(p) == proc[p].at \in {"open", "write", "replace"}
Free(p) == Overlap \/ \A q \in Procs \ {p} : ~InSection(q)

(* _read_document_unlocked: a missing or empty file is an empty document,  *)
(* anything that is not JSON raises.                                       *)
Readable == path # None => content[path].json
Read == IF path = None THEN {} ELSE content[path].rows

IdsOf(rows) == {r.id : r \in rows}
Becomes(p, new) == proc' = [proc EXCEPT ![p] = new]
NoFileChange == UNCHANGED <<path, tmp, content>>

(* A section that writes starts _write_document_unlocked with doc.         *)
StartWrite(p, doc, then) ==
    Becomes(p, [proc[p] EXCEPT !.at = "open", !.doc = doc, !.then = then])

-----------------------------------------------------------------------------
(* The server.                                                             *)

(* ensure_seed, for every list of publishers that is served.               *)
Seed ==
    /\ proc[Server] = Idle /\ Free(Server)
    /\ path = None
    /\ StartWrite(Server, {}, "idle")
    /\ NoFileChange /\ UNCHANGED <<checks, acked>>

(* Fault: the new row gets no last_checked_at.                             *)
Register_Unstamped(id, endpoint) ==
    LET row == [id |-> id, endpoint |-> endpoint, check |-> None] IN
    /\ proc[Server] = Idle /\ Free(Server)
    /\ Becomes(Server,
               IF path = None
               THEN [Idle EXCEPT !.arg = row, !.at = "open", !.then = "identifier"]
               ELSE [Idle EXCEPT !.arg = row, !.at = "identifier"])
    /\ NoFileChange /\ UNCHANGED <<checks, acked>>

(* register_publisher for an eligible run: ensure_seed first.              *)
Register(id, endpoint) ==
    LET row == [id |-> id, endpoint |-> endpoint, check |-> 0] IN
    /\ proc[Server] = Idle /\ Free(Server)
    /\ Becomes(Server,
               IF path = None
               THEN [Idle EXCEPT !.arg = row, !.at = "open", !.then = "identifier"]
               ELSE [Idle EXCEPT !.arg = row, !.at = "identifier"])
    /\ NoFileChange /\ UNCHANGED <<checks, acked>>

FindByIdentifier ==
    LET p == proc[Server] IN
    /\ p.at = "identifier" /\ Free(Server)
    /\ Becomes(Server, IF Readable /\ \A r \in Read : r.id # p.arg.id
                       THEN [p EXCEPT !.at = "endpoint"]
                       ELSE Idle)                        \* 409 or 500
    /\ NoFileChange /\ UNCHANGED <<checks, acked>>

(* Fault: the endpoint is not looked up.                                   *)
FindByEndpoint_Skipped ==
    /\ proc[Server].at = "endpoint" /\ Free(Server)
    /\ Becomes(Server, [proc[Server] EXCEPT !.at = "upsert"])
    /\ NoFileChange /\ UNCHANGED <<checks, acked>>

FindByEndpoint ==
    LET p == proc[Server] IN
    /\ p.at = "endpoint" /\ Free(Server)
    /\ Becomes(Server, IF Readable /\ \A r \in Read : r.endpoint # p.arg.endpoint
                       THEN [p EXCEPT !.at = "upsert"]
                       ELSE Idle)
    /\ NoFileChange /\ UNCHANGED <<checks, acked>>

(* upsert reads the file again and replaces or appends the row.            *)
Upsert ==
    LET p == proc[Server] IN
    /\ p.at = "upsert" /\ Free(Server)
    /\ IF Readable
       THEN StartWrite(Server, {r \in Read : r.id # p.arg.id} \cup {p.arg}, "respond")
       ELSE Becomes(Server, Idle)
    /\ NoFileChange /\ UNCHANGED <<checks, acked>>

(* The client gets its 201.                                                *)
Respond ==
    /\ proc[Server].at = "respond"
    /\ acked' = acked \cup {proc[Server].arg.id}
    /\ Becomes(Server, Idle)
    /\ NoFileChange /\ UNCHANGED checks

-----------------------------------------------------------------------------
(* benson check-publishers.                                                *)

(* check_publishers loads the rows and takes its timestamp.                *)
Load(c) ==
    /\ proc[c] = Idle /\ Free(c)
    /\ checks < MaxChecks
    /\ checks' = checks + 1
    /\ Becomes(c, IF Readable
                  THEN [Idle EXCEPT !.at = "probing", !.doc = Read,
                                    !.probed = IdsOf(Read), !.check = checks + 1]
                  ELSE Idle)
    /\ NoFileChange /\ UNCHANGED acked

(* --dry-run, or a probe raised something that is not an httpx.HTTPError.  *)
EndWithoutAnnotating(c) ==
    /\ proc[c].at = "probing"
    /\ Becomes(c, Idle)
    /\ NoFileChange /\ UNCHANGED <<checks, acked>>

Stamp(rows, probed, check) ==
    {IF r.id \in probed THEN [r EXCEPT !.check = check] ELSE r : r \in rows}

(* Fault: the document of the load is written back after the probes.       *)
AnnotateChecks_Stale(c) ==
    LET p == proc[c] IN
    /\ p.at = "probing" /\ Free(c)
    /\ IF Readable
       THEN StartWrite(c, Stamp(p.doc, p.probed, p.check), "idle")
       ELSE Becomes(c, Idle)
    /\ NoFileChange /\ UNCHANGED <<checks, acked>>

(* Fault: only the rows that were probed are written back.                 *)
AnnotateChecks_OnlyProbed(c) ==
    LET p == proc[c] IN
    /\ p.at = "probing" /\ Free(c)
    /\ IF Readable
       THEN StartWrite(c, Stamp({r \in Read : r.id \in p.probed}, p.probed, p.check), "idle")
       ELSE Becomes(c, Idle)
    /\ NoFileChange /\ UNCHANGED <<checks, acked>>

(* annotate_checks, after the probes: reads the file again.                *)
AnnotateChecks(c) ==
    LET p == proc[c] IN
    /\ p.at = "probing" /\ Free(c)
    /\ IF Readable
       THEN StartWrite(c, Stamp(Read, p.probed, p.check), "idle")
       ELSE Becomes(c, Idle)
    /\ NoFileChange /\ UNCHANGED <<checks, acked>>

-----------------------------------------------------------------------------
(* _write_document_unlocked and crashes, for every process.                *)

(* Fault: publishers.json itself is opened for writing.                    *)
OpenTmp_InPlace(p) ==
    /\ proc[p].at = "open"
    /\ \E f \in IF path # None THEN {path} ELSE Inodes \ {proc[q].file : q \in Procs} :
          /\ path' = f
          /\ content' = [content EXCEPT ![f] = Doc({})]
          /\ Becomes(p, [proc[p] EXCEPT !.at = "write", !.file = f])
    /\ tmp' = path'
    /\ UNCHANGED <<checks, acked>>

(* open(tmp, "w"): creates the file or truncates the one that is there.    *)
OpenTmp(p) ==
    /\ proc[p].at = "open"
    /\ \E f \in IF tmp # None THEN {tmp}
                ELSE Inodes \ ({path} \cup {proc[q].file : q \in Procs}) :
          /\ tmp' = f
          /\ content' = [content EXCEPT ![f] = Doc({})]
          /\ Becomes(p, [proc[p] EXCEPT !.at = "write", !.file = f])
    /\ UNCHANGED <<path, checks, acked>>

(* The text goes to the opened inode, whatever its name is by now.  When   *)
(* another process wrote there since, the longer text shows through.       *)
WriteTmp(p) ==
    LET f == proc[p].file IN
    /\ proc[p].at = "write"
    /\ \E new \in {Doc(proc[p].doc)} \cup (IF content[f] = Doc({}) THEN {} ELSE {Garbled}) :
          content' = [content EXCEPT ![f] = new]
    /\ Becomes(p, [proc[p] EXCEPT !.at = "replace", !.file = None])
    /\ UNCHANGED <<path, tmp, checks, acked>>

(* os.replace: fails when another process has already moved the file.      *)
ReplaceFile(p) ==
    /\ proc[p].at = "replace"
    /\ IF tmp = None
       THEN Becomes(p, Idle) /\ UNCHANGED path
       ELSE /\ path' = tmp
            /\ Becomes(p, IF proc[p].then = "idle" THEN Idle
                          ELSE [proc[p] EXCEPT !.at = proc[p].then, !.doc = {}])
    /\ tmp' = None
    /\ UNCHANGED <<content, checks, acked>>

(* The process dies and its memory and locks are gone; a text it was       *)
(* writing may be there in part.                                           *)
Crash(p) ==
    /\ proc[p] # Idle
    /\ \E cut \in BOOLEAN :
          content' = IF cut /\ proc[p].at = "write"
                     THEN [content EXCEPT ![proc[p].file] = Garbled] ELSE content
    /\ Becomes(p, Idle)
    /\ UNCHANGED <<path, tmp, checks, acked>>

-----------------------------------------------------------------------------
Init ==
    /\ path = None
    /\ tmp = None
    /\ content = [f \in Inodes |-> Doc({})]
    /\ proc = [p \in Procs |-> Idle]
    /\ checks = 0
    /\ acked = {}

Serve ==
    \/ Seed \/ FindByIdentifier \/ FindByEndpoint \/ Upsert \/ Respond
    \/ \E id \in Ids, endpoint \in Endpoints : Register(id, endpoint)

Check(c) == Load(c) \/ EndWithoutAnnotating(c) \/ AnnotateChecks(c)

Write(p) == OpenTmp(p) \/ WriteTmp(p) \/ ReplaceFile(p) \/ Crash(p)

Next == Serve \/ (\E c \in Checkers : Check(c)) \/ (\E p \in Procs : Write(p))

Spec == Init /\ [][Next]_vars

-----------------------------------------------------------------------------
(* Properties.                                                             *)

(* The file and the processes are of the declared kinds.                   *)
TypeOK ==
    /\ path \in Inodes \cup {None}
    /\ tmp \in Inodes \cup {None}
    /\ content \in [Inodes -> Text]
    /\ proc \in [Procs -> Proc]
    /\ checks \in 0..MaxChecks
    /\ acked \subseteq Ids

(* A crash at any step leaves publishers.json a complete document: nobody  *)
(* finds it garbled and no registration that was answered with 201 is ever *)
(* missing from it (publishers_store.py 110-114).                          *)
AckedIsStored == Readable /\ acked \subseteq IdsOf(Read)

(* No identifier and no endpoint is listed twice, although a registration  *)
(* looks them up in sections of their own before it writes                 *)
(* (registration.py 46-54, publishers_store.py 158-178).                   *)
NoDuplicates ==
    Readable => \A r, s \in Read : r.id = s.id \/ r.endpoint = s.endpoint => r = s

(* A step of a liveness check, of any number of them, never adds, removes  *)
(* or renames a publisher: it only "writes status metadata back"           *)
(* (README.md 77; publishers_store.py 180-199).                            *)
CheckOnlyStamps ==
    [][\A c \in Checkers : proc'[c] # proc[c] =>
          {<<r.id, r.endpoint>> : r \in Read} = {<<r.id, r.endpoint>> : r \in Read'}]_vars

(* What the registry promises, PublisherRegistry, is what the file does.   *)
Registry == INSTANCE PublisherRegistry WITH
    publishers <- Read, Stamps <- 0..MaxChecks

RegistrySpec == Registry!Spec
=============================================================================

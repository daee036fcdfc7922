------------------------------- MODULE Catalog -------------------------------
(***************************************************************************)
(* catalog::Catalog over several lives of the process: it is loaded when   *)
(* the process starts and written when it ends; a crash may come at any    *)
(* time, in the middle of the writing too.                                 *)
(*                                                                         *)
(* What a file holds is a sequence of fields, each a tuple: a string read  *)
(* back in part is Torn, one that is not there is the empty string.        *)
(***************************************************************************)
EXTENDS DiskManager, SequencesExt, FiniteSetsExt

CONSTANTS
    Databases,     \* the names clients create databases under
    Namespaces,    \* the names of their namespaces, "public" among them
    Tables,        \* the names of tables
    Workloads,     \* what the clients of a run use, and the bound on the starts
                   \*   of the process: [databases, tables, lives]
    MaxTears       \* bound on the crashes while flush runs

ASSUME CatalogAssumption ==
    /\ MaxFiles \in Nat /\ MaxPages \in Nat /\ MaxTears \in Nat
    /\ "public" \in Namespaces
    /\ \A w \in Workloads :
          w.databases \subseteq Databases /\ w.tables \subseteq Tables /\ w.lives \in Nat

VARIABLES
    status,        \* "down", "up", "flushing"
    databases,     \* databases_ with metadatas_: name -> [meta, namespaces, count]
    tables,        \* tables_ with table_oids_: name -> [oid, file, pages]
    next_table_oid,
    next_page_id,  \* BufferPoolManager::next_page_id_, one for all files
    flushed,       \* what flush has given to the catalog file's stream
    todo,          \* the databases flush has not written yet
    writing,       \* the databases, one or none, whose metadata is being written
    saved,         \* not in the code: the databases of the last flush that ended,
                   \*   none when another has begun since;
    created,       \*   every <<database, namespace>> clients ever created;
    lives,         \*   how often the process has started,
    tears,         \*   how often flush was cut short
    workload       \*   and what its clients use

memory == <<databases, tables, next_table_oid, next_page_id>>
flush == <<flushed, todo, writing>>
ghosts == <<saved, created, lives, tears, workload>>
vars == <<disk, dm, got, status, memory, flush, ghosts>>

(* -- fields ----------------------------------------------------------------- *)
MAGIC_NUMBER == <<"magic">>
DATABASE_VERSION == <<"version">>
Count(n) == <<"count", n>>
Name(d) == <<"name", d>>
MetaPath(d) == <<"meta", d>>
DbPath(d) == <<"db", d>>
TablePath(t) == <<"tbl", t>>
CatalogPath == <<"catalog">>
Torn(field) == <<"torn">> \o field
EmptyString == <<>>
IsString(field) == field[1] \in {"name", "meta", "db", "ns", "torn"}
Namespace(n) == <<"ns", n>>

\* what a stream that stops before its end may have put into the file
CutShort(fields) ==
    {SubSeq(fields, 1, n) : n \in 0 .. Len(fields)}
    \union {Append(SubSeq(fields, 1, n - 1), Torn(fields[n])) :
               n \in {i \in DOMAIN fields : fields[i] # EmptyString /\ IsString(fields[i])}}

\* util::read_string at the n-th field, util::read_binary of a number there
read_string(file, n) == IF n <= Len(file) THEN file[n] ELSE EmptyString
Readable(file, n) == n <= Len(file)

(* -- load ------------------------------------------------------------------- *)
NoNamespaces(path) == [meta |-> path, namespaces |-> {}, count |-> 0]

\* Mutant: a new namespace is not counted
Uncounted(db, n) == [db EXCEPT !.namespaces = @ \union {n}]

\* create_namespace is idempotent and counts what it adds
create_namespace(db, n) ==
    IF n \in db.namespaces THEN db
    ELSE [db EXCEPT !.namespaces = @ \union {n}, !.count = @ + 1]

\* the loop of load_database_metadata
WithNamespacesOf(base, file) ==
    LET upTo[i \in 0 .. file[3][2]] ==
            IF i = 0 THEN base ELSE create_namespace(upTo[i - 1], read_string(file, 3 + i))
    IN  upTo[file[3][2]]

\* load_database_metadata: the outcomes for the file at path.  The header is
\* MAGIC_NUMBER and one field for the names and times, which are read and
\* dropped.  A count that is not there is whatever the variable holds.
load_database_metadata(path) ==
    LET file == IF path \in DOMAIN disk THEN disk[path] ELSE <<>>
        base == NoNamespaces(path)
    IN  IF ~Readable(file, 1) THEN {base}
        ELSE IF ~Readable(file, 3) THEN {base, create_namespace(base, EmptyString)}
        ELSE {WithNamespacesOf(base, file)}

\* the name and the metadata path of entry i of the catalog file; of two
\* entries with one name, the first stays
EntryName(file, i) == read_string(file, 3 * i + 1)
\* Mutant: every database loads the metadata of the first one
FirstMeta(file, i) == read_string(file, 6)
EntryMeta(file, i) == read_string(file, 3 * i + 3)

\* load: the registries it may end with
CatalogFile == IF CatalogPath \in DOMAIN disk THEN disk[CatalogPath] ELSE <<>>
LoadThrows == Readable(CatalogFile, 2) /\ ~Readable(CatalogFile, 3)
Loaded ==
    IF ~Readable(CatalogFile, 3) THEN {<<>>}
    ELSE LET entries == 1 .. CatalogFile[3][2]
             names == {EntryName(CatalogFile, i) : i \in entries}
             first(n) == Min({i \in entries : EntryName(CatalogFile, i) = n})
             outcomes(n) == load_database_metadata(EntryMeta(CatalogFile, first(n)))
         IN  {f \in [names -> UNION {outcomes(n) : n \in names}] :
                 \A n \in names : f[n] \in outcomes(n)}

(* -- the life of a process ---------------------------------------------------- *)
Init ==
    /\ disk = <<>> /\ dm = Start /\ got = NoAnswer
    /\ status = "down"
    /\ databases = <<>> /\ tables = <<>> /\ next_table_oid = 0 /\ next_page_id = 0
    /\ flushed = <<>> /\ todo = {} /\ writing = {}
    /\ saved = <<>> /\ created = {} /\ lives = 0 /\ tears = 0 /\ workload \in Workloads

\* the constructors; an exception of load ends the process at once
StartUp ==
    /\ status = "down" /\ lives < workload.lives
    /\ lives' = lives + 1
    /\ IF LoadThrows THEN UNCHANGED <<databases, status>>
       ELSE databases' \in Loaded /\ status' = "up"
    /\ UNCHANGED <<disk, dm, got, tables, next_table_oid, next_page_id, flush, saved, created, tears, workload>>

\* memory is gone; what was on its way to the files is there in part
Gone ==
    /\ status' = "down"
    /\ dm' = Start /\ got' = NoAnswer
    /\ databases' = <<>> /\ tables' = <<>> /\ next_table_oid' = 0 /\ next_page_id' = 0
    /\ flushed' = <<>> /\ todo' = {} /\ writing' = {}

\* save_database_metadata writes a header and the namespaces, in any order
MetaFields(db, order) == <<MAGIC_NUMBER, <<"header">>, Count(db.count)>> \o order
Stopped ==
    \E prefix \in CutShort(flushed) :
        IF writing = {} THEN disk' = Put(disk, CatalogPath, prefix)
        ELSE \E name \in writing : \E order \in SetToSeqs(databases[name].namespaces) :
             \E part \in CutShort(MetaFields(databases[name], order)) :
                disk' = Put(Put(disk, databases[name].meta, part), CatalogPath, prefix)

Crash ==
    /\ \/ /\ status = "up" /\ UNCHANGED <<disk, tears>>
       \/ /\ status = "flushing" /\ tears < MaxTears
          /\ Stopped /\ tears' = tears + 1
    /\ Gone
    /\ UNCHANGED <<saved, created, lives, workload>>

(* -- databases ---------------------------------------------------------------- *)
Running == status = "up"

\* a name in use is refused, with nothing changed
create_database(d) ==
    /\ Running /\ Name(d) \notin DOMAIN databases
    /\ dm.next_file_id + 2 <= MaxFiles
    /\ disk' = Touched(Touched(disk, DbPath(d)), MetaPath(d))
    /\ dm' = Created(Created(dm, DbPath(d)), MetaPath(d))
    /\ databases' = Put(databases, Name(d),
                        create_namespace(NoNamespaces(MetaPath(d)), Namespace("public")))
    /\ created' = created \union {<<Name(d), Namespace("public")>>}
    /\ UNCHANGED <<got, status, tables, next_table_oid, next_page_id, flush, saved, lives, tears, workload>>

\* create_file throws for the first or the second file, which is caught
create_databaseFails(d) ==
    /\ Running /\ Name(d) \notin DOMAIN databases
    /\ dm.next_file_id + 2 <= MaxFiles
    /\ \/ dm' = CreatedInVain(dm, DbPath(d)) /\ disk' = disk
       \/ dm' = CreatedInVain(Created(dm, DbPath(d)), MetaPath(d)) /\ disk' = Touched(disk, DbPath(d))
    /\ UNCHANGED <<got, status, memory, flush, ghosts>>

CreateNamespace(name, n) ==
    /\ Running /\ name \in DOMAIN databases
    /\ databases' = [databases EXCEPT ![name] = create_namespace(@, Namespace(n))]
    /\ created' = created \union {<<name, Namespace(n)>>}
    /\ UNCHANGED <<disk, dm, got, status, tables, next_table_oid, next_page_id, flush, saved, lives, tears, workload>>

(* -- tables -------------------------------------------------------------------- *)
\* the id create_file has just returned
FileOf(t) == dm'.path_to_file_id[TablePath(t)]

\* The registry is not persisted: after a restart the table is created again,
\* and its heap's first page, at the first page id of this process, is written
\* with zeros into the file the last process left.  A table already there is
\* returned as it is.
create_table(t) ==
    /\ Running /\ t \notin DOMAIN tables
    /\ dm.next_file_id < MaxFiles /\ next_page_id < MaxPages
    /\ dm' = Created(dm, TablePath(t))
    /\ disk' = PutPage(Touched(disk, TablePath(t)), dm', FileOf(t), next_page_id, Zero)
    /\ tables' = Put(tables, t, [oid |-> next_table_oid, file |-> FileOf(t),
                                 pages |-> {next_page_id}])
    /\ next_table_oid' = next_table_oid + 1
    /\ next_page_id' = next_page_id + 1
    /\ UNCHANGED <<got, status, databases, flush, ghosts>>

\* the file does not open, or the pool has no frame for the first page
create_tableFails(t) ==
    /\ Running /\ t \notin DOMAIN tables
    /\ dm.next_file_id < MaxFiles
    /\ \/ dm' = CreatedInVain(dm, TablePath(t)) /\ disk' = disk
       \/ dm' = Created(dm, TablePath(t)) /\ disk' = Touched(disk, TablePath(t))
    /\ next_table_oid' = next_table_oid + 1
    /\ UNCHANGED <<got, status, databases, tables, next_page_id, flush, ghosts>>

\* the buffer pool adds a page to a table and reserves it on disk
NewPage(t) ==
    /\ Running /\ t \in DOMAIN tables /\ next_page_id < MaxPages
    /\ write_page(tables[t].file, next_page_id, Zero)
    /\ next_page_id' = next_page_id + 1
    /\ tables' = IF disk' = disk THEN tables
                 ELSE [tables EXCEPT ![t].pages = @ \union {next_page_id}]
    /\ UNCHANGED <<status, databases, next_table_oid, flush, ghosts>>

\* the pool writes a page of the table back, reads one, or deletes one; every
\* page of a table holds the table's name where it is not zeros
PageCall(t) ==
    /\ Running /\ t \in DOMAIN tables
    /\ \E p \in tables[t].pages :
          \/ write_page(tables[t].file, p, t)
          \/ read_page(tables[t].file, p)
          \/ delete_page(tables[t].file, p)
    /\ UNCHANGED <<status, memory, flush, ghosts>>

OpenFile(t) ==
    /\ Running /\ open_file(TablePath(t))
    /\ UNCHANGED <<status, memory, flush, ghosts>>

(* -- flush, from the destructor -------------------------------------------------- *)
FlushBegin ==
    /\ Running
    /\ status' = "flushing"
    /\ disk' = Put(disk, CatalogPath, <<>>)
    /\ flushed' = <<MAGIC_NUMBER, DATABASE_VERSION, Count(Cardinality(DOMAIN databases))>>
    /\ todo' = DOMAIN databases
    /\ saved' = <<>>
    /\ UNCHANGED <<dm, got, memory, writing, created, lives, tears, workload>>

\* without its directory the catalog file does not open: nothing is written
FlushRefused ==
    /\ Running /\ disk = <<>>
    /\ Gone
    /\ UNCHANGED <<disk, ghosts>>

\* an entry of the catalog file, and save_database_metadata up to the
\* truncation of the metadata file
Opens(path) == path # EmptyString
FlushDatabase(name) ==
    /\ status = "flushing" /\ writing = {} /\ name \in todo
    /\ Opens(databases[name].meta)
    /\ flushed' = flushed \o <<name, <<"db">> \o name, databases[name].meta>>
    /\ disk' = Put(disk, databases[name].meta, <<>>)
    /\ writing' = {name}
    /\ todo' = todo \ {name}
    /\ UNCHANGED <<dm, got, status, memory, ghosts>>

\* The metadata file is closed.  The order matters to no reader of a whole file.
FlushMetadata ==
    /\ status = "flushing"
    /\ \E name \in writing :
          LET db == databases[name]
          IN  disk' = Put(disk, db.meta, MetaFields(db, SetToSeq(db.namespaces)))
    /\ writing' = {}
    /\ UNCHANGED <<dm, got, status, memory, flushed, todo, ghosts>>

\* A metadata path that does not open throws out of the destructor, which
\* terminates the process
FlushTerminates ==
    /\ status = "flushing" /\ writing = {}
    /\ \E name \in todo : ~Opens(databases[name].meta)
    /\ Stopped /\ Gone
    /\ UNCHANGED ghosts

FlushEnd ==
    /\ status = "flushing" /\ writing = {} /\ todo = {}
    /\ disk' = Put(disk, CatalogPath, flushed)
    /\ Gone
    /\ saved' = [name \in DOMAIN databases |-> databases[name].namespaces]
    /\ UNCHANGED <<created, lives, tears, workload>>

Next ==
    \/ StartUp \/ Crash
    \/ \E d \in workload.databases : create_database(d) \/ create_databaseFails(d)
    \/ \E d \in workload.databases, n \in Namespaces : CreateNamespace(Name(d), n)
    \/ \E t \in workload.tables : create_table(t) \/ create_tableFails(t)
    \/ \E t \in workload.tables : NewPage(t) \/ PageCall(t) \/ OpenFile(t)
    \/ FlushBegin \/ FlushRefused
    \/ \E name \in todo : FlushDatabase(name)
    \/ FlushMetadata \/ FlushTerminates \/ FlushEnd

Spec == Init /\ [][Next]_vars

(* -- properties ------------------------------------------------------------------ *)
\* What a flush that ended has written is there in every later life of the
\* process until another flush begins, whatever crashes come between: all
\* databases with all their namespaces.
SavedSurvives ==
    Running =>
        \A name \in DOMAIN saved :
            name \in DOMAIN databases /\ saved[name] \subseteq databases[name].namespaces

\* Even after a flush that was cut short, a database and a namespace that go
\* by a whole name were created under it; anything else has a name that was
\* read in part or not at all.
Whole(field) == field # EmptyString /\ field[1] # "torn"
NothingInvented ==
    \A name \in DOMAIN databases : Whole(name) =>
        /\ name \in {c[1] : c \in created}
        /\ \A n \in databases[name].namespaces : Whole(n) => <<name, n>> \in created

\* No table ever reads or overwrites the bytes of another.
TablesAreApart ==
    /\ \A t \in Tables : TablePath(t) \in DOMAIN disk =>
           \A i \in DOMAIN disk[TablePath(t)] : disk[TablePath(t)][i] \in {Zero, t}
    /\ \A t \in Tables : got.path = TablePath(t) => got.data \in {Zero, t}
=============================================================================

---------------------------- MODULE CatalogProofs ----------------------------
(***************************************************************************)
(* Proofs about Catalog, for any names of databases, namespaces and        *)
(* tables, any number of lives of the process and of crashes, and any      *)
(* number of files and pages.                                              *)
(***************************************************************************)
EXTENDS Catalog, FiniteSetTheorems, SequenceTheorems, WellFoundedInduction, TLAPS

-----------------------------------------------------------------------------
(***************************************************************************)
(* Induction over a set of numbers, which first-order provers can use in   *)
(* place of a predicate.                                                   *)
(***************************************************************************)
LEMMA NatMinimum ==
  ASSUME NEW T \in SUBSET Nat, T # {}
  PROVE  \E m \in T : \A k \in T : m <= k
<1>1. PICK m \in T : \A k \in T : <<k, m>> \notin OpToRel(<, Nat)
  <2>1. IsWellFoundedOn(OpToRel(<, Nat), Nat)
    BY NatLessThanWellFounded
  <2> QED
    BY <2>1, WFMin
<1>2. ASSUME NEW k \in T, k < m PROVE FALSE
  <2>1. PICK p \in Nat \X Nat : p = <<k, m>>
    OBVIOUS
  <2>2. p[1] = k /\ p[2] = m
    BY <2>1
  <2>3. p \in OpToRel(<, Nat)
    BY <1>2, <2>2 DEF OpToRel
  <2> QED
    BY <1>1, <2>1, <2>3
<1> QED
  BY <1>2

LEMMA UpToInduction ==
  ASSUME NEW n \in Nat, NEW S, 0 \in S,
         \A m \in 1 .. n : m - 1 \in S => m \in S
  PROVE  0 .. n \subseteq S
<1> SUFFICES ASSUME (0 .. n) \ S # {}
             PROVE  FALSE
  OBVIOUS
<1>1. PICK m \in (0 .. n) \ S : \A k \in (0 .. n) \ S : m <= k
  <2>1. (0 .. n) \ S \in SUBSET Nat
    OBVIOUS
  <2> QED
    BY <2>1, NatMinimum
<1>2. m \in 1 .. n /\ m - 1 \notin (0 .. n) \ S
  BY <1>1
<1>3. m - 1 \in S
  BY <1>2
<1> QED
  BY <1>1, <1>2, <1>3

-----------------------------------------------------------------------------
(* What files hold. *)

Words == Databases \cup Namespaces \cup Tables \cup Nat
           \cup {"magic", "version", "count", "header", "name", "meta", "db",
                 "tbl", "ns", "torn", "catalog"}
(* The fields of the catalog's own files, and their paths: a table's path is
   never one. *)
Fields == {f \in Seq(Words) : f # EmptyString => f[1] # "tbl"}

LEMMA NamesAreFields ==
  /\ \A d \in Databases : /\ Name(d) \in Fields /\ Whole(Name(d))
                          /\ MetaPath(d) \in Fields /\ MetaPath(d) # EmptyString
                          /\ DbPath(d) \in Fields /\ DbPath(d) # EmptyString
  /\ \A n \in Namespaces : Namespace(n) \in Fields
  /\ \A n \in Nat : Count(n) \in Fields
  /\ {MAGIC_NUMBER, DATABASE_VERSION, <<"header">>, EmptyString, CatalogPath} \subseteq Fields
<1>1. \A d \in Databases : /\ Name(d) \in Fields /\ Whole(Name(d))
                           /\ MetaPath(d) \in Fields /\ MetaPath(d) # EmptyString
                           /\ DbPath(d) \in Fields /\ DbPath(d) # EmptyString
  BY DEF Fields, Words, Name, Whole, MetaPath, DbPath, EmptyString
<1>2. \A n \in Namespaces : Namespace(n) \in Fields
  BY DEF Fields, Words, Namespace, EmptyString
<1>3. \A n \in Nat : Count(n) \in Fields
  BY DEF Fields, Words, Count, EmptyString
<1>4. {MAGIC_NUMBER, DATABASE_VERSION, <<"header">>, EmptyString, CatalogPath} \subseteq Fields
  BY DEF Fields, Words, MAGIC_NUMBER, DATABASE_VERSION, EmptyString, CatalogPath
<1> QED
  BY <1>1, <1>2, <1>3, <1>4

LEMMA TablePathsAreNone ==
  \A t \in Tables : TablePath(t) \notin Fields /\ TablePath(t) # EmptyString
BY DEF TablePath, Fields, EmptyString

(* The paths of the metadata of d: what was read of the first, in part. *)
MetaOf(p, d) == /\ p \in Seq(Words) /\ Len(p) >= 2
                /\ p[Len(p)] = d /\ p[Len(p) - 1] = "meta"

LEMMA MetaOfFacts ==
  /\ \A d \in Databases : MetaOf(MetaPath(d), d)
  /\ \A p, d, e : MetaOf(p, d) /\ MetaOf(p, e) => d = e
  /\ \A d : ~MetaOf(CatalogPath, d)
BY DEF MetaOf, MetaPath, CatalogPath, Words

LEMMA Prefixed ==
  ASSUME NEW f \in Fields, NEW w \in {"torn", "db"}
  PROVE  /\ <<w>> \o f \in Fields
         /\ <<w>> \o f # EmptyString
         /\ (<<w>> \o f)[1] = w
         /\ \A d : MetaOf(f, d) => MetaOf(<<w>> \o f, d)
<1>1. f \in Seq(Words) /\ <<w>> \in Seq(Words) /\ Len(<<w>>) = 1 /\ <<w>>[1] = w
  BY DEF Fields, Words
<1>2. /\ <<w>> \o f \in Seq(Words) /\ Len(<<w>> \o f) = 1 + Len(f)
      /\ (<<w>> \o f)[1] = w
      /\ \A i \in 1 .. Len(f) : (<<w>> \o f)[i + 1] = f[i]
  BY <1>1
<1>3. <<w>> \o f # EmptyString
  BY <1>1, <1>2 DEF EmptyString
<1>4. <<w>> \o f \in Fields
  BY <1>2 DEF Fields
<1>5. ASSUME NEW d, MetaOf(f, d) PROVE MetaOf(<<w>> \o f, d)
  <2>1. PICK n \in Nat : n = Len(f) /\ n >= 2 /\ f[n] = d /\ f[n - 1] = "meta"
    BY <1>1, <1>5 DEF MetaOf
  <2>2. (<<w>> \o f)[n + 1] = d /\ (<<w>> \o f)[(n - 1) + 1] = "meta"
    BY <1>2, <2>1
  <2> QED
    BY <1>2, <2>1, <2>2 DEF MetaOf
<1> QED
  BY <1>2, <1>3, <1>4, <1>5

-----------------------------------------------------------------------------
(* A file whose writing was cut short. *)

(* A file of the catalog: fields, the third of which is a count. *)
RecordFile(file) ==
  file \in Seq(Fields) /\ (Len(file) >= 3 => \E n \in Nat : file[3] = Count(n))

CutOf(part, fields) ==
  /\ part \in Seq(Fields) /\ Len(part) <= Len(fields)
  /\ \A i \in 1 .. Len(part) :
       \/ part[i] = fields[i]
       \/ /\ i = Len(part) /\ IsString(fields[i]) /\ fields[i] # EmptyString
          /\ part[i] = Torn(fields[i])

LEMMA CutShortCuts ==
  ASSUME NEW fields \in Seq(Fields), NEW part \in CutShort(fields)
  PROVE  CutOf(part, fields)
<1>1. CASE \E n \in 0 .. Len(fields) : part = SubSeq(fields, 1, n)
  <2>1. PICK n \in 0 .. Len(fields) : part = SubSeq(fields, 1, n)
    BY <1>1
  <2>2. /\ part \in Seq(Fields) /\ Len(part) = n
        /\ \A i \in 1 .. n : part[i] = fields[i]
    BY <2>1
  <2> QED
    BY <2>2 DEF CutOf
<1>2. CASE \E n \in DOMAIN fields :
             /\ fields[n] # EmptyString /\ IsString(fields[n])
             /\ part = Append(SubSeq(fields, 1, n - 1), Torn(fields[n]))
  <2>1. PICK n \in DOMAIN fields :
             /\ fields[n] # EmptyString /\ IsString(fields[n])
             /\ part = Append(SubSeq(fields, 1, n - 1), Torn(fields[n]))
    BY <1>2
  <2>2. n \in 1 .. Len(fields) /\ fields[n] \in Fields
    BY <2>1
  <2>3. Torn(fields[n]) \in Fields
    BY <2>2, Prefixed DEF Torn
  <2>4. PICK torn : torn = Torn(fields[n])
    OBVIOUS
  <2>5. PICK whole : whole = SubSeq(fields, 1, n - 1)
    OBVIOUS
  <2>6. /\ whole \in Seq(Fields) /\ Len(whole) = n - 1
        /\ \A i \in 1 .. n - 1 : whole[i] = fields[i]
    BY <2>2, <2>5
  <2>7. /\ part \in Seq(Fields) /\ Len(part) = n /\ part[n] = torn
        /\ \A i \in 1 .. n - 1 : part[i] = whole[i]
    BY <2>1, <2>2, <2>3, <2>4, <2>5, <2>6
  <2> QED
    BY <2>1, <2>2, <2>4, <2>6, <2>7 DEF CutOf
<1> QED
  BY <1>1, <1>2 DEF CutShort

LEMMA CutRecord ==
  ASSUME NEW fields, RecordFile(fields), NEW part, CutOf(part, fields)
  PROVE  RecordFile(part)
<1> SUFFICES ASSUME Len(part) >= 3 PROVE \E n \in Nat : part[3] = Count(n)
  BY DEF CutOf, RecordFile
<1>1. 3 \in 1 .. Len(part) /\ Len(fields) >= 3
  BY DEF CutOf, RecordFile
<1>2. PICK n \in Nat : fields[3] = Count(n)
  BY <1>1 DEF RecordFile
<1>3. ~IsString(fields[3])
  BY <1>2 DEF IsString, Count
<1> QED
  BY <1>1, <1>2, <1>3 DEF CutOf

-----------------------------------------------------------------------------
(* Reading the metadata of a database. *)

Records == [meta : Fields, namespaces : SUBSET Fields, count : Nat]
Counted(db) == /\ db \in Records /\ IsFiniteSet(db.namespaces)
               /\ db.count = Cardinality(db.namespaces)

LEMMA EmptyCounted ==
  ASSUME NEW path \in Fields
  PROVE  /\ Counted(NoNamespaces(path))
         /\ NoNamespaces(path).meta = path /\ NoNamespaces(path).namespaces = {}
BY FS_EmptySet DEF Counted, Records, NoNamespaces

LEMMA CreateCounts ==
  ASSUME NEW db, Counted(db), NEW n \in Fields
  PROVE  /\ Counted(create_namespace(db, n))
         /\ create_namespace(db, n).meta = db.meta
         /\ create_namespace(db, n).namespaces = db.namespaces \cup {n}
<1>1. PICK next : next = create_namespace(db, n)
  OBVIOUS
<1>2. CASE n \in db.namespaces
  BY <1>1, <1>2 DEF create_namespace
<1>3. CASE n \notin db.namespaces
  <2>0. PICK more : more = db.namespaces \cup {n}
    OBVIOUS
  <2>1. next = [db EXCEPT !.namespaces = more, !.count = @ + 1]
    BY <1>1, <1>3, <2>0 DEF create_namespace
  <2>2. more \in SUBSET Fields
    BY <2>0 DEF Counted, Records
  <2>5. PICK m \in Fields, s \in SUBSET Fields, c \in Nat :
          db = [meta |-> m, namespaces |-> s, count |-> c]
    BY DEF Counted, Records
  <2>6. next = [meta |-> m, namespaces |-> more, count |-> c + 1]
    BY <2>1, <2>5
  <2>4. /\ next \in Records /\ next.meta = db.meta
        /\ next.namespaces = more /\ next.count = db.count + 1
    BY <2>2, <2>5, <2>6 DEF Records
  <2>3. /\ IsFiniteSet(db.namespaces \cup {n})
        /\ Cardinality(db.namespaces \cup {n}) = Cardinality(db.namespaces) + 1
    BY <1>3, FS_AddElement DEF Counted
  <2> QED
    BY <1>1, <2>0, <2>3, <2>4 DEF Counted
<1> QED
  BY <1>2, <1>3

LEMMA ReadIsField ==
  ASSUME NEW file \in Seq(Fields), NEW i \in Nat, i >= 1
  PROVE  read_string(file, i) \in Fields
BY NamesAreFields DEF read_string

(* The first m turns of the loop over the namespaces of a file. *)
Turns(f, base, file, m) ==
  /\ f[0] = base
  /\ \A i \in 1 .. m : f[i] = create_namespace(f[i - 1], read_string(file, 3 + i))

LEMMA TurnsExist ==
  ASSUME NEW base, NEW file, NEW n \in Nat
  PROVE  \E f : f = [i \in 0 .. n |-> f[i]] /\ Turns(f, base, file, n)
<1> DEFINE Some(m) == \E f : f = [i \in 0 .. m |-> f[i]] /\ Turns(f, base, file, m)
           S == {m \in 0 .. n : Some(m)}
<1>1. Some(0)
  <2> DEFINE f == [i \in 0 .. 0 |-> base]
  <2>1. f = [i \in 0 .. 0 |-> f[i]] /\ Turns(f, base, file, 0)
    BY DEF Turns
  <2> QED
    BY <2>1
<1>2. ASSUME NEW m \in 1 .. n, Some(m - 1) PROVE Some(m)
  <2>1. PICK f : f = [i \in 0 .. (m - 1) |-> f[i]] /\ Turns(f, base, file, m - 1)
    BY <1>2
  <2>2. PICK last : last = create_namespace(f[m - 1], read_string(file, 3 + m))
    OBVIOUS
  <2> DEFINE g == [i \in 0 .. m |-> IF i = m THEN last ELSE f[i]]
  <2>3. g[0] = base
    BY <2>1 DEF Turns
  <2>4. ASSUME NEW i \in 1 .. m
        PROVE  g[i] = create_namespace(g[i - 1], read_string(file, 3 + i))
    <3>1. g[i - 1] = f[i - 1]
      OBVIOUS
    <3>2. CASE i = m
      BY <2>2, <3>1, <3>2
    <3>3. CASE i # m
      <4>1. i \in 1 .. (m - 1) /\ g[i] = f[i]
        BY <3>3
      <4> QED
        BY <2>1, <3>1, <4>1 DEF Turns
    <3> QED
      BY <3>2, <3>3
  <2>5. g = [i \in 0 .. m |-> g[i]]
    OBVIOUS
  <2> HIDE DEF g
  <2> QED
    BY <2>3, <2>4, <2>5 DEF Turns
<1>3. 0 .. n \subseteq S
  <2> HIDE DEF Some
  <2>1. 0 \in S
    BY <1>1
  <2>2. \A m \in 1 .. n : m - 1 \in S => m \in S
    BY <1>2
  <2> HIDE DEF S
  <2> QED
    BY <2>1, <2>2, UpToInduction
<1> QED
  BY <1>3

AllTurns(base, file) ==
  LET upTo[i \in 0 .. file[3][2]] ==
          IF i = 0 THEN base ELSE create_namespace(upTo[i - 1], read_string(file, 3 + i))
  IN  upTo

LEMMA TurnsAre ==
  ASSUME NEW base, NEW file, NEW n \in Nat, file[3][2] = n
  PROVE  /\ Turns(AllTurns(base, file), base, file, n)
         /\ WithNamespacesOf(base, file) = AllTurns(base, file)[n]
<1> DEFINE Good(f) == f = [i \in 0 .. n |->
                             IF i = 0 THEN base
                             ELSE create_namespace(f[i - 1], read_string(file, 3 + i))]
<1>1. PICK f : f = [i \in 0 .. n |-> f[i]] /\ Turns(f, base, file, n)
  BY TurnsExist
<1>2. Good(f)
  BY <1>1 DEF Turns
<1>3. AllTurns(base, file) = CHOOSE g : Good(g)
  BY DEF AllTurns
<1>4. Good(AllTurns(base, file))
  <2> HIDE DEF Good
  <2> QED
    BY <1>2, <1>3
<1>5. WithNamespacesOf(base, file) = AllTurns(base, file)[n]
  BY DEF WithNamespacesOf, AllTurns
<1>6. PICK g : g = AllTurns(base, file)
  OBVIOUS
<1>7. Turns(g, base, file, n)
  BY <1>4, <1>6 DEF Turns
<1> QED
  BY <1>5, <1>6, <1>7

LEMMA WithNamespaces ==
  ASSUME NEW path \in Fields, NEW file \in Seq(Fields), NEW n \in Nat,
         file[3] = Count(n),
         NEW with, with = WithNamespacesOf(NoNamespaces(path), file)
  PROVE  /\ Counted(with) /\ with.meta = path
         /\ with.namespaces = {read_string(file, 3 + k) : k \in 1 .. n}
<1>1. PICK base : base = NoNamespaces(path)
  OBVIOUS
<1>2. Counted(base) /\ base.meta = path /\ base.namespaces = {}
  BY <1>1, EmptyCounted
<1>3. file[3][2] = n
  BY DEF Count
<1>4. PICK f : Turns(f, base, file, n) /\ with = f[n]
  BY <1>1, <1>3, TurnsAre
<1> DEFINE Fine(m) == /\ Counted(f[m]) /\ f[m].meta = path
                      /\ f[m].namespaces = {read_string(file, 3 + k) : k \in 1 .. m}
           S == {m \in 0 .. n : Fine(m)}
<1>5. Fine(0)
  BY <1>2, <1>4 DEF Turns
<1>6. ASSUME NEW m \in 1 .. n, Fine(m - 1) PROVE Fine(m)
  <2>1. PICK before, after, read : /\ before = f[m - 1] /\ after = f[m]
                                   /\ read = read_string(file, 3 + m)
    OBVIOUS
  <2>2. after = create_namespace(before, read)
    BY <1>4, <2>1 DEF Turns
  <2>3. read \in Fields
    <3>1. PICK i \in Nat : i = 3 + m /\ i >= 1
      OBVIOUS
    <3>2. read = read_string(file, i)
      BY <2>1, <3>1
    <3> QED
      BY <3>1, <3>2, ReadIsField
  <2>4. /\ Counted(after) /\ after.meta = path
        /\ after.namespaces = before.namespaces \cup {read}
    <3>1. Counted(before) /\ before.meta = path
      BY <1>6, <2>1
    <3> QED
      BY <2>2, <2>3, <3>1, CreateCounts
  <2>5. before.namespaces = {read_string(file, 3 + k) : k \in 1 .. (m - 1)}
    BY <1>6, <2>1
  <2>6. after.namespaces = {read_string(file, 3 + k) : k \in 1 .. m}
    <3>1. 1 .. m = (1 .. (m - 1)) \cup {m}
      OBVIOUS
    <3> QED
      BY <2>1, <2>4, <2>5, <3>1
  <2> QED
    BY <2>1, <2>4, <2>6
<1>7. 0 .. n \subseteq S
  <2> HIDE DEF Fine
  <2>1. 0 \in S
    BY <1>5
  <2>2. \A m \in 1 .. n : m - 1 \in S => m \in S
    BY <1>6
  <2> HIDE DEF S
  <2> QED
    BY <2>1, <2>2, UpToInduction
<1>8. Fine(n)
  BY <1>7
<1> QED
  BY <1>4, <1>8

(* A metadata file with all of a set of namespaces. *)
HoldsAll(file, set) ==
  \E n \in Nat : /\ Len(file) = n + 3 /\ file[3] = Count(n)
                 /\ \A x \in set : \E k \in 1 .. n : x = file[k + 3]

(* What load_database_metadata finds: nothing that is not in the file, and *)
(* all of a file that is complete.                                         *)
LEMMA LoadFinds ==
  ASSUME NEW path \in Fields, path \in DOMAIN disk => RecordFile(disk[path]),
         NEW db \in load_database_metadata(path)
  PROVE  /\ Counted(db) /\ db.meta = path
         /\ path \notin DOMAIN disk => db.namespaces = {}
         /\ \A x \in db.namespaces :
              Whole(x) => \E i \in 4 .. Len(disk[path]) : x = disk[path][i]
         /\ path \in DOMAIN disk =>
              \A set : HoldsAll(disk[path], set) => set \subseteq db.namespaces
<1>1. PICK file : file = IF path \in DOMAIN disk THEN disk[path] ELSE <<>>
  OBVIOUS
<1>2. PICK base : base = NoNamespaces(path)
  OBVIOUS
<1>3. Counted(base) /\ base.meta = path /\ base.namespaces = {}
  BY <1>2, EmptyCounted
<1>4. /\ ~Whole(EmptyString)
      /\ EmptyString \in Fields
  BY NamesAreFields DEF Whole
<1>5. CASE path \notin DOMAIN disk
  <2>1. db = base
    BY <1>1, <1>2, <1>5 DEF load_database_metadata, Readable
  <2> QED
    BY <1>3, <1>5, <2>1
<1>6. CASE path \in DOMAIN disk /\ Len(file) < 3
  <2>1. file = disk[path] /\ Len(file) \in Nat
    BY <1>1, <1>6 DEF RecordFile
  <2>2. db \in {base, create_namespace(base, EmptyString)}
    BY <1>1, <1>2, <1>6, <2>1 DEF load_database_metadata, Readable
  <2>3. /\ Counted(db) /\ db.meta = path
        /\ db.namespaces \subseteq {EmptyString}
    BY <1>3, <1>4, <2>2, CreateCounts
  <2>4. ASSUME NEW set, HoldsAll(file, set) PROVE FALSE
    BY <1>6, <2>4 DEF HoldsAll
  <2>5. ASSUME NEW x \in db.namespaces PROVE ~Whole(x)
    BY <1>4, <2>3
  <2>6. \A set : ~HoldsAll(disk[path], set)
    BY <2>1, <2>4
  <2> QED
    BY <1>6, <2>3, <2>5, <2>6
<1>7. CASE path \in DOMAIN disk /\ ~(Len(file) < 3)
  <2>1. file = disk[path] /\ file \in Seq(Fields) /\ Len(file) \in Nat
    BY <1>1, <1>7 DEF RecordFile
  <2>2. PICK n \in Nat : file[3] = Count(n)
    BY <1>7, <2>1 DEF RecordFile
  <2>3. db = WithNamespacesOf(base, file)
    BY <1>1, <1>2, <1>7, <2>1 DEF load_database_metadata, Readable
  <2>4. /\ Counted(db) /\ db.meta = path
        /\ db.namespaces = {read_string(file, 3 + k) : k \in 1 .. n}
    <3>1. db = WithNamespacesOf(NoNamespaces(path), file)
      BY <1>2, <2>3
    <3>2. file \in Seq(Fields)
      BY <2>1
    <3> QED
      BY SMTT(30), <2>2, <3>1, <3>2, WithNamespaces
  <2>5. ASSUME NEW x \in db.namespaces, Whole(x)
        PROVE  \E i \in 4 .. Len(file) : x = file[i]
    <3>1. PICK k \in 1 .. n : x = read_string(file, 3 + k)
      BY <2>4
    <3>2. 3 + k <= Len(file) /\ x = file[3 + k]
      BY <1>4, <2>5, <3>1 DEF read_string
    <3> QED
      BY <2>1, <3>2
  <2>6. ASSUME NEW set, HoldsAll(file, set), NEW x \in set PROVE x \in db.namespaces
    <3>1. PICK m \in Nat : /\ Len(file) = m + 3 /\ file[3] = Count(m)
                           /\ \E k \in 1 .. m : x = file[k + 3]
      BY <2>6 DEF HoldsAll
    <3>2. m = n
      BY <2>2, <3>1 DEF Count
    <3>3. PICK k \in 1 .. m : x = file[k + 3]
      BY <3>1
    <3>4. 3 + k <= Len(file) /\ 3 + k = k + 3
      BY <3>1
    <3>5. x = read_string(file, 3 + k)
      BY <3>3, <3>4 DEF read_string
    <3> QED
      BY <2>4, <3>2, <3>5
  <2> QED
    BY <1>7, <2>1, <2>4, <2>5, <2>6
<1> QED
  BY <1>5, <1>6, <1>7

-----------------------------------------------------------------------------
(* What databases, and the files about them, are allowed to name.          *)

(* A name and a metadata path, as a pair of the catalog file: a whole name *)
(* was created, and a path belongs to the name.                            *)
GoodEntry(name, meta, made) ==
  /\ name \in Fields /\ meta \in Fields
  /\ Whole(name) => \E c \in made : c[1] = name
  /\ meta # EmptyString => \E d \in Databases : name = Name(d) /\ MetaOf(meta, d)

GoodDatabase(name, db, made) ==
  /\ Counted(db)
  /\ GoodEntry(name, db.meta, made)
  /\ Whole(name) => \A n \in db.namespaces : Whole(n) => <<name, n>> \in made

CatalogFormat(file, made) ==
  \A i \in Nat \ {0} : GoodEntry(EntryName(file, i), EntryMeta(file, i), made)

MetaFormat(p, file, made) ==
  \A d \in Databases : MetaOf(p, d) =>
    \A i \in 4 .. Len(file) : Whole(file[i]) => <<Name(d), file[i]>> \in made

CatalogsFile(p, file, made) ==
  /\ p \in Fields /\ p # EmptyString
  /\ RecordFile(file)
  /\ MetaFormat(p, file, made)
  /\ p = CatalogPath => CatalogFormat(file, made)

(* A file holds the pages of one table, or fields of the catalog. *)
GoodFile(p, file, made) ==
  \/ \E t \in Tables : p = TablePath(t) /\ file \in Seq({Zero, t})
  \/ CatalogsFile(p, file, made)

LEMMA MoreIsMade ==
  ASSUME NEW made, NEW more, made \subseteq more
  PROVE  /\ \A p, file : GoodFile(p, file, made) => GoodFile(p, file, more)
         /\ \A name, db : GoodDatabase(name, db, made) => GoodDatabase(name, db, more)
         /\ \A file : CatalogFormat(file, made) => CatalogFormat(file, more)
<1>1. \A name, meta : GoodEntry(name, meta, made) => GoodEntry(name, meta, more)
  BY DEF GoodEntry
<1>2. \A file : CatalogFormat(file, made) => CatalogFormat(file, more)
  BY <1>1 DEF CatalogFormat
<1>3. \A p, file : MetaFormat(p, file, made) => MetaFormat(p, file, more)
  BY DEF MetaFormat
<1>4. \A p, file : GoodFile(p, file, made) => GoodFile(p, file, more)
  BY <1>2, <1>3 DEF GoodFile, CatalogsFile
<1>5. \A name, db : GoodDatabase(name, db, made) => GoodDatabase(name, db, more)
  BY <1>1 DEF GoodDatabase
<1> QED
  BY <1>2, <1>4, <1>5

(* Files that hold nothing, as they are made and truncated. *)
LEMMA EmptyFile ==
  ASSUME NEW p \in Fields, p # EmptyString, NEW made
  PROVE  CatalogsFile(p, <<>>, made)
<1>1. RecordFile(<<>>) /\ Len(<<>>) = 0
  BY DEF RecordFile
<1>2. MetaFormat(p, <<>>, made)
  BY <1>1 DEF MetaFormat
<1>3. CatalogFormat(<<>>, made)
  <2>1. GoodEntry(EmptyString, EmptyString, made)
    BY NamesAreFields DEF GoodEntry, Whole
  <2>2. ASSUME NEW i \in Nat \ {0}
        PROVE  EntryName(<<>>, i) = EmptyString /\ EntryMeta(<<>>, i) = EmptyString
    BY <1>1 DEF EntryName, EntryMeta, read_string
  <2> QED
    BY <2>1, <2>2 DEF CatalogFormat
<1> QED
  BY <1>1, <1>2, <1>3 DEF CatalogsFile

(* A cut changes nothing but the end. *)
LEMMA CutReads ==
  ASSUME NEW fields \in Seq(Fields), NEW part, CutOf(part, fields),
         NEW n \in Nat, n >= 1
  PROVE  /\ n < Len(part) => read_string(part, n) = read_string(fields, n)
         /\ \/ read_string(part, n) = EmptyString
            \/ read_string(part, n) = read_string(fields, n)
            \/ /\ n = Len(part) /\ read_string(fields, n) # EmptyString
               /\ read_string(part, n) = Torn(read_string(fields, n))
         /\ n > Len(part) => read_string(part, n) = EmptyString
<1>1. Len(part) \in Nat /\ Len(fields) \in Nat /\ Len(part) <= Len(fields)
  BY DEF CutOf
<1>2. CASE n > Len(part)
  BY <1>1, <1>2 DEF read_string
<1>3. CASE n <= Len(part)
  <2>1. n \in 1 .. Len(part)
    BY <1>1, <1>3
  <2>2. read_string(part, n) = part[n] /\ read_string(fields, n) = fields[n]
    BY <1>1, <1>3 DEF read_string
  <2> QED
    BY <1>1, <2>1, <2>2 DEF CutOf
<1> QED
  BY <1>1, <1>2, <1>3

LEMMA CutCatalog ==
  ASSUME NEW fields \in Seq(Fields), NEW part, CutOf(part, fields),
         NEW made, CatalogFormat(fields, made)
  PROVE  CatalogFormat(part, made)
<1> SUFFICES ASSUME NEW i \in Nat \ {0}
             PROVE  GoodEntry(EntryName(part, i), EntryMeta(part, i), made)
  BY DEF CatalogFormat
<1>1. PICK n \in Nat, m \in Nat : n = 3 * i + 1 /\ m = 3 * i + 3 /\ n < m /\ n >= 1
  OBVIOUS
<1>2. PICK name, meta : name = read_string(fields, n) /\ meta = read_string(fields, m)
  OBVIOUS
<1>3. PICK name2, meta2 : name2 = read_string(part, n) /\ meta2 = read_string(part, m)
  OBVIOUS
<1>4. Len(part) \in Nat
  BY DEF CutOf
<1>5. GoodEntry(name, meta, made)
  BY <1>1, <1>2 DEF CatalogFormat, EntryName, EntryMeta
<1>6. /\ name2 = EmptyString \/ name2 = name \/ name2 = Torn(name)
      /\ n < Len(part) => name2 = name
  BY <1>1, <1>2, <1>3, CutReads
<1>7. /\ \/ meta2 = EmptyString \/ meta2 = meta
         \/ meta2 = Torn(meta) /\ meta # EmptyString
      /\ m > Len(part) => meta2 = EmptyString
  BY <1>1, <1>2, <1>3, CutReads
<1>8. /\ Torn(name) \in Fields /\ ~Whole(Torn(name))
      /\ Torn(meta) \in Fields /\ \A d : MetaOf(meta, d) => MetaOf(Torn(meta), d)
  BY <1>5, Prefixed DEF GoodEntry, Torn, Whole
<1>9. EmptyString \in Fields /\ ~Whole(EmptyString)
  BY NamesAreFields DEF Whole
<1>10. GoodEntry(name2, meta2, made)
  <2>1. meta2 # EmptyString => name2 = name
    BY <1>1, <1>4, <1>6, <1>7
  <2>2. name2 \in Fields /\ meta2 \in Fields
    BY <1>5, <1>6, <1>7, <1>8, <1>9 DEF GoodEntry
  <2>3. Whole(name2) => name2 = name
    BY <1>6, <1>8, <1>9
  <2> QED
    BY <1>5, <1>7, <1>8, <2>1, <2>2, <2>3 DEF GoodEntry
<1> QED
  BY <1>1, <1>3, <1>10 DEF EntryName, EntryMeta

LEMMA CutMeta ==
  ASSUME NEW fields \in Seq(Fields), NEW part, CutOf(part, fields),
         NEW p, NEW made, MetaFormat(p, fields, made)
  PROVE  MetaFormat(p, part, made)
<1> SUFFICES ASSUME NEW d \in Databases, MetaOf(p, d),
                    NEW i \in 4 .. Len(part), Whole(part[i])
             PROVE  <<Name(d), part[i]>> \in made
  BY DEF MetaFormat
<1>1. i \in 1 .. Len(part) /\ i \in 4 .. Len(fields) /\ fields[i] \in Fields
  BY DEF CutOf
<1>2. ~Whole(Torn(fields[i]))
  BY <1>1, Prefixed DEF Torn, Whole
<1>3. part[i] = fields[i]
  BY <1>1, <1>2 DEF CutOf
<1> QED
  BY <1>1, <1>3 DEF MetaFormat

-----------------------------------------------------------------------------
(* load. *)

GoodDisk(d, made) == \A p \in DOMAIN d : GoodFile(p, d[p], made)
DiskIsGood == GoodDisk(disk, created)

LEMMA CatalogFileIsGood ==
  ASSUME DiskIsGood
  PROVE  CatalogsFile(CatalogPath, CatalogFile, created)
<1>1. CatalogPath \in Fields /\ CatalogPath # EmptyString
  BY NamesAreFields DEF CatalogPath, EmptyString
<1>2. CASE CatalogPath \in DOMAIN disk
  <2>1. GoodFile(CatalogPath, disk[CatalogPath], created)
    BY <1>2 DEF DiskIsGood, GoodDisk
  <2> QED
    BY <1>1, <1>2, <2>1, TablePathsAreNone DEF GoodFile, CatalogFile
<1>3. CASE CatalogPath \notin DOMAIN disk
  <2>1. CatalogFile = <<>>
    BY <1>3 DEF CatalogFile
  <2> QED
    BY <1>1, <2>1, EmptyFile
<1> QED
  BY <1>2, <1>3

(* Each database comes from the first entry of its name. *)
FromEntry(dbs, name, n) ==
  \E i \in 1 .. n :
    /\ EntryName(CatalogFile, i) = name
    /\ \A j \in 1 .. n : EntryName(CatalogFile, j) = name => i <= j
    /\ dbs[name] \in load_database_metadata(EntryMeta(CatalogFile, i))

LEMMA LoadedIs ==
  ASSUME RecordFile(CatalogFile), NEW dbs \in Loaded
  PROVE  \/ Len(CatalogFile) < 3 /\ dbs = <<>>
         \/ \E n \in Nat :
              /\ Len(CatalogFile) >= 3 /\ CatalogFile[3] = Count(n)
              /\ DOMAIN dbs = {EntryName(CatalogFile, i) : i \in 1 .. n}
              /\ \A name \in DOMAIN dbs : FromEntry(dbs, name, n)
<1>0. Len(CatalogFile) \in Nat
  BY DEF RecordFile
<1>1. CASE Len(CatalogFile) < 3
  BY <1>0, <1>1 DEF Loaded, Readable
<1>2. CASE ~(Len(CatalogFile) < 3)
  <2>1. PICK n \in Nat : CatalogFile[3] = Count(n)
    BY <1>0, <1>2 DEF RecordFile
  <2>2. CatalogFile[3][2] = n
    BY <2>1 DEF Count
  <2> DEFINE entries == 1 .. CatalogFile[3][2]
             names == {EntryName(CatalogFile, i) : i \in entries}
             holders(name) == {i \in entries : EntryName(CatalogFile, i) = name}
             first(name) == Min(holders(name))
             outcomes(name) == load_database_metadata(EntryMeta(CatalogFile, first(name)))
  <2>3. dbs \in {f \in [names -> UNION {outcomes(name) : name \in names}] :
                   \A name \in names : f[name] \in outcomes(name)}
    <3>1. Readable(CatalogFile, 3)
      BY <1>0, <1>2 DEF Readable
    <3>2. Loaded = {f \in [names -> UNION {outcomes(name) : name \in names}] :
                      \A name \in names : f[name] \in outcomes(name)}
      BY Zenon, <3>1 DEF Loaded
    <3> QED
      BY Zenon, <3>2
  <2>6. entries = 1 .. n
    BY <2>2
  <2> HIDE DEF entries
  <2>4. DOMAIN dbs = names /\ \A name \in names : dbs[name] \in outcomes(name)
    <3> HIDE DEF outcomes, names
    <3> QED
      BY <2>3
  <2>5. ASSUME NEW name \in names PROVE FromEntry(dbs, name, n)
    <3>1. holders(name) \in SUBSET Nat /\ holders(name) # {}
      BY <2>5, <2>6
    <3>2. PICK i : i = first(name)
      OBVIOUS
    <3>3. i \in holders(name) /\ \A j \in holders(name) : i <= j
      <4> HIDE DEF holders
      <4>1. \E m \in holders(name) : \A k \in holders(name) : m <= k
        BY <3>1, NatMinimum
      <4> QED
        BY <3>2, <4>1 DEF Min
    <3>4. dbs[name] \in load_database_metadata(EntryMeta(CatalogFile, i))
      BY <2>4, <3>2
    <3> HIDE DEF first
    <3> QED
      BY <2>6, <3>3, <3>4 DEF FromEntry
  <2> QED
    BY <1>0, <1>2, <2>1, <2>4, <2>5, <2>6
<1> QED
  BY <1>1, <1>2

(* Nothing of what a process finds in the files was made up. *)
LEMMA LoadIsGood ==
  ASSUME DiskIsGood, NEW dbs \in Loaded
  PROVE  /\ IsFiniteSet(DOMAIN dbs)
         /\ \A name \in DOMAIN dbs : GoodDatabase(name, dbs[name], created)
<1>1. RecordFile(CatalogFile) /\ CatalogFormat(CatalogFile, created)
  BY CatalogFileIsGood DEF CatalogsFile
<1>2. CASE dbs = <<>>
  <2>1. DOMAIN dbs = {}
    BY <1>2
  <2> QED
    BY <2>1, FS_EmptySet
<1>3. ASSUME NEW n \in Nat,
             DOMAIN dbs = {EntryName(CatalogFile, i) : i \in 1 .. n},
             NEW name \in DOMAIN dbs, FromEntry(dbs, name, n)
      PROVE  GoodDatabase(name, dbs[name], created)
  <2>1. PICK i \in 1 .. n :
          /\ EntryName(CatalogFile, i) = name
          /\ dbs[name] \in load_database_metadata(EntryMeta(CatalogFile, i))
    BY <1>3 DEF FromEntry
  <2>2. PICK path, db : path = EntryMeta(CatalogFile, i) /\ db = dbs[name]
    OBVIOUS
  <2>3. GoodEntry(name, path, created)
    BY <1>1, <2>1, <2>2 DEF CatalogFormat
  <2>4. path \in Fields /\ (path # EmptyString => Whole(name) /\
          \E d \in Databases : name = Name(d) /\ MetaOf(path, d))
    BY <2>3, NamesAreFields DEF GoodEntry
  <2>5. ASSUME path \in DOMAIN disk PROVE CatalogsFile(path, disk[path], created)
    BY <2>4, <2>5, TablePathsAreNone DEF DiskIsGood, GoodDisk, GoodFile
  <2>6. path \in DOMAIN disk => RecordFile(disk[path])
    BY <2>5 DEF CatalogsFile
  <2>7. db \in load_database_metadata(path)
    BY <2>1, <2>2
  <2>8. /\ Counted(db) /\ db.meta = path
        /\ path \notin DOMAIN disk => db.namespaces = {}
        /\ \A x \in db.namespaces :
             Whole(x) => \E k \in 4 .. Len(disk[path]) : x = disk[path][k]
    BY <2>4, <2>6, <2>7, LoadFinds
  <2>9. ASSUME NEW x \in db.namespaces, Whole(x) PROVE <<name, x>> \in created
    <3>1. path \in DOMAIN disk
      BY <2>8, <2>9
    <3>2. path # EmptyString /\ MetaFormat(path, disk[path], created)
      BY <2>5, <3>1 DEF CatalogsFile
    <3>3. PICK d \in Databases : name = Name(d) /\ MetaOf(path, d)
      BY <2>4, <3>2
    <3>4. PICK k \in 4 .. Len(disk[path]) : x = disk[path][k]
      BY <2>8, <2>9
    <3> QED
      BY <2>9, <3>2, <3>3, <3>4 DEF MetaFormat
  <2>10. GoodDatabase(name, db, created)
    BY <2>3, <2>8, <2>9 DEF GoodDatabase
  <2> QED
    BY <2>2, <2>10
<1>4. ASSUME NEW n \in Nat, DOMAIN dbs = {EntryName(CatalogFile, i) : i \in 1 .. n}
      PROVE  IsFiniteSet(DOMAIN dbs)
  <2>1. IsFiniteSet(1 .. n)
    BY FS_Interval
  <2> DEFINE f == [i \in 1 .. n |-> EntryName(CatalogFile, i)]
  <2>2. f \in Surjection(1 .. n, DOMAIN dbs)
    BY <1>4 DEF Surjection
  <2> QED
    BY <2>1, <2>2, FS_Surjection
<1> QED
  BY <1>1, <1>2, <1>3, <1>4, LoadedIs

-----------------------------------------------------------------------------
(* Files and streams. *)

(* Every path of the catalog's own files has the contents it had. *)
RecordsStay(d, e) ==
  \A p \in DOMAIN d : p \in Fields => p \in DOMAIN e /\ e[p] = d[p]

LEMMA PutGood ==
  ASSUME NEW d, NEW made, GoodDisk(d, made), NEW p, NEW file, GoodFile(p, file, made)
  PROVE  GoodDisk(Put(d, p, file), made)
<1>1. PICK e : e = Put(d, p, file)
  OBVIOUS
<1>2. DOMAIN e = DOMAIN d \cup {p} /\ e[p] = file
  BY <1>1 DEF Put
<1>3. \A q \in DOMAIN d : q # p => e[q] = d[q]
  BY <1>1 DEF Put
<1> QED
  BY <1>1, <1>2, <1>3 DEF GoodDisk

LEMMA TouchedGood ==
  ASSUME NEW d, NEW made, GoodDisk(d, made),
         NEW p, \/ p \in Fields /\ p # EmptyString
                \/ \E t \in Tables : p = TablePath(t)
  PROVE  /\ GoodDisk(Touched(d, p), made)
         /\ DOMAIN Touched(d, p) = DOMAIN d \cup {p}
         /\ \A q \in DOMAIN d : Touched(d, p)[q] = d[q]
<1>1. GoodFile(p, <<>>, made)
  BY EmptyFile DEF GoodFile
<1>2. CASE p \in DOMAIN d
  BY <1>2 DEF Touched
<1>3. CASE p \notin DOMAIN d
  <2>1. PICK e : e = Put(d, p, <<>>)
    OBVIOUS
  <2>2. Touched(d, p) = e
    BY <1>3, <2>1 DEF Touched
  <2>3. GoodDisk(e, made)
    BY <1>1, <2>1, PutGood
  <2>4. DOMAIN e = DOMAIN d \cup {p} /\ \A q \in DOMAIN d : e[q] = d[q]
    BY <1>3, <2>1 DEF Put
  <2> QED
    BY <2>2, <2>3, <2>4
<1> QED
  BY <1>2, <1>3

(* The streams of a process: an id is given out once, for a file there is. *)
GoodFiles(m, d) ==
  /\ m = [files |-> m.files, path_to_file_id |-> m.path_to_file_id,
          next_file_id |-> m.next_file_id]
  /\ m.next_file_id \in Nat
  /\ \A id \in DOMAIN m.files :
       /\ id \in Nat /\ id < m.next_file_id
       /\ m.files[id] = [path |-> m.files[id].path, failed |-> m.files[id].failed]
       /\ m.files[id].path \in DOMAIN d

LEMMA CreatedGood ==
  ASSUME NEW m, NEW d, GoodFiles(m, d), NEW p, p \in DOMAIN d,
         NEW made, made = Created(m, p)
  PROVE  /\ GoodFiles(made, d)
         /\ DOMAIN made.files = DOMAIN m.files \cup {m.next_file_id}
         /\ made.files[m.next_file_id].path = p
         /\ \A id \in DOMAIN m.files : made.files[id] = m.files[id]
         /\ made.path_to_file_id[p] = m.next_file_id
         /\ m.next_file_id \notin DOMAIN m.files
<1>1. PICK n \in Nat : n = m.next_file_id /\ n \notin DOMAIN m.files
  BY DEF GoodFiles
<1>2. PICK stream : stream = [path |-> p, failed |-> FALSE]
  OBVIOUS
<1>3. PICK old, files : old = m.files /\ files = Put(old, n, stream)
  OBVIOUS
<1>4. PICK known, ids : known = m.path_to_file_id /\ ids = Put(known, p, n)
  OBVIOUS
<1>5. made = [files |-> files, path_to_file_id |-> ids, next_file_id |-> n + 1]
  BY <1>1, <1>2, <1>3, <1>4 DEF Created
<1>6. /\ DOMAIN files = DOMAIN m.files \cup {n} /\ files[n] = stream
      /\ \A id \in DOMAIN m.files : files[id] = m.files[id]
  BY <1>1, <1>3 DEF Put
<1>7. ids[p] = n
  BY <1>4 DEF Put
<1>8. \A id \in DOMAIN files :
        /\ id \in Nat /\ id < n + 1
        /\ files[id] = [path |-> files[id].path, failed |-> files[id].failed]
        /\ files[id].path \in DOMAIN d
  BY <1>1, <1>2, <1>6 DEF GoodFiles
<1>9. GoodFiles(made, d)
  BY <1>5, <1>8 DEF GoodFiles
<1> QED
  BY <1>1, <1>2, <1>5, <1>6, <1>7, <1>9

LEMMA InVainGood ==
  ASSUME NEW m, NEW d, GoodFiles(m, d), NEW p,
         NEW made, made = CreatedInVain(m, p)
  PROVE  GoodFiles(made, d) /\ made.files = m.files
<1>1. PICK n, files : n \in Nat /\ n = m.next_file_id /\ files = m.files
  BY DEF GoodFiles
<1>2. PICK ids, others : /\ ids = Put(m.path_to_file_id, p, n)
                         /\ others = Put(m.files, n, [path |-> p, failed |-> FALSE])
  OBVIOUS
<1>3. Created(m, p) = [files |-> others, path_to_file_id |-> ids, next_file_id |-> n + 1]
  BY <1>1, <1>2 DEF Created
<1>4. made = [files |-> files, path_to_file_id |-> ids, next_file_id |-> n + 1]
  BY <1>1, <1>3 DEF CreatedInVain
<1>5. \A id \in DOMAIN files :
        /\ id \in Nat /\ id < n + 1
        /\ files[id] = [path |-> files[id].path, failed |-> files[id].failed]
        /\ files[id].path \in DOMAIN d
  BY <1>1 DEF GoodFiles
<1> QED
  BY <1>1, <1>4, <1>5 DEF GoodFiles

LEMMA GrowingDisk ==
  ASSUME NEW m, NEW d, GoodFiles(m, d), NEW e, DOMAIN d \subseteq DOMAIN e
  PROVE  GoodFiles(m, e)
BY DEF GoodFiles

(* A stream's failed bit says nothing of which file it is. *)
LEMMA FailedGood ==
  ASSUME NEW m, NEW d, GoodFiles(m, d), NEW id \in DOMAIN m.files, NEW b,
         NEW next, next = [m EXCEPT !.files[id].failed = b]
  PROVE  /\ GoodFiles(next, d)
         /\ DOMAIN next.files = DOMAIN m.files
         /\ \A j \in DOMAIN m.files : next.files[j].path = m.files[j].path
<1>1. PICK files, ids, n : m = [files |-> files, path_to_file_id |-> ids, next_file_id |-> n]
  BY DEF GoodFiles
<1>2. PICK files2 : files2 = [files EXCEPT ![id].failed = b]
  OBVIOUS
<1>3. next = [files |-> files2, path_to_file_id |-> ids, next_file_id |-> n]
  BY <1>1, <1>2
<1>4. m.files = files /\ m.next_file_id = n
  BY <1>1
<1>5. \A j \in DOMAIN files :
        /\ j \in Nat /\ j < n
        /\ files[j] = [path |-> files[j].path, failed |-> files[j].failed]
        /\ files[j].path \in DOMAIN d
  BY <1>4 DEF GoodFiles
<1>6. DOMAIN files2 = DOMAIN files
  BY <1>2
<1>7. ASSUME NEW j \in DOMAIN files
      PROVE  /\ files2[j] = [path |-> files2[j].path, failed |-> files2[j].failed]
             /\ files2[j].path = files[j].path
  <2>1. PICK stream, q, c : /\ stream = files[j]
                            /\ stream = [path |-> q, failed |-> c]
    BY <1>5
  <2>2. files2[j] = IF j = id THEN [stream EXCEPT !.failed = b] ELSE stream
    BY <1>2, <2>1
  <2>3. [stream EXCEPT !.failed = b] = [path |-> q, failed |-> b]
    BY <2>1
  <2> QED
    BY <2>1, <2>2, <2>3
<1> QED
  BY SMTT(30), <1>3, <1>4, <1>5, <1>6, <1>7 DEF GoodFiles

LEMMA WrittenPages ==
  ASSUME NEW D, NEW pages \in Seq(D), NEW page \in Nat, NEW data \in D, Zero \in D
  PROVE  Written(pages, page, data) \in Seq(D)
<1>1. PICK n \in Nat : n = IF page >= Len(pages) THEN page + 1 ELSE Len(pages)
  OBVIOUS
<1>2. PICK after : after = [i \in 1 .. n |-> IF i = page + 1 THEN data
                                    ELSE IF i <= Len(pages) THEN pages[i] ELSE Zero]
  OBVIOUS
<1>3. \A i \in 1 .. n : (IF i = page + 1 THEN data
                         ELSE IF i <= Len(pages) THEN pages[i] ELSE Zero) \in D
  OBVIOUS
<1>4. after \in [1 .. n -> D]
  BY <1>2, <1>3
<1>5. after \in Seq(D)
  BY <1>4
<1>6. Written(pages, page, data) = after
  BY <1>1, <1>2 DEF Written
<1> QED
  BY <1>5, <1>6

(* A page written to a table's file touches that file only. *)
LEMMA PutPageGood ==
  ASSUME NEW d, NEW made, GoodDisk(d, made), NEW t \in Tables,
         NEW m, NEW id, m.files[id].path = TablePath(t), TablePath(t) \in DOMAIN d,
         NEW page \in Nat, NEW data \in {Zero, t},
         NEW e, e = PutPage(d, m, id, page, data)
  PROVE  GoodDisk(e, made) /\ DOMAIN e = DOMAIN d /\ RecordsStay(d, e)
<1>1. PICK p : p = TablePath(t)
  OBVIOUS
<1>2. PICK after : after = Written(d[p], page, data)
  OBVIOUS
<1>3. e = [d EXCEPT ![p] = after]
  BY <1>1, <1>2 DEF PutPage
<1>4. p \notin Fields
  BY <1>1, TablePathsAreNone
<1>5. \E u \in Tables : p = TablePath(u) /\ d[p] \in Seq({Zero, u})
  BY <1>1, <1>4 DEF GoodDisk, GoodFile, CatalogsFile
<1>6. d[p] \in Seq({Zero, t})
  BY <1>1, <1>5 DEF TablePath
<1>7. after \in Seq({Zero, t})
  <2>1. PICK pages, D : pages = d[p] /\ D = {Zero, t}
    OBVIOUS
  <2> QED
    BY <1>2, <1>6, <2>1, WrittenPages
<1>8. DOMAIN e = DOMAIN d /\ e[p] = after /\ \A q \in DOMAIN d : q # p => e[q] = d[q]
  BY <1>1, <1>3
<1>9. GoodFile(p, after, made)
  BY <1>1, <1>7 DEF GoodFile
<1>10. GoodDisk(e, made)
  BY <1>8, <1>9 DEF GoodDisk
<1> QED
  BY <1>4, <1>8, <1>10 DEF RecordsStay

-----------------------------------------------------------------------------
(* The inductive invariant.                                                *)

(* Each table has a file of its own. *)
GoodTables(map, m) ==
  \A t \in DOMAIN map :
    /\ t \in Tables
    /\ map[t] = [oid |-> map[t].oid, file |-> map[t].file, pages |-> map[t].pages]
    /\ map[t].pages \in SUBSET Nat
    /\ map[t].file \in DOMAIN m.files /\ m.files[map[t].file].path = TablePath(t)

GoodAnswer(answer) ==
  \A t \in Tables : answer.path = TablePath(t) => answer.data \in {Zero, t}

FilesInv ==
  /\ DiskIsGood
  /\ GoodFiles(dm, disk)
  /\ GoodTables(tables, dm)
  /\ GoodAnswer(got)
  /\ next_page_id \in Nat
  /\ workload \in Workloads

DatabasesInv ==
  /\ IsFiniteSet(DOMAIN databases)
  /\ \A name \in DOMAIN databases : GoodDatabase(name, databases[name], created)

(* How far flush has come: flushed lists the databases that are done, and  *)
(* their metadata files are complete, but for the one being written.       *)
Lists(fields, dbs, done) ==
  /\ fields \in Seq(Fields)
  /\ Len(fields) = 3 * Cardinality(done) + 3
  /\ fields[3] = Count(Cardinality(DOMAIN dbs))
  /\ \A name \in done : \E i \in 1 .. Cardinality(done) : EntryName(fields, i) = name
  /\ \A i \in 1 .. Cardinality(done) :
       /\ EntryName(fields, i) \in done
       /\ EntryMeta(fields, i) = dbs[EntryName(fields, i)].meta

MetaWritten(d, db) == db.meta \in DOMAIN d /\ HoldsAll(d[db.meta], db.namespaces)

Done == DOMAIN databases \ todo
FlushInv ==
  /\ writing # {} => status = "flushing"
  /\ status = "flushing" =>
       /\ Lists(flushed, databases, Done)
       /\ CatalogFormat(flushed, created)
       /\ todo \subseteq DOMAIN databases /\ writing \subseteq Done
       /\ \A a, b \in writing : a = b
       /\ \A name \in Done : databases[name].meta # EmptyString
       /\ \A name \in Done \ writing : MetaWritten(disk, databases[name])

(* The files hold all that kept holds. *)
CatalogHolds(file, d, kept) ==
  \E n \in Nat :
    /\ Len(file) = 3 * n + 3 /\ file[3] = Count(n)
    /\ \A name \in DOMAIN kept : \E i \in 1 .. n : EntryName(file, i) = name
    /\ \A i \in 1 .. n : EntryName(file, i) \in DOMAIN kept =>
         /\ EntryMeta(file, i) \in DOMAIN d
         /\ HoldsAll(d[EntryMeta(file, i)], kept[EntryName(file, i)])
Persisted(d, kept) ==
  CatalogPath \in DOMAIN d /\ CatalogHolds(d[CatalogPath], d, kept)

SavedInv ==
  /\ SavedSurvives
  /\ DOMAIN saved # {} => status # "flushing" /\ Persisted(disk, saved)

IInv == FilesInv /\ DatabasesInv /\ FlushInv /\ SavedInv

LEMMA EntryIsField ==
  ASSUME NEW file \in Seq(Fields), NEW i \in Nat \ {0}
  PROVE  EntryName(file, i) \in Fields /\ EntryMeta(file, i) \in Fields
<1>1. PICK n \in Nat, m \in Nat : n = 3 * i + 1 /\ m = 3 * i + 3 /\ n >= 1 /\ m >= 1
  OBVIOUS
<1>2. read_string(file, n) \in Fields /\ read_string(file, m) \in Fields
  BY <1>1, ReadIsField
<1> QED
  BY <1>1, <1>2 DEF EntryName, EntryMeta

LEMMA PersistedStays ==
  ASSUME NEW d, NEW made, GoodDisk(d, made), NEW e, RecordsStay(d, e),
         NEW kept, Persisted(d, kept)
  PROVE  Persisted(e, kept)
<1>1. CatalogPath \in DOMAIN d /\ CatalogPath \in Fields
  BY NamesAreFields DEF Persisted
<1>2. PICK file : file = d[CatalogPath]
  OBVIOUS
<1>3. CatalogPath \in DOMAIN e /\ e[CatalogPath] = file
  BY <1>1, <1>2 DEF RecordsStay
<1>4. file \in Seq(Fields)
  BY <1>1, <1>2, TablePathsAreNone DEF GoodDisk, GoodFile, CatalogsFile, RecordFile
<1>5. PICK n \in Nat :
    /\ Len(file) = 3 * n + 3 /\ file[3] = Count(n)
    /\ \A name \in DOMAIN kept : \E i \in 1 .. n : EntryName(file, i) = name
    /\ \A i \in 1 .. n : EntryName(file, i) \in DOMAIN kept =>
         /\ EntryMeta(file, i) \in DOMAIN d
         /\ HoldsAll(d[EntryMeta(file, i)], kept[EntryName(file, i)])
  BY <1>2 DEF Persisted, CatalogHolds
<1>6. ASSUME NEW i \in 1 .. n, EntryName(file, i) \in DOMAIN kept
      PROVE  /\ EntryMeta(file, i) \in DOMAIN e
             /\ HoldsAll(e[EntryMeta(file, i)], kept[EntryName(file, i)])
  <2>1. EntryMeta(file, i) \in Fields
    BY <1>4, EntryIsField
  <2>2. /\ EntryMeta(file, i) \in DOMAIN e
        /\ e[EntryMeta(file, i)] = d[EntryMeta(file, i)]
    BY <1>5, <1>6, <2>1 DEF RecordsStay
  <2> QED
    BY <1>5, <1>6, <2>2
<1>7. CatalogHolds(file, e, kept)
  BY <1>5, <1>6 DEF CatalogHolds
<1> QED
  BY <1>3, <1>7 DEF Persisted

(* What the files hold is loaded. *)
LEMMA LoadFindsSaved ==
  ASSUME DiskIsGood, NEW kept, Persisted(disk, kept), NEW dbs \in Loaded,
         NEW name \in DOMAIN kept
  PROVE  name \in DOMAIN dbs /\ kept[name] \subseteq dbs[name].namespaces
<1>1. PICK file : file = CatalogFile /\ file = disk[CatalogPath]
  BY DEF CatalogFile, Persisted
<1>2. RecordFile(file) /\ CatalogFormat(file, created)
  BY <1>1, CatalogFileIsGood DEF CatalogsFile
<1>3. PICK n \in Nat :
    /\ Len(file) = 3 * n + 3 /\ file[3] = Count(n)
    /\ \A x \in DOMAIN kept : \E i \in 1 .. n : EntryName(file, i) = x
    /\ \A i \in 1 .. n : EntryName(file, i) \in DOMAIN kept =>
         /\ EntryMeta(file, i) \in DOMAIN disk
         /\ HoldsAll(disk[EntryMeta(file, i)], kept[EntryName(file, i)])
  BY <1>1 DEF Persisted, CatalogHolds
<1>4. ~(Len(file) < 3)
  BY <1>3
<1>5. PICK m \in Nat :
        /\ file[3] = Count(m)
        /\ DOMAIN dbs = {EntryName(file, i) : i \in 1 .. m}
        /\ \A x \in DOMAIN dbs : FromEntry(dbs, x, m)
  BY <1>1, <1>2, <1>4, LoadedIs
<1>6. m = n
  BY <1>3, <1>5 DEF Count
<1>7. name \in DOMAIN dbs
  BY <1>3, <1>5, <1>6
<1>8. PICK i \in 1 .. n : /\ EntryName(file, i) = name
                          /\ dbs[name] \in load_database_metadata(EntryMeta(file, i))
  BY <1>1, <1>5, <1>6, <1>7 DEF FromEntry
<1>9. PICK path, db : path = EntryMeta(file, i) /\ db = dbs[name]
  OBVIOUS
<1>10. path \in DOMAIN disk /\ HoldsAll(disk[path], kept[name])
  BY <1>3, <1>8, <1>9
<1>11. path \in Fields
  BY <1>2, <1>9, EntryIsField DEF RecordFile
<1>12. RecordFile(disk[path])
  BY <1>10, <1>11, TablePathsAreNone DEF DiskIsGood, GoodDisk, GoodFile, CatalogsFile
<1>13. db \in load_database_metadata(path)
  BY <1>8, <1>9
<1>14. \A set : HoldsAll(disk[path], set) => set \subseteq db.namespaces
  BY <1>10, <1>11, <1>12, <1>13, LoadFinds
<1> QED
  BY <1>7, <1>9, <1>10, <1>14

-----------------------------------------------------------------------------
(* The steps.  First those on a table's file, or on a file of a database   *)
(* that is not registered.                                                 *)

LEMMA InitIInv == Init => IInv
<1> SUFFICES ASSUME Init PROVE IInv
  OBVIOUS
<1>1. DOMAIN disk = {} /\ DOMAIN databases = {} /\ DOMAIN tables = {} /\ DOMAIN saved = {}
  BY DEF Init
<1>2. DiskIsGood
  BY <1>1 DEF DiskIsGood, GoodDisk
<1>3. GoodFiles(dm, disk) /\ GoodTables(tables, dm)
  <2>1. PICK none : none = <<>>
    OBVIOUS
  <2>2. DOMAIN none = {}
    BY <2>1
  <2>3. dm = [files |-> none, path_to_file_id |-> none, next_file_id |-> 0]
    BY <2>1 DEF Init, Start
  <2> QED
    BY <1>1, <2>2, <2>3 DEF GoodFiles, GoodTables
<1>4. GoodAnswer(got)
  BY TablePathsAreNone DEF GoodAnswer, Init, NoAnswer, EmptyString
<1>5. FilesInv
  BY <1>2, <1>3, <1>4 DEF FilesInv, Init
<1>6. DatabasesInv
  BY <1>1, FS_EmptySet DEF DatabasesInv
<1>7. FlushInv /\ SavedInv
  BY <1>1 DEF Init, FlushInv, SavedInv, SavedSurvives, Running
<1> QED
  BY <1>5, <1>6, <1>7 DEF IInv

(* A step of a running process that takes nothing from the registry, and   *)
(* nothing from the catalog's files.                                       *)
LEMMA GrowStep ==
  ASSUME IInv, Running, FilesInv', DatabasesInv', RecordsStay(disk, disk'),
         UNCHANGED <<status, saved, writing>>,
         \A name \in DOMAIN databases :
            /\ name \in DOMAIN databases'
            /\ databases[name].namespaces \subseteq databases'[name].namespaces
  PROVE  IInv'
<1>1. FlushInv'
  BY DEF IInv, Running, FlushInv
<1>2. SavedSurvives'
  BY DEF IInv, SavedInv, SavedSurvives, Running
<1>3. ASSUME DOMAIN saved # {} PROVE Persisted(disk, saved)'
  <2>1. PICK d, e, made, kept : d = disk /\ e = disk' /\ made = created /\ kept = saved
    OBVIOUS
  <2>2. GoodDisk(d, made) /\ Persisted(d, kept) /\ RecordsStay(d, e)
    BY <1>3, <2>1 DEF IInv, FilesInv, DiskIsGood, SavedInv
  <2>3. Persisted(e, kept)
    BY <2>2, PersistedStays
  <2> QED
    BY <2>1, <2>3
<1>4. SavedInv'
  BY <1>2, <1>3 DEF SavedInv, Running
<1> QED
  BY <1>1, <1>4 DEF IInv

LEMMA FileStep ==
  ASSUME IInv, Running, FilesInv', RecordsStay(disk, disk'),
         UNCHANGED <<status, databases, saved, created, writing>>
  PROVE  IInv'
<1>1. DatabasesInv'
  BY DEF IInv, DatabasesInv
<1> QED
  BY <1>1, GrowStep

LEMMA SameRecords == RecordsStay(disk, disk)
BY DEF RecordsStay

LEMMA TablesKept ==
  ASSUME NEW map, NEW m, GoodTables(map, m), NEW next,
         \A id \in DOMAIN m.files : /\ id \in DOMAIN next.files
                                    /\ next.files[id].path = m.files[id].path
  PROVE  GoodTables(map, next)
BY DEF GoodTables

LEMMA WriteStep ==
  ASSUME FilesInv, NEW t \in DOMAIN tables, NEW page \in Nat, NEW data \in {Zero, t},
         write_page(tables[t].file, page, data), UNCHANGED created
  PROVE  /\ DiskIsGood' /\ RecordsStay(disk, disk')
         /\ GoodFiles(dm, disk)'
         /\ \A id \in DOMAIN dm.files : /\ id \in DOMAIN dm'.files
                                        /\ dm'.files[id].path = dm.files[id].path
         /\ got' = got
<1>1. PICK d, e, m, next, made :
        d = disk /\ e = disk' /\ m = dm /\ next = dm' /\ made = created
  OBVIOUS
<1>2. GoodDisk(d, made) /\ GoodFiles(m, d)
  BY <1>1 DEF FilesInv, DiskIsGood
<1>3. PICK id \in DOMAIN m.files : id = tables[t].file /\ m.files[id].path = TablePath(t)
  BY <1>1 DEF FilesInv, GoodTables
<1>4. t \in Tables /\ TablePath(t) \in DOMAIN d
  BY <1>2, <1>3 DEF FilesInv, GoodTables, GoodFiles
<1>5. got' = got
  BY DEF write_page
<1>6. CASE e = PutPage(d, m, id, page, data) /\ next = m
  <2>1. GoodDisk(e, made) /\ DOMAIN e = DOMAIN d /\ RecordsStay(d, e)
    BY <1>2, <1>3, <1>4, <1>6, PutPageGood
  <2>2. GoodFiles(next, e)
    BY <1>2, <1>6, <2>1, GrowingDisk
  <2> QED
    BY <1>1, <1>5, <1>6, <2>1, <2>2 DEF DiskIsGood
<1>7. CASE e = d /\ next = [m EXCEPT !.files[id].failed = TRUE]
  <2>1. /\ GoodFiles(next, d)
        /\ DOMAIN next.files = DOMAIN m.files
        /\ \A j \in DOMAIN m.files : next.files[j].path = m.files[j].path
    BY SMTT(30), <1>2, <1>7, FailedGood
  <2>2. RecordsStay(d, e)
    BY <1>7 DEF RecordsStay
  <2> QED
    BY <1>1, <1>2, <1>5, <1>7, <2>1, <2>2 DEF DiskIsGood
<1>8. \/ e = PutPage(d, m, id, page, data) /\ next = m
      \/ e = d /\ next = [m EXCEPT !.files[id].failed = TRUE]
  BY <1>1, <1>3 DEF write_page
<1> QED
  BY <1>6, <1>7, <1>8

(* A read returns zeros or a page of the table. *)
LEMMA ReadStep ==
  ASSUME FilesInv, NEW t \in DOMAIN tables, NEW page \in Nat,
         read_page(tables[t].file, page), UNCHANGED created
  PROVE  /\ disk' = disk
         /\ GoodFiles(dm, disk)'
         /\ \A id \in DOMAIN dm.files : /\ id \in DOMAIN dm'.files
                                        /\ dm'.files[id].path = dm.files[id].path
         /\ GoodAnswer(got)'
<1>1. PICK d, m, next, made : d = disk /\ m = dm /\ next = dm' /\ made = created
  OBVIOUS
<1>2. GoodDisk(d, made) /\ GoodFiles(m, d)
  BY <1>1 DEF FilesInv, DiskIsGood
<1>3. PICK id \in DOMAIN m.files : id = tables[t].file /\ m.files[id].path = TablePath(t)
  BY <1>1 DEF FilesInv, GoodTables
<1>4. t \in Tables /\ TablePath(t) \in DOMAIN d
  BY <1>2, <1>3 DEF FilesInv, GoodTables, GoodFiles
<1>5. PICK stream, pages : stream = m.files[id] /\ pages = d[stream.path]
  OBVIOUS
<1>6. pages \in Seq({Zero, t})
  <2>1. GoodFile(TablePath(t), pages, made)
    BY <1>2, <1>3, <1>4, <1>5 DEF GoodDisk
  <2>2. PICK u \in Tables : TablePath(t) = TablePath(u) /\ pages \in Seq({Zero, u})
    BY <1>4, <2>1, TablePathsAreNone DEF GoodFile, CatalogsFile
  <2> QED
    BY <2>2 DEF TablePath
<1>7. PICK data : data = IF stream.failed \/ page >= Len(pages) THEN Zero ELSE pages[page + 1]
  OBVIOUS
<1>8. data \in {Zero, t}
  BY <1>6, <1>7
<1>9. got' = [path |-> stream.path, data |-> data]
  BY <1>1, <1>3, <1>5, <1>7 DEF read_page
<1>10. GoodAnswer(got')
  BY <1>3, <1>5, <1>8, <1>9 DEF GoodAnswer, TablePath
<1>11. PICK b : b = (~stream.failed /\ page >= Len(pages))
  OBVIOUS
<1>12. next = [m EXCEPT !.files[id].failed = b]
  <2>1. next = [m EXCEPT !.files[id].failed = ~@ /\ page >= Len(pages)]
    BY <1>1, <1>3, <1>5 DEF read_page
  <2> QED
    BY <1>5, <1>11, <2>1
<1>13. /\ GoodFiles(next, d)
       /\ DOMAIN next.files = DOMAIN m.files
       /\ \A j \in DOMAIN m.files : next.files[j].path = m.files[j].path
  BY <1>2, <1>12, FailedGood
<1>14. disk' = disk
  BY DEF read_page
<1> QED
  BY <1>1, <1>10, <1>13, <1>14

LEMMA TablePathTouched ==
  ASSUME NEW d, NEW made, GoodDisk(d, made), NEW m, GoodFiles(m, d), NEW t \in Tables,
         NEW touched, touched = Touched(d, TablePath(t))
  PROVE  /\ GoodDisk(touched, made) /\ RecordsStay(d, touched)
         /\ TablePath(t) \in DOMAIN touched
         /\ GoodFiles(m, touched)
<1>1. PICK p : p = TablePath(t)
  OBVIOUS
<1>2. /\ GoodDisk(touched, made)
      /\ DOMAIN touched = DOMAIN d \cup {p}
      /\ \A q \in DOMAIN d : touched[q] = d[q]
  BY <1>1, TouchedGood
<1>3. GoodFiles(m, touched)
  BY <1>2, GrowingDisk
<1> QED
  BY <1>1, <1>2, <1>3 DEF RecordsStay

LEMMA CreateTableStep ==
  ASSUME FilesInv, NEW t \in workload.tables, create_table(t)
  PROVE  FilesInv' /\ RecordsStay(disk, disk')
<1>1. PICK d, e, m, next, made, p, page :
        /\ d = disk /\ e = disk' /\ m = dm /\ next = dm' /\ made = created
        /\ p = TablePath(t) /\ page = next_page_id
  OBVIOUS
<1>2. GoodDisk(d, made) /\ GoodFiles(m, d) /\ page \in Nat /\ t \in Tables
  BY <1>1, CatalogAssumption DEF FilesInv, DiskIsGood
<1>3. PICK touched : touched = Touched(d, p)
  OBVIOUS
<1>4. /\ GoodDisk(touched, made) /\ RecordsStay(d, touched)
      /\ p \in DOMAIN touched /\ GoodFiles(m, touched)
  BY <1>1, <1>2, <1>3, TablePathTouched
<1>5. next = Created(m, p)
  BY <1>1 DEF create_table
<1>6. PICK id : id = m.next_file_id
  OBVIOUS
<1>7. /\ GoodFiles(next, touched)
      /\ DOMAIN next.files = DOMAIN m.files \cup {id}
      /\ next.files[id].path = p
      /\ \A j \in DOMAIN m.files : next.files[j] = m.files[j]
      /\ next.path_to_file_id[p] = id
  BY <1>4, <1>5, <1>6, CreatedGood
<1>8. FileOf(t) = id
  BY <1>1, <1>7 DEF FileOf
<1>9. e = PutPage(touched, next, id, page, Zero)
  BY <1>1, <1>3, <1>8 DEF create_table
<1>10. GoodDisk(e, made) /\ DOMAIN e = DOMAIN touched /\ RecordsStay(touched, e)
  <2>1. PICK zero : zero = Zero
    OBVIOUS
  <2>2. zero \in {Zero, t} /\ e = PutPage(touched, next, id, page, zero)
    BY <1>9, <2>1
  <2> QED
    BY <1>1, <1>2, <1>4, <1>7, <2>2, PutPageGood
<1>11. GoodFiles(next, e)
  BY <1>7, <1>10, GrowingDisk
<1>12. RecordsStay(d, e)
  BY <1>4, <1>10 DEF RecordsStay
<1>13. PICK map, entry : map = tables /\ entry = [oid |-> next_table_oid, file |-> id, pages |-> {page}]
  OBVIOUS
<1>14. tables' = Put(map, t, entry)
  BY <1>1, <1>8, <1>13 DEF create_table
<1>15. GoodTables(map, next)
  <2>1. GoodTables(map, m)
    BY <1>1, <1>13 DEF FilesInv
  <2> QED
    BY <1>7, <2>1, TablesKept
<1>16. GoodTables(tables', next)
  <2>1. PICK map2 : map2 = tables'
    OBVIOUS
  <2>2. /\ DOMAIN map2 = DOMAIN map \cup {t} /\ map2[t] = entry
        /\ \A u \in DOMAIN map : u # t => map2[u] = map[u]
    BY <1>14, <2>1 DEF Put
  <2>3. /\ entry = [oid |-> entry.oid, file |-> entry.file, pages |-> entry.pages]
        /\ entry.pages \in SUBSET Nat /\ entry.file = id
    BY <1>2, <1>13
  <2>4. GoodTables(map2, next)
    BY <1>1, <1>2, <1>7, <1>15, <2>2, <2>3 DEF GoodTables
  <2> QED
    BY <2>1, <2>4
<1>17. got' = got /\ workload' = workload /\ created' = created /\ next_page_id' = next_page_id + 1
  BY DEF create_table, ghosts
<1> QED
  BY <1>1, <1>2, <1>10, <1>11, <1>12, <1>16, <1>17 DEF FilesInv, DiskIsGood

LEMMA CreateTableFailsStep ==
  ASSUME FilesInv, NEW t \in workload.tables, create_tableFails(t)
  PROVE  FilesInv' /\ RecordsStay(disk, disk')
<1>1. PICK d, e, m, next, made, p :
        /\ d = disk /\ e = disk' /\ m = dm /\ next = dm' /\ made = created
        /\ p = TablePath(t)
  OBVIOUS
<1>2. GoodDisk(d, made) /\ GoodFiles(m, d) /\ t \in Tables
  BY <1>1, CatalogAssumption DEF FilesInv, DiskIsGood
<1>3. PICK map : map = tables /\ GoodTables(map, m)
  BY <1>1 DEF FilesInv
<1>4. CASE next = CreatedInVain(m, p) /\ e = d
  <2>1. GoodFiles(next, d) /\ next.files = m.files
    BY <1>2, <1>4, InVainGood
  <2>2. GoodTables(map, next)
    BY <1>3, <2>1 DEF GoodTables
  <2>3. RecordsStay(d, e)
    BY <1>4 DEF RecordsStay
  <2> QED
    BY <1>1, <1>2, <1>3, <1>4, <2>1, <2>2, <2>3
    DEF FilesInv, DiskIsGood, create_tableFails, ghosts
<1>5. CASE next = Created(m, p) /\ e = Touched(d, p)
  <2>1. /\ GoodDisk(e, made) /\ RecordsStay(d, e)
        /\ p \in DOMAIN e /\ GoodFiles(m, e)
    BY <1>1, <1>2, <1>5, TablePathTouched
  <2>2. /\ GoodFiles(next, e)
        /\ \A j \in DOMAIN m.files : j \in DOMAIN next.files /\ next.files[j] = m.files[j]
    BY <1>5, <2>1, CreatedGood
  <2>3. GoodTables(map, next)
    BY <1>3, <2>2, TablesKept
  <2> QED
    BY <1>1, <1>2, <1>3, <2>1, <2>2, <2>3
    DEF FilesInv, DiskIsGood, create_tableFails, ghosts
<1> QED
  BY <1>1, <1>4, <1>5 DEF create_tableFails

LEMMA NewPageStep ==
  ASSUME FilesInv, NEW t \in workload.tables, NewPage(t)
  PROVE  FilesInv' /\ RecordsStay(disk, disk')
<1>0. PICK zero : zero = Zero
  OBVIOUS
<1>1. PICK page \in Nat : page = next_page_id
  BY DEF FilesInv
<1>2. t \in DOMAIN tables /\ zero \in {Zero, t} /\ write_page(tables[t].file, page, zero)
  BY <1>0, <1>1 DEF NewPage
<1>3. UNCHANGED <<created, workload>> /\ next_page_id' = page + 1
  BY <1>1 DEF NewPage, ghosts
<1>4. /\ DiskIsGood' /\ RecordsStay(disk, disk')
      /\ GoodFiles(dm, disk)'
      /\ \A id \in DOMAIN dm.files : /\ id \in DOMAIN dm'.files
                                     /\ dm'.files[id].path = dm.files[id].path
      /\ got' = got
  BY <1>2, <1>3, WriteStep
<1>5. PICK map, map2, m, next : map = tables /\ map2 = tables' /\ m = dm /\ next = dm'
  OBVIOUS
<1>6. GoodTables(map, next)
  BY <1>4, <1>5, TablesKept DEF FilesInv
<1>7. GoodTables(map2, next)
  <2>1. CASE map2 = map
    BY <1>6, <2>1
  <2>2. CASE map2 = [map EXCEPT ![t].pages = @ \cup {page}]
    <3>1. PICK more : more = map[t].pages \cup {page}
      OBVIOUS
    <3>2. PICK oid, file, pages : map[t] = [oid |-> oid, file |-> file, pages |-> pages]
      BY <1>2, <1>5, <1>6 DEF GoodTables
    <3>3. [map[t] EXCEPT !.pages = more] = [oid |-> oid, file |-> file, pages |-> more]
      BY <3>2
    <3>4. PICK entry : entry = [oid |-> oid, file |-> file, pages |-> more]
      OBVIOUS
    <3>5. map2 = [map EXCEPT ![t] = entry]
      BY <2>2, <3>1, <3>3, <3>4
    <3>6. more \in SUBSET Nat
      BY <1>1, <1>2, <1>5, <1>6, <3>1 DEF GoodTables
    <3>7. /\ entry = [oid |-> entry.oid, file |-> entry.file, pages |-> entry.pages]
          /\ entry.pages \in SUBSET Nat /\ entry.file = map[t].file
      BY <3>2, <3>4, <3>6
    <3> QED
      BY <1>6, <3>5, <3>7 DEF GoodTables
  <2> QED
    BY <1>1, <1>5, <2>1, <2>2 DEF NewPage
<1> QED
  BY <1>1, <1>3, <1>4, <1>5, <1>7 DEF FilesInv

LEMMA PageCallStep ==
  ASSUME FilesInv, NEW t \in workload.tables, PageCall(t)
  PROVE  FilesInv' /\ RecordsStay(disk, disk')
<1>1. t \in DOMAIN tables /\ UNCHANGED <<tables, next_page_id, created, workload>>
  BY DEF PageCall, memory, ghosts
<1>2. PICK p \in tables[t].pages : \/ write_page(tables[t].file, p, t)
                                   \/ read_page(tables[t].file, p)
                                   \/ delete_page(tables[t].file, p)
  BY DEF PageCall
<1>3. p \in Nat
  BY <1>1 DEF FilesInv, GoodTables
<1>4. PICK map, m, next : map = tables /\ m = dm /\ next = dm' /\ GoodTables(map, m)
  BY DEF FilesInv
<1>5. CASE \E data \in {Zero, t} : write_page(tables[t].file, p, data)
  <2>1. PICK data \in {Zero, t} : write_page(tables[t].file, p, data)
    BY <1>5
  <2>2. /\ DiskIsGood' /\ RecordsStay(disk, disk')
        /\ GoodFiles(dm, disk)'
        /\ \A id \in DOMAIN dm.files : /\ id \in DOMAIN dm'.files
                                       /\ dm'.files[id].path = dm.files[id].path
        /\ got' = got
    BY <1>1, <1>3, <2>1, WriteStep
  <2>3. GoodTables(map, next)
    BY <1>4, <2>2, TablesKept
  <2> QED
    BY <1>1, <1>4, <2>2, <2>3 DEF FilesInv
<1>6. CASE read_page(tables[t].file, p)
  <2>1. /\ disk' = disk
        /\ GoodFiles(dm, disk)'
        /\ \A id \in DOMAIN dm.files : /\ id \in DOMAIN dm'.files
                                       /\ dm'.files[id].path = dm.files[id].path
        /\ GoodAnswer(got)'
    BY <1>1, <1>3, <1>6, ReadStep
  <2>2. GoodTables(map, next)
    BY <1>4, <2>1, TablesKept
  <2> QED
    BY <1>1, <1>4, <2>1, <2>2, SameRecords DEF FilesInv, DiskIsGood
<1> QED
  BY <1>2, <1>5, <1>6 DEF delete_page

LEMMA OpenFileStep ==
  ASSUME FilesInv, NEW t \in workload.tables, OpenFile(t)
  PROVE  FilesInv' /\ RecordsStay(disk, disk')
<1>1. UNCHANGED <<disk, got, tables, next_page_id, created, workload>>
  BY DEF OpenFile, open_file, memory, ghosts
<1>2. PICK d, m, next, map : d = disk /\ m = dm /\ next = dm' /\ map = tables
  OBVIOUS
<1>3. GoodFiles(m, d) /\ GoodTables(map, m)
  BY <1>2 DEF FilesInv
<1>4. PICK files, ids, n : m = [files |-> files, path_to_file_id |-> ids, next_file_id |-> n]
  BY <1>3 DEF GoodFiles
<1>5. \/ next = m
      \/ \E more : next = [m EXCEPT !.path_to_file_id = more]
  BY <1>2 DEF OpenFile, open_file
<1>6. \E more : next = [files |-> files, path_to_file_id |-> more, next_file_id |-> n]
  BY <1>4, <1>5
<1>7. next.files = m.files /\ GoodFiles(next, d)
  BY <1>3, <1>4, <1>6 DEF GoodFiles
<1>8. GoodTables(map, next)
  BY <1>3, <1>7 DEF GoodTables
<1> QED
  BY <1>1, <1>2, <1>7, <1>8, SameRecords DEF FilesInv, DiskIsGood

(* The files of a database: it is registered with both, or with none. *)
LEMMA DatabaseFiles ==
  ASSUME NEW d, NEW made, GoodDisk(d, made), NEW m, GoodFiles(m, d), NEW map, GoodTables(map, m),
         NEW p \in Fields, p # EmptyString, NEW e, e = Touched(d, p),
         NEW next, next = Created(m, p)
  PROVE  /\ GoodDisk(e, made) /\ GoodFiles(next, e) /\ GoodTables(map, next)
         /\ RecordsStay(d, e) /\ p \in DOMAIN e
<1>1. /\ GoodDisk(e, made)
      /\ DOMAIN e = DOMAIN d \cup {p}
      /\ \A q \in DOMAIN d : e[q] = d[q]
  BY TouchedGood
<1>2. GoodFiles(m, e)
  BY <1>1, GrowingDisk
<1>3. /\ GoodFiles(next, e)
      /\ \A j \in DOMAIN m.files : j \in DOMAIN next.files /\ next.files[j] = m.files[j]
  BY <1>1, <1>2, CreatedGood
<1>4. GoodTables(map, next)
  BY <1>3, TablesKept
<1> QED
  BY <1>1, <1>3, <1>4 DEF RecordsStay

LEMMA CreateDatabaseFailsStep ==
  ASSUME FilesInv, NEW name \in Databases, create_databaseFails(name)
  PROVE  FilesInv' /\ RecordsStay(disk, disk')
<1>1. PICK d, e, m, next, made, map :
        /\ d = disk /\ e = disk' /\ m = dm /\ next = dm' /\ made = created /\ map = tables
  OBVIOUS
<1>2. GoodDisk(d, made) /\ GoodFiles(m, d) /\ GoodTables(map, m)
  BY <1>1 DEF FilesInv, DiskIsGood
<1>3. PICK p \in Fields, q \in Fields : /\ p = DbPath(name) /\ p # EmptyString
                                        /\ q = MetaPath(name) /\ q # EmptyString
  BY NamesAreFields
<1>4. CASE next = CreatedInVain(m, p) /\ e = d
  <2>1. GoodFiles(next, d) /\ next.files = m.files
    BY <1>2, <1>4, InVainGood
  <2>2. GoodTables(map, next)
    BY <1>2, <2>1 DEF GoodTables
  <2>3. RecordsStay(d, e)
    BY <1>4 DEF RecordsStay
  <2> QED
    BY <1>1, <1>2, <1>4, <2>1, <2>2, <2>3
    DEF FilesInv, DiskIsGood, create_databaseFails, memory, ghosts
<1>5. CASE next = CreatedInVain(Created(m, p), q) /\ e = Touched(d, p)
  <2>1. PICK first : first = Created(m, p)
    OBVIOUS
  <2>2. /\ GoodDisk(e, made) /\ GoodFiles(first, e) /\ GoodTables(map, first)
        /\ RecordsStay(d, e)
    BY <1>2, <1>3, <1>5, <2>1, DatabaseFiles
  <2>3. GoodFiles(next, e) /\ next.files = first.files
    BY <1>5, <2>1, <2>2, InVainGood
  <2>4. GoodTables(map, next)
    BY <2>2, <2>3 DEF GoodTables
  <2> QED
    BY <1>1, <2>2, <2>3, <2>4
    DEF FilesInv, DiskIsGood, create_databaseFails, memory, ghosts
<1> QED
  BY <1>1, <1>3, <1>4, <1>5 DEF create_databaseFails

LEMMA CreateDatabaseStep ==
  ASSUME IInv, NEW name \in Databases, create_database(name)
  PROVE  IInv'
<1>1. PICK d, e, m, next, made, more, map :
        /\ d = disk /\ e = disk' /\ m = dm /\ next = dm' /\ made = created
        /\ more = created' /\ map = tables
  OBVIOUS
<1>2. GoodDisk(d, made) /\ GoodFiles(m, d) /\ GoodTables(map, m)
  BY <1>1 DEF IInv, FilesInv, DiskIsGood
<1>3. PICK p \in Fields, q \in Fields : /\ p = DbPath(name) /\ p # EmptyString
                                        /\ q = MetaPath(name) /\ q # EmptyString
  BY NamesAreFields
<1>4. PICK between, first : between = Touched(d, p) /\ first = Created(m, p)
  OBVIOUS
<1>5. e = Touched(between, q) /\ next = Created(first, q)
  BY <1>1, <1>3, <1>4 DEF create_database
<1>6. /\ GoodDisk(between, made) /\ GoodFiles(first, between) /\ GoodTables(map, first)
      /\ RecordsStay(d, between)
  BY <1>2, <1>3, <1>4, DatabaseFiles
<1>7. /\ GoodDisk(e, made) /\ GoodFiles(next, e) /\ GoodTables(map, next)
      /\ RecordsStay(between, e)
  BY <1>3, <1>5, <1>6, DatabaseFiles
<1>8. RecordsStay(d, e)
  BY <1>6, <1>7 DEF RecordsStay
<1>9. made \subseteq more
  BY <1>1 DEF create_database
<1>10. GoodDisk(e, more)
  BY <1>7, <1>9, MoreIsMade DEF GoodDisk
<1>11. FilesInv'
  BY <1>1, <1>7, <1>10 DEF IInv, FilesInv, DiskIsGood, create_database
<1>12. PICK key, public, base : /\ key = Name(name) /\ public = Namespace("public")
                                /\ base = NoNamespaces(q)
  OBVIOUS
<1>13. PICK db : db = create_namespace(base, public)
  OBVIOUS
<1>14. /\ Counted(db) /\ db.meta = q /\ db.namespaces = {public}
  <2>1. Counted(base) /\ base.meta = q /\ base.namespaces = {}
    BY <1>12, EmptyCounted
  <2>2. public \in Fields
    BY <1>12, NamesAreFields, CatalogAssumption
  <2> QED
    BY <1>13, <2>1, <2>2, CreateCounts
<1>15. <<key, public>> \in more
  BY <1>1, <1>12 DEF create_database
<1>16. GoodDatabase(key, db, more)
  <2>1. <<key, public>>[1] = key
    OBVIOUS
  <2>2. MetaOf(q, name) /\ key \in Fields
    BY <1>3, <1>12, MetaOfFacts, NamesAreFields
  <2>3. GoodEntry(key, db.meta, more)
    BY <1>12, <1>14, <1>15, <2>1, <2>2 DEF GoodEntry
  <2> QED
    BY <1>14, <1>15, <2>3 DEF GoodDatabase
<1>17. PICK old, new : old = databases /\ new = databases'
  OBVIOUS
<1>18. key \notin DOMAIN old /\ new = Put(old, key, db)
  BY <1>3, <1>12, <1>13, <1>17 DEF create_database
<1>19. /\ DOMAIN new = DOMAIN old \cup {key} /\ new[key] = db
       /\ \A x \in DOMAIN old : new[x] = old[x]
  BY <1>18 DEF Put
<1>20. DatabasesInv'
  <2>1. IsFiniteSet(DOMAIN new)
    BY <1>17, <1>19, FS_AddElement DEF IInv, DatabasesInv
  <2>2. ASSUME NEW x \in DOMAIN new PROVE GoodDatabase(x, new[x], more)
    <3>1. CASE x = key
      BY <1>16, <1>19, <3>1
    <3>2. CASE x # key
      <4>1. PICK y : y = old[x]
        OBVIOUS
      <4>2. GoodDatabase(x, y, made)
        BY <1>1, <1>17, <1>19, <3>2, <4>1 DEF IInv, DatabasesInv
      <4>3. GoodDatabase(x, y, more)
        BY <1>9, <4>2, MoreIsMade
      <4> QED
        BY <1>19, <3>2, <4>1, <4>3
    <3> QED
      BY <3>1, <3>2
  <2> QED
    BY <1>1, <1>17, <2>1, <2>2 DEF DatabasesInv
<1>21. Running /\ UNCHANGED <<status, saved, writing>>
  BY DEF create_database, flush
<1> QED
  BY <1>1, <1>8, <1>11, <1>17, <1>19, <1>20, <1>21, GrowStep

LEMMA CreateNamespaceStep ==
  ASSUME IInv, NEW d \in Databases, NEW n \in Namespaces, CreateNamespace(Name(d), n)
  PROVE  IInv'
<1>1. PICK key, ns, made, more, old, new, path :
        /\ key = Name(d) /\ ns = Namespace(n) /\ made = created /\ more = created'
        /\ old = databases /\ new = databases' /\ path = disk
  OBVIOUS
<1>2. key \in DOMAIN old
  BY <1>1 DEF CreateNamespace
<1>3. PICK before, after : before = old[key] /\ after = create_namespace(before, ns)
  OBVIOUS
<1>4. new = [old EXCEPT ![key] = after] /\ more = made \cup {<<key, ns>>}
  BY <1>1, <1>3 DEF CreateNamespace
<1>5. GoodDatabase(key, before, made) /\ ns \in Fields
  BY <1>1, <1>2, <1>3, NamesAreFields DEF IInv, DatabasesInv
<1>6. /\ Counted(after) /\ after.meta = before.meta
      /\ after.namespaces = before.namespaces \cup {ns}
  BY <1>3, <1>5, CreateCounts DEF GoodDatabase
<1>7. made \subseteq more /\ <<key, ns>> \in more
  BY <1>4
<1>8. GoodDatabase(key, before, more)
  BY <1>5, <1>7, MoreIsMade
<1>9. GoodDatabase(key, after, more)
  BY <1>6, <1>7, <1>8 DEF GoodDatabase
<1>10. /\ DOMAIN new = DOMAIN old /\ new[key] = after
       /\ \A x \in DOMAIN old : x # key => new[x] = old[x]
  BY <1>2, <1>4
<1>11. DatabasesInv'
  <2>1. ASSUME NEW x \in DOMAIN new PROVE GoodDatabase(x, new[x], more)
    <3>1. CASE x = key
      BY <1>9, <1>10, <3>1
    <3>2. CASE x # key
      <4>1. PICK y : y = old[x]
        OBVIOUS
      <4>2. GoodDatabase(x, y, made)
        BY <1>1, <1>10, <3>2, <4>1 DEF IInv, DatabasesInv
      <4>3. GoodDatabase(x, y, more)
        BY <1>7, <4>2, MoreIsMade
      <4> QED
        BY <1>10, <3>2, <4>1, <4>3
    <3> QED
      BY <3>1, <3>2
  <2> QED
    BY <1>1, <1>10, <2>1 DEF IInv, DatabasesInv
<1>12. FilesInv'
  <2>1. GoodDisk(path, made)
    BY <1>1 DEF IInv, FilesInv, DiskIsGood
  <2>2. GoodDisk(path, more)
    BY <1>7, <2>1, MoreIsMade DEF GoodDisk
  <2> QED
    BY <1>1, <2>2 DEF IInv, FilesInv, DiskIsGood, CreateNamespace
<1>13. \A x \in DOMAIN databases :
         /\ x \in DOMAIN databases'
         /\ databases[x].namespaces \subseteq databases'[x].namespaces
  BY <1>1, <1>3, <1>6, <1>10
<1>14. Running /\ UNCHANGED <<status, saved, writing>> /\ disk' = disk
  BY DEF CreateNamespace, flush
<1>15. RecordsStay(disk, disk')
  BY <1>14 DEF RecordsStay
<1> QED
  BY <1>11, <1>12, <1>13, <1>14, <1>15, GrowStep

-----------------------------------------------------------------------------
(* What flush writes. *)

LEMMA CutGood ==
  ASSUME NEW p, NEW made, NEW fields, CatalogsFile(p, fields, made),
         NEW part, CutOf(part, fields)
  PROVE  CatalogsFile(p, part, made)
<1>1. RecordFile(fields) /\ fields \in Seq(Fields)
  BY DEF CatalogsFile, RecordFile
<1>2. RecordFile(part)
  BY <1>1, CutRecord
<1>3. MetaFormat(p, part, made)
  BY <1>1, CutMeta DEF CatalogsFile
<1>4. p = CatalogPath => CatalogFormat(part, made)
  BY <1>1, CutCatalog DEF CatalogsFile
<1> QED
  BY <1>2, <1>3, <1>4 DEF CatalogsFile

LEMMA SetToSeqsAre ==
  ASSUME NEW S, IsFiniteSet(S), NEW order \in SetToSeqs(S)
  PROVE  order \in Seq(S) /\ Len(order) = Cardinality(S)
<1>1. PICK n \in Nat : n = Cardinality(S)
  BY FS_CardinalityType
<1>2. order \in [1 .. n -> S]
  BY <1>1 DEF SetToSeqs
<1> QED
  BY <1>1, <1>2

LEMMA SetToSeqIs ==
  ASSUME NEW S, IsFiniteSet(S), NEW order, order = SetToSeq(S)
  PROVE  /\ order \in Seq(S) /\ Len(order) = Cardinality(S)
         /\ \A x \in S : \E i \in 1 .. Cardinality(S) : x = order[i]
<1>1. PICK n \in Nat : n = Cardinality(S) /\ ExistsBijection(1 .. n, S)
  BY FS_CardinalityType
<1>2. PICK f : f \in Bijection(1 .. n, S)
  BY <1>1 DEF ExistsBijection
<1>3. f \in [1 .. n -> S] /\ IsInjective(f)
  BY <1>2 DEF Bijection, Injection
<1>4. order \in [1 .. n -> S] /\ IsInjective(order)
  <2>1. \E g \in [1 .. n -> S] : IsInjective(g)
    BY <1>3
  <2>2. order = CHOOSE g \in [1 .. n -> S] : IsInjective(g)
    BY <1>1 DEF SetToSeq
  <2> QED
    BY <2>1, <2>2
<1>5. order \in Injection(1 .. n, S)
  BY <1>4 DEF Injection
<1>6. IsFiniteSet(1 .. n) /\ Cardinality(1 .. n) = n
  BY FS_Interval
<1>7. order \in Surjection(1 .. n, S)
  BY <1>1, <1>5, <1>6, FS_Injection
<1>8. \A x \in S : \E i \in 1 .. n : order[i] = x
  BY <1>7 DEF Surjection
<1> QED
  BY <1>1, <1>4, <1>8

LEMMA Headed ==
  ASSUME NEW D, NEW head \in Seq(D), NEW rest \in Seq(D), NEW m \in Nat, m = Len(head),
         NEW file, file = head \o rest
  PROVE  /\ file \in Seq(D) /\ Len(file) = Len(rest) + m
         /\ \A k \in 1 .. m : file[k] = head[k]
         /\ \A i \in 1 .. Len(rest) : file[i + m] = rest[i]
<1>1. PICK n \in Nat : n = Len(rest)
  OBVIOUS
<1>2. /\ file \in Seq(D) /\ Len(file) = m + n
      /\ \A k \in 1 .. m + n : file[k] = IF k <= m THEN head[k] ELSE rest[k - m]
  BY <1>1, ConcatProperties
<1>3. \A k \in 1 .. m : file[k] = head[k]
  BY <1>2
<1>4. ASSUME NEW i \in 1 .. n PROVE file[i + m] = rest[i]
  <2>1. PICK j \in 1 .. m + n : j = i + m /\ ~(j <= m) /\ j - m = i
    OBVIOUS
  <2> QED
    BY <1>2, <2>1
<1> QED
  BY <1>1, <1>2, <1>3, <1>4

LEMMA MetaFieldsGood ==
  ASSUME NEW name, NEW db, NEW made, GoodDatabase(name, db, made), db.meta # EmptyString,
         NEW order \in Seq(db.namespaces),
         NEW fields, fields = MetaFields(db, order)
  PROVE  /\ CatalogsFile(db.meta, fields, made)
         /\ Len(fields) = Len(order) + 3 /\ fields[3] = Count(db.count)
         /\ \A i \in 1 .. Len(order) : fields[i + 3] = order[i]
<1>1. PICK head : head = <<MAGIC_NUMBER, <<"header">>, Count(db.count)>>
  OBVIOUS
<1>2. db \in Records /\ Count(db.count) \in Fields
  BY NamesAreFields DEF GoodDatabase, Counted, Records
<1>3. order \in Seq(Fields)
  <2>1. db.namespaces \subseteq Fields
    BY <1>2 DEF Records
  <2> QED
    BY <2>1
<1>4. head \in Seq(Fields) /\ Len(head) = 3 /\ head[3] = Count(db.count)
  BY <1>1, <1>2, NamesAreFields
<1>5. fields = head \o order
  BY <1>1 DEF MetaFields
<1>6. /\ fields \in Seq(Fields) /\ Len(fields) = Len(order) + 3
      /\ fields[3] = Count(db.count)
      /\ \A i \in 1 .. Len(order) : fields[i + 3] = order[i]
  <2>1. PICK m \in Nat : m = 3
    OBVIOUS
  <2>2. m = Len(head)
    BY <1>4, <2>1
  <2>3. /\ fields \in Seq(Fields) /\ Len(fields) = Len(order) + m
        /\ \A k \in 1 .. m : fields[k] = head[k]
        /\ \A i \in 1 .. Len(order) : fields[i + m] = order[i]
    <3>1. PICK D, h, rest, file :
            /\ D = Fields /\ h = head /\ rest = order /\ file = fields
            /\ h \in Seq(D) /\ rest \in Seq(D) /\ m = Len(h) /\ file = h \o rest
      BY <1>3, <1>4, <1>5, <2>2
    <3>2. /\ file \in Seq(D) /\ Len(file) = Len(rest) + m
          /\ \A k \in 1 .. m : file[k] = h[k]
          /\ \A i \in 1 .. Len(rest) : file[i + m] = rest[i]
      BY <3>1, Headed
    <3> QED
      BY <3>1, <3>2
  <2>4. m \in 1 .. m
    BY <2>1
  <2> QED
    BY <1>4, <2>1, <2>3, <2>4
<1>7. RecordFile(fields)
  BY <1>2, <1>6 DEF RecordFile, Records
<1>8. PICK d \in Databases : name = Name(d) /\ MetaOf(db.meta, d)
  BY DEF GoodDatabase, GoodEntry
<1>9. Whole(name)
  BY <1>8, NamesAreFields
<1>10. MetaFormat(db.meta, fields, made)
  <2> SUFFICES ASSUME NEW e \in Databases, MetaOf(db.meta, e),
                      NEW i \in 4 .. Len(fields), Whole(fields[i])
               PROVE  <<Name(e), fields[i]>> \in made
    BY DEF MetaFormat
  <2>1. e = d
    BY <1>8, MetaOfFacts
  <2>2. PICK j \in 1 .. Len(order) : i = j + 3
    <3>1. PICK n \in Nat : n = Len(order)
      BY <1>3
    <3>2. i \in 4 .. (n + 3)
      BY <1>6, <3>1
    <3>3. i - 3 \in 1 .. n /\ i = (i - 3) + 3
      BY <3>2
    <3> QED
      BY <3>1, <3>3
  <2>3. fields[i] = order[j] /\ order[j] \in db.namespaces
    BY <1>6, <2>2
  <2> QED
    BY <1>8, <1>9, <2>1, <2>3 DEF GoodDatabase
<1>11. db.meta # CatalogPath
  BY <1>8, MetaOfFacts
<1>12. CatalogsFile(db.meta, fields, made)
  BY <1>2, <1>7, <1>10, <1>11 DEF CatalogsFile, Records
<1> QED
  BY <1>6, <1>12

LEMMA FlushedGood ==
  ASSUME IInv, status = "flushing"
  PROVE  CatalogsFile(CatalogPath, flushed, created)
<1>1. RecordFile(flushed)
  <2>1. Cardinality(DOMAIN databases) \in Nat
    BY FS_CardinalityType DEF IInv, DatabasesInv
  <2> QED
    BY <2>1 DEF IInv, FlushInv, Lists, RecordFile
<1>2. MetaFormat(CatalogPath, flushed, created)
  BY MetaOfFacts DEF MetaFormat
<1>3. CatalogPath \in Fields /\ CatalogPath # EmptyString
  BY NamesAreFields DEF CatalogPath, EmptyString
<1> QED
  BY <1>1, <1>2, <1>3 DEF IInv, FlushInv, CatalogsFile

(* However flush is cut short, the files are in order. *)
LEMMA StoppedGood ==
  ASSUME IInv, status = "flushing", Stopped
  PROVE  GoodDisk(disk', created)
<1>1. PICK d, e, made, cat : /\ d = disk /\ e = disk' /\ made = created
                             /\ cat = CatalogPath
  OBVIOUS
<1>2. GoodDisk(d, made)
  BY <1>1 DEF IInv, FilesInv, DiskIsGood
<1>3. PICK prefix \in CutShort(flushed) :
        IF writing = {} THEN disk' = Put(disk, CatalogPath, prefix)
        ELSE \E name \in writing : \E order \in SetToSeqs(databases[name].namespaces) :
             \E part \in CutShort(MetaFields(databases[name], order)) :
                disk' = Put(Put(disk, databases[name].meta, part), CatalogPath, prefix)
  BY DEF Stopped
<1>4. GoodFile(cat, prefix, made)
  <2>1. flushed \in Seq(Fields) /\ CatalogsFile(CatalogPath, flushed, created)
    BY FlushedGood DEF CatalogsFile, RecordFile
  <2>2. CutOf(prefix, flushed)
    BY <2>1, CutShortCuts
  <2>3. CatalogsFile(CatalogPath, prefix, created)
    BY <2>1, <2>2, CutGood
  <2> QED
    BY <1>1, <2>3 DEF GoodFile
<1>5. CASE writing = {}
  <2>1. e = Put(d, cat, prefix)
    BY <1>1, <1>3, <1>5
  <2> QED
    BY <1>1, <1>2, <1>4, <2>1, PutGood
<1>6. CASE writing # {}
  <2>1. PICK name \in writing : \E order \in SetToSeqs(databases[name].namespaces) :
             \E part \in CutShort(MetaFields(databases[name], order)) :
                disk' = Put(Put(disk, databases[name].meta, part), CatalogPath, prefix)
    BY <1>3, <1>6
  <2>2. PICK db, set : db = databases[name] /\ set = db.namespaces
    OBVIOUS
  <2>3. PICK order \in SetToSeqs(set) : \E part \in CutShort(MetaFields(db, order)) :
                disk' = Put(Put(disk, db.meta, part), CatalogPath, prefix)
    BY <2>1, <2>2
  <2>4. PICK fields : fields = MetaFields(db, order)
    OBVIOUS
  <2>5. PICK part \in CutShort(fields) : e = Put(Put(d, db.meta, part), cat, prefix)
    BY <1>1, <2>3, <2>4
  <2>6. GoodDatabase(name, db, made) /\ db.meta # EmptyString
    BY <1>1, <2>2 DEF IInv, DatabasesInv, FlushInv, Done
  <2>7. order \in Seq(set)
    BY <2>2, <2>3, <2>6, SetToSeqsAre DEF GoodDatabase, Counted
  <2>8. CatalogsFile(db.meta, fields, made)
    BY <2>2, <2>4, <2>6, <2>7, MetaFieldsGood
  <2>9. CutOf(part, fields)
    BY <2>5, <2>8, CutShortCuts DEF CatalogsFile, RecordFile
  <2>10. PICK p : p = db.meta
    OBVIOUS
  <2>11. GoodFile(p, part, made)
    BY <2>8, <2>9, <2>10, CutGood DEF GoodFile
  <2>12. PICK between : between = Put(d, p, part)
    OBVIOUS
  <2>13. GoodDisk(between, made)
    BY <1>2, <2>11, <2>12, PutGood
  <2>14. e = Put(between, cat, prefix)
    BY <2>5, <2>10, <2>12
  <2> QED
    BY <1>1, <1>4, <2>13, <2>14, PutGood
<1> QED
  BY <1>5, <1>6

-----------------------------------------------------------------------------
(* The life of a process. *)

LEMMA StartUpStep ==
  ASSUME IInv, StartUp
  PROVE  IInv'
<1>1. UNCHANGED <<disk, dm, got, tables, next_page_id, saved, created, workload, writing>>
  BY DEF StartUp, flush
<1>2. FilesInv'
  BY <1>1 DEF IInv, FilesInv, DiskIsGood
<1>3. status' # "flushing" /\ writing = {}
  BY DEF StartUp, IInv, FlushInv
<1>4. FlushInv'
  BY <1>1, <1>3 DEF FlushInv
<1>5. CASE UNCHANGED <<databases, status>>
  <2>1. DatabasesInv'
    BY <1>1, <1>5 DEF IInv, DatabasesInv
  <2>2. SavedInv'
    BY <1>1, <1>5 DEF IInv, SavedInv, SavedSurvives, Running
  <2> QED
    BY <1>2, <1>4, <2>1, <2>2 DEF IInv
<1>6. CASE databases' \in Loaded
  <2>1. PICK dbs, d, kept : dbs = databases' /\ dbs \in Loaded /\ d = disk /\ kept = saved
    BY <1>6
  <2>2. DiskIsGood
    BY DEF IInv, FilesInv
  <2>3. /\ IsFiniteSet(DOMAIN dbs)
        /\ \A name \in DOMAIN dbs : GoodDatabase(name, dbs[name], created)
    BY <2>1, <2>2, LoadIsGood
  <2>4. DatabasesInv'
    BY <1>1, <2>1, <2>3 DEF DatabasesInv
  <2>5. DOMAIN kept # {} => Persisted(disk, kept)
    BY <2>1 DEF IInv, SavedInv
  <2>6. \A name \in DOMAIN kept : name \in DOMAIN dbs /\ kept[name] \subseteq dbs[name].namespaces
    BY <2>1, <2>2, <2>5, LoadFindsSaved
  <2>7. SavedInv'
    BY <1>1, <1>3, <2>1, <2>5, <2>6 DEF SavedInv, SavedSurvives
  <2> QED
    BY <1>2, <1>4, <2>4, <2>7 DEF IInv
<1> QED
  BY <1>5, <1>6 DEF StartUp

LEMMA GoneStep ==
  ASSUME Gone, GoodDisk(disk', created'), workload' \in Workloads,
         DOMAIN saved' # {} => Persisted(disk', saved')
  PROVE  IInv'
<1>1. PICK d, e, m, none : d = disk' /\ m = dm' /\ none = <<>>
  OBVIOUS
<1>2. DOMAIN none = {}
  BY <1>1
<1>3. GoodFiles(m, d) /\ GoodTables(none, m)
  <2>1. m = [files |-> none, path_to_file_id |-> none, next_file_id |-> 0]
    BY <1>1 DEF Gone, Start
  <2> QED
    BY <1>2, <2>1 DEF GoodFiles, GoodTables
<1>4. GoodAnswer(got)'
  BY TablePathsAreNone DEF GoodAnswer, Gone, NoAnswer, EmptyString
<1>5. tables' = none /\ databases' = none /\ next_page_id' = 0
  BY <1>1 DEF Gone
<1>6. FilesInv'
  BY <1>1, <1>3, <1>4, <1>5 DEF FilesInv, DiskIsGood
<1>7. DatabasesInv'
  BY <1>2, <1>5, FS_EmptySet DEF DatabasesInv
<1>8. FlushInv' /\ SavedInv'
  BY DEF FlushInv, SavedInv, SavedSurvives, Running, Gone
<1> QED
  BY <1>6, <1>7, <1>8 DEF IInv

LEMMA NothingSavedWhileFlushing ==
  ASSUME IInv, status = "flushing"
  PROVE  DOMAIN saved = {}
BY DEF IInv, SavedInv

LEMMA CrashStep ==
  ASSUME IInv, Crash
  PROVE  IInv'
<1>1. Gone /\ UNCHANGED <<saved, created, workload>> /\ workload \in Workloads
  BY DEF Crash, IInv, FilesInv
<1>2. CASE status = "up" /\ disk' = disk
  <2>1. GoodDisk(disk', created') /\ (DOMAIN saved' # {} => Persisted(disk', saved'))
    BY <1>1, <1>2 DEF IInv, FilesInv, DiskIsGood, SavedInv
  <2> QED
    BY <1>1, <2>1, GoneStep
<1>3. CASE status = "flushing" /\ Stopped
  <2>1. GoodDisk(disk', created') /\ DOMAIN saved' = {}
    BY <1>1, <1>3, StoppedGood, NothingSavedWhileFlushing
  <2> QED
    BY <1>1, <2>1, GoneStep
<1> QED
  BY <1>2, <1>3 DEF Crash

LEMMA FlushRefusedStep ==
  ASSUME IInv, FlushRefused
  PROVE  IInv'
<1>1. /\ Gone /\ UNCHANGED <<disk, saved, created, workload>> /\ workload \in Workloads
  BY DEF FlushRefused, ghosts, IInv, FilesInv
<1>2. GoodDisk(disk', created') /\ (DOMAIN saved' # {} => Persisted(disk', saved'))
  BY <1>1 DEF IInv, FilesInv, DiskIsGood, SavedInv
<1> QED
  BY <1>1, <1>2, GoneStep

LEMMA FlushTerminatesStep ==
  ASSUME IInv, FlushTerminates
  PROVE  IInv'
<1>1. /\ Gone /\ UNCHANGED <<saved, created, workload>> /\ workload \in Workloads
      /\ status = "flushing" /\ Stopped
  BY DEF FlushTerminates, ghosts, IInv, FilesInv
<1>2. GoodDisk(disk', created') /\ DOMAIN saved' = {}
  BY <1>1, StoppedGood, NothingSavedWhileFlushing
<1> QED
  BY <1>1, <1>2, GoneStep

-----------------------------------------------------------------------------
(* flush. *)

(* A file of the catalog is written; streams and tables are not concerned. *)
LEMMA RecordStep ==
  ASSUME FilesInv, NEW p, NEW file, CatalogsFile(p, file, created),
         disk' = Put(disk, p, file),
         UNCHANGED <<dm, got, tables, next_page_id, created, workload>>
  PROVE  FilesInv'
<1>1. PICK d, e, m, made : d = disk /\ e = disk' /\ m = dm /\ made = created
  OBVIOUS
<1>2. e = Put(d, p, file) /\ GoodDisk(d, made) /\ GoodFile(p, file, made) /\ GoodFiles(m, d)
  BY <1>1 DEF FilesInv, DiskIsGood, GoodFile
<1>3. GoodDisk(e, made)
  BY <1>2, PutGood
<1>4. DOMAIN d \subseteq DOMAIN e
  BY <1>2 DEF Put
<1>5. GoodFiles(m, e)
  BY <1>2, <1>4, GrowingDisk
<1> QED
  BY <1>1, <1>3, <1>5 DEF FilesInv, DiskIsGood

LEMMA FlushBeginStep ==
  ASSUME IInv, FlushBegin
  PROVE  IInv'
<1>1. /\ status' = "flushing" /\ disk' = Put(disk, CatalogPath, <<>>)
      /\ flushed' = <<MAGIC_NUMBER, DATABASE_VERSION, Count(Cardinality(DOMAIN databases))>>
      /\ todo' = DOMAIN databases /\ saved' = <<>>
      /\ UNCHANGED <<dm, got, databases, tables, next_page_id, writing, created, workload>>
  BY DEF FlushBegin, memory
<1>2. CatalogPath \in Fields /\ CatalogPath # EmptyString
  BY NamesAreFields DEF CatalogPath, EmptyString
<1>3. CatalogsFile(CatalogPath, <<>>, created)
  BY <1>2, EmptyFile
<1>4. FilesInv'
  <2>1. PICK p, file : p = CatalogPath /\ file = <<>>
    OBVIOUS
  <2>2. CatalogsFile(p, file, created) /\ disk' = Put(disk, p, file)
    BY <1>1, <1>3, <2>1
  <2> QED
    BY <1>1, <2>2, RecordStep DEF IInv
<1>5. DatabasesInv'
  BY <1>1 DEF IInv, DatabasesInv
<1>6. SavedInv'
  BY <1>1 DEF SavedInv, SavedSurvives, Running
<1>7. PICK fields, none : fields = flushed' /\ none = {}
  OBVIOUS
<1>8. Cardinality(DOMAIN databases) \in Nat
  BY FS_CardinalityType DEF IInv, DatabasesInv
<1>9. PICK c : c = Count(Cardinality(DOMAIN databases)) /\ c \in Fields
  BY <1>8, NamesAreFields
<1>10. fields \in Seq(Fields) /\ Len(fields) = 3 /\ fields[3] = c
  BY <1>1, <1>7, <1>9, NamesAreFields
<1>11. Cardinality(none) = 0
  BY <1>7, FS_EmptySet
<1>12. Lists(fields, databases, none)
  BY <1>7, <1>9, <1>10, <1>11 DEF Lists
<1>13. CatalogFormat(fields, created)
  <2>1. GoodEntry(EmptyString, EmptyString, created)
    BY NamesAreFields DEF GoodEntry, Whole
  <2>2. ASSUME NEW i \in Nat \ {0}
        PROVE  EntryName(fields, i) = EmptyString /\ EntryMeta(fields, i) = EmptyString
    BY <1>10 DEF EntryName, EntryMeta, read_string
  <2> QED
    BY <2>1, <2>2 DEF CatalogFormat
<1>14. writing = {} /\ Done' = none
  BY <1>1, <1>7 DEF FlushBegin, IInv, FlushInv, Running, Done
<1>15. FlushInv'
  BY <1>1, <1>7, <1>12, <1>13, <1>14 DEF FlushInv
<1> QED
  BY <1>4, <1>5, <1>6, <1>15 DEF IInv

HasEntries(fields, k) == Len(fields) = 3 * k + 3
Entered(next, fields, name, path, meta) == next = fields \o <<name, path, meta>>

LEMMA EntryAdded ==
  ASSUME NEW k \in Nat, NEW fields \in Seq(Fields), HasEntries(fields, k),
         NEW name \in Fields, NEW path \in Fields, NEW meta \in Fields,
         NEW next, Entered(next, fields, name, path, meta)
  PROVE  /\ next \in Seq(Fields) /\ HasEntries(next, k + 1)
         /\ next[3] = fields[3]
         /\ EntryName(next, k + 1) = name /\ EntryMeta(next, k + 1) = meta
         /\ \A i \in 1 .. k : /\ EntryName(next, i) = EntryName(fields, i)
                              /\ EntryMeta(next, i) = EntryMeta(fields, i)
         /\ \A i \in Nat : i > k + 1 => /\ EntryName(next, i) = EmptyString
                                        /\ EntryMeta(next, i) = EmptyString
<1>1. PICK n \in Nat : n = Len(fields) /\ n = 3 * k + 3
  BY DEF HasEntries
<1>2. PICK rest, D : rest = <<name, path, meta>> /\ D = Fields
  OBVIOUS
<1>3. rest \in Seq(D) /\ Len(rest) = 3 /\ rest[1] = name /\ rest[3] = meta
  BY <1>2
<1>4. /\ next \in Seq(D) /\ Len(next) = Len(rest) + n
      /\ \A j \in 1 .. n : next[j] = fields[j]
      /\ \A j \in 1 .. Len(rest) : next[j + n] = rest[j]
  <2>1. fields \in Seq(D) /\ rest \in Seq(D) /\ n = Len(fields) /\ next = fields \o rest
    BY <1>1, <1>2, <1>3 DEF Entered
  <2> QED
    BY <2>1, Headed
<1>5. PICK m \in Nat : m = Len(next) /\ m = n + 3
  BY <1>3, <1>4
<1>6. \A j \in 1 .. n : read_string(next, j) = read_string(fields, j)
  BY <1>1, <1>4, <1>5 DEF read_string
<1>7. \A j \in Nat : j > m => read_string(next, j) = EmptyString
  BY <1>5 DEF read_string
<1>8. read_string(next, n + 1) = name /\ read_string(next, n + 3) = meta
  <2>1. PICK a \in Nat, b \in Nat : a = 1 /\ b = 3
    OBVIOUS
  <2>2. a \in 1 .. Len(rest) /\ b \in 1 .. Len(rest)
    BY <1>3, <2>1
  <2>3. next[a + n] = rest[a] /\ next[b + n] = rest[b]
    BY <1>4, <2>2
  <2>4. next[n + 1] = name /\ next[n + 3] = meta
    <3>1. a + n = n + 1 /\ b + n = n + 3
      BY <2>1
    <3>2. rest[a] = name /\ rest[b] = meta
      BY <1>3, <2>1
    <3> QED
      BY <2>3, <3>1, <3>2
  <2> QED
    BY <1>5, <2>4 DEF read_string
<1>9. EntryName(next, k + 1) = name /\ EntryMeta(next, k + 1) = meta
  <2>1. 3 * (k + 1) + 1 = n + 1 /\ 3 * (k + 1) + 3 = n + 3
    BY <1>1
  <2> QED
    BY <1>8, <2>1 DEF EntryName, EntryMeta
<1>10. ASSUME NEW i \in 1 .. k
       PROVE  /\ EntryName(next, i) = EntryName(fields, i)
              /\ EntryMeta(next, i) = EntryMeta(fields, i)
  <2>1. PICK a \in 1 .. n, b \in 1 .. n : a = 3 * i + 1 /\ b = 3 * i + 3
    BY <1>1
  <2>2. /\ read_string(next, a) = read_string(fields, a)
        /\ read_string(next, b) = read_string(fields, b)
    BY <1>6
  <2> QED
    BY <2>1, <2>2 DEF EntryName, EntryMeta
<1>11. ASSUME NEW i \in Nat, i > k + 1
       PROVE  EntryName(next, i) = EmptyString /\ EntryMeta(next, i) = EmptyString
  <2>1. PICK a \in Nat, b \in Nat : a = 3 * i + 1 /\ b = 3 * i + 3 /\ a > m /\ b > m
    BY <1>1, <1>5, <1>11
  <2>2. read_string(next, a) = EmptyString /\ read_string(next, b) = EmptyString
    BY <1>7, <2>1
  <2> QED
    BY <2>1, <2>2 DEF EntryName, EntryMeta
<1>12. next[3] = fields[3]
  <2>1. PICK j \in 1 .. n : j = 3
    BY <1>1
  <2> QED
    BY <1>4, <2>1
<1>13. HasEntries(next, k + 1)
  BY <1>1, <1>5 DEF HasEntries
<1> QED
  BY <1>2, <1>4, <1>9, <1>10, <1>11, <1>12, <1>13

(* No two databases share a metadata file. *)
LEMMA MetasDiffer ==
  ASSUME NEW made, NEW a, NEW b, NEW x, NEW y,
         GoodDatabase(a, x, made), GoodDatabase(b, y, made),
         a # b, x.meta # EmptyString, y.meta # EmptyString
  PROVE  x.meta # y.meta
<1>1. PICK d \in Databases : a = Name(d) /\ MetaOf(x.meta, d)
  BY DEF GoodDatabase, GoodEntry
<1>2. PICK e \in Databases : b = Name(e) /\ MetaOf(y.meta, e)
  BY DEF GoodDatabase, GoodEntry
<1>3. d # e
  BY <1>1, <1>2
<1> QED
  BY <1>1, <1>2, <1>3, MetaOfFacts

(* A metadata file that is written leaves those of other databases alone. *)
LEMMA OthersStayWritten ==
  ASSUME NEW d, NEW db, MetaWritten(d, db), NEW p, p # db.meta,
         NEW file, NEW e, e = Put(d, p, file)
  PROVE  MetaWritten(e, db)
BY DEF MetaWritten, Put

LEMMA FlushDatabaseStep ==
  ASSUME IInv, NEW name \in todo, FlushDatabase(name)
  PROVE  IInv'
<1>1. /\ status = "flushing" /\ status' = status /\ writing = {}
      /\ flushed' = flushed \o <<name, <<"db">> \o name, databases[name].meta>>
      /\ disk' = Put(disk, databases[name].meta, <<>>)
      /\ writing' = {name} /\ todo' = todo \ {name}
      /\ UNCHANGED <<dm, got, databases, tables, next_page_id, saved, created, workload>>
  BY DEF FlushDatabase, memory, ghosts
<1>2. databases[name].meta # EmptyString
  BY DEF FlushDatabase, Opens
<1>3. PICK dbs, db, p, made, done, fields, next, k :
        /\ dbs = databases /\ db = dbs[name] /\ p = db.meta /\ made = created
        /\ done = Done /\ fields = flushed /\ next = flushed' /\ k = Cardinality(done)
  OBVIOUS
<1>4. name \in DOMAIN dbs /\ name \notin done
  BY <1>1, <1>3 DEF IInv, FlushInv, Done
<1>5. GoodDatabase(name, db, made)
  BY <1>3, <1>4 DEF IInv, DatabasesInv
<1>6. p \in Fields /\ p # EmptyString /\ name \in Fields /\ <<"db">> \o name \in Fields
  BY <1>2, <1>3, <1>5, Prefixed DEF GoodDatabase, GoodEntry
<1>7. FilesInv'
  <2>1. PICK none : none = <<>>
    OBVIOUS
  <2>2. CatalogsFile(p, none, created) /\ disk' = Put(disk, p, none)
    BY <1>1, <1>3, <1>6, <2>1, EmptyFile
  <2> QED
    BY <1>1, <2>2, RecordStep DEF IInv
<1>8. DatabasesInv'
  BY <1>1 DEF IInv, DatabasesInv
<1>9. SavedInv'
  BY <1>1 DEF IInv, SavedInv, SavedSurvives, Running
<1>10. Lists(fields, dbs, done) /\ CatalogFormat(fields, made)
  BY <1>1, <1>3 DEF IInv, FlushInv
<1>11. IsFiniteSet(done)
  BY <1>3, FS_Subset DEF IInv, DatabasesInv, Done
<1>12. PICK after : after = done \cup {name}
  OBVIOUS
<1>13. k \in Nat /\ IsFiniteSet(after) /\ Cardinality(after) = k + 1
  BY <1>3, <1>4, <1>11, <1>12, FS_AddElement, FS_CardinalityType
<1>14. fields \in Seq(Fields) /\ HasEntries(fields, k)
  BY <1>3, <1>10 DEF Lists, HasEntries
<1>15. PICK path \in Fields : Entered(next, fields, name, path, p)
  BY <1>1, <1>3, <1>6 DEF Entered
<1>16. /\ next \in Seq(Fields) /\ HasEntries(next, k + 1)
       /\ next[3] = fields[3]
       /\ EntryName(next, k + 1) = name /\ EntryMeta(next, k + 1) = p
       /\ \A i \in 1 .. k : /\ EntryName(next, i) = EntryName(fields, i)
                            /\ EntryMeta(next, i) = EntryMeta(fields, i)
       /\ \A i \in Nat : i > k + 1 => /\ EntryName(next, i) = EmptyString
                                      /\ EntryMeta(next, i) = EmptyString
  BY <1>6, <1>13, <1>14, <1>15, EntryAdded
<1>17. Lists(next, dbs, after)
  <2>1. PICK n : n = k + 1 /\ n \in Nat /\ n = Cardinality(after)
    BY <1>13
  <2>2. fields[3] = Count(Cardinality(DOMAIN dbs))
    BY <1>10 DEF Lists
  <2>3. ASSUME NEW x \in after PROVE \E i \in 1 .. n : EntryName(next, i) = x
    <3>1. CASE x = name
      <4>1. n \in 1 .. n /\ EntryName(next, n) = name
        BY <1>13, <1>16, <2>1
      <4> QED
        BY <3>1, <4>1
    <3>2. CASE x \in done
      <4>1. PICK i \in 1 .. k : EntryName(fields, i) = x
        BY <1>3, <1>10, <3>2 DEF Lists
      <4>2. i \in 1 .. n
        BY <1>13, <2>1
      <4> QED
        BY <1>16, <4>1, <4>2
    <3> QED
      BY <1>12, <3>1, <3>2
  <2>4. ASSUME NEW i \in 1 .. n
        PROVE  EntryName(next, i) \in after /\ EntryMeta(next, i) = dbs[EntryName(next, i)].meta
    <3>1. CASE i = n
      BY <1>3, <1>12, <1>16, <2>1, <3>1
    <3>2. CASE i # n
      <4>1. i \in 1 .. k
        BY <1>13, <2>1, <3>2
      <4>2. /\ EntryName(fields, i) \in done
            /\ EntryMeta(fields, i) = dbs[EntryName(fields, i)].meta
        BY <1>3, <1>10, <4>1 DEF Lists
      <4> QED
        BY <1>12, <1>16, <4>1, <4>2
    <3> QED
      BY <3>1, <3>2
  <2> QED
    BY <1>16, <2>1, <2>2, <2>3, <2>4 DEF Lists, HasEntries
<1>18. CatalogFormat(next, made)
  <2>1. GoodEntry(EmptyString, EmptyString, made)
    BY NamesAreFields DEF GoodEntry, Whole
  <2>2. GoodEntry(name, p, made)
    BY <1>3, <1>5 DEF GoodDatabase
  <2>3. ASSUME NEW i \in Nat \ {0}
        PROVE  GoodEntry(EntryName(next, i), EntryMeta(next, i), made)
    <3>1. CASE i \in 1 .. k
      <4>1. GoodEntry(EntryName(fields, i), EntryMeta(fields, i), made)
        BY <1>10 DEF CatalogFormat
      <4> QED
        BY <1>16, <3>1, <4>1
    <3>2. CASE i = k + 1
      BY <1>16, <2>2, <3>2
    <3>3. CASE i > k + 1
      BY <1>16, <2>1, <3>3
    <3> QED
      BY <1>13, <3>1, <3>2, <3>3
  <2> QED
    BY <2>3 DEF CatalogFormat
<1>19. Done' = after
  BY <1>1, <1>3, <1>4, <1>12 DEF Done, IInv, FlushInv
<1>20. \A x \in after : dbs[x].meta # EmptyString
  BY <1>1, <1>2, <1>3, <1>12 DEF IInv, FlushInv
<1>21. ASSUME NEW x \in after \ {name} PROVE MetaWritten(disk', dbs[x])
  <2>1. x \in done /\ x # name
    BY <1>12, <1>21
  <2>2. PICK y, d, e, none : y = dbs[x] /\ d = disk /\ e = disk' /\ none = <<>>
    OBVIOUS
  <2>3. GoodDatabase(x, y, made) /\ y.meta # EmptyString
    BY <1>3, <1>12, <1>20, <2>1, <2>2 DEF IInv, DatabasesInv, Done
  <2>4. p # y.meta
    BY <1>3, <1>5, <1>6, <2>1, <2>3, MetasDiffer
  <2>5. MetaWritten(d, y)
    BY <1>1, <1>3, <2>1, <2>2 DEF IInv, FlushInv
  <2>6. e = Put(d, p, none)
    BY <1>1, <1>3, <2>2
  <2>7. MetaWritten(e, y)
    BY <2>4, <2>5, <2>6, OthersStayWritten
  <2> QED
    BY <2>2, <2>7
<1>22. FlushInv'
  <2>1. todo' \subseteq DOMAIN databases' /\ writing' \subseteq after
    BY <1>1, <1>12 DEF IInv, FlushInv
  <2> QED
    BY <1>1, <1>3, <1>17, <1>18, <1>19, <1>20, <1>21, <2>1 DEF FlushInv
<1> QED
  BY <1>7, <1>8, <1>9, <1>22 DEF IInv

LEMMA FlushMetadataStep ==
  ASSUME IInv, FlushMetadata
  PROVE  IInv'
<1>1. /\ status = "flushing" /\ status' = status /\ writing' = {}
      /\ UNCHANGED <<dm, got, databases, tables, next_page_id, flushed, todo, saved,
                     created, workload>>
  BY DEF FlushMetadata, memory, ghosts
<1>2. PICK name \in writing :
        disk' = Put(disk, databases[name].meta,
                    MetaFields(databases[name], SetToSeq(databases[name].namespaces)))
  BY DEF FlushMetadata
<1>3. PICK dbs, db, p, made, done, set, order, fields, d, e :
        /\ dbs = databases /\ db = dbs[name] /\ p = db.meta /\ made = created /\ done = Done
        /\ set = db.namespaces /\ order = SetToSeq(set) /\ fields = MetaFields(db, order)
        /\ d = disk /\ e = disk'
  OBVIOUS
<1>4. e = Put(d, p, fields)
  BY <1>2, <1>3
<1>5. /\ name \in done /\ GoodDatabase(name, db, made) /\ p # EmptyString
      /\ \A a \in writing : a = name
  BY <1>1, <1>3 DEF IInv, FlushInv, DatabasesInv, Done
<1>6. PICK n \in Nat : n = Cardinality(set) /\ n = db.count /\ IsFiniteSet(set)
  BY <1>3, <1>5 DEF GoodDatabase, Counted, Records
<1>7. /\ order \in Seq(set) /\ Len(order) = n
      /\ \A x \in set : \E i \in 1 .. n : x = order[i]
  <2>1. order = SetToSeq(set)
    BY <1>3
  <2>2. IsFiniteSet(set) /\ n = Cardinality(set)
    BY <1>6
  <2>3. /\ order \in Seq(set) /\ Len(order) = Cardinality(set)
        /\ \A x \in set : \E i \in 1 .. Cardinality(set) : x = order[i]
    BY <2>1, <2>2, SetToSeqIs
  <2> QED
    BY <2>2, <2>3
<1>8. /\ CatalogsFile(p, fields, made)
      /\ Len(fields) = Len(order) + 3 /\ fields[3] = Count(n)
      /\ \A i \in 1 .. Len(order) : fields[i + 3] = order[i]
  BY <1>3, <1>5, <1>6, <1>7, MetaFieldsGood
<1>9. HoldsAll(fields, set)
  BY <1>7, <1>8 DEF HoldsAll
<1>10. MetaWritten(e, db)
  BY <1>3, <1>4, <1>9 DEF MetaWritten, Put
<1>11. FilesInv'
  BY <1>1, <1>3, <1>4, <1>8, RecordStep DEF IInv
<1>12. DatabasesInv'
  BY <1>1 DEF IInv, DatabasesInv
<1>13. SavedInv'
  BY <1>1 DEF IInv, SavedInv, SavedSurvives, Running
<1>14. ASSUME NEW x \in done PROVE MetaWritten(e, dbs[x])
  <2>1. CASE x = name
    BY <1>3, <1>10, <2>1
  <2>2. CASE x # name
    <3>1. PICK y : y = dbs[x]
      OBVIOUS
    <3>2. GoodDatabase(x, y, made) /\ y.meta # EmptyString
      BY <1>1, <1>3, <1>14, <3>1 DEF IInv, FlushInv, DatabasesInv, Done
    <3>3. p # y.meta
      BY <1>3, <1>5, <2>2, <3>2, MetasDiffer
    <3>4. MetaWritten(d, y)
      BY <1>1, <1>3, <1>5, <1>14, <2>2, <3>1 DEF IInv, FlushInv
    <3> QED
      BY <1>4, <3>1, <3>3, <3>4, OthersStayWritten
  <2> QED
    BY <2>1, <2>2
<1>15. Done' = done
  BY <1>1, <1>3 DEF Done
<1>16. FlushInv'
  BY <1>1, <1>3, <1>14, <1>15 DEF IInv, FlushInv
<1> QED
  BY <1>11, <1>12, <1>13, <1>16 DEF IInv

(* When flush has ended, the files hold the registry. *)
LEMMA FlushEndStep ==
  ASSUME IInv, FlushEnd
  PROVE  IInv'
<1>1. /\ status = "flushing" /\ writing = {} /\ todo = {}
      /\ disk' = Put(disk, CatalogPath, flushed) /\ Gone
      /\ saved' = [name \in DOMAIN databases |-> databases[name].namespaces]
      /\ UNCHANGED <<created, workload>> /\ workload \in Workloads
  BY DEF FlushEnd, IInv, FilesInv
<1>2. PICK dbs, made, cat, fields, d, e, kept, n :
        /\ dbs = databases /\ made = created /\ cat = CatalogPath /\ fields = flushed
        /\ d = disk /\ e = disk' /\ kept = saved' /\ n = Cardinality(DOMAIN dbs)
  OBVIOUS
<1>3. e = Put(d, cat, fields)
  BY <1>1, <1>2
<1>4. CatalogsFile(cat, fields, made)
  BY <1>1, <1>2, FlushedGood
<1>5. GoodDisk(e, made)
  BY <1>2, <1>3, <1>4, PutGood DEF GoodFile, IInv, FilesInv, DiskIsGood
<1>6. Done = DOMAIN dbs /\ n \in Nat
  BY <1>1, <1>2, FS_CardinalityType DEF Done, IInv, DatabasesInv
<1>7. Lists(fields, dbs, DOMAIN dbs)
  BY <1>1, <1>2, <1>6 DEF IInv, FlushInv
<1>8. /\ Len(fields) = 3 * n + 3 /\ fields[3] = Count(n)
      /\ \A x \in DOMAIN dbs : \E i \in 1 .. n : EntryName(fields, i) = x
      /\ \A i \in 1 .. n : /\ EntryName(fields, i) \in DOMAIN dbs
                           /\ EntryMeta(fields, i) = dbs[EntryName(fields, i)].meta
  BY <1>2, <1>7 DEF Lists
<1>9. DOMAIN kept = DOMAIN dbs /\ \A x \in DOMAIN dbs : kept[x] = dbs[x].namespaces
  BY <1>1, <1>2
<1>10. ASSUME NEW x \in DOMAIN dbs PROVE MetaWritten(e, dbs[x])
  <2>1. PICK db : db = dbs[x]
    OBVIOUS
  <2>2. GoodDatabase(x, db, made) /\ db.meta # EmptyString /\ MetaWritten(d, db)
    BY <1>1, <1>2, <1>6, <1>10, <2>1 DEF IInv, FlushInv, DatabasesInv
  <2>3. cat # db.meta
    BY <1>2, <2>2, MetaOfFacts DEF GoodDatabase, GoodEntry
  <2> QED
    BY <1>3, <2>1, <2>2, <2>3, OthersStayWritten
<1>11. ASSUME NEW i \in 1 .. n
       PROVE  /\ EntryMeta(fields, i) \in DOMAIN e
              /\ HoldsAll(e[EntryMeta(fields, i)], kept[EntryName(fields, i)])
  <2>1. PICK x \in DOMAIN dbs : x = EntryName(fields, i) /\ EntryMeta(fields, i) = dbs[x].meta
    BY <1>8
  <2>2. dbs[x].meta \in DOMAIN e /\ HoldsAll(e[dbs[x].meta], dbs[x].namespaces)
    BY <1>10 DEF MetaWritten
  <2> QED
    BY <1>9, <2>1, <2>2
<1>12. CatalogHolds(fields, e, kept)
  BY <1>6, <1>8, <1>9, <1>11 DEF CatalogHolds
<1>13. cat \in DOMAIN e /\ e[cat] = fields
  BY <1>3 DEF Put
<1>14. Persisted(e, kept)
  BY <1>2, <1>12, <1>13 DEF Persisted
<1>15. GoodDisk(disk', created') /\ Persisted(disk', saved') /\ workload' \in Workloads
  BY <1>1, <1>2, <1>5, <1>14
<1> QED
  BY <1>1, <1>15, GoneStep

-----------------------------------------------------------------------------
LEMMA NextIInv ==
  ASSUME IInv, [Next]_vars
  PROVE  IInv'
<1>1. CASE StartUp \/ Crash
  BY <1>1, StartUpStep, CrashStep
<1>2. ASSUME NEW d \in workload.databases, create_database(d) \/ create_databaseFails(d)
      PROVE  IInv'
  <2>1. d \in Databases
    BY CatalogAssumption DEF IInv, FilesInv
  <2>2. CASE create_database(d)
    BY <2>1, <2>2, CreateDatabaseStep
  <2>3. CASE create_databaseFails(d)
    <3>1. FilesInv' /\ RecordsStay(disk, disk')
      BY <2>1, <2>3, CreateDatabaseFailsStep DEF IInv
    <3> QED
      BY <2>3, <3>1, FileStep DEF create_databaseFails, memory, flush, ghosts
  <2> QED
    BY <1>2, <2>2, <2>3
<1>3. ASSUME NEW d \in workload.databases, NEW n \in Namespaces, CreateNamespace(Name(d), n)
      PROVE  IInv'
  <2>1. d \in Databases
    BY CatalogAssumption DEF IInv, FilesInv
  <2> QED
    BY <1>3, <2>1, CreateNamespaceStep
<1>4. ASSUME NEW t \in workload.tables,
             \/ create_table(t) \/ create_tableFails(t)
             \/ NewPage(t) \/ PageCall(t) \/ OpenFile(t)
      PROVE  IInv'
  <2>1. FilesInv' /\ RecordsStay(disk, disk')
    BY <1>4, CreateTableStep, CreateTableFailsStep, NewPageStep, PageCallStep, OpenFileStep
    DEF IInv
  <2>2. Running /\ UNCHANGED <<status, databases, saved, created, writing>>
    BY <1>4 DEF create_table, create_tableFails, NewPage, PageCall, OpenFile,
                memory, flush, ghosts
  <2> QED
    BY <2>1, <2>2, FileStep
<1>5. CASE FlushBegin \/ FlushRefused
  BY <1>5, FlushBeginStep, FlushRefusedStep
<1>6. CASE \E name \in todo : FlushDatabase(name)
  BY <1>6, FlushDatabaseStep
<1>7. CASE FlushMetadata \/ FlushTerminates \/ FlushEnd
  BY <1>7, FlushMetadataStep, FlushTerminatesStep, FlushEndStep
<1>8. CASE UNCHANGED vars
  <2>1. FilesInv'
    BY <1>8 DEF IInv, FilesInv, DiskIsGood, vars, memory, flush, ghosts
  <2>2. DatabasesInv'
    BY <1>8 DEF IInv, DatabasesInv, vars, memory, flush, ghosts
  <2>3. FlushInv'
    BY <1>8 DEF IInv, FlushInv, Done, vars, memory, flush, ghosts
  <2>4. SavedInv'
    BY <1>8 DEF IInv, SavedInv, SavedSurvives, Running, vars, memory, flush, ghosts
  <2> QED
    BY <2>1, <2>2, <2>3, <2>4 DEF IInv
<1> QED
  BY <1>1, <1>2, <1>3, <1>4, <1>5, <1>6, <1>7, <1>8 DEF Next

(* The inductive invariant of the catalog and its files: whatever is       *)
(* created, written, crashed and loaded again, every file holds the pages  *)
(* of one table or fields of the catalog, possibly cut short, and after a  *)
(* flush that ended they hold all of the registry.                         *)
THEOREM CatalogInvariant == Spec => []IInv
<1>1. Init => IInv
  BY InitIInv
<1>2. IInv /\ [Next]_vars => IInv'
  BY NextIInv
<1> QED
  BY <1>1, <1>2, PTL DEF Spec

(* What Catalog::flush has written when it ends is what Catalog::load      *)
(* finds in every later life of the process until flush begins again.      *)
THEOREM FlushedIsLoaded == Spec => []SavedSurvives
<1>1. IInv => SavedSurvives
  BY DEF IInv, SavedInv
<1> QED
  BY <1>1, CatalogInvariant, PTL

(* However a flush was cut short, Catalog::load makes up no database and   *)
(* no namespace under a whole name.                                        *)
THEOREM TornFilesInventNothing == Spec => []NothingInvented
<1>1. IInv => NothingInvented
  <2> SUFFICES ASSUME IInv, NEW name \in DOMAIN databases, Whole(name)
               PROVE  /\ name \in {c[1] : c \in created}
                      /\ \A n \in databases[name].namespaces :
                           Whole(n) => <<name, n>> \in created
    BY DEF NothingInvented
  <2>1. GoodDatabase(name, databases[name], created)
    BY DEF IInv, DatabasesInv
  <2>2. \E c \in created : c[1] = name
    BY <2>1 DEF GoodDatabase, GoodEntry
  <2> QED
    BY <2>1, <2>2 DEF GoodDatabase
<1> QED
  BY <1>1, CatalogInvariant, PTL

(* No call of the DiskManager on one table's file reads or writes the      *)
(* bytes of another's, in this life of the process or the next.            *)
THEOREM TableFilesAreApart == Spec => []TablesAreApart
<1>1. IInv => TablesAreApart
  <2> SUFFICES ASSUME IInv, NEW t \in Tables
               PROVE  /\ TablePath(t) \in DOMAIN disk =>
                           \A i \in DOMAIN disk[TablePath(t)] :
                             disk[TablePath(t)][i] \in {Zero, t}
                      /\ got.path = TablePath(t) => got.data \in {Zero, t}
    BY DEF TablesAreApart
  <2>1. ASSUME TablePath(t) \in DOMAIN disk
        PROVE  disk[TablePath(t)] \in Seq({Zero, t})
    <3>1. PICK u \in Tables : TablePath(t) = TablePath(u)
                              /\ disk[TablePath(t)] \in Seq({Zero, u})
      BY <2>1, TablePathsAreNone DEF IInv, FilesInv, DiskIsGood, GoodDisk, GoodFile, CatalogsFile
    <3> QED
      BY <3>1 DEF TablePath
  <2>2. GoodAnswer(got)
    BY DEF IInv, FilesInv
  <2> QED
    BY <2>1, <2>2 DEF GoodAnswer
<1> QED
  BY <1>1, CatalogInvariant, PTL
=============================================================================

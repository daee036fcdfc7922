----------------------------- MODULE DiskManager -----------------------------
(***************************************************************************)
(* storage::disk::DiskManager: files registered by path, one stream each,  *)
(* pages read and written through the stream.                              *)
(*                                                                         *)
(* The files are shared with the catalog, which writes its own directly:   *)
(* a file is a sequence, of pages or of the catalog's fields.  A stream    *)
(* has failed when its failbit or badbit is set.                           *)
(***************************************************************************)
EXTENDS Naturals, Sequences, FiniteSets

CONSTANTS
    MaxFiles,      \* bound on the file ids of one process
    MaxPages       \* bound on the page ids of one process

VARIABLES
    disk,          \* path -> contents; outlives the process
    dm,            \* files_, path_to_file_id_ and next_file_id_
    got            \* what the last read_page answered: [path, data]

Zero == "zero"
Start == [files |-> <<>>, path_to_file_id |-> <<>>, next_file_id |-> 0]
NoAnswer == [path |-> <<>>, data |-> Zero]

\* A map with an entry for x
Put(map, x, y) == [z \in DOMAIN map \union {x} |-> IF z = x THEN y ELSE map[z]]

(* -- create_file, open_file ------------------------------------------------ *)
\* the file is made if it is not there, and never truncated
Touched(d, path) == IF path \in DOMAIN d THEN d ELSE Put(d, path, <<>>)

\* Mutant: an id is given out twice
SameId(m, path) ==
    [files |-> Put(m.files, 0, [path |-> path, failed |-> FALSE]),
     path_to_file_id |-> Put(m.path_to_file_id, path, 0),
     next_file_id |-> m.next_file_id + 1]
Created(m, path) ==
    [files |-> Put(m.files, m.next_file_id, [path |-> path, failed |-> FALSE]),
     path_to_file_id |-> Put(m.path_to_file_id, path, m.next_file_id),
     next_file_id |-> m.next_file_id + 1]
\* the stream does not open: the id is spent and the path keeps it
CreatedInVain(m, path) == [Created(m, path) EXCEPT !.files = m.files]

\* A path not known gets an id from the number of paths, and no stream.  It
\* keeps the id although the call throws when there is no such file.
open_file(path) ==
    /\ LET known == path \in DOMAIN dm.path_to_file_id
           id == Cardinality(DOMAIN dm.path_to_file_id) + 1
       IN  dm' = IF known THEN dm
                 ELSE [dm EXCEPT !.path_to_file_id = Put(@, path, id)]
    /\ UNCHANGED <<disk, got>>

(* -- pages ------------------------------------------------------------------ *)
\* A short read answers zeros and leaves the stream failed; on a failed stream
\* the seek fails too, which is answered with zeros and clears it
read_page(id, page) ==
    /\ id \in DOMAIN dm.files
    /\ LET stream == dm.files[id]
           pages == disk[stream.path]
       IN  /\ got' = [path |-> stream.path,
                      data |-> IF stream.failed \/ page >= Len(pages) THEN Zero ELSE pages[page + 1]]
           /\ dm' = [dm EXCEPT !.files[id].failed = ~@ /\ page >= Len(pages)]
    /\ UNCHANGED disk

\* the file grows to hold the page, with zeros between
Written(pages, page, data) ==
    LET n == IF page >= Len(pages) THEN page + 1 ELSE Len(pages)
    IN  [i \in 1 .. n |-> IF i = page + 1 THEN data
                          ELSE IF i <= Len(pages) THEN pages[i] ELSE Zero]
PutPage(d, m, id, page, data) ==
    [d EXCEPT ![m.files[id].path] = Written(@, page, data)]

\* seekp and write do nothing on a failed stream, and the call throws
write_page(id, page, data) ==
    /\ id \in DOMAIN dm.files
    /\ \/ /\ ~dm.files[id].failed
          /\ disk' = PutPage(disk, dm, id, page, data)
          /\ dm' = dm
       \/ /\ disk' = disk
          /\ dm' = [dm EXCEPT !.files[id].failed = TRUE]
    /\ UNCHANGED got

delete_page(id, page) == write_page(id, page, Zero)
=============================================================================

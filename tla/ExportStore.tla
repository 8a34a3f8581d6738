---------------------------- MODULE ExportStore ----------------------------
(***************************************************************************)
(* The shared gallery of exports of the web UI backend: saves that run in  *)
(* the threadpool, each followed by a collection of the oldest files, and  *)
(* deletions.  Threads interleave between any two calls of the file system.*)
(***************************************************************************)
EXTENDS Naturals, SequencesExt

CONSTANTS
  Saver,       \* threads that serve POST /api/exports/save
  Name,        \* names of exports, without the second that prefixes them
  None,        \* no thread
  MaxFiles,    \* EXPORT_MAX_FILES
  MaxBytes,    \* EXPORT_MAX_TOTAL_BYTES
  Payload,     \* sizes of the files that are uploaded
  MaxUpload,   \* EXPORT_MAX_BYTES
  MaxSaves,    \* bound: saves
  MaxSeconds,  \* bound: seconds of the clock
  MaxDeletes   \* bound: deletions

VARIABLES
  files,    \* the directory: name, size, inode and time of the last write
  saver,    \* saver[s]: the request thread s serves
  second,   \* the wall clock
  writes,   \* number of writes so far, which orders modification times
  saves, deletes,
  last      \* history: the thread whose collection was the last to list the directory,
            \* None when that one failed

vars == <<files, saver, second, writes, saves, deletes, last>>

FileName == (0 .. MaxSeconds) \X Name
Limit == IF MaxUpload < MaxBytes THEN MaxUpload ELSE MaxBytes

File(size) == [name : FileName, size : size, inode : Nat, time : Nat]

TypeOK ==
  /\ files \subseteq File(0 .. Limit)
  /\ \A f, g \in files : f.name = g.name \/ f.inode = g.inode => f = g
  /\ \A s \in Saver :
       saver[s].at \in {"idle", "open", "write", "glob", "sort", "visit"}
  /\ last \in Saver \cup {None}
  /\ second \in 0 .. MaxSeconds /\ saves \in 0 .. MaxSaves /\ deletes \in 0 .. MaxDeletes

-----------------------------------------------------------------------------
Named(name) == {f \in files : f.name = name}
Bytes == MapThenSumSet(LAMBDA f : f.size, files)
AllIdle == \A s \in Saver : saver[s].at = "idle"

IdleSaver == [at |-> "idle", name |-> <<0, CHOOSE n \in Name : TRUE>>, size |-> 0,
              inode |-> 0, todo |-> <<>>, kept |-> 0, bytes |-> 0, full |-> FALSE,
              evicted |-> 0, alone |-> TRUE]

\* History: what another request does meanwhile.
Disturbed == [s \in Saver |-> [saver[s] EXCEPT !.alone = FALSE]]

\* Mutant: the limit of the store is not considered.
UploadLimit == MaxUpload

\* A file larger than the whole store would be evicted as it lands.
SaveLimit == Limit

\* export_save: larger payloads are refused with 413.  The name is fixed here,
\* to the second.
Accept(s, name, size) ==
  /\ saver[s].at = "idle" /\ saves < MaxSaves
  /\ size <= SaveLimit
  /\ saves' = saves + 1
  /\ saver' = [Disturbed EXCEPT ![s] =
       [IdleSaver EXCEPT !.at = "open", !.name = <<second, name>>, !.size = size,
                         !.alone = AllIdle]]
  /\ UNCHANGED <<files, second, writes, deletes, last>>

\* write_bytes opens the file: a new one, or that of the same name, truncated.
Open(s) ==
  /\ saver[s].at = "open"
  /\ writes' = writes + 1
  /\ LET old == Named(saver[s].name)
         inode == IF old = {} THEN writes' ELSE (CHOOSE f \in old : TRUE).inode
     IN /\ files' = (files \ old) \cup
              {[name |-> saver[s].name, size |-> 0, inode |-> inode, time |-> writes']}
        /\ saver' = [saver EXCEPT ![s].at = "write", ![s].inode = inode]
  /\ UNCHANGED <<second, saves, deletes, last>>

\* ... and writes it, wherever the file is by now.
Write(s) ==
  /\ saver[s].at = "write"
  /\ writes' = writes + 1
  /\ files' = {IF f.inode = saver[s].inode
                 THEN [f EXCEPT !.size = IF @ > saver[s].size THEN @ ELSE saver[s].size,
                                !.time = writes']
                 ELSE f : f \in files}
  /\ saver' = [saver EXCEPT ![s].at = "glob"]
  /\ UNCHANGED <<second, saves, deletes, last>>

-----------------------------------------------------------------------------
(* _gc_export_dir.                                                         *)

Glob(s) ==
  /\ saver[s].at = "glob"
  /\ saver' = [saver EXCEPT ![s].at = "sort",
                            ![s].todo = SetToSeq({f.name : f \in files})]
  /\ last' = s
  /\ UNCHANGED <<files, second, writes, saves, deletes>>

NewestFirst(f, g) == f.time > g.time

Listed(s) == {f \in files : \E i \in DOMAIN saver[s].todo : saver[s].todo[i] = f.name}

\* The sort stats every file.
Sort(s) ==
  /\ saver[s].at = "sort" /\ Cardinality(Listed(s)) = Len(saver[s].todo)
  /\ LET order == SetToSortSeq(Listed(s), NewestFirst)
     IN saver' = [saver EXCEPT ![s].at = "visit",
                               ![s].todo = [i \in DOMAIN order |-> order[i].name]]
  /\ UNCHANGED <<files, second, writes, saves, deletes, last>>

\* A listed file has gone: the request fails with 500, its file stays and the
\* rest is not collected.
SortFails(s) ==
  /\ saver[s].at = "sort" /\ Cardinality(Listed(s)) < Len(saver[s].todo)
  /\ saver' = [saver EXCEPT ![s] = IdleSaver]
  /\ last' = IF last = s THEN None ELSE last
  /\ UNCHANGED <<files, second, writes, saves, deletes>>

\* From the first file that would break a bound on, none is kept.
Full(s, f) ==
  \/ saver[s].full
  \/ saver[s].kept + 1 > MaxFiles
  \/ saver[s].bytes + f.size > MaxBytes

Visit(s) ==
  /\ saver[s].at = "visit" /\ saver[s].todo # <<>>
  /\ LET here == Named(Head(saver[s].todo))
         rest == [saver[s] EXCEPT !.todo = Tail(@)]
     IN IF here = {}
          THEN saver' = [saver EXCEPT ![s] = rest] /\ UNCHANGED files
          ELSE LET f == CHOOSE f \in here : TRUE
               IN IF Full(s, f)
                    THEN /\ files' = files \ {f}
                         /\ saver' = [saver EXCEPT ![s] = [rest EXCEPT
                              !.full = TRUE,
                              !.evicted = IF @ > f.time THEN @ ELSE f.time]]
                    ELSE /\ UNCHANGED files
                         /\ saver' = [saver EXCEPT ![s] = [rest EXCEPT
                              !.kept = @ + 1, !.bytes = @ + f.size]]
  /\ UNCHANGED <<second, writes, saves, deletes, last>>

Collected(s) == saver[s].at = "visit" /\ saver[s].todo = <<>>

\* The URL of the file is returned.
Answer(s) ==
  /\ Collected(s)
  /\ saver' = [saver EXCEPT ![s] = IdleSaver]
  /\ UNCHANGED <<files, second, writes, saves, deletes, last>>

-----------------------------------------------------------------------------
\* export_delete, on a host that allows it; 404 for a file that is not there.
Delete(f) ==
  /\ f \in files /\ deletes < MaxDeletes
  /\ deletes' = deletes + 1
  /\ files' = files \ {f}
  /\ saver' = Disturbed
  /\ UNCHANGED <<second, writes, saves, last>>

Tick ==
  /\ second < MaxSeconds
  /\ second' = second + 1
  /\ UNCHANGED <<files, saver, writes, saves, deletes, last>>

Init ==
  /\ files = {} /\ saver = [s \in Saver |-> IdleSaver]
  /\ second = 0 /\ writes = 0 /\ saves = 0 /\ deletes = 0
  /\ last \in Saver

Save(s) ==
  \/ \E name \in Name, size \in Payload : Accept(s, name, size)
  \/ Open(s) \/ Write(s)
  \/ Glob(s) \/ Sort(s) \/ SortFails(s) \/ Visit(s) \/ Answer(s)

Next ==
  \/ \E s \in Saver : Save(s)
  \/ \E f \in files : Delete(f)
  \/ Tick

Spec == Init /\ [][Next]_vars

-----------------------------------------------------------------------------
(* Properties.                                                             *)

\* Whatever saves, collections and deletions overlapped, the store is within
\* both bounds once they are over, unless the last collection failed.
StoreBounded ==
  AllIdle /\ last # None => Cardinality(files) <= MaxFiles /\ Bytes <= MaxBytes

\* A save that nothing overlapped returns the URL of a file that is there, and
\* has evicted no file newer than one it kept.
SavedIsThere ==
  \A s \in Saver : Collected(s) /\ saver[s].alone =>
    /\ \E f \in files : f.name = saver[s].name /\ f.size = saver[s].size
    /\ \A f \in files : f.time > saver[s].evicted

\* The gallery is bounded and the collection that bounds it never costs a save
\* its own file, or a newer export for an older one (_gc_export_dir).
ExportsAreKept == StoreBounded /\ SavedIsThere
=============================================================================

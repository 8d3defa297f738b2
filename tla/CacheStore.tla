------------------------------ MODULE CacheStore ------------------------------
(***************************************************************************)
(* canary_core::CacheStore as files under one directory, used by several   *)
(* processes at once and without any lock: `put` makes the directory,      *)
(* creates or truncates the file and writes it; `get` reads it and takes   *)
(* whatever does not parse for a miss; `clear` removes the files and then  *)
(* the directory.  A process may die between any two system calls.         *)
(*                                                                         *)
(* A result is known by its status.  A file is known by its length, the    *)
(* results it has bytes of and the result it parses as, if it does: a      *)
(* write that breaks off (a full disk) can leave the beginning of one      *)
(* result before the end of another, which may still be a JSON document.   *)
(***************************************************************************)
EXTENDS Outcomes

CONSTANTS
  Processes,   \* the processes that use the cache directory
  Keys,        \* the file names their keys come to
  Size,        \* Size[r]: how long the JSON of a result of status r is
  NoEntry,     \* a miss
  DiskMayFill  \* whether a write can break off, or a directory not be made

ASSUME SizeAssumption == Size \in [RunnerStatuses -> Nat \ {0}]

ASSUME NoEntryAssumption == NoEntry \notin RunnerStatuses

\* "none" stands for no key: a file name has the parts of a key in it.
ASSUME KeysAssumption == "none" \notin Keys

ASSUME DiskAssumption == DiskMayFill \in BOOLEAN

VARIABLES
  dir,      \* whether the cache directory exists
  file,     \* file[k]: the file of key k, or Absent
  at,       \* at[p]: the next thing process p does
  put,      \* put[p]: the key and the result of its put, while it has one
  handle,   \* handle[p]: what became of the file it has open for writing
  todo,     \* todo[p]: the files its clear has still to remove
  answer,   \* answer[p]: what its last get returned
  offered   \* offered[k]: the results puts of k were called with (history)

vars == <<dir, file, at, put, handle, todo, answer, offered>>

Absent == [size |-> 0, of |-> {}, parses |-> NoEntry, exists |-> FALSE]
Empty  == [Absent EXCEPT !.exists = TRUE]

File ==
  [size : Nat, of : SUBSET RunnerStatuses, parses : RunnerStatuses \cup {NoEntry},
   exists : BOOLEAN]

Puts == [key : Keys, result : RunnerStatuses]

NoPut == [key |-> "none", result |-> "none"]

\* "own": nobody else has written the file since p truncated it, or may do so.
\* "gone": it is no longer the one the directory lists.
Handles == {"own", "shared", "gone"}

TypeOK ==
  /\ dir \in BOOLEAN
  /\ file \in [Keys -> File]
  /\ at \in [Processes -> {"idle", "mkdir", "create", "write", "unlink", "rmdir"}]
  /\ put \in [Processes -> Puts \cup {NoPut}]
  /\ handle \in [Processes -> Handles]
  /\ todo \in [Processes -> SUBSET Keys]
  /\ answer \in [Processes -> RunnerStatuses \cup {NoEntry}]
  /\ offered \in [Keys -> SUBSET RunnerStatuses]
  /\ \A k \in Keys : file[k].exists => dir

\* A directory earlier runs have left, or none.
Init ==
  /\ dir \in BOOLEAN
  /\ file = [k \in Keys |-> Absent]
  /\ at = [p \in Processes |-> "idle"]
  /\ put = [p \in Processes |-> NoPut]
  /\ handle = [p \in Processes |-> "gone"]
  /\ todo = [p \in Processes |-> {}]
  /\ answer = [p \in Processes |-> NoEntry]
  /\ offered = [k \in Keys |-> {}]

Go(p, from, to) ==
  /\ at[p] = from
  /\ at' = [at EXCEPT ![p] = to]

\* What p has in hand ends with it: its put, its handle, its list of files.
Ends(p) ==
  /\ at' = [at EXCEPT ![p] = "idle"]
  /\ put' = [put EXCEPT ![p] = NoPut]

-----------------------------------------------------------------------------
(* get                                                                     *)

\* Variant: an empty file is taken for a failure.
ReadableWhenTruncated(k) == IF file[k] = Empty THEN "fail" ELSE file[k].parses

\* Any failure, of reading or of parsing, is a miss.
Readable(k) == file[k].parses

Get(p, k) ==
  /\ at[p] = "idle"
  /\ answer' = [answer EXCEPT ![p] = Readable(k)]
  /\ UNCHANGED <<dir, file, at, put, handle, todo, offered>>

-----------------------------------------------------------------------------
(* put                                                                     *)

\* Variant: put without its test for errors.
PutBeginsWithErrors(p, k, r) ==
  /\ Go(p, "idle", "mkdir")
  /\ put' = [put EXCEPT ![p] = [key |-> k, result |-> r]]
  /\ offered' = [offered EXCEPT ![k] = @ \cup {r}]
  /\ UNCHANGED <<dir, file, handle, todo, answer>>

\* An error result returns at once; anything else goes on to the directory.
PutBegins(p, k, r) ==
  /\ r # "error"
  /\ Go(p, "idle", "mkdir")
  /\ put' = [put EXCEPT ![p] = [key |-> k, result |-> r]]
  /\ offered' = [offered EXCEPT ![k] = @ \cup {r}]
  /\ UNCHANGED <<dir, file, handle, todo, answer>>

\* create_dir_all, which is content with a directory that exists.
MakeDirectory(p) ==
  /\ Go(p, "mkdir", "create")
  /\ dir' = TRUE
  /\ UNCHANGED <<file, put, handle, todo, answer, offered>>

\* put returns an error: no directory, or none any more.
PutFails(p) ==
  /\ \/ DiskMayFill /\ at[p] \in {"mkdir", "create"}
     \/ at[p] = "create" /\ ~dir
  /\ Ends(p)
  /\ UNCHANGED <<dir, file, handle, todo, answer, offered>>

Writers(k) == {q \in Processes : put[q].key = k /\ handle[q] # "gone"}

\* What opening file k does to the handles others have on it.
AfterOpening(p, k) ==
  [q \in Processes |->
     IF q = p THEN IF Writers(k) = {} THEN "own" ELSE "shared"
     ELSE IF q \in Writers(k) THEN "shared" ELSE handle[q]]

\* Variant: the file is opened without being truncated.
CreateWithoutTruncating(p) ==
  /\ Go(p, "create", "write")
  /\ dir
  /\ file' = [file EXCEPT ![put[p].key] = IF @.exists THEN @ ELSE Empty]
  /\ handle' = AfterOpening(p, put[p].key)
  /\ UNCHANGED <<dir, put, todo, answer, offered>>

\* fs::write, its first half: create the file or truncate it.
CreateFile(p) ==
  /\ Go(p, "create", "write")
  /\ dir
  /\ file' = [file EXCEPT ![put[p].key] = Empty]
  /\ handle' = AfterOpening(p, put[p].key)
  /\ UNCHANGED <<dir, put, todo, answer, offered>>

\* All of r written over f from its beginning: what reached further stays
\* behind it, and a JSON document with a tail does not parse.
Overwritten(f, r) ==
  IF f.size <= Size[r] THEN [Empty EXCEPT !.size = Size[r], !.of = {r}, !.parses = r]
  ELSE [f EXCEPT !.of = @ \cup {r}, !.parses = NoEntry]

\* The first n bytes of r written over f, a document of status s or none.
Cut(f, r, n, s) ==
  [f EXCEPT !.size = IF n > @ THEN n ELSE @, !.of = @ \cup {r}, !.parses = s]

\* A write that breaks off leaves f as it was, or no document, or one that has its
\* status from r or from something written before.
PartlyOverwritten(f, r) ==
  {f} \cup
  {Cut(f, r, n, s) :
     n \in 1..(Size[r] - 1), s \in {NoEntry} \cup (IF f.size = 0 THEN {} ELSE {r} \cup f.of)}

\* fs::write, its second half.  Through a handle whose file is gone nothing
\* changes that anybody can see.
WriteFile(p) ==
  /\ at[p] = "write"
  /\ Ends(p)
  /\ file' = [file EXCEPT ![put[p].key] =
                IF handle[p] = "gone" THEN @ ELSE Overwritten(@, put[p].result)]
  /\ handle' = [handle EXCEPT ![p] = "gone"]
  /\ UNCHANGED <<dir, todo, answer, offered>>

WriteBreaksOff(p) ==
  /\ DiskMayFill
  /\ at[p] = "write"
  /\ Ends(p)
  /\ IF handle[p] = "gone" THEN file' = file
     ELSE \E f \in PartlyOverwritten(file[put[p].key], put[p].result) :
            file' = [file EXCEPT ![put[p].key] = f]
  /\ handle' = [handle EXCEPT ![p] = "gone"]
  /\ UNCHANGED <<dir, todo, answer, offered>>

-----------------------------------------------------------------------------
(* clear: remove_dir_all if the directory exists.                          *)

Listed == {k \in Keys : file[k].exists}

ClearBegins(p) ==
  /\ dir
  /\ Go(p, "idle", "unlink")
  /\ todo' = [todo EXCEPT ![p] = Listed]
  /\ UNCHANGED <<dir, file, put, handle, answer, offered>>

\* One file listed when the directory was read; another clear may have been
\* faster.
Unlink(p, k) ==
  /\ at[p] = "unlink"
  /\ k \in todo[p]
  /\ todo' = [todo EXCEPT ![p] = @ \ {k}]
  /\ file' = [file EXCEPT ![k] = Absent]
  /\ handle' = [q \in Processes |-> IF q \in Writers(k) THEN "gone" ELSE handle[q]]
  /\ UNCHANGED <<dir, at, put, answer, offered>>

\* Variant: the directory goes whatever has been put into it since.
RemoveDirectoryAnyhow(p) ==
  /\ Go(p, "unlink", "idle")
  /\ todo[p] = {}
  /\ dir' = FALSE
  /\ UNCHANGED <<file, put, handle, todo, answer, offered>>

\* rmdir wants an empty directory: a put in between makes the clear fail.
RemoveDirectory(p) ==
  /\ Go(p, "unlink", "idle")
  /\ todo[p] = {}
  /\ dir' = (dir /\ Listed # {})
  /\ UNCHANGED <<file, put, handle, todo, answer, offered>>

-----------------------------------------------------------------------------
\* The process is killed, between any two system calls, and started again.
Crash(p) ==
  /\ Ends(p)
  /\ handle' = [handle EXCEPT ![p] = "gone"]
  /\ todo' = [todo EXCEPT ![p] = {}]
  /\ answer' = [answer EXCEPT ![p] = NoEntry]
  /\ UNCHANGED <<dir, file, offered>>

Step(p) ==
  \/ \E k \in Keys : Get(p, k)
  \/ \E k \in Keys, r \in RunnerStatuses : PutBegins(p, k, r)
  \/ MakeDirectory(p)
  \/ PutFails(p)
  \/ CreateFile(p)
  \/ WriteFile(p)
  \/ WriteBreaksOff(p)
  \/ ClearBegins(p)
  \/ \E k \in Keys : Unlink(p, k)
  \/ RemoveDirectory(p)
  \/ Crash(p)

Next == \E p \in Processes : Step(p)

Spec == Init /\ [][Next]_vars

-----------------------------------------------------------------------------
(* Properties.                                                             *)

\* The keys somebody is storing under or about to remove.
Touched ==
  {k \in Keys : \E p \in Processes : k = put[p].key \/ k \in todo[p]}

Promise == INSTANCE ResultCache WITH
  entry <- [k \in Keys |-> Readable(k)], touched <- Touched

\* cache.rs:81-84: "a stale/corrupt cache entry must never turn into a false
\* compatibility failure".  Whatever puts, clears, crashes and broken writes
\* overlap, the files behave as a store whose entries change only while somebody
\* works on them, hold a result stored under their own key or nothing, and are
\* never an execution error.
FilesKeepThePromise == Promise!Spec

\* A put that succeeds, alone with its file since it opened it, is what the next
\* get finds, whatever an earlier or interrupted put left in the file
\* (cache.rs:103-106).
UndisturbedPutsAreReadBack ==
  [][\A p \in Processes, k \in Keys :
       WriteFile(p) /\ handle[p] = "own" /\ put[p].key = k
         => Readable(k)' = put[p].result]_vars
=============================================================================

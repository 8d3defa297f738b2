-------------------------- MODULE CacheStoreProofs --------------------------
(***************************************************************************)
(* Theorems about CacheStore for any number of processes and files, any     *)
(* length of results, and whether or not the disk may fill.                *)
(***************************************************************************)
EXTENDS CacheStore, TLAPS

(***************************************************************************)
(* The inductive invariant.  A process between two commands has no put; one *)
(* in the middle of a put has offered its result, and was not given an      *)
(* error; a file has bytes of results offered under its key and parses as   *)
(* one of those; a handle is on a file, and one nobody shares on an empty    *)
(* file that no other handle is on.                                         *)
(***************************************************************************)
PutsAreOffered ==
  \A p \in Processes :
    /\ at[p] \in {"mkdir", "create", "write"} =>
         put[p] \in Puts /\ put[p].result \in offered[put[p].key]
    /\ at[p] \notin {"mkdir", "create", "write"} => put[p] = NoPut

OnlyStorableIsOffered == \A k \in Keys : offered[k] \subseteq Promise!Storable

FilesAreOfOffers ==
  \A k \in Keys :
    file[k].of \subseteq offered[k] /\ file[k].parses \in file[k].of \cup {NoEntry}

OwnFilesAreEmpty ==
  \A p \in Processes :
    /\ handle[p] # "gone" => at[p] = "write"
    /\ handle[p] = "own" =>
         file[put[p].key] = Empty /\ Writers(put[p].key) = {p}

OpenFilesExist == \A p \in Processes : handle[p] # "gone" => file[put[p].key].exists

Inv ==
  /\ TypeOK
  /\ PutsAreOffered
  /\ OnlyStorableIsOffered
  /\ FilesAreOfOffers
  /\ OpenFilesExist
  /\ OwnFilesAreEmpty

-----------------------------------------------------------------------------
LEMMA FileTypes ==
  /\ Absent \in File /\ Empty \in File
  /\ Absent.of = {} /\ Absent.parses = NoEntry /\ ~Absent.exists
  /\ Empty.of = {} /\ Empty.parses = NoEntry /\ Empty.size = 0 /\ Empty.exists
  BY DEF Absent, Empty, File

LEMMA StorableIs == Promise!Storable = RunnerStatuses \ {"error"}
  BY DEF Promise!Storable, Promise!RunnerStatuses, RunnerStatuses

LEMMA OverwrittenFacts ==
  ASSUME NEW f \in File, NEW r \in RunnerStatuses
  PROVE  /\ Overwritten(f, r) \in File
         /\ Overwritten(f, r).of \subseteq f.of \cup {r}
         /\ Overwritten(f, r).parses \in {r, NoEntry}
         /\ r \in Overwritten(f, r).of
         /\ f.size = 0 => Overwritten(f, r).parses = r
         /\ f.exists => Overwritten(f, r).exists
<1>1. Size[r] \in Nat /\ Size[r] > 0
  BY SizeAssumption
<1>2. Overwritten(f, r) \in File
  BY <1>1, FileTypes DEF Overwritten, File
<1> QED
  BY <1>1, <1>2, FileTypes DEF Overwritten, File

LEMMA PartlyOverwrittenFacts ==
  ASSUME NEW f \in File, NEW r \in RunnerStatuses, NEW g \in PartlyOverwritten(f, r)
  PROVE  /\ g \in File
         /\ g.of \subseteq f.of \cup {r}
         /\ g = f \/ g.parses \in g.of \cup {NoEntry}
         /\ g.exists = f.exists
<1>1. Size[r] \in Nat
  BY SizeAssumption
<1>2. CASE g = f
  BY <1>2
<1>3. CASE g # f
  <2>1. PICK n \in 1..(Size[r] - 1), s \in {NoEntry, r} \cup f.of : g = Cut(f, r, n, s)
    BY <1>3 DEF PartlyOverwritten
  <2>2. n \in Nat /\ f.size \in Nat
    BY <2>1, <1>1 DEF File
  <2>3. g.of = f.of \cup {r} /\ g.parses = s /\ g.exists = f.exists
    BY <2>1 DEF File, Cut
  <2>4. s \in RunnerStatuses \cup {NoEntry}
    BY <2>1 DEF File
  <2>5. g \in File
    BY <2>1, <2>2, <2>4 DEF File, Cut
  <2> QED
    BY <2>1, <2>3, <2>5
<1> QED
  BY <1>2, <1>3

LEMMA InitInv == Init => Inv
<1> SUFFICES ASSUME Init PROVE Inv
  OBVIOUS
<1>1. TypeOK
  BY FileTypes DEF Init, TypeOK, Handles
<1>2. /\ PutsAreOffered /\ OnlyStorableIsOffered /\ FilesAreOfOffers
      /\ OpenFilesExist /\ OwnFilesAreEmpty
  BY FileTypes DEF Init, PutsAreOffered, OnlyStorableIsOffered, FilesAreOfOffers,
     OpenFilesExist, OwnFilesAreEmpty
<1> QED
  BY <1>1, <1>2 DEF Inv

-----------------------------------------------------------------------------
(* Steps.                                                                  *)

\* In the middle of a put.
LEMMA PutFacts ==
  ASSUME Inv, NEW p \in Processes, at[p] \in {"mkdir", "create", "write"}
  PROVE  /\ put[p] \in Puts /\ put[p].key \in Keys
         /\ put[p].result \in RunnerStatuses
         /\ put[p].result \in offered[put[p].key]
  BY DEF Inv, PutsAreOffered, Puts

LEMMA HandleFacts ==
  ASSUME Inv, NEW q \in Processes, handle[q] # "gone"
  PROVE  at[q] = "write" /\ put[q].key \in Keys /\ file[put[q].key].exists
  BY PutFacts DEF Inv, OwnFilesAreEmpty, OpenFilesExist

LEMMA GetKeepsInv ==
  ASSUME Inv, NEW p \in Processes, NEW k \in Keys, Get(p, k)
  PROVE  Inv'
<1>1. file[k].parses \in RunnerStatuses \cup {NoEntry}
  BY DEF Inv, TypeOK, File
<1>2. TypeOK'
  BY <1>1 DEF Inv, TypeOK, Get, Readable
<1> QED
  BY <1>2 DEF Inv, Get, PutsAreOffered, OnlyStorableIsOffered, FilesAreOfOffers, OpenFilesExist,
     OwnFilesAreEmpty, Writers, Promise!Storable

LEMMA PutBeginsKeepsInv ==
  ASSUME Inv, NEW p \in Processes, NEW k \in Keys, NEW r \in RunnerStatuses, PutBegins(p, k, r)
  PROVE  Inv'
<1>1. TypeOK'
  BY DEF Inv, TypeOK, PutBegins, Go, Puts
<1>2. PutsAreOffered'
  BY DEF Inv, TypeOK, PutsAreOffered, PutBegins, Go, Puts
<1>3. OnlyStorableIsOffered'
  BY StorableIs DEF Inv, TypeOK, OnlyStorableIsOffered, PutBegins
<1>4. FilesAreOfOffers'
  BY DEF Inv, TypeOK, FilesAreOfOffers, PutBegins
<1>5. handle[p] = "gone"
  BY DEF Inv, OwnFilesAreEmpty, PutBegins, Go
<1>6. \A j : Writers(j)' = Writers(j)
  BY <1>5 DEF Inv, TypeOK, PutBegins, Writers
<1>7. OwnFilesAreEmpty'
  BY <1>5, <1>6 DEF Inv, TypeOK, OwnFilesAreEmpty, PutBegins, Go
<1>8. OpenFilesExist'
  BY <1>5 DEF Inv, TypeOK, OpenFilesExist, PutBegins
<1> QED
  BY <1>1, <1>2, <1>3, <1>4, <1>7, <1>8 DEF Inv

\* What ends without touching a file: put fails, a crash, a write to a file that
\* is gone.
LEMMA EndingKeepsInv ==
  ASSUME Inv, NEW p \in Processes, Ends(p),
         handle' = [handle EXCEPT ![p] = "gone"],
         todo' \in [Processes -> SUBSET Keys],
         answer' \in [Processes -> RunnerStatuses \cup {NoEntry}],
         UNCHANGED <<dir, file, offered>>
  PROVE  Inv'
<1>1. TypeOK'
  BY DEF Inv, TypeOK, Ends, Handles
<1>2. PutsAreOffered' /\ OnlyStorableIsOffered' /\ FilesAreOfOffers'
  BY DEF Inv, TypeOK, PutsAreOffered, OnlyStorableIsOffered, FilesAreOfOffers, Ends,
     Promise!Storable
<1>4. OwnFilesAreEmpty'
  <2> SUFFICES ASSUME NEW q \in Processes
               PROVE  /\ handle'[q] # "gone" => at'[q] = "write"
                      /\ handle'[q] = "own" =>
                           file'[put'[q].key] = Empty /\ Writers(put[q].key)' = {q}
    BY DEF OwnFilesAreEmpty, Empty, Absent
  <2>1. CASE q = p
    BY <2>1 DEF Inv, TypeOK
  <2>2. CASE q # p
    <3>1. at'[q] = at[q] /\ put'[q] = put[q] /\ handle'[q] = handle[q]
      BY <2>2 DEF Inv, TypeOK, Ends
    <3>2. CASE handle[q] = "own"
      <4>1. at[q] = "write" /\ file[put[q].key] = Empty /\ Writers(put[q].key) = {q}
        BY <3>2 DEF Inv, OwnFilesAreEmpty
      <4>2. put[q].key \in Keys
        BY <4>1, PutFacts
      <4>3. Writers(put[q].key)' = Writers(put[q].key) \ {p}
        <5>1. \A r \in Processes :
                (put'[r].key = put[r].key /\ handle'[r] = handle[r]) \/ r = p
          BY DEF Inv, TypeOK, Ends
        <5>2. handle'[p] = "gone"
          BY DEF Inv, TypeOK
        <5> QED
          BY <5>1, <5>2, <3>1 DEF Writers
      <4> QED
        BY <2>2, <3>1, <4>1, <4>3
    <3>3. CASE handle[q] # "own"
      BY <3>1, <3>3 DEF Inv, OwnFilesAreEmpty
    <3> QED
      BY <3>2, <3>3
  <2> QED
    BY <2>1, <2>2
<1>5. OpenFilesExist'
  BY DEF Inv, TypeOK, Ends, OpenFilesExist
<1> QED
  BY <1>1, <1>2, <1>4, <1>5 DEF Inv

\* A write through a handle whose file is still there, whatever it leaves of it.
LEMMA WritingKeepsInv ==
  ASSUME Inv, NEW p \in Processes, NEW g \in File,
         at[p] = "write", handle[p] # "gone", Ends(p),
         g.of \subseteq file[put[p].key].of \cup {put[p].result},
         g.parses \in g.of \cup {NoEntry}, g.exists,
         file' = [file EXCEPT ![put[p].key] = g],
         handle' = [handle EXCEPT ![p] = "gone"],
         UNCHANGED <<dir, todo, answer, offered>>
  PROVE  Inv'
<1> DEFINE k == put[p].key
<1>1. k \in Keys /\ put[p].result \in RunnerStatuses /\ put[p].result \in offered[k]
  BY PutFacts
<1>2. TypeOK'
  <2>1. dir
    BY HandleFacts DEF Inv, TypeOK
  <2> QED
    BY <1>1, <2>1 DEF Inv, TypeOK, Ends, Handles
<1>3. PutsAreOffered' /\ OnlyStorableIsOffered'
  BY StorableIs DEF Inv, TypeOK, PutsAreOffered, OnlyStorableIsOffered, Ends
<1>4. FilesAreOfOffers'
  BY <1>1 DEF Inv, TypeOK, FilesAreOfOffers
<1>5. OwnFilesAreEmpty'
  <2> SUFFICES ASSUME NEW q \in Processes
               PROVE  /\ handle'[q] # "gone" => at'[q] = "write"
                      /\ handle'[q] = "own" =>
                           file'[put'[q].key] = Empty /\ Writers(put[q].key)' = {q}
    BY DEF OwnFilesAreEmpty, Empty, Absent
  <2>1. CASE q = p
    BY <2>1 DEF Inv, TypeOK
  <2>2. CASE q # p
    <3>1. at'[q] = at[q] /\ put'[q] = put[q] /\ handle'[q] = handle[q]
      BY <2>2 DEF Inv, TypeOK, Ends
    <3>2. CASE handle[q] = "own"
      <4>1. at[q] = "write" /\ file[put[q].key] = Empty /\ Writers(put[q].key) = {q}
        BY <3>2 DEF Inv, OwnFilesAreEmpty
      <4>2. put[q].key \in Keys /\ put[q].key # k
        BY <4>1, <2>2, PutFacts DEF Writers
      <4>3. file'[put'[q].key] = Empty
        BY <3>1, <4>1, <4>2 DEF Inv, TypeOK
      <4>4. Writers(put[q].key)' = {q}
        <5>1. \A r \in Processes :
                (put'[r].key = put[r].key /\ handle'[r] = handle[r]) \/ r = p
          BY DEF Inv, TypeOK, Ends
        <5>2. handle'[p] = "gone"
          BY DEF Inv, TypeOK
        <5> QED
          BY <2>2, <5>1, <5>2, <3>1, <4>1 DEF Writers
      <4> QED
        BY <3>1, <4>1, <4>3, <4>4
    <3>3. CASE handle[q] # "own"
      BY <3>1, <3>3 DEF Inv, OwnFilesAreEmpty
    <3> QED
      BY <3>2, <3>3
  <2> QED
    BY <2>1, <2>2
<1>6. OpenFilesExist'
  <2> SUFFICES ASSUME NEW q \in Processes, handle'[q] # "gone"
               PROVE  file'[put'[q].key].exists
    BY DEF OpenFilesExist
  <2>1. q # p /\ handle[q] # "gone" /\ put'[q] = put[q]
    BY DEF Inv, TypeOK, Ends
  <2> QED
    BY <1>1, <2>1, HandleFacts DEF Inv, TypeOK
<1> QED
  BY <1>2, <1>3, <1>4, <1>5, <1>6 DEF Inv

LEMMA CreateFileKeepsInv ==
  ASSUME Inv, NEW p \in Processes, CreateFile(p)
  PROVE  Inv'
<1> DEFINE k == put[p].key
<1>1. at[p] = "create" /\ dir /\ k \in Keys
  BY PutFacts DEF CreateFile, Go
<1>2. \A q \in Processes : handle'[q] = AfterOpening(p, k)[q]
  BY DEF CreateFile
<1>3. /\ handle' \in [Processes -> Handles]
      /\ \A q \in Processes : q # p /\ q \notin Writers(k) => handle'[q] = handle[q]
      /\ \A q \in Processes : q # p /\ q \in Writers(k) => handle'[q] = "shared"
      /\ handle'[p] = IF Writers(k) = {} THEN "own" ELSE "shared"
  BY DEF CreateFile, AfterOpening, Handles, Inv, TypeOK
<1>4. TypeOK'
  BY <1>1, <1>3, FileTypes DEF CreateFile, Inv, TypeOK, Go
<1>5. PutsAreOffered' /\ OnlyStorableIsOffered'
  BY StorableIs DEF CreateFile, Inv, TypeOK, PutsAreOffered, OnlyStorableIsOffered, Go
<1>6. FilesAreOfOffers'
  BY <1>1, FileTypes DEF CreateFile, Inv, TypeOK, FilesAreOfOffers
<1>7. OwnFilesAreEmpty'
  <2> SUFFICES ASSUME NEW q \in Processes
               PROVE  /\ handle'[q] # "gone" => at'[q] = "write"
                      /\ handle'[q] = "own" =>
                           file'[put'[q].key] = Empty /\ Writers(put[q].key)' = {q}
    BY DEF OwnFilesAreEmpty, Empty, Absent
  <2>0. put' = put /\ at'[p] = "write" /\ \A r \in Processes : r # p => at'[r] = at[r]
    BY DEF CreateFile, Go, Inv, TypeOK
  <2>1. CASE q = p
    <3>1. ASSUME handle'[p] = "own" PROVE Writers(k)' = {p}
      BY <3>1, <1>3, <2>0 DEF Writers
    <3> QED
      BY <2>0, <2>1, <3>1, <1>1 DEF CreateFile, Inv, TypeOK
  <2>2. CASE q # p /\ q \in Writers(k)
    BY <1>3, <2>0, <2>2 DEF Writers, Inv, OwnFilesAreEmpty
  <2>3. CASE q # p /\ q \notin Writers(k)
    <3>1. handle'[q] = handle[q] /\ at'[q] = at[q]
      BY <1>3, <2>0, <2>3
    <3>2. CASE handle[q] = "own"
      <4>1. at[q] = "write" /\ file[put[q].key] = Empty /\ Writers(put[q].key) = {q}
        BY <3>2 DEF Inv, OwnFilesAreEmpty
      <4>2. put[q].key \in Keys /\ put[q].key # k
        BY <4>1, <2>3, PutFacts, <3>2 DEF Writers
      <4>3. file'[put'[q].key] = Empty
        BY <2>0, <4>1, <4>2, <1>1 DEF Inv, TypeOK, CreateFile
      <4>4. Writers(put[q].key)' = {q}
        BY <1>3, <2>0, <4>1, <4>2 DEF Writers
      <4> QED
        BY <3>1, <4>1, <4>3, <4>4
    <3>3. CASE handle[q] # "own"
      BY <3>1, <3>3 DEF Inv, OwnFilesAreEmpty
    <3> QED
      BY <3>2, <3>3
  <2> QED
    BY <2>1, <2>2, <2>3
<1>8. OpenFilesExist'
  <2> SUFFICES ASSUME NEW q \in Processes, handle'[q] # "gone"
               PROVE  file'[put[q].key].exists
    BY DEF OpenFilesExist, CreateFile
  <2>1. CASE q = p
    BY <1>1, <2>1, FileTypes DEF CreateFile, Inv, TypeOK
  <2>2. CASE q # p
    <3>1. handle[q] # "gone"
      BY <1>3, <2>2 DEF Writers
    <3> QED
      BY <1>1, <3>1, HandleFacts, FileTypes DEF CreateFile, Inv, TypeOK
  <2> QED
    BY <2>1, <2>2
<1> QED
  BY <1>4, <1>5, <1>6, <1>7, <1>8 DEF Inv

\* What changes no file and no handle, and ends or begins no put.
LEMMA DirectoryStepKeepsInv ==
  ASSUME Inv, NEW p \in Processes,
         MakeDirectory(p) \/ ClearBegins(p) \/ RemoveDirectory(p)
  PROVE  Inv'
<1>1. TypeOK'
  <2>1. CASE MakeDirectory(p)
    BY <2>1 DEF MakeDirectory, Go, Inv, TypeOK
  <2>2. CASE ClearBegins(p)
    BY <2>2 DEF ClearBegins, Go, Listed, Inv, TypeOK
  <2>3. CASE RemoveDirectory(p)
    BY <2>3 DEF RemoveDirectory, Go, Listed, Inv, TypeOK
  <2> QED
    BY <2>1, <2>2, <2>3
<1>2. /\ UNCHANGED <<file, put, handle, offered>>
      /\ at[p] # "write" /\ at'[p] # "write"
      /\ at[p] \in {"mkdir", "create", "write"} <=> at'[p] \in {"mkdir", "create", "write"}
      /\ \A q \in Processes : q # p => at'[q] = at[q]
  BY DEF MakeDirectory, ClearBegins, RemoveDirectory, Go, Inv, TypeOK
<1>3. PutsAreOffered' /\ OnlyStorableIsOffered' /\ FilesAreOfOffers'
  BY <1>2, StorableIs DEF Inv, PutsAreOffered, OnlyStorableIsOffered, FilesAreOfOffers
<1>4. OwnFilesAreEmpty'
  BY <1>2 DEF Inv, OwnFilesAreEmpty, Empty, Absent, Writers
<1>5. OpenFilesExist'
  BY <1>2 DEF Inv, OpenFilesExist
<1> QED
  BY <1>1, <1>3, <1>4, <1>5 DEF Inv

LEMMA UnlinkKeepsInv ==
  ASSUME Inv, NEW p \in Processes, NEW k \in Keys, Unlink(p, k)
  PROVE  Inv'
<1>1. /\ UNCHANGED <<put, at, offered>>
      /\ \A q \in Processes : handle'[q] = IF q \in Writers(k) THEN "gone" ELSE handle[q]
      /\ \A j \in Keys : j # k => file'[j] = file[j]
  BY DEF Unlink, Inv, TypeOK
<1>2. TypeOK'
  BY FileTypes DEF Unlink, Inv, TypeOK, Handles
<1>3. PutsAreOffered' /\ OnlyStorableIsOffered'
  BY <1>1, StorableIs DEF Inv, PutsAreOffered, OnlyStorableIsOffered
<1>4. FilesAreOfOffers'
  BY FileTypes DEF Unlink, Inv, TypeOK, FilesAreOfOffers
<1>5. OwnFilesAreEmpty'
  <2> SUFFICES ASSUME NEW q \in Processes
               PROVE  /\ handle'[q] # "gone" => at'[q] = "write"
                      /\ handle'[q] = "own" =>
                           file'[put'[q].key] = Empty /\ Writers(put[q].key)' = {q}
    BY DEF OwnFilesAreEmpty, Empty, Absent
  <2>1. CASE q \in Writers(k)
    BY <2>1, <1>1
  <2>2. CASE q \notin Writers(k) /\ handle[q] = "own"
    <3>1. at[q] = "write" /\ file[put[q].key] = Empty /\ Writers(put[q].key) = {q}
      BY <2>2 DEF Inv, OwnFilesAreEmpty
    <3>2. put[q].key \in Keys /\ put[q].key # k
      BY <3>1, <2>2, PutFacts DEF Writers
    <3>3. Writers(put[q].key)' = {q}
      BY <1>1, <2>2, <3>1, <3>2 DEF Writers
    <3> QED
      BY <1>1, <3>1, <3>2, <3>3
  <2>3. CASE q \notin Writers(k) /\ handle[q] # "own"
    BY <2>3, <1>1 DEF Inv, OwnFilesAreEmpty
  <2> QED
    BY <2>1, <2>2, <2>3
<1>6. OpenFilesExist'
  BY <1>1, HandleFacts DEF OpenFilesExist, Writers
<1> QED
  BY <1>2, <1>3, <1>4, <1>5, <1>6 DEF Inv

\* Through a handle that is gone, a write only ends the put.
LEMMA WriteKeepsInv ==
  ASSUME Inv, NEW p \in Processes, WriteFile(p) \/ WriteBreaksOff(p)
  PROVE  Inv'
<1> DEFINE k == put[p].key
<1>1. at[p] = "write" /\ k \in Keys /\ put[p].result \in RunnerStatuses
  BY PutFacts DEF WriteFile, WriteBreaksOff
<1>2. file \in [Keys -> File] /\ file[k] \in File
  BY <1>1 DEF Inv, TypeOK
<1>3. CASE handle[p] = "gone"
  <2>1. file' = file
    BY <1>1, <1>2, <1>3 DEF WriteFile, WriteBreaksOff
  <2> QED
    BY <2>1, EndingKeepsInv DEF WriteFile, WriteBreaksOff, Inv, TypeOK
<1>4. CASE handle[p] # "gone" /\ WriteFile(p)
  <2> DEFINE g == Overwritten(file[k], put[p].result)
  <2>1. /\ g \in File /\ g.of \subseteq file[k].of \cup {put[p].result}
        /\ g.parses \in g.of \cup {NoEntry}
    BY <1>1, <1>2, OverwrittenFacts
  <2>2. file' = [file EXCEPT ![k] = g]
    BY <1>4 DEF WriteFile
  <2>3. g.exists
    BY <1>1, <1>2, <1>4, OverwrittenFacts, HandleFacts
  <2> QED
    BY <1>1, <1>4, <2>1, <2>2, <2>3, WritingKeepsInv DEF WriteFile
<1>5. CASE handle[p] # "gone" /\ WriteBreaksOff(p)
  <2>1. PICK g \in PartlyOverwritten(file[k], put[p].result) : file' = [file EXCEPT ![k] = g]
    BY <1>5 DEF WriteBreaksOff
  <2>2. file[k].parses \in file[k].of \cup {NoEntry}
    BY <1>1 DEF Inv, FilesAreOfOffers
  <2>3. /\ g \in File /\ g.of \subseteq file[k].of \cup {put[p].result}
        /\ g.parses \in g.of \cup {NoEntry} /\ g.exists
    BY <1>1, <1>2, <1>5, <2>2, PartlyOverwrittenFacts, HandleFacts
  <2> QED
    BY <1>1, <1>5, <2>1, <2>3, WritingKeepsInv DEF WriteBreaksOff
<1> QED
  BY <1>3, <1>4, <1>5

LEMMA NextInv == Inv /\ [Next]_vars => Inv'
<1> SUFFICES ASSUME Inv, [Next]_vars PROVE Inv'
  OBVIOUS
<1>1. ASSUME NEW p \in Processes, Step(p) PROVE Inv'
  <2>1. CASE \E k \in Keys : Get(p, k)
    BY <2>1, GetKeepsInv
  <2>2. CASE \E k \in Keys, r \in RunnerStatuses : PutBegins(p, k, r)
    BY <2>2, PutBeginsKeepsInv
  <2>3. CASE MakeDirectory(p) \/ ClearBegins(p) \/ RemoveDirectory(p)
    BY <2>3, DirectoryStepKeepsInv
  <2>4. CASE PutFails(p)
    <3>1. handle[p] = "gone" /\ handle \in [Processes -> Handles]
      BY <2>4 DEF PutFails, Inv, OwnFilesAreEmpty, TypeOK
    <3>2. handle' = [handle EXCEPT ![p] = "gone"]
      BY <2>4, <3>1 DEF PutFails
    <3> QED
      BY <2>4, <3>2, EndingKeepsInv DEF PutFails, Inv, TypeOK
  <2>5. CASE CreateFile(p)
    BY <2>5, CreateFileKeepsInv
  <2>6. CASE WriteFile(p) \/ WriteBreaksOff(p)
    BY <2>6, WriteKeepsInv
  <2>7. CASE \E k \in Keys : Unlink(p, k)
    BY <2>7, UnlinkKeepsInv
  <2>8. CASE Crash(p)
    <3>1. /\ todo' \in [Processes -> SUBSET Keys]
          /\ answer' \in [Processes -> RunnerStatuses \cup {NoEntry}]
      BY <2>8 DEF Crash, Inv, TypeOK
    <3> QED
      BY <2>8, <3>1, EndingKeepsInv DEF Crash
  <2> QED
    BY <1>1, <2>1, <2>2, <2>3, <2>4, <2>5, <2>6, <2>7, <2>8 DEF Step
<1>2. CASE UNCHANGED vars
  BY <1>2, StorableIs
  DEF vars, Inv, TypeOK, PutsAreOffered, OnlyStorableIsOffered, FilesAreOfOffers,
      OpenFilesExist, OwnFilesAreEmpty, Empty, Absent, Writers
<1> QED
  BY <1>1, <1>2 DEF Next

THEOREM Invariance == Spec => []Inv
  BY InitInv, NextInv, PTL DEF Spec

\* The directory, its files and every process are as TypeOK says, for any number
\* of processes, any failures and crashes: in particular a directory that holds
\* files exists (cache.rs:91-117).
THEOREM TypeCorrect == Spec => []TypeOK
<1>1. Inv => TypeOK
  BY DEF Inv
<1> QED
  BY Invariance, <1>1, PTL

\* What the file of an undisturbed put is when it is written.
LEMMA OwnWriteIsReadBack ==
  ASSUME Inv, NEW p \in Processes, NEW k \in Keys,
         WriteFile(p), handle[p] = "own", put[p].key = k
  PROVE  Readable(k)' = put[p].result
<1>1. file[k] = Empty /\ put[p].result \in RunnerStatuses
  BY PutFacts DEF Inv, OwnFilesAreEmpty, WriteFile
<1>2. Overwritten(Empty, put[p].result).parses = put[p].result
  BY <1>1, FileTypes, OverwrittenFacts
<1>3. file'[k] = Overwritten(Empty, put[p].result)
  BY <1>1 DEF WriteFile, Inv, TypeOK
<1> QED
  BY <1>2, <1>3 DEF Readable

\* A put that succeeds, alone with its file since it opened it, is what the next
\* get finds (cache.rs:103-106).
THEOREM UndisturbedPuts == Spec => UndisturbedPutsAreReadBack
<1>1. Inv /\ [Next]_vars =>
        [\A p \in Processes, k \in Keys :
           WriteFile(p) /\ handle[p] = "own" /\ put[p].key = k
             => Readable(k)' = put[p].result]_vars
  BY OwnWriteIsReadBack
<1> QED
  BY Invariance, <1>1, PTL DEF Spec, UndisturbedPutsAreReadBack

-----------------------------------------------------------------------------
(* The files implement the promise.                                        *)

Entries == [k \in Keys |-> Readable(k)]

LEMMA EntriesUnchanged == UNCHANGED file => Entries' = Entries
  BY DEF Entries, Readable

\* Only the keys in hand can be touched.
LEMMA TouchedIsOfKeys == Touched \subseteq Keys
  BY DEF Touched

\* A put or a clear that goes on or ends touches no other key.
LEMMA TouchedShrinks ==
  ASSUME Inv, NEW p \in Processes,
         \A q \in Processes : q # p => put'[q] = put[q] /\ todo'[q] = todo[q],
         put'[p] = put[p] \/ put'[p] = NoPut,
         todo'[p] \subseteq todo[p]
  PROVE  Touched' \subseteq Touched
<1>1. NoPut.key \notin Keys
  BY KeysAssumption DEF NoPut
<1>2. ASSUME NEW k \in Keys, NEW q \in Processes, k = put'[q].key \/ k \in todo'[q]
      PROVE  k = put[q].key \/ k \in todo[q]
  BY <1>1, <1>2
<1> QED
  BY <1>2 DEF Touched

\* What a step does that changes one file, of a key in hand, and ends or goes on.
LEMMA ChangeOfOneFile ==
  ASSUME Inv, NEW k \in Keys, k \in Touched, Touched' \subseteq Touched,
         file'[k].parses \in offered[k] \cup {NoEntry},
         \A j \in Keys : j # k => file'[j] = file[j],
         UNCHANGED <<offered, answer>>
  PROVE  Promise!Change(k)
<1>1. Entries' = [Entries EXCEPT ![k] = file'[k].parses]
  BY DEF Entries, Readable
<1> QED
  BY <1>1 DEF Promise!Change, Entries

LEMMA WriteImplements ==
  ASSUME Inv, NEW p \in Processes, WriteFile(p) \/ WriteBreaksOff(p)
  PROVE  Promise!Change(put[p].key)
<1> DEFINE k == put[p].key
<1>1. k \in Keys /\ k \in Touched
  BY PutFacts DEF Touched, WriteFile, WriteBreaksOff
<1>2. Touched' \subseteq Touched
  <2>1. /\ \A q \in Processes : q # p => put'[q] = put[q] /\ todo'[q] = todo[q]
        /\ put'[p] = NoPut /\ todo'[p] = todo[p]
    BY DEF WriteFile, WriteBreaksOff, Ends, Inv, TypeOK
  <2> QED
    BY <2>1, TouchedShrinks
<1>3. \A j \in Keys : j # k => file'[j] = file[j]
  BY DEF WriteFile, WriteBreaksOff, Inv, TypeOK
<1>4. file'[k].parses \in offered[k] \cup {NoEntry}
  <2>1. Inv'
    BY WriteKeepsInv
  <2>2. offered' = offered
    BY DEF WriteFile, WriteBreaksOff
  <2> QED
    BY <1>1, <2>1, <2>2 DEF Inv, FilesAreOfOffers
<1> QED
  BY <1>1, <1>2, <1>3, <1>4, ChangeOfOneFile DEF WriteFile, WriteBreaksOff

LEMMA CreateFileImplements ==
  ASSUME Inv, NEW p \in Processes, CreateFile(p)
  PROVE  Promise!Change(put[p].key)
<1>1. put[p].key \in Keys /\ put[p].key \in Touched
  BY PutFacts DEF Touched, CreateFile, Go
<1>2. Touched' = Touched
  BY DEF Touched, CreateFile
<1>3. file'[put[p].key] = Empty /\ \A j \in Keys : j # put[p].key => file'[j] = file[j]
  BY <1>1 DEF CreateFile, Inv, TypeOK
<1> QED
  BY <1>1, <1>2, <1>3, FileTypes, ChangeOfOneFile DEF CreateFile

LEMMA UnlinkImplements ==
  ASSUME Inv, NEW p \in Processes, NEW k \in Keys, Unlink(p, k)
  PROVE  Promise!Change(k)
<1>1. k \in Touched
  BY DEF Unlink, Touched
<1>2. Touched' \subseteq Touched
  BY TouchedShrinks DEF Unlink, Inv, TypeOK
<1>3. file'[k] = Absent /\ \A j \in Keys : j # k => file'[j] = file[j]
  BY DEF Unlink, Inv, TypeOK
<1> QED
  BY <1>1, <1>2, <1>3, FileTypes, ChangeOfOneFile DEF Unlink

LEMMA PutBeginsImplements ==
  ASSUME Inv, NEW p \in Processes, NEW k \in Keys, NEW r \in RunnerStatuses, PutBegins(p, k, r)
  PROVE  r \in Promise!Storable /\ Promise!Offer(k, r)
<1>1. r \in Promise!Storable
  BY StorableIs DEF PutBegins
<1>2. Touched' = Touched \cup {k}
  <2>1. put[p] = NoPut /\ NoPut.key \notin Keys
    BY KeysAssumption DEF PutBegins, Go, Inv, PutsAreOffered, NoPut
  <2>2. /\ todo' = todo /\ put'[p].key = k
        /\ \A q \in Processes : q # p => put'[q] = put[q]
    BY DEF PutBegins, Inv, TypeOK
  <2> QED
    BY <2>1, <2>2 DEF Touched
<1>3. Entries' = Entries
  BY EntriesUnchanged DEF PutBegins
<1> QED
  BY <1>1, <1>2, <1>3 DEF PutBegins, Promise!Offer, Entries

LEMMA StepImplements ==
  ASSUME Inv, NEW p \in Processes, Step(p)
  PROVE  [Promise!Next]_(Promise!vars)
<1>1. CASE \E k \in Keys : Get(p, k)
  <2>1. PICK k \in Keys : Get(p, k)
    BY <1>1
  <2>2. Touched' = Touched /\ Entries' = Entries
    BY <2>1, EntriesUnchanged DEF Get, Touched
  <2>3. Promise!Look(p, k)
    BY <2>1, <2>2 DEF Get, Promise!Look, Entries
  <2> QED
    BY <2>3 DEF Promise!Next
<1>2. CASE \E k \in Keys, r \in RunnerStatuses : PutBegins(p, k, r)
  BY <1>2, PutBeginsImplements DEF Promise!Next
<1>3. CASE MakeDirectory(p) \/ RemoveDirectory(p)
  <2>1. Touched' = Touched /\ Entries' = Entries
    BY <1>3, EntriesUnchanged DEF MakeDirectory, RemoveDirectory, Touched
  <2> QED
    BY <1>3, <2>1 DEF MakeDirectory, RemoveDirectory, Promise!vars, Entries
<1>4. CASE ClearBegins(p) \/ PutFails(p) \/ Crash(p)
  <2>1. Entries' = Entries /\ UNCHANGED offered
    BY <1>4, EntriesUnchanged DEF ClearBegins, PutFails, Crash
  <2>2. Touched' \in SUBSET Keys
    BY DEF Touched
  <2>3. answer' \in {answer} \cup {[answer EXCEPT ![q] = NoEntry] : q \in Processes}
    BY <1>4 DEF ClearBegins, PutFails, Crash
  <2>4. Promise!Touch(Touched')
    BY <2>1, <2>3 DEF Promise!Touch, Entries
  <2> QED
    BY <2>2, <2>4 DEF Promise!Next
<1>5. CASE CreateFile(p)
  <2>1. put[p].key \in Keys
    BY <1>5, PutFacts DEF CreateFile, Go
  <2> QED
    BY <1>5, <2>1, CreateFileImplements DEF Promise!Next
<1>6. CASE WriteFile(p) \/ WriteBreaksOff(p)
  <2>1. put[p].key \in Keys
    BY <1>6, PutFacts DEF WriteFile, WriteBreaksOff
  <2> QED
    BY <1>6, <2>1, WriteImplements DEF Promise!Next
<1>7. CASE \E k \in Keys : Unlink(p, k)
  BY <1>7, UnlinkImplements DEF Promise!Next
<1> QED
  BY <1>1, <1>2, <1>3, <1>4, <1>5, <1>6, <1>7 DEF Step

\* cache.rs:81-84, for any number of processes and files: the files behave as the
\* store that ResultCache describes, so a lookup finds a result stored under its
\* own key or nothing, and never an execution error.
THEOREM FilesImplementPromise == Spec => FilesKeepThePromise
<1>1. Init => Promise!Init
  BY KeysAssumption, FileTypes
  DEF Init, Promise!Init, Readable, Touched, NoPut
<1>2. Inv /\ [Next]_vars => [Promise!Next]_(Promise!vars)
  <2> SUFFICES ASSUME Inv, [Next]_vars PROVE [Promise!Next]_(Promise!vars)
    OBVIOUS
  <2>1. CASE UNCHANGED vars
    BY <2>1 DEF vars, Promise!vars, Readable, Touched
  <2> QED
    BY <2>1, StepImplements DEF Next
<1> QED
  BY Invariance, <1>1, <1>2, PTL DEF Spec, FilesKeepThePromise, Promise!Spec
=============================================================================

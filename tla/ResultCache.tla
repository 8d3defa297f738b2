------------------------------ MODULE ResultCache ------------------------------
(***************************************************************************)
(* What the result cache promises to the processes that share it.  An entry *)
(* is there or not.  It only changes while somebody stores under its key or *)
(* clears the cache, and then it is gone or a result that was stored under  *)
(* this very key; a lookup returns the entry of that moment.  Entries may   *)
(* be lost.  An execution error is never an entry.                          *)
(***************************************************************************)
EXTENDS Outcomes

CONSTANTS
  Processes,  \* the processes that share the cache
  Keys,       \* the keys (file names)
  NoEntry     \* a miss

\* What an entry may say: CacheStore::put returns early for an error.
Storable == RunnerStatuses \ {"error"}

VARIABLES
  entry,    \* entry[k]: the entry a lookup of k finds
  offered,  \* offered[k]: the results processes began to store under k
  touched,  \* the keys somebody is storing under or clearing
  answer    \* answer[p]: what the last lookup of p found

vars == <<entry, offered, touched, answer>>

Init ==
  /\ entry = [k \in Keys |-> NoEntry]
  /\ offered = [k \in Keys |-> {}]
  /\ touched = {}
  /\ answer = [p \in Processes |-> NoEntry]

\* A store begins.
Offer(k, r) ==
  /\ offered' = [offered EXCEPT ![k] = @ \cup {r}]
  /\ touched' = touched \cup {k}
  /\ UNCHANGED <<entry, answer>>

\* An entry of a touched key changes; a store or a clear may end with it.
Change(k) ==
  /\ k \in touched
  /\ \E e \in offered[k] \cup {NoEntry} : entry' = [entry EXCEPT ![k] = e]
  /\ touched' \in SUBSET touched
  /\ UNCHANGED <<offered, answer>>

\* Stores end without effect, or a clear begins; a process may crash over it.
Touch(T) ==
  /\ touched' = T
  /\ answer' \in {answer} \cup {[answer EXCEPT ![p] = NoEntry] : p \in Processes}
  /\ UNCHANGED <<entry, offered>>

Look(p, k) ==
  /\ answer' = [answer EXCEPT ![p] = entry[k]]
  /\ UNCHANGED <<entry, offered, touched>>

Next ==
  \/ \E k \in Keys, r \in Storable : Offer(k, r)
  \/ \E k \in Keys : Change(k)
  \/ \E T \in SUBSET Keys : Touch(T)
  \/ \E p \in Processes, k \in Keys : Look(p, k)

Spec == Init /\ [][Next]_vars
=============================================================================

-------------------------- MODULE RegularRegister --------------------------
(***************************************************************************)
(* What SeqLock<T> promises its clients: a single-writer REGULAR register. *)
(* The k-th Store writes the value k into every word of T, so a value is   *)
(* named by its Store.  A Load returns one whole value, at least as recent *)
(* as the last Store completed before the Load began and at most the Store *)
(* in flight when it ends.  Two Loads that overlap one Store may see the   *)
(* new value and then the old one: the register is not atomic.             *)
(***************************************************************************)
EXTENDS Naturals

CONSTANTS Readers,  \* the threads that Load
          Words     \* the words memcpy moves one at a time

VARIABLES
  latest,   \* the number of completed Stores, and so the last stored value
  storing,  \* a Store is in flight
  loading,  \* loading[r]: reader r is inside Load
  floor,    \* floor[r]: latest when r's current (or last) Load began
  result    \* result[r]: what r's last Load returned

vars == <<latest, storing, loading, floor, result>>

Whole(v) == [w \in Words |-> v]

Init ==
  /\ latest = 0 /\ storing = FALSE
  /\ loading = [r \in Readers |-> FALSE]
  /\ floor = [r \in Readers |-> 0]
  /\ result = [r \in Readers |-> Whole(0)]

BeginStore == ~storing /\ storing' = TRUE /\ UNCHANGED <<latest, loading, floor, result>>

EndStore ==
  /\ storing /\ storing' = FALSE /\ latest' = latest + 1
  /\ UNCHANGED <<loading, floor, result>>

BeginLoad(r) ==
  /\ ~loading[r]
  /\ loading' = [loading EXCEPT ![r] = TRUE]
  /\ floor' = [floor EXCEPT ![r] = latest]
  /\ UNCHANGED <<latest, storing, result>>

EndLoad(r) ==
  /\ loading[r]
  /\ loading' = [loading EXCEPT ![r] = FALSE]
  /\ \E v \in floor[r] .. (IF storing THEN latest + 1 ELSE latest) :
        result' = [result EXCEPT ![r] = Whole(v)]
  /\ UNCHANGED <<latest, storing, floor>>

Next == BeginStore \/ EndStore \/ \E r \in Readers : BeginLoad(r) \/ EndLoad(r)

Spec == Init /\ [][Next]_vars
=============================================================================

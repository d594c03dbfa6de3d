------------------------------ MODULE SeqLock ------------------------------
(***************************************************************************)
(* SeqLock<T> of mixing/LockFreeQueue.h: one writer, any number of         *)
(* readers, several value slots guarded each by an atomic word that holds  *)
(* a reader count and the kWriting bit.  Every atomic access of the code   *)
(* is an action, and memcpy moves one word of the value at a time, in any  *)
(* order.  The k-th Store writes k in every word.                          *)
(***************************************************************************)
EXTENDS Integers, FiniteSets

CONSTANTS Readers,    \* the threads that call Load
          NumSlots,   \* m_slots.size(), 8 in the code
          Words,      \* the words of T
          MaxStores   \* bound on the number of Stores

ASSUME SeqLockAssumption ==
  /\ IsFiniteSet(Readers)
  /\ NumSlots \in Nat /\ NumSlots > 1
  /\ Words # {}
  /\ MaxStores \in Nat

Slots == 0 .. NumSlots - 1

VARIABLES
  published,  \* m_published
  count,      \* count[s]: m_slots[s].readers without the kWriting bit
  writing,    \* writing[s]: the kWriting bit of m_slots[s].readers
  value,      \* value[s][w]: word w of m_slots[s].value
  wpc, current, n, todo,  \* the writer: location, locals of Store, words left to copy
  stores,     \* Stores begun so far
  rpc, index, left, out,  \* the readers: location, locals of Load, words left to copy
  floor,      \* history: Stores completed when the current Load began
  result      \* what each reader's last Load returned

shared == <<published, count, writing, value>>
writer == <<wpc, current, n, todo, stores>>
reader == <<rpc, index, left, out, floor, result>>
vars == <<shared, writer, reader>>

\* Stores that have published their value.
Completed == IF wpc = "idle" THEN stores ELSE stores - 1

\* The slot the current pass of Store looks at.
Target == (current + n) % NumSlots

Init ==
  /\ published = 0
  /\ count = [s \in Slots |-> 0] /\ writing = [s \in Slots |-> FALSE]
  /\ value = [s \in Slots |-> [w \in Words |-> 0]]
  /\ wpc = "idle" /\ current = 0 /\ n = 1 /\ todo = {} /\ stores = 0
  /\ rpc = [r \in Readers |-> "idle"] /\ index = [r \in Readers |-> 0]
  /\ left = [r \in Readers |-> {}]
  /\ out = [r \in Readers |-> [w \in Words |-> 0]]
  /\ floor = [r \in Readers |-> 0]
  /\ result = [r \in Readers |-> [w \in Words |-> 0]]

-----------------------------------------------------------------------------
(* Store                                                                    *)

\* Mutant: the search starts at the published slot itself.
StoreBeginAtPublished ==
  /\ wpc = "idle" /\ stores < MaxStores
  /\ wpc' = "claim" /\ current' = published /\ n' = 0 /\ stores' = stores + 1
  /\ UNCHANGED <<shared, todo, reader>>

StoreBegin ==
  /\ wpc = "idle" /\ stores < MaxStores
  /\ wpc' = "claim" /\ current' = published /\ n' = 1 /\ stores' = stores + 1
  /\ UNCHANGED <<shared, todo, reader>>

\* Mutant: a slot is claimed although readers are inside.
ClaimIgnoresReaders ==
  /\ wpc = "claim" /\ n < NumSlots
  /\ writing' = [writing EXCEPT ![Target] = TRUE] /\ wpc' = "copy" /\ todo' = Words
  /\ UNCHANGED <<published, count, value, current, n, stores, reader>>

\* compare_exchange_strong(0, kWriting); on failure the loop tries the next slot.
Claim ==
  /\ wpc = "claim" /\ n < NumSlots
  /\ IF count[Target] = 0 /\ ~writing[Target]
     THEN /\ writing' = [writing EXCEPT ![Target] = TRUE]
          /\ wpc' = "copy" /\ todo' = Words /\ UNCHANGED n
     ELSE n' = n + 1 /\ UNCHANGED <<writing, wpc, todo>>
  /\ UNCHANGED <<published, count, value, current, stores, reader>>

\* Every other slot was busy: yield and start over.
Yield ==
  /\ wpc = "claim" /\ n = NumSlots /\ n' = 1
  /\ UNCHANGED <<shared, wpc, current, todo, stores, reader>>

CopyIn(w) ==
  /\ wpc = "copy" /\ w \in todo
  /\ value' = [value EXCEPT ![Target][w] = stores] /\ todo' = todo \ {w}
  /\ UNCHANGED <<published, count, writing, wpc, current, n, stores, reader>>

Unlock ==
  /\ wpc = "copy" /\ todo = {}
  /\ writing' = [writing EXCEPT ![Target] = FALSE] /\ wpc' = "publish"
  /\ UNCHANGED <<published, count, value, current, n, todo, stores, reader>>

Publish ==
  /\ wpc = "publish" /\ published' = Target /\ wpc' = "idle"
  /\ UNCHANGED <<count, writing, value, current, n, todo, stores, reader>>

StoreStep == Claim \/ Yield \/ (\E w \in Words : CopyIn(w)) \/ Unlock \/ Publish

-----------------------------------------------------------------------------
(* Load                                                                     *)

LoadBegin(r) ==
  /\ rpc[r] = "idle" /\ rpc' = [rpc EXCEPT ![r] = "enter"]
  /\ index' = [index EXCEPT ![r] = published]
  /\ floor' = [floor EXCEPT ![r] = Completed]
  /\ UNCHANGED <<shared, writer, left, out, result>>

\* fetch_add; a slot that is being written is left again at once.
Enter(r) ==
  /\ rpc[r] = "enter"
  /\ count' = [count EXCEPT ![index[r]] = @ + 1]
  /\ rpc' = [rpc EXCEPT ![r] = IF writing[index[r]] THEN "leave" ELSE "copy"]
  /\ left' = [left EXCEPT ![r] = Words]
  /\ UNCHANGED <<published, writing, value, writer, index, out, floor, result>>

CopyOut(r, w) ==
  /\ rpc[r] = "copy" /\ w \in left[r]
  /\ out' = [out EXCEPT ![r][w] = value[index[r]][w]]
  /\ left' = [left EXCEPT ![r] = @ \ {w}]
  /\ UNCHANGED <<shared, writer, rpc, index, floor, result>>

\* Mutant: the reader returns without leaving the slot.
LoadEndKeepsCount(r) ==
  /\ rpc[r] = "copy" /\ left[r] = {}
  /\ rpc' = [rpc EXCEPT ![r] = "idle"] /\ result' = [result EXCEPT ![r] = out[r]]
  /\ UNCHANGED <<shared, writer, index, left, out, floor>>

LoadEnd(r) ==
  /\ rpc[r] = "copy" /\ left[r] = {}
  /\ count' = [count EXCEPT ![index[r]] = @ - 1]
  /\ rpc' = [rpc EXCEPT ![r] = "idle"] /\ result' = [result EXCEPT ![r] = out[r]]
  /\ UNCHANGED <<published, writing, value, writer, index, left, out, floor>>

Leave(r) ==
  /\ rpc[r] = "leave"
  /\ count' = [count EXCEPT ![index[r]] = @ - 1]
  /\ rpc' = [rpc EXCEPT ![r] = "retry"]
  /\ UNCHANGED <<published, writing, value, writer, index, left, out, floor, result>>

\* The loop of Load reads m_published again.
Retry(r) ==
  /\ rpc[r] = "retry" /\ rpc' = [rpc EXCEPT ![r] = "enter"]
  /\ index' = [index EXCEPT ![r] = published]
  /\ UNCHANGED <<shared, writer, left, out, floor, result>>

LoadStep(r) ==
  Enter(r) \/ (\E w \in Words : CopyOut(r, w)) \/ LoadEnd(r) \/ Leave(r) \/ Retry(r)

-----------------------------------------------------------------------------
Next == StoreBegin \/ StoreStep \/ \E r \in Readers : LoadBegin(r) \/ LoadStep(r)

Spec == Init /\ [][Next]_vars

\* A thread inside Store or Load keeps running; nobody has to start a call.
Fairness == WF_vars(StoreStep) /\ \A r \in Readers : WF_vars(LoadStep(r))

FairSpec == Spec /\ Fairness

-----------------------------------------------------------------------------
(* Properties                                                               *)

TypeOK ==
  /\ published \in Slots
  /\ count \in [Slots -> Int] /\ writing \in [Slots -> BOOLEAN]
  /\ value \in [Slots -> [Words -> Nat]]
  /\ wpc \in {"idle", "claim", "copy", "publish"}
  /\ current \in Slots /\ n \in 1 .. NumSlots
  /\ todo \in SUBSET Words /\ stores \in Nat
  /\ rpc \in [Readers -> {"idle", "enter", "copy", "leave", "retry"}]
  /\ index \in [Readers -> Slots] /\ left \in [Readers -> SUBSET Words]
  /\ out \in [Readers -> [Words -> Nat]] /\ result \in [Readers -> [Words -> Nat]]
  /\ floor \in [Readers -> Int]

\* Nobody copies a value out of a slot while the writer copies one in: the
\* data race the kWriting bit and the reader count exclude together.
NoDataRace == \A r \in Readers : rpc[r] = "copy" => ~writing[index[r]]

\* The reader counts return to what the readers inside the slots add up to,
\* so that a slot nobody reads can be claimed again.
Holders(s) == {r \in Readers : rpc[r] \in {"copy", "leave"} /\ index[r] = s}

CountsBalance == \A s \in Slots : count[s] = Cardinality(Holders(s))

\* Load is lock-free: it retries only if since it began one Store has completed
\* and a further one has begun, because no Store takes the published slot away.
RetryNeedsTwoStores ==
  \A r \in Readers : rpc[r] \in {"leave", "retry"} => floor[r] + 2 <= stores

\* What every step preserves, for the proofs of the properties above.
WriterInv ==
  /\ wpc # "idle" => stores > 0 /\ current = published
  /\ wpc \in {"copy", "publish"} => n < NumSlots
  /\ \A s \in Slots : writing[s] <=> wpc = "copy" /\ s = Target

ValueInv ==
  /\ \A w \in Words : value[published][w] = Completed
  /\ \A s \in Slots, w \in Words : value[s][w] <= stores
  /\ \A s \in Slots : ~writing[s] => \A v, w \in Words : value[s][v] = value[s][w]
  /\ wpc \in {"copy", "publish"} =>
       \A w \in Words : (wpc = "copy" => w \notin todo) => value[Target][w] = stores

ReaderInv ==
  \A r \in Readers :
    /\ rpc[r] # "idle" => floor[r] <= Completed
    /\ rpc[r] = "enter" /\ index[r] # published => floor[r] < Completed
    /\ rpc[r] \in {"enter", "copy"} => \A w \in Words : value[index[r]][w] >= floor[r]
    /\ rpc[r] = "copy" => \A w \in Words \ left[r] : out[r][w] = value[index[r]][w]

IInv == TypeOK /\ WriterInv /\ CountsBalance /\ NoDataRace /\ ValueInv /\ ReaderInv

\* The lock implements the register its users rely on.
Register == INSTANCE RegularRegister WITH
  latest <- Completed, storing <- (wpc # "idle"),
  loading <- [r \in Readers |-> rpc[r] # "idle"]

ImplementsRegister == Register!Spec

\* A Store that has begun ends, whatever the readers do.
StoreTerminates == (wpc # "idle") ~> (wpc = "idle")
=============================================================================

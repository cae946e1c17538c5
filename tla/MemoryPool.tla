----------------------------- MODULE MemoryPool -----------------------------
(***************************************************************************)
(* A pool of reusable objects (FlatBufferBuilderPool and, with the same    *)
(* code, PlayerStateVectorPool).  A thread takes an object through a       *)
(* Pooled... wrapper, whose destructor gives it back.  Both operations     *)
(* hold the mutex of the pool.                                             *)
(*                                                                         *)
(* An object that is in no place is one that does not exist, or has been   *)
(* destroyed.  The content of an object is the sequence of what was written*)
(* into it since it was cleared.                                           *)
(***************************************************************************)
EXTENDS Naturals, Sequences, FiniteSets

CONSTANTS
  Objects,    \* bound: 1..n, the objects there can be at one time
  Users,      \* threads that take objects
  PoolSize,   \* m_poolSize
  None

VARIABLES
  available,  \* m_availableBuilders, m_availableVectors
  held,       \* the object a thread's wrapper owns
  content

poolVars == <<available, held, content>>

(* The constructor creates PoolSize objects.                                 *)
PoolInit ==
  /\ available = [i \in 1..PoolSize |-> i]
  /\ held = [u \in Users |-> None]
  /\ content = [o \in Objects |-> <<>>]

Available == {available[i] : i \in 1..Len(available)}
Owned     == {held[u] : u \in Users} \ {None}

(* Mutant: the front of the queue is handed out and left in its place.       *)
AcquirePeeks(u, x) ==
  /\ held[u] = None
  /\ \E o \in IF available = <<>> THEN Objects \ Owned ELSE {Head(available)} :
       /\ held' = [held EXCEPT ![u] = o]
       /\ content' = [content EXCEPT ![o] = <<x>>]
  /\ UNCHANGED available

(* The front of the queue, cleared, or a new object when the queue is empty; *)
(* its holder then writes x into it.                                         *)
Acquire(u, x) ==
  /\ held[u] = None
  /\ \E o \in IF available = <<>> THEN Objects \ Owned ELSE {Head(available)} :
       /\ held' = [held EXCEPT ![u] = o]
       /\ content' = [content EXCEPT ![o] = <<x>>]
  /\ available' = IF available = <<>> THEN available ELSE Tail(available)

(* Mutant: the object is kept by nobody.                                     *)
ReleaseLeaks(u) ==
  /\ held[u] # None
  /\ held' = [held EXCEPT ![u] = None]
  /\ content' = [content EXCEPT ![held[u]] = <<>>]
  /\ UNCHANGED available

(* Cleared and put back, or destroyed when the pool is full.                 *)
Release(u) ==
  /\ held[u] # None
  /\ held' = [held EXCEPT ![u] = None]
  /\ content' = [content EXCEPT ![held[u]] = <<>>]
  /\ available' = IF Len(available) < PoolSize THEN Append(available, held[u])
                                               ELSE available

(* No object is in two places (Acquire, Release and the wrappers, which move *)
(* a unique_ptr).                                                            *)
Exclusive ==
  /\ \A i, j \in 1..Len(available) : available[i] = available[j] => i = j
  /\ \A u, v \in Users : held[u] = held[v] /\ held[u] # None => u = v
  /\ Available \cap Owned = {}

(* None of the PoolSize objects is lost: what Release destroys is more than  *)
(* the pool may hold, and every other object is available or held.           *)
Conserved ==
  /\ Len(available) <= PoolSize
  /\ PoolSize <= Len(available) + Cardinality({u \in Users : held[u] # None})
=============================================================================

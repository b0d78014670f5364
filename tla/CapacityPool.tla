----------------------------- MODULE CapacityPool -----------------------------
(***************************************************************************)
(* What the upstream scheduler promises its callers, without its counters, *)
(* queues and futures: a pool of slots and the sets of requests that have  *)
(* one, wait for one, or took one with them.  Room is a fact about the     *)
(* requests that hold a slot, and a slot that is given to nobody is not    *)
(* used up, except when its waiter was cancelled (wasted).                 *)
(***************************************************************************)
EXTENDS Integers, FiniteSets

CONSTANTS Requests, InstanceOf, Batch, None,
          GlobalLimit, BatchLimit, InstanceLimit

VARIABLES served, waiting, wasted

vars == <<served, waiting, wasted>>

Charged == served \cup wasted
ChargedTo(i) == {r \in Charged : InstanceOf[r] = i}

Room(r) ==
  /\ GlobalLimit # None =>
       /\ Cardinality(Charged) < GlobalLimit
       /\ r \in Batch => Cardinality(Charged \cap Batch) < BatchLimit
  /\ InstanceLimit[InstanceOf[r]] # None =>
       Cardinality(ChargedTo(InstanceOf[r])) < InstanceLimit[InstanceOf[r]]

Init == served = {} /\ waiting = {} /\ wasted = {}

\* A request waits only when there is no room for it.
Enter(r) ==
  /\ r \notin served \cup waiting \cup wasted
  /\ IF Room(r) THEN served' = served \cup {r} /\ UNCHANGED waiting
                ELSE waiting' = waiting \cup {r} /\ UNCHANGED served
  /\ UNCHANGED wasted

\* A waiter's turn has come: there is room for it, and a batch request leaves
\* the room to any interactive waiter that can use it.
Turn(r) ==
  /\ r \in waiting /\ Room(r)
  /\ r \in Batch => \A q \in waiting \ Batch : ~Room(q)

Serve(r) ==
  /\ Turn(r)
  /\ waiting' = waiting \ {r} /\ served' = served \cup {r}
  /\ UNCHANGED wasted

\* The turn of a waiter that was cancelled meanwhile.
Waste(r) ==
  /\ Turn(r)
  /\ waiting' = waiting \ {r} /\ wasted' = wasted \cup {r}
  /\ UNCHANGED served

GiveUp(r) ==
  /\ r \in waiting /\ waiting' = waiting \ {r}
  /\ UNCHANGED <<served, wasted>>

GiveBack(r) ==
  /\ r \in served /\ served' = served \ {r}
  /\ UNCHANGED <<waiting, wasted>>

Next ==
  \E r \in Requests : Enter(r) \/ Serve(r) \/ Waste(r) \/ GiveUp(r) \/ GiveBack(r)

Spec == Init /\ [][Next]_vars
=============================================================================

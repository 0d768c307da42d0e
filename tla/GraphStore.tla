---------------------------- MODULE GraphStore ----------------------------
(***************************************************************************)
(* The GraphStore of src/graph/snapshot.rs: the current graph snapshot and *)
(* a ring of the last published ones.  A snapshot is known by its id and   *)
(* the block it was built at, which is missing when the node did not       *)
(* answer; `seen` is the set of blocks whose logs its pools reflect, a     *)
(* ghost for the pool states.                                              *)
(***************************************************************************)
EXTENDS Naturals, Sequences

CONSTANTS
    MaxSnapshots,   \* the capacity of the ring
    NoBlock

ASSUME RingAssumption == MaxSnapshots \in Nat \ {0}

VARIABLES
    current,
    ring     \* oldest first

storeVars == <<current, ring>>

InRing(s) == \E i \in 1..Len(ring) : ring[i] = s

\* GraphStore::new
StoreInit(s) ==
    /\ current = s
    /\ ring = <<s>>

\* Slip: only the current snapshot is replaced.
PublishSkipsRing(s) ==
    /\ current' = s
    /\ UNCHANGED ring

Publish(s) ==
    /\ current' = s
    /\ LET longer == Append(ring, s)
       IN  ring' = IF Len(longer) > MaxSnapshots THEN Tail(longer) ELSE longer

\* The places of the snapshots rollback_to_block(n) may choose from; it takes
\* the last.  A rollback takes nothing out of the ring.
AtOrBelow(n) ==
    {i \in 1..Len(ring) : ring[i].block # NoBlock /\ ring[i].block.number <= n}

RollbackToSnapshotOf(n) ==
    /\ \E i \in AtOrBelow(n) :
          /\ \A j \in AtOrBelow(n) : j <= i
          /\ current' = ring[i]
    /\ UNCHANGED ring

=============================================================================

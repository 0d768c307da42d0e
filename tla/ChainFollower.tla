--------------------------- MODULE ChainFollower ---------------------------
(***************************************************************************)
(* The loop of run_chain (src/engine.rs) with HTTP polling: it scans the   *)
(* logs of new blocks, asks for the latest block, rolls the graph and the  *)
(* scan cursor back when the ReorgDetector reports a rewrite, and publishes *)
(* a snapshot with the scanned changes.  Each RPC is one step; nodes may   *)
(* lag and the chain may grow or be rewritten between any two steps.       *)
(*                                                                         *)
(* A failed poll, like a round without new blocks, only sleeps: it is a    *)
(* stuttering step.                                                        *)
(***************************************************************************)
EXTENDS ReorgDetector, GraphStore, Integers

CONSTANTS
    Forks,       \* the canonical chains, each a sequence of blocks by height, in
                 \* the order in which the network adopts them
    Backfill,    \* risk.event_backfill_blocks
    MaxLag,      \* bound: blocks a node that answers may be behind the head
    MaxDrift     \* bound: blocks the head may be above the cursor while the
                 \* engine works on what it has scanned

ASSUME ForksAssumption ==
    /\ Forks \in Seq(Seq(Blocks)) /\ Len(Forks) > 0
    /\ \A f \in 1..Len(Forks) : \A i \in 1..Len(Forks[f]) : Forks[f][i].number = i
    /\ NoBlock \notin Blocks

\* Each block of a chain names the one before it as its parent.
ASSUME LinkedAssumption ==
    \A f \in 1..Len(Forks) : \A i \in 1..(Len(Forks[f]) - 1) :
        Forks[f][i + 1].parent = Forks[f][i].hash

\* What is scanned again after a rollback covers what the chain grows by while
\* the engine works (config/*.toml: 16 or 32 blocks).
ASSUME BackfillAssumption ==
    /\ Backfill \in Nat /\ MaxLag \in Nat /\ MaxDrift \in Nat
    /\ MaxLag <= MaxDrift /\ MaxDrift <= Backfill

VARIABLES
    pc,        \* poll, tip, refresh, process; stopped (run_chain returned an
               \* error) or hung
    cursor,    \* poll_from_block
    batch,     \* blocks whose logs the last poll returned
    taken,     \* ghost: blocks scanned since `current` that changed no edge
    fork,      \* the canonical chain, an index of Forks
    height     \* and its height

chainVars == <<fork, height>>
vars == <<detectorVars, storeVars, pc, cursor, batch, taken, chainVars>>

Snapshot == [id: Nat, block: Blocks \union {NoBlock}, seen: SUBSET Blocks]

FollowerTypeOK ==
    /\ TypeOK
    /\ current \in Snapshot
    /\ ring \in Seq(Snapshot)
    /\ pc \in {"poll", "tip", "refresh", "process", "stopped", "hung"}
    /\ cursor \in Nat
    /\ batch \subseteq Blocks
    /\ taken \subseteq Blocks
    /\ fork \in 1..Len(Forks)
    /\ height \in 1..Len(Forks[fork])

-----------------------------------------------------------------------------
(* The chain and its nodes *)

\* Slip: one block further back, without saturating at the root.
PlainSub(n, d) == n - d - 1

SaturatingSub(n, d) == IF n > d THEN n - d ELSE 0

\* A node answers with a block of the canonical chain, at most MaxLag old.
Answered(h) == h \in SaturatingSub(height, MaxLag)..height /\ h >= 1

BlockAt(h) == Forks[fork][h]

\* The chain is of no interest once the loop has ended.
HeadMayReach(h) ==
    /\ pc \notin {"stopped", "hung"}
    /\ pc \in {"tip", "refresh"} => h <= cursor + MaxDrift

Grow ==
    /\ height < Len(Forks[fork])
    /\ HeadMayReach(height + 1)
    /\ height' = height + 1
    /\ UNCHANGED <<detectorVars, storeVars, pc, cursor, batch, taken, fork>>

\* The network adopts another chain that is at least as high.
Reorganise ==
    /\ \E f \in (fork + 1)..Len(Forks) :
          /\ fork' = f
          /\ height' \in height..Len(Forks[f])
          /\ HeadMayReach(height')
    /\ UNCHANGED <<detectorVars, storeVars, pc, cursor, batch, taken>>

-----------------------------------------------------------------------------
(* run_chain *)

\* The end of bootstrap and the start of the loop.  The pools were read up to
\* height a; the block reference was read afterwards, or that read failed.
Init ==
    /\ fork = 1
    /\ height \in 1..Len(Forks[1])
    /\ \E a \in SaturatingSub(height, MaxDrift)..height :
          LET seen == {Forks[1][i] : i \in 1..a}
          IN \/ /\ DetectorInit
                /\ StoreInit([id |-> 0, block |-> NoBlock, seen |-> seen])
                /\ cursor = 0
             \/ LET b == Forks[1][height]
                IN  /\ chain = <<b>>
                    /\ byHash = [h \in {b.hash} |-> b.number]
                    /\ byNumber = [n \in {b.number} |-> b]
                    /\ event = NoEvent
                    /\ StoreInit([id |-> 0, block |-> b, seen |-> seen])
                    /\ cursor = SaturatingSub(b.number, Backfill)
    /\ pc = "poll"
    /\ batch = {}
    /\ taken = {}

\* poll_once, then poll_from_block = latest_block.  The round's event is local
\* to the loop's body.
Poll ==
    /\ pc = "poll"
    /\ event' = NoEvent
    /\ \E latest \in 1..height :
          /\ Answered(latest)
          /\ batch' = {BlockAt(i) : i \in (cursor + 1)..latest}
          /\ cursor' = IF latest > cursor THEN latest ELSE cursor
    /\ pc' = "tip"
    /\ UNCHANGED <<historyVars, storeVars, taken, chainVars>>

\* Slip: the graph is rolled back, the cursor is not.
RollbackKeepsCursor(n) ==
    /\ IF AtOrBelow(n) # {}
       THEN RollbackToSnapshotOf(n) /\ taken' = {}
       ELSE UNCHANGED <<storeVars, taken>>
    /\ UNCHANGED cursor

\* handle_reorg_event: the graph goes back to the newest snapshot in the ring
\* at or below n, and the scan to Backfill blocks below that.
HandleReorgEvent(n) ==
    IF AtOrBelow(n) # {}
    THEN /\ RollbackToSnapshotOf(n)
         /\ cursor' = SaturatingSub(current'.block.number, Backfill)
         /\ taken' = {}
    ELSE /\ cursor' = SaturatingSub(n, Backfill)
         /\ UNCHANGED <<storeVars, taken>>

GoOn == pc' = IF batch = {} THEN "poll" ELSE "refresh"

\* current_block_ref fails, which is ignored.
TipUnknown ==
    /\ pc = "tip"
    /\ GoOn
    /\ UNCHANGED <<detectorVars, storeVars, cursor, batch, taken, chainVars>>

\* update_chain and what the loop does with its answer.  A reported rewrite
\* discards the batch.
TipKnown(h) ==
    /\ pc = "tip"
    /\ Answered(h)
    /\ UpdateChain(BlockAt(h))
    /\ \/ /\ event'.kind = "none"
          /\ GoOn
          /\ UNCHANGED <<storeVars, cursor, batch, taken>>
       \/ /\ event'.kind \in {"rollback", "detected"}
          /\ HandleReorgEvent(event'.to)
          /\ pc' = "poll"
          /\ batch' = {}
       \/ /\ event'.kind = "error"
          /\ pc' = "stopped"
          /\ UNCHANGED <<storeVars, cursor, batch, taken>>
       \/ /\ event'.kind = "hung"
          /\ pc' = "hung"
          /\ UNCHANGED <<storeVars, cursor, batch, taken>>
    /\ UNCHANGED chainVars

\* refresh_pools changed an edge: the next snapshot, at the block the node
\* now calls the latest, is published.
RefreshPublishes ==
    /\ pc = "refresh"
    /\ \E b \in {BlockAt(h) : h \in {i \in 1..height : Answered(i)}} \union {NoBlock} :
          Publish([id |-> current.id + 1, block |-> b,
                   seen |-> current.seen \union taken \union batch])
    /\ batch' = {}
    /\ taken' = {}
    /\ pc' = "process"
    /\ UNCHANGED <<detectorVars, cursor, chainVars>>

\* No patch applied and no pool was read again and admitted: nothing is
\* published, and the scan has moved on.
RefreshChangesNothing ==
    /\ pc = "refresh"
    /\ batch' = {}
    /\ taken' = taken \union batch
    /\ pc' = "poll"
    /\ UNCHANGED <<detectorVars, storeVars, cursor, chainVars>>

\* refresh_pools or process_refresh returns an error, which ends run_chain.
Stop ==
    /\ pc \in {"refresh", "process"}
    /\ pc' = "stopped"
    /\ UNCHANGED <<detectorVars, storeVars, cursor, batch, taken, chainVars>>

\* process_refresh detects, routes and trades on the published snapshot.
Process ==
    /\ pc = "process"
    /\ pc' = "poll"
    /\ UNCHANGED <<detectorVars, storeVars, cursor, batch, taken, chainVars>>

Loop ==
    \/ Poll
    \/ TipUnknown
    \/ \E h \in 1..height : TipKnown(h)
    \/ RefreshPublishes
    \/ RefreshChangesNothing
    \/ Process

Next == Loop \/ Stop \/ Grow \/ Reorganise

Spec == Init /\ [][Next]_vars

\* The loop goes on as long as requests are answered; polls that fail are
\* retried without end.
FairSpec == Spec /\ WF_vars(Loop)

-----------------------------------------------------------------------------
(* Properties *)

Covered(S, n) == \A h \in 1..n : \E b \in S : b.number = h

\* Every height up to the cursor has been scanned into the current snapshot,
\* or into the work in progress: discarding a batch, restoring an older
\* snapshot and moving the cursor back always go together, so no height's
\* logs are passed over.
NoHeightSkipped == Covered(current.seen \union taken \union batch, cursor)

\* The current snapshot stays in the bounded ring, also after a rollback to an
\* old one: a second rollback never has less to choose from than the first.
StoreConsistent == InRing(current) /\ Len(ring) <= MaxSnapshots

\* Once the chain rests, the scan catches up with it and stays there (up to
\* the lag of the nodes), unless an error ended the loop: handling reports of
\* rewrites never sets the cursor back for ever.
CatchesUp == <>[](pc \in {"stopped", "hung"} \/ cursor >= height - MaxLag)

\* "Rollback to the common ancestor block" (revised_dex_arb_design.md:277): the
\* snapshot restored after a report belongs to the chain of the new tip.  A tip that is
\* replaced restores the snapshot of the replaced block: the code does not keep this.
OnOneFork(b, c) ==
    \E f \in 1..Len(Forks) :
        \A x \in {b, c} : \E i \in 1..Len(Forks[f]) : Forks[f][i] = x

RestoresAncestor ==
    pc = "tip" /\ current' # current /\ current'.block # NoBlock =>
        OnOneFork(current'.block, chain'[Len(chain')])

RestoredIsCanonical == [][RestoresAncestor]_vars

=============================================================================

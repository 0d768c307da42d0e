---------------------------- MODULE PoolPatches ----------------------------
(***************************************************************************)
(* What becomes of the pools: build_refresh_batch turns the scanned logs   *)
(* into one trigger per pool (src/discovery/event_stream.rs), refresh_pools *)
(* applies patches and reads pools again (src/discovery/mod.rs), and the   *)
(* result is published (src/engine.rs).  Rewrites of the chain are the     *)
(* subject of ChainFollower; here the chain only grows.                    *)
(*                                                                         *)
(* The state of a pool is abstracted to the logs it reflects: it consists  *)
(* of as many parts as a read needs requests, and a part says of each log  *)
(* of the chain how often it is contained.                                 *)
(***************************************************************************)
EXTENDS Naturals, Sequences, FiniteSets

CONSTANTS
    Pools,
    PatchesOf,   \* pool -> what its logs allow: "set" (Sync, Uniswap V3's Swap),
                 \* "add" (the Balancer vault's events), "none" (all others)
    Reads,       \* pool -> requests that a read of its state takes
    Counted,     \* pools (Curve) that are asked for coin after coin until a
                 \* request fails
    MaxLag,      \* bound: blocks a node that answers may be behind the head
    MaxHeight,   \* bound: blocks after the start of the backfill
    MaxLogs,     \* bound: logs of all those blocks
    MaxBlockLogs \* bound: logs of one block

ASSUME PoolsAssumption ==
    /\ IsFiniteSet(Pools)
    /\ PatchesOf \in [Pools -> (SUBSET {"set", "add", "none"}) \ {{}}]
    /\ Reads \in [Pools -> Nat \ {0}]
    /\ Counted \subseteq {p \in Pools : PatchesOf[p] = {"none"} /\ Reads[p] >= 2}
    /\ \A p \in Pools : "add" \in PatchesOf[p] => PatchesOf[p] = {"add"} /\ Reads[p] = 1
    /\ {MaxLag, MaxHeight, MaxLogs, MaxBlockLogs} \subseteq Nat

VARIABLES
    height,    \* of the chain, counted from the start of the backfill
    logs,      \* its logs above that, in their order
    pc,        \* poll, refresh, or stopped: run_chain returned an error
    cursor,    \* poll_from_block
    pools,     \* the pools of the current snapshot
    working,   \* the pools of the snapshot that refresh_pools builds
    toRead,    \* the pools it has yet to read, in its order
    reading,   \* the parts of the first of them that have arrived
    start,     \* ghost: the height when the backfill was decided
    excused    \* ghost: logs that a known weakness has left out

chainVars == <<height, logs>>
refreshVars == <<working, toRead, reading>>
vars == <<chainVars, pc, cursor, pools, refreshVars, start, excused>>

Log == {l \in [pool: Pools, patch: {"set", "add", "none"}, height: 1..MaxHeight] :
            l.patch \in PatchesOf[l.pool]}

Positions == 1..MaxLogs
Part == [Positions -> Nat]
PoolStates == {f \in [Pools -> Seq(Part)] : \A p \in Pools : Len(f[p]) \in 1..Reads[p]}

PoolsTypeOK ==
    /\ height \in 0..MaxHeight
    /\ logs \in Seq(Log) /\ Len(logs) <= MaxLogs
    /\ pc \in {"poll", "refresh", "stopped"}
    /\ cursor \in 0..height
    /\ pools \in PoolStates /\ working \in PoolStates
    /\ toRead \in Seq(Pools)
    /\ reading \in Seq(Part)
    /\ Len(reading) <= IF toRead = <<>> THEN 0 ELSE Reads[Head(toRead)]
    /\ pc = "poll" => toRead = <<>>
    /\ start \in 0..height
    /\ excused \subseteq 1..Len(logs)

-----------------------------------------------------------------------------
(* The chain, and what its nodes say of a pool *)

LogsOf(p) == {l \in 1..Len(logs) : logs[l].pool = p}

\* The logs S, once each
Exactly(S) == [l \in Positions |-> IF l \in S THEN 1 ELSE 0]

\* A part of pool p as of the end of block h
StateAt(p, h) == Exactly({l \in LogsOf(p) : logs[l].height <= h})

\* A node answers that is at most MaxLag behind.
Answers == {h \in 0..height : h + MaxLag >= height}

Running == pc # "stopped"

Grow ==
    /\ Running
    /\ height < MaxHeight
    /\ height' = height + 1
    /\ \E n \in 0..MaxBlockLogs :
          /\ Len(logs) + n <= MaxLogs
          /\ \E new \in [1..n -> {l \in Log : l.height = height'}] : logs' = logs \o new
    /\ UNCHANGED <<pc, cursor, pools, refreshVars, start, excused>>

-----------------------------------------------------------------------------
(* build_refresh_batch and apply_pool_patch *)

\* Slip: the block of the cursor is scanned once more.
ScannedFromCursor(latest) ==
    {l \in 1..Len(logs) : logs[l].height >= cursor /\ logs[l].height <= latest}

\* Logs above the cursor, up to the latest block.
Scanned(latest) == {l \in 1..Len(logs) : logs[l].height > cursor /\ logs[l].height <= latest}

Touched(S) == {logs[l].pool : l \in S}

\* Slip: the first log is kept, whatever follows.
CompetingEqually(p, S) == {l \in S : logs[l].pool = p}

\* upsert_trigger: a log without a patch replaces one with a patch; among equals
\* the first is kept.
Competing(p, S) ==
    LET own == {l \in S : logs[l].pool = p}
        unpatchable == {l \in own : logs[l].patch = "none"}
    IN  IF unpatchable # {} THEN unpatchable ELSE own

\* The map from pools to triggers, each named by its log.
IsTriggers(triggers, S) ==
    \A p \in Touched(S) :
        /\ triggers[p] \in Competing(p, S)
        /\ \A l \in Competing(p, S) : triggers[p] <= l

\* collect_changed_specs: triggers without a patch.
FullRefresh(triggers) == {p \in DOMAIN triggers : logs[triggers[p]].patch = "none"}

\* Slip: every patch is a difference.
PatchedAsDifference(p, l) == [k \in DOMAIN pools[p] |-> [pools[p][k] EXCEPT ![l] = @ + 1]]

\* apply_pool_patch: a "set" patch carries the whole state, an "add" patch a
\* difference.
Patched(p, l) ==
    IF logs[l].patch = "add"
    THEN [k \in DOMAIN pools[p] |-> [pools[p][k] EXCEPT ![l] = @ + 1]]
    ELSE [k \in DOMAIN pools[p] |-> Exactly({m \in LogsOf(p) : m <= l})]

\* The patches of a batch that are neither kept nor made up for by a read.
Passed(S, triggers) ==
    {l \in S : /\ logs[l].patch # "none"
               /\ logs[l].pool \notin FullRefresh(triggers)
               /\ l # triggers[logs[l].pool]}

Orders(S) == {order \in [1..Cardinality(S) -> S] : \A p \in S : \E i \in DOMAIN order : order[i] = p}

-----------------------------------------------------------------------------
(* run_chain *)

\* Bootstrap has read each pool at some block of the backfill.
Init ==
    /\ height \in 0..1 /\ height <= MaxHeight
    /\ \E n \in 0..MaxBlockLogs :
          /\ n <= MaxLogs * height
          /\ logs \in [1..n -> {l \in Log : l.height = height}]
    /\ pc = "poll"
    /\ cursor = 0
    /\ \E at \in [Pools -> 0..height] :
          pools = [p \in Pools |-> [k \in 1..Reads[p] |-> StateAt(p, at[p])]]
    /\ working = pools
    /\ toRead = <<>>
    /\ reading = <<>>
    /\ start = height
    /\ excused = {}

\* Nothing touched a pool: the loop sleeps.
PollQuiet(latest) ==
    /\ pc = "poll"
    /\ latest \in Answers /\ latest > cursor
    /\ Scanned(latest) = {}
    /\ cursor' = latest
    /\ UNCHANGED <<chainVars, pc, pools, refreshVars, start, excused>>

\* The triggers of the batch, and refresh_pools up to its first read.
PollTouched(latest) ==
    LET S == Scanned(latest) IN
    /\ pc = "poll"
    /\ latest \in Answers
    /\ S # {}
    /\ \E triggers \in [Touched(S) -> S] :
          /\ IsTriggers(triggers, S)
          /\ working' = [p \in Pools |->
                            IF p \in Touched(S) \ FullRefresh(triggers)
                            THEN Patched(p, triggers[p]) ELSE pools[p]]
          /\ toRead' \in Orders(FullRefresh(triggers))
          /\ excused' = excused \union Passed(S, triggers)
    /\ cursor' = latest
    /\ pc' = "refresh"
    /\ UNCHANGED <<chainVars, pools, reading, start>>

\* fetch_pool: each request is answered by a node as of its latest block.
ReadPart ==
    /\ pc = "refresh" /\ toRead # <<>>
    /\ LET p == Head(toRead) IN
       /\ Len(reading) < Reads[p]
       /\ \E h \in Answers :
             /\ reading' = Append(reading, StateAt(p, h))
             /\ excused' = excused \union {l \in LogsOf(p) : h < logs[l].height /\ logs[l].height <= cursor}
    /\ UNCHANGED <<chainVars, pc, cursor, pools, working, toRead, start>>

\* All parts have arrived; or a request for a coin failed, which fetch_curve
\* takes for the end of the list.
HasRead(p) == Len(reading) = Reads[p] \/ p \in Counted

\* Slip: a pool is taken with the coins that have arrived.
CompleteAnyway(p) == TRUE

Complete(p) == p \in Counted => Len(reading) >= 2

ReadAdmitted ==
    /\ pc = "refresh" /\ toRead # <<>>
    /\ HasRead(Head(toRead)) /\ Complete(Head(toRead))
    /\ working' = [working EXCEPT ![Head(toRead)] = reading]
    /\ toRead' = Tail(toRead)
    /\ reading' = <<>>
    /\ UNCHANGED <<chainVars, pc, cursor, pools, start, excused>>

\* The pool lacks liquidity, or fewer than two coins: its old state stays.
ReadRefused ==
    /\ pc = "refresh" /\ toRead # <<>>
    /\ HasRead(Head(toRead))
    /\ excused' = excused \union {l \in LogsOf(Head(toRead)) : logs[l].height <= cursor}
    /\ toRead' = Tail(toRead)
    /\ reading' = <<>>
    /\ UNCHANGED <<chainVars, pc, cursor, pools, working, start>>

\* A request that is not for a coin fails, one for the flash loan reserves or the
\* tokens after the last pool included: refresh_pools and run_chain return the
\* error.  So they do when processing fails.
RefreshFails ==
    /\ pc = "refresh"
    /\ pc' = "stopped"
    /\ UNCHANGED <<chainVars, cursor, pools, refreshVars, start, excused>>

\* GraphStore.publish.  Without a changed edge nothing is published, which
\* leaves the pools as they are: a pool with tokens that may be traded always has
\* edges, whatever its state.
Publish ==
    /\ pc = "refresh" /\ toRead = <<>>
    /\ pools' = working
    /\ pc' = "poll"
    /\ UNCHANGED <<chainVars, cursor, refreshVars, start, excused>>

Refresh == ReadPart \/ ReadAdmitted \/ ReadRefused \/ RefreshFails \/ Publish

Next ==
    \/ Grow
    \/ \E latest \in 0..height : PollQuiet(latest) \/ PollTouched(latest)
    \/ Refresh

Spec == Init /\ [][Next]_vars

-----------------------------------------------------------------------------
(* Properties *)

\* Every scanned log is reflected by every part of its pool that is kept,
\* unless it followed another patch of its batch, the pool was read from a node
\* behind the cursor, or the read was refused: neither the mix of patches and
\* reads in a batch nor logs that arrive during the reads lose any other.
OnlyExcusedMissing ==
    pc = "poll" =>
        \A p \in Pools : \A l \in LogsOf(p) \ excused :
            logs[l].height <= cursor => \A k \in DOMAIN pools[p] : pools[p][k][l] >= 1

\* A difference that was logged after the start is added at most once, and one
\* from before it, which bootstrap may have read already, at most once more.
AddedOnce ==
    \A p \in Pools : PatchesOf[p] = {"add"} =>
        \A l \in LogsOf(p) :
            pools[p][1][l] <= (IF logs[l].height <= start THEN 2 ELSE 1)

\* Weaknesses do not add up where a log or a read carries the whole state: once
\* the last scanned log of a pool is not excused, the pool reflects all logs up
\* to it, those that earlier batches have left out included.
LastLogHeals ==
    pc = "poll" =>
        \A p \in Pools : "add" \notin PatchesOf[p] =>
            \A l \in LogsOf(p) \ excused :
                LET scanned == {m \in LogsOf(p) : logs[m].height <= cursor}
                IN  l \in scanned /\ (\A m \in scanned : m <= l) =>
                        \A m \in scanned : \A k \in DOMAIN pools[p] : pools[p][k][m] = 1

\* "Sync: the change of the reserves is reflected" (revised_dex_arb_design.md:267):
\* between two rounds a pool whose logs carry its state has the state of its last
\* scanned log.  Of two patches in one batch the first is applied: the code does not
\* keep this.
TouchedIsCurrent ==
    pc = "poll" =>
        \A p \in Pools : PatchesOf[p] = {"set"} =>
            \A l \in LogsOf(p) : logs[l].height <= cursor => pools[p][1][l] = 1

\* "The state of a pool is updated all or nothing" (revised_dex_arb_design.md:284):
\* every published pool has all its parts, and they reflect the same logs.  A failed
\* request for a coin ends the list of coins: the code does not keep this.
TransactionalUpdate ==
    \A p \in Pools :
        /\ Len(pools[p]) = Reads[p]
        /\ \A k \in DOMAIN pools[p] : pools[p][k] = pools[p][1]

=============================================================================

---------------------------- MODULE PoolBootstrap ----------------------------
(***************************************************************************)
(* bootstrap of src/discovery/mod.rs: from the pools the factories list,   *)
(* the pools of the first snapshot are made out of the cache file, reads   *)
(* of the pools (src/discovery/pool_fetcher.rs) and a replay of the logs   *)
(* since the file was written.  The process may die anywhere and starts    *)
(* again with the file it left.                                            *)
(*                                                                         *)
(* The state of a pool is named by the block of the last log it reflects.  *)
(***************************************************************************)
EXTENDS Naturals, FiniteSets

CONSTANTS
    Pools,
    Configs,       \* what the pools may be: [kind: pool -> kind, priority: set of
                   \* pools, patched: pools whose logs carry their state, wavering:
                   \* pools that every second log drains]
    FetchUnseen,   \* DISCOVERY_FETCH_UNSEEN_POOLS
    ReplayMax,     \* BOOTSTRAP_REPLAY_MAX_BLOCKS
    Backfill,      \* event_backfill_blocks
    MaxLag,        \* bound: blocks a node that answers may be behind the head
    MaxHeight,     \* bound: blocks of the chain
    MaxLogs        \* bound: logs of all pools

Kinds == {"v2", "aerodrome_v2", "v3", "trader_joe_lb", "curve", "balancer"}
HighCardinality == {"v2", "aerodrome_v2", "v3"}

ASSUME BootstrapAssumption ==
    /\ IsFiniteSet(Pools)
    /\ Configs \subseteq [kind: [Pools -> Kinds], priority: SUBSET Pools,
                          patched: SUBSET Pools, wavering: SUBSET Pools]
    /\ FetchUnseen \in BOOLEAN
    /\ {ReplayMax, Backfill, MaxLag, MaxLogs} \subseteq Nat
    /\ MaxHeight \in Nat \ {0}

VARIABLES
    config,     \* the member of Configs
    height,     \* of the chain
    logs,       \* pool -> the blocks with a log of it
    file,       \* the pool state cache
    pc,         \* down, what is read next (a kind, or all others), replay, replay_fetch,
                \* tokens, running
    known,      \* the pools that the factory scan lists
    latest,     \* latest_at_bootstrap; 0 when it could not be read
    anchor,     \* cache_anchor_block; 0 when there is none
    replay,     \* replay_cached_pools
    loaded,     \* pool_state_cache_loaded
    otherFailed,\* skipped_other > 0
    pools,      \* the pools so far
    skipped,    \* skipped_pool_cache: pool -> why it was skipped
    toFetch,    \* the pools to be read
    excused     \* ghost: pool -> its logs that a known weakness has left out

chainVars == <<config, height, logs>>
planVars == <<known, latest, anchor, replay, loaded, otherFailed>>
vars == <<chainVars, file, pc, planVars, pools, skipped, toFetch, excused>>

Absent == [present |-> FALSE]
Pool(asof, label, stale) == [present |-> TRUE, asof |-> asof, label |-> label, stale |-> stale]
State == [present: {TRUE}, asof: 0..MaxHeight, label: 0..MaxHeight, stale: BOOLEAN]
PoolMap == [Pools -> State \union {Absent}]
SkipMap == [Pools -> {"no", "zero", "failed"}]
NoFile == [exists |-> FALSE]
File == [exists: {TRUE}, pools: PoolMap, skipped: SkipMap]

In(map) == {p \in Pools : map[p].present}

\* The types of the variables.
BootTypeOK ==
    /\ config \in Configs
    /\ height \in 0..MaxHeight
    /\ logs \in [Pools -> SUBSET (1..height)]
    /\ file \in File \union {NoFile}
    /\ pc \in {"v2", "aerodrome_v2", "v3", "trader_joe_lb", "other", "down", "replay", "replay_fetch", "tokens", "running"}
    /\ known \subseteq Pools
    /\ latest \in 0..height /\ anchor \in 0..height
    /\ {replay, loaded, otherFailed} \subseteq BOOLEAN
    /\ pools \in PoolMap /\ skipped \in SkipMap
    /\ toFetch \subseteq known
    /\ In(pools) \subseteq known
    /\ pc \in {"down", "replay", "tokens", "running"} => toFetch = {}
    /\ excused \in [Pools -> SUBSET (1..height)]

-----------------------------------------------------------------------------
(* The chain and its nodes *)

Answers == {h \in 0..height : h + MaxLag >= height}

UpTo(p, h) == {l \in logs[p] : l <= h}
LastLog(p, h) == CHOOSE l \in UpTo(p, h) \union {0} : \A m \in UpTo(p, h) : m <= l

\* has_usable_liquidity: in the state after the log of block h
Liquid(p, h) == p \in config.wavering => Cardinality(UpTo(p, h)) % 2 = 1

LogCount(f) == Cardinality(UNION {{p} \X f[p] : p \in Pools})

Grow ==
    /\ height < MaxHeight
    /\ height' = height + 1
    /\ \E S \in SUBSET Pools :
          logs' = [p \in Pools |-> IF p \in S THEN logs[p] \union {height'} ELSE logs[p]]
    /\ LogCount(logs') <= MaxLogs
    /\ UNCHANGED <<config, file, pc, planVars, pools, skipped, toFetch, excused>>

-----------------------------------------------------------------------------
(* The cache file *)

\* from_parts and an atomic save, which may fail: the start goes on.
Checkpoint(poolMap, skipMap) ==
    file' \in {file, [exists |-> TRUE, pools |-> poolMap, skipped |-> skipMap]}

Labels(map) == {map[p].label : p \in In(map)} \ {0}

\* Slip: the newest label, as if all pools were as new.
AnchorOfNewest(map) ==
    IF Labels(map) = {} THEN 0 ELSE CHOOSE b \in Labels(map) : \A c \in Labels(map) : c <= b

\* anchor_block: the least block any pool of the file is labelled with
Anchor(map) ==
    IF Labels(map) = {} THEN 0 ELSE CHOOSE b \in Labels(map) : \A c \in Labels(map) : b <= c

Nothing == [p \in Pools |-> Absent]
NoneSkipped == [p \in Pools |-> "no"]

Exit ==
    /\ pc' = "down"
    /\ pools' = Nothing
    /\ skipped' = NoneSkipped
    /\ toFetch' = {}
    /\ latest' = 0 /\ anchor' = 0
    /\ replay' = FALSE /\ loaded' = FALSE /\ otherFailed' = FALSE

Init ==
    /\ config \in Configs
    /\ height = 1
    /\ logs = [p \in Pools |-> {}]
    /\ file = NoFile
    /\ pc = "down"
    /\ known = {}
    /\ latest = 0 /\ anchor = 0
    /\ replay = FALSE /\ loaded = FALSE /\ otherFailed = FALSE
    /\ pools = Nothing
    /\ skipped = NoneSkipped
    /\ toFetch = {}
    /\ excused = [p \in Pools |-> {}]

-----------------------------------------------------------------------------
(* The plan: what is kept, read, or left out *)

Cached == IF file.exists THEN file.pools ELSE Nothing

Tombstones == IF file.exists THEN file.skipped ELSE NoneSkipped

\* skipped_pool_cache_applies_to_spec: a pool with priority is kept away only
\* when it was empty.
SkipApplies(p) == p \in config.priority => Tombstones[p] = "zero"

\* Pools of the file that an admission takes over: fresh ones with liquidity
Admitted(p, fresh) ==
    Cached[p].present /\ Liquid(p, Cached[p].asof) /\ ~ Cached[p].stale /\ p \in fresh

\* Others with liquidity are left to the replay, unless marked stale, or read.
Refreshable(p, fresh) == Cached[p].present /\ Liquid(p, Cached[p].asof) /\ ~ Admitted(p, fresh)

Unseen(p) == ~ FetchUnseen /\ file.exists /\ config.kind[p] \in HighCardinality
                /\ p \notin config.priority

\* bootstrap up to the first read.  `fresh` are the pools refreshed within the
\* staleness timeout, `active` the skipped ones whose entries have not expired.
\* What is neither kept nor read is left out of this start.
Load ==
    /\ pc = "down"
    /\ latest' \in Answers \union {0}
    /\ known' \in {S \in SUBSET Pools : known \subseteq S}
    /\ loaded' = file.exists
    /\ anchor' = Anchor(Cached)
    /\ replay' = (anchor' > 0 /\ latest' <= anchor' + ReplayMax)
    /\ \E fresh \in SUBSET In(Cached), active \in SUBSET {p \in Pools : Tombstones[p] # "no"} :
          LET replayed(p) == replay' /\ Refreshable(p, fresh) /\ ~ Cached[p].stale
          IN  /\ pools' = [p \in Pools |->
                    IF p \in known' /\ (Admitted(p, fresh) \/ replayed(p)) THEN Cached[p] ELSE Absent]
              /\ skipped' = [p \in Pools |->
                    IF p \in active /\ (p \in known' /\ ~ Cached[p].present => SkipApplies(p))
                    THEN Tombstones[p] ELSE "no"]
              /\ toFetch' = {p \in known' :
                    IF Cached[p].present THEN Refreshable(p, fresh) /\ ~ replayed(p)
                    ELSE ~ (p \in active /\ SkipApplies(p)) /\ ~ Unseen(p)}
    /\ pc' = "v2"
    /\ UNCHANGED <<chainVars, file, otherFailed, excused>>

-----------------------------------------------------------------------------
(* The reads, kind by kind *)

Failed == MaxHeight + 1
Outcomes == Answers \union {Failed}

Read(p, h) == Pool(LastLog(p, h), latest, FALSE)

\* A read that fails leaves a tombstone; so does an empty pool of these kinds.
ReadOk(p, o) == o # Failed /\ Liquid(p, o)
Tombstone(p, o) == IF o # Failed /\ config.kind[p] \in HighCardinality THEN "zero" ELSE "failed"

Monus(a, b) == IF a > b THEN a - b ELSE 0
Larger(a, b) == IF a > b THEN a ELSE b

\* A node may answer with a state older than the label the pool is given, here
\* or by the replay.
Behind(p, o) == IF o = Failed THEN {} ELSE {l \in logs[p] : o < l /\ l <= Larger(latest, anchor)}

Due(kind) == {p \in toFetch : config.kind[p] = kind}

\* Slip: every batch is followed by a checkpoint.
SavesIntermediateAlways == TRUE

SavesIntermediate == FetchUnseen \/ ~ loaded

\* A batch: whatever a multicall, or the calls made one by one after it failed,
\* say of each pool.
Batch(kind, then) ==
    /\ pc = kind
    /\ \E outcome \in [Due(kind) -> Outcomes] :
          /\ pools' = [p \in Pools |->
                IF p \in Due(kind) /\ ReadOk(p, outcome[p]) THEN Read(p, outcome[p]) ELSE pools[p]]
          /\ skipped' = [p \in Pools |->
                IF p \notin Due(kind) THEN skipped[p]
                ELSE IF ReadOk(p, outcome[p]) THEN "no" ELSE Tombstone(p, outcome[p])]
          /\ excused' = [p \in Pools |->
                IF p \in Due(kind) THEN excused[p] \union Behind(p, outcome[p]) ELSE excused[p]]
    /\ IF Due(kind) # {} /\ SavesIntermediate THEN Checkpoint(pools', skipped') ELSE UNCHANGED file
    /\ toFetch' = toFetch \ Due(kind)
    /\ pc' = then
    /\ UNCHANGED <<chainVars, planVars>>

FetchV2Batch == Batch("v2", "aerodrome_v2")
FetchAerodromeV2Batch == Batch("aerodrome_v2", "v3")
FetchV3Batch == Batch("v3", "trader_joe_lb")
FetchTraderJoeLbBatch == Batch("trader_joe_lb", "other")

\* An answer that cannot be decoded ends the batch, and bootstrap with it.
TraderJoeLbUndecodable ==
    /\ pc = "trader_joe_lb" /\ Due("trader_joe_lb") # {}
    /\ Exit
    /\ UNCHANGED <<chainVars, file, known, excused>>

\* Curve and Balancer, one pool at a time: fetch_pool_with_retries and what
\* becomes of it.  Every 500th is followed by a checkpoint.
FetchOther(p, o, rejected) ==
    /\ pc = "other" /\ p \in toFetch
    /\ pools' = IF ReadOk(p, o) /\ ~ rejected THEN [pools EXCEPT ![p] = Read(p, o)] ELSE pools
    /\ skipped' = IF o = Failed THEN [skipped EXCEPT ![p] = "failed"]
                  ELSE IF ReadOk(p, o) /\ ~ rejected THEN [skipped EXCEPT ![p] = "no"]
                  ELSE skipped
    /\ excused' = [excused EXCEPT ![p] = @ \union Behind(p, o)]
    /\ Checkpoint(pools', skipped')
    /\ toFetch' = toFetch \ {p}
    /\ otherFailed' = (otherFailed \/ o = Failed)
    /\ UNCHANGED <<chainVars, pc, known, latest, anchor, replay, loaded>>

\* A pool without balances is not admitted and leaves no trace.
FetchCurve == \E p \in toFetch, o \in Outcomes : config.kind[p] = "curve" /\ FetchOther(p, o, FALSE)

\* Nor does a paused one; when the pause cannot be read the pool is not paused.
FetchBalancer ==
    \E p \in toFetch, o \in Outcomes, paused \in BOOLEAN :
        config.kind[p] = "balancer" /\ FetchOther(p, o, paused)

PostFetch ==
    /\ pc = "other" /\ toFetch = {}
    /\ IF In(pools) # {} \/ otherFailed THEN Checkpoint(pools, skipped) ELSE UNCHANGED file
    /\ pc' = IF replay THEN "replay" ELSE "tokens"
    /\ UNCHANGED <<chainVars, planVars, pools, skipped, toFetch, excused>>

-----------------------------------------------------------------------------
(* The replay *)

\* mark_replayed_pools_current
Current(map, block) ==
    [p \in Pools |-> IF map[p].present
                     THEN Pool(map[p].asof, Larger(map[p].label, block), FALSE)
                     ELSE Absent]

\* A pool read while the block number was unknown is labelled 0 and does not
\* count for the anchor: its logs before that are not looked for.
Unlabelled(p, block) ==
    IF pools[p].present /\ pools[p].label = 0
    THEN {l \in logs[p] : pools[p].asof < l /\ l <= block} ELSE {}

\* There is nothing to replay.
ReplayNothing ==
    /\ pc = "replay" /\ latest <= anchor
    /\ pools' = Current(pools, anchor)
    /\ excused' = [p \in Pools |-> excused[p] \union Unlabelled(p, anchor)]
    /\ pc' = "tokens"
    /\ UNCHANGED <<chainVars, file, planVars, skipped, toFetch>>

\* The logs of the range that a node has; of a pool's patches the oldest is
\* taken, a pool without patches is read again.
ReplayLogs ==
    /\ pc = "replay" /\ latest > anchor
    /\ \E h \in Answers :
          LET range(p) == {l \in logs[p] : l > Monus(anchor, Backfill) /\ l <= latest}
              seen(p) == {l \in range(p) : l <= h}
              first(p) == CHOOSE l \in seen(p) : \A m \in seen(p) : l <= m
              patch == {p \in In(pools) \intersect config.patched : seen(p) # {}}
          IN  /\ pools' = [p \in Pools |->
                    IF p \in patch THEN Pool(first(p), latest, pools[p].stale) ELSE pools[p]]
              /\ toFetch' = {p \in In(pools) \ config.patched : seen(p) # {}}
              /\ excused' = [p \in Pools |-> excused[p] \union (range(p) \ seen(p))
                    \union Unlabelled(p, latest)
                    \union IF p \in patch THEN range(p) \ {first(p)} ELSE {}]
    /\ pc' = "replay_fetch"
    /\ UNCHANGED <<chainVars, file, planVars, skipped>>

\* fetch_replay_full_refresh_pools; then every pool is labelled as current, but
\* those that could not be read are marked stale.
ReplayFetch ==
    /\ pc = "replay_fetch"
    /\ \E outcome \in [toFetch -> Outcomes] :
          LET good == {p \in toFetch : ReadOk(p, outcome[p])}
              after == Current([p \in Pools |-> IF p \in good THEN Read(p, outcome[p]) ELSE pools[p]],
                               latest)
          IN  /\ pools' = [p \in Pools |-> IF p \in toFetch \ good
                                           THEN Pool(after[p].asof, after[p].label, TRUE)
                                           ELSE after[p]]
              /\ skipped' = [p \in Pools |->
                    IF p \notin toFetch THEN skipped[p]
                    ELSE IF p \in good THEN "no" ELSE Tombstone(p, outcome[p])]
              /\ excused' = [p \in Pools |->
                    IF p \in toFetch THEN excused[p] \union Behind(p, outcome[p]) ELSE excused[p]]
    /\ toFetch' = {}
    /\ Checkpoint(pools', skipped')
    /\ pc' = "tokens"
    /\ UNCHANGED <<chainVars, planVars>>

\* The logs cannot be had, or an answer cannot be decoded.
ReplayFails ==
    /\ pc \in {"replay", "replay_fetch"} /\ latest > anchor
    /\ Exit
    /\ UNCHANGED <<chainVars, file, known, excused>>

-----------------------------------------------------------------------------
(* The end of bootstrap, and of the process *)

\* discover_tokens, the snapshot and the last save
Finish ==
    /\ pc = "tokens"
    /\ Checkpoint(pools, skipped)
    /\ pc' = "running"
    /\ UNCHANGED <<chainVars, planVars, pools, skipped, toFetch, excused>>

\* An error anywhere, or the end of the process
Crash ==
    /\ pc # "down"
    /\ Exit
    /\ UNCHANGED <<chainVars, file, known, excused>>

Next ==
    \/ Grow
    \/ Load
    \/ FetchV2Batch \/ FetchAerodromeV2Batch \/ FetchV3Batch
    \/ FetchTraderJoeLbBatch \/ TraderJoeLbUndecodable
    \/ FetchCurve \/ FetchBalancer
    \/ PostFetch
    \/ ReplayNothing \/ ReplayLogs \/ ReplayFetch \/ ReplayFails
    \/ Finish
    \/ Crash

Spec == Init /\ [][Next]_vars

-----------------------------------------------------------------------------
(* Properties *)

Truthful(map) ==
    \A p \in In(map) : ~ map[p].stale =>
        {l \in logs[p] : map[p].asof < l /\ l <= map[p].label} \subseteq excused[p]

\* Whether a pool comes from the file, a read or the replay: unless it is marked
\* stale, its state reflects every log up to the block it is labelled with, in
\* the file and at the end of a start, but for the logs a node did not have
\* when it was asked and those a replay passed over for an older patch.
LabelIsTrue ==
    /\ file.exists => Truthful(file.pools)
    /\ pc = "running" => Truthful(pools)

\* A pool that no later start looks for (of a kind with many pools, without
\* priority, when unseen pools are not read) leaves the file only because a read
\* failed or found it empty, or because it was cached without liquidity: however
\* starts are cut short, no checkpoint loses one.
CachedStays ==
    [][\A p \in Pools :
          /\ file.exists /\ file.pools[p].present /\ Liquid(p, file.pools[p].asof)
          /\ config.kind[p] \in HighCardinality /\ ~ FetchUnseen
          => file'.pools[p].present \/ file'.skipped[p] # "no"]_vars

=============================================================================

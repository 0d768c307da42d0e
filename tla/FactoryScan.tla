----------------------------- MODULE FactoryScan -----------------------------
(***************************************************************************)
(* scan_all of src/discovery/factory_scanner.rs: at every start the pools  *)
(* of the configured factories are listed, going on from a cache file.     *)
(* Each factory creates pools one after the other; a pool is named by its  *)
(* position.  A request is answered by a node that may be behind the head, *)
(* and the process may die between any two steps.                          *)
(***************************************************************************)
EXTENDS Naturals, Sequences, FiniteSets

CONSTANTS
    Configs,        \* the lists of DEX kinds that settings.dexes may hold
    Seeds,          \* positions of the pools of configured token pairs
    CallChunk,      \* calls of one multicall
    LogChunk,       \* blocks of one request for logs
    MaxRetries,     \* DISCOVERY_LOG_MAX_RETRIES
    MaxLag,         \* bound: blocks a node that answers may be behind the head
    MaxHeight,      \* bound: blocks of the chain
    MaxPools        \* bound: pools of one factory

Kinds == {"v2", "solidly", "slipstream", "lb", "curve", "v3", "balancer", "lb_pairs"}

ASSUME ScanAssumption ==
    /\ Configs \subseteq Seq(Kinds)
    /\ Seeds \subseteq Nat
    /\ {CallChunk, LogChunk} \subseteq Nat \ {0}
    /\ {MaxRetries, MaxLag, MaxHeight, MaxPools} \subseteq Nat

NoEntry == [pools |-> {}, cached |-> FALSE]
Idle == [at |-> 1]

VARIABLES
    config,     \* settings.dexes
    height,     \* of the chain
    born,       \* DEX -> the blocks in which its pools were created
    file,       \* the cache file: DEX -> CachedDexScan
    pc,         \* down, dex: a DEX comes next, scan or seed: one is being scanned, done
    latest,     \* block number read at the start
    cache,      \* DiscoveryCache in memory
    next,       \* the DEX whose turn it is
    scan,       \* the progress of its scan
    excused     \* ghost: pools asked for in vain because a node was behind

chainVars == <<height, born>>
vars == <<config, chainVars, file, pc, latest, cache, next, scan, excused>>

DEX == 1..Len(config)
FoundPool == [id: 1..MaxPools, priority: BOOLEAN]
Entry == [cached: {TRUE}, latest: 0..MaxHeight, count: 0..MaxPools, pools: SUBSET FoundPool]
Scan == [at: Nat, start: Nat, target: Nat, by: {"multicall", "sequential", "logs", "pairs"},
         size: 1..LogChunk, retries: 0..MaxRetries, found: SUBSET FoundPool]

\* The types of the variables.
ScanTypeOK ==
    /\ config \in Configs
    /\ height \in 0..MaxHeight
    /\ \A d \in DEX : born[d] \in Seq(1..height) /\ Len(born[d]) <= MaxPools
    /\ \A d \in DEX : file[d] \in Entry \union {NoEntry} /\ cache[d] \in Entry \union {NoEntry}
    /\ pc \in {"down", "dex", "scan", "seed", "done"}
    /\ latest \in 0..height
    /\ next \in 1..(Len(config) + 1)
    /\ scan \in Scan \union {Idle}
    /\ (pc \in {"scan", "seed"}) <=> (scan # Idle)
    /\ excused \in [DEX -> SUBSET (1..MaxPools)]

-----------------------------------------------------------------------------
(* The chain and its nodes *)

Answers == {h \in 0..height : h + MaxLag >= height}

\* The pools of DEX d that a node at block h knows are the first ones.
Known(d, h) == Cardinality({i \in DOMAIN born[d] : born[d][i] <= h})

Grow ==
    /\ height < MaxHeight
    /\ height' = height + 1
    /\ \E creators \in SUBSET {d \in DEX : Len(born[d]) < MaxPools} :
          born' = [d \in DEX |-> IF d \in creators THEN Append(born[d], height') ELSE born[d]]
    /\ UNCHANGED <<config, file, pc, latest, cache, next, scan, excused>>

-----------------------------------------------------------------------------
(* The cache *)

\* Slip: of two entries for a pool the one without priority stays.
DedupForgetsPriority(pools) == {p \in pools : ~ p.priority \/ [p EXCEPT !.priority = FALSE] \notin pools}

\* dedup_pools: of two entries for a pool the one with priority stays.
Dedup(pools) == {p \in pools : p.priority \/ [p EXCEPT !.priority = TRUE] \notin pools}

\* CachedDexScan::matches; cached_pools keeps the pools even when it fails.
Matches(d) == cache[d].cached /\ cache[d].latest <= latest

\* from_scan, and the save after each DEX: it is made when the environment asks
\* for it, and may fail unnoticed.
Finish(d, pools, count) ==
    /\ cache' = [cache EXCEPT
            ![d] = [cached |-> TRUE, latest |-> latest, count |-> count, pools |-> Dedup(pools)]]
    /\ file' \in {file, cache'}
    /\ next' = d + 1
    /\ scan' = Idle
    /\ pc' = "dex"

\* An error ends scan_all and bootstrap with it, and the process exits.
Exit ==
    /\ pc' = "down"
    /\ scan' = Idle
    /\ cache' = [d \in DEX |-> NoEntry]
    /\ next' = 1

Init ==
    /\ config \in Configs
    /\ height = 0
    /\ born = [d \in DEX |-> <<>>]
    /\ file = [d \in DEX |-> NoEntry]
    /\ pc = "down"
    /\ latest = 0
    /\ cache = [d \in DEX |-> NoEntry]
    /\ next = 1
    /\ scan = Idle
    /\ excused = [d \in DEX |-> {}]

\* The process starts, learns the block number and loads the file.
Start ==
    /\ pc = "down"
    /\ latest' \in Answers
    /\ cache' = file
    /\ next' = 1
    /\ pc' = "dex"
    /\ UNCHANGED <<config, chainVars, file, scan, excused>>

-----------------------------------------------------------------------------
(* A scan by count, by logs, or by configured pairs begins *)

Turn(d, kind) == pc = "dex" /\ d = next /\ d \in DEX /\ config[d] = kind

FirstUnscanned(d, len) ==
    IF ~ Matches(d) THEN 1 ELSE IF cache[d].count < len THEN cache[d].count + 1 ELSE len + 1

\* A cache that is complete is returned as it is, its cursor set to the length
\* the node reports; otherwise the rest is listed.
ByCount(d, by) ==
    \E len \in {Known(d, h) : h \in Answers} :
        /\ IF Matches(d) /\ cache[d].count >= len
           THEN Finish(d, cache[d].pools, len)
           ELSE /\ scan' = [at |-> FirstUnscanned(d, len), start |-> FirstUnscanned(d, len),
                            target |-> len, by |-> by, size |-> LogChunk, retries |-> 0,
                            found |-> {}]
                /\ pc' = "scan"
                /\ UNCHANGED <<cache, file, next>>
        /\ UNCHANGED <<config, chainVars, latest, excused>>

ScanV2(d) == Turn(d, "v2") /\ ByCount(d, "multicall")
ScanSolidly(d) == Turn(d, "solidly") /\ ByCount(d, "multicall")
ScanSlipstream(d) == Turn(d, "slipstream") /\ ByCount(d, "multicall")
ScanTraderJoe(d) == Turn(d, "lb") /\ ByCount(d, "multicall")
ScanCurve(d) == Turn(d, "curve") /\ ByCount(d, "multicall")

\* get_logs_chunked from the block after the cached one to the latest
ByLogs(d) ==
    /\ scan' = [at |-> IF Matches(d) THEN cache[d].latest + 1 ELSE 1, start |-> 1,
                target |-> latest, by |-> "logs", size |-> LogChunk, retries |-> 0,
                found |-> {}]
    /\ pc' = "scan"
    /\ UNCHANGED <<config, chainVars, file, latest, cache, next, excused>>

ScanV3(d) == Turn(d, "v3") /\ ByLogs(d)
ScanBalancer(d) == Turn(d, "balancer") /\ ByLogs(d)

\* The configured pairs are asked for anew unless this block has been done.
ScanPairs(d) ==
    /\ Turn(d, "lb_pairs")
    /\ IF Matches(d) /\ cache[d].latest = latest
       THEN Finish(d, cache[d].pools, Cardinality(cache[d].pools))
       ELSE /\ scan' = [at |-> 1, start |-> 1, target |-> 0, by |-> "pairs",
                        size |-> LogChunk, retries |-> 0, found |-> {}]
            /\ pc' = "seed"
            /\ UNCHANGED <<cache, file, next>>
    /\ UNCHANGED <<config, chainVars, latest, excused>>

-----------------------------------------------------------------------------
(* The requests of a scan *)

Scanning(by) == pc = "scan" /\ scan.by = by /\ scan.at <= scan.target

Listed(ids, priority) == {[id |-> i, priority |-> priority] : i \in ids}

\* A multicall: calls that fail are left out.
CallsAnswered(priority) ==
    /\ Scanning("multicall")
    /\ \E h \in Answers :
          LET ids == {i \in scan.at..scan.target : i < scan.at + CallChunk}
              known == {i \in ids : i <= Known(next, h)}
          IN  /\ scan' = [scan EXCEPT !.found = @ \union Listed(known, priority),
                                      !.at = @ + CallChunk]
              /\ excused' = [excused EXCEPT ![next] = @ \union (ids \ known)]
    /\ UNCHANGED <<config, chainVars, file, pc, latest, cache, next>>

\* Slip: the answered calls are not made again although their answers are lost.
CallsFailHalfway ==
    /\ Scanning("multicall")
    /\ scan' = [scan EXCEPT !.by = "sequential", !.found = {}]
    /\ UNCHANGED <<config, chainVars, file, pc, latest, cache, next, excused>>

\* Multicalls are disabled, or one fails: all is asked again, call by call.
CallsFail ==
    /\ Scanning("multicall")
    /\ scan' = [scan EXCEPT !.by = "sequential", !.at = scan.start, !.found = {}]
    /\ UNCHANGED <<config, chainVars, file, pc, latest, cache, next, excused>>

OneCallAnswered(priority) ==
    /\ Scanning("sequential")
    /\ \E h \in Answers : scan.at <= Known(next, h)
    /\ scan' = [scan EXCEPT !.found = @ \union Listed({scan.at}, priority), !.at = @ + 1]
    /\ UNCHANGED <<config, chainVars, file, pc, latest, cache, next, excused>>

\* The request fails, or the node does not know the position yet.
OneCallFails ==
    /\ Scanning("sequential")
    /\ Exit
    /\ UNCHANGED <<config, chainVars, file, latest, excused>>

Lists(priority) == CallsAnswered(priority) \/ CallsFail \/ OneCallAnswered(priority) \/ OneCallFails

ListV2Pairs == pc = "scan" /\ config[next] = "v2" /\ Lists(FALSE)
ListSolidlyPools == pc = "scan" /\ config[next] = "solidly" /\ Lists(FALSE)
ListSlipstreamPools == pc = "scan" /\ config[next] = "slipstream" /\ Lists(TRUE)
ListTraderJoePairs == pc = "scan" /\ config[next] = "lb" /\ Lists(FALSE)
ListCurvePools == pc = "scan" /\ config[next] = "curve" /\ Lists(FALSE)

LastOfChunk == IF scan.at + scan.size - 1 < scan.target THEN scan.at + scan.size - 1 ELSE scan.target

\* The blocks of a request; it is answered with the logs the node has of them,
\* and the next one asks for twice as many blocks.
LogsAnswered ==
    /\ Scanning("logs")
    /\ \E h \in Answers :
          LET created == {i \in DOMAIN born[next] : born[next][i] \in scan.at..LastOfChunk}
              known == {i \in created : born[next][i] <= h}
          IN  /\ scan' = [scan EXCEPT
                    !.found = @ \union Listed(known, FALSE),
                    !.at = LastOfChunk + 1,
                    !.retries = 0,
                    !.size = IF 2 * @ < LogChunk THEN 2 * @ ELSE LogChunk]
              /\ excused' = [excused EXCEPT ![next] = @ \union (created \ known)]
    /\ UNCHANGED <<config, chainVars, file, pc, latest, cache, next>>

\* Fewer blocks are asked for, down to the smallest range; that one is tried
\* again only when the error speaks of its size.
LogsFail ==
    /\ Scanning("logs")
    /\ scan.retries < MaxRetries
    /\ scan' = [scan EXCEPT
            !.size = IF @ >= 2 THEN @ \div 2 ELSE 1,
            !.retries = @ + 1]
    /\ UNCHANGED <<config, chainVars, file, pc, latest, cache, next, excused>>

LogsGiveUp ==
    /\ Scanning("logs")
    /\ scan.retries = MaxRetries \/ scan.size = 1
    /\ Exit
    /\ UNCHANGED <<config, chainVars, file, latest, excused>>

-----------------------------------------------------------------------------
(* The end of a scan *)

Found == cache[next].pools \union scan.found
Count == IF scan.by = "logs" THEN 0 ELSE scan.target

\* should_refresh_configured_seeds
WantsSeeds(d) == config[d] \in {"solidly", "slipstream", "v3"} /\ ~ cache[d].cached

ListingDone ==
    /\ pc = "scan" /\ scan.at > scan.target
    /\ IF WantsSeeds(next)
       THEN pc' = "seed" /\ UNCHANGED <<file, cache, next, scan>>
       ELSE Finish(next, Found, Count)
    /\ UNCHANGED <<config, chainVars, latest, excused>>

\* The pools of the configured tokens, pair by pair, as the factory knows them:
\* they get priority.
SeedsAt(h) == Listed({i \in Seeds : i <= Known(next, h)}, TRUE)

AddSeeds(kind) ==
    /\ pc = "seed" /\ config[next] = kind
    /\ \E h \in Answers : Finish(next, Found \union SeedsAt(h), Count)
    /\ UNCHANGED <<config, chainVars, latest, excused>>

SeedSolidly == AddSeeds("solidly")
SeedSlipstream == AddSeeds("slipstream")
SeedV3 == AddSeeds("v3")

\* The pairs replace what was cached; one may be ignored for routing by now.
SeedTraderJoe ==
    /\ pc = "seed" /\ config[next] = "lb_pairs"
    /\ \E h \in Answers : \E pairs \in SUBSET SeedsAt(h) : Finish(next, pairs, 0)
    /\ UNCHANGED <<config, chainVars, latest, excused>>

SeedsFail ==
    /\ pc = "seed"
    /\ Exit
    /\ UNCHANGED <<config, chainVars, file, latest, excused>>

\* All DEXes are done, and the cache is saved unless it was before or that fails.
End ==
    /\ pc = "dex" /\ next > Len(config)
    /\ file' \in {file, cache}
    /\ pc' = "done"
    /\ UNCHANGED <<config, chainVars, latest, cache, next, scan, excused>>

\* The process dies, or is stopped after the start.
Crash ==
    /\ pc # "down"
    /\ Exit
    /\ UNCHANGED <<config, chainVars, file, latest, excused>>

Begins(d) ==
    \/ ScanV2(d) \/ ScanSolidly(d) \/ ScanSlipstream(d) \/ ScanTraderJoe(d) \/ ScanCurve(d)
    \/ ScanV3(d) \/ ScanBalancer(d) \/ ScanPairs(d)

Next ==
    \/ Grow
    \/ Start
    \/ \E d \in DEX : Begins(d)
    \/ ListV2Pairs \/ ListSolidlyPools \/ ListSlipstreamPools \/ ListTraderJoePairs \/ ListCurvePools
    \/ LogsAnswered \/ LogsFail \/ LogsGiveUp
    \/ ListingDone
    \/ SeedSolidly \/ SeedSlipstream \/ SeedV3 \/ SeedTraderJoe
    \/ SeedsFail
    \/ End
    \/ Crash

Spec == Init /\ [][Next]_vars

-----------------------------------------------------------------------------
(* Properties *)

ByCursor(d) ==
    IF config[d] \in {"v3", "balancer"}
    THEN {i \in DOMAIN born[d] : born[d][i] <= file[d].latest}
    ELSE IF config[d] = "lb_pairs" THEN {} ELSE 1..file[d].count

\* Whatever the file's cursor has passed is in the file, but for the pools a
\* node was asked for that it did not know yet: a scan that fell back, went on
\* from a cache, asked again for fewer blocks or died leaves nothing out.
NothingPassedOver ==
    \A d \in DEX : file[d].cached =>
        ByCursor(d) \subseteq {p.id : p \in file[d].pools} \union excused[d]

\* A pool in the file stays there, and so does its priority: neither a node
\* that makes the cache look newer than the chain, nor a scan from the start,
\* nor a failed start costs a pool (configured pairs are asked for anew).
KeptInFile ==
    [][\A d \in DEX : config[d] # "lb_pairs" =>
          \A p \in file[d].pools : \E q \in file'[d].pools :
              q.id = p.id /\ (p.priority => q.priority)]_vars

=============================================================================

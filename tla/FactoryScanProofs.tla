------------------------- MODULE FactoryScanProofs -------------------------
(***************************************************************************)
(* Proof that the cursor in the cache file passes over no pool and that no *)
(* pool of the file is lost, for all lists of DEXes, chunk sizes, retries  *)
(* and lags of the nodes.                                                  *)
(***************************************************************************)
EXTENDS FactoryScan, FiniteSetTheorems, SequenceTheorems, TLAPS

PoolEntries == [id: Nat, priority: BOOLEAN]
Ids(pools) == {p.id : p \in pools}

Scans == [at: Nat, start: Nat, target: Nat, by: {"multicall", "sequential", "logs", "pairs"},
          size: Nat \ {0}, retries: Nat, found: SUBSET PoolEntries]

IsEntry(d, e) ==
    /\ e.pools \subseteq PoolEntries
    /\ e.cached => e.latest \in 0..height /\ (config[d] # "lb_pairs" => e.count \in Nat)

InScan == pc \in {"scan", "seed"}

Types ==
    /\ Len(config) \in Nat
    /\ height \in Nat /\ latest \in 0..height /\ next \in Nat \ {0}
    /\ born \in [DEX -> Seq(Nat \ {0})]
    /\ DOMAIN file = DEX /\ DOMAIN cache = DEX
    /\ \A d \in DEX : IsEntry(d, file[d]) /\ IsEntry(d, cache[d])
    /\ excused \in [DEX -> SUBSET Nat]
    /\ InScan => next \in DEX /\ scan \in Scans

\* ByCursor of the entry e
Passed(d, e) ==
    IF config[d] \in {"v3", "balancer"}
    THEN {i \in DOMAIN born[d] : born[d][i] <= e.latest}
    ELSE IF config[d] = "lb_pairs" THEN {} ELSE 1..e.count

PassedIsIn(d, e) == e.cached => Passed(d, e) \subseteq Ids(e.pools) \union excused[d]

\* Neither the file nor what is in memory passes over a pool.
EntriesComplete == \A d \in DEX : PassedIsIn(d, file[d]) /\ PassedIsIn(d, cache[d])

\* What a scan need not look for any more
Settled == Ids(cache[next].pools) \union Ids(scan.found) \union excused[next]

\* A scan leaves out nothing before the place it has come to, nor, if it has to
\* go back, before the place where it started.
ScanComplete ==
    InScan =>
        /\ scan.by = "logs" <=> config[next] \in {"v3", "balancer"}
        /\ scan.by = "pairs" <=> config[next] = "lb_pairs"
        /\ pc = "seed" /\ scan.by # "pairs" => scan.at > scan.target
        /\ scan.by = "logs" =>
              /\ scan.target = latest /\ scan.at <= latest + 1
              /\ \A i \in DOMAIN born[next] : born[next][i] < scan.at => i \in Settled
        /\ scan.by \in {"multicall", "sequential"} =>
              \A i \in 1..scan.target :
                  /\ i < scan.at => i \in Settled
                  /\ i < scan.start => i \in Ids(cache[next].pools) \union excused[next]

\* Of a pool in the one there is an entry in the other, and no priority is lost.
Keeps(old, new) == \A p \in old : \E q \in new : q.id = p.id /\ (p.priority => q.priority)

\* Memory has all that the file has.
FileInMemory ==
    pc # "down" =>
        \A d \in DEX : config[d] # "lb_pairs" => Keeps(file[d].pools, cache[d].pools)

ScanInv == Types /\ EntriesComplete /\ ScanComplete /\ FileInMemory

-----------------------------------------------------------------------------
(* Lemmas about the operators *)

\* Removing duplicates loses no pool and no priority.
LEMMA DedupKeeps ==
    ASSUME NEW pools, pools \subseteq PoolEntries
    PROVE  /\ Dedup(pools) \subseteq pools
           /\ Keeps(pools, Dedup(pools))
           /\ Ids(Dedup(pools)) = Ids(pools)
<1>1. Dedup(pools) \subseteq pools
  BY DEF Dedup
<1>2. ASSUME NEW p \in pools
      PROVE  \E q \in Dedup(pools) : q.id = p.id /\ (p.priority => q.priority)
  <2> DEFINE twin == [p EXCEPT !.priority = TRUE]
  <2>1. p \in [id: Nat, priority: BOOLEAN]
    BY DEF PoolEntries
  <2>2. twin.id = p.id /\ twin.priority = TRUE
    BY <2>1
  <2>3. CASE p \in Dedup(pools)
    BY <2>3
  <2>4. CASE p \notin Dedup(pools)
    <3>1. twin \in pools
      BY <2>4 DEF Dedup
    <3>2. twin \in Dedup(pools)
      BY <2>2, <3>1 DEF Dedup
    <3> QED
      BY <2>2, <3>2
  <2> QED
    BY <2>3, <2>4
<1>3. Keeps(pools, Dedup(pools))
  BY <1>2 DEF Keeps
<1>4. Ids(Dedup(pools)) = Ids(pools)
  BY <1>1, <1>2 DEF Ids
<1> QED
  BY <1>1, <1>3, <1>4

LEMMA KeepsTransitive ==
    ASSUME NEW A, NEW B, NEW C, Keeps(A, B), Keeps(B, C)
    PROVE  Keeps(A, C)
BY DEF Keeps

LEMMA KeepsMore ==
    ASSUME NEW A, NEW B, A \subseteq B
    PROVE  Keeps(A, B)
BY DEF Keeps

\* A node knows a number of pools.
LEMMA KnownIsNat ==
    ASSUME Types, NEW d \in DEX, NEW h
    PROVE  Known(d, h) \in Nat
<1>1. DOMAIN born[d] = 1..Len(born[d]) /\ Len(born[d]) \in Nat
  BY DEF Types
<1>2. IsFiniteSet(DOMAIN born[d])
  <2>1. IsFiniteSet(1..Len(born[d]))
    BY <1>1, FS_Interval
  <2> QED
    BY <1>1, <2>1
<1>3. {i \in DOMAIN born[d] : born[d][i] <= h} \subseteq DOMAIN born[d]
  OBVIOUS
<1> QED
  BY <1>2, <1>3, FS_Subset, FS_CardinalityType DEF Known

\* What is listed
LEMMA ListedIs ==
    ASSUME NEW ids, ids \subseteq Nat, NEW priority \in BOOLEAN
    PROVE  Listed(ids, priority) \subseteq PoolEntries /\ Ids(Listed(ids, priority)) = ids
<1>1. Listed(ids, priority) \subseteq PoolEntries
  BY DEF Listed, PoolEntries
<1>2. ASSUME NEW i \in ids
      PROVE  i \in Ids(Listed(ids, priority))
  <2>1. [id |-> i, priority |-> priority] \in Listed(ids, priority)
    BY DEF Listed
  <2>2. [id |-> i, priority |-> priority].id = i
    OBVIOUS
  <2> QED
    BY <2>1, <2>2 DEF Ids
<1>3. ASSUME NEW p \in Listed(ids, priority)
      PROVE  p.id \in ids
  BY DEF Listed
<1> QED
  BY <1>1, <1>2, <1>3 DEF Ids

-----------------------------------------------------------------------------
(* The invariant *)

LEMMA InvInit == Init => ScanInv
<1> SUFFICES ASSUME Init PROVE ScanInv
  OBVIOUS
<1>1. Len(config) \in Nat
  BY ScanAssumption DEF Init
<1>2. Types
  BY <1>1 DEF Init, Types, DEX, IsEntry, NoEntry, InScan
<1> QED
  BY <1>2 DEF Init, ScanInv, EntriesComplete, PassedIsIn, NoEntry, ScanComplete, InScan, FileInMemory

\* The chain grows: nothing is created at or below a block that was looked at.
LEMMA GrowKeeps == ScanInv /\ Grow => ScanInv'
<1> SUFFICES ASSUME ScanInv, Grow PROVE ScanInv'
  OBVIOUS
<1>1. /\ height' = height + 1
      /\ UNCHANGED <<config, file, pc, latest, cache, next, scan, excused>>
      /\ DEX' = DEX
  BY DEF Grow, DEX
<1>2. PICK creators \in SUBSET DEX :
         born' = [d \in DEX |-> IF d \in creators THEN Append(born[d], height') ELSE born[d]]
  BY DEF Grow
<1>3. born' \in [DEX -> Seq(Nat \ {0})]
  <2>1. height' \in Nat \ {0} /\ born \in [DEX -> Seq(Nat \ {0})]
    BY <1>1 DEF ScanInv, Types
  <2>2. \A d \in DEX : Append(born[d], height') \in Seq(Nat \ {0})
    BY <2>1, AppendProperties
  <2> QED
    BY <1>2, <2>1, <2>2
<1>4. ASSUME NEW d \in DEX, NEW i \in DOMAIN born'[d], born'[d][i] <= height
      PROVE  i \in DOMAIN born[d] /\ born[d][i] = born'[d][i]
  <2>1. born[d] \in Seq(Nat \ {0}) /\ height \in Nat
    BY DEF ScanInv, Types
  <2>2. CASE d \in creators
    <3>1. born'[d] = Append(born[d], height + 1)
      BY <1>1, <1>2, <2>2
    <3>2. i \in 1..(Len(born[d]) + 1)
      BY <2>1, <3>1
    <3>3. i # Len(born[d]) + 1
      BY <1>4, <2>1, <3>1
    <3> QED
      BY <2>1, <3>1, <3>2, <3>3
  <2>3. CASE d \notin creators
    BY <1>2, <2>3
  <2> QED
    BY <2>2, <2>3
<1>5. Types'
  BY <1>1, <1>3 DEF ScanInv, Types, IsEntry, InScan
<1>6. ASSUME NEW d \in DEX, NEW e, e.cached => e.latest \in 0..height, PassedIsIn(d, e)
      PROVE  PassedIsIn(d, e)'
  <2>1. height \in Nat /\ born' \in [DEX -> Seq(Nat \ {0})]
    BY <1>3 DEF ScanInv, Types
  <2>2. e.cached => Passed(d, e)' \subseteq Passed(d, e)
    <3>1. ASSUME e.cached, NEW i \in DOMAIN born'[d], born'[d][i] <= e.latest
          PROVE  born'[d][i] <= height
      BY <1>6, <2>1, <3>1
    <3> QED
      BY <1>1, <1>4, <3>1 DEF Passed
  <2> QED
    BY <1>1, <1>6, <2>2 DEF PassedIsIn
<1>7. EntriesComplete'
  BY <1>1, <1>6 DEF ScanInv, EntriesComplete, Types, IsEntry
<1>8. ScanComplete'
  <2>1. ASSUME InScan, scan.by = "logs",
               NEW i \in DOMAIN born'[next], born'[next][i] < scan.at
        PROVE  i \in Settled
    <3>1. /\ scan.at \in Nat /\ next \in DEX /\ scan.at <= latest + 1
          /\ latest \in 0..height /\ height \in Nat
      BY <2>1 DEF ScanInv, Types, ScanComplete, Scans
    <3>2. born'[next][i] \in Nat
      BY <1>3, <3>1
    <3>3. born'[next][i] <= height
      BY <2>1, <3>1, <3>2
    <3>4. i \in DOMAIN born[next] /\ born[next][i] = born'[next][i]
      BY <1>4, <3>1, <3>3
    <3> QED
      BY <2>1, <3>4 DEF ScanInv, ScanComplete
  <2> QED
    BY <1>1, <2>1 DEF ScanInv, ScanComplete, InScan, Settled
<1>9. FileInMemory'
  BY <1>1 DEF ScanInv, FileInMemory
<1> QED
  BY <1>5, <1>7, <1>8, <1>9 DEF ScanInv

\* Of a pool kept there is a position.
LEMMA KeepsIds ==
    ASSUME NEW A, NEW B, Keeps(A, B)
    PROVE  Ids(A) \subseteq Ids(B)
BY DEF Keeps, Ids

LEMMA IdsOfUnion ==
    ASSUME NEW A, NEW B
    PROVE  Ids(A \union B) = Ids(A) \union Ids(B)
BY DEF Ids

\* What a step does to the file
FileKept == \A d \in DEX : config[d] # "lb_pairs" => Keeps(file[d].pools, file'[d].pools)

LEMMA SameFileKept == UNCHANGED file => FileKept
BY DEF FileKept, Keeps

\* A scan ends: what is put into memory, and perhaps the file, has all pools the
\* new cursor passes and all that was there.
LEMMA FinishKeeps ==
    ASSUME ScanInv, NEW d \in DEX, NEW pools, pools \subseteq PoolEntries, NEW count,
           config[d] # "lb_pairs" => count \in Nat, pc # "down", Finish(d, pools, count),
           UNCHANGED <<config, chainVars, latest, excused>>,
           Passed(d, [latest |-> latest, count |-> count]) \subseteq Ids(pools) \union excused[d],
           config[d] # "lb_pairs" => Keeps(cache[d].pools, pools)
    PROVE  ScanInv' /\ FileKept
<1> DEFINE entry == [cached |-> TRUE, latest |-> latest, count |-> count, pools |-> Dedup(pools)]
<1>0. Types /\ EntriesComplete /\ FileInMemory
  BY DEF ScanInv
<1>1. /\ cache' = [cache EXCEPT ![d] = entry]
      /\ file' = file \/ file' = cache'
      /\ next' = d + 1 /\ pc' = "dex"
      /\ config' = config /\ height' = height /\ born' = born /\ latest' = latest
      /\ excused' = excused /\ DEX' = DEX /\ ~ InScan'
  BY DEF Finish, chainVars, DEX, InScan
<1>2. /\ DOMAIN cache' = DEX /\ cache'[d] = entry
      /\ \A c \in DEX \ {d} : cache'[c] = cache[c]
  BY <1>0, <1>1 DEF Types
<1>3. /\ Dedup(pools) \subseteq pools /\ Keeps(pools, Dedup(pools))
      /\ Ids(Dedup(pools)) = Ids(pools)
  BY DedupKeeps
<1>4. IsEntry(d, entry)
  BY <1>0, <1>3 DEF IsEntry, Types
<1>5. PassedIsIn(d, entry)
  BY <1>3 DEF PassedIsIn, Passed
<1>6. \A c \in DEX : IsEntry(c, cache'[c]) /\ PassedIsIn(c, cache'[c])
  BY <1>0, <1>2, <1>4, <1>5 DEF Types, EntriesComplete
<1>7. \A c \in DEX : config[c] # "lb_pairs" => Keeps(file[c].pools, cache'[c].pools)
  <2> SUFFICES ASSUME NEW c \in DEX, config[c] # "lb_pairs"
               PROVE  Keeps(file[c].pools, cache'[c].pools)
    OBVIOUS
  <2>1. Keeps(file[c].pools, cache[c].pools)
    BY <1>0 DEF FileInMemory
  <2>2. CASE c = d
    <3>1. Keeps(file[c].pools, pools)
      BY <2>1, <2>2, KeepsTransitive
    <3> QED
      BY <1>2, <1>3, <2>2, <3>1, KeepsTransitive
  <2>3. CASE c # d
    BY <1>2, <2>1, <2>3
  <2> QED
    BY <2>2, <2>3
<1>8. FileKept
  <2>1. CASE file' = file
    BY <2>1, SameFileKept
  <2>2. CASE file' = cache'
    BY <1>7, <2>2 DEF FileKept
  <2> QED
    BY <1>1, <2>1, <2>2
<1>9. d + 1 \in Nat \ {0}
  BY <1>0 DEF Types, DEX
<1>10. \A c \in DEX : IsEntry(c, file'[c]) /\ PassedIsIn(c, file'[c])
  BY <1>0, <1>1, <1>6 DEF Types, EntriesComplete
<1>11. Types'
  BY <1>0, <1>1, <1>2, <1>6, <1>9, <1>10 DEF Types, IsEntry
<1>12. EntriesComplete'
  BY <1>1, <1>6, <1>10 DEF EntriesComplete, PassedIsIn, Passed
<1>13. ScanComplete'
  BY <1>1 DEF ScanComplete
<1>14. FileInMemory'
  <2>1. CASE file' = file
    BY <1>1, <1>7, <2>1 DEF FileInMemory
  <2>2. CASE file' = cache'
    BY <1>1, <2>2, KeepsMore DEF FileInMemory
  <2> QED
    BY <1>1, <2>1, <2>2
<1> QED
  BY <1>8, <1>11, <1>12, <1>13, <1>14 DEF ScanInv

\* Nothing is in memory when the process is down.
LEMMA ExitKeeps ==
    ASSUME ScanInv, Exit, UNCHANGED <<config, chainVars, file, latest, excused>>
    PROVE  ScanInv' /\ FileKept
<1>1. /\ cache' = [d \in DEX |-> NoEntry] /\ next' = 1 /\ pc' = "down"
      /\ UNCHANGED <<config, height, born, file, latest, excused>> /\ DEX' = DEX
  BY DEF Exit, chainVars, DEX
<1>2. ~ InScan'
  BY <1>1 DEF InScan
<1>3. \A d \in DEX : IsEntry(d, cache'[d]) /\ PassedIsIn(d, cache'[d])
  BY <1>1 DEF NoEntry, IsEntry, PassedIsIn
<1>4. Types'
  BY <1>1, <1>2, <1>3 DEF ScanInv, Types, IsEntry
<1>5. EntriesComplete'
  BY <1>1, <1>3 DEF ScanInv, EntriesComplete, PassedIsIn, Passed
<1>6. ScanComplete' /\ FileInMemory'
  BY <1>1, <1>2 DEF ScanComplete, FileInMemory
<1> QED
  BY <1>1, <1>4, <1>5, <1>6, SameFileKept DEF ScanInv

\* More has been found.
LEMMA ScanStays ==
    ASSUME NEW s \in Scans, NEW new, new \subseteq PoolEntries, NEW at \in Nat
    PROVE  [s EXCEPT !.found = @ \union new, !.at = at] \in Scans
<1>1. s.found \union new \in SUBSET PoolEntries
  BY DEF Scans
<1> QED
  BY <1>1 DEF Scans

\* A scan begins or goes on, and nodes that are behind may be excused.
LEMMA GoesOn ==
    ASSUME ScanInv, pc # "down", pc' \in {"scan", "seed"}, next \in DEX, scan' \in Scans,
           UNCHANGED <<config, chainVars, file, latest, cache, next>>,
           excused' \in [DEX -> SUBSET Nat],
           \A d \in DEX : excused[d] \subseteq excused'[d],
           ScanComplete'
    PROVE  ScanInv' /\ FileKept
<1>1. UNCHANGED <<config, height, born, file, latest, cache, next>> /\ DEX' = DEX
  BY DEF chainVars, DEX
<1>2. Types'
  BY <1>1 DEF ScanInv, Types, IsEntry
<1>3. EntriesComplete'
  BY <1>1 DEF ScanInv, EntriesComplete, PassedIsIn, Passed
<1>4. FileInMemory'
  BY <1>1 DEF ScanInv, FileInMemory
<1> QED
  BY <1>1, <1>2, <1>3, <1>4, SameFileKept DEF ScanInv

-----------------------------------------------------------------------------
(* The steps *)

LEMMA StartKeeps == ScanInv /\ Start => ScanInv' /\ FileKept
<1> SUFFICES ASSUME ScanInv, Start PROVE ScanInv' /\ FileKept
  OBVIOUS
<1>1. /\ UNCHANGED <<config, height, born, file, scan, excused>> /\ DEX' = DEX
      /\ cache' = file /\ next' = 1 /\ pc' = "dex" /\ latest' \in 0..height
  BY DEF Start, chainVars, DEX, Answers
<1>2. ~ InScan'
  BY <1>1 DEF InScan
<1>3. Types'
  BY <1>1, <1>2 DEF ScanInv, Types, IsEntry
<1>4. EntriesComplete'
  BY <1>1 DEF ScanInv, EntriesComplete, PassedIsIn, Passed
<1>5. ScanComplete' /\ FileInMemory'
  BY <1>1, <1>2, KeepsMore DEF ScanComplete, FileInMemory
<1> QED
  BY <1>1, <1>3, <1>4, <1>5, SameFileKept DEF ScanInv

\* A scan by count goes on after the pools in the cache, if it may use them.
LEMMA ByCountKeeps ==
    ASSUME ScanInv, NEW d \in DEX, pc = "dex", d = next,
           config[d] \notin {"v3", "balancer", "lb_pairs"}, ByCount(d, "multicall")
    PROVE  ScanInv' /\ FileKept
<1>1. PICK h \in Answers :
        /\ IF Matches(d) /\ cache[d].count >= Known(d, h)
           THEN Finish(d, cache[d].pools, Known(d, h))
           ELSE /\ scan' = [at |-> FirstUnscanned(d, Known(d, h)),
                            start |-> FirstUnscanned(d, Known(d, h)),
                            target |-> Known(d, h), by |-> "multicall", size |-> LogChunk,
                            retries |-> 0, found |-> {}]
                /\ pc' = "scan"
                /\ UNCHANGED <<cache, file, next>>
        /\ UNCHANGED <<config, chainVars, latest, excused>>
  BY DEF ByCount
<1> DEFINE len == Known(d, h)
<1>2. len \in Nat
  BY KnownIsNat DEF ScanInv
<1>3. IsEntry(d, cache[d]) /\ PassedIsIn(d, cache[d])
  BY DEF ScanInv, Types, EntriesComplete
<1>4. Matches(d) => /\ cache[d].count \in Nat
                    /\ 1..cache[d].count \subseteq Ids(cache[d].pools) \union excused[d]
  BY <1>3 DEF Matches, IsEntry, PassedIsIn, Passed
<1> HIDE DEF len
<1>5. CASE Matches(d) /\ cache[d].count >= len
  <2>1. Finish(d, cache[d].pools, len) /\ UNCHANGED <<config, chainVars, latest, excused>>
    BY <1>1, <1>5 DEF len
  <2>2. Passed(d, [latest |-> latest, count |-> len]) = 1..len
    BY DEF Passed
  <2>3. 1..len \subseteq 1..cache[d].count
    BY <1>2, <1>4, <1>5
  <2>4. Keeps(cache[d].pools, cache[d].pools)
    BY KeepsMore
  <2>5. cache[d].pools \subseteq PoolEntries
    BY <1>3 DEF IsEntry
  <2> QED
    BY <1>2, <1>4, <1>5, <2>1, <2>2, <2>3, <2>4, <2>5, FinishKeeps
<1>6. CASE ~ (Matches(d) /\ cache[d].count >= len)
  <2> DEFINE first == FirstUnscanned(d, len)
  <2>1. /\ scan' = [at |-> first, start |-> first, target |-> len, by |-> "multicall",
                     size |-> LogChunk, retries |-> 0, found |-> {}]
        /\ pc' = "scan"
        /\ UNCHANGED <<cache, file, next>> /\ UNCHANGED <<config, chainVars, latest, excused>>
    BY <1>1, <1>6 DEF len
  <2>2. first \in Nat
    BY <1>2, <1>4 DEF FirstUnscanned
  <2>3. \A i \in 1..len : i < first => i \in Ids(cache[d].pools) \union excused[d]
    BY <1>2, <1>4, <1>6 DEF FirstUnscanned
  <2> HIDE DEF first
  <2>4. scan' \in Scans
    BY <1>2, <2>1, <2>2, ScanAssumption DEF Scans
  <2>5. /\ scan'.by = "multicall" /\ scan'.target = len /\ scan'.at = first
        /\ scan'.start = first /\ next' = d /\ config' = config /\ cache' = cache
        /\ excused' = excused
    BY <2>1
  <2>6. Settled' = Ids(cache[d].pools) \union Ids(scan'.found) \union excused[d]
    BY <2>5 DEF Settled
  <2>7. ScanComplete'
    BY <2>1, <2>3, <2>5, <2>6 DEF ScanComplete
  <2>8. excused' \in [DEX -> SUBSET Nat]
    BY <2>1 DEF ScanInv, Types
  <2> QED
    BY <2>1, <2>4, <2>7, <2>8, GoesOn
<1> QED
  BY <1>5, <1>6

\* A scan by logs goes on after the block of the cache, if it may use it.
LEMMA ByLogsKeeps ==
    ASSUME ScanInv, NEW d \in DEX, pc = "dex", d = next,
           config[d] \in {"v3", "balancer"}, ByLogs(d)
    PROVE  ScanInv' /\ FileKept
<1> DEFINE first == IF Matches(d) THEN cache[d].latest + 1 ELSE 1
<1>1. /\ scan' = [at |-> first, start |-> 1, target |-> latest, by |-> "logs",
                   size |-> LogChunk, retries |-> 0, found |-> {}]
      /\ pc' = "scan"
      /\ UNCHANGED <<config, chainVars, file, latest, cache, next, excused>>
  BY DEF ByLogs
<1>2. IsEntry(d, cache[d]) /\ PassedIsIn(d, cache[d]) /\ latest \in Nat
  BY DEF ScanInv, Types, EntriesComplete
<1>3. first \in Nat /\ first <= latest + 1
  BY <1>2 DEF Matches, IsEntry
<1>4. ASSUME NEW i \in DOMAIN born[d], born[d][i] < first
      PROVE  i \in Ids(cache[d].pools) \union excused[d]
  <2>1. born[d][i] \in Nat \ {0}
    BY <1>4 DEF ScanInv, Types
  <2>2. CASE Matches(d)
    <3>1. i \in Passed(d, cache[d])
      BY <1>2, <1>4, <2>1, <2>2 DEF Passed, Matches, IsEntry
    <3> QED
      BY <1>2, <2>2, <3>1 DEF PassedIsIn, Matches
  <2>3. CASE ~ Matches(d)
    BY <1>4, <2>1, <2>3
  <2> QED
    BY <2>2, <2>3
<1> HIDE DEF first
<1>5. scan' \in Scans
  BY <1>1, <1>2, <1>3, ScanAssumption DEF Scans
<1>6. /\ scan'.by = "logs" /\ scan'.target = latest /\ scan'.at = first /\ latest' = latest
      /\ next' = d /\ config' = config /\ cache' = cache /\ excused' = excused /\ born' = born
  BY <1>1 DEF chainVars
<1>7. Settled' = Ids(cache[d].pools) \union Ids(scan'.found) \union excused[d]
  BY <1>6 DEF Settled
<1>8. ScanComplete'
  BY <1>1, <1>3, <1>4, <1>6, <1>7 DEF ScanComplete
<1>9. excused' \in [DEX -> SUBSET Nat]
  BY <1>1 DEF ScanInv, Types
<1> QED
  BY <1>1, <1>5, <1>8, <1>9, GoesOn

\* Whatever was asked for and not answered is excused.
LEMMA CallsAnsweredKeeps ==
    ASSUME ScanInv, NEW priority \in BOOLEAN, CallsAnswered(priority)
    PROVE  ScanInv' /\ FileKept
<1>1. PICK h \in Answers :
        LET ids == {i \in scan.at..scan.target : i < scan.at + CallChunk}
            known == {i \in ids : i <= Known(next, h)}
        IN  /\ scan' = [scan EXCEPT !.found = @ \union Listed(known, priority),
                                    !.at = @ + CallChunk]
            /\ excused' = [excused EXCEPT ![next] = @ \union (ids \ known)]
  BY DEF CallsAnswered
<1> DEFINE ids == {i \in scan.at..scan.target : i < scan.at + CallChunk}
           known == {i \in ids : i <= Known(next, h)}
<1>2. /\ pc = "scan" /\ scan.by = "multicall" /\ scan.at <= scan.target
      /\ UNCHANGED <<config, chainVars, file, pc, latest, cache, next>>
  BY DEF CallsAnswered, Scanning
<1>3. /\ next \in DEX /\ scan \in Scans /\ excused \in [DEX -> SUBSET Nat]
      /\ CallChunk \in Nat
  BY <1>2, ScanAssumption DEF ScanInv, Types, InScan
<1>4. ids \subseteq Nat /\ known \subseteq ids
  BY <1>3 DEF Scans
<1>5. /\ scan' = [scan EXCEPT !.found = @ \union Listed(known, priority), !.at = @ + CallChunk]
      /\ excused' = [excused EXCEPT ![next] = @ \union (ids \ known)]
  BY <1>1
<1>6. Listed(known, priority) \subseteq PoolEntries /\ Ids(Listed(known, priority)) = known
  BY <1>4, ListedIs
<1>7. \A i \in scan.at..scan.target : i < scan.at + CallChunk => i \in known \union (ids \ known)
  OBVIOUS
<1> DEFINE new == Listed(known, priority)
           missed == ids \ known
<1>8. new \subseteq PoolEntries /\ Ids(new) = known /\ missed \subseteq Nat
  BY <1>4, <1>6
<1>9. /\ scan' = [scan EXCEPT !.found = @ \union new, !.at = @ + CallChunk]
      /\ excused' = [excused EXCEPT ![next] = @ \union missed]
  BY <1>5
<1> HIDE DEF ids, known, new, missed
<1>10. /\ scan'.at = scan.at + CallChunk /\ scan'.start = scan.start
       /\ scan'.target = scan.target /\ scan'.by = scan.by
       /\ scan'.found = scan.found \union new
       /\ excused'[next] = excused[next] \union missed
       /\ next' = next /\ cache' = cache /\ config' = config /\ pc' = pc
  BY <1>2, <1>3, <1>9 DEF Scans
<1>11. scan' \in Scans
  <2>1. scan.at + CallChunk \in Nat
    BY <1>3 DEF Scans
  <2> QED
    BY <1>3, <1>8, <1>9, <2>1, ScanStays
<1>12. excused' \in [DEX -> SUBSET Nat] /\ \A d \in DEX : excused[d] \subseteq excused'[d]
  BY <1>3, <1>8, <1>9
<1>13. Settled' = Settled \union known \union missed
  BY <1>8, <1>10, IdsOfUnion DEF Settled
<1>14. ASSUME NEW i \in 1..scan.target
       PROVE  /\ i < scan.at + CallChunk => i \in Settled'
              /\ i < scan.start => i \in Ids(cache[next].pools) \union excused'[next]
  <2>1. scan.at \in Nat /\ scan.target \in Nat
    BY <1>3 DEF Scans
  <2>2. /\ i < scan.at => i \in Settled
        /\ i < scan.start => i \in Ids(cache[next].pools) \union excused[next]
    BY <1>2 DEF ScanInv, ScanComplete, InScan
  <2>3. i < scan.at + CallChunk /\ ~ (i < scan.at) => i \in known \union missed
    BY <1>7, <2>1 DEF missed
  <2> QED
    BY <1>10, <1>13, <2>2, <2>3
<1>15. ScanComplete'
  BY <1>2, <1>10, <1>14 DEF ScanInv, ScanComplete, InScan
<1> QED
  BY <1>2, <1>3, <1>11, <1>12, <1>15, GoesOn

\* All that was listed since the start is listed again.
LEMMA CallsFailKeeps == ScanInv /\ CallsFail => ScanInv' /\ FileKept
<1> SUFFICES ASSUME ScanInv, CallsFail PROVE ScanInv' /\ FileKept
  OBVIOUS
<1>1. /\ pc = "scan" /\ scan.by = "multicall"
      /\ scan' = [scan EXCEPT !.by = "sequential", !.at = scan.start, !.found = {}]
      /\ UNCHANGED <<config, chainVars, file, pc, latest, cache, next, excused>>
  BY DEF CallsFail, Scanning
<1>2. next \in DEX /\ scan \in Scans /\ excused \in [DEX -> SUBSET Nat]
  BY <1>1 DEF ScanInv, Types, InScan
<1>3. /\ scan'.at = scan.start /\ scan'.start = scan.start /\ scan'.target = scan.target
      /\ scan'.by = "sequential" /\ scan'.found = {} /\ scan' \in Scans
      /\ next' = next /\ cache' = cache /\ config' = config /\ pc' = pc /\ excused' = excused
  BY <1>1, <1>2 DEF Scans
<1>4. Ids(cache[next].pools) \union excused[next] \subseteq Settled'
  BY <1>3 DEF Settled
<1>5. ScanComplete'
  BY <1>1, <1>3, <1>4 DEF ScanInv, ScanComplete, InScan
<1> QED
  BY <1>1, <1>2, <1>3, <1>5, GoesOn

LEMMA OneCallAnsweredKeeps ==
    ASSUME ScanInv, NEW priority \in BOOLEAN, OneCallAnswered(priority)
    PROVE  ScanInv' /\ FileKept
<1> DEFINE new == Listed({scan.at}, priority)
<1>1. /\ pc = "scan" /\ scan.by = "sequential"
      /\ scan' = [scan EXCEPT !.found = @ \union new, !.at = @ + 1]
      /\ UNCHANGED <<config, chainVars, file, pc, latest, cache, next, excused>>
  BY DEF OneCallAnswered, Scanning
<1>2. next \in DEX /\ scan \in Scans /\ excused \in [DEX -> SUBSET Nat]
  BY <1>1 DEF ScanInv, Types, InScan
<1>3. scan.at \in Nat
  BY <1>2 DEF Scans
<1>4. new \subseteq PoolEntries /\ Ids(new) = {scan.at}
  BY <1>3, ListedIs
<1> HIDE DEF new
<1>5. /\ scan'.at = scan.at + 1 /\ scan'.start = scan.start /\ scan'.target = scan.target
      /\ scan'.by = scan.by /\ scan'.found = scan.found \union new
      /\ next' = next /\ cache' = cache /\ config' = config /\ pc' = pc /\ excused' = excused
  BY <1>1, <1>2, <1>3, <1>4 DEF Scans
<1>9. scan' \in Scans
  <2>1. scan.at + 1 \in Nat
    BY <1>3
  <2> QED
    BY <1>1, <1>2, <1>4, <2>1, ScanStays
<1>6. Settled' = Settled \union {scan.at}
  BY <1>4, <1>5, IdsOfUnion DEF Settled
<1>7. \A i \in 1..scan.target :
         /\ i < scan.at + 1 => i \in Settled'
         /\ i < scan.start => i \in Ids(cache[next].pools) \union excused[next]
  BY <1>1, <1>2, <1>3, <1>6 DEF ScanInv, ScanComplete, InScan, Scans
<1>8. ScanComplete'
  BY <1>1, <1>5, <1>7 DEF ScanInv, ScanComplete, InScan
<1> QED
  BY <1>1, <1>2, <1>8, <1>9, GoesOn

\* The blocks asked for follow those already looked at.
LEMMA LogsAnsweredKeeps == ScanInv /\ LogsAnswered => ScanInv' /\ FileKept
<1> SUFFICES ASSUME ScanInv, LogsAnswered PROVE ScanInv' /\ FileKept
  OBVIOUS
<1>1. PICK h \in Answers :
        LET created == {i \in DOMAIN born[next] : born[next][i] \in scan.at..LastOfChunk}
            known == {i \in created : born[next][i] <= h}
        IN  /\ scan' = [scan EXCEPT
                  !.found = @ \union Listed(known, FALSE),
                  !.at = LastOfChunk + 1,
                  !.retries = 0,
                  !.size = IF 2 * @ < LogChunk THEN 2 * @ ELSE LogChunk]
            /\ excused' = [excused EXCEPT ![next] = @ \union (created \ known)]
  BY DEF LogsAnswered
<1> DEFINE created == {i \in DOMAIN born[next] : born[next][i] \in scan.at..LastOfChunk}
           known == {i \in created : born[next][i] <= h}
           new == Listed(known, FALSE)
           missed == created \ known
           size == IF 2 * scan.size < LogChunk THEN 2 * scan.size ELSE LogChunk
<1>2. /\ pc = "scan" /\ scan.by = "logs" /\ scan.at <= scan.target
      /\ UNCHANGED <<config, chainVars, file, pc, latest, cache, next>>
  BY DEF LogsAnswered, Scanning
<1>3. /\ next \in DEX /\ scan \in Scans /\ excused \in [DEX -> SUBSET Nat]
      /\ born[next] \in Seq(Nat \ {0}) /\ latest \in Nat
  BY <1>2 DEF ScanInv, Types, InScan
<1>4. /\ scan.at \in Nat /\ scan.size \in Nat \ {0} /\ LogChunk \in Nat \ {0}
      /\ scan.found \in SUBSET PoolEntries /\ scan.target = latest
  BY <1>2, <1>3, ScanAssumption DEF Scans, ScanInv, ScanComplete, InScan
<1>5. LastOfChunk \in Nat /\ LastOfChunk <= latest
  BY <1>2, <1>3, <1>4 DEF LastOfChunk
<1>6. created \subseteq Nat /\ known \subseteq created
  BY <1>3
<1>7. new \subseteq PoolEntries /\ Ids(new) = known
  BY <1>6, ListedIs
<1>8. size \in Nat \ {0}
  BY <1>4
<1>9. /\ scan' = [scan EXCEPT !.found = @ \union new, !.at = LastOfChunk + 1, !.retries = 0,
                              !.size = size]
      /\ excused' = [excused EXCEPT ![next] = @ \union missed]
  BY <1>1
<1>10. missed \subseteq Nat
  BY <1>6
<1>11. \A i \in DOMAIN born[next] :
          born[next][i] \in scan.at..LastOfChunk => i \in known \union missed
  OBVIOUS
<1> HIDE DEF created, known, new, missed, size
<1>12. scan.found \union new \in SUBSET PoolEntries /\ LastOfChunk + 1 \in Nat
  BY <1>4, <1>5, <1>7
<1>13. /\ scan'.at = LastOfChunk + 1 /\ scan'.by = "logs" /\ scan'.target = latest
       /\ scan'.found = scan.found \union new
       /\ excused'[next] = excused[next] \union missed
       /\ next' = next /\ cache' = cache /\ config' = config /\ pc' = pc /\ born' = born
       /\ latest' = latest
  BY <1>2, <1>3, <1>4, <1>9 DEF Scans, chainVars
<1>14. scan' \in Scans
  BY <1>3, <1>8, <1>9, <1>12 DEF Scans
<1>15. excused' \in [DEX -> SUBSET Nat] /\ \A d \in DEX : excused[d] \subseteq excused'[d]
  BY <1>3, <1>9, <1>10
<1>16. Settled' = Settled \union known \union missed
  BY <1>7, <1>13, IdsOfUnion DEF Settled
<1>17. ASSUME NEW i \in DOMAIN born[next], born[next][i] < LastOfChunk + 1
       PROVE  i \in Settled'
  <2>1. born[next][i] \in Nat
    BY <1>3
  <2>2. born[next][i] < scan.at \/ born[next][i] \in scan.at..LastOfChunk
    BY <1>4, <1>5, <1>17, <2>1
  <2>3. born[next][i] < scan.at => i \in Settled
    BY <1>2 DEF ScanInv, ScanComplete, InScan
  <2> QED
    BY <1>11, <1>16, <2>2, <2>3
<1>18. ScanComplete'
  BY <1>2, <1>3, <1>5, <1>13, <1>17 DEF ScanInv, ScanComplete, InScan
<1> QED
  BY <1>2, <1>3, <1>14, <1>15, <1>18, GoesOn

LEMMA LogsFailKeeps == ScanInv /\ LogsFail => ScanInv' /\ FileKept
<1> SUFFICES ASSUME ScanInv, LogsFail PROVE ScanInv' /\ FileKept
  OBVIOUS
<1> DEFINE size == IF scan.size >= 2 THEN scan.size \div 2 ELSE 1
<1>1. /\ pc = "scan" /\ scan.by = "logs"
      /\ scan' = [scan EXCEPT !.size = size, !.retries = @ + 1]
      /\ UNCHANGED <<config, chainVars, file, pc, latest, cache, next, excused>>
  BY DEF LogsFail, Scanning
<1>2. next \in DEX /\ scan \in Scans /\ excused \in [DEX -> SUBSET Nat]
  BY <1>1 DEF ScanInv, Types, InScan
<1>3. size \in Nat \ {0}
  <2>1. scan.size \in Nat \ {0}
    BY <1>2 DEF Scans
  <2> QED
    BY <2>1
<1> HIDE DEF size
<1>4. /\ scan'.at = scan.at /\ scan'.start = scan.start /\ scan'.target = scan.target
      /\ scan'.by = scan.by /\ scan'.found = scan.found
      /\ next' = next /\ cache' = cache /\ config' = config /\ pc' = pc /\ excused' = excused
      /\ born' = born /\ latest' = latest
  BY <1>1, <1>2, <1>3 DEF Scans, chainVars
<1>7. scan' \in Scans
  <2>1. scan.retries + 1 \in Nat
    BY <1>2 DEF Scans
  <2> QED
    BY <1>1, <1>2, <1>3, <2>1 DEF Scans
<1>5. Settled' = Settled
  BY <1>4 DEF Settled
<1>6. ScanComplete'
  BY <1>1, <1>4, <1>5 DEF ScanInv, ScanComplete, InScan
<1> QED
  BY <1>1, <1>2, <1>6, <1>7, GoesOn

\* A listing that has come to its end has found all the new cursor passes.
LEMMA FoundIsComplete ==
    ASSUME ScanInv, InScan, config[next] # "lb_pairs", scan.at > scan.target
    PROVE  /\ next \in DEX /\ Found \subseteq PoolEntries /\ Count \in Nat
           /\ cache[next].pools \subseteq Found
           /\ Passed(next, [latest |-> latest, count |-> Count]) \subseteq Ids(Found) \union excused[next]
<1>1. /\ next \in DEX /\ scan \in Scans /\ IsEntry(next, cache[next])
      /\ born[next] \in Seq(Nat \ {0}) /\ latest \in Nat
  BY DEF ScanInv, Types
<1>2. /\ Found \subseteq PoolEntries /\ Count \in Nat /\ cache[next].pools \subseteq Found
  BY <1>1 DEF Found, Count, IsEntry, Scans
<1>3. Settled = Ids(Found) \union excused[next]
  BY IdsOfUnion DEF Settled, Found
<1>4. CASE scan.by = "logs"
  <2>1. config[next] \in {"v3", "balancer"}
    BY <1>4 DEF ScanInv, ScanComplete
  <2>2. ASSUME NEW i \in DOMAIN born[next], born[next][i] <= latest
        PROVE  i \in Settled
    <3>1. born[next][i] \in Nat /\ scan.at \in Nat
      BY <1>1 DEF Scans
    <3>2. scan.target = latest
      BY <1>4 DEF ScanInv, ScanComplete
    <3>3. born[next][i] < scan.at
      BY <1>1, <2>2, <3>1, <3>2
    <3> QED
      BY <1>4, <3>3 DEF ScanInv, ScanComplete
  <2> QED
    BY <1>1, <1>2, <1>3, <2>1, <2>2 DEF Passed
<1>5. CASE scan.by # "logs"
  <2>1. /\ config[next] \notin {"v3", "balancer"} /\ scan.by \in {"multicall", "sequential"}
        /\ Count = scan.target
    BY <1>1, <1>5 DEF ScanInv, ScanComplete, Scans, Count
  <2>2. \A i \in 1..scan.target : i < scan.at => i \in Settled
    BY <2>1 DEF ScanInv, ScanComplete
  <2>3. \A i \in 1..scan.target : i < scan.at
    BY <1>1 DEF Scans
  <2> QED
    BY <1>1, <1>2, <1>3, <2>1, <2>2, <2>3 DEF Passed
<1> QED
  BY <1>4, <1>5

LEMMA ListingDoneKeeps == ScanInv /\ ListingDone => ScanInv' /\ FileKept
<1> SUFFICES ASSUME ScanInv, ListingDone PROVE ScanInv' /\ FileKept
  OBVIOUS
<1>1. /\ pc = "scan" /\ scan.at > scan.target /\ InScan
      /\ UNCHANGED <<config, chainVars, latest, excused>>
      /\ IF WantsSeeds(next)
         THEN pc' = "seed" /\ UNCHANGED <<file, cache, next, scan>>
         ELSE Finish(next, Found, Count)
  BY DEF ListingDone, InScan
<1>2. /\ next \in DEX /\ scan \in Scans /\ excused \in [DEX -> SUBSET Nat]
      /\ IsEntry(next, cache[next])
  BY <1>1 DEF ScanInv, Types
<1>3. CASE WantsSeeds(next)
  <2>1. Settled' = Settled /\ born' = born /\ latest' = latest
    BY <1>1, <1>3 DEF Settled, chainVars
  <2>2. ScanComplete'
    BY <1>1, <1>3, <2>1 DEF ScanInv, ScanComplete, InScan
  <2> QED
    BY <1>1, <1>2, <1>3, <2>2, GoesOn
<1>4. CASE ~ WantsSeeds(next) /\ config[next] # "lb_pairs"
  <2>1. Keeps(cache[next].pools, Found)
    BY <1>1, <1>4, FoundIsComplete, KeepsMore
  <2> QED
    BY <1>1, <1>4, <2>1, FoundIsComplete, FinishKeeps
<1>5. CASE ~ WantsSeeds(next) /\ config[next] = "lb_pairs"
  <2>1. Found \subseteq PoolEntries /\ Count \in Nat
    BY <1>2 DEF Found, Count, IsEntry, Scans
  <2>2. Passed(next, [latest |-> latest, count |-> Count]) = {}
    BY <1>5 DEF Passed
  <2> QED
    BY <1>1, <1>2, <1>5, <2>1, <2>2, FinishKeeps
<1> QED
  BY <1>3, <1>4, <1>5

LEMMA SeedsAreEntries ==
    ASSUME NEW h
    PROVE  SeedsAt(h) \subseteq PoolEntries
<1>1. {i \in Seeds : i <= Known(next, h)} \subseteq Nat
  BY ScanAssumption
<1> QED
  BY <1>1, ListedIs DEF SeedsAt

LEMMA AddSeedsKeeps ==
    ASSUME ScanInv, NEW kind, kind # "lb_pairs", AddSeeds(kind)
    PROVE  ScanInv' /\ FileKept
<1>1. PICK h \in Answers : Finish(next, Found \union SeedsAt(h), Count)
  BY DEF AddSeeds
<1>2. /\ pc = "seed" /\ config[next] # "lb_pairs" /\ InScan
      /\ UNCHANGED <<config, chainVars, latest, excused>>
  BY DEF AddSeeds, InScan
<1>3. scan.at > scan.target
  BY <1>2 DEF ScanInv, ScanComplete
<1>4. /\ next \in DEX /\ Found \subseteq PoolEntries /\ Count \in Nat
      /\ cache[next].pools \subseteq Found
      /\ Passed(next, [latest |-> latest, count |-> Count]) \subseteq Ids(Found) \union excused[next]
  BY <1>2, <1>3, FoundIsComplete
<1>5. Found \union SeedsAt(h) \subseteq PoolEntries
  BY <1>4, SeedsAreEntries
<1>6. Ids(Found) \subseteq Ids(Found \union SeedsAt(h))
  BY IdsOfUnion
<1>7. Keeps(cache[next].pools, Found \union SeedsAt(h))
  BY <1>4, KeepsMore
<1>8. Passed(next, [latest |-> latest, count |-> Count])
        \subseteq Ids(Found \union SeedsAt(h)) \union excused[next]
  BY <1>4, <1>6
<1> QED
  BY <1>1, <1>2, <1>4, <1>5, <1>7, <1>8, FinishKeeps

LEMMA SeedTraderJoeKeeps == ScanInv /\ SeedTraderJoe => ScanInv' /\ FileKept
<1> SUFFICES ASSUME ScanInv, SeedTraderJoe PROVE ScanInv' /\ FileKept
  OBVIOUS
<1>1. PICK h \in Answers : \E pairs \in SUBSET SeedsAt(h) : Finish(next, pairs, 0)
  BY DEF SeedTraderJoe
<1>6. PICK pairs \in SUBSET SeedsAt(h) : Finish(next, pairs, 0)
  BY <1>1
<1>2. /\ pc = "seed" /\ config[next] = "lb_pairs"
      /\ UNCHANGED <<config, chainVars, latest, excused>>
  BY DEF SeedTraderJoe
<1>3. next \in DEX
  BY <1>2 DEF ScanInv, Types, InScan
<1>4. pairs \subseteq PoolEntries
  BY SeedsAreEntries
<1>5. Passed(next, [latest |-> latest, count |-> 0]) = {}
  BY <1>2 DEF Passed
<1> QED
  BY <1>2, <1>3, <1>4, <1>5, <1>6, FinishKeeps

\* The configured pairs are asked for, or what was done at this block stays.
LEMMA ScanPairsKeeps ==
    ASSUME ScanInv, NEW d \in DEX, ScanPairs(d)
    PROVE  ScanInv' /\ FileKept
<1>1. /\ pc = "dex" /\ d = next /\ config[d] = "lb_pairs"
      /\ UNCHANGED <<config, chainVars, latest, excused>>
      /\ IF Matches(d) /\ cache[d].latest = latest
         THEN Finish(d, cache[d].pools, Cardinality(cache[d].pools))
         ELSE /\ scan' = [at |-> 1, start |-> 1, target |-> 0, by |-> "pairs",
                          size |-> LogChunk, retries |-> 0, found |-> {}]
              /\ pc' = "seed"
              /\ UNCHANGED <<cache, file, next>>
  BY DEF ScanPairs, Turn
<1>2. IsEntry(d, cache[d])
  BY DEF ScanInv, Types
<1>3. CASE Matches(d) /\ cache[d].latest = latest
  <2> DEFINE n == Cardinality(cache[d].pools)
  <2>1. Passed(d, [latest |-> latest, count |-> n]) = {}
    BY <1>1 DEF Passed
  <2>2. cache[d].pools \subseteq PoolEntries
    BY <1>2 DEF IsEntry
  <2>3. Finish(d, cache[d].pools, n)
    BY <1>1, <1>3
  <2> HIDE DEF n
  <2> QED
    BY <1>1, <2>1, <2>2, <2>3, FinishKeeps
<1>4. CASE ~ (Matches(d) /\ cache[d].latest = latest)
  <2>1. /\ scan'.at = 1 /\ scan'.target = 0 /\ scan'.by = "pairs" /\ scan' \in Scans
        /\ pc' = "seed" /\ next' = d /\ config' = config
    BY <1>1, <1>4, ScanAssumption DEF Scans
  <2>2. ScanComplete'
    BY <1>1, <2>1 DEF ScanComplete
  <2>3. excused' \in [DEX -> SUBSET Nat]
    BY <1>1 DEF ScanInv, Types
  <2> QED
    BY <1>1, <1>4, <2>1, <2>2, <2>3, GoesOn
<1> QED
  BY <1>3, <1>4

LEMMA EndKeeps == ScanInv /\ End => ScanInv' /\ FileKept
<1> SUFFICES ASSUME ScanInv, End PROVE ScanInv' /\ FileKept
  OBVIOUS
<1>1. /\ UNCHANGED <<config, height, born, latest, cache, next, scan, excused>> /\ DEX' = DEX
      /\ file' \in {file, cache} /\ pc = "dex" /\ pc' = "done"
  BY DEF End, chainVars, DEX
<1>2. ~ InScan'
  BY <1>1 DEF InScan
<1>3. CASE file' = file
  <2>1. Types' /\ EntriesComplete'
    BY <1>1, <1>2, <1>3 DEF ScanInv, Types, IsEntry, EntriesComplete, PassedIsIn, Passed
  <2>2. ScanComplete' /\ FileInMemory'
    BY <1>1, <1>2, <1>3 DEF ScanInv, ScanComplete, FileInMemory
  <2> QED
    BY <1>3, <2>1, <2>2, SameFileKept DEF ScanInv
<1>4. CASE file' = cache
  <2>1. Types' /\ EntriesComplete'
    BY <1>1, <1>2, <1>4 DEF ScanInv, Types, IsEntry, EntriesComplete, PassedIsIn, Passed
  <2>2. ScanComplete' /\ FileInMemory'
    BY <1>1, <1>2, <1>4, KeepsMore DEF ScanComplete, FileInMemory
  <2>3. FileKept
    BY <1>1, <1>4 DEF ScanInv, FileInMemory, FileKept
  <2> QED
    BY <2>1, <2>2, <2>3 DEF ScanInv
<1> QED
  BY <1>1, <1>3, <1>4

-----------------------------------------------------------------------------
(* The theorems *)

LEMMA BeginsKeeps ==
    ASSUME ScanInv, NEW d \in DEX, Begins(d)
    PROVE  ScanInv' /\ FileKept
<1>1. CASE ScanV2(d)
  BY <1>1, ByCountKeeps DEF ScanV2, Turn
<1>2. CASE ScanSolidly(d)
  BY <1>2, ByCountKeeps DEF ScanSolidly, Turn
<1>3. CASE ScanSlipstream(d)
  BY <1>3, ByCountKeeps DEF ScanSlipstream, Turn
<1>4. CASE ScanTraderJoe(d)
  BY <1>4, ByCountKeeps DEF ScanTraderJoe, Turn
<1>5. CASE ScanCurve(d)
  BY <1>5, ByCountKeeps DEF ScanCurve, Turn
<1>6. CASE ScanV3(d)
  BY <1>6, ByLogsKeeps DEF ScanV3, Turn
<1>7. CASE ScanBalancer(d)
  BY <1>7, ByLogsKeeps DEF ScanBalancer, Turn
<1>8. CASE ScanPairs(d)
  BY <1>8, ScanPairsKeeps
<1> QED
  BY <1>1, <1>2, <1>3, <1>4, <1>5, <1>6, <1>7, <1>8 DEF Begins

LEMMA ListsKeeps ==
    ASSUME ScanInv, NEW priority \in BOOLEAN, Lists(priority)
    PROVE  ScanInv' /\ FileKept
<1>1. CASE CallsAnswered(priority)
  BY <1>1, CallsAnsweredKeeps
<1>2. CASE CallsFail
  BY <1>2, CallsFailKeeps
<1>3. CASE OneCallAnswered(priority)
  BY <1>3, OneCallAnsweredKeeps
<1>4. CASE OneCallFails
  BY <1>4, ExitKeeps DEF OneCallFails
<1> QED
  BY <1>1, <1>2, <1>3, <1>4 DEF Lists

LEMMA StepKeeps == ScanInv /\ [Next]_vars => ScanInv' /\ FileKept
<1> SUFFICES ASSUME ScanInv, [Next]_vars PROVE ScanInv' /\ FileKept
  OBVIOUS
<1>1. CASE Grow
  BY <1>1, GrowKeeps, SameFileKept DEF Grow
<1>2. CASE Start
  BY <1>2, StartKeeps
<1>3. CASE \E d \in DEX : Begins(d)
  BY <1>3, BeginsKeeps
<1>4. CASE \/ ListV2Pairs \/ ListSolidlyPools \/ ListSlipstreamPools \/ ListTraderJoePairs
           \/ ListCurvePools
  BY <1>4, ListsKeeps
  DEF ListV2Pairs, ListSolidlyPools, ListSlipstreamPools, ListTraderJoePairs, ListCurvePools
<1>5. CASE LogsAnswered
  BY <1>5, LogsAnsweredKeeps
<1>6. CASE LogsFail
  BY <1>6, LogsFailKeeps
<1>7. CASE LogsGiveUp
  BY <1>7, ExitKeeps DEF LogsGiveUp
<1>8. CASE ListingDone
  BY <1>8, ListingDoneKeeps
<1>9. CASE SeedSolidly \/ SeedSlipstream \/ SeedV3
  BY <1>9, AddSeedsKeeps DEF SeedSolidly, SeedSlipstream, SeedV3
<1>10. CASE SeedTraderJoe
  BY <1>10, SeedTraderJoeKeeps
<1>11. CASE SeedsFail
  BY <1>11, ExitKeeps DEF SeedsFail
<1>12. CASE End
  BY <1>12, EndKeeps
<1>13. CASE Crash
  BY <1>13, ExitKeeps DEF Crash
<1>14. CASE UNCHANGED vars
  <2>1. /\ UNCHANGED <<config, height, born, file, pc, latest, cache, next, scan, excused>>
        /\ DEX' = DEX
    BY <1>14 DEF vars, chainVars, DEX
  <2>2. Types' /\ EntriesComplete'
    BY <2>1 DEF ScanInv, Types, IsEntry, InScan, EntriesComplete, PassedIsIn, Passed
  <2>3. ScanComplete' /\ FileInMemory'
    BY <2>1 DEF ScanInv, ScanComplete, InScan, Settled, FileInMemory
  <2> QED
    BY <2>1, <2>2, <2>3, SameFileKept DEF ScanInv
<1> QED
  BY <1>1, <1>2, <1>3, <1>4, <1>5, <1>6, <1>7, <1>8, <1>9, <1>10, <1>11, <1>12, <1>13, <1>14
  DEF Next

\* The invariant holds in every run of the scanner.
THEOREM ScanInvariance == Spec => []ScanInv
<1>1. ScanInv /\ [Next]_vars => ScanInv'
  BY StepKeeps
<1> QED
  BY <1>1, InvInit, PTL DEF Spec

\* The cursor in the file passes over no pool a node answered for.
THEOREM CursorPassesNothingOver == Spec => []NothingPassedOver
<1>1. ScanInv => NothingPassedOver
  <2> SUFFICES ASSUME ScanInv, NEW d \in DEX, file[d].cached
               PROVE  ByCursor(d) \subseteq {p.id : p \in file[d].pools} \union excused[d]
    BY DEF NothingPassedOver
  <2>1. ByCursor(d) = Passed(d, file[d])
    BY DEF ByCursor, Passed
  <2>2. PassedIsIn(d, file[d])
    BY DEF ScanInv, EntriesComplete
  <2> QED
    BY <2>1, <2>2 DEF PassedIsIn, Ids
<1> QED
  BY <1>1, ScanInvariance, PTL

\* Neither a restart nor a failed or lagging scan costs the file a pool.
THEOREM FilesKeepPools == Spec => KeptInFile
<1>1. ScanInv /\ [Next]_vars =>
        [\A d \in DEX : config[d] # "lb_pairs" =>
           \A p \in file[d].pools : \E q \in file'[d].pools :
              q.id = p.id /\ (p.priority => q.priority)]_vars
  BY StepKeeps DEF FileKept, Keeps
<1> QED
  BY <1>1, ScanInvariance, PTL DEF Spec, KeptInFile

=============================================================================

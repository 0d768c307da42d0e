------------------------ MODULE PoolPatchesProofs ------------------------
(***************************************************************************)
(* Proof that batches of patches and reads lose no log beyond the excused  *)
(* ones, for all pools, every number of logs per block and requests per    *)
(* read, and every lag of the nodes.                                       *)
(***************************************************************************)
EXTENDS PoolPatches, FiniteSetTheorems, TLAPS

\* Logs are ordered by block, and none is above the head.
LogsOrdered ==
    \A l \in 1..Len(logs) :
        /\ logs[l].height <= height
        /\ \A m \in 1..l : logs[m].height <= logs[l].height

\* The parts f of pool p contain all logs it should.
NoneMissing(p, f) ==
    \A l \in LogsOf(p) \ excused :
        logs[l].height <= cursor => \A k \in DOMAIN f : f[k][l] >= 1

\* While a snapshot is built, what has been patched or read, and the parts of
\* the pool that is being read, miss nothing either.
WorkMissesNothing ==
    pc = "refresh" =>
        /\ \A p \in Pools : (\A i \in 1..Len(toRead) : toRead[i] # p) => NoneMissing(p, working[p])
        /\ toRead # <<>> => NoneMissing(Head(toRead), reading)

-----------------------------------------------------------------------------
(* Lemmas about the operators *)

\* The orders in which pools are read are sequences of exactly these pools.
LEMMA OrdersAre ==
    ASSUME NEW S \in SUBSET Pools, NEW order \in Orders(S)
    PROVE  /\ order \in Seq(Pools)
           /\ \A i \in 1..Len(order) : order[i] \in S
           /\ \A p \in S : \E i \in 1..Len(order) : order[i] = p
<1>1. Cardinality(S) \in Nat
  BY PoolsAssumption, FS_Subset, FS_CardinalityType
<1>2. order \in [1..Cardinality(S) -> S] /\ \A p \in S : \E i \in DOMAIN order : order[i] = p
  BY DEF Orders
<1>3. order \in Seq(S) /\ Len(order) = Cardinality(S)
  BY <1>1, <1>2
<1> QED
  BY <1>1, <1>2, <1>3

\* A set of positions, as a part
LEMMA ExactlyIs ==
    ASSUME NEW S
    PROVE  /\ Exactly(S) \in Part
           /\ \A l \in Positions : Exactly(S)[l] = IF l \in S THEN 1 ELSE 0
BY DEF Exactly, Part, Positions

\* The logs up to a block, as a part
LEMMA StateAtIsPart ==
    ASSUME NEW p, NEW h
    PROVE  StateAt(p, h) \in Part
BY ExactlyIs DEF StateAt

\* A patch leaves a pool with its number of parts.
LEMMA PatchedIs ==
    ASSUME PoolsTypeOK, NEW p \in Pools, NEW l \in 1..Len(logs)
    PROVE  /\ Patched(p, l) \in Seq(Part)
           /\ Len(Patched(p, l)) = Len(pools[p])
<1>1. pools[p] \in Seq(Part) /\ l \in Positions
  <2>1. MaxLogs \in Nat /\ logs \in Seq(Log) /\ Len(logs) <= MaxLogs
    BY PoolsAssumption DEF PoolsTypeOK
  <2> QED
    BY <2>1 DEF PoolsTypeOK, PoolStates, Positions
<1>2. DOMAIN pools[p] = 1..Len(pools[p]) /\ Len(pools[p]) \in Nat
  BY <1>1
<1>3. \A k \in 1..Len(pools[p]) : [pools[p][k] EXCEPT ![l] = @ + 1] \in Part
  BY <1>1 DEF Part
<1>4. Exactly({m \in LogsOf(p) : m <= l}) \in Part
  BY ExactlyIs
<1>5. CASE logs[l].patch = "add"
  <2>1. Patched(p, l) = [k \in 1..Len(pools[p]) |-> [pools[p][k] EXCEPT ![l] = @ + 1]]
    BY <1>2, <1>5 DEF Patched
  <2> QED
    BY <2>1, <1>2, <1>3
<1>6. CASE logs[l].patch # "add"
  <2>1. Patched(p, l) = [k \in 1..Len(pools[p]) |-> Exactly({m \in LogsOf(p) : m <= l})]
    BY <1>2, <1>6 DEF Patched
  <2> QED
    BY <2>1, <1>2, <1>4
<1> QED
  BY <1>5, <1>6

\* The triggers of a batch are for pools, and name logs of them.
LEMMA TriggersAre ==
    ASSUME PoolsTypeOK, NEW S \in SUBSET (1..Len(logs)), NEW triggers \in [Touched(S) -> S],
           IsTriggers(triggers, S)
    PROVE  /\ Touched(S) \subseteq Pools
           /\ FullRefresh(triggers) \subseteq Touched(S)
           /\ \A p \in Touched(S) : triggers[p] \in S /\ logs[triggers[p]].pool = p
<1>1. \A l \in 1..Len(logs) : logs[l] \in Log /\ logs[l].pool \in Pools
  BY DEF PoolsTypeOK, Log
<1>2. Touched(S) \subseteq Pools
  BY <1>1 DEF Touched
<1>3. \A p \in Touched(S) : logs[triggers[p]].pool = p
  BY DEF IsTriggers, Competing
<1> QED
  BY <1>2, <1>3 DEF FullRefresh

-----------------------------------------------------------------------------
(* Type correctness *)

\* What bootstrap leaves behind has its type.
LEMMA InitType == Init => PoolsTypeOK
<1> SUFFICES ASSUME Init
             PROVE  PoolsTypeOK
  OBVIOUS
<1>1. /\ height \in 0..MaxHeight
      /\ pc \in {"poll", "refresh", "stopped"}
      /\ cursor \in 0..height
      /\ start \in 0..height
      /\ excused \subseteq 1..Len(logs)
      /\ toRead \in Seq(Pools) /\ toRead = <<>>
      /\ reading \in Seq(Part) /\ Len(reading) = 0
  BY PoolsAssumption DEF Init
<1>2. logs \in Seq(Log) /\ Len(logs) <= MaxLogs
  <2>1. PICK n \in 0..MaxBlockLogs :
            n <= MaxLogs * height /\ logs \in [1..n -> {l \in Log : l.height = height}]
    BY DEF Init
  <2>2. n \in Nat /\ n <= MaxLogs
    BY <2>1, PoolsAssumption DEF Init
  <2> QED
    BY <2>1, <2>2
<1>3. pools \in PoolStates
  <2>1. PICK at \in [Pools -> 0..height] :
            pools = [p \in Pools |-> [k \in 1..Reads[p] |-> StateAt(p, at[p])]]
    BY DEF Init
  <2>2. ASSUME NEW p \in Pools
        PROVE  pools[p] \in Seq(Part) /\ Len(pools[p]) \in 1..Reads[p]
    <3>1. Reads[p] \in Nat \ {0}
      BY PoolsAssumption
    <3>2. pools[p] = [k \in 1..Reads[p] |-> StateAt(p, at[p])]
      BY <2>1
    <3> QED
      BY <3>1, <3>2, StateAtIsPart
  <2> QED
    BY <2>1, <2>2 DEF PoolStates
<1> QED
  BY <1>1, <1>2, <1>3 DEF PoolsTypeOK, Init

\* A block's logs are appended.
LEMMA GrowAppends ==
    ASSUME PoolsTypeOK, Grow
    PROVE  /\ logs' \in Seq(Log) /\ Len(logs') <= MaxLogs
           /\ Len(logs) <= Len(logs')
           /\ \A l \in 1..Len(logs) : logs'[l] = logs[l]
           /\ \A l \in 1..Len(logs') : l > Len(logs) => logs'[l].height = height + 1
<1>1. PICK n \in 0..MaxBlockLogs :
          /\ Len(logs) + n <= MaxLogs
          /\ \E new \in [1..n -> {l \in Log : l.height = height'}] : logs' = logs \o new
  BY DEF Grow
<1>2. PICK new \in [1..n -> {l \in Log : l.height = height'}] : logs' = logs \o new
  BY <1>1
<1>3. n \in Nat /\ new \in Seq({l \in Log : l.height = height'}) /\ Len(new) = n
  BY <1>2, PoolsAssumption
<1>4. new \in Seq(Log) /\ \A i \in 1..n : new[i].height = height + 1
  BY <1>2, <1>3 DEF Grow
<1>5. logs \in Seq(Log) /\ MaxLogs \in Nat
  BY PoolsAssumption DEF PoolsTypeOK
<1>6. logs' \in Seq(Log) /\ Len(logs') = Len(logs) + n
  <2>1. logs \o new \in Seq(Log) /\ Len(logs \o new) = Len(logs) + Len(new)
    BY <1>4, <1>5
  <2> QED
    BY <1>2, <1>3, <2>1
<1>7. \A l \in 1..Len(logs) : logs'[l] = logs[l]
  BY <1>2, <1>3, <1>5
<1>8. ASSUME NEW l \in 1..Len(logs'), l > Len(logs)
      PROVE  logs'[l].height = height + 1
  <2>1. l - Len(logs) \in 1..n /\ logs'[l] = new[l - Len(logs)]
    BY <1>2, <1>3, <1>5, <1>6, <1>8
  <2> QED
    BY <1>4, <2>1
<1>9. Len(logs) <= Len(logs') /\ Len(logs') <= MaxLogs
  BY <1>1, <1>3, <1>5, <1>6
<1> QED
  BY <1>6, <1>7, <1>8, <1>9

\* Every step of the chain and of the loop keeps the types.
LEMMA NextType == PoolsTypeOK /\ [Next]_vars => PoolsTypeOK'
<1> SUFFICES ASSUME PoolsTypeOK, [Next]_vars
             PROVE  PoolsTypeOK'
  OBVIOUS
<1>1. CASE Grow
  <2>1. height' \in 0..MaxHeight /\ height' = height + 1
    BY <1>1, PoolsAssumption DEF Grow, PoolsTypeOK
  <2>2. /\ logs' \in Seq(Log) /\ Len(logs') <= MaxLogs
        /\ Len(logs) \in Nat /\ Len(logs') \in Nat /\ Len(logs) <= Len(logs')
    BY <1>1, GrowAppends DEF PoolsTypeOK
  <2>3. UNCHANGED <<pc, cursor, pools, refreshVars, start, excused>>
    BY <1>1 DEF Grow
  <2>4. excused' \subseteq 1..Len(logs')
    BY <2>2, <2>3 DEF PoolsTypeOK
  <2>5. cursor' \in 0..height' /\ start' \in 0..height'
    BY <2>1, <2>3 DEF PoolsTypeOK
  <2> QED
    BY <2>1, <2>2, <2>3, <2>4, <2>5 DEF PoolsTypeOK, refreshVars
<1>2. ASSUME NEW latest \in 0..height, PollQuiet(latest)
      PROVE  PoolsTypeOK'
  BY <1>2 DEF PollQuiet, PoolsTypeOK, chainVars, refreshVars
<1>3. ASSUME NEW latest \in 0..height, PollTouched(latest)
      PROVE  PoolsTypeOK'
  <2> DEFINE S == Scanned(latest)
  <2>1. PICK triggers \in [Touched(S) -> S] :
            /\ IsTriggers(triggers, S)
            /\ working' = [p \in Pools |->
                              IF p \in Touched(S) \ FullRefresh(triggers)
                              THEN Patched(p, triggers[p]) ELSE pools[p]]
            /\ toRead' \in Orders(FullRefresh(triggers))
            /\ excused' = excused \union Passed(S, triggers)
    BY <1>3 DEF PollTouched
  <2>2. S \in SUBSET (1..Len(logs))
    BY DEF Scanned
  <2>3. /\ FullRefresh(triggers) \subseteq Pools
        /\ \A p \in Touched(S) : triggers[p] \in 1..Len(logs)
    BY <2>1, <2>2, TriggersAre
  <2>4. toRead' \in Seq(Pools)
    BY <2>1, <2>3, OrdersAre
  <2>5. working' \in PoolStates
    <3>1. ASSUME NEW p \in Pools
          PROVE  working'[p] \in Seq(Part) /\ Len(working'[p]) \in 1..Reads[p]
      <4>1. pools[p] \in Seq(Part) /\ Len(pools[p]) \in 1..Reads[p]
        BY DEF PoolsTypeOK, PoolStates
      <4>2. CASE p \in Touched(S) \ FullRefresh(triggers)
        BY <2>1, <2>3, <4>1, <4>2, PatchedIs
      <4>3. CASE p \notin Touched(S) \ FullRefresh(triggers)
        BY <2>1, <4>1, <4>3
      <4> QED
        BY <4>2, <4>3
    <3> QED
      BY <2>1, <3>1 DEF PoolStates
  <2>6. excused' \subseteq 1..Len(logs)
    BY <2>1, <2>2 DEF Passed, PoolsTypeOK
  <2>7. reading' = <<>> /\ reading' \in Seq(Part)
    <3>1. toRead = <<>> /\ Len(reading) <= 0
      BY <1>3 DEF PollTouched, PoolsTypeOK
    <3> QED
      BY <1>3, <3>1 DEF PollTouched, PoolsTypeOK
  <2>8. Len(reading') <= IF toRead' = <<>> THEN 0 ELSE Reads[Head(toRead')]
    BY <2>4, <2>7, PoolsAssumption
  <2> QED
    BY <1>3, <2>4, <2>5, <2>6, <2>7, <2>8 DEF PollTouched, PoolsTypeOK, chainVars
<1>4. CASE ReadPart
  <2>1. PICK h \in Answers : reading' = Append(reading, StateAt(Head(toRead), h))
    BY <1>4 DEF ReadPart
  <2>2. reading' \in Seq(Part) /\ Len(reading') = Len(reading) + 1
    BY <2>1, StateAtIsPart DEF PoolsTypeOK
  <2>3. Reads[Head(toRead)] \in Nat /\ Len(reading) < Reads[Head(toRead)] /\ toRead # <<>>
    BY <1>4, PoolsAssumption DEF ReadPart, PoolsTypeOK
  <2>4. excused' \subseteq 1..Len(logs)
    BY <1>4 DEF ReadPart, PoolsTypeOK, LogsOf
  <2> QED
    BY <1>4, <2>2, <2>3, <2>4 DEF ReadPart, PoolsTypeOK, chainVars
<1>5. CASE ReadAdmitted
  <2>1. Head(toRead) \in Pools /\ Tail(toRead) \in Seq(Pools) /\ toRead # <<>>
    BY <1>5 DEF ReadAdmitted, PoolsTypeOK
  <2>2. Len(reading) \in 1..Reads[Head(toRead)]
    BY <1>5, <2>1, PoolsAssumption DEF ReadAdmitted, HasRead, Complete, PoolsTypeOK
  <2>3. working' \in PoolStates
    BY <1>5, <2>1, <2>2 DEF ReadAdmitted, PoolsTypeOK, PoolStates
  <2>4. Len(reading') <= IF toRead' = <<>> THEN 0 ELSE Reads[Head(toRead')]
    BY <1>5, <2>1, PoolsAssumption DEF ReadAdmitted
  <2> QED
    BY <1>5, <2>1, <2>3, <2>4 DEF ReadAdmitted, PoolsTypeOK, chainVars
<1>6. CASE ReadRefused
  <2>1. Head(toRead) \in Pools /\ Tail(toRead) \in Seq(Pools)
    BY <1>6 DEF ReadRefused, PoolsTypeOK
  <2>2. Len(reading') <= IF toRead' = <<>> THEN 0 ELSE Reads[Head(toRead')]
    BY <1>6, <2>1, PoolsAssumption DEF ReadRefused
  <2>3. excused' \subseteq 1..Len(logs)
    BY <1>6 DEF ReadRefused, PoolsTypeOK, LogsOf
  <2> QED
    BY <1>6, <2>1, <2>2, <2>3 DEF ReadRefused, PoolsTypeOK, chainVars
<1>7. CASE RefreshFails
  BY <1>7 DEF RefreshFails, PoolsTypeOK, chainVars, refreshVars
<1>8. CASE Publish
  BY <1>8 DEF Publish, PoolsTypeOK, chainVars, refreshVars
<1>9. CASE UNCHANGED vars
  BY <1>9 DEF vars, PoolsTypeOK, chainVars, refreshVars
<1> QED
  BY <1>1, <1>2, <1>3, <1>4, <1>5, <1>6, <1>7, <1>8, <1>9 DEF Next, Refresh

\* Every variable keeps its type; in particular every published pool keeps at
\* least one part and never has more than a read has requests.
THEOREM PoolsTypeCorrect == Spec => []PoolsTypeOK
BY InitType, NextType, PTL DEF Spec

-----------------------------------------------------------------------------
(* The order of the logs *)

\* At the start all logs are of one block.
LEMMA InitOrdered == Init => LogsOrdered
<1> SUFFICES ASSUME Init
             PROVE  LogsOrdered
  OBVIOUS
<1>1. PICK n \in 0..MaxBlockLogs : logs \in [1..n -> {l \in Log : l.height = height}]
  BY DEF Init
<1>2. n \in Nat
  BY <1>1, PoolsAssumption
<1>3. Len(logs) = n /\ \A l \in 1..n : logs[l].height = height
  BY <1>1, <1>2
<1>4. height \in Nat
  BY DEF Init
<1> QED
  BY <1>2, <1>3, <1>4 DEF LogsOrdered

\* Only Grow adds logs, and those are of a higher block.
LEMMA NextOrdered == PoolsTypeOK /\ LogsOrdered /\ [Next]_vars => LogsOrdered'
<1> SUFFICES ASSUME PoolsTypeOK, LogsOrdered, [Next]_vars
             PROVE  LogsOrdered'
  OBVIOUS
<1>1. CASE Grow
  <2>1. height' = height + 1 /\ height \in Nat /\ Len(logs) \in Nat /\ Len(logs') \in Nat
    BY <1>1, GrowAppends DEF Grow, PoolsTypeOK
  <2>2. ASSUME NEW l \in 1..Len(logs')
        PROVE  /\ logs'[l].height <= height'
               /\ \A m \in 1..l : logs'[m].height <= logs'[l].height
    <3>1. CASE l <= Len(logs)
      <4>1. \A m \in 1..l : m \in 1..Len(logs) /\ logs'[m] = logs[m]
        BY <1>1, <2>1, <3>1, GrowAppends
      <4>2. logs[l].height \in Nat /\ logs[l].height <= height
        BY <2>1, <3>1 DEF LogsOrdered, PoolsTypeOK, Log
      <4> QED
        BY <2>1, <3>1, <4>1, <4>2 DEF LogsOrdered
    <3>2. CASE l > Len(logs)
      <4>1. logs'[l].height = height + 1
        BY <1>1, <3>2, GrowAppends
      <4>2. ASSUME NEW m \in 1..l
            PROVE  logs'[m].height <= height + 1
        <5>1. CASE m <= Len(logs)
          <6>1. m \in 1..Len(logs) /\ logs[m] \in Log
            BY <2>1, <5>1 DEF PoolsTypeOK
          <6>2. logs'[m] = logs[m] /\ logs[m].height <= height /\ logs[m].height \in Nat
            BY <1>1, <6>1, GrowAppends DEF LogsOrdered, Log
          <6> QED
            BY <2>1, <6>2
        <5>2. CASE m > Len(logs)
          BY <1>1, <2>1, <5>2, GrowAppends
        <5> QED
          BY <2>1, <5>1, <5>2
      <4> QED
        BY <2>1, <4>1, <4>2
    <3> QED
      BY <2>1, <3>1, <3>2
  <2> QED
    BY <2>2 DEF LogsOrdered
<1>2. CASE UNCHANGED chainVars
  BY <1>2 DEF chainVars, LogsOrdered
<1>3. Grow \/ UNCHANGED chainVars
  BY DEF Next, PollQuiet, PollTouched, Refresh, ReadPart, ReadAdmitted, ReadRefused,
         RefreshFails, Publish, vars
<1> QED
  BY <1>1, <1>2, <1>3

-----------------------------------------------------------------------------
(* Nothing but the excused is missing *)

PInv ==
    /\ PoolsTypeOK
    /\ LogsOrdered
    /\ OnlyExcusedMissing
    /\ WorkMissesNothing

\* OnlyExcusedMissing, pool by pool
LEMMA OnlyExcusedIs ==
    OnlyExcusedMissing <=> (pc = "poll" => \A p \in Pools : NoneMissing(p, pools[p]))
BY DEF OnlyExcusedMissing, NoneMissing

\* No log has been scanned at the start.
LEMMA InitNothingMissing == Init => OnlyExcusedMissing /\ WorkMissesNothing
<1> SUFFICES ASSUME Init
             PROVE  OnlyExcusedMissing /\ WorkMissesNothing
  OBVIOUS
<1>1. pc = "poll" /\ cursor = 0
  BY DEF Init
<1>2. \A l \in 1..Len(logs) : logs[l].height \in Nat \ {0}
  BY InitType DEF PoolsTypeOK, Log
<1> QED
  BY <1>1, <1>2 DEF OnlyExcusedMissing, WorkMissesNothing, LogsOf

\* What misses nothing still does when the chain has grown: new logs are above
\* the cursor.
LEMMA GrowMissesNothing ==
    ASSUME PoolsTypeOK, Grow, NEW p, NEW f, NoneMissing(p, f)
    PROVE  \A l \in LogsOf(p)' \ excused' :
               logs'[l].height <= cursor' => \A k \in DOMAIN f : f[k][l] >= 1
<1> SUFFICES ASSUME NEW l \in LogsOf(p)' \ excused', logs'[l].height <= cursor'
             PROVE  \A k \in DOMAIN f : f[k][l] >= 1
  OBVIOUS
<1>1. cursor' = cursor /\ excused' = excused /\ cursor <= height /\ cursor \in Nat /\ height \in Nat
  BY DEF Grow, PoolsTypeOK
<1>2. l \in 1..Len(logs') /\ logs'[l].pool = p
  BY DEF LogsOf
<1>3. l <= Len(logs)
  <2>1. ~(l > Len(logs))
    <3>1. l > Len(logs) => logs'[l].height = height + 1
      BY <1>2, GrowAppends
    <3> QED
      BY <1>1, <3>1
  <2> QED
    BY <1>2, <2>1 DEF PoolsTypeOK
<1>4. l \in 1..Len(logs) /\ logs'[l] = logs[l]
  BY <1>2, <1>3, GrowAppends DEF PoolsTypeOK
<1> QED
  BY <1>1, <1>2, <1>4 DEF NoneMissing, LogsOf

\* The batch of a poll: what was patched, and what was not touched, misses no
\* log up to the latest block.
LEMMA BatchMissesNothing ==
    ASSUME PoolsTypeOK, LogsOrdered, NEW latest \in Nat,
           NEW S, S = Scanned(latest),
           NEW triggers \in [Touched(S) -> S], IsTriggers(triggers, S),
           NEW p \in Pools, NoneMissing(p, pools[p]), p \notin FullRefresh(triggers),
           NEW l \in LogsOf(p) \ (excused \union Passed(S, triggers)),
           logs[l].height <= latest,
           NEW f, f = IF p \in Touched(S) \ FullRefresh(triggers)
                      THEN Patched(p, triggers[p]) ELSE pools[p],
           NEW k \in DOMAIN f
    PROVE  f[k][l] >= 1
<1>1. /\ S \in SUBSET (1..Len(logs)) /\ l \in 1..Len(logs) /\ logs[l].pool = p
      /\ \A m \in S : logs[m].height > cursor
  BY DEF Scanned, LogsOf
<1>2. \A m \in 1..Len(logs) : logs[m].height \in Nat
  BY DEF PoolsTypeOK, Log
<1>3. cursor \in Nat /\ l \in Positions
  <2>1. MaxLogs \in Nat /\ Len(logs) \in Nat /\ Len(logs) <= MaxLogs
    BY PoolsAssumption DEF PoolsTypeOK
  <2> QED
    BY <1>1, <2>1 DEF PoolsTypeOK, Positions
<1>4. /\ pools[p] \in Seq(Part)
      /\ \A i \in DOMAIN pools[p] : pools[p][i] \in [Positions -> Nat]
  <2>1. pools[p] \in Seq(Part)
    BY DEF PoolsTypeOK, PoolStates
  <2>2. \A i \in DOMAIN pools[p] : pools[p][i] \in Part
    BY <2>1
  <2> QED
    BY <2>1, <2>2 DEF Part
<1>5. CASE p \notin Touched(S)
  <2>1. l \notin S
    BY <1>1, <1>5 DEF Touched
  <2>2. logs[l].height <= cursor
    BY <1>1, <1>2, <1>3, <2>1 DEF Scanned
  <2> QED
    BY <1>5, <2>2 DEF NoneMissing
<1>6. CASE p \in Touched(S)
  <2> DEFINE t == triggers[p]
  <2>1. t \in S /\ t \in 1..Len(logs) /\ logs[t].pool = p /\ f = Patched(p, t)
    BY <1>1, <1>6, TriggersAre
  <2>2. ASSUME l \in S
        PROVE  l = t
    <3>1. logs[t].patch # "none" /\ p \in DOMAIN triggers
      BY <1>6 DEF FullRefresh
    <3>2. logs[l].patch # "none"
      <4>1. SUFFICES ASSUME logs[l].patch = "none"
                     PROVE  FALSE
        OBVIOUS
      <4>2. \A m \in Competing(p, S) : logs[m].patch = "none"
        BY <1>1, <2>2, <4>1 DEF Competing
      <4> QED
        BY <1>6, <3>1, <4>2 DEF IsTriggers
    <3> QED
      BY <1>1, <2>2, <3>2 DEF Passed
  <2>3. l \in S \/ logs[l].height <= cursor
    BY <1>1, <1>2, <1>3 DEF Scanned
  <2>4. ASSUME logs[l].height <= cursor
        PROVE  l <= t
    <3>1. SUFFICES ASSUME t \in 1..l
                   PROVE  FALSE
      BY <1>1, <2>1
    <3>2. logs[t].height <= logs[l].height /\ logs[t].height > cursor
      BY <1>1, <2>1, <3>1 DEF LogsOrdered
    <3> QED
      BY <1>1, <1>2, <1>3, <2>1, <2>4, <3>2
  <2>5. CASE logs[t].patch = "add"
    <3>1. f = [i \in DOMAIN pools[p] |-> [pools[p][i] EXCEPT ![t] = @ + 1]]
      BY <2>1, <2>5 DEF Patched
    <3>2. k \in DOMAIN pools[p] /\ f[k] = [pools[p][k] EXCEPT ![t] = @ + 1]
      BY <3>1
    <3>3. pools[p][k] \in [Positions -> Nat]
      BY <1>4, <3>2
    <3>4. CASE l = t
      BY <1>3, <3>2, <3>3, <3>4
    <3>5. CASE l # t
      <4>1. f[k][l] = pools[p][k][l]
        BY <1>3, <3>2, <3>3, <3>5
      <4>2. logs[l].height <= cursor
        BY <2>2, <2>3, <3>5
      <4> QED
        BY <3>2, <4>1, <4>2 DEF NoneMissing
    <3> QED
      BY <3>4, <3>5
  <2>6. CASE logs[t].patch # "add"
    <3>1. f = [i \in DOMAIN pools[p] |-> Exactly({m \in LogsOf(p) : m <= t})]
      BY <2>1, <2>6 DEF Patched
    <3>2. f[k] = Exactly({m \in LogsOf(p) : m <= t})
      BY <3>1
    <3>3. l <= t
      BY <1>1, <2>2, <2>3, <2>4
    <3> QED
      BY <1>3, <3>2, <3>3, ExactlyIs
  <2> QED
    BY <2>5, <2>6
<1> QED
  BY <1>5, <1>6

\* A request's answer misses only logs that it excuses.
LEMMA AnswerMissesNothing ==
    ASSUME PoolsTypeOK, NEW p, NEW h \in Answers, NEW l \in LogsOf(p),
           logs[l].height <= cursor,
           l \notin {m \in LogsOf(p) : h < logs[m].height /\ logs[m].height <= cursor}
    PROVE  StateAt(p, h)[l] >= 1
<1>1. logs[l].height \in Nat /\ h \in Nat
  BY DEF PoolsTypeOK, Log, LogsOf, Answers
<1>2. l \in Positions
  <2>1. MaxLogs \in Nat /\ Len(logs) \in Nat /\ Len(logs) <= MaxLogs
    BY PoolsAssumption DEF PoolsTypeOK
  <2> QED
    BY <2>1 DEF LogsOf, Positions
<1>3. logs[l].height <= h
  BY <1>1
<1> QED
  BY <1>2, <1>3, ExactlyIs DEF StateAt

\* No step of a poll or a refresh loses a log without excusing it.
LEMMA NextNothingMissing == PInv /\ [Next]_vars => OnlyExcusedMissing' /\ WorkMissesNothing'
<1> SUFFICES ASSUME PInv, [Next]_vars
             PROVE  OnlyExcusedMissing' /\ WorkMissesNothing'
  OBVIOUS
<1> USE DEF PInv
<1>1. CASE Grow
  <2>1. UNCHANGED <<pc, pools, working, toRead, reading>>
    BY <1>1 DEF Grow, refreshVars
  <2>2. \A p, f : NoneMissing(p, f) =>
            \A l \in LogsOf(p)' \ excused' :
                logs'[l].height <= cursor' => \A k \in DOMAIN f : f[k][l] >= 1
    BY <1>1, GrowMissesNothing
  <2>3. OnlyExcusedMissing'
    BY <2>1, <2>2, OnlyExcusedIs DEF OnlyExcusedMissing
  <2>4. WorkMissesNothing'
    BY <2>1, <2>2 DEF WorkMissesNothing, NoneMissing
  <2> QED
    BY <2>3, <2>4
<1>2. ASSUME NEW latest \in 0..height, PollQuiet(latest)
      PROVE  OnlyExcusedMissing' /\ WorkMissesNothing'
  <2>1. /\ pc = "poll" /\ pc' = pc /\ pools' = pools /\ excused' = excused
        /\ logs' = logs /\ cursor' = latest /\ Scanned(latest) = {}
    BY <1>2 DEF PollQuiet, chainVars
  <2>2. ASSUME NEW l \in 1..Len(logs), logs[l].height <= latest
        PROVE  logs[l].height <= cursor
    <3>1. logs[l].height \in Nat /\ cursor \in Nat
      BY DEF PoolsTypeOK, Log
    <3> QED
      BY <2>1, <2>2, <3>1 DEF Scanned
  <2> QED
    BY <2>1, <2>2 DEF OnlyExcusedMissing, WorkMissesNothing, LogsOf
<1>3. ASSUME NEW latest \in 0..height, PollTouched(latest)
      PROVE  OnlyExcusedMissing' /\ WorkMissesNothing'
  <2> DEFINE S == Scanned(latest)
  <2>1. PICK triggers \in [Touched(S) -> S] :
            /\ IsTriggers(triggers, S)
            /\ working' = [p \in Pools |->
                              IF p \in Touched(S) \ FullRefresh(triggers)
                              THEN Patched(p, triggers[p]) ELSE pools[p]]
            /\ toRead' \in Orders(FullRefresh(triggers))
            /\ excused' = excused \union Passed(S, triggers)
    BY <1>3 DEF PollTouched
  <2>2. /\ pc = "poll" /\ pc' = "refresh" /\ logs' = logs /\ cursor' = latest
        /\ reading' = reading
    BY <1>3 DEF PollTouched, chainVars
  <2>3. reading = <<>> /\ \A p \in Pools : NoneMissing(p, pools[p])
    <3>1. toRead = <<>> /\ Len(reading) <= 0
      BY <2>2 DEF PoolsTypeOK
    <3> QED
      BY <2>2, <3>1, OnlyExcusedIs DEF PoolsTypeOK
  <2>4. FullRefresh(triggers) \in SUBSET Pools
    BY <2>1, TriggersAre DEF Scanned
  <2>5. ASSUME NEW p \in Pools, \A i \in 1..Len(toRead') : toRead'[i] # p
        PROVE  NoneMissing(p, working[p])'
    <3>1. p \notin FullRefresh(triggers)
      BY <2>1, <2>4, <2>5, OrdersAre
    <3>2. working'[p] = IF p \in Touched(S) \ FullRefresh(triggers)
                        THEN Patched(p, triggers[p]) ELSE pools[p]
      BY <2>1
    <3>3. latest \in Nat
      BY DEF PoolsTypeOK
    <3>4. ASSUME NEW l \in LogsOf(p) \ (excused \union Passed(S, triggers)),
                 logs[l].height <= latest, NEW k \in DOMAIN working'[p]
          PROVE  working'[p][k][l] >= 1
      BY <2>1, <2>3, <3>1, <3>2, <3>3, <3>4, BatchMissesNothing
    <3> QED
      BY <2>1, <2>2, <3>4 DEF NoneMissing, LogsOf
  <2>6. NoneMissing(Head(toRead), reading)'
    BY <2>2, <2>3 DEF NoneMissing
  <2> QED
    BY <2>2, <2>5, <2>6 DEF OnlyExcusedMissing, WorkMissesNothing
<1>4. CASE ReadPart
  <2>1. PICK h \in Answers :
            /\ reading' = Append(reading, StateAt(Head(toRead), h))
            /\ excused' = excused \union
                    {l \in LogsOf(Head(toRead)) : h < logs[l].height /\ logs[l].height <= cursor}
    BY <1>4 DEF ReadPart
  <2>2. /\ pc = "refresh" /\ toRead # <<>>
        /\ UNCHANGED <<chainVars, pc, cursor, pools, working, toRead, start>>
    BY <1>4 DEF ReadPart
  <2>3. NoneMissing(Head(toRead), reading)
    BY <2>2 DEF WorkMissesNothing
  <2>4. ASSUME NEW l \in LogsOf(Head(toRead)) \ excused', logs[l].height <= cursor,
               NEW k \in DOMAIN reading'
        PROVE  reading'[k][l] >= 1
    <3>1. reading \in Seq(Part) /\ Len(reading) \in Nat
      BY DEF PoolsTypeOK
    <3>2. CASE k \in DOMAIN reading
      <4>1. reading'[k] = reading[k]
        BY <2>1, <3>1, <3>2
      <4> QED
        BY <2>1, <2>3, <2>4, <3>2, <4>1 DEF NoneMissing
    <3>3. CASE k \notin DOMAIN reading
      <4>1. reading'[k] = StateAt(Head(toRead), h)
        BY <2>1, <3>1, <3>3
      <4> QED
        BY <2>1, <2>4, <4>1, AnswerMissesNothing
    <3> QED
      BY <3>2, <3>3
  <2>5. NoneMissing(Head(toRead), reading)'
    BY <2>2, <2>4 DEF NoneMissing, LogsOf, chainVars
  <2>6. \A p \in Pools : (\A i \in 1..Len(toRead) : toRead[i] # p) => NoneMissing(p, working[p])'
    BY <2>1, <2>2 DEF WorkMissesNothing, NoneMissing, LogsOf, chainVars
  <2> QED
    BY <2>2, <2>5, <2>6 DEF OnlyExcusedMissing, WorkMissesNothing
<1>5. CASE ReadAdmitted
  <2>1. /\ pc = "refresh" /\ toRead # <<>>
        /\ working' = [working EXCEPT ![Head(toRead)] = reading]
        /\ toRead' = Tail(toRead) /\ reading' = <<>>
        /\ UNCHANGED <<logs, pc, cursor, excused>>
    BY <1>5 DEF ReadAdmitted, chainVars
  <2>2. toRead \in Seq(Pools) /\ working \in [Pools -> Seq(Part)]
    BY DEF PoolsTypeOK, PoolStates
  <2>3. ASSUME NEW p \in Pools, \A i \in 1..Len(toRead') : toRead'[i] # p
        PROVE  NoneMissing(p, working'[p])
    <3>1. CASE p = Head(toRead)
      BY <2>1, <2>2, <3>1 DEF WorkMissesNothing
    <3>2. CASE p # Head(toRead)
      <4>1. \A i \in 1..Len(toRead) : toRead[i] # p
        <5>1. SUFFICES ASSUME NEW i \in 1..Len(toRead), toRead[i] = p
                       PROVE  FALSE
          OBVIOUS
        <5>2. i # 1
          BY <2>1, <2>2, <3>2, <5>1
        <5>3. i - 1 \in 1..Len(toRead') /\ toRead'[i - 1] = p
          BY <2>1, <2>2, <5>1, <5>2
        <5> QED
          BY <2>3, <5>3
      <4> QED
        BY <2>1, <2>2, <3>2, <4>1 DEF WorkMissesNothing
    <3> QED
      BY <3>1, <3>2
  <2> QED
    BY <2>1, <2>3 DEF OnlyExcusedMissing, WorkMissesNothing, NoneMissing, LogsOf
<1>6. CASE ReadRefused
  <2>1. /\ pc = "refresh" /\ toRead # <<>>
        /\ excused' = excused \union {l \in LogsOf(Head(toRead)) : logs[l].height <= cursor}
        /\ toRead' = Tail(toRead) /\ reading' = <<>>
        /\ UNCHANGED <<logs, pc, cursor, working>>
    BY <1>6 DEF ReadRefused, chainVars
  <2>2. toRead \in Seq(Pools)
    BY DEF PoolsTypeOK
  <2>3. ASSUME NEW p \in Pools, \A i \in 1..Len(toRead') : toRead'[i] # p,
               NEW l \in LogsOf(p) \ excused', logs[l].height <= cursor
        PROVE  \A k \in DOMAIN working[p] : working[p][k][l] >= 1
    <3>1. p # Head(toRead)
      BY <2>1, <2>3
    <3>2. \A i \in 1..Len(toRead) : toRead[i] # p
      <4>1. SUFFICES ASSUME NEW i \in 1..Len(toRead), toRead[i] = p
                     PROVE  FALSE
        OBVIOUS
      <4>2. i # 1
        BY <2>1, <2>2, <3>1, <4>1
      <4>3. i - 1 \in 1..Len(toRead') /\ toRead'[i - 1] = p
        BY <2>1, <2>2, <4>1, <4>2
      <4> QED
        BY <2>3, <4>3
    <3> QED
      BY <2>1, <2>3, <3>2 DEF WorkMissesNothing, NoneMissing
  <2> QED
    BY <2>1, <2>3 DEF OnlyExcusedMissing, WorkMissesNothing, NoneMissing, LogsOf
<1>7. CASE RefreshFails
  BY <1>7 DEF RefreshFails, OnlyExcusedMissing, WorkMissesNothing
<1>8. CASE Publish
  <2>1. /\ pc = "refresh" /\ toRead = <<>> /\ pools' = working /\ pc' = "poll"
        /\ UNCHANGED <<logs, cursor, excused>>
    BY <1>8 DEF Publish, chainVars
  <2>2. \A p \in Pools : NoneMissing(p, working[p])
    BY <2>1 DEF WorkMissesNothing
  <2> QED
    BY <2>1, <2>2 DEF OnlyExcusedMissing, WorkMissesNothing, NoneMissing, LogsOf
<1>9. CASE UNCHANGED vars
  BY <1>9 DEF vars, chainVars, refreshVars, OnlyExcusedMissing, WorkMissesNothing, NoneMissing,
              LogsOf
<1> QED
  BY <1>1, <1>2, <1>3, <1>4, <1>5, <1>6, <1>7, <1>8, <1>9 DEF Next, Refresh

\* The conjunction is an invariant of the loop.
LEMMA PoolsInvariance == Spec => []PInv
<1>1. Init => PInv
  BY InitType, InitOrdered, InitNothingMissing DEF PInv
<1>2. PInv /\ [Next]_vars => PInv'
  BY NextType, NextOrdered, NextNothingMissing DEF PInv
<1> QED
  BY <1>1, <1>2, PTL DEF Spec

\* The mix of patches and reads in a batch, and the logs that arrive during the
\* reads, lose no log of a pool but those the code leaves out by design.
THEOREM NothingElseMissing == Spec => []OnlyExcusedMissing
<1>1. PInv => OnlyExcusedMissing
  BY DEF PInv
<1> QED
  BY <1>1, PoolsInvariance, PTL

-----------------------------------------------------------------------------
(* Differences are added once *)

\* How often a log may be contained in a pool with differences: once from
\* bootstrap, if it is that old, and once when it has been scanned.
AllowedAdds(p, l) ==
    IF l \in LogsOf(p)
    THEN (IF logs[l].height <= start THEN 1 ELSE 0) + (IF logs[l].height <= cursor THEN 1 ELSE 0)
    ELSE 0

AddsWithin(f) ==
    \A p \in Pools : PatchesOf[p] = {"add"} =>
        \A l \in Positions : f[p][1][l] <= AllowedAdds(p, l)

\* Nor is a pool with differences ever read again.
NoAddsToRead == \A i \in 1..Len(toRead) : PatchesOf[toRead[i]] # {"add"}

AddsInv ==
    /\ AddsWithin(pools)
    /\ AddsWithin(working)
    /\ NoAddsToRead

\* Such a pool is one function from positions to counts.
LEMMA AddsAre ==
    ASSUME NEW f \in PoolStates, NEW p \in Pools, PatchesOf[p] = {"add"}
    PROVE  f[p][1] \in [Positions -> Nat] /\ 1 \in DOMAIN f[p]
<1>1. Reads[p] = 1
  BY PoolsAssumption
<1>2. f[p] \in Seq(Part) /\ Len(f[p]) \in 1..Reads[p]
  BY DEF PoolStates
<1>3. Len(f[p]) = 1
  BY <1>1, <1>2
<1>4. f[p][1] \in Part /\ 1 \in DOMAIN f[p]
  BY <1>2, <1>3
<1> QED
  BY <1>4 DEF Part

\* A log's block has a number.
LEMMA HeightsAre == PoolsTypeOK => \A l \in 1..Len(logs) : logs[l].height \in Nat
BY DEF PoolsTypeOK, Log

\* The allowance only grows: logs keep their place and the cursor advances.
LEMMA AllowanceGrows ==
    ASSUME PoolsTypeOK, NEW p, NEW l \in Positions,
           Len(logs) <= Len(logs'), \A m \in 1..Len(logs) : logs'[m] = logs[m],
           PoolsTypeOK', start' = start, cursor <= cursor'
    PROVE  AllowedAdds(p, l) \in Nat /\ AllowedAdds(p, l)' \in Nat
           /\ AllowedAdds(p, l) <= AllowedAdds(p, l)'
<1>1. /\ Len(logs) \in Nat /\ Len(logs') \in Nat /\ cursor \in Nat /\ cursor' \in Nat
      /\ \A m \in 1..Len(logs) : logs[m].height \in Nat
  <2>1. Len(logs) \in Nat /\ Len(logs') \in Nat
    BY DEF PoolsTypeOK
  <2>2. cursor \in Nat /\ cursor' \in Nat
    BY DEF PoolsTypeOK
  <2> QED
    BY <2>1, <2>2, HeightsAre
<1>2. l \in LogsOf(p) => l \in LogsOf(p)' /\ logs'[l] = logs[l]
  BY <1>1 DEF LogsOf
<1>3. l \in LogsOf(p) => logs[l].height \in Nat
  BY <1>1 DEF LogsOf
<1> QED
  BY <1>1, <1>2, <1>3 DEF AllowedAdds

\* Bootstrap has read each log at most once, and none above the start.
LEMMA InitAdds == Init => AddsInv
<1> SUFFICES ASSUME Init
             PROVE  AddsInv
  OBVIOUS
<1>1. PICK at \in [Pools -> 0..height] :
          pools = [p \in Pools |-> [k \in 1..Reads[p] |-> StateAt(p, at[p])]]
  BY DEF Init
<1>2. start = height /\ working = pools /\ toRead = <<>> /\ cursor = 0 /\ height \in Nat
  BY DEF Init
<1>3. ASSUME NEW p \in Pools, PatchesOf[p] = {"add"}, NEW l \in Positions
      PROVE  pools[p][1][l] <= AllowedAdds(p, l)
  <2>1. Reads[p] = 1
    BY <1>3, PoolsAssumption
  <2>2. pools[p][1] = StateAt(p, at[p])
    BY <1>1, <2>1
  <2>3. pools[p][1][l] = IF l \in LogsOf(p) /\ logs[l].height <= at[p] THEN 1 ELSE 0
    BY <2>2, ExactlyIs DEF StateAt
  <2>4. l \in LogsOf(p) => logs[l].height \in Nat \ {0}
    BY InitType DEF LogsOf, PoolsTypeOK, Log
  <2>5. at[p] \in Nat /\ at[p] <= height
    BY <1>2
  <2> QED
    BY <1>2, <2>3, <2>4, <2>5 DEF AllowedAdds
<1> QED
  BY <1>2, <1>3 DEF AddsInv, AddsWithin, NoAddsToRead

\* What is within its allowance stays there when the pools do not change.
LEMMA AddsStay ==
    ASSUME PoolsTypeOK, PoolsTypeOK', NEW f \in PoolStates, AddsWithin(f),
           Len(logs) <= Len(logs'), \A m \in 1..Len(logs) : logs'[m] = logs[m],
           start' = start, cursor <= cursor'
    PROVE  \A p \in Pools : PatchesOf[p] = {"add"} =>
               \A l \in Positions : f[p][1][l] <= AllowedAdds(p, l)'
<1> SUFFICES ASSUME NEW p \in Pools, PatchesOf[p] = {"add"}, NEW l \in Positions
             PROVE  f[p][1][l] <= AllowedAdds(p, l)'
  OBVIOUS
<1>1. f[p][1][l] \in Nat
  BY AddsAre
<1>2. f[p][1][l] <= AllowedAdds(p, l)
  BY DEF AddsWithin
<1>3. AllowedAdds(p, l) \in Nat /\ AllowedAdds(p, l)' \in Nat
      /\ AllowedAdds(p, l) <= AllowedAdds(p, l)'
  BY AllowanceGrows
<1> QED
  BY <1>1, <1>2, <1>3

\* A log is added only when the cursor passes it.
LEMMA NextAdds == PoolsTypeOK /\ AddsInv /\ [Next]_vars => AddsInv'
<1> SUFFICES ASSUME PoolsTypeOK, AddsInv, [Next]_vars
             PROVE  AddsInv'
  OBVIOUS
<1>1. PoolsTypeOK' /\ pools \in PoolStates /\ working \in PoolStates /\ cursor \in Nat
  BY NextType DEF PoolsTypeOK
<1>2. CASE Grow
  <2>1. /\ UNCHANGED <<cursor, pools, working, toRead, start>>
        /\ Len(logs) <= Len(logs') /\ \A m \in 1..Len(logs) : logs'[m] = logs[m]
    BY <1>2, GrowAppends DEF Grow, refreshVars
  <2>2. AddsWithin(pools)' /\ AddsWithin(working)'
    BY <1>1, <2>1, AddsStay DEF AddsInv, AddsWithin
  <2> QED
    BY <2>1, <2>2 DEF AddsInv, NoAddsToRead
<1>3. ASSUME NEW latest \in 0..height, PollQuiet(latest)
      PROVE  AddsInv'
  <2>1. /\ UNCHANGED <<logs, pools, working, toRead, start>>
        /\ cursor <= cursor'
    BY <1>1, <1>3 DEF PollQuiet, chainVars, refreshVars, PoolsTypeOK
  <2>2. Len(logs) <= Len(logs') /\ \A m \in 1..Len(logs) : logs'[m] = logs[m]
    BY <2>1 DEF PoolsTypeOK
  <2>3. AddsWithin(pools)' /\ AddsWithin(working)'
    BY <1>1, <2>1, <2>2, AddsStay DEF AddsInv, AddsWithin
  <2> QED
    BY <2>1, <2>3 DEF AddsInv, NoAddsToRead
<1>4. ASSUME NEW latest \in 0..height, PollTouched(latest)
      PROVE  AddsInv'
  <2> DEFINE S == Scanned(latest)
  <2>1. PICK triggers \in [Touched(S) -> S] :
            /\ IsTriggers(triggers, S)
            /\ working' = [p \in Pools |->
                              IF p \in Touched(S) \ FullRefresh(triggers)
                              THEN Patched(p, triggers[p]) ELSE pools[p]]
            /\ toRead' \in Orders(FullRefresh(triggers))
    BY <1>4 DEF PollTouched
  <2>2. S # {} /\ UNCHANGED <<logs, pools, start>> /\ cursor' = latest /\ latest \in Nat
    BY <1>4 DEF PollTouched, chainVars, PoolsTypeOK
  <2>3. cursor < cursor'
    <3>1. PICK l \in 1..Len(logs) : logs[l].height > cursor /\ logs[l].height <= latest
      BY <2>2 DEF Scanned
    <3>2. logs[l].height \in Nat
      BY DEF PoolsTypeOK, Log
    <3> QED
      BY <1>1, <2>2, <3>1, <3>2
  <2>4. /\ Touched(S) \subseteq Pools
        /\ FullRefresh(triggers) \subseteq Touched(S)
        /\ \A p \in Touched(S) : /\ triggers[p] \in S /\ triggers[p] \in 1..Len(logs)
                                 /\ logs[triggers[p]].pool = p
    BY <2>1, TriggersAre DEF Scanned
  <2>5. \A l \in 1..Len(logs) : logs[l].patch \in PatchesOf[logs[l].pool]
    BY DEF PoolsTypeOK, Log
  <2>6. AddsWithin(pools)'
    <3>1. Len(logs) <= Len(logs') /\ \A m \in 1..Len(logs) : logs'[m] = logs[m]
      BY <2>2 DEF PoolsTypeOK
    <3>2. cursor <= cursor' /\ AddsWithin(pools)
      BY <1>1, <2>2, <2>3 DEF AddsInv
    <3> QED
      BY <1>1, <2>2, <3>1, <3>2, AddsStay DEF AddsWithin
  <2>7. NoAddsToRead'
    <3>1. \A i \in 1..Len(toRead') : toRead'[i] \in FullRefresh(triggers)
      BY <2>1, <2>4, OrdersAre
    <3>2. \A p \in FullRefresh(triggers) : "none" \in PatchesOf[p]
      BY <2>4, <2>5 DEF FullRefresh
    <3> QED
      BY <3>1, <3>2 DEF NoAddsToRead
  <2>8. ASSUME NEW p \in Pools, PatchesOf[p] = {"add"}, NEW l \in Positions
        PROVE  working'[p][1][l] <= AllowedAdds(p, l)'
    <3>1. pools[p][1] \in [Positions -> Nat] /\ 1 \in DOMAIN pools[p]
      BY <1>1, <2>8, AddsAre
    <3>2. pools[p][1][l] <= AllowedAdds(p, l)'
      BY <2>2, <2>6, <2>8 DEF AddsWithin
    <3>3. CASE p \notin Touched(S) \ FullRefresh(triggers)
      BY <2>1, <3>2, <3>3
    <3>4. CASE p \in Touched(S) \ FullRefresh(triggers)
      <4> DEFINE t == triggers[p]
      <4>1. t \in S /\ t \in 1..Len(logs) /\ logs[t].pool = p /\ logs[t].patch = "add"
        BY <2>4, <2>5, <2>8, <3>4
      <4>2. working'[p] = [k \in DOMAIN pools[p] |-> [pools[p][k] EXCEPT ![t] = @ + 1]]
        BY <2>1, <3>4, <4>1 DEF Patched
      <4>3. working'[p][1] = [pools[p][1] EXCEPT ![t] = @ + 1]
        BY <3>1, <4>2
      <4>4. CASE l # t
        BY <3>1, <3>2, <4>3, <4>4
      <4>5. CASE l = t
        <5>1. /\ logs[t].height > cursor /\ logs[t].height <= latest /\ logs[t].height \in Nat
              /\ l \in LogsOf(p)
          BY <4>1, <4>5 DEF Scanned, LogsOf, PoolsTypeOK, Log
        <5>2. AllowedAdds(p, l) = IF logs[t].height <= start THEN 1 ELSE 0
          BY <1>1, <4>5, <5>1 DEF AllowedAdds
        <5>3. AllowedAdds(p, l)' = (IF logs[t].height <= start THEN 1 ELSE 0) + 1
          BY <2>2, <4>5, <5>1 DEF AllowedAdds, LogsOf
        <5>4. pools[p][1][l] <= AllowedAdds(p, l)
          BY <2>8 DEF AddsInv, AddsWithin
        <5>5. working'[p][1][l] = pools[p][1][l] + 1 /\ pools[p][1][l] \in Nat
          BY <3>1, <4>3, <4>5
        <5> QED
          BY <5>2, <5>3, <5>4, <5>5
      <4> QED
        BY <4>4, <4>5
    <3> QED
      BY <3>3, <3>4
  <2> QED
    BY <2>6, <2>7, <2>8 DEF AddsInv, AddsWithin
<1>5. CASE ReadPart
  <2>1. UNCHANGED <<logs, cursor, pools, working, toRead, start>>
    BY <1>5 DEF ReadPart, chainVars
  <2> QED
    BY <2>1 DEF AddsInv, AddsWithin, NoAddsToRead, AllowedAdds, LogsOf
<1>6. CASE ReadAdmitted
  <2>1. /\ UNCHANGED <<logs, cursor, pools, start>> /\ toRead # <<>> /\ toRead \in Seq(Pools)
        /\ toRead' = Tail(toRead) /\ working' = [working EXCEPT ![Head(toRead)] = reading]
    BY <1>6 DEF ReadAdmitted, chainVars, PoolsTypeOK
  <2>2. NoAddsToRead' /\ PatchesOf[Head(toRead)] # {"add"}
    BY <2>1 DEF AddsInv, NoAddsToRead
  <2>3. \A p \in Pools : PatchesOf[p] = {"add"} => working'[p] = working[p]
    BY <2>1, <2>2 DEF PoolsTypeOK, PoolStates
  <2> QED
    BY <2>1, <2>2, <2>3 DEF AddsInv, AddsWithin, AllowedAdds, LogsOf
<1>7. CASE ReadRefused
  <2>1. /\ UNCHANGED <<logs, cursor, pools, working, start>> /\ toRead # <<>>
        /\ toRead \in Seq(Pools) /\ toRead' = Tail(toRead)
    BY <1>7 DEF ReadRefused, chainVars, PoolsTypeOK
  <2>2. NoAddsToRead'
    BY <2>1 DEF AddsInv, NoAddsToRead
  <2> QED
    BY <2>1, <2>2 DEF AddsInv, AddsWithin, AllowedAdds, LogsOf
<1>8. CASE RefreshFails
  BY <1>8 DEF RefreshFails, chainVars, refreshVars, AddsInv, AddsWithin, NoAddsToRead,
              AllowedAdds, LogsOf
<1>9. CASE Publish
  BY <1>9 DEF Publish, chainVars, refreshVars, AddsInv, AddsWithin, NoAddsToRead,
              AllowedAdds, LogsOf
<1>10. CASE UNCHANGED vars
  BY <1>10 DEF vars, chainVars, refreshVars, AddsInv, AddsWithin, NoAddsToRead,
               AllowedAdds, LogsOf
<1> QED
  BY <1>2, <1>3, <1>4, <1>5, <1>6, <1>7, <1>8, <1>9, <1>10 DEF Next, Refresh

\* A difference is never added to a pool twice, however batches, reads of other
\* pools and the growth of the chain mix; one that bootstrap may have read is
\* added at most once more.
THEOREM DifferencesAddedOnce == Spec => []AddedOnce
<1>1. Init => PoolsTypeOK /\ AddsInv
  BY InitType, InitAdds
<1>2. PoolsTypeOK /\ AddsInv /\ [Next]_vars => PoolsTypeOK' /\ AddsInv'
  BY NextType, NextAdds
<1>3. ASSUME PoolsTypeOK, AddsInv
      PROVE  AddedOnce
  <2> SUFFICES ASSUME NEW p \in Pools, PatchesOf[p] = {"add"}, NEW l \in LogsOf(p)
               PROVE  pools[p][1][l] <= (IF logs[l].height <= start THEN 2 ELSE 1)
    BY DEF AddedOnce
  <2>1. MaxLogs \in Nat /\ Len(logs) \in Nat /\ Len(logs) <= MaxLogs /\ pools \in PoolStates
    BY <1>3, PoolsAssumption DEF PoolsTypeOK
  <2>2. l \in Positions
    BY <2>1 DEF LogsOf, Positions
  <2>3. pools[p][1][l] <= AllowedAdds(p, l) /\ pools[p][1][l] \in Nat
    BY <1>3, <2>1, <2>2, AddsAre DEF AddsInv, AddsWithin
  <2>4. AllowedAdds(p, l) <= (IF logs[l].height <= start THEN 2 ELSE 1) /\ AllowedAdds(p, l) \in Nat
    BY DEF AllowedAdds
  <2> QED
    BY <2>3, <2>4
<1> QED
  BY <1>1, <1>2, <1>3, PTL DEF Spec

-----------------------------------------------------------------------------
(* The last log heals *)

ScannedOf(p) == {m \in LogsOf(p) : logs[m].height <= cursor}

IsLast(l, p) == l \in ScannedOf(p) /\ \A m \in ScannedOf(p) : m <= l

\* The parts f of pool p reflect its scanned logs, if the last is not excused.
Healed(p, f) ==
    \A l \in LogsOf(p) \ excused :
        IsLast(l, p) => \A m \in ScannedOf(p) : \A k \in DOMAIN f : f[k][m] = 1

Whole(p) == "add" \notin PatchesOf[p]

\* As WorkMissesNothing, for what is whole
WorkHealed ==
    pc = "refresh" =>
        /\ \A p \in Pools : Whole(p) /\ (\A i \in 1..Len(toRead) : toRead[i] # p) =>
               Healed(p, working[p])
        /\ toRead # <<>> => Healed(Head(toRead), reading)

\* LastLogHeals, pool by pool
LEMMA LastLogIs ==
    LastLogHeals <=> (pc = "poll" => \A p \in Pools : Whole(p) => Healed(p, pools[p]))
BY DEF LastLogHeals, Healed, IsLast, ScannedOf, Whole

\* No log has been scanned at the start.
LEMMA InitHealed == Init => LastLogHeals /\ WorkHealed
<1> SUFFICES ASSUME Init
             PROVE  LastLogHeals /\ WorkHealed
  OBVIOUS
<1>1. pc = "poll" /\ cursor = 0
  BY DEF Init
<1>2. \A l \in 1..Len(logs) : logs[l].height \in Nat \ {0}
  BY InitType DEF PoolsTypeOK, Log
<1> QED
  BY <1>1, <1>2 DEF LastLogHeals, WorkHealed, LogsOf

\* New logs are above the cursor: what has been scanned of a pool stays the same.
LEMMA GrowScansNothing ==
    ASSUME PoolsTypeOK, Grow, NEW p
    PROVE  ScannedOf(p)' = ScannedOf(p)
<1>1. /\ cursor' = cursor /\ cursor <= height /\ cursor \in Nat /\ height \in Nat
      /\ Len(logs) \in Nat /\ Len(logs') \in Nat /\ Len(logs) <= Len(logs')
      /\ \A l \in 1..Len(logs) : logs'[l] = logs[l]
      /\ \A l \in 1..Len(logs') : l > Len(logs) => logs'[l].height = height + 1
  BY GrowAppends DEF Grow, PoolsTypeOK
<1>2. ASSUME NEW l
      PROVE  l \in ScannedOf(p)' <=> l \in ScannedOf(p)
  <2>1. CASE l \in 1..Len(logs)
    BY <1>1, <2>1 DEF ScannedOf, LogsOf
  <2>2. CASE l \notin 1..Len(logs)
    BY <1>1, <2>2 DEF ScannedOf, LogsOf
  <2> QED
    BY <2>1, <2>2
<1> QED
  BY <1>2

\* What is healed stays so while nothing of it is scanned.
LEMMA HealedStays ==
    ASSUME NEW p, NEW f, Healed(p, f), ScannedOf(p)' = ScannedOf(p), excused \subseteq excused'
    PROVE  \A l \in LogsOf(p)' \ excused' :
               IsLast(l, p)' => \A m \in ScannedOf(p)' : \A k \in DOMAIN f : f[k][m] = 1
<1> SUFFICES ASSUME NEW l \in LogsOf(p)' \ excused', IsLast(l, p)', NEW m \in ScannedOf(p)',
                    NEW k \in DOMAIN f
             PROVE  f[k][m] = 1
  OBVIOUS
<1>1. IsLast(l, p) /\ m \in ScannedOf(p) /\ l \notin excused
  BY DEF IsLast
<1>2. l \in LogsOf(p)
  BY <1>1 DEF IsLast, ScannedOf
<1> QED
  BY <1>1, <1>2 DEF Healed

\* A pool after the patches of a batch
AfterBatch(p, S, triggers) ==
    IF p \in Touched(S) \ FullRefresh(triggers) THEN Patched(p, triggers[p]) ELSE pools[p]

\* What Healed says once the cursor is at a latest block and more is excused
HealedAt(p, f, latest, more) ==
    \A l \in LogsOf(p) \ (excused \union more) :
        /\ logs[l].height <= latest
        /\ \A n \in LogsOf(p) : logs[n].height <= latest => n <= l
        => \A m \in LogsOf(p) : logs[m].height <= latest => \A k \in DOMAIN f : f[k][m] = 1

\* A batch whose last log of a pool is kept replaces the pool's state by all logs
\* up to that one.
LEMMA BatchHeals ==
    ASSUME PoolsTypeOK, LogsOrdered, NEW latest \in 0..height, cursor < latest,
           NEW S, S = Scanned(latest),
           NEW triggers \in [Touched(S) -> S], IsTriggers(triggers, S),
           NEW p \in Pools, Whole(p), Healed(p, pools[p]), p \notin FullRefresh(triggers)
    PROVE  HealedAt(p, AfterBatch(p, S, triggers), latest, Passed(S, triggers))
<1> DEFINE f == AfterBatch(p, S, triggers)
<1> SUFFICES ASSUME NEW l \in LogsOf(p) \ (excused \union Passed(S, triggers)),
                    logs[l].height <= latest,
                    \A n \in LogsOf(p) : logs[n].height <= latest => n <= l,
                    NEW m \in LogsOf(p), logs[m].height <= latest, NEW k \in DOMAIN f
             PROVE  f[k][m] = 1
  BY DEF HealedAt
<1> f = IF p \in Touched(S) \ FullRefresh(triggers) THEN Patched(p, triggers[p]) ELSE pools[p]
  BY DEF AfterBatch
<1> HIDE DEF f
<1>1. /\ S \in SUBSET (1..Len(logs))
      /\ \A n \in S : logs[n].height > cursor /\ logs[n].height <= latest
      /\ \A n \in LogsOf(p) : n \in 1..Len(logs) /\ logs[n].pool = p
  BY DEF Scanned, LogsOf
<1>2. /\ \A n \in 1..Len(logs) : logs[n].height \in Nat /\ logs[n].patch \in PatchesOf[logs[n].pool]
      /\ cursor \in Nat /\ latest \in Nat
  BY DEF PoolsTypeOK, Log
<1>3. l \in LogsOf(p) /\ m \in LogsOf(p) /\ m <= l /\ m \in Positions
  <2>1. MaxLogs \in Nat /\ Len(logs) \in Nat /\ Len(logs) <= MaxLogs
    BY PoolsAssumption DEF PoolsTypeOK
  <2> QED
    BY <2>1 DEF LogsOf, Positions
<1>4. CASE p \notin Touched(S)
  <2>1. \A n \in LogsOf(p) : n \notin S
    BY <1>1, <1>4 DEF Touched
  <2>2. \A n \in LogsOf(p) : logs[n].height <= latest <=> logs[n].height <= cursor
    BY <1>1, <1>2, <2>1 DEF Scanned
  <2>3. IsLast(l, p) /\ m \in ScannedOf(p)
    BY <2>2 DEF ScannedOf, IsLast
  <2> QED
    BY <1>4, <2>3 DEF Healed
<1>5. CASE p \in Touched(S)
  <2> DEFINE t == triggers[p]
  <2>1. t \in S /\ t \in LogsOf(p) /\ f = Patched(p, t)
    BY <1>1, <1>5, TriggersAre DEF LogsOf
  <2>2. t <= l
    BY <1>1, <2>1
  <2>3. l \in S
    <3>1. t \in 1..l /\ l \in 1..Len(logs)
      BY <1>1, <1>3, <2>1, <2>2
    <3>2. logs[t].height <= logs[l].height /\ logs[t].height > cursor
      BY <1>1, <2>1, <3>1 DEF LogsOrdered
    <3>3. logs[t].height \in Nat /\ logs[l].height \in Nat
      BY <1>1, <1>2, <2>1, <3>1
    <3> QED
      BY <1>2, <3>1, <3>2, <3>3 DEF Scanned
  <2>4. l = t
    <3>1. logs[t].patch # "none" /\ p \in DOMAIN triggers
      BY <1>5 DEF FullRefresh
    <3>2. logs[l].patch # "none"
      <4>1. SUFFICES ASSUME logs[l].patch = "none"
                     PROVE  FALSE
        OBVIOUS
      <4>2. \A n \in Competing(p, S) : logs[n].patch = "none"
        BY <1>1, <1>3, <2>3, <4>1 DEF Competing
      <4> QED
        BY <1>5, <3>1, <4>2 DEF IsTriggers
    <3> QED
      BY <1>1, <1>3, <2>3, <3>2 DEF Passed
  <2>5. logs[t].patch # "add"
    BY <1>1, <1>2, <2>1 DEF Whole
  <2>6. f = [i \in DOMAIN pools[p] |-> Exactly({n \in LogsOf(p) : n <= t})]
    BY <2>1, <2>5 DEF Patched
  <2>7. f[k] = Exactly({n \in LogsOf(p) : n <= t})
    BY <2>6
  <2> QED
    BY <1>3, <2>4, <2>7, ExactlyIs
<1> QED
  BY <1>4, <1>5

\* An answer that reflects a pool's last scanned log reflects all before it.
LEMMA AnswerHeals ==
    ASSUME PoolsTypeOK, LogsOrdered, NEW p, NEW h \in Answers, NEW l, IsLast(l, p),
           l \notin {n \in LogsOf(p) : h < logs[n].height /\ logs[n].height <= cursor},
           NEW m \in ScannedOf(p)
    PROVE  StateAt(p, h)[m] = 1
<1>1. l \in LogsOf(p) /\ m \in LogsOf(p) /\ m <= l /\ logs[l].height <= cursor
  BY DEF IsLast, ScannedOf
<1>2. l \in 1..Len(logs) /\ m \in 1..l
  BY <1>1 DEF LogsOf
<1>3. logs[l].height \in Nat /\ logs[m].height \in Nat /\ h \in Nat
  BY <1>1, HeightsAre DEF LogsOf, Answers, PoolsTypeOK
<1>4. logs[m].height <= logs[l].height
  BY <1>2 DEF LogsOrdered
<1>5. logs[m].height <= h
  BY <1>1, <1>3, <1>4
<1>6. m \in Positions
  <2>1. MaxLogs \in Nat /\ Len(logs) \in Nat /\ Len(logs) <= MaxLogs
    BY PoolsAssumption DEF PoolsTypeOK
  <2> QED
    BY <1>1, <2>1 DEF LogsOf, Positions
<1> QED
  BY <1>1, <1>5, <1>6, ExactlyIs DEF StateAt

HInv ==
    /\ PoolsTypeOK
    /\ LogsOrdered
    /\ LastLogHeals
    /\ WorkHealed

\* Every step that scans a pool's last log heals the pool or excuses the log.
LEMMA NextHealed == HInv /\ [Next]_vars => LastLogHeals' /\ WorkHealed'
<1> SUFFICES ASSUME HInv, [Next]_vars
             PROVE  LastLogHeals' /\ WorkHealed'
  OBVIOUS
<1> USE DEF HInv
<1> DEFINE PoolsHealed == pc = "poll" => \A p \in Pools : Whole(p) => Healed(p, pools[p])
<1>a. PoolsHealed /\ (PoolsHealed' => LastLogHeals')
  BY LastLogIs, PTL
<1>1. CASE Grow
  <2>1. UNCHANGED <<pc, pools, working, toRead, reading, excused>>
    BY <1>1 DEF Grow, refreshVars
  <2>2. \A p : ScannedOf(p)' = ScannedOf(p)
    BY <1>1, GrowScansNothing
  <2>3. \A p, f : Healed(p, f) =>
            \A l \in LogsOf(p)' \ excused' :
               IsLast(l, p)' => \A m \in ScannedOf(p)' : \A k \in DOMAIN f : f[k][m] = 1
    BY <2>1, <2>2, HealedStays
  <2>4. PoolsHealed'
    <3>1. ASSUME NEW p \in Pools, Whole(p), pc = "poll"
          PROVE  Healed(p, pools[p])'
      <4>1. Healed(p, pools[p])
        BY <1>a, <3>1
      <4> QED
        BY <2>1, <2>3, <4>1 DEF Healed
    <3> QED
      BY <2>1, <3>1 DEF Whole
  <2>5. WorkHealed'
    <3>1. ASSUME NEW p \in Pools, Healed(p, working[p])
          PROVE  Healed(p, working[p])'
      BY <2>1, <2>3, <3>1 DEF Healed
    <3>2. ASSUME Healed(Head(toRead), reading)
          PROVE  Healed(Head(toRead), reading)'
      BY <2>1, <2>3, <3>2 DEF Healed
    <3> QED
      BY <2>1, <3>1, <3>2 DEF WorkHealed, Whole
  <2> QED
    BY <1>a, <2>4, <2>5
<1>2. ASSUME NEW latest \in 0..height, PollQuiet(latest)
      PROVE  LastLogHeals' /\ WorkHealed'
  <2>1. /\ pc = "poll" /\ pc' = pc /\ pools' = pools /\ excused' = excused
        /\ logs' = logs /\ cursor' = latest /\ Scanned(latest) = {} /\ latest > cursor
    BY <1>2 DEF PollQuiet, chainVars
  <2>2. ASSUME NEW l \in 1..Len(logs)
        PROVE  logs[l].height <= latest <=> logs[l].height <= cursor
    <3>1. logs[l].height \in Nat /\ cursor \in Nat /\ latest \in Nat
      BY HeightsAre DEF PoolsTypeOK
    <3> QED
      BY <2>1, <3>1 DEF Scanned
  <2>3. \A p : ScannedOf(p)' = ScannedOf(p)
    BY <2>1, <2>2 DEF ScannedOf, LogsOf
  <2>4. \A p, f : Healed(p, f) =>
            \A l \in LogsOf(p)' \ excused' :
               IsLast(l, p)' => \A m \in ScannedOf(p)' : \A k \in DOMAIN f : f[k][m] = 1
    BY <2>1, <2>3, HealedStays
  <2>5. PoolsHealed'
    <3>1. ASSUME NEW p \in Pools, Whole(p)
          PROVE  Healed(p, pools[p])'
      <4>1. Healed(p, pools[p])
        BY <1>a, <2>1, <3>1
      <4> QED
        BY <2>1, <2>4, <4>1 DEF Healed
    <3> QED
      BY <3>1 DEF Whole
  <2> QED
    BY <1>a, <2>1, <2>5 DEF WorkHealed
<1>3. ASSUME NEW latest \in 0..height, PollTouched(latest)
      PROVE  LastLogHeals' /\ WorkHealed'
  <2> DEFINE S == Scanned(latest)
  <2>1. PICK triggers \in [Touched(S) -> S] :
            /\ IsTriggers(triggers, S)
            /\ working' = [p \in Pools |->
                              IF p \in Touched(S) \ FullRefresh(triggers)
                              THEN Patched(p, triggers[p]) ELSE pools[p]]
            /\ toRead' \in Orders(FullRefresh(triggers))
            /\ excused' = excused \union Passed(S, triggers)
    BY <1>3 DEF PollTouched
  <2>2. /\ pc = "poll" /\ pc' = "refresh" /\ logs' = logs /\ cursor' = latest
        /\ reading' = reading /\ S # {}
    BY <1>3 DEF PollTouched, chainVars
  <2>3. reading = <<>> /\ \A p \in Pools : Whole(p) => Healed(p, pools[p])
    <3>1. toRead = <<>> /\ Len(reading) <= 0
      BY <2>2 DEF PoolsTypeOK
    <3>2. reading = <<>>
      BY <3>1 DEF PoolsTypeOK
    <3> QED
      BY <1>a, <2>2, <3>2
  <2>4. FullRefresh(triggers) \in SUBSET Pools
    BY <2>1, TriggersAre DEF Scanned
  <2>5. cursor < latest
    <3>1. PICK l \in 1..Len(logs) : logs[l].height > cursor /\ logs[l].height <= latest
      BY <2>2 DEF Scanned
    <3>2. logs[l].height \in Nat /\ cursor \in Nat /\ latest \in Nat
      BY HeightsAre DEF PoolsTypeOK
    <3> QED
      BY <3>1, <3>2
  <2>6. ASSUME NEW p \in Pools, Whole(p), \A i \in 1..Len(toRead') : toRead'[i] # p
        PROVE  Healed(p, working[p])'
    <3>1. p \notin FullRefresh(triggers)
      BY <2>1, <2>4, <2>6, OrdersAre
    <3>2. working'[p] = AfterBatch(p, S, triggers)
      BY <2>1 DEF AfterBatch
    <3>3. Healed(p, pools[p])
      BY <2>3, <2>6
    <3>4. HealedAt(p, working'[p], latest, Passed(S, triggers))
      <4>1. HealedAt(p, AfterBatch(p, S, triggers), latest, Passed(S, triggers))
        BY <2>1, <2>5, <2>6, <3>1, <3>3, BatchHeals
      <4> QED
        BY <3>2, <4>1
    <3> QED
      BY <2>1, <2>2, <3>4 DEF Healed, HealedAt, IsLast, ScannedOf, LogsOf
  <2>7. Healed(Head(toRead), reading)'
    BY <2>2, <2>3 DEF Healed
  <2>8. PoolsHealed'
    BY <2>2
  <2> QED
    BY <1>a, <2>6, <2>7, <2>8 DEF WorkHealed, Whole
<1>4. CASE ReadPart
  <2>1. PICK h \in Answers :
            /\ reading' = Append(reading, StateAt(Head(toRead), h))
            /\ excused' = excused \union
                    {l \in LogsOf(Head(toRead)) : h < logs[l].height /\ logs[l].height <= cursor}
    BY <1>4 DEF ReadPart
  <2>2. /\ pc = "refresh" /\ toRead # <<>>
        /\ UNCHANGED <<chainVars, pc, cursor, pools, working, toRead, start>>
    BY <1>4 DEF ReadPart
  <2>3. Healed(Head(toRead), reading)
    BY <2>2 DEF WorkHealed
  <2>4. ASSUME NEW l \in LogsOf(Head(toRead)) \ excused', IsLast(l, Head(toRead)),
               NEW m \in ScannedOf(Head(toRead)), NEW k \in DOMAIN reading'
        PROVE  reading'[k][m] = 1
    <3>1. reading \in Seq(Part) /\ Len(reading) \in Nat
      BY DEF PoolsTypeOK
    <3>2. CASE k \in DOMAIN reading
      <4>1. reading'[k] = reading[k]
        BY <2>1, <3>1, <3>2
      <4> QED
        BY <2>1, <2>3, <2>4, <3>2, <4>1 DEF Healed
    <3>3. CASE k \notin DOMAIN reading
      <4>1. reading'[k] = StateAt(Head(toRead), h)
        BY <2>1, <3>1, <3>3
      <4> QED
        BY <2>1, <2>4, <4>1, AnswerHeals
    <3> QED
      BY <3>2, <3>3
  <2>5. Healed(Head(toRead), reading)'
    BY <2>2, <2>4 DEF Healed, IsLast, ScannedOf, LogsOf, chainVars
  <2>6. \A p : ScannedOf(p)' = ScannedOf(p)
    BY <2>2 DEF ScannedOf, LogsOf, chainVars
  <2>7. \A p \in Pools : Whole(p) /\ (\A i \in 1..Len(toRead) : toRead[i] # p) =>
            Healed(p, working[p])'
    <3>1. \A p, f : Healed(p, f) =>
              \A l \in LogsOf(p)' \ excused' :
                 IsLast(l, p)' => \A m \in ScannedOf(p)' : \A k \in DOMAIN f : f[k][m] = 1
      BY <2>1, <2>6, HealedStays
    <3>2. ASSUME NEW p \in Pools, Whole(p), \A i \in 1..Len(toRead) : toRead[i] # p
          PROVE  Healed(p, working[p])'
      <4>1. Healed(p, working[p])
        BY <2>2, <3>2 DEF WorkHealed
      <4>2. \A l \in LogsOf(p)' \ excused' :
               IsLast(l, p)' => \A m \in ScannedOf(p)' :
                                   \A k \in DOMAIN working[p] : working[p][k][m] = 1
        BY <3>1, <4>1
      <4>3. working' = working
        BY <2>2
      <4> QED
        BY <4>2, <4>3 DEF Healed
    <3> QED
      BY <3>2
  <2>8. PoolsHealed'
    BY <2>2
  <2> QED
    BY <1>a, <2>2, <2>5, <2>7, <2>8 DEF WorkHealed, Whole
<1>5. CASE ReadAdmitted
  <2>1. /\ pc = "refresh" /\ toRead # <<>>
        /\ working' = [working EXCEPT ![Head(toRead)] = reading]
        /\ toRead' = Tail(toRead) /\ reading' = <<>>
        /\ UNCHANGED <<logs, pc, cursor, excused>>
    BY <1>5 DEF ReadAdmitted, chainVars
  <2>2. toRead \in Seq(Pools) /\ working \in [Pools -> Seq(Part)]
    BY DEF PoolsTypeOK, PoolStates
  <2>3. ASSUME NEW p \in Pools, Whole(p), \A i \in 1..Len(toRead') : toRead'[i] # p
        PROVE  Healed(p, working'[p])
    <3>1. CASE p = Head(toRead)
      BY <2>1, <2>2, <3>1 DEF WorkHealed
    <3>2. CASE p # Head(toRead)
      <4>1. \A i \in 1..Len(toRead) : toRead[i] # p
        <5>1. SUFFICES ASSUME NEW i \in 1..Len(toRead), toRead[i] = p
                       PROVE  FALSE
          OBVIOUS
        <5>2. i # 1
          BY <2>1, <2>2, <3>2, <5>1
        <5>3. i - 1 \in 1..Len(toRead') /\ toRead'[i - 1] = p
          BY <2>1, <2>2, <5>1, <5>2
        <5> QED
          BY <2>3, <5>3
      <4> QED
        BY <2>1, <2>2, <2>3, <3>2, <4>1 DEF WorkHealed
    <3> QED
      BY <3>1, <3>2
  <2>4. PoolsHealed'
    BY <2>1
  <2> QED
    BY <1>a, <2>1, <2>3, <2>4 DEF WorkHealed, Whole, Healed, IsLast, ScannedOf, LogsOf
<1>6. CASE ReadRefused
  <2>1. /\ pc = "refresh" /\ toRead # <<>>
        /\ excused' = excused \union {l \in LogsOf(Head(toRead)) : logs[l].height <= cursor}
        /\ toRead' = Tail(toRead) /\ reading' = <<>>
        /\ UNCHANGED <<logs, pc, cursor, working>>
    BY <1>6 DEF ReadRefused, chainVars
  <2>2. toRead \in Seq(Pools)
    BY DEF PoolsTypeOK
  <2>3. ASSUME NEW p \in Pools, Whole(p), \A i \in 1..Len(toRead') : toRead'[i] # p,
               NEW l \in LogsOf(p) \ excused', IsLast(l, p)
        PROVE  \A m \in ScannedOf(p) : \A k \in DOMAIN working[p] : working[p][k][m] = 1
    <3>1. p # Head(toRead)
      BY <2>1, <2>3 DEF IsLast, ScannedOf
    <3>2. \A i \in 1..Len(toRead) : toRead[i] # p
      <4>1. SUFFICES ASSUME NEW i \in 1..Len(toRead), toRead[i] = p
                     PROVE  FALSE
        OBVIOUS
      <4>2. i # 1
        BY <2>1, <2>2, <3>1, <4>1
      <4>3. i - 1 \in 1..Len(toRead') /\ toRead'[i - 1] = p
        BY <2>1, <2>2, <4>1, <4>2
      <4> QED
        BY <2>3, <4>3
    <3>3. Healed(p, working[p]) /\ l \notin excused
      BY <2>1, <2>3, <3>2 DEF WorkHealed
    <3> QED
      BY <2>3, <3>3 DEF Healed
  <2>4. PoolsHealed'
    BY <2>1
  <2> QED
    BY <1>a, <2>1, <2>3, <2>4 DEF WorkHealed, Whole, Healed, IsLast, ScannedOf, LogsOf
<1>7. CASE RefreshFails
  <2>1. pc' = "stopped"
    BY <1>7 DEF RefreshFails
  <2> QED
    BY <1>a, <2>1 DEF WorkHealed
<1>8. CASE Publish
  <2>1. /\ pc = "refresh" /\ toRead = <<>> /\ pools' = working /\ pc' = "poll"
        /\ UNCHANGED <<logs, cursor, excused>>
    BY <1>8 DEF Publish, chainVars
  <2>2. \A p \in Pools : Whole(p) => Healed(p, working[p])
    BY <2>1 DEF WorkHealed
  <2>3. PoolsHealed'
    BY <2>1, <2>2 DEF Healed, IsLast, ScannedOf, LogsOf, Whole
  <2> QED
    BY <1>a, <2>1, <2>3 DEF WorkHealed
<1>9. CASE UNCHANGED vars
  <2>1. UNCHANGED <<logs, pc, cursor, pools, working, toRead, reading, excused>>
    BY <1>9 DEF vars, chainVars, refreshVars
  <2>2. PoolsHealed'
    BY <1>a, <2>1 DEF Healed, IsLast, ScannedOf, LogsOf, Whole
  <2> QED
    BY <1>a, <2>1, <2>2 DEF WorkHealed, Healed, IsLast, ScannedOf, LogsOf, Whole
<1> QED
  BY <1>1, <1>2, <1>3, <1>4, <1>5, <1>6, <1>7, <1>8, <1>9 DEF Next, Refresh

\* A pool whose logs or reads carry its whole state recovers from every log that
\* was left out, as soon as its last scanned log was not.
THEOREM LastLogAlwaysHeals == Spec => []LastLogHeals
<1>1. Init => HInv
  BY InitType, InitOrdered, InitHealed DEF HInv
<1>2. HInv /\ [Next]_vars => HInv'
  BY NextType, NextOrdered, NextHealed DEF HInv
<1>3. HInv => LastLogHeals
  BY DEF HInv
<1> QED
  BY <1>1, <1>2, <1>3, PTL DEF Spec

=============================================================================

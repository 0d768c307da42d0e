----------------------- MODULE PoolBootstrapProofs -----------------------
(***************************************************************************)
(* Proofs that the label of a pool is true and that no checkpoint loses a  *)
(* cached pool, for all pools of all kinds, every chain, lag of the nodes, *)
(* and every order of starts and crashes.                                  *)
(***************************************************************************)
EXTENDS PoolBootstrap, FiniteSetTheorems, WellFoundedInduction, TLAPS

\* Pools whose states and labels do not reach beyond a block
MapUpTo(h) ==
    [Pools -> [present: {TRUE}, asof: 0..h, label: 0..h, stale: BOOLEAN] \union {Absent}]

Stages == {"v2", "aerodrome_v2", "v3", "trader_joe_lb", "other"}

\* The types, and that no pool is ahead of the chain.
ChainOK ==
    /\ config \in Configs
    /\ height \in 0..MaxHeight
    /\ logs \in [Pools -> SUBSET (1..height)]
    /\ excused \in [Pools -> SUBSET (1..height)]
FileOK ==
    \/ file = NoFile
    \/ file \in [exists: {TRUE}, pools: MapUpTo(height), skipped: SkipMap]
StartOK ==
    /\ pc \in Stages \union {"down", "replay", "replay_fetch", "tokens", "running"}
    /\ known \subseteq Pools /\ toFetch \subseteq known
    /\ latest \in 0..height /\ anchor \in 0..height
    /\ {replay, loaded, otherFailed} \subseteq BOOLEAN
    /\ pools \in MapUpTo(height) /\ In(pools) \subseteq known
    /\ pc = "replay_fetch" => toFetch \subseteq In(pools)
    /\ skipped \in SkipMap
ShapeOK == ChainOK /\ FileOK /\ StartOK

\* A state of a pool has, up to a block, all logs but the excused ones.
Has(p, state, upto) == \A l \in logs[p] : state.asof < l /\ l <= upto => l \in excused[p]

\* Before the replay: no pool is stale, and one that is labelled is complete up to
\* the block the replay starts from.
CompleteToAnchor ==
    \A p \in In(pools) :
        /\ ~ pools[p].stale
        /\ pools[p].label # 0 => Has(p, pools[p], Larger(pools[p].label, anchor))
BeforeReplay == pc \in Stages \union {"replay"} => CompleteToAnchor

\* While the replay reads: what is not read again has the range replayed.
DuringReplay ==
    pc = "replay_fetch" =>
        /\ latest > anchor
        /\ \A p \in In(pools) \ toFetch : Has(p, pools[p], Larger(pools[p].label, latest))

FileTrue == file.exists => Truthful(file.pools)

LabelInv ==
    /\ FileTrue
    /\ pc \in {"tokens", "running"} => Truthful(pools)
    /\ BeforeReplay
    /\ DuringReplay

\* The kinds that are read before a stage are through.
ReadsInOrder ==
    /\ pc = "aerodrome_v2" => \A p \in toFetch : config.kind[p] # "v2"
    /\ pc = "v3" => \A p \in toFetch : config.kind[p] \notin {"v2", "aerodrome_v2"}
    /\ pc \in {"trader_joe_lb", "other"} => \A p \in toFetch : config.kind[p] \notin HighCardinality
    /\ pc \in {"replay", "tokens", "running"} => toFetch = {}

\* A pool that must not leave the file
Guarded(p) ==
    /\ file.exists /\ file.pools[p].present /\ Liquid(p, file.pools[p].asof)
    /\ config.kind[p] \in HighCardinality /\ ~ FetchUnseen

\* ... is among the pools of this start, or has been skipped by it, or waits to be
\* read while nothing is saved.
Accounted(p) == pools[p].present \/ skipped[p] # "no" \/ (p \in toFetch /\ loaded)

KeptInv ==
    /\ file.exists => In(file.pools) \subseteq known
    /\ ReadsInOrder
    /\ pc # "down" => \A p \in Pools : Guarded(p) => Accounted(p)

-----------------------------------------------------------------------------
(* Lemmas about numbers *)

LEMMA LeastOf ==
    ASSUME NEW S \in SUBSET Nat, S # {}
    PROVE  \E n \in S : \A m \in S : n <= m
<1> DEFINE R == OpToRel(<, Nat)
<1>1. IsWellFoundedOn(R, Nat)
  BY NatLessThanWellFounded, Zenon
<1>2. PICK n \in S : \A m \in S : ~ (<<m, n>> \in R)
  <2> HIDE DEF R
  <2> QED
    BY <1>1, WFMin
<1>3. \A m \in S : ~ (m < n)
  BY <1>2 DEF OpToRel
<1> QED
  BY <1>3

LEMMA GreatestOf ==
    ASSUME NEW n \in Nat, NEW S \in SUBSET (0..n), S # {}
    PROVE  \E k \in S : \A m \in S : m <= k
<1> DEFINE bounds == {k \in Nat : \A m \in S : m <= k}
<1>1. n \in bounds
  OBVIOUS
<1>2. PICK k \in bounds : \A j \in bounds : k <= j
  <2>1. bounds \in SUBSET Nat /\ bounds # {}
    BY <1>1
  <2> HIDE DEF bounds
  <2> QED
    BY <2>1, LeastOf
<1>3. CASE k \in S
  BY <1>2, <1>3
<1>4. CASE k \notin S
  <2>1. \A m \in S : m <= k /\ m # k /\ m \in Nat
    BY <1>2, <1>4
  <2>2. PICK m \in S : TRUE
    OBVIOUS
  <2>3. k - 1 \in Nat /\ \A i \in S : i <= k - 1
    BY <1>2, <2>1, <2>2
  <2>4. k - 1 \in bounds /\ ~ (k <= k - 1)
    BY <1>2, <2>3
  <2> QED
    BY <1>2, <2>4
<1> QED
  BY <1>3, <1>4

-----------------------------------------------------------------------------
(* Lemmas about the operators *)

LEMMA Constants == MaxHeight \in Nat /\ MaxHeight >= 1 /\ MaxLag \in Nat /\ ReplayMax \in Nat /\ Backfill \in Nat
BY BootstrapAssumption

\* The last log of a pool up to a block
LEMMA LastLogIs ==
    ASSUME ChainOK, NEW p \in Pools, NEW h \in Nat
    PROVE  /\ LastLog(p, h) \in 0..height
           /\ LastLog(p, h) \in UpTo(p, h) \union {0}
           /\ \A l \in logs[p] : l <= h => l <= LastLog(p, h)
<1>1. height \in Nat /\ logs[p] \subseteq 1..height
  BY Constants DEF ChainOK
<1>2. UpTo(p, h) \union {0} \in SUBSET (0..height)
  BY <1>1 DEF UpTo
<1>3. \E l \in UpTo(p, h) \union {0} : \A m \in UpTo(p, h) \union {0} : m <= l
  BY <1>1, <1>2, GreatestOf
<1>4. /\ LastLog(p, h) \in UpTo(p, h) \union {0}
      /\ \A m \in UpTo(p, h) : m <= LastLog(p, h)
  <2>1. \E l \in UpTo(p, h) \union {0} : \A m \in UpTo(p, h) : m <= l
    BY <1>3
  <2> QED
    BY <2>1 DEF LastLog
<1> HIDE DEF LastLog
<1> QED
  BY <1>1, <1>2, <1>4 DEF UpTo

\* A pool that is there is a state, and the others are absent.
LEMMA PresentIs ==
    ASSUME NEW h, NEW map \in MapUpTo(h), NEW p \in Pools
    PROVE  /\ map[p].present => map[p] \in [present: {TRUE}, asof: 0..h, label: 0..h, stale: BOOLEAN]
           /\ ~ map[p].present => map[p] = Absent
<1>1. map[p] \in [present: {TRUE}, asof: 0..h, label: 0..h, stale: BOOLEAN] \union {Absent}
  BY DEF MapUpTo
<1>2. CASE map[p] = Absent
  BY <1>2 DEF Absent
<1>3. CASE map[p] \in [present: {TRUE}, asof: 0..h, label: 0..h, stale: BOOLEAN]
  BY <1>3
<1> QED
  BY <1>1, <1>2, <1>3

\* Its blocks are numbers.
LEMMA BlocksAre ==
    ASSUME NEW h \in Nat, NEW map \in MapUpTo(h), NEW p \in Pools, map[p].present
    PROVE  map[p].asof \in 0..h /\ map[p].label \in 0..h
<1>1. map[p] \in [present: {TRUE}, asof: 0..h, label: 0..h, stale: BOOLEAN]
  BY PresentIs
<1> QED
  BY <1>1

\* The anchor of a file is not above any label but zero.
LEMMA AnchorIs ==
    ASSUME height \in Nat, NEW map \in MapUpTo(height)
    PROVE  /\ Anchor(map) \in 0..height
           /\ \A p \in In(map) : map[p].label # 0 => Anchor(map) <= map[p].label
<1>1. Labels(map) \in SUBSET (0..height)
  <2>1. \A p \in In(map) : map[p].label \in 0..height
    BY PresentIs DEF In
  <2> QED
    BY <2>1 DEF Labels
<1>2. CASE Labels(map) = {}
  BY <1>2 DEF Anchor, Labels
<1>3. CASE Labels(map) # {}
  <2>1. \E b \in Labels(map) : \A c \in Labels(map) : b <= c
    BY <1>1, <1>3, LeastOf
  <2>2. Anchor(map) \in Labels(map) /\ \A c \in Labels(map) : Anchor(map) <= c
    BY <1>3, <2>1 DEF Anchor
  <2> QED
    BY <1>1, <2>2 DEF Labels
<1> QED
  BY <1>2, <1>3

LEMMA TruthfulIs ==
    ASSUME NEW map
    PROVE  Truthful(map) <=> \A p \in In(map) : ~ map[p].stale => Has(p, map[p], map[p].label)
BY DEF Truthful, Has

\* A pool that is read has all logs up to the label, and the anchor, but those its
\* node did not have.
LEMMA ReadHas ==
    ASSUME ShapeOK, NEW p \in Pools, NEW h \in Answers, NEW e, Behind(p, h) \subseteq e,
           NEW l \in logs[p], LastLog(p, h) < l, l <= Larger(latest, anchor)
    PROVE  l \in e
<1>1. h \in Nat /\ height \in Nat /\ l \in Nat /\ h <= MaxHeight
  BY Constants DEF ShapeOK, ChainOK, Answers
<1>2. LastLog(p, h) \in Nat /\ ~ (l <= h)
  BY <1>1, LastLogIs DEF ShapeOK
<1>3. h # Failed
  BY <1>1, Constants DEF Failed
<1>4. l \in Behind(p, h)
  BY <1>1, <1>2, <1>3 DEF Behind
<1> QED
  BY <1>4

\* What is read is a pool within the chain.
LEMMA ReadIs ==
    ASSUME ShapeOK, NEW p \in Pools, NEW h \in Answers
    PROVE  /\ Read(p, h) \in [present: {TRUE}, asof: 0..height, label: 0..height, stale: BOOLEAN]
           /\ Read(p, h).present /\ ~ Read(p, h).stale
           /\ Read(p, h).asof = LastLog(p, h) /\ Read(p, h).label = latest
<1>1. h \in Nat
  BY Constants DEF ShapeOK, ChainOK, Answers
<1>2. LastLog(p, h) \in 0..height /\ latest \in 0..height
  BY <1>1, LastLogIs DEF ShapeOK, StartOK
<1> QED
  BY <1>2 DEF Read, Pool

\* The sets of maps and skipped pools after a step
LEMMA CheckpointIs ==
    ASSUME FileOK, height' = height, NEW m \in MapUpTo(height), NEW k \in SkipMap, Checkpoint(m, k)
    PROVE  /\ FileOK'
           /\ file' = file \/ (file'.exists /\ file'.pools = m /\ file'.skipped = k)
<1>1. CASE file' = file
  <2>1. MapUpTo(height)' = MapUpTo(height)
    BY DEF MapUpTo, Absent
  <2> QED
    BY <1>1, <2>1 DEF FileOK
<1>2. CASE file' = [exists |-> TRUE, pools |-> m, skipped |-> k]
  <2>1. m \in MapUpTo(height)'
    BY DEF MapUpTo, Absent
  <2>2. file' \in [exists: {TRUE}, pools: MapUpTo(height)', skipped: SkipMap]
    BY <1>2, <2>1
  <2> QED
    BY <1>2, <2>2 DEF FileOK
<1> QED
  BY <1>1, <1>2 DEF Checkpoint

\* A file that exists holds maps.
LEMMA FileIs ==
    ASSUME FileOK
    PROVE  /\ file.exists \in BOOLEAN
           /\ Cached \in MapUpTo(height)
           /\ file.exists => file.pools = Cached /\ file.skipped \in SkipMap
           /\ ~ file.exists => Cached = Nothing
           /\ Tombstones \in SkipMap
<1>1. Nothing \in MapUpTo(height)
  BY DEF Nothing, MapUpTo
<1>2. NoneSkipped \in SkipMap
  BY DEF NoneSkipped, SkipMap
<1>3. CASE file = NoFile
  <2>1. file.exists = FALSE
    BY <1>3 DEF NoFile
  <2>2. Cached = Nothing /\ Tombstones = NoneSkipped
    BY <2>1 DEF Cached, Tombstones
  <2> QED
    BY <1>1, <1>2, <2>1, <2>2
<1>4. CASE file \in [exists: {TRUE}, pools: MapUpTo(height), skipped: SkipMap]
  <2>1. file.exists = TRUE /\ file.pools \in MapUpTo(height) /\ file.skipped \in SkipMap
    BY <1>4
  <2>2. Cached = file.pools /\ Tombstones = file.skipped
    BY <2>1 DEF Cached, Tombstones
  <2> QED
    BY <2>1, <2>2
<1> QED
  BY <1>3, <1>4 DEF FileOK

\* The outcome of a read
LEMMA OutcomeIs ==
    ASSUME ShapeOK, NEW p, NEW o \in Outcomes, ReadOk(p, o)
    PROVE  o \in Answers
BY DEF Outcomes, ReadOk, Failed

LEMMA BehindIs ==
    ASSUME ShapeOK, NEW p \in Pools, NEW o
    PROVE  Behind(p, o) \subseteq 1..height
BY DEF ShapeOK, ChainOK, Behind

LEMMA ReadsMap ==
    ASSUME ShapeOK, NEW D \in SUBSET Pools, NEW outcome \in [D -> Outcomes], NEW m,
           m = [p \in Pools |-> IF p \in D /\ ReadOk(p, outcome[p]) THEN Read(p, outcome[p])
                                ELSE pools[p]]
    PROVE  /\ m \in MapUpTo(height)
           /\ \A p \in Pools :
                 IF p \in D /\ ReadOk(p, outcome[p]) THEN m[p] = Read(p, outcome[p])
                 ELSE m[p] = pools[p]
<1>1. \A p \in D : ReadOk(p, outcome[p]) =>
          Read(p, outcome[p]) \in [present: {TRUE}, asof: 0..height, label: 0..height, stale: BOOLEAN]
  BY OutcomeIs, ReadIs
<1>2. pools \in MapUpTo(height)
  BY DEF ShapeOK, StartOK
<1> HIDE DEF ShapeOK
<1> QED
  BY <1>1, <1>2 DEF MapUpTo

-----------------------------------------------------------------------------
(* The types *)

LEMMA MapStays ==
    ASSUME height' = height
    PROVE  MapUpTo(height)' = MapUpTo(height)
BY DEF MapUpTo, Absent

LEMMA NothingIs ==
    /\ \A h : Nothing \in MapUpTo(h)
    /\ In(Nothing) = {}
    /\ NoneSkipped \in SkipMap
BY DEF Nothing, MapUpTo, In, Absent, NoneSkipped, SkipMap

\* The chain and what is excused stay as they are, or grow.
LEMMA ChainKept ==
    ASSUME ChainOK, UNCHANGED chainVars,
           \A p \in Pools : excused'[p] \subseteq 1..height, DOMAIN excused' = Pools,
           excused' = [p \in Pools |-> excused'[p]]
    PROVE  ChainOK'
BY DEF ChainOK, chainVars

LEMMA ChainUnchanged ==
    ASSUME ChainOK, UNCHANGED chainVars, UNCHANGED excused
    PROVE  ChainOK'
BY DEF ChainOK, chainVars

LEMMA FileUnchanged ==
    ASSUME FileOK, UNCHANGED <<height, file>>
    PROVE  FileOK'
BY MapStays DEF FileOK

\* A start ends.
LEMMA ExitKeepsShape ==
    ASSUME ShapeOK, Exit, UNCHANGED <<chainVars, file, known, excused>>
    PROVE  ShapeOK'
<1>1. ChainOK' /\ FileOK' /\ height' = height
  BY ChainUnchanged, FileUnchanged DEF ShapeOK, chainVars
<1>2. pools' \in MapUpTo(height)' /\ In(pools)' = {} /\ skipped' \in SkipMap
  BY <1>1, NothingIs, MapStays DEF Exit, In
<1>3. 0 \in 0..height /\ FALSE \in BOOLEAN
  BY Constants DEF ShapeOK, ChainOK
<1>4. StartOK'
  BY <1>1, <1>2, <1>3 DEF ShapeOK, StartOK, Exit
<1> QED
  BY <1>1, <1>4 DEF ShapeOK

LEMMA GrowKeepsShape == ASSUME ShapeOK, Grow PROVE ShapeOK'
<1>1. /\ height' = height + 1 /\ height < MaxHeight
      /\ UNCHANGED <<config, file, pc, planVars, pools, skipped, toFetch, excused>>
  BY DEF Grow
<1>2. PICK S \in SUBSET Pools :
          logs' = [p \in Pools |-> IF p \in S THEN logs[p] \union {height'} ELSE logs[p]]
  BY DEF Grow
<1>3. height \in Nat /\ height' \in 0..MaxHeight /\ 1..height \subseteq 1..height'
      /\ height' \in 1..height' /\ 0..height \subseteq 0..height'
  BY <1>1, Constants DEF ShapeOK, ChainOK
<1>4. ChainOK'
  BY <1>1, <1>2, <1>3 DEF ShapeOK, ChainOK
<1>5. MapUpTo(height) \subseteq MapUpTo(height)'
  <2> SUFFICES ASSUME NEW m \in MapUpTo(height) PROVE m \in MapUpTo(height)'
    OBVIOUS
  <2>1. \A p \in Pools : m[p] \in [present: {TRUE}, asof: 0..height', label: 0..height', stale: BOOLEAN]
                                 \union {Absent}
    <3> SUFFICES ASSUME NEW p \in Pools
                 PROVE  m[p] \in [present: {TRUE}, asof: 0..height', label: 0..height', stale: BOOLEAN]
                                 \union {Absent}
      OBVIOUS
    <3>1. CASE m[p].present
      <4>1. m[p] \in [present: {TRUE}, asof: 0..height, label: 0..height, stale: BOOLEAN]
        BY <3>1, PresentIs
      <4> QED
        BY <1>3, <4>1
    <3>2. CASE ~ m[p].present
      BY <3>2, PresentIs
    <3> QED
      BY <3>1, <3>2
  <2>2. m = [p \in Pools |-> m[p]]
    BY DEF MapUpTo
  <2> QED
    BY <2>1, <2>2 DEF MapUpTo, Absent
<1>6. FileOK'
  <2>1. CASE file = NoFile
    BY <1>1, <2>1 DEF FileOK
  <2>2. CASE file \in [exists: {TRUE}, pools: MapUpTo(height), skipped: SkipMap]
    BY <1>1, <1>5, <2>2 DEF FileOK
  <2> QED
    BY <2>1, <2>2 DEF ShapeOK, FileOK
<1>7. StartOK'
  BY <1>1, <1>3, <1>5 DEF ShapeOK, StartOK, planVars, In
<1> QED
  BY <1>4, <1>6, <1>7 DEF ShapeOK

\* What Load does, with its choices named
LoadWith(fresh, active) ==
    LET replayed(p) == replay' /\ Refreshable(p, fresh) /\ ~ Cached[p].stale
    IN  /\ pools' = [p \in Pools |->
              IF p \in known' /\ (Admitted(p, fresh) \/ replayed(p)) THEN Cached[p] ELSE Absent]
        /\ skipped' = [p \in Pools |->
              IF p \in active /\ (p \in known' /\ ~ Cached[p].present => SkipApplies(p))
              THEN Tombstones[p] ELSE "no"]
        /\ toFetch' = {p \in known' :
              IF Cached[p].present THEN Refreshable(p, fresh) /\ ~ replayed(p)
              ELSE ~ (p \in active /\ SkipApplies(p)) /\ ~ Unseen(p)}

LEMMA LoadKeepsShape == ASSUME ShapeOK, Load PROVE ShapeOK'
<1>1. PICK fresh \in SUBSET In(Cached), active \in SUBSET {p \in Pools : Tombstones[p] # "no"} :
             LoadWith(fresh, active)
  BY DEF Load, LoadWith
<1>2. /\ latest' \in Answers \union {0} /\ known' \subseteq Pools
      /\ loaded' = file.exists /\ anchor' = Anchor(Cached)
      /\ replay' = (anchor' > 0 /\ latest' <= anchor' + ReplayMax)
      /\ pc' = "v2" /\ UNCHANGED <<chainVars, file, otherFailed, excused>>
  BY DEF Load
<1>3. ChainOK' /\ FileOK' /\ height' = height /\ height \in Nat
  BY <1>2, ChainUnchanged, FileUnchanged, Constants DEF ShapeOK, chainVars, ChainOK
<1>4. Cached \in MapUpTo(height) /\ Tombstones \in SkipMap /\ file.exists \in BOOLEAN
  BY FileIs DEF ShapeOK
<1>5. pools' \in MapUpTo(height) /\ In(pools') \subseteq known'
  <2>1. \A p \in Pools : pools'[p] \in {Cached[p], Absent} /\ (p \notin known' => pools'[p] = Absent)
    BY <1>1 DEF LoadWith
  <2>2. pools' = [p \in Pools |-> pools'[p]]
    BY <1>1 DEF LoadWith
  <2>3. \A p \in Pools : pools'[p] \in
            [present: {TRUE}, asof: 0..height, label: 0..height, stale: BOOLEAN] \union {Absent}
    BY <1>4, <2>1 DEF MapUpTo
  <2>4. pools' \in MapUpTo(height)
    BY <2>2, <2>3 DEF MapUpTo
  <2> QED
    BY <2>1, <2>4 DEF In, Absent
<1>6. skipped' \in SkipMap
  BY <1>1, <1>4 DEF LoadWith, SkipMap
<1>7. toFetch' \subseteq known'
  BY <1>1 DEF LoadWith
<1>8. latest' \in 0..height /\ anchor' \in 0..height
  BY <1>2, <1>3, <1>4, AnchorIs DEF Answers
<1>9. replay' \in BOOLEAN
  BY <1>2
<1>10. StartOK'
  BY <1>2, <1>3, <1>4, <1>5, <1>6, <1>7, <1>8, <1>9, MapStays DEF ShapeOK, StartOK, Stages, In
<1> QED
  BY <1>3, <1>10 DEF ShapeOK

\* What a batch does, with its outcome named
BatchWith(kind, outcome) ==
    /\ pools' = [p \in Pools |->
          IF p \in Due(kind) /\ ReadOk(p, outcome[p]) THEN Read(p, outcome[p]) ELSE pools[p]]
    /\ skipped' = [p \in Pools |->
          IF p \notin Due(kind) THEN skipped[p]
          ELSE IF ReadOk(p, outcome[p]) THEN "no" ELSE Tombstone(p, outcome[p])]
    /\ excused' = [p \in Pools |->
          IF p \in Due(kind) THEN excused[p] \union Behind(p, outcome[p]) ELSE excused[p]]

LEMMA BatchKeepsShape ==
    ASSUME ShapeOK, NEW kind, NEW then \in Stages, Batch(kind, then)
    PROVE  ShapeOK'
<1>1. PICK outcome \in [Due(kind) -> Outcomes] : BatchWith(kind, outcome)
  BY DEF Batch, BatchWith
<1>2. /\ pc' = then /\ toFetch' = toFetch \ Due(kind)
      /\ UNCHANGED <<chainVars, planVars>>
      /\ file' = file \/ Checkpoint(pools', skipped')
  BY DEF Batch
<1>3. Due(kind) \subseteq toFetch /\ toFetch \subseteq Pools
  BY DEF Due, ShapeOK, StartOK
<1>4. height' = height /\ ChainOK /\ FileOK /\ StartOK
  BY <1>2 DEF chainVars, ShapeOK
<1>5. ChainOK'
  <2>1. \A p \in Pools : excused'[p] \subseteq 1..height
    BY <1>1, <1>4, BehindIs DEF BatchWith, ChainOK
  <2>2. DOMAIN excused' = Pools /\ excused' = [p \in Pools |-> excused'[p]]
    BY <1>1 DEF BatchWith
  <2> QED
    BY <1>2, <1>4, <2>1, <2>2, ChainKept
<1>6. /\ pools' \in MapUpTo(height)
      /\ \A p \in Pools : pools'[p] = pools[p] \/ p \in Due(kind)
  BY <1>1, <1>3, ReadsMap DEF BatchWith
<1>7. In(pools') \subseteq known
  BY <1>3, <1>4, <1>6 DEF In, StartOK
<1>8. skipped' \in SkipMap
  BY <1>1, <1>4 DEF BatchWith, StartOK, SkipMap, Tombstone
<1>9. FileOK'
  BY <1>2, <1>4, <1>6, <1>8, CheckpointIs, FileUnchanged
<1>10. StartOK'
  BY <1>2, <1>3, <1>4, <1>6, <1>7, <1>8, MapStays DEF StartOK, planVars, Stages, In
<1> QED
  BY <1>5, <1>9, <1>10 DEF ShapeOK

LEMMA OtherKeepsShape ==
    ASSUME ShapeOK, NEW p \in toFetch, NEW o \in Outcomes, NEW rejected \in BOOLEAN,
           FetchOther(p, o, rejected)
    PROVE  ShapeOK'
<1>1. /\ pools' = IF ReadOk(p, o) /\ ~ rejected THEN [pools EXCEPT ![p] = Read(p, o)] ELSE pools
      /\ skipped' \in {[skipped EXCEPT ![p] = "failed"], [skipped EXCEPT ![p] = "no"], skipped}
      /\ excused' = [excused EXCEPT ![p] = @ \union Behind(p, o)]
      /\ Checkpoint(pools', skipped')
      /\ toFetch' = toFetch \ {p}
      /\ otherFailed' = (otherFailed \/ o = Failed)
      /\ UNCHANGED <<chainVars, pc, known, latest, anchor, replay, loaded>>
  BY DEF FetchOther
<1>2. height' = height /\ ChainOK /\ FileOK /\ StartOK /\ p \in known /\ p \in Pools
  BY <1>1 DEF chainVars, ShapeOK, StartOK
<1>3. ChainOK'
  <2>1. \A q \in Pools : excused'[q] \subseteq 1..height
    BY <1>1, <1>2, BehindIs DEF ChainOK
  <2>2. DOMAIN excused' = Pools /\ excused' = [q \in Pools |-> excused'[q]]
    BY <1>1, <1>2 DEF ChainOK
  <2> QED
    BY <1>1, <1>2, <2>1, <2>2, ChainKept
<1>4. pools' \in MapUpTo(height) /\ In(pools') \subseteq known
  <2>1. CASE ReadOk(p, o) /\ ~ rejected
    <3>1. Read(p, o) \in [present: {TRUE}, asof: 0..height, label: 0..height, stale: BOOLEAN]
      BY <1>2, <2>1, OutcomeIs, ReadIs
    <3>2. pools' = [pools EXCEPT ![p] = Read(p, o)]
      BY <1>1, <2>1
    <3>3. pools' \in MapUpTo(height)
      BY <1>2, <3>1, <3>2 DEF StartOK, MapUpTo
    <3> QED
      BY <1>2, <3>2, <3>3 DEF In, StartOK, MapUpTo
  <2>2. CASE ~ (ReadOk(p, o) /\ ~ rejected)
    BY <1>1, <1>2, <2>2 DEF StartOK
  <2> QED
    BY <2>1, <2>2
<1>5. skipped' \in SkipMap
  BY <1>1, <1>2 DEF StartOK, SkipMap
<1>6. FileOK'
  BY <1>1, <1>2, <1>4, <1>5, CheckpointIs
<1>7. pc = "other" /\ pc' = "other"
  BY <1>1 DEF FetchOther
<1>8. StartOK'
  BY <1>1, <1>2, <1>4, <1>5, <1>7, MapStays DEF StartOK, In
<1> QED
  BY <1>3, <1>6, <1>8 DEF ShapeOK

\* Marking pools as current changes labels and marks only.
LEMMA CurrentIs ==
    ASSUME height \in Nat, NEW m \in MapUpTo(height), NEW block \in 0..height
    PROVE  /\ Current(m, block) \in MapUpTo(height) /\ In(Current(m, block)) = In(m)
           /\ \A p \in In(m) :
                 /\ Current(m, block)[p].asof = m[p].asof
                 /\ Current(m, block)[p].label = Larger(m[p].label, block)
                 /\ ~ Current(m, block)[p].stale
<1> DEFINE c == Current(m, block)
<1>1. \A p \in Pools : IF m[p].present THEN c[p] = Pool(m[p].asof, Larger(m[p].label, block), FALSE)
                       ELSE c[p] = Absent
  BY DEF Current
<1>2. \A p \in In(m) :
          /\ m[p].asof \in 0..height /\ m[p].label \in 0..height
          /\ Larger(m[p].label, block) \in 0..height
  BY PresentIs DEF In, Larger
<1>3. c = [p \in Pools |-> c[p]]
  BY DEF Current
<1> HIDE DEF c
<1>4. \A p \in In(m) :
          /\ c[p] \in [present: {TRUE}, asof: 0..height, label: 0..height, stale: BOOLEAN]
          /\ c[p].present /\ c[p].asof = m[p].asof /\ c[p].label = Larger(m[p].label, block) /\ ~ c[p].stale
  <2> SUFFICES ASSUME NEW p \in In(m)
               PROVE  /\ c[p] \in [present: {TRUE}, asof: 0..height, label: 0..height, stale: BOOLEAN]
                      /\ c[p].present /\ c[p].asof = m[p].asof
                      /\ c[p].label = Larger(m[p].label, block) /\ ~ c[p].stale
    OBVIOUS
  <2>1. c[p] = Pool(m[p].asof, Larger(m[p].label, block), FALSE)
    BY <1>1 DEF In
  <2>2. m[p].asof \in 0..height /\ Larger(m[p].label, block) \in 0..height
    BY <1>2
  <2> DEFINE s == Pool(m[p].asof, Larger(m[p].label, block), FALSE)
  <2>3. /\ s \in [present: {TRUE}, asof: 0..height, label: 0..height, stale: BOOLEAN]
        /\ s.present /\ s.asof = m[p].asof
        /\ s.label = Larger(m[p].label, block) /\ ~ s.stale
    BY <2>2 DEF Pool
  <2>4. c[p] = s
    BY <2>1
  <2> HIDE DEF s
  <2> QED
    BY <2>3, <2>4
<1>5. \A p \in Pools \ In(m) : c[p] = Absent /\ ~ c[p].present
  <2>1. Absent.present = FALSE
    BY DEF Absent
  <2> QED
    BY <1>1, <2>1 DEF In
<1>6. c \in MapUpTo(height)
  BY <1>3, <1>4, <1>5 DEF MapUpTo, In
<1>7. In(c) = In(m)
  BY <1>4, <1>5 DEF In
<1> QED
  BY <1>4, <1>6, <1>7 DEF c

LEMMA ReplayNothingKeepsShape == ASSUME ShapeOK, ReplayNothing PROVE ShapeOK'
<1>1. /\ pools' = Current(pools, anchor)
      /\ excused' = [p \in Pools |-> excused[p] \union Unlabelled(p, anchor)]
      /\ pc' = "tokens"
      /\ UNCHANGED <<chainVars, file, planVars, skipped, toFetch>>
  BY DEF ReplayNothing
<1>2. height' = height /\ height \in Nat /\ ChainOK /\ FileOK /\ StartOK
  BY <1>1, Constants DEF chainVars, ShapeOK, ChainOK
<1>3. ChainOK'
  <2>1. \A p \in Pools : excused'[p] \subseteq 1..height
    BY <1>1, <1>2 DEF ChainOK, Unlabelled
  <2>2. DOMAIN excused' = Pools /\ excused' = [p \in Pools |-> excused'[p]]
    BY <1>1
  <2> QED
    BY <1>1, <1>2, <2>1, <2>2, ChainKept
<1>4. pools' \in MapUpTo(height) /\ In(pools') \subseteq known
  BY <1>1, <1>2, CurrentIs DEF StartOK
<1>5. FileOK'
  BY <1>1, <1>2, FileUnchanged
<1>6. StartOK'
  BY <1>1, <1>2, <1>4, MapStays DEF StartOK, planVars, In, Stages
<1> QED
  BY <1>3, <1>5, <1>6 DEF ShapeOK

\* The replay's range of a pool, what a node at block h has of it, and the patch
\* that is taken
InRange(p) == {l \in logs[p] : l > Monus(anchor, Backfill) /\ l <= latest}
Seen(p, h) == {l \in InRange(p) : l <= h}
First(p, h) == CHOOSE l \in Seen(p, h) : \A m \in Seen(p, h) : l <= m
Patching(h) == {p \in In(pools) \intersect config.patched : Seen(p, h) # {}}

\* What the replay of the logs does, with the node's block named
ReplayWith(h) ==
    /\ pools' = [p \in Pools |->
          IF p \in Patching(h) THEN Pool(First(p, h), latest, pools[p].stale) ELSE pools[p]]
    /\ toFetch' = {p \in In(pools) \ config.patched : Seen(p, h) # {}}
    /\ excused' = [p \in Pools |-> excused[p] \union (InRange(p) \ Seen(p, h))
          \union Unlabelled(p, latest)
          \union IF p \in Patching(h) THEN InRange(p) \ {First(p, h)} ELSE {}]

LEMMA ReplayLogsIs ==
    ASSUME ReplayLogs
    PROVE  /\ \E h \in Answers : ReplayWith(h)
           /\ pc = "replay" /\ latest > anchor
           /\ pc' = "replay_fetch"
           /\ UNCHANGED <<chainVars, file, planVars, skipped>>
BY DEF ReplayLogs, ReplayWith, InRange, Seen, First, Patching

LEMMA FirstIs ==
    ASSUME ShapeOK, NEW h, NEW p \in Pools, Seen(p, h) # {}
    PROVE  First(p, h) \in Seen(p, h) /\ \A m \in Seen(p, h) : First(p, h) <= m
<1>1. Seen(p, h) \in SUBSET Nat
  BY DEF ShapeOK, ChainOK, Seen, InRange
<1>2. \E l \in Seen(p, h) : \A m \in Seen(p, h) : l <= m
  BY <1>1, LeastOf
<1> QED
  BY <1>2 DEF First

\* The replay of logs changes no pool's being there.
LEMMA PatchedIs ==
    ASSUME ShapeOK, NEW h, ReplayWith(h)
    PROVE  pools' \in MapUpTo(height) /\ In(pools') = In(pools)
<1>0. height \in Nat /\ ChainOK /\ StartOK
  BY Constants DEF ShapeOK, ChainOK
<1>1. \A p \in Patching(h) :
          /\ pools'[p] = Pool(First(p, h), latest, pools[p].stale)
          /\ First(p, h) \in 0..height /\ latest \in 0..height /\ pools[p].stale \in BOOLEAN
  <2> SUFFICES ASSUME NEW p \in Patching(h)
               PROVE  /\ pools'[p] = Pool(First(p, h), latest, pools[p].stale)
                      /\ First(p, h) \in 0..height /\ latest \in 0..height /\ pools[p].stale \in BOOLEAN
    OBVIOUS
  <2>1. p \in Pools /\ pools[p].present /\ Seen(p, h) # {}
    BY DEF Patching, In
  <2>2. First(p, h) \in Seen(p, h)
    BY <2>1, FirstIs
  <2>3. First(p, h) \in 1..height
    BY <1>0, <2>1, <2>2 DEF Seen, InRange, ChainOK
  <2>4. pools[p].stale \in BOOLEAN
    BY <1>0, <2>1, PresentIs DEF StartOK
  <2>5. pools'[p] = Pool(First(p, h), latest, pools[p].stale)
    BY <2>1 DEF ReplayWith
  <2> QED
    BY <1>0, <2>3, <2>4, <2>5 DEF StartOK
<1>2. \A p \in Patching(h) : pools'[p].present
          /\ pools'[p] \in [present: {TRUE}, asof: 0..height, label: 0..height, stale: BOOLEAN]
  <2> SUFFICES ASSUME NEW p \in Patching(h)
               PROVE  /\ pools'[p].present
                      /\ pools'[p] \in
                            [present: {TRUE}, asof: 0..height, label: 0..height, stale: BOOLEAN]
    OBVIOUS
  <2> DEFINE s == Pool(First(p, h), latest, pools[p].stale)
  <2>1. s.present /\ s \in [present: {TRUE}, asof: 0..height, label: 0..height, stale: BOOLEAN]
    BY <1>1 DEF Pool
  <2>2. pools'[p] = s
    BY <1>1
  <2> HIDE DEF s
  <2> QED
    BY <2>1, <2>2
<1>3. \A p \in Pools \ Patching(h) : pools'[p] = pools[p]
  BY DEF ReplayWith
<1>4. pools' = [p \in Pools |-> pools'[p]]
  BY DEF ReplayWith
<1>5. pools' \in MapUpTo(height)
  BY <1>0, <1>2, <1>3, <1>4 DEF StartOK, MapUpTo
<1>6. \A p \in Patching(h) : pools[p].present /\ p \in Pools
  BY DEF Patching, In
<1> QED
  BY <1>2, <1>3, <1>5, <1>6 DEF In

LEMMA ReplayLogsKeepsShape == ASSUME ShapeOK, ReplayLogs PROVE ShapeOK'
<1>1. PICK h \in Answers : ReplayWith(h)
  BY ReplayLogsIs
<1>2. pc' = "replay_fetch" /\ UNCHANGED <<chainVars, file, planVars, skipped>>
  BY ReplayLogsIs
<1>3. height' = height /\ height \in Nat /\ ChainOK /\ FileOK /\ StartOK
  BY <1>2, Constants DEF chainVars, ShapeOK, ChainOK
<1>4. ChainOK'
  <2>1. \A p \in Pools : excused'[p] \subseteq 1..height
    BY <1>1, <1>3 DEF ReplayWith, ChainOK, Unlabelled, InRange
  <2>2. DOMAIN excused' = Pools /\ excused' = [p \in Pools |-> excused'[p]]
    BY <1>1 DEF ReplayWith
  <2> QED
    BY <1>2, <1>3, <2>1, <2>2, ChainKept
<1>5. pools' \in MapUpTo(height) /\ In(pools') = In(pools)
  BY <1>1, PatchedIs
<1>6. toFetch' \subseteq In(pools)
  BY <1>1 DEF ReplayWith
<1>7. FileOK'
  BY <1>2, <1>3, FileUnchanged
<1>8. StartOK'
  BY <1>2, <1>3, <1>5, <1>6, MapStays DEF StartOK, planVars, In, Stages
<1> QED
  BY <1>4, <1>7, <1>8 DEF ShapeOK

\* What the reads of the replay do, with their outcome named
Good(outcome) == {p \in toFetch : ReadOk(p, outcome[p])}
Reread(outcome) == [p \in Pools |-> IF p \in Good(outcome) THEN Read(p, outcome[p]) ELSE pools[p]]
FetchedWith(outcome) ==
    LET after == Current(Reread(outcome), latest)
    IN  /\ pools' = [p \in Pools |-> IF p \in toFetch \ Good(outcome)
                                     THEN Pool(after[p].asof, after[p].label, TRUE)
                                     ELSE after[p]]
        /\ skipped' = [p \in Pools |->
              IF p \notin toFetch THEN skipped[p]
              ELSE IF p \in Good(outcome) THEN "no" ELSE Tombstone(p, outcome[p])]
        /\ excused' = [p \in Pools |->
              IF p \in toFetch THEN excused[p] \union Behind(p, outcome[p]) ELSE excused[p]]

LEMMA ReplayFetchIs ==
    ASSUME ReplayFetch
    PROVE  /\ \E outcome \in [toFetch -> Outcomes] : FetchedWith(outcome)
           /\ pc = "replay_fetch" /\ pc' = "tokens" /\ toFetch' = {}
           /\ Checkpoint(pools', skipped')
           /\ UNCHANGED <<chainVars, planVars>>
BY DEF ReplayFetch, FetchedWith, Good, Reread

\* The pools after the replay: each one has its state read again, or as it was,
\* and a label that reaches the block replayed to; what could not be read is stale.
LEMMA FetchedIs ==
    ASSUME ShapeOK, toFetch \subseteq In(pools),
           NEW outcome \in [toFetch -> Outcomes], FetchedWith(outcome)
    PROVE  /\ pools' \in MapUpTo(height) /\ In(pools') = In(pools)
           /\ \A p \in Good(outcome) :
                 pools'[p].asof = LastLog(p, outcome[p]) /\ pools'[p].label = Larger(latest, latest)
           /\ \A p \in In(pools) \ toFetch :
                 pools'[p].asof = pools[p].asof /\ pools'[p].label = Larger(pools[p].label, latest)
           /\ \A p \in toFetch \ Good(outcome) : pools'[p].stale
<1> DEFINE before == Reread(outcome)
           after == Current(before, latest)
<1>1. StartOK /\ height \in Nat /\ toFetch \subseteq Pools /\ latest \in 0..height
  BY Constants DEF ShapeOK, ChainOK, StartOK
<1>2. /\ before \in MapUpTo(height)
      /\ \A p \in Pools : IF p \in Good(outcome) THEN before[p] = Read(p, outcome[p])
                          ELSE before[p] = pools[p]
  <2>1. before = [p \in Pools |-> IF p \in toFetch /\ ReadOk(p, outcome[p]) THEN Read(p, outcome[p])
                                  ELSE pools[p]]
    BY DEF Reread, Good
  <2>2. before \in MapUpTo(height)
    BY <1>1, <2>1, ReadsMap
  <2> QED
    BY <2>2 DEF Reread
<1>3. \A p \in Good(outcome) : /\ Read(p, outcome[p]).present
                               /\ Read(p, outcome[p]).asof = LastLog(p, outcome[p])
                               /\ Read(p, outcome[p]).label = latest
  BY <1>1, OutcomeIs, ReadIs DEF Good
<1>4. In(before) = In(pools) /\ Good(outcome) \subseteq In(pools)
  BY <1>2, <1>3 DEF In, Good
<1> HIDE DEF before
<1>5. /\ after \in MapUpTo(height) /\ In(after) = In(pools)
      /\ \A p \in In(pools) : /\ after[p].asof = before[p].asof
                              /\ after[p].label = Larger(before[p].label, latest)
  BY <1>1, <1>2, <1>4, CurrentIs
<1>6. \A p \in Pools : pools'[p] = IF p \in toFetch \ Good(outcome)
                                   THEN Pool(after[p].asof, after[p].label, TRUE) ELSE after[p]
  BY DEF FetchedWith, before
<1>7. DOMAIN pools' = Pools /\ pools' = [p \in Pools |-> pools'[p]]
  BY DEF FetchedWith
<1> HIDE DEF after
<1>8. \A p \in toFetch \ Good(outcome) :
          /\ pools'[p].present /\ pools'[p].stale
          /\ pools'[p] \in [present: {TRUE}, asof: 0..height, label: 0..height, stale: BOOLEAN]
  <2> SUFFICES ASSUME NEW p \in toFetch \ Good(outcome)
               PROVE  /\ pools'[p].present /\ pools'[p].stale
                      /\ pools'[p] \in
                            [present: {TRUE}, asof: 0..height, label: 0..height, stale: BOOLEAN]
    OBVIOUS
  <2> DEFINE s == Pool(after[p].asof, after[p].label, TRUE)
  <2>1. after[p].present /\ p \in Pools
    BY <1>5 DEF In
  <2>2. after[p].asof \in 0..height /\ after[p].label \in 0..height
    BY <1>5, <2>1, PresentIs
  <2>3. s.present /\ s.stale /\ s \in [present: {TRUE}, asof: 0..height, label: 0..height, stale: BOOLEAN]
    BY <2>2 DEF Pool
  <2>4. pools'[p] = s
    BY <1>6, <2>1
  <2> HIDE DEF s
  <2> QED
    BY <2>3, <2>4
<1>9. \A p \in Pools : p \notin toFetch \ Good(outcome) => pools'[p] = after[p]
  BY <1>6
<1>10. pools' \in MapUpTo(height)
  BY <1>5, <1>7, <1>8, <1>9 DEF MapUpTo
<1>11. In(pools') = In(pools)
  BY <1>5, <1>8, <1>9 DEF In
<1>12. \A p \in Good(outcome) :
           pools'[p].asof = LastLog(p, outcome[p]) /\ pools'[p].label = Larger(latest, latest)
  <2> SUFFICES ASSUME NEW p \in Good(outcome)
               PROVE  pools'[p].asof = LastLog(p, outcome[p]) /\ pools'[p].label = Larger(latest, latest)
    OBVIOUS
  <2>1. p \in In(pools) /\ p \in Pools
    BY <1>4 DEF In
  <2>2. pools'[p] = after[p] /\ before[p] = Read(p, outcome[p])
    BY <1>2, <1>9, <2>1
  <2>3. before[p].asof = LastLog(p, outcome[p]) /\ before[p].label = latest
    BY <1>3, <2>2
  <2> QED
    BY <1>5, <2>1, <2>2, <2>3
<1>13. \A p \in In(pools) \ toFetch :
           pools'[p].asof = pools[p].asof /\ pools'[p].label = Larger(pools[p].label, latest)
  BY <1>2, <1>5, <1>9 DEF In, Good
<1> QED
  BY <1>8, <1>10, <1>11, <1>12, <1>13

LEMMA ReplayFetchKeepsShape == ASSUME ShapeOK, ReplayFetch PROVE ShapeOK'
<1>1. PICK outcome \in [toFetch -> Outcomes] : FetchedWith(outcome)
  BY ReplayFetchIs
<1>2. /\ pc = "replay_fetch" /\ pc' = "tokens" /\ toFetch' = {}
      /\ Checkpoint(pools', skipped')
      /\ UNCHANGED <<chainVars, planVars>>
  BY ReplayFetchIs
<1>3. /\ height' = height /\ height \in Nat /\ ChainOK /\ FileOK /\ StartOK
      /\ toFetch \subseteq In(pools)
  BY <1>2, Constants DEF chainVars, ShapeOK, ChainOK, StartOK
<1>4. ChainOK'
  <2>1. \A p \in Pools : excused'[p] \subseteq 1..height
    BY <1>1, <1>3, BehindIs DEF FetchedWith, ChainOK
  <2>2. DOMAIN excused' = Pools /\ excused' = [p \in Pools |-> excused'[p]]
    BY <1>1 DEF FetchedWith
  <2> QED
    BY <1>2, <1>3, <2>1, <2>2, ChainKept
<1>5. pools' \in MapUpTo(height) /\ In(pools') = In(pools)
  BY <1>1, <1>3, FetchedIs
<1>6. skipped' \in SkipMap
  BY <1>1, <1>3 DEF FetchedWith, StartOK, SkipMap, Tombstone
<1>7. FileOK'
  BY <1>2, <1>3, <1>5, <1>6, CheckpointIs
<1>8. StartOK'
  BY <1>2, <1>3, <1>5, <1>6, MapStays DEF StartOK, planVars, In
<1> QED
  BY <1>4, <1>7, <1>8 DEF ShapeOK

\* A step that saves at most the pools it leaves unchanged
LEMMA SaveKeepsShape ==
    ASSUME ShapeOK, UNCHANGED <<chainVars, planVars, pools, skipped, toFetch, excused>>,
           file' = file \/ Checkpoint(pools, skipped),
           pc' \in Stages \union {"down", "replay", "tokens", "running"}
    PROVE  ShapeOK'
<1>1. ChainOK' /\ height' = height /\ FileOK /\ StartOK
  BY ChainUnchanged DEF ShapeOK, chainVars
<1>2. FileOK'
  BY <1>1, CheckpointIs, FileUnchanged DEF StartOK
<1>3. StartOK'
  BY <1>1, MapStays DEF StartOK, planVars, In, Stages
<1> QED
  BY <1>1, <1>2, <1>3 DEF ShapeOK

\* discovery/mod.rs, bootstrap: the maps of pools, the plan of what is read and the file
\* on disk fit each other at every stage of a start, also when one before was cut short.
THEOREM ShapeInvariant == Spec => []ShapeOK
<1>1. Init => ShapeOK
  <2> SUFFICES ASSUME Init PROVE ShapeOK
    OBVIOUS
  <2>1. ChainOK
    BY Constants DEF Init, ChainOK
  <2>2. FileOK
    BY DEF Init, FileOK
  <2>3. pools \in MapUpTo(height) /\ In(pools) = {} /\ skipped \in SkipMap
    BY NothingIs DEF Init
  <2>4. StartOK
    <3>1. /\ pc = "down" /\ known = {} /\ toFetch = {} /\ latest = 0 /\ anchor = 0 /\ height = 1
          /\ replay = FALSE /\ loaded = FALSE /\ otherFailed = FALSE
      BY DEF Init
    <3>2. 0 \in 0..height
      BY <3>1
    <3> QED
      BY <2>3, <3>1, <3>2 DEF StartOK
  <2> QED
    BY <2>1, <2>2, <2>4 DEF ShapeOK
<1>2. ShapeOK /\ [Next]_vars => ShapeOK'
  <2> SUFFICES ASSUME ShapeOK, [Next]_vars PROVE ShapeOK'
    OBVIOUS
  <2>1. CASE UNCHANGED vars
    <3>1. UNCHANGED <<chainVars, file, pc, planVars, pools, skipped, toFetch, excused>>
      BY <2>1 DEF vars
    <3>2. ChainOK' /\ FileOK' /\ height' = height /\ StartOK
      BY <3>1, ChainUnchanged, FileUnchanged DEF ShapeOK, chainVars
    <3>3. StartOK'
      BY <3>1, <3>2, MapStays DEF StartOK, planVars, In
    <3> QED
      BY <3>2, <3>3 DEF ShapeOK
  <2>2. CASE Grow
    BY <2>2, GrowKeepsShape
  <2>3. CASE Load
    BY <2>3, LoadKeepsShape
  <2>4. CASE FetchV2Batch \/ FetchAerodromeV2Batch \/ FetchV3Batch \/ FetchTraderJoeLbBatch
    BY <2>4, BatchKeepsShape
       DEF FetchV2Batch, FetchAerodromeV2Batch, FetchV3Batch, FetchTraderJoeLbBatch, Stages
  <2>5. CASE TraderJoeLbUndecodable \/ ReplayFails \/ Crash
    BY <2>5, ExitKeepsShape DEF TraderJoeLbUndecodable, ReplayFails, Crash
  <2>6. CASE FetchCurve \/ FetchBalancer
    <3>1. FALSE \in BOOLEAN
      OBVIOUS
    <3> QED
      BY <2>6, <3>1, OtherKeepsShape DEF FetchCurve, FetchBalancer
  <2>7. CASE PostFetch \/ Finish
    <3>1. /\ UNCHANGED <<chainVars, planVars, pools, skipped, toFetch, excused>>
          /\ file' = file \/ Checkpoint(pools, skipped)
          /\ pc' \in {"replay", "tokens", "running"}
      BY <2>7 DEF PostFetch, Finish
    <3> QED
      BY <3>1, SaveKeepsShape
  <2>8. CASE ReplayNothing
    BY <2>8, ReplayNothingKeepsShape
  <2>9. CASE ReplayLogs
    BY <2>9, ReplayLogsKeepsShape
  <2>10. CASE ReplayFetch
    BY <2>10, ReplayFetchKeepsShape
  <2> QED
    BY <2>1, <2>2, <2>3, <2>4, <2>5, <2>6, <2>7, <2>8, <2>9, <2>10 DEF Next
<1> QED
  BY <1>1, <1>2, PTL DEF Spec

-----------------------------------------------------------------------------
(* The labels are true *)

\* What a state has, it keeps while the chain grows and more is excused.
LEMMA HasKept ==
    ASSUME ShapeOK, NEW p \in Pools, NEW state, NEW upto, Has(p, state, upto),
           \A q \in Pools : excused[q] \subseteq excused'[q], logs' = logs
    PROVE  Has(p, state, upto)'
BY DEF Has

LEMMA LargerIs ==
    ASSUME NEW m \in Nat, NEW n \in Nat
    PROVE  /\ Larger(m, n) \in {m, n} /\ m <= Larger(m, n) /\ n <= Larger(m, n)
BY DEF Larger

\* What is true of a map stays true.
LEMMA TruthKept ==
    ASSUME ShapeOK, NEW map, map' = map, Truthful(map),
           \A p \in Pools : excused[p] \subseteq excused'[p], logs' = logs
    PROVE  Truthful(map)'
BY DEF Truthful, In

\* A new block has no log below the labels.
LEMMA GrowKeepsHas ==
    ASSUME ShapeOK, Grow, NEW p \in Pools, NEW state, state' = state, NEW upto \in 0..height, upto' = upto,
           Has(p, state, upto)
    PROVE  Has(p, state, upto)'
<1>1. height' = height + 1 /\ excused' = excused /\ height \in Nat
  BY Constants DEF Grow, ShapeOK, ChainOK
<1>2. \A l \in logs'[p] : l \in logs[p] \/ l = height + 1
  BY <1>1 DEF Grow
<1>3. \A l \in logs'[p] : l <= upto => l \in logs[p]
  BY <1>1, <1>2
<1> QED
  BY <1>1, <1>3 DEF Has

\* Steps that leave the chain, and only excuse more
Excuses == logs' = logs /\ height' = height /\ \A p \in Pools : excused[p] \subseteq excused'[p]

LEMMA FileTrueKept ==
    ASSUME ShapeOK, FileTrue, Excuses, file' = file
    PROVE  FileTrue'
BY TruthKept DEF FileTrue, Excuses

\* What is saved is true when the pools are.
LEMMA NextSaved ==
    ASSUME ShapeOK, FileTrue, Excuses, ShapeOK', Truthful(pools)',
           file' = file \/ Checkpoint(pools', skipped')
    PROVE  FileTrue'
<1> DEFINE m == pools'
           k == skipped'
<1>1. CASE file' = file
  BY <1>1, FileTrueKept
<1>2. CASE Checkpoint(pools', skipped')
  <2>1. k \in SkipMap
    BY DEF ShapeOK, StartOK, SkipMap
  <2>2. m \in MapUpTo(height)
    BY DEF ShapeOK, StartOK, MapUpTo, Absent, Excuses
  <2>3. file' = file \/ (file'.exists /\ file'.pools = m)
    BY <1>2, <2>1, <2>2, CheckpointIs DEF ShapeOK, Excuses
  <2> QED
    BY <1>1, <2>3 DEF FileTrue, Truthful, In
<1> QED
  BY <1>1, <1>2

\* Pools that are complete up to the anchor have true labels.
LEMMA CompleteIsTrue ==
    ASSUME ShapeOK', CompleteToAnchor'
    PROVE  Truthful(pools)'
<1> SUFFICES ASSUME NEW p \in In(pools'), NEW l \in logs'[p], pools'[p].asof < l, l <= pools'[p].label
             PROVE  l \in excused'[p]
  BY DEF Truthful, In
<1>1. p \in Pools /\ pools'[p].present
  BY DEF In
<1>2. l \in Nat /\ l >= 1 /\ anchor' \in Nat /\ height' \in Nat
  BY <1>1, Constants DEF ShapeOK, ChainOK, StartOK
<1>3. pools'[p].label \in Nat
  <2>1. pools' \in MapUpTo(height')
    BY DEF ShapeOK, StartOK, MapUpTo, Absent
  <2>2. pools'[p].label \in 0..height'
    BY <1>1, <1>2, <2>1, BlocksAre
  <2> QED
    BY <2>2
<1>4. pools'[p].label # 0
  BY <1>2, <1>3
<1>5. l <= Larger(pools'[p].label, anchor')
  BY <1>2, <1>3 DEF Larger
<1>6. Has(p, pools[p], Larger(pools[p].label, anchor))'
  BY <1>4 DEF CompleteToAnchor, In
<1> QED
  BY <1>5, <1>6 DEF Has

LEMMA LoadKeepsLabels == ASSUME ShapeOK, LabelInv, Load, ShapeOK' PROVE LabelInv'
<1>1. PICK fresh \in SUBSET In(Cached), active \in SUBSET {p \in Pools : Tombstones[p] # "no"} :
             LoadWith(fresh, active)
  BY DEF Load, LoadWith
<1>2. /\ anchor' = Anchor(Cached) /\ pc' = "v2"
      /\ UNCHANGED <<chainVars, file, excused>>
  BY DEF Load
<1>3. Excuses /\ height \in Nat
  BY <1>2, Constants DEF Excuses, chainVars, ShapeOK, ChainOK
<1>4. Cached \in MapUpTo(height) /\ Truthful(Cached)
  <2>1. CASE file.exists
    BY <2>1, FileIs DEF ShapeOK, LabelInv, FileTrue
  <2>2. CASE ~ file.exists
    BY <2>2, FileIs, NothingIs DEF ShapeOK, Truthful
  <2> QED
    BY <2>1, <2>2
<1>5. CompleteToAnchor'
  <2> SUFFICES ASSUME NEW p \in In(pools')
               PROVE  /\ ~ pools'[p].stale
                      /\ pools'[p].label # 0 => Has(p, pools[p], Larger(pools[p].label, anchor))'
    BY DEF CompleteToAnchor, In
  <2>1. p \in Pools /\ pools'[p].present
    BY DEF In
  <2>2. pools'[p] = Cached[p] /\ (Admitted(p, fresh) \/ ~ Cached[p].stale)
    BY <1>1, <2>1 DEF LoadWith, Absent
  <2>3. ~ Cached[p].stale /\ p \in In(Cached)
    BY <2>1, <2>2 DEF Admitted, In
  <2>4. Has(p, Cached[p], Cached[p].label)
    BY <1>4, <2>3, TruthfulIs
  <2>5. Cached[p].label # 0 => Larger(Cached[p].label, anchor') = Cached[p].label
    <3>1. Cached[p].label \in Nat /\ anchor' \in Nat
      <4>1. Cached[p].label \in 0..height
        BY <1>3, <1>4, <2>3, BlocksAre DEF In
      <4>2. Anchor(Cached) \in 0..height
        BY <1>3, <1>4, AnchorIs
      <4> QED
        BY <1>2, <1>3, <4>1, <4>2
    <3>2. Cached[p].label # 0 => anchor' <= Cached[p].label
      BY <1>2, <1>3, <1>4, <2>3, AnchorIs
    <3> QED
      BY <3>1, <3>2 DEF Larger
  <2> QED
    BY <1>2, <2>2, <2>3, <2>4, <2>5 DEF Has, chainVars
<1>6. FileTrue'
  BY <1>2, <1>3, FileTrueKept DEF LabelInv
<1> QED
  BY <1>2, <1>5, <1>6 DEF LabelInv, BeforeReplay, DuringReplay

LEMMA BatchKeepsLabels ==
    ASSUME ShapeOK, LabelInv, ShapeOK', NEW kind \in Stages, NEW then \in Stages, Batch(kind, then)
    PROVE  LabelInv'
<1>1. PICK outcome \in [Due(kind) -> Outcomes] : BatchWith(kind, outcome)
  BY DEF Batch, BatchWith
<1>2. /\ pc = kind /\ pc' = then
      /\ UNCHANGED <<chainVars, planVars>>
      /\ file' = file \/ Checkpoint(pools', skipped')
  BY DEF Batch
<1>3. Due(kind) \subseteq Pools
  BY DEF Due, ShapeOK, StartOK
<1>4. Excuses
  BY <1>1, <1>2 DEF Excuses, chainVars, BatchWith
<1>5. /\ pools' \in MapUpTo(height)
      /\ \A p \in Pools : IF p \in Due(kind) /\ ReadOk(p, outcome[p])
                          THEN pools'[p] = Read(p, outcome[p]) ELSE pools'[p] = pools[p]
  BY <1>1, <1>3, ReadsMap DEF BatchWith
<1>6. CompleteToAnchor'
  <2> SUFFICES ASSUME NEW p \in In(pools')
               PROVE  /\ ~ pools'[p].stale
                      /\ pools'[p].label # 0 => Has(p, pools[p], Larger(pools[p].label, anchor))'
    BY DEF CompleteToAnchor, In
  <2>1. p \in Pools /\ pools'[p].present /\ anchor' = anchor /\ latest' = latest
    BY <1>2 DEF In, planVars
  <2>2. CASE p \in Due(kind) /\ ReadOk(p, outcome[p])
    <3>1. outcome[p] \in Answers
      BY <2>2, OutcomeIs
    <3>2. pools'[p] = Read(p, outcome[p])
      BY <1>5, <2>1, <2>2
    <3>3. ~ pools'[p].stale /\ pools'[p].asof = LastLog(p, outcome[p]) /\ pools'[p].label = latest
      <4> DEFINE s == Read(p, outcome[p])
      <4>1. ~ s.stale /\ s.asof = LastLog(p, outcome[p]) /\ s.label = latest
        BY <2>1, <3>1, ReadIs
      <4>2. pools'[p] = s
        BY <3>2
      <4> HIDE DEF s
      <4> QED
        BY <4>1, <4>2
    <3>4. Behind(p, outcome[p]) \subseteq excused'[p]
      BY <1>1, <2>1, <2>2 DEF BatchWith
    <3>5. \A l \in logs[p] : LastLog(p, outcome[p]) < l /\ l <= Larger(latest, anchor) => l \in excused'[p]
      BY <2>1, <3>1, <3>4, ReadHas
    <3> QED
      BY <1>4, <2>1, <3>3, <3>5 DEF Has, Excuses
  <2>3. CASE ~ (p \in Due(kind) /\ ReadOk(p, outcome[p]))
    <3>1. pools'[p] = pools[p] /\ p \in In(pools)
      BY <1>5, <2>1, <2>3 DEF In
    <3>2. /\ ~ pools[p].stale
          /\ pools[p].label # 0 => Has(p, pools[p], Larger(pools[p].label, anchor))
      BY <1>2, <3>1 DEF LabelInv, BeforeReplay, CompleteToAnchor
    <3> QED
      BY <1>4, <2>1, <3>1, <3>2 DEF Has, Excuses
  <2> QED
    BY <2>2, <2>3
<1>7. FileTrue'
  <2>1. Truthful(pools)'
    BY <1>6, CompleteIsTrue
  <2> QED
    BY <1>2, <1>4, <2>1, NextSaved DEF LabelInv
<1> QED
  BY <1>2, <1>6, <1>7 DEF LabelInv, BeforeReplay, DuringReplay, Stages

LEMMA OtherKeepsLabels ==
    ASSUME ShapeOK, LabelInv, ShapeOK', NEW q \in toFetch, NEW o \in Outcomes,
           NEW rejected \in BOOLEAN, FetchOther(q, o, rejected)
    PROVE  LabelInv'
<1>1. /\ pools' = IF ReadOk(q, o) /\ ~ rejected THEN [pools EXCEPT ![q] = Read(q, o)] ELSE pools
      /\ excused' = [excused EXCEPT ![q] = @ \union Behind(q, o)]
      /\ Checkpoint(pools', skipped')
      /\ pc = "other" /\ UNCHANGED <<chainVars, pc, latest, anchor>>
  BY DEF FetchOther
<1>2. q \in Pools /\ DOMAIN excused = Pools /\ DOMAIN pools = Pools
  BY DEF ShapeOK, ChainOK, StartOK, MapUpTo
<1>3. Excuses
  BY <1>1, <1>2 DEF Excuses, chainVars
<1>4. \A p \in Pools : IF p = q /\ ReadOk(q, o) /\ ~ rejected THEN pools'[p] = Read(q, o)
                       ELSE pools'[p] = pools[p]
  BY <1>1, <1>2
<1>5. CompleteToAnchor'
  <2> SUFFICES ASSUME NEW p \in In(pools')
               PROVE  /\ ~ pools'[p].stale
                      /\ pools'[p].label # 0 => Has(p, pools[p], Larger(pools[p].label, anchor))'
    BY DEF CompleteToAnchor, In
  <2>1. p \in Pools /\ pools'[p].present /\ anchor' = anchor /\ latest' = latest
    BY <1>1 DEF In
  <2>2. CASE p = q /\ ReadOk(q, o) /\ ~ rejected
    <3>1. o \in Answers
      BY <2>2, OutcomeIs
    <3>3. ~ pools'[p].stale /\ pools'[p].asof = LastLog(p, o) /\ pools'[p].label = latest
      <4> DEFINE s == Read(p, o)
      <4>1. ~ s.stale /\ s.asof = LastLog(p, o) /\ s.label = latest
        BY <2>1, <3>1, ReadIs
      <4>2. pools'[p] = s
        BY <1>4, <2>1, <2>2
      <4> HIDE DEF s
      <4> QED
        BY <4>1, <4>2
    <3>4. Behind(p, o) \subseteq excused'[p]
      BY <1>1, <1>2, <2>2
    <3>5. \A l \in logs[p] : LastLog(p, o) < l /\ l <= Larger(latest, anchor) => l \in excused'[p]
      BY <2>1, <3>1, <3>4, ReadHas
    <3> QED
      BY <1>3, <2>1, <3>3, <3>5 DEF Has, Excuses
  <2>3. CASE ~ (p = q /\ ReadOk(q, o) /\ ~ rejected)
    <3>1. pools'[p] = pools[p] /\ p \in In(pools)
      BY <1>4, <2>1, <2>3 DEF In
    <3>2. /\ ~ pools[p].stale
          /\ pools[p].label # 0 => Has(p, pools[p], Larger(pools[p].label, anchor))
      BY <1>1, <3>1 DEF LabelInv, BeforeReplay, CompleteToAnchor, Stages
    <3> QED
      BY <1>3, <2>1, <3>1, <3>2 DEF Has, Excuses
  <2> QED
    BY <2>2, <2>3
<1>6. FileTrue'
  BY <1>1, <1>3, <1>5, CompleteIsTrue, NextSaved DEF LabelInv
<1> QED
  BY <1>1, <1>5, <1>6 DEF LabelInv, BeforeReplay, DuringReplay, Stages

LEMMA PostFetchKeepsLabels ==
    ASSUME ShapeOK, LabelInv, ShapeOK', PostFetch
    PROVE  LabelInv'
<1>1. /\ pc = "other" /\ pc' \in {"replay", "tokens"}
      /\ UNCHANGED <<chainVars, planVars, pools, skipped, toFetch, excused>>
      /\ file' = file \/ Checkpoint(pools', skipped')
  BY DEF PostFetch
<1>2. Excuses
  BY <1>1 DEF Excuses, chainVars
<1>3. CompleteToAnchor
  BY <1>1 DEF LabelInv, BeforeReplay, Stages
<1>4. CompleteToAnchor'
  BY <1>1, <1>3 DEF CompleteToAnchor, Has, In, chainVars, planVars
<1>5. Truthful(pools)'
  BY <1>4, CompleteIsTrue
<1>6. FileTrue'
  BY <1>1, <1>2, <1>5, NextSaved DEF LabelInv
<1> QED
  BY <1>1, <1>4, <1>5, <1>6 DEF LabelInv, BeforeReplay, DuringReplay

LEMMA ReplayNothingKeepsLabels ==
    ASSUME ShapeOK, LabelInv, ReplayNothing
    PROVE  LabelInv'
<1>1. /\ pc = "replay" /\ pc' = "tokens"
      /\ pools' = Current(pools, anchor)
      /\ excused' = [p \in Pools |-> excused[p] \union Unlabelled(p, anchor)]
      /\ UNCHANGED <<chainVars, file, planVars>>
  BY DEF ReplayNothing
<1>2. Excuses /\ height \in Nat /\ anchor \in 0..height /\ pools \in MapUpTo(height)
  BY <1>1, Constants DEF Excuses, chainVars, ShapeOK, ChainOK, StartOK
<1>3. /\ In(pools') = In(pools)
      /\ \A p \in In(pools) : /\ pools'[p].asof = pools[p].asof
                              /\ pools'[p].label = Larger(pools[p].label, anchor)
  BY <1>1, <1>2, CurrentIs
<1>4. Truthful(pools)'
  <2> SUFFICES ASSUME NEW p \in In(pools), NEW l \in logs[p],
                      pools[p].asof < l, l <= Larger(pools[p].label, anchor)
               PROVE  l \in excused'[p]
    BY <1>2, <1>3 DEF Truthful, Excuses, In
  <2>1. p \in Pools /\ pools[p].present
    BY DEF In
  <2>2. CASE pools[p].label # 0
    <3>1. l \in excused[p]
      BY <1>1, <2>2 DEF LabelInv, BeforeReplay, CompleteToAnchor, Has
    <3> QED
      BY <1>2, <2>1, <3>1 DEF Excuses
  <2>3. CASE pools[p].label = 0
    <3>1. l <= anchor
      BY <1>2, <2>3 DEF Larger
    <3>2. l \in Unlabelled(p, anchor)
      BY <2>1, <2>3, <3>1 DEF Unlabelled
    <3> QED
      BY <1>1, <2>1, <3>2
  <2> QED
    BY <2>2, <2>3
<1>5. FileTrue'
  BY <1>1, <1>2, FileTrueKept DEF LabelInv
<1> QED
  BY <1>1, <1>4, <1>5 DEF LabelInv, BeforeReplay, DuringReplay, Stages

\* The replay: a pool that is patched, or that no log of the range touches, has
\* all logs up to the latest block that are not excused.
LEMMA ReplayLogsKeepsLabels ==
    ASSUME ShapeOK, LabelInv, ReplayLogs
    PROVE  LabelInv'
<1>1. PICK h \in Answers : ReplayWith(h)
  BY ReplayLogsIs
<1>2. /\ pc = "replay" /\ latest > anchor /\ pc' = "replay_fetch"
      /\ UNCHANGED <<chainVars, file, planVars, skipped>>
  BY ReplayLogsIs
<1>3. /\ Excuses /\ height \in Nat /\ latest \in Nat /\ anchor \in Nat
      /\ pools \in MapUpTo(height)
  BY <1>1, <1>2, Constants DEF Excuses, chainVars, ShapeOK, ChainOK, StartOK, ReplayWith
<1>4. \A p \in Pools : /\ InRange(p) \ Seen(p, h) \subseteq excused'[p]
                       /\ Unlabelled(p, latest) \subseteq excused'[p]
                       /\ p \in Patching(h) => InRange(p) \ {First(p, h)} \subseteq excused'[p]
  BY <1>1 DEF ReplayWith
<1>5. \A p \in Pools : logs[p] \subseteq Nat
  BY DEF ShapeOK, ChainOK
<1>6. Monus(anchor, Backfill) \in Nat /\ Monus(anchor, Backfill) <= anchor
  BY <1>3, Constants DEF Monus
<1>7. \A p \in In(pools') \ toFetch' : Has(p, pools[p], Larger(pools[p].label, latest))'
  <2> SUFFICES ASSUME NEW p \in In(pools') \ toFetch', NEW l \in logs[p],
                      pools'[p].asof < l, l <= Larger(pools'[p].label, latest)
               PROVE  l \in excused'[p]
    BY <1>2, <1>3 DEF Has, Excuses, planVars
  <2>1. p \in Pools /\ pools'[p].present /\ l \in Nat
    BY <1>5 DEF In
  <2>2. CASE p \in Patching(h)
    <3>1. Seen(p, h) # {}
      BY <2>2 DEF Patching
    <3>2. First(p, h) \in InRange(p)
      BY <2>1, <3>1, FirstIs DEF Seen
    <3>3. pools'[p].asof = First(p, h) /\ pools'[p].label = latest
      <4>1. pools'[p] = Pool(First(p, h), latest, pools[p].stale)
        BY <1>1, <2>1, <2>2 DEF ReplayWith
      <4> QED
        BY <4>1 DEF Pool
    <3>4. l <= latest /\ First(p, h) < l /\ First(p, h) \in Nat /\ First(p, h) > Monus(anchor, Backfill)
      BY <1>3, <1>5, <2>1, <3>2, <3>3 DEF Larger, InRange
    <3>5. l \in InRange(p) \ {First(p, h)}
      BY <1>6, <2>1, <3>4 DEF InRange
    <3> QED
      BY <1>4, <2>1, <2>2, <3>5
  <2>3. CASE p \notin Patching(h)
    <3>1. pools'[p] = pools[p] /\ p \in In(pools)
      BY <1>1, <2>1, <2>3 DEF ReplayWith, In
    <3>2. Seen(p, h) = {}
      BY <1>1, <2>3, <3>1 DEF ReplayWith, Patching
    <3>3. pools[p].label \in Nat /\ pools[p].asof < l /\ l <= Larger(pools[p].label, latest)
      BY <1>3, <2>1, <3>1, BlocksAre
    <3>4. CASE pools[p].label = 0
      <4>1. l <= latest
        BY <1>3, <3>3, <3>4 DEF Larger
      <4>2. l \in Unlabelled(p, latest)
        BY <3>1, <3>3, <3>4, <4>1 DEF Unlabelled, In
      <4> QED
        BY <1>4, <2>1, <4>2
    <3>5. CASE pools[p].label # 0 /\ l <= Larger(pools[p].label, anchor)
      <4>1. l \in excused[p]
        BY <1>2, <3>1, <3>3, <3>5 DEF LabelInv, BeforeReplay, CompleteToAnchor, Has
      <4> QED
        BY <1>3, <2>1, <4>1 DEF Excuses
    <3>6. CASE pools[p].label # 0 /\ ~ (l <= Larger(pools[p].label, anchor))
      <4>1. l > anchor /\ l <= latest
        BY <1>3, <2>1, <3>3, <3>6 DEF Larger
      <4>2. l \in InRange(p) \ Seen(p, h)
        BY <1>3, <1>6, <2>1, <3>2, <4>1 DEF InRange
      <4> QED
        BY <1>4, <2>1, <4>2
    <3> QED
      BY <3>4, <3>5, <3>6
  <2> QED
    BY <2>2, <2>3
<1>8. FileTrue'
  BY <1>2, <1>3, FileTrueKept DEF LabelInv
<1> QED
  BY <1>2, <1>7, <1>8 DEF LabelInv, BeforeReplay, DuringReplay, Stages, planVars, In

LEMMA ReplayFetchKeepsLabels ==
    ASSUME ShapeOK, LabelInv, ShapeOK', ReplayFetch
    PROVE  LabelInv'
<1>1. PICK outcome \in [toFetch -> Outcomes] : FetchedWith(outcome)
  BY ReplayFetchIs
<1>2. /\ pc = "replay_fetch" /\ pc' = "tokens"
      /\ Checkpoint(pools', skipped')
      /\ UNCHANGED <<chainVars, planVars>>
  BY ReplayFetchIs
<1>3. /\ Excuses /\ toFetch \subseteq In(pools) /\ latest \in Nat /\ anchor \in Nat
  BY <1>1, <1>2, Constants DEF Excuses, chainVars, ShapeOK, ChainOK, StartOK, FetchedWith
<1>4. /\ In(pools') = In(pools)
      /\ \A p \in Good(outcome) :
            pools'[p].asof = LastLog(p, outcome[p]) /\ pools'[p].label = Larger(latest, latest)
      /\ \A p \in In(pools) \ toFetch :
            pools'[p].asof = pools[p].asof /\ pools'[p].label = Larger(pools[p].label, latest)
      /\ \A p \in toFetch \ Good(outcome) : pools'[p].stale
  BY <1>1, <1>3, FetchedIs
<1>5. Truthful(pools)'
  <2> SUFFICES ASSUME NEW p \in In(pools), ~ pools'[p].stale, NEW l \in logs[p],
                      pools'[p].asof < l, l <= pools'[p].label
               PROVE  l \in excused'[p]
    BY <1>3, <1>4 DEF Truthful, Excuses, In
  <2>1. p \in Pools /\ l \in Nat
    BY DEF In, ShapeOK, ChainOK
  <2>2. CASE p \in Good(outcome)
    <3>1. p \in toFetch /\ ReadOk(p, outcome[p]) /\ outcome[p] \in Answers
      BY <2>2, OutcomeIs DEF Good
    <3>2. Behind(p, outcome[p]) \subseteq excused'[p]
      BY <1>1, <2>1, <3>1 DEF FetchedWith
    <3>3. LastLog(p, outcome[p]) < l /\ l <= Larger(latest, anchor)
      BY <1>3, <1>4, <2>1, <2>2 DEF Larger
    <3> QED
      BY <2>1, <3>1, <3>2, <3>3, ReadHas
  <2>3. CASE p \notin toFetch
    <3>1. Has(p, pools[p], Larger(pools[p].label, latest))
      BY <1>2, <2>3 DEF LabelInv, DuringReplay
    <3>2. l \in excused[p]
      BY <1>4, <2>3, <3>1 DEF Has
    <3> QED
      BY <1>3, <2>1, <3>2 DEF Excuses
  <2>4. CASE p \in toFetch \ Good(outcome)
    BY <1>4, <2>4
  <2> QED
    BY <2>2, <2>3, <2>4
<1>6. FileTrue'
  BY <1>2, <1>3, <1>5, NextSaved DEF LabelInv
<1> QED
  BY <1>2, <1>5, <1>6 DEF LabelInv, BeforeReplay, DuringReplay, Stages

\* A new block has no log below the labels.
LEMMA GrowKeepsLabels ==
    ASSUME ShapeOK, LabelInv, Grow
    PROVE  LabelInv'
<1>1. /\ height' = height + 1 /\ excused' = excused /\ height \in Nat
      /\ UNCHANGED <<config, file, pc, planVars, pools, skipped, toFetch>>
  BY Constants DEF Grow, ShapeOK, ChainOK
<1>2. /\ latest \in 0..height /\ anchor \in 0..height /\ pools \in MapUpTo(height)
      /\ \A p \in Pools : logs[p] \subseteq 1..height
  BY DEF ShapeOK, StartOK, ChainOK
<1>3. \A p \in Pools : \A l \in logs'[p] : l \in logs[p] \/ l = height + 1
  BY <1>1 DEF Grow
<1>4. ASSUME NEW p \in Pools, NEW state, NEW upto \in 0..height, Has(p, state, upto),
             NEW l \in logs'[p], state.asof < l, l <= upto
      PROVE  l \in excused'[p]
  <2>1. l \in logs[p]
    BY <1>1, <1>3, <1>4
  <2> QED
    BY <1>1, <1>4, <2>1 DEF Has
<1>5. \A p \in In(pools) : p \in Pools /\ pools[p].label \in 0..height
  BY <1>1, <1>2, BlocksAre DEF In
<1>6. \A p \in In(pools) : /\ Larger(pools[p].label, anchor) \in 0..height
                           /\ Larger(pools[p].label, latest) \in 0..height
  BY <1>2, <1>5 DEF Larger
<1>7. ASSUME NEW map \in MapUpTo(height), map' = map, Truthful(map)
      PROVE  Truthful(map)'
  <2> SUFFICES ASSUME NEW p \in In(map), ~ map[p].stale, NEW l \in logs'[p],
                      map[p].asof < l, l <= map[p].label
               PROVE  l \in excused'[p]
    BY <1>7 DEF Truthful, In
  <2>1. p \in Pools /\ map[p].label \in 0..height
    BY <1>1, BlocksAre DEF In
  <2>2. Has(p, map[p], map[p].label)
    BY <1>7, TruthfulIs
  <2> QED
    BY <1>4, <2>1, <2>2
<1>8. FileTrue'
  <2> SUFFICES ASSUME file.exists PROVE Truthful(file.pools)'
    BY <1>1 DEF FileTrue
  <2>1. file.pools \in MapUpTo(height) /\ Truthful(file.pools) /\ file.pools' = file.pools
    BY <1>1, FileIs DEF ShapeOK, LabelInv, FileTrue
  <2> QED
    BY <1>7, <2>1
<1>9. BeforeReplay'
  BY <1>1, <1>4, <1>5, <1>6 DEF LabelInv, BeforeReplay, CompleteToAnchor, Has, In, planVars
<1>10. DuringReplay'
  BY <1>1, <1>4, <1>5, <1>6 DEF LabelInv, DuringReplay, Has, In, planVars
<1>11. pc \in {"tokens", "running"} => Truthful(pools)'
  BY <1>1, <1>2, <1>7 DEF LabelInv
<1> QED
  BY <1>1, <1>8, <1>9, <1>10, <1>11 DEF LabelInv

\* discovery/mod.rs, bootstrap, and pool_state_cache.rs: the inductive invariant of the
\* labels.  A pool in memory is true or marked for the replay, and a checkpoint's anchor
\* is no later than what any pool in it reflects.
THEOREM LabelInvariant == Spec => []LabelInv
<1>1. Init => LabelInv
  BY DEF Init, LabelInv, FileTrue, BeforeReplay, DuringReplay, NoFile, Stages
<1>2. ShapeOK /\ ShapeOK' /\ LabelInv /\ [Next]_vars => LabelInv'
  <2> SUFFICES ASSUME ShapeOK, ShapeOK', LabelInv, [Next]_vars PROVE LabelInv'
    OBVIOUS
  <2>1. CASE UNCHANGED vars
    BY <2>1 DEF vars, chainVars, planVars, LabelInv, FileTrue, BeforeReplay, DuringReplay,
                CompleteToAnchor, Truthful, Has, In
  <2>2. CASE Grow
    BY <2>2, GrowKeepsLabels
  <2>3. CASE Load
    BY <2>3, LoadKeepsLabels
  <2>4. CASE FetchV2Batch \/ FetchAerodromeV2Batch \/ FetchV3Batch \/ FetchTraderJoeLbBatch
    BY <2>4, BatchKeepsLabels
       DEF FetchV2Batch, FetchAerodromeV2Batch, FetchV3Batch, FetchTraderJoeLbBatch, Stages
  <2>5. CASE TraderJoeLbUndecodable \/ ReplayFails \/ Crash
    <3>1. pc' = "down" /\ UNCHANGED <<chainVars, file, excused>>
      BY <2>5 DEF TraderJoeLbUndecodable, ReplayFails, Crash, Exit
    <3>2. FileTrue'
      BY <3>1, FileTrueKept DEF LabelInv, Excuses, chainVars
    <3> QED
      BY <3>1, <3>2 DEF LabelInv, BeforeReplay, DuringReplay, Stages
  <2>6. CASE FetchCurve \/ FetchBalancer
    <3>1. FALSE \in BOOLEAN
      OBVIOUS
    <3> QED
      BY <2>6, <3>1, OtherKeepsLabels DEF FetchCurve, FetchBalancer
  <2>7. CASE PostFetch
    BY <2>7, PostFetchKeepsLabels
  <2>8. CASE Finish
    <3>1. /\ pc = "tokens" /\ pc' = "running"
          /\ UNCHANGED <<chainVars, planVars, pools, skipped, toFetch, excused>>
          /\ file' = file \/ Checkpoint(pools', skipped')
      BY <2>8 DEF Finish
    <3>2. Truthful(pools)'
      BY <3>1 DEF LabelInv, Truthful, In, chainVars
    <3>3. FileTrue'
      BY <3>1, <3>2, NextSaved DEF LabelInv, Excuses, chainVars
    <3> QED
      BY <3>1, <3>2, <3>3 DEF LabelInv, BeforeReplay, DuringReplay, Stages
  <2>9. CASE ReplayNothing
    BY <2>9, ReplayNothingKeepsLabels
  <2>10. CASE ReplayLogs
    BY <2>10, ReplayLogsKeepsLabels
  <2>11. CASE ReplayFetch
    BY <2>11, ReplayFetchKeepsLabels
  <2> QED
    BY <2>1, <2>2, <2>3, <2>4, <2>5, <2>6, <2>7, <2>8, <2>9, <2>10, <2>11 DEF Next
<1> QED
  BY <1>1, <1>2, ShapeInvariant, PTL DEF Spec

\* discovery/mod.rs, bootstrap, and pool_state_cache.rs: the label of a pool in the
\* cache file, or at the end of a start, is true, whatever starts were cut short,
\* for all pools and kinds, every chain, lag of the nodes and length of the replay.
THEOREM LabelIsTrueHolds == Spec => []LabelIsTrue
<1>1. LabelInv => LabelIsTrue
  BY DEF LabelInv, FileTrue, LabelIsTrue
<1> QED
  BY <1>1, LabelInvariant, PTL

-----------------------------------------------------------------------------
(* No cached pool is lost *)

\* Whether the file is kept or replaced, guarded pools stay accounted for.
LEMMA AccountedIs ==
    ASSUME ShapeOK, KeptInv, ShapeOK', UNCHANGED <<chainVars, known>>,
           file' = file \/ Checkpoint(pools', skipped'),
           \A p \in Pools : Guarded(p) => Accounted(p)'
    PROVE  /\ file'.exists => In(file'.pools) \subseteq known'
           /\ \A p \in Pools : Guarded(p)' => Accounted(p)'
<1> DEFINE m == pools'
           k == skipped'
<1>1. CASE file' = file
  <2>1. \A p \in Pools : Guarded(p)' <=> Guarded(p)
    BY <1>1 DEF Guarded, Liquid, UpTo, chainVars
  <2> QED
    BY <1>1, <2>1 DEF KeptInv
<1>2. CASE file'.exists /\ file'.pools = m
  <2>1. In(m) \subseteq known'
    BY DEF ShapeOK, StartOK, In
  <2>2. \A p \in Pools : Guarded(p)' => m[p].present
    BY <1>2 DEF Guarded
  <2> QED
    BY <1>2, <2>1, <2>2 DEF Accounted
<1>3. file' = file \/ (file'.exists /\ file'.pools = m)
  <2>1. k \in SkipMap
    BY DEF ShapeOK, StartOK, SkipMap
  <2>2. height' = height
    BY DEF chainVars
  <2>3. m \in MapUpTo(height)
    BY <2>2 DEF ShapeOK, StartOK, MapUpTo, Absent
  <2> QED
    BY <2>1, <2>2, <2>3, CheckpointIs DEF ShapeOK
<1> QED
  BY <1>1, <1>2, <1>3

\* A start that loads the file keeps, skips or is going to read every pool of it
\* that is guarded.
LEMMA LoadKeepsPools ==
    ASSUME ShapeOK, KeptInv, ShapeOK', Load
    PROVE  KeptInv'
<1>1. PICK fresh \in SUBSET In(Cached), active \in SUBSET {p \in Pools : Tombstones[p] # "no"} :
             LoadWith(fresh, active)
  BY DEF Load, LoadWith
<1>2. /\ known \subseteq known' /\ loaded' = file.exists /\ pc' = "v2"
      /\ UNCHANGED <<chainVars, file>>
  BY DEF Load
<1>3. \A p \in Pools : Guarded(p) => Accounted(p)'
  <2> SUFFICES ASSUME NEW p \in Pools, Guarded(p) PROVE Accounted(p)'
    OBVIOUS
  <2>1. file.exists /\ Cached[p].present /\ Liquid(p, Cached[p].asof)
    BY DEF Guarded, Cached
  <2>2. p \in known'
    BY <1>2, <2>1 DEF KeptInv, Guarded, In
  <2>3. CASE Admitted(p, fresh) \/ (replay' /\ Refreshable(p, fresh) /\ ~ Cached[p].stale)
    <3>1. pools'[p] = Cached[p]
      BY <1>1, <2>2, <2>3 DEF LoadWith
    <3> QED
      BY <2>1, <3>1 DEF Accounted
  <2>4. CASE ~ (Admitted(p, fresh) \/ (replay' /\ Refreshable(p, fresh) /\ ~ Cached[p].stale))
    <3>1. Refreshable(p, fresh)
      BY <2>1, <2>4 DEF Refreshable
    <3>2. p \in toFetch'
      BY <1>1, <2>1, <2>2, <2>4, <3>1 DEF LoadWith
    <3> QED
      BY <1>2, <2>1, <3>2 DEF Accounted
  <2> QED
    BY <2>3, <2>4
<1>4. \A p \in Pools : Guarded(p)' <=> Guarded(p)
  BY <1>2 DEF Guarded, Liquid, UpTo, chainVars
<1> QED
  BY <1>2, <1>3, <1>4 DEF KeptInv, ReadsInOrder

\* A batch accounts for every pool that is due.
LEMMA BatchAccounts ==
    ASSUME ShapeOK, KeptInv, NEW kind \in Stages, NEW then \in Stages, Batch(kind, then),
           NEW p \in Pools, Guarded(p)
    PROVE  /\ Accounted(p)'
           /\ file' # file => pools'[p].present \/ skipped'[p] # "no"
<1>1. PICK outcome \in [Due(kind) -> Outcomes] : BatchWith(kind, outcome)
  BY DEF Batch, BatchWith
<1>2. /\ pc = kind /\ toFetch' = toFetch \ Due(kind) /\ loaded' = loaded
      /\ file' # file => SavesIntermediate
  BY DEF Batch, planVars
<1>3. Accounted(p)
  BY <1>2 DEF KeptInv, Stages
<1>4. CASE p \in Due(kind)
  <2>1. CASE ReadOk(p, outcome[p])
    <3>1. outcome[p] \in Answers
      BY <2>1, <1>4, OutcomeIs
    <3>2. Read(p, outcome[p]).present
      BY <3>1, ReadIs
    <3>3. pools'[p] = Read(p, outcome[p])
      BY <1>1, <1>4, <2>1 DEF BatchWith
    <3> QED
      BY <3>2, <3>3 DEF Accounted
  <2>2. CASE ~ ReadOk(p, outcome[p])
    <3>1. skipped'[p] # "no"
      BY <1>1, <1>4, <2>2 DEF BatchWith, Tombstone
    <3> QED
      BY <3>1 DEF Accounted
  <2> QED
    BY <2>1, <2>2
<1>5. CASE p \notin Due(kind)
  <2>1. pools'[p] = pools[p] /\ skipped'[p] = skipped[p]
    BY <1>1, <1>5 DEF BatchWith
  <2>2. file' # file => ~ loaded
    BY <1>2 DEF SavesIntermediate, Guarded
  <2> QED
    BY <1>2, <1>3, <1>5, <2>1, <2>2 DEF Accounted
<1> QED
  BY <1>4, <1>5

\* What a batch leaves to be read is of later kinds.
LEMMA BatchKeepsOrder ==
    ASSUME ShapeOK, ReadsInOrder, FetchV2Batch \/ FetchAerodromeV2Batch \/ FetchV3Batch \/ FetchTraderJoeLbBatch
    PROVE  ReadsInOrder'
<1>1. config' = config
  BY DEF FetchV2Batch, FetchAerodromeV2Batch, FetchV3Batch, FetchTraderJoeLbBatch, Batch, chainVars
<1>2. \A kind, then : Batch(kind, then) =>
          /\ pc = kind /\ pc' = then
          /\ \A p \in toFetch' : p \in toFetch /\ config.kind[p] # kind
  BY DEF Batch, Due
<1>3. CASE FetchV2Batch
  BY <1>1, <1>2, <1>3 DEF FetchV2Batch, ReadsInOrder
<1>4. CASE FetchAerodromeV2Batch
  BY <1>1, <1>2, <1>4 DEF FetchAerodromeV2Batch, ReadsInOrder
<1>5. CASE FetchV3Batch
  BY <1>1, <1>2, <1>5 DEF FetchV3Batch, ReadsInOrder, HighCardinality
<1>6. CASE FetchTraderJoeLbBatch
  BY <1>1, <1>2, <1>6 DEF FetchTraderJoeLbBatch, ReadsInOrder
<1> QED
  BY <1>3, <1>4, <1>5, <1>6

\* A read of another kind leaves every guarded pool alone; all are read by then.
LEMMA OtherAccounts ==
    ASSUME ShapeOK, KeptInv, NEW q \in toFetch, NEW o \in Outcomes, NEW rejected \in BOOLEAN,
           FetchOther(q, o, rejected), NEW p \in Pools, Guarded(p)
    PROVE  Accounted(p)' /\ (pools'[p].present \/ skipped'[p] # "no")
<1>1. /\ pc = "other" /\ p \notin toFetch
      /\ pools' = pools \/ pools' = [pools EXCEPT ![q] = Read(q, o)]
      /\ skipped' \in {[skipped EXCEPT ![q] = "failed"], [skipped EXCEPT ![q] = "no"], skipped}
  BY DEF FetchOther, KeptInv, ReadsInOrder, Guarded
<1>2. Accounted(p) /\ p # q
  BY <1>1 DEF KeptInv
<1>3. pools'[p] = pools[p] /\ skipped'[p] = skipped[p]
  BY <1>1, <1>2 DEF ShapeOK, StartOK, MapUpTo, SkipMap
<1> QED
  BY <1>1, <1>2, <1>3 DEF Accounted

LEMMA OtherKeepsOrder ==
    ASSUME ReadsInOrder, NEW q, NEW o, NEW rejected, FetchOther(q, o, rejected)
    PROVE  ReadsInOrder'
<1>1. pc = "other" /\ pc' = "other" /\ toFetch' \subseteq toFetch /\ config' = config
  BY DEF FetchOther, chainVars
<1> QED
  BY <1>1 DEF ReadsInOrder

\* The end of the reads, the replay, and the end of bootstrap
LEMMA EndAccounts ==
    ASSUME ShapeOK, KeptInv, ShapeOK', NEW p \in Pools, Guarded(p),
           PostFetch \/ ReplayNothing \/ ReplayLogs \/ ReplayFetch \/ Finish
    PROVE  /\ Accounted(p)'
           /\ file' # file => pools'[p].present \/ skipped'[p] # "no"
<1>1. height \in Nat /\ pools \in MapUpTo(height) /\ latest \in 0..height /\ anchor \in 0..height
  BY Constants DEF ShapeOK, ChainOK, StartOK
<1>2. Accounted(p)
  BY DEF PostFetch, ReplayNothing, ReplayLogs, ReplayFetch, Finish, KeptInv
<1>3. CASE PostFetch \/ Finish
  <2>1. /\ pools' = pools /\ skipped' = skipped
        /\ toFetch = {}
    BY <1>3 DEF PostFetch, Finish, KeptInv, ReadsInOrder
  <2> QED
    BY <1>2, <2>1 DEF Accounted
<1>4. CASE ReplayNothing
  <2>1. /\ In(pools') = In(pools)
        /\ skipped' = skipped /\ toFetch = {} /\ file' = file
    BY <1>1, <1>4, CurrentIs DEF ReplayNothing, KeptInv, ReadsInOrder
  <2> QED
    BY <1>2, <2>1 DEF Accounted, In
<1>5. CASE ReplayLogs
  <2>1. skipped' = skipped /\ toFetch = {} /\ file' = file
    BY <1>5 DEF ReplayLogs, KeptInv, ReadsInOrder
  <2>2. In(pools') = In(pools)
    BY <1>5, ReplayLogsIs, PatchedIs
  <2> QED
    BY <1>2, <2>1, <2>2 DEF Accounted, In
<1>6. CASE ReplayFetch
  <2>1. PICK outcome \in [toFetch -> Outcomes] : FetchedWith(outcome)
    BY <1>6, ReplayFetchIs
  <2>2. toFetch \subseteq In(pools)
    BY <1>6, ReplayFetchIs DEF ShapeOK, StartOK
  <2>3. In(pools') = In(pools)
    BY <2>1, <2>2, FetchedIs
  <2>4. p \notin toFetch => skipped'[p] = skipped[p]
    BY <2>1 DEF FetchedWith
  <2> QED
    BY <1>2, <2>2, <2>3, <2>4 DEF Accounted, In
<1> QED
  BY <1>3, <1>4, <1>5, <1>6

LEMMA EndKeepsOrder ==
    ASSUME ReadsInOrder, PostFetch \/ ReplayNothing \/ ReplayLogs \/ ReplayFetch \/ Finish
    PROVE  ReadsInOrder'
<1>1. CASE PostFetch \/ ReplayNothing \/ Finish
  BY <1>1 DEF PostFetch, ReplayNothing, Finish, ReadsInOrder
<1>2. CASE ReplayLogs
  BY <1>2, ReplayLogsIs DEF ReadsInOrder
<1>3. CASE ReplayFetch
  BY <1>3, ReplayFetchIs DEF ReadsInOrder
<1> QED
  BY <1>1, <1>2, <1>3

Steps ==
    \/ FetchV2Batch \/ FetchAerodromeV2Batch \/ FetchV3Batch \/ FetchTraderJoeLbBatch
    \/ FetchCurve \/ FetchBalancer
    \/ PostFetch \/ ReplayNothing \/ ReplayLogs \/ ReplayFetch \/ Finish

\* Every step of a start accounts for the guarded pools, and what it saves holds
\* them or says why they were skipped.
LEMMA StepAccounts ==
    ASSUME ShapeOK, KeptInv, ShapeOK', Steps, NEW p \in Pools, Guarded(p)
    PROVE  /\ Accounted(p)'
           /\ file' # file => pools'[p].present \/ skipped'[p] # "no"
<1>1. CASE FetchV2Batch \/ FetchAerodromeV2Batch \/ FetchV3Batch \/ FetchTraderJoeLbBatch
  <2>1. {"v2", "aerodrome_v2", "v3", "trader_joe_lb", "other"} \subseteq Stages
    BY DEF Stages
  <2> QED
    BY <1>1, <2>1, BatchAccounts
       DEF FetchV2Batch, FetchAerodromeV2Batch, FetchV3Batch, FetchTraderJoeLbBatch
<1>2. CASE FetchCurve \/ FetchBalancer
  <2>1. PICK q \in toFetch, o \in Outcomes, rejected \in BOOLEAN : FetchOther(q, o, rejected)
    BY <1>2 DEF FetchCurve, FetchBalancer
  <2> QED
    BY <2>1, OtherAccounts
<1>3. CASE PostFetch \/ ReplayNothing \/ ReplayLogs \/ ReplayFetch \/ Finish
  BY <1>3, EndAccounts
<1> QED
  BY <1>1, <1>2, <1>3 DEF Steps

LEMMA StepKeepsPools ==
    ASSUME ShapeOK, KeptInv, ShapeOK', Steps
    PROVE  KeptInv'
<1>1. UNCHANGED <<chainVars, known>> /\ (file' = file \/ Checkpoint(pools', skipped'))
  BY DEF Steps, FetchV2Batch, FetchAerodromeV2Batch, FetchV3Batch, FetchTraderJoeLbBatch, Batch,
         FetchCurve, FetchBalancer, FetchOther, PostFetch, ReplayNothing, ReplayLogs, ReplayFetch,
         Finish, planVars
<1>2. ReadsInOrder'
  <2>1. CASE FetchCurve \/ FetchBalancer
    BY <2>1, OtherKeepsOrder DEF FetchCurve, FetchBalancer, KeptInv
  <2> QED
    BY <2>1, BatchKeepsOrder, EndKeepsOrder DEF Steps, KeptInv
<1> QED
  BY <1>1, <1>2, StepAccounts, AccountedIs DEF KeptInv

LEMMA GrowKeepsPools == ASSUME ShapeOK, KeptInv, Grow PROVE KeptInv'
<1>1. /\ height' = height + 1 /\ height \in Nat
      /\ UNCHANGED <<config, file, pc, planVars, pools, skipped, toFetch>>
  BY Constants DEF Grow, ShapeOK, ChainOK
<1>2. \A p \in Pools : file.exists /\ file.pools[p].present =>
          file.pools[p].asof \in 0..height
  BY <1>1, FileIs, BlocksAre DEF ShapeOK
<1>3. \A p \in Pools : \A h \in 0..height : UpTo(p, h)' = UpTo(p, h)
  <2>1. \A p \in Pools : logs'[p] = logs[p] \/ logs'[p] = logs[p] \union {height + 1}
    BY <1>1 DEF Grow
  <2> QED
    BY <1>1, <2>1 DEF UpTo
<1>4. \A p \in Pools : Guarded(p)' => Guarded(p)
  <2> SUFFICES ASSUME NEW p \in Pools, Guarded(p)' PROVE Guarded(p)
    OBVIOUS
  <2>1. file.exists /\ file.pools[p].present /\ file' = file /\ config' = config
    BY <1>1 DEF Guarded
  <2> DEFINE h == file.pools[p].asof
  <2>2. h \in 0..height /\ h' = h
    BY <1>1, <1>2, <2>1
  <2>3. UpTo(p, h)' = UpTo(p, h)
    BY <1>3, <2>2
  <2>4. Liquid(p, h)' <=> Liquid(p, h)
    BY <2>1, <2>3 DEF Liquid
  <2> QED
    BY <2>1, <2>4 DEF Guarded
<1> QED
  BY <1>1, <1>4 DEF KeptInv, ReadsInOrder, Accounted, planVars, In

\* discovery/mod.rs, bootstrap: the inductive invariant of the checkpoints.  Every
\* cached pool is in memory, due to be read, or accounted for by what was read of it.
THEOREM KeptInvariant == Spec => []KeptInv
<1>1. Init => KeptInv
  BY DEF Init, KeptInv, ReadsInOrder, NoFile
<1>2. ShapeOK /\ ShapeOK' /\ KeptInv /\ [Next]_vars => KeptInv'
  <2> SUFFICES ASSUME ShapeOK, ShapeOK', KeptInv, [Next]_vars PROVE KeptInv'
    OBVIOUS
  <2>1. CASE UNCHANGED vars
    BY <2>1 DEF vars, chainVars, planVars, KeptInv, ReadsInOrder, Guarded, Accounted, Liquid, UpTo, In
  <2>2. CASE Grow
    BY <2>2, GrowKeepsPools
  <2>3. CASE Load
    BY <2>3, LoadKeepsPools
  <2>4. CASE Steps
    BY <2>4, StepKeepsPools
  <2>5. CASE TraderJoeLbUndecodable \/ ReplayFails \/ Crash
    <3>1. pc' = "down" /\ UNCHANGED <<chainVars, file, known>>
      BY <2>5 DEF TraderJoeLbUndecodable, ReplayFails, Crash, Exit
    <3> QED
      BY <3>1 DEF KeptInv, ReadsInOrder, In
  <2> QED
    BY <2>1, <2>2, <2>3, <2>4, <2>5 DEF Next, Steps
<1> QED
  BY <1>1, <1>2, ShapeInvariant, PTL DEF Spec

\* discovery/mod.rs, bootstrap: while unseen pools are not read, no checkpoint drops
\* a cached pool with liquidity of a kind that only the file remembers, unless it
\* says why, for all pools and kinds and every order of starts and crashes.
THEOREM CachedStaysHolds == Spec => CachedStays
<1> DEFINE Stays == \A p \in Pools :
                       /\ file.exists /\ file.pools[p].present /\ Liquid(p, file.pools[p].asof)
                       /\ config.kind[p] \in HighCardinality /\ ~ FetchUnseen
                       => file'.pools[p].present \/ file'.skipped[p] # "no"
<1>1. ShapeOK /\ ShapeOK' /\ KeptInv /\ [Next]_vars => Stays
  <2> SUFFICES ASSUME ShapeOK, ShapeOK', KeptInv, [Next]_vars, NEW p \in Pools, Guarded(p)
               PROVE  file'.pools[p].present \/ file'.skipped[p] # "no"
    BY DEF Guarded
  <2>1. CASE file' = file
    BY <2>1 DEF Guarded
  <2>2. CASE file' # file
    <3>1. Steps
      BY <2>2 DEF Next, Steps, Grow, Load, TraderJoeLbUndecodable, ReplayFails, Crash, vars
    <3>2. height' = height /\ Checkpoint(pools', skipped')
      BY <2>2, <3>1
         DEF Steps, FetchV2Batch, FetchAerodromeV2Batch, FetchV3Batch, FetchTraderJoeLbBatch,
             Batch, FetchCurve, FetchBalancer, FetchOther, PostFetch, ReplayNothing, ReplayLogs,
             ReplayFetch, Finish, chainVars
    <3>3. file'.pools = pools' /\ file'.skipped = skipped'
      BY <2>2, <3>2 DEF Checkpoint
    <3> QED
      BY <2>2, <3>1, <3>3, StepAccounts
  <2> QED
    BY <2>1, <2>2
<1>2. ShapeOK /\ KeptInv /\ [Next]_vars /\ ShapeOK' => [Stays]_vars
  BY <1>1
<1> QED
  BY <1>2, ShapeInvariant, KeptInvariant, PTL DEF Spec, CachedStays

==========================================================================

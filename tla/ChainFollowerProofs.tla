------------------------ MODULE ChainFollowerProofs ------------------------
(***************************************************************************)
(* Proofs about the detector of rewrites, the engine's loop and the loop   *)
(* over a subscription, for every tree of blocks, every order of rewrites, *)
(* every capacity of history, ring and cache of keys and both kinds of     *)
(* locks: the detector reports what the history can tell; the loop passes  *)
(* over no height's logs, as long as Backfill covers MaxDrift; and with a  *)
(* subscription every log up to the block that is reconciled is delivered, *)
(* and none of the trunk twice while its key is remembered.                *)
(***************************************************************************)
EXTENDS WssFollower, WellFoundedInduction, TLAPS

-----------------------------------------------------------------------------
(* The detector of rewrites *)

\* The inductive invariant.  IndexesAgree needs ChainOrdered: two entries with
\* one number would share an index entry, and the first to leave would take it
\* from the other.
IInv == TypeOK /\ IndexesAgree /\ ChainOrdered

-----------------------------------------------------------------------------
(* The history as a sequence *)

\* Entries of the history are different blocks with different hashes and
\* numbers.
LEMMA EntriesDiffer ==
    ASSUME chain \in Seq(Blocks), ChainOrdered,
           NEW i \in 1..Len(chain), NEW j \in 1..Len(chain),
           chain[i].hash = chain[j].hash \/ chain[i].number = chain[j].number
    PROVE  i = j
<1>1. chain[i] \in Blocks /\ chain[j] \in Blocks
  OBVIOUS
<1>2. chain[i].number = chain[j].number
  BY <1>1, BlocksAssumption
<1>3. chain[i].number \in Nat
  BY <1>1, BlocksAssumption
<1>4. ~(i < j) /\ ~(j < i)
  BY <1>2, <1>3 DEF ChainOrdered
<1> QED
  BY <1>4

\* What append_block leaves as the history: the kept entries and the new one,
\* without the oldest when there is one too many.
LEMMA InstalledChain ==
    ASSUME chain \in Seq(Blocks), NEW b \in Blocks, NEW k \in 0..Len(chain),
           Install(k, b)
    PROVE  \E off \in {0, 1} :
              /\ off = IF k + 1 > MaxHistory THEN 1 ELSE 0
              /\ chain' \in Seq(Blocks)
              /\ Len(chain') = k + 1 - off
              /\ \A i \in 1..Len(chain') :
                    chain'[i] = IF i + off = k + 1 THEN b ELSE chain[i + off]
<1> DEFINE longer == Append(SubSeq(chain, 1, k), b)
           off == IF k + 1 > MaxHistory THEN 1 ELSE 0
<1>1. /\ longer \in Seq(Blocks)
      /\ Len(longer) = k + 1
      /\ \A i \in 1..(k + 1) : longer[i] = IF i = k + 1 THEN b ELSE chain[i]
  OBVIOUS
<1>2. chain' = IF k + 1 > MaxHistory THEN Tail(longer) ELSE longer
  BY <1>1 DEF Install
<1>3. CASE k + 1 > MaxHistory
  <2>1. chain' = Tail(longer)
    BY <1>2, <1>3
  <2>2. /\ Tail(longer) \in Seq(Blocks)
        /\ Len(Tail(longer)) = k
        /\ \A i \in 1..k : Tail(longer)[i] = longer[i + 1]
    <3>1. k \in Nat
      OBVIOUS
    <3> HIDE DEF longer
    <3>2. longer # <<>>
      BY <1>1, <3>1
    <3> QED
      BY <1>1, <3>1, <3>2
  <2>3. \A i \in 1..k : Tail(longer)[i] = IF i + 1 = k + 1 THEN b ELSE chain[i + 1]
    BY <1>1, <2>2
  <2>4. /\ chain' \in Seq(Blocks)
        /\ Len(chain') = k + 1 - 1
        /\ \A i \in 1..Len(chain') : chain'[i] = IF i + 1 = k + 1 THEN b ELSE chain[i + 1]
    <3> HIDE DEF longer
    <3> QED
      BY <2>1, <2>2, <2>3
  <2> QED
    BY <1>3, <2>4
<1>4. CASE ~(k + 1 > MaxHistory)
  BY <1>1, <1>2, <1>4
<1> QED
  BY <1>3, <1>4

\* Which blocks the two indexes name after append_block.
LEMMA InstalledIndexes ==
    ASSUME IInv, NEW b \in Blocks, NEW k \in 0..Len(chain), Install(k, b),
           k > 0 => chain[k].number < b.number
    PROVE  LET gone == IF k + 1 > MaxHistory
                       THEN {IF k = 0 THEN b ELSE chain[1]} ELSE {}
               stay == ({chain[i] : i \in 1..k} \union {b}) \ gone
           IN  /\ DOMAIN byHash' = HashesOf(stay)
               /\ DOMAIN byNumber' = NumbersOf(stay)
               /\ \A c \in stay : byHash'[c.hash] = c.number /\ byNumber'[c.number] = c
PROOF
<1> DEFINE gone == IF k + 1 > MaxHistory THEN {IF k = 0 THEN b ELSE chain[1]} ELSE {}
           kept == {chain[i] : i \in 1..k}
           stay == (kept \union {b}) \ gone
<1>1. chain \in Seq(Blocks)
  BY DEF IInv, TypeOK
<1>2. byHash' = Drop(Put(Drop(byHash, HashesOf(Above(k))), b.hash, b.number), HashesOf(gone))
  <2>1. Len(Append(SubSeq(chain, 1, k), b)) = k + 1
    BY <1>1
  <2>2. Append(SubSeq(chain, 1, k), b)[1] = IF k = 0 THEN b ELSE chain[1]
    BY <1>1
  <2> QED
    BY <2>1, <2>2 DEF Install
<1>3. byNumber' = Drop(Put(Drop(byNumber, NumbersOf(Above(k))), b.number, b), NumbersOf(gone))
  <2>1. Len(Append(SubSeq(chain, 1, k), b)) = k + 1
    BY <1>1
  <2>2. Append(SubSeq(chain, 1, k), b)[1] = IF k = 0 THEN b ELSE chain[1]
    BY <1>1
  <2> QED
    BY <2>1, <2>2 DEF Install
<1>4. \A i, j \in 1..Len(chain) :
         chain[i].hash = chain[j].hash \/ chain[i].number = chain[j].number => i = j
  BY <1>1, EntriesDiffer DEF IInv
<1>5. kept \subseteq Blocks /\ gone \subseteq Blocks /\ gone \subseteq kept \union {b}
  BY <1>1
<1>6. \A c \in kept : c.number < b.number
  <2>1. \A i \in 1..k : chain[i].number \in Nat
    BY <1>1, BlocksAssumption
  <2>2. \A i \in 1..k : chain[i].number <= chain[k].number
    BY <2>1 DEF IInv, ChainOrdered
  <2> QED
    BY <2>1, <2>2, BlocksAssumption
<1>7. DOMAIN Drop(byHash, HashesOf(Above(k))) = HashesOf(kept)
  <2>1. DOMAIN byHash = HashesOf(Above(0))
    BY DEF IInv, IndexesAgree
  <2> QED
    BY <2>1, <1>4 DEF Drop, HashesOf, Above
<1>8. DOMAIN Drop(byNumber, NumbersOf(Above(k))) = NumbersOf(kept)
  <2>1. DOMAIN byNumber = NumbersOf(Above(0))
    BY DEF IInv, IndexesAgree
  <2> QED
    BY <2>1, <1>4 DEF Drop, NumbersOf, Above
<1>9. \A c, d \in kept \union {b} : c.hash = d.hash \/ c.number = d.number => c = d
  <2>1. \A c, d \in kept : c.number = d.number => c = d
    BY <1>4
  <2>2. \A c \in kept : c.number # b.number
    BY <1>5, <1>6, BlocksAssumption
  <2> QED
    BY <1>5, <2>1, <2>2, BlocksAssumption
<1>10. \A c \in kept : byHash[c.hash] = c.number /\ byNumber[c.number] = c
  BY DEF IInv, IndexesAgree
<1>11. /\ DOMAIN byHash' = HashesOf(stay)
       /\ \A c \in stay : byHash'[c.hash] = c.number
  <2> DEFINE f == Drop(byHash, HashesOf(Above(k)))
             g == Put(f, b.hash, b.number)
  <2>1. DOMAIN g = HashesOf(kept) \union {b.hash}
    BY <1>7 DEF Put
  <2>2. g[b.hash] = b.number
    BY DEF Put
  <2>3. \A c \in kept : f[c.hash] = c.number
    BY <1>7, <1>10 DEF Drop, HashesOf
  <2>4. \A c \in kept : g[c.hash] = c.number
    <3> TAKE c \in kept
    <3>1. c.hash \in DOMAIN f
      BY <1>7 DEF HashesOf
    <3>2. CASE c.hash = b.hash
      BY <3>2, <1>9, <1>6, <2>2
    <3>3. CASE c.hash # b.hash
      BY <3>1, <3>3, <2>3 DEF Put
    <3> QED
      BY <3>2, <3>3
  <2>5. byHash' = [x \in DOMAIN g \ HashesOf(gone) |-> g[x]]
    BY <1>2 DEF Drop
  <2>6. DOMAIN byHash' = (HashesOf(kept) \union {b.hash}) \ HashesOf(gone)
    BY <2>1, <2>5
  <2>7. (HashesOf(kept) \union {b.hash}) \ HashesOf(gone) = HashesOf(stay)
    BY <1>9, <1>5 DEF HashesOf
  <2>8. \A c \in stay : byHash'[c.hash] = g[c.hash]
    BY <2>5, <2>6, <2>7 DEF HashesOf
  <2> QED
    BY <2>2, <2>4, <2>6, <2>7, <2>8
<1>12. /\ DOMAIN byNumber' = NumbersOf(stay)
       /\ \A c \in stay : byNumber'[c.number] = c
  <2> DEFINE f == Drop(byNumber, NumbersOf(Above(k)))
             g == Put(f, b.number, b)
  <2>1. DOMAIN g = NumbersOf(kept) \union {b.number}
    BY <1>8 DEF Put
  <2>2. g[b.number] = b
    BY DEF Put
  <2>3. \A c \in kept : f[c.number] = c
    BY <1>8, <1>10 DEF Drop, NumbersOf
  <2>4. \A c \in kept : g[c.number] = c
    <3> TAKE c \in kept
    <3>1. c.number \in DOMAIN f
      BY <1>8 DEF NumbersOf
    <3>2. c.number # b.number
      BY <1>5, <1>6, BlocksAssumption
    <3> QED
      BY <3>1, <3>2, <2>3 DEF Put
  <2>5. byNumber' = [x \in DOMAIN g \ NumbersOf(gone) |-> g[x]]
    BY <1>3 DEF Drop
  <2>6. DOMAIN byNumber' = (NumbersOf(kept) \union {b.number}) \ NumbersOf(gone)
    BY <2>1, <2>5
  <2>7. (NumbersOf(kept) \union {b.number}) \ NumbersOf(gone) = NumbersOf(stay)
    BY <1>9, <1>5 DEF NumbersOf
  <2>8. \A c \in stay : byNumber'[c.number] = g[c.number]
    BY <2>5, <2>6, <2>7 DEF NumbersOf
  <2> QED
    BY <2>2, <2>4, <2>6, <2>7, <2>8
<1> QED
  BY <1>11, <1>12

-----------------------------------------------------------------------------
(* The steps *)

\* append_block, after pops that leave only blocks below the new one, keeps
\* the three containers in agreement and the history ascending.
LEMMA InstallKeeps ==
    ASSUME IInv, NEW b \in Blocks, NEW k \in 0..Len(chain), Install(k, b),
           k > 0 => chain[k].number < b.number, event' \in Event
    PROVE  IInv'
<1>1. chain \in Seq(Blocks) /\ Len(chain) <= MaxHistory
  BY DEF IInv, TypeOK, ChainOrdered
<1>2. PICK off \in {0, 1} :
              /\ off = IF k + 1 > MaxHistory THEN 1 ELSE 0
              /\ chain' \in Seq(Blocks)
              /\ Len(chain') = k + 1 - off
              /\ \A i \in 1..Len(chain') :
                    chain'[i] = IF i + off = k + 1 THEN b ELSE chain[i + off]
  BY <1>1, InstalledChain
<1> DEFINE gone == IF k + 1 > MaxHistory THEN {IF k = 0 THEN b ELSE chain[1]} ELSE {}
           stay == ({chain[i] : i \in 1..k} \union {b}) \ gone
<1>3. /\ DOMAIN byHash' = HashesOf(stay)
      /\ DOMAIN byNumber' = NumbersOf(stay)
      /\ \A c \in stay : byHash'[c.hash] = c.number /\ byNumber'[c.number] = c
  BY InstalledIndexes
<1>4. \A i \in 1..k : chain[i] \in Blocks /\ chain[i].number \in Nat
  BY <1>1, BlocksAssumption
<1>5. \A i, j \in 1..k : i < j => chain[i].number < chain[j].number
  BY <1>1 DEF IInv, ChainOrdered
<1>6. b.number \in Nat
  BY BlocksAssumption
<1>7. \A i \in 1..k : chain[i].number < b.number
  BY <1>4, <1>5, <1>6
<1>8. stay = {chain'[i] : i \in 1..Len(chain')}
  <2>1. CASE k + 1 > MaxHistory
    <3>1. k = MaxHistory /\ k > 0 /\ off = 1
      BY <2>1, <1>1, <1>2, HistoryAssumption
    <3>2. stay = {chain[i] : i \in 2..k} \union {b}
      <4>1. stay = ({chain[i] : i \in 1..k} \union {b}) \ {chain[1]}
        BY <2>1, <3>1
      <4>2. chain[1] # b /\ \A i \in 2..k : chain[i] # chain[1]
        BY <3>1, <1>4, <1>5, <1>6, <1>7
      <4>3. 1..k = {1} \union 2..k
        BY <3>1
      <4> QED
        BY <4>1, <4>2, <4>3
    <3> HIDE DEF stay
    <3>3. \A i \in 1..k : chain'[i] = IF i = k THEN b ELSE chain[i + 1]
      BY <1>2, <3>1
    <3>4. chain'[k] = b /\ \A i \in 2..k : chain[i] = chain'[i - 1] /\ i - 1 \in 1..k
      BY <3>1, <3>3
    <3>5. Len(chain') = k
      BY <1>2, <3>1
    <3>6. \A c \in stay : \E i \in 1..k : c = chain'[i]
      BY <3>1, <3>2, <3>4
    <3>7. \A i \in 1..k : chain'[i] \in stay
      <4> TAKE i \in 1..k
      <4>1. i # k => i + 1 \in 2..k
        BY <3>1
      <4> QED
        BY <3>2, <3>3, <4>1
    <3> QED
      BY <3>5, <3>6, <3>7
  <2>2. CASE ~(k + 1 > MaxHistory)
    <3>1. stay = {chain[i] : i \in 1..k} \union {b}
      BY <2>2
    <3> HIDE DEF stay
    <3>2. Len(chain') = k + 1 /\ \A i \in 1..(k + 1) : chain'[i] = IF i = k + 1 THEN b ELSE chain[i]
      <4>1. off = 0 /\ k \in Nat
        BY <1>2, <2>2
      <4>2. Len(chain') = k + 1
        BY <1>2, <4>1
      <4>3. \A i \in 1..(k + 1) : i + off = i
        BY <4>1
      <4> HIDE DEF gone
      <4> QED
        BY <1>2, <4>2, <4>3
    <3>3. \A c \in stay : \E i \in 1..(k + 1) : c = chain'[i]
      BY <3>1, <3>2
    <3>4. \A i \in 1..(k + 1) : chain'[i] \in stay
      BY <3>1, <3>2
    <3> QED
      BY <3>2, <3>3, <3>4
  <2> QED
    BY <2>1, <2>2
<1>9. stay \subseteq Blocks
  BY <1>4
<1>10. TypeOK'
  BY <1>2, <1>3, <1>9 DEF TypeOK, HashesOf, NumbersOf, Hashes, Numbers
<1>11. IndexesAgree'
  <2>1. Above(0)' = stay
    BY <1>8 DEF Above
  <2>2. \A i \in 1..Len(chain') : chain'[i] \in stay
    BY <1>8
  <2> QED
    BY <1>3, <2>1, <2>2 DEF IndexesAgree, HashesOf, NumbersOf
<1>12. ChainOrdered'
  <2>1. Len(chain') <= MaxHistory
    BY <1>1, <1>2, HistoryAssumption
  <2>2. \A i, j \in 1..Len(chain') : i < j => chain'[i].number < chain'[j].number
    <3> TAKE i, j \in 1..Len(chain')
    <3> HAVE i < j
    <3>1. i + off \in 1..k /\ chain'[i] = chain[i + off]
      BY <1>2
    <3>2. CASE j + off = k + 1
      BY <3>1, <3>2, <1>2, <1>7
    <3>3. CASE j + off # k + 1
      <4>1. j + off \in 1..k /\ chain'[j] = chain[j + off]
        BY <3>3, <1>2
      <4> QED
        BY <3>1, <4>1, <1>2, <1>5
    <3> QED
      BY <3>2, <3>3
  <2> QED
    BY <2>1, <2>2 DEF ChainOrdered
<1> QED
  BY <1>10, <1>11, <1>12 DEF IInv

\* Popping entries keeps them too.
LEMMA KeepFirstKeeps ==
    ASSUME IInv, NEW k \in 0..Len(chain), KeepFirst(k), event' \in Event
    PROVE  IInv'
<1>1. chain \in Seq(Blocks) /\ Len(chain) <= MaxHistory
  BY DEF IInv, TypeOK, ChainOrdered
<1>2. /\ chain' \in Seq(Blocks)
      /\ Len(chain') = k
      /\ \A i \in 1..k : chain'[i] = chain[i]
  BY <1>1 DEF KeepFirst
<1>3. \A i, j \in 1..Len(chain) :
         chain[i].hash = chain[j].hash \/ chain[i].number = chain[j].number => i = j
  BY <1>1, EntriesDiffer DEF IInv
<1> DEFINE kept == {chain[i] : i \in 1..k}
<1>4. Above(0)' = kept
  BY <1>2 DEF Above
<1>5. DOMAIN byHash' = HashesOf(kept)
  <2>1. DOMAIN byHash' = HashesOf(Above(0)) \ HashesOf(Above(k))
    BY DEF KeepFirst, Drop, IInv, IndexesAgree
  <2> QED
    BY <2>1, <1>3 DEF HashesOf, Above
<1>6. DOMAIN byNumber' = NumbersOf(kept)
  <2>1. DOMAIN byNumber' = NumbersOf(Above(0)) \ NumbersOf(Above(k))
    BY DEF KeepFirst, Drop, IInv, IndexesAgree
  <2> QED
    BY <2>1, <1>3 DEF NumbersOf, Above
<1>7. \A i \in 1..k : byHash'[chain[i].hash] = chain[i].number
  <2> TAKE i \in 1..k
  <2>1. chain[i].hash \in DOMAIN byHash'
    BY <1>5 DEF HashesOf
  <2> QED
    BY <2>1 DEF KeepFirst, Drop, IInv, IndexesAgree
<1>8. \A i \in 1..k : byNumber'[chain[i].number] = chain[i]
  <2> TAKE i \in 1..k
  <2>1. chain[i].number \in DOMAIN byNumber'
    BY <1>6 DEF NumbersOf
  <2> QED
    BY <2>1 DEF KeepFirst, Drop, IInv, IndexesAgree
<1>9. TypeOK'
  <2>1. kept \subseteq Blocks
    BY <1>1
  <2> QED
    BY <1>2, <1>5, <1>6, <2>1 DEF TypeOK, HashesOf, NumbersOf, Hashes, Numbers
<1>10. IndexesAgree'
  BY <1>2, <1>4, <1>5, <1>6, <1>7, <1>8 DEF IndexesAgree, HashesOf, NumbersOf
<1>11. ChainOrdered'
  <2>1. \A i, j \in 1..k : i < j => chain[i].number < chain[j].number
    BY <1>1 DEF IInv, ChainOrdered
  <2>2. \A i, j \in 1..Len(chain') : i < j => chain'[i].number < chain'[j].number
    BY <1>2, <2>1
  <2>3. Len(chain') <= MaxHistory
    BY <1>1, <1>2, HistoryAssumption
  <2> QED
    BY <2>2, <2>3 DEF ChainOrdered
<1> QED
  BY <1>9, <1>10, <1>11 DEF IInv

\* find_common_ancestor answers with the entry that is the block's parent.
LEMMA AncestorIsParent ==
    ASSUME IInv, NEW b \in Blocks, AncestorKnown(b)
    PROVE  \E m \in 1..Len(chain) :
              /\ byNumber[byHash[b.parent]] = chain[m]
              /\ chain[m].hash = b.parent
              /\ b.number = chain[m].number + 1
<1>1. chain \in Seq(Blocks)
  BY DEF IInv, TypeOK
<1>2. PICK m \in 1..Len(chain) : chain[m].hash = b.parent
  BY DEF AncestorKnown, IInv, IndexesAgree, HashesOf, Above
<1>3. byHash[b.parent] = chain[m].number /\ byNumber[chain[m].number] = chain[m]
  BY <1>2 DEF IInv, IndexesAgree
<1>4. b.number = chain[m].number + 1
  BY <1>1, <1>2, BlocksAssumption
<1> QED
  BY <1>2, <1>3, <1>4

\* handle_parent_mismatch pops down to that entry.
LEMMA ResolvedInstall ==
    ASSUME IInv, NEW b \in Blocks, MismatchResolved(b)
    PROVE  \E k \in 1..Len(chain) :
              /\ Install(k, b)
              /\ chain[k].hash = b.parent
              /\ b.number = chain[k].number + 1
              /\ event' = [kind |-> "detected", to |-> chain[k].number]
<1>1. chain \in Seq(Blocks)
  BY DEF IInv, TypeOK
<1>2. PICK m \in 1..Len(chain) :
              /\ byNumber[byHash[b.parent]] = chain[m]
              /\ chain[m].hash = b.parent
              /\ b.number = chain[m].number + 1
  BY AncestorIsParent DEF MismatchResolved
<1>3. PICK k \in {j \in 0..Len(chain) : j > 0 => chain[j].hash = chain[m].hash} :
         /\ \A i \in (k + 1)..Len(chain) : chain[i].hash # chain[m].hash
         /\ Install(k, b)
  BY <1>2 DEF MismatchResolved
<1>4. k >= m
  BY <1>3
<1>5. k = m
  BY <1>1, <1>3, <1>4, EntriesDiffer DEF IInv
<1>6. event' = [kind |-> "detected", to |-> chain[m].number]
  BY <1>2 DEF MismatchResolved
<1> QED
  BY <1>2, <1>3, <1>5, <1>6

\* Every entry that is kept is still in the history afterwards, unless it was
\* the oldest of a full one.
LEMMA InstallLosesOldest ==
    ASSUME IInv, NEW b \in Blocks, NEW k \in 0..Len(chain), Install(k, b), NEW i \in 1..k
    PROVE  \/ chain[i] \in {chain'[j] : j \in 1..Len(chain')}
           \/ i = 1 /\ Len(chain) = MaxHistory /\ k = Len(chain)
<1>1. chain \in Seq(Blocks) /\ Len(chain) <= MaxHistory
  BY DEF IInv, TypeOK, ChainOrdered
<1>2. PICK off \in {0, 1} :
              /\ off = IF k + 1 > MaxHistory THEN 1 ELSE 0
              /\ chain' \in Seq(Blocks)
              /\ Len(chain') = k + 1 - off
              /\ \A j \in 1..Len(chain') :
                    chain'[j] = IF j + off = k + 1 THEN b ELSE chain[j + off]
  BY <1>1, InstalledChain
<1>3. CASE off = 1 /\ i = 1
  BY <1>1, <1>2, <1>3, HistoryAssumption
<1>4. CASE off = 0 \/ i > 1
  <2>1. i - off \in 1..Len(chain') /\ chain'[i - off] = chain[i]
    BY <1>2, <1>4
  <2> QED
    BY <2>1
<1> QED
  BY <1>3, <1>4

-----------------------------------------------------------------------------
(* The invariant *)

\* Every call of update_chain preserves the invariant.
LEMMA UpdateChainKeeps ==
    ASSUME IInv, NEW b \in Blocks, UpdateChain(b)
    PROVE  IInv'
<1>1. chain \in Seq(Blocks) /\ b.number \in Nat
  BY BlocksAssumption DEF IInv, TypeOK
<1>2. chain # <<>> => Tip \in Blocks /\ Tip.number \in Nat /\ Len(chain) \in 1..Len(chain)
  BY <1>1, BlocksAssumption DEF Tip
<1>3. NoEvent \in Event /\ \A kind \in {"error", "hung"} : [kind |-> kind, to |-> 0] \in Event
  BY DEF NoEvent, Event
<1>4. \A kind \in {"rollback", "detected"}, n \in Numbers : [kind |-> kind, to |-> n] \in Event
  BY DEF Event
<1>5. CASE FirstBlock(b)
  <2>1. Len(chain) = 0 /\ Install(0, b) /\ event' \in Event
    BY <1>3, <1>5 DEF FirstBlock
  <2> QED
    BY <2>1, InstallKeeps
<1>6. CASE UNCHANGED historyVars /\ event' \in Event
  BY <1>6 DEF IInv, TypeOK, IndexesAgree, ChainOrdered, historyVars, Above
<1>7. CASE SameHeight(b)
  <2>1. Install(Len(chain) - 1, b) /\ Tip.number = b.number
    BY <1>7 DEF SameHeight
  <2>2. Len(chain) - 1 \in 0..Len(chain)
    BY <1>1, <1>2, <1>7 DEF SameHeight
  <2>3. Len(chain) - 1 > 0 => chain[Len(chain) - 1].number < b.number
    <3>1. Len(chain) - 1 > 0 => chain[Len(chain) - 1].number < chain[Len(chain)].number
      BY <1>1 DEF IInv, ChainOrdered
    <3> QED
      BY <2>1, <3>1 DEF Tip
  <2>4. event' \in Event
    BY <1>2, <1>4, <1>7 DEF SameHeight, Numbers
  <2> QED
    BY <2>1, <2>2, <2>3, <2>4, InstallKeeps
<1>8. CASE Extend(b) \/ Gap(b)
  <2>1. Install(Len(chain), b) /\ chain # <<>> /\ b.number > Tip.number /\ event' \in Event
    BY <1>1, <1>2, <1>3, <1>8 DEF Extend, Gap
  <2>2. Len(chain) \in 0..Len(chain) /\ chain[Len(chain)].number < b.number
    BY <1>1, <1>2, <2>1 DEF Tip
  <2> QED
    BY <2>1, <2>2, InstallKeeps
<1>9. CASE MismatchResolved(b)
  <2>1. PICK k \in 1..Len(chain) :
              /\ Install(k, b)
              /\ chain[k].hash = b.parent
              /\ b.number = chain[k].number + 1
              /\ event' = [kind |-> "detected", to |-> chain[k].number]
    BY <1>9, ResolvedInstall
  <2>2. chain[k] \in Blocks /\ chain[k].number \in Nat
    BY <1>1, BlocksAssumption
  <2>3. event' \in Event
    BY <1>4, <2>1, <2>2 DEF Numbers
  <2>4. k \in 0..Len(chain) /\ chain[k].number < b.number
    BY <2>1, <2>2
  <2> QED
    BY <2>1, <2>3, <2>4, InstallKeeps
<1> QED
  BY <1>3, <1>5, <1>6, <1>7, <1>8, <1>9
     DEF UpdateChain, NothingNew, MismatchHangs, MismatchFails

\* The three containers of the detector agree and the history is bounded and
\* ascending in every reachable state.
THEOREM Invariance == DetectorSpec => []IInv
<1>1. DetectorInit => IInv
  <2> SUFFICES ASSUME DetectorInit PROVE IInv
    OBVIOUS
  <2>1. chain = <<>> /\ Len(chain) = 0 /\ chain \in Seq(Blocks)
    BY DEF DetectorInit
  <2>2. DOMAIN byHash = {} /\ DOMAIN byNumber = {}
    BY DEF DetectorInit
  <2>3. Above(0) = {}
    BY <2>1 DEF Above
  <2>4. event \in Event
    BY DEF DetectorInit, NoEvent, Event
  <2> QED
    BY <2>1, <2>2, <2>3, <2>4, HistoryAssumption
       DEF IInv, TypeOK, IndexesAgree, ChainOrdered, HashesOf, NumbersOf
<1>2. IInv /\ [DetectorNext]_detectorVars => IInv'
  <2> SUFFICES ASSUME IInv, [DetectorNext]_detectorVars PROVE IInv'
    OBVIOUS
  <2>1. ASSUME NEW b \in Blocks, UpdateChain(b) PROVE IInv'
    BY <2>1, UpdateChainKeeps
  <2>2. ASSUME NEW n \in Numbers, RollbackToBlock(n) PROVE IInv'
    <3>1. PICK k \in 0..Len(chain) : KeepFirst(k)
      BY <2>2 DEF RollbackToBlock
    <3>2. event' \in Event
      BY <2>2 DEF RollbackToBlock, IInv, TypeOK
    <3> QED
      BY <3>1, <3>2, KeepFirstKeeps
  <2>3. CASE UNCHANGED detectorVars
    BY <2>3 DEF detectorVars, historyVars, IInv, TypeOK, IndexesAgree, ChainOrdered, Above
  <2> QED
    BY <2>1, <2>2, <2>3 DEF DetectorNext
<1> QED
  BY <1>1, <1>2, PTL DEF DetectorSpec

\* The detector's variables keep their types.
THEOREM TypeCorrect == DetectorSpec => []TypeOK
<1>1. IInv => TypeOK
  BY DEF IInv
<1> QED
  BY <1>1, Invariance, PTL

\* The two indexes name exactly the blocks of the history.
THEOREM IndexesMatchHistory == DetectorSpec => []IndexesAgree
<1>1. IInv => IndexesAgree
  BY DEF IInv
<1> QED
  BY <1>1, Invariance, PTL

\* The history never exceeds its capacity and its numbers ascend strictly.
THEOREM HistoryAscends == DetectorSpec => []ChainOrdered
<1>1. IInv => ChainOrdered
  BY DEF IInv
<1> QED
  BY <1>1, Invariance, PTL

-----------------------------------------------------------------------------
(* The action properties *)

\* One call reports every block it takes out of the history.
LEMMA UpdateReports ==
    ASSUME IInv, NEW b \in Blocks, UpdateChain(b)
    PROVE  \A i \in 1..Len(chain) :
              \/ chain[i] \in {chain'[j] : j \in 1..Len(chain')}
              \/ i = 1 /\ Len(chain) = MaxHistory
              \/ event'.kind \in {"rollback", "detected"} /\ event'.to <= chain[i].number
<1> TAKE i \in 1..Len(chain)
<1>1. chain \in Seq(Blocks) /\ chain[i].number \in Nat
  BY BlocksAssumption DEF IInv, TypeOK
<1>2. CASE FirstBlock(b)
  BY <1>1, <1>2 DEF FirstBlock
<1>3. CASE UNCHANGED historyVars
  BY <1>3 DEF historyVars
<1>4. CASE SameHeight(b)
  <2>1. Install(Len(chain) - 1, b) /\ Len(chain) - 1 \in 0..Len(chain)
    BY <1>1, <1>4 DEF SameHeight
  <2>2. CASE i \in 1..(Len(chain) - 1)
    BY <2>1, <2>2, InstallLosesOldest
  <2>3. CASE i = Len(chain)
    BY <1>1, <1>4, <2>3 DEF SameHeight, Tip
  <2> QED
    BY <1>1, <2>2, <2>3
<1>5. CASE Extend(b) \/ Gap(b)
  <2>1. Install(Len(chain), b) /\ Len(chain) \in 0..Len(chain)
    BY <1>1, <1>5 DEF Extend, Gap
  <2> QED
    BY <2>1, InstallLosesOldest
<1>6. CASE MismatchResolved(b)
  <2>1. PICK k \in 1..Len(chain) :
              /\ Install(k, b)
              /\ event' = [kind |-> "detected", to |-> chain[k].number]
    BY <1>6, ResolvedInstall
  <2>2. CASE i \in 1..k
    <3>1. k \in 0..Len(chain)
      OBVIOUS
    <3> QED
      BY <2>1, <2>2, <3>1, InstallLosesOldest
  <2>3. CASE k < i
    <3>1. chain[k].number < chain[i].number /\ chain[k].number \in Nat
      BY <1>1, <2>3, BlocksAssumption DEF IInv, ChainOrdered
    <3> QED
      BY <1>1, <2>1, <3>1
  <2> QED
    BY <2>2, <2>3
<1> QED
  BY <1>2, <1>3, <1>4, <1>5, <1>6 DEF UpdateChain, NothingNew, MismatchHangs, MismatchFails

\* No call takes a block out of the history silently, except by pruning.
THEOREM RewritesAreReported == DetectorSpec => NoSilentRewrite
<1>1. IInv => RewriteReported
  <2> SUFFICES ASSUME IInv, NEW b \in Blocks, UpdateChain(b)
               PROVE  \A i \in 1..Len(chain) :
                         \/ chain[i] \in {chain'[j] : j \in 1..Len(chain')}
                         \/ i = 1 /\ Len(chain) = MaxHistory
                         \/ /\ event'.kind \in {"rollback", "detected"}
                            /\ event'.to <= chain[i].number
    BY DEF RewriteReported
  <2> QED
    BY UpdateReports
<1> QED
  BY <1>1, Invariance, PTL DEF NoSilentRewrite

\* A resolved mismatch links a block below the tip to its parent.
LEMMA ResolvedLinks ==
    ASSUME IInv, NEW b \in Blocks, UpdateChain(b), event'.kind = "detected"
    PROVE  /\ chain'[Len(chain')].number < Tip.number
           /\ event'.to = chain'[Len(chain')].number - 1
           /\ Len(chain') > 1 =>
                 chain'[Len(chain')].parent = chain'[Len(chain') - 1].hash
<1>1. chain \in Seq(Blocks) /\ Len(chain) <= MaxHistory /\ b.number \in Nat
  BY BlocksAssumption DEF IInv, TypeOK, ChainOrdered
<1>2. MismatchResolved(b)
  BY DEF UpdateChain, FirstBlock, NothingNew, SameHeight, Extend, Gap, MismatchHangs,
         MismatchFails, NoEvent
<1>3. PICK k \in 1..Len(chain) :
              /\ Install(k, b)
              /\ chain[k].hash = b.parent
              /\ b.number = chain[k].number + 1
              /\ event' = [kind |-> "detected", to |-> chain[k].number]
  BY <1>2, ResolvedInstall
<1>4. PICK off \in {0, 1} :
              /\ off = IF k + 1 > MaxHistory THEN 1 ELSE 0
              /\ chain' \in Seq(Blocks)
              /\ Len(chain') = k + 1 - off
              /\ \A j \in 1..Len(chain') :
                    chain'[j] = IF j + off = k + 1 THEN b ELSE chain[j + off]
  <2>1. k \in 0..Len(chain)
    OBVIOUS
  <2> QED
    BY <1>1, <1>3, <2>1, InstalledChain
<1>5. chain[k].number \in Nat /\ Tip.number \in Nat
  BY <1>1, BlocksAssumption DEF Tip
<1>6. chain'[Len(chain')] = b
  BY <1>4
<1>7. Len(chain') > 1 => chain'[Len(chain') - 1] = chain[k]
  <2> HAVE Len(chain') > 1
  <2>1. Len(chain') - 1 \in 1..Len(chain') /\ Len(chain') - 1 + off = k
    BY <1>4
  <2> QED
    BY <1>4, <2>1
<1>8. b.number < Tip.number
  <2>1. CASE b.number = Tip.number + 1 /\ b.parent # Tip.hash
    <3>1. chain[k].number = chain[Len(chain)].number
      BY <1>3, <1>5, <2>1 DEF Tip
    <3>2. k = Len(chain)
      BY <1>1, <3>1, EntriesDiffer DEF IInv
    <3> QED
      BY <1>3, <2>1, <3>2 DEF Tip
  <2> QED
    BY <1>2, <2>1 DEF MismatchResolved, ParentMismatch
<1>9. event'.to = b.number - 1
  BY <1>3, <1>5
<1> QED
  BY <1>3, <1>6, <1>7, <1>8, <1>9

\* A common ancestor is never found for a block above the tip.
THEOREM LongerChainNeverResolved == DetectorSpec => OnlyOlderResolved
<1>1. IInv => ResolvedIsLinked
  <2> SUFFICES ASSUME IInv, NEW b \in Blocks, UpdateChain(b), event'.kind = "detected"
               PROVE  /\ chain'[Len(chain')].number < Tip.number
                      /\ event'.to = chain'[Len(chain')].number - 1
                      /\ Len(chain') > 1 =>
                            chain'[Len(chain')].parent = chain'[Len(chain') - 1].hash
    BY DEF ResolvedIsLinked
  <2> QED
    BY ResolvedLinks
<1> QED
  BY <1>1, Invariance, PTL DEF OnlyOlderResolved

-----------------------------------------------------------------------------
(* The loop of the engine *)

\* A snapshot reflects every height Backfill or more below its block.
Reach(s) == s.block # NoBlock => Covered(s.seen, s.block.number - Backfill)

RingReaches == \A i \in 1..Len(ring) : Reach(ring[i])

BatchPending == pc \in {"poll", "process"} => batch = {}

HeadNear == pc \in {"tip", "refresh"} => height <= cursor + MaxDrift

TipBelowHead == chain # <<>> => Tip.number <= height

\* When no snapshot in the ring is old enough for a rollback, the current one
\* stays and the scan restarts below the tip: what is current must reach there
\* without the batch that is thrown away.
TipReached ==
    chain # <<>> /\ pc \in {"poll", "tip", "process"} =>
        \/ current.block # NoBlock
        \/ Covered(current.seen \union taken, Tip.number - Backfill)

\* The inductive invariant.  NoHeightSkipped alone is not inductive: a rollback
\* restores a snapshot published long before, so every snapshot in the ring
\* must reach what the scan will restart from.
FInv ==
    /\ IInv
    /\ FollowerTypeOK
    /\ StoreConsistent
    /\ NoHeightSkipped
    /\ RingReaches
    /\ BatchPending
    /\ HeadNear
    /\ TipBelowHead
    /\ TipReached

-----------------------------------------------------------------------------
(* Lemmas about the operators *)

\* Covering is monotone in the blocks and antitone in the height.
LEMMA CoveredMonotone ==
    ASSUME NEW S, NEW T, S \subseteq T, NEW m \in Int, NEW n \in Int, m <= n, Covered(S, n)
    PROVE  Covered(T, m)
<1>1. \A h \in 1..m : h \in 1..n
  OBVIOUS
<1> QED
  BY <1>1 DEF Covered

\* saturating_sub is subtraction, cut off at zero.
LEMMA SaturatingSubIs ==
    ASSUME NEW n \in Nat, NEW d \in Nat
    PROVE  /\ SaturatingSub(n, d) \in Nat
           /\ SaturatingSub(n, d) >= n - d
           /\ SaturatingSub(n, d) = n - d \/ SaturatingSub(n, d) = 0
BY DEF SaturatingSub

\* A set that covers n - d covers what a scan that restarts at n, d blocks
\* back, does not scan again.
LEMMA CoveredBack ==
    ASSUME NEW S, NEW n \in Nat, NEW d \in Nat, Covered(S, n - d)
    PROVE  Covered(S, SaturatingSub(n, d))
<1>1. CASE SaturatingSub(n, d) = n - d
  BY <1>1
<1>2. CASE SaturatingSub(n, d) = 0
  BY <1>2 DEF Covered
<1> QED
  BY <1>1, <1>2, SaturatingSubIs

\* The block at a height of the canonical chain has that number.
LEMMA BlockAtHeight ==
    ASSUME FollowerTypeOK, NEW h \in 1..height
    PROVE  BlockAt(h) \in Blocks /\ BlockAt(h).number = h
<1>1. Forks[fork] \in Seq(Blocks) /\ h \in 1..Len(Forks[fork])
  BY ForksAssumption DEF FollowerTypeOK
<1> QED
  BY <1>1, ForksAssumption DEF BlockAt, FollowerTypeOK

\* publish puts the snapshot at the end of the ring and drops at most the
\* oldest one.
LEMMA PublishedRing ==
    ASSUME ring \in Seq(Snapshot), Len(ring) <= MaxSnapshots, NEW s \in Snapshot, Publish(s)
    PROVE  /\ current' = s
           /\ ring' \in Seq(Snapshot)
           /\ Len(ring') <= MaxSnapshots
           /\ \E i \in 1..Len(ring') : ring'[i] = s
           /\ \A i \in 1..Len(ring') :
                 ring'[i] = s \/ \E j \in 1..Len(ring) : ring'[i] = ring[j]
<1> DEFINE longer == Append(ring, s)
<1>1. /\ longer \in Seq(Snapshot)
      /\ Len(longer) = Len(ring) + 1
      /\ \A i \in 1..(Len(ring) + 1) : longer[i] = IF i = Len(ring) + 1 THEN s ELSE ring[i]
  OBVIOUS
<1>2. /\ current' = s
      /\ ring' = IF Len(longer) > MaxSnapshots THEN Tail(longer) ELSE longer
  BY DEF Publish
<1> HIDE DEF longer
<1>3. CASE Len(longer) > MaxSnapshots
  <2>1. /\ ring' \in Seq(Snapshot)
        /\ Len(ring') = Len(ring)
        /\ \A i \in 1..Len(ring) : ring'[i] = longer[i + 1]
    BY <1>1, <1>2, <1>3
  <2>2. Len(ring) >= 1
    BY <1>1, <1>3, RingAssumption
  <2>3. ring'[Len(ring)] = s
    BY <1>1, <2>1, <2>2
  <2>4. \A i \in 1..Len(ring) : ring'[i] = s \/ \E j \in 1..Len(ring) : ring'[i] = ring[j]
    <3> TAKE i \in 1..Len(ring)
    <3>1. CASE i = Len(ring)
      BY <2>3, <3>1
    <3>2. CASE i # Len(ring)
      <4>1. i + 1 \in 1..Len(ring) /\ ring'[i] = ring[i + 1]
        BY <1>1, <2>1, <3>2
      <4> QED
        BY <4>1
    <3> QED
      BY <3>1, <3>2
  <2>5. \E i \in 1..Len(ring') : ring'[i] = s
    <3>1. Len(ring) \in 1..Len(ring')
      BY <2>1, <2>2
    <3> QED
      BY <2>3, <3>1
  <2> QED
    BY <1>2, <2>1, <2>4, <2>5
<1>4. CASE ~(Len(longer) > MaxSnapshots)
  <2>1. ring' = longer
    BY <1>2, <1>4
  <2>2. Len(longer) <= MaxSnapshots
    BY <1>1, <1>4, RingAssumption
  <2>3. longer[Len(ring) + 1] = s /\ Len(ring) + 1 \in 1..Len(longer)
    BY <1>1
  <2>4. \A i \in 1..Len(longer) : longer[i] = s \/ \E j \in 1..Len(ring) : longer[i] = ring[j]
    BY <1>1
  <2> QED
    BY <1>1, <1>2, <2>1, <2>2, <2>3, <2>4
<1> QED
  BY <1>3, <1>4

\* The tip after append_block is the block.
LEMMA InstalledTip ==
    ASSUME IInv, NEW b \in Blocks, NEW k \in 0..Len(chain), Install(k, b)
    PROVE  chain' # <<>> /\ chain'[Len(chain')] = b
<1>1. chain \in Seq(Blocks)
  BY DEF IInv, TypeOK
<1>2. PICK off \in {0, 1} :
              /\ off = IF k + 1 > MaxHistory THEN 1 ELSE 0
              /\ chain' \in Seq(Blocks)
              /\ Len(chain') = k + 1 - off
              /\ \A j \in 1..Len(chain') :
                    chain'[j] = IF j + off = k + 1 THEN b ELSE chain[j + off]
  BY <1>1, InstalledChain
<1>3. Len(chain') >= 1
  BY <1>2, HistoryAssumption
<1> QED
  BY <1>2, <1>3

\* What update_chain does to the tip: it keeps it or makes it the block named;
\* a report names a number that is at most that of the old tip, and the new
\* tip is not above the old one.
LEMMA UpdateTip ==
    ASSUME IInv, NEW b \in Blocks, UpdateChain(b)
    PROVE  /\ \/ chain' = chain
              \/ chain' # <<>> /\ chain'[Len(chain')] = b
           /\ event'.kind \in {"rollback", "detected"} =>
                /\ chain # <<>>
                /\ event'.to \in Nat
                /\ event'.to <= Tip.number
                /\ chain' # <<>> /\ chain'[Len(chain')] = b
                /\ b.number <= Tip.number
<1>1. chain \in Seq(Blocks) /\ b.number \in Nat
  BY BlocksAssumption DEF IInv, TypeOK
<1>2. CASE FirstBlock(b)
  <2>1. 0 \in 0..Len(chain) /\ Install(0, b) /\ event'.kind = "none"
    BY <1>2 DEF FirstBlock, NoEvent
  <2> QED
    BY <2>1, InstalledTip
<1>3. CASE NothingNew(b) \/ MismatchHangs(b) \/ MismatchFails(b)
  BY <1>3 DEF NothingNew, MismatchHangs, MismatchFails, NoEvent, historyVars
<1>4. CASE SameHeight(b)
  <2>1. Len(chain) - 1 \in 0..Len(chain) /\ Install(Len(chain) - 1, b)
    BY <1>1, <1>4 DEF SameHeight
  <2>2. event'.to = b.number /\ Tip.number = b.number /\ chain # <<>>
    BY <1>4 DEF SameHeight
  <2> QED
    BY <1>1, <2>1, <2>2, InstalledTip
<1>5. CASE Extend(b) \/ Gap(b)
  <2>1. Len(chain) \in 0..Len(chain) /\ Install(Len(chain), b) /\ event'.kind = "none"
    BY <1>1, <1>5 DEF Extend, Gap, NoEvent
  <2> QED
    BY <2>1, InstalledTip
<1>6. CASE MismatchResolved(b)
  <2>1. PICK k \in 1..Len(chain) :
              /\ Install(k, b)
              /\ b.number = chain[k].number + 1
              /\ event' = [kind |-> "detected", to |-> chain[k].number]
    BY <1>6, ResolvedInstall
  <2>2. chain' # <<>> /\ chain'[Len(chain')] = b
    <3>1. k \in 0..Len(chain)
      OBVIOUS
    <3> QED
      BY <2>1, <3>1, InstalledTip
  <2>3. b.number < Tip.number
    BY <2>1, <2>2, ResolvedLinks
  <2>4. chain[k].number \in Nat /\ chain # <<>> /\ Tip.number \in Nat
    BY <1>1, BlocksAssumption DEF Tip
  <2> QED
    BY <1>1, <2>1, <2>2, <2>3, <2>4
<1> QED
  BY <1>2, <1>3, <1>4, <1>5, <1>6 DEF UpdateChain

-----------------------------------------------------------------------------
(* The invariant holds initially *)

\* The loop starts within Backfill of what bootstrap has read.
LEMMA InitHolds == Init => FInv
<1> SUFFICES ASSUME Init PROVE FInv
  OBVIOUS
<1>1. /\ fork = 1 /\ height \in 1..Len(Forks[1]) /\ height \in Nat /\ height >= 1
      /\ pc = "poll" /\ batch = {} /\ taken = {}
      /\ Forks[1] \in Seq(Blocks)
      /\ \A i \in 1..Len(Forks[1]) : Forks[1][i].number = i
  BY ForksAssumption DEF Init
<1>2. PICK a \in SaturatingSub(height, MaxDrift)..height :
        LET seen == {Forks[1][i] : i \in 1..a}
        IN \/ /\ DetectorInit
              /\ StoreInit([id |-> 0, block |-> NoBlock, seen |-> seen])
              /\ cursor = 0
           \/ LET b == Forks[1][height]
              IN  /\ chain = <<b>>
                  /\ byHash = [h \in {b.hash} |-> b.number]
                  /\ byNumber = [n \in {b.number} |-> b]
                  /\ event = NoEvent
                  /\ StoreInit([id |-> 0, block |-> b, seen |-> seen])
                  /\ cursor = SaturatingSub(b.number, Backfill)
  BY DEF Init
<1> DEFINE seen == {Forks[1][i] : i \in 1..a}
           b == Forks[1][height]
<1>3. a \in Int /\ a <= height /\ a >= height - MaxDrift
  <2>1. /\ SaturatingSub(height, MaxDrift) \in Nat
        /\ SaturatingSub(height, MaxDrift) >= height - MaxDrift
        /\ MaxDrift \in Nat
    BY <1>1, SaturatingSubIs, BackfillAssumption
  <2>2. a \in SaturatingSub(height, MaxDrift)..height
    OBVIOUS
  <2> QED
    BY <1>1, <2>1, <2>2
<1>4. seen \subseteq Blocks /\ Covered(seen, a)
  <2>1. \A i \in 1..a : i \in 1..Len(Forks[1])
    BY <1>1, <1>3
  <2> QED
    BY <1>1, <2>1 DEF Covered
<1>5. b \in Blocks /\ b.number = height
  BY <1>1
<1>6. Covered(seen, height - Backfill)
  <2>1. height - Backfill \in Int /\ height - Backfill <= a
    BY <1>1, <1>3, BackfillAssumption
  <2> QED
    BY <1>3, <1>4, <2>1, CoveredMonotone
<1> HIDE DEF seen, b
<1>7. NoEvent \in Event
  BY DEF NoEvent, Event
<1>8. CASE /\ DetectorInit
           /\ StoreInit([id |-> 0, block |-> NoBlock, seen |-> seen])
           /\ cursor = 0
  <2> DEFINE s == [id |-> 0, block |-> NoBlock, seen |-> seen]
  <2>1. s \in Snapshot /\ s.block = NoBlock
    BY <1>4 DEF Snapshot
  <2> HIDE DEF s
  <2>2. current = s /\ ring = <<s>>
    BY <1>8 DEF StoreInit, s
  <2>3. ring \in Seq(Snapshot) /\ Len(ring) = 1 /\ ring[1] = s
    BY <2>1, <2>2
  <2>4. chain = <<>>
    BY <1>8 DEF DetectorInit
  <2>5. IInv
    <3>1. Len(chain) = 0 /\ chain \in Seq(Blocks)
      BY <2>4
    <3>2. DOMAIN byHash = {} /\ DOMAIN byNumber = {} /\ event = NoEvent
      BY <1>8 DEF DetectorInit
    <3>3. Above(0) = {}
      BY <3>1 DEF Above
    <3> QED
      BY <1>7, <3>1, <3>2, <3>3, HistoryAssumption
         DEF IInv, TypeOK, IndexesAgree, ChainOrdered, HashesOf, NumbersOf
  <2>6. FollowerTypeOK
    BY <1>1, <1>8, <2>1, <2>2, <2>3, <2>5, ForksAssumption DEF FollowerTypeOK, IInv
  <2>7. StoreConsistent
    BY <2>2, <2>3, RingAssumption DEF StoreConsistent, InRing
  <2>8. NoHeightSkipped
    BY <1>8 DEF NoHeightSkipped, Covered
  <2>9. RingReaches
    BY <2>1, <2>3 DEF RingReaches, Reach
  <2> QED
    BY <1>1, <2>4, <2>5, <2>6, <2>7, <2>8, <2>9
       DEF FInv, BatchPending, HeadNear, TipBelowHead, TipReached
<1>9. CASE /\ chain = <<b>>
           /\ byHash = [h \in {b.hash} |-> b.number]
           /\ byNumber = [n \in {b.number} |-> b]
           /\ event = NoEvent
           /\ StoreInit([id |-> 0, block |-> b, seen |-> seen])
           /\ cursor = SaturatingSub(b.number, Backfill)
  <2> DEFINE s == [id |-> 0, block |-> b, seen |-> seen]
  <2>1. s \in Snapshot /\ s.block = b /\ s.seen = seen
    BY <1>4, <1>5 DEF Snapshot
  <2> HIDE DEF s
  <2>2. current = s /\ ring = <<s>>
    BY <1>9 DEF StoreInit, s
  <2>3. ring \in Seq(Snapshot) /\ Len(ring) = 1 /\ ring[1] = s
    BY <2>1, <2>2
  <2>4. chain \in Seq(Blocks) /\ Len(chain) = 1 /\ chain[1] = b /\ Tip = b
    BY <1>5, <1>9 DEF Tip
  <2>5. IInv
    <3>1. Above(0) = {b}
      BY <2>4 DEF Above
    <3>2. DOMAIN byHash = {b.hash} /\ DOMAIN byNumber = {b.number}
      BY <1>9
    <3>3. TypeOK
      BY <1>5, <1>7, <1>9, <2>4, <3>2 DEF TypeOK, Hashes, Numbers
    <3>4. IndexesAgree
      BY <1>9, <2>4, <3>1, <3>2 DEF IndexesAgree, HashesOf, NumbersOf
    <3>5. ChainOrdered
      BY <2>4, HistoryAssumption DEF ChainOrdered
    <3> QED
      BY <3>3, <3>4, <3>5 DEF IInv
  <2>6. cursor \in Nat /\ cursor = SaturatingSub(height, Backfill)
    BY <1>1, <1>5, <1>9, SaturatingSubIs, BackfillAssumption
  <2>7. FollowerTypeOK
    BY <1>1, <2>1, <2>2, <2>3, <2>5, <2>6, ForksAssumption DEF FollowerTypeOK, IInv
  <2>8. StoreConsistent
    BY <2>2, <2>3, RingAssumption DEF StoreConsistent, InRing
  <2>9. NoHeightSkipped
    <3>1. Covered(seen, SaturatingSub(height, Backfill))
      BY <1>1, <1>6, CoveredBack, BackfillAssumption
    <3> QED
      BY <1>1, <2>1, <2>2, <2>6, <3>1 DEF NoHeightSkipped
  <2>10. RingReaches
    BY <1>5, <1>6, <2>1, <2>3 DEF RingReaches, Reach
  <2>11. TipBelowHead
    BY <1>1, <1>5, <2>4 DEF TipBelowHead
  <2>12. TipReached
    BY <1>5, <2>1, <2>2, ForksAssumption DEF TipReached
  <2> QED
    BY <1>1, <2>5, <2>7, <2>8, <2>9, <2>10, <2>11, <2>12
       DEF FInv, BatchPending, HeadNear
<1> QED
  BY <1>2, <1>8, <1>9 DEF seen, b

-----------------------------------------------------------------------------
(* The steps preserve the invariant *)

\* The arithmetic facts the steps use.
LEMMA Numbering ==
    ASSUME FInv
    PROVE  /\ cursor \in Nat /\ height \in Nat /\ height >= 1
           /\ Backfill \in Nat /\ MaxLag \in Nat /\ MaxDrift \in Nat
           /\ MaxLag <= MaxDrift /\ MaxDrift <= Backfill
           /\ chain \in Seq(Blocks)
           /\ chain # <<>> => Tip \in Blocks /\ Tip.number \in Nat
           /\ \A i \in 1..Len(ring) : ring[i] \in Snapshot
           /\ \A i \in 1..Len(ring) : ring[i].block # NoBlock => ring[i].block.number \in Nat
<1>1. fork \in 1..Len(Forks) /\ height \in 1..Len(Forks[fork])
  BY DEF FInv, FollowerTypeOK
<1>2. Len(Forks[fork]) \in Nat
  BY <1>1, ForksAssumption
<1>3. chain \in Seq(Blocks)
  BY DEF FInv, IInv, TypeOK
<1>4. chain # <<>> => Tip \in Blocks /\ Tip.number \in Nat
  BY <1>3, BlocksAssumption DEF Tip
<1>5. ring \in Seq(Snapshot)
  BY DEF FInv, FollowerTypeOK
<1>6. \A s \in Snapshot : s.block # NoBlock => s.block.number \in Nat
  BY BlocksAssumption DEF Snapshot
<1>7. cursor \in Nat
  BY DEF FInv, FollowerTypeOK
<1> QED
  BY <1>1, <1>2, <1>3, <1>4, <1>5, <1>6, <1>7, BackfillAssumption

\* A step that leaves the detector alone keeps its invariant.
LEMMA DetectorUntouched ==
    ASSUME IInv, UNCHANGED historyVars, event' = event \/ event' = NoEvent
    PROVE  IInv'
BY DEF IInv, TypeOK, IndexesAgree, ChainOrdered, historyVars, Above, NoEvent, Event

\* The chain moves: the work in progress stays within MaxDrift of the head.
LEMMA GrowKeeps == FInv /\ (Grow \/ Reorganise) => FInv'
<1> SUFFICES ASSUME FInv, Grow \/ Reorganise PROVE FInv'
  OBVIOUS
<1>1. UNCHANGED <<detectorVars, storeVars, pc, cursor, batch, taken>>
  BY DEF Grow, Reorganise
<1>2. /\ fork' \in 1..Len(Forks) /\ height' \in 1..Len(Forks[fork'])
      /\ height' \in Nat /\ height' >= height /\ HeadMayReach(height')
  <2>1. CASE Grow
    <3>1. fork' = fork /\ height' = height + 1 /\ height < Len(Forks[fork]) /\ HeadMayReach(height')
      BY <2>1 DEF Grow
    <3>2. Len(Forks[fork]) \in Nat /\ fork \in 1..Len(Forks)
      BY ForksAssumption DEF FInv, FollowerTypeOK
    <3> QED
      BY <3>1, <3>2, Numbering
  <2>2. CASE Reorganise
    <3>1. PICK f \in (fork + 1)..Len(Forks) :
            fork' = f /\ height' \in height..Len(Forks[f]) /\ HeadMayReach(height')
      BY <2>2 DEF Reorganise
    <3>2. fork \in 1..Len(Forks) /\ Len(Forks) \in Nat
      BY ForksAssumption DEF FInv, FollowerTypeOK
    <3>3. f \in 1..Len(Forks) /\ Len(Forks[f]) \in Nat
      BY <3>2, ForksAssumption
    <3> QED
      BY <3>1, <3>3, Numbering
  <2> QED
    BY <2>1, <2>2
<1>3. IInv'
  BY <1>1, DetectorUntouched DEF FInv, detectorVars
<1>4. FollowerTypeOK'
  BY <1>1, <1>2, <1>3 DEF FInv, FollowerTypeOK, IInv, storeVars
<1>5. StoreConsistent' /\ NoHeightSkipped' /\ RingReaches' /\ BatchPending'
  BY <1>1 DEF FInv, StoreConsistent, NoHeightSkipped, RingReaches, BatchPending, InRing, storeVars
<1>6. HeadNear'
  BY <1>1, <1>2 DEF HeadNear, HeadMayReach
<1>7. TipBelowHead'
  BY <1>1, <1>2, Numbering DEF FInv, TipBelowHead, detectorVars, historyVars, Tip
<1>8. TipReached'
  BY <1>1 DEF FInv, TipReached, detectorVars, historyVars, storeVars, Tip
<1> QED
  BY <1>3, <1>4, <1>5, <1>6, <1>7, <1>8 DEF FInv

\* A poll scans the heights above the cursor without a hole.
LEMMA PollKeeps == FInv /\ Poll => FInv'
<1> SUFFICES ASSUME FInv, Poll PROVE FInv'
  OBVIOUS
<1>1. /\ pc = "poll" /\ pc' = "tip" /\ event' = NoEvent
      /\ UNCHANGED <<historyVars, storeVars, taken, chainVars>>
  BY DEF Poll
<1>2. PICK latest \in 1..height :
        /\ Answered(latest)
        /\ batch' = {BlockAt(i) : i \in (cursor + 1)..latest}
        /\ cursor' = IF latest > cursor THEN latest ELSE cursor
  BY DEF Poll
<1>3. latest \in Nat /\ latest <= height /\ height <= latest + MaxLag
  <2>1. latest \in SaturatingSub(height, MaxLag)..height
    BY <1>2 DEF Answered
  <2>2. /\ SaturatingSub(height, MaxLag) \in Nat
        /\ SaturatingSub(height, MaxLag) >= height - MaxLag
    BY Numbering, SaturatingSubIs
  <2> QED
    BY <2>1, <2>2, Numbering
<1>4. cursor' \in Nat /\ cursor' >= cursor /\ cursor' >= latest
  BY <1>2, <1>3, Numbering
<1>5. \A i \in (cursor + 1)..latest : BlockAt(i) \in Blocks /\ BlockAt(i).number = i
  <2>1. \A i \in (cursor + 1)..latest : i \in 1..height
    BY <1>3, Numbering
  <2> QED
    BY <2>1, BlockAtHeight DEF FInv
<1>6. batch' \subseteq Blocks
  BY <1>2, <1>5
<1>7. IInv'
  BY <1>1, DetectorUntouched DEF FInv
<1>8. FollowerTypeOK'
  BY <1>1, <1>4, <1>6, <1>7 DEF FInv, FollowerTypeOK, IInv, storeVars, chainVars
<1>9. StoreConsistent' /\ RingReaches' /\ BatchPending'
  BY <1>1 DEF FInv, StoreConsistent, RingReaches, BatchPending, InRing, storeVars
<1>10. NoHeightSkipped'
  <2>1. batch = {}
    BY <1>1 DEF FInv, BatchPending
  <2>2. \A h \in 1..cursor : \E b \in current.seen \union taken : b.number = h
    BY <2>1 DEF FInv, NoHeightSkipped, Covered
  <2>3. \A h \in 1..cursor' : h \in 1..cursor \/ h \in (cursor + 1)..latest
    BY <1>2, <1>3, Numbering
  <2>4. \A h \in (cursor + 1)..latest : \E b \in batch' : b.number = h
    BY <1>2, <1>5
  <2>5. \A h \in 1..cursor' : \E b \in current.seen \union taken \union batch' : b.number = h
    BY <2>2, <2>3, <2>4
  <2> QED
    BY <1>1, <2>5 DEF NoHeightSkipped, Covered, storeVars
<1>11. HeadNear'
  BY <1>1, <1>3, <1>4, Numbering DEF HeadNear, chainVars
<1>12. TipBelowHead'
  BY <1>1 DEF FInv, TipBelowHead, historyVars, Tip, chainVars
<1>13. TipReached'
  BY <1>1 DEF FInv, TipReached, historyVars, storeVars, Tip
<1> QED
  BY <1>7, <1>8, <1>9, <1>10, <1>11, <1>12, <1>13 DEF FInv

\* What the scan has covered reaches Backfill below the tip: the head is near
\* and the tip is not above it.
LEMMA CursorReachesTip ==
    ASSUME FInv, pc \in {"tip", "refresh"}, NEW n \in Nat, n <= height
    PROVE  Covered(current.seen \union taken \union batch, n - Backfill)
<1>1. n - Backfill \in Int /\ n - Backfill <= cursor
  BY Numbering DEF FInv, HeadNear
<1> QED
  BY <1>1, CoveredMonotone, Numbering DEF FInv, NoHeightSkipped

\* The latest block is not known: the round goes on without it.
LEMMA TipUnknownKeeps == FInv /\ TipUnknown => FInv'
<1> SUFFICES ASSUME FInv, TipUnknown PROVE FInv'
  OBVIOUS
<1>1. /\ pc = "tip" /\ pc' = IF batch = {} THEN "poll" ELSE "refresh"
      /\ UNCHANGED <<detectorVars, storeVars, cursor, batch, taken, chainVars>>
  BY DEF TipUnknown, GoOn
<1>2. IInv'
  BY <1>1, DetectorUntouched DEF FInv, detectorVars
<1>3. FollowerTypeOK'
  BY <1>1, <1>2 DEF FInv, FollowerTypeOK, IInv, storeVars, chainVars
<1>4. StoreConsistent' /\ NoHeightSkipped' /\ RingReaches' /\ BatchPending'
  BY <1>1 DEF FInv, StoreConsistent, NoHeightSkipped, RingReaches, BatchPending, InRing, storeVars
<1>5. HeadNear' /\ TipBelowHead' /\ TipReached'
  BY <1>1 DEF FInv, HeadNear, TipBelowHead, TipReached, detectorVars, historyVars,
              storeVars, chainVars, Tip
<1> QED
  BY <1>2, <1>3, <1>4, <1>5 DEF FInv

\* A rollback restores a snapshot, or keeps the current one, that reaches the
\* height the scan restarts from.
LEMMA RollbackReaches ==
    ASSUME FInv, pc = "tip", NEW n \in Nat, chain # <<>>, n <= Tip.number, HandleReorgEvent(n)
    PROVE  /\ cursor' \in Nat
           /\ taken' \subseteq Blocks
           /\ ring' = ring
           /\ \E i \in 1..Len(ring) : current' = ring[i]
           /\ Covered(current'.seen \union taken', cursor')
           /\ \/ current'.block # NoBlock
              \/ Covered(current'.seen \union taken', Tip.number - Backfill)
<1>1. PICK c \in 1..Len(ring) : ring[c] = current
  BY DEF FInv, StoreConsistent, InRing
<1>2. CASE AtOrBelow(n) # {}
  <2>1. /\ RollbackToSnapshotOf(n) /\ taken' = {}
        /\ cursor' = SaturatingSub(current'.block.number, Backfill)
    BY <1>2 DEF HandleReorgEvent
  <2>2. PICK i \in AtOrBelow(n) : current' = ring[i]
    BY <2>1 DEF RollbackToSnapshotOf
  <2>3. i \in 1..Len(ring) /\ ring[i].block # NoBlock /\ ring[i].block.number \in Nat
    BY <2>2, Numbering DEF AtOrBelow
  <2>4. Covered(ring[i].seen, ring[i].block.number - Backfill)
    BY <2>3 DEF FInv, RingReaches, Reach
  <2>5. Covered(ring[i].seen, SaturatingSub(ring[i].block.number, Backfill))
    BY <2>3, <2>4, CoveredBack, Numbering
  <2>6. cursor' \in Nat
    BY <2>1, <2>2, <2>3, SaturatingSubIs, Numbering
  <2>7. Covered(current'.seen \union taken', cursor')
    BY <2>1, <2>2, <2>5 DEF Covered
  <2>8. ring' = ring
    BY <2>1 DEF RollbackToSnapshotOf
  <2> QED
    BY <2>1, <2>2, <2>3, <2>6, <2>7, <2>8
<1>3. CASE AtOrBelow(n) = {}
  <2>1. cursor' = SaturatingSub(n, Backfill) /\ UNCHANGED <<storeVars, taken>>
    BY <1>3 DEF HandleReorgEvent
  <2>2. n - Backfill \in Int /\ Tip.number - Backfill \in Int
    BY Numbering
  <2>3. Covered(current.seen \union taken, n - Backfill)
    <3>1. CASE current.block # NoBlock
      <4>1. current.block.number \in Nat /\ ~(current.block.number <= n)
        BY <1>1, <1>3, <3>1, Numbering DEF AtOrBelow
      <4>2. Covered(current.seen, current.block.number - Backfill)
        BY <1>1, <3>1 DEF FInv, RingReaches, Reach
      <4>3. /\ current.block.number - Backfill \in Int
            /\ n - Backfill <= current.block.number - Backfill
        BY <4>1, Numbering
      <4>4. current.seen \subseteq current.seen \union taken
        OBVIOUS
      <4> QED
        BY <2>2, <4>2, <4>3, <4>4, CoveredMonotone
    <3>2. CASE Covered(current.seen \union taken, Tip.number - Backfill)
      <4>1. n - Backfill <= Tip.number - Backfill
        BY Numbering
      <4> QED
        BY <2>2, <3>2, <4>1, CoveredMonotone
    <3> QED
      BY <3>1, <3>2 DEF FInv, TipReached
  <2>4. Covered(current.seen \union taken, SaturatingSub(n, Backfill))
    BY <2>3, CoveredBack, Numbering
  <2>5. cursor' \in Nat
    BY <2>1, SaturatingSubIs, Numbering
  <2>6. current' = current /\ ring' = ring /\ taken' = taken
    BY <2>1 DEF storeVars
  <2>7. \/ current.block # NoBlock
        \/ Covered(current.seen \union taken, Tip.number - Backfill)
    BY DEF FInv, TipReached
  <2>8. taken \subseteq Blocks
    BY DEF FInv, FollowerTypeOK
  <2> QED
    BY <1>1, <2>1, <2>4, <2>5, <2>6, <2>7, <2>8
<1> QED
  BY <1>2, <1>3

\* The latest block is known: the round goes on, or starts over after a
\* rollback, or the loop ends.
LEMMA TipKnownKeeps == ASSUME FInv, NEW h \in 1..height, TipKnown(h) PROVE FInv'
<1> DEFINE b == BlockAt(h)
<1>1. b \in Blocks /\ b.number = h /\ h \in Nat /\ h <= height
  BY BlockAtHeight, Numbering DEF FInv
<1>2. /\ pc = "tip" /\ UpdateChain(b) /\ UNCHANGED chainVars
  BY DEF TipKnown
<1> HIDE DEF b
<1>3. IInv'
  BY <1>1, <1>2, UpdateChainKeeps DEF FInv
<1>4. /\ \/ chain' = chain
         \/ chain' # <<>> /\ chain'[Len(chain')] = b
      /\ event'.kind \in {"rollback", "detected"} =>
           /\ chain # <<>>
           /\ event'.to \in Nat
           /\ event'.to <= Tip.number
           /\ chain' # <<>> /\ chain'[Len(chain')] = b
           /\ b.number <= Tip.number
  BY <1>1, <1>2, UpdateTip DEF FInv
<1>5. TipBelowHead'
  BY <1>1, <1>2, <1>4 DEF FInv, TipBelowHead, Tip, chainVars
<1>6. CASE UNCHANGED <<storeVars, cursor, batch, taken>> /\ GoOn
  <2>1. pc' \in {"poll", "refresh"} /\ (pc' = "poll" => batch = {})
    BY <1>6 DEF GoOn
  <2>2. FollowerTypeOK'
    BY <1>2, <1>3, <1>6, <2>1 DEF FInv, FollowerTypeOK, IInv, storeVars, chainVars
  <2>3. StoreConsistent' /\ NoHeightSkipped' /\ RingReaches' /\ BatchPending'
    BY <1>6, <2>1 DEF FInv, StoreConsistent, NoHeightSkipped, RingReaches, BatchPending,
                      InRing, storeVars
  <2>4. HeadNear'
    BY <1>2, <1>6 DEF FInv, HeadNear, chainVars
  <2>5. TipReached'
    <3> SUFFICES ASSUME chain' # <<>>, pc' = "poll"
                 PROVE  Covered((current.seen \union taken)', Tip'.number - Backfill)
      BY <2>1 DEF TipReached
    <3>1. Tip'.number \in Nat /\ Tip'.number <= height
      <4>1. chain' \in Seq(Blocks)
        BY <1>3 DEF IInv, TypeOK
      <4>2. Tip' \in Blocks
        BY <4>1 DEF Tip
      <4> QED
        BY <1>2, <1>5, <4>2, BlocksAssumption DEF TipBelowHead, chainVars
    <3>2. Covered(current.seen \union taken \union batch, Tip'.number - Backfill)
      BY <1>2, <3>1, CursorReachesTip
    <3>3. current.seen \union taken \union batch = (current.seen \union taken)'
      BY <1>6, <2>1 DEF storeVars
    <3> QED
      BY <3>2, <3>3
  <2> QED
    BY <1>3, <1>5, <2>2, <2>3, <2>4, <2>5 DEF FInv
<1>7. CASE /\ event'.kind \in {"rollback", "detected"}
           /\ HandleReorgEvent(event'.to) /\ pc' = "poll" /\ batch' = {}
  <2>1. /\ cursor' \in Nat
        /\ taken' \subseteq Blocks
        /\ ring' = ring
        /\ \E i \in 1..Len(ring) : current' = ring[i]
        /\ Covered(current'.seen \union taken', cursor')
        /\ \/ current'.block # NoBlock
           \/ Covered(current'.seen \union taken', Tip.number - Backfill)
    BY <1>2, <1>4, <1>7, RollbackReaches
  <2>2. current' \in Snapshot
    BY <2>1, Numbering
  <2>3. FollowerTypeOK'
    BY <1>2, <1>3, <1>7, <2>1, <2>2 DEF FInv, FollowerTypeOK, IInv, chainVars
  <2>4. StoreConsistent' /\ RingReaches' /\ BatchPending' /\ HeadNear'
    BY <1>7, <2>1 DEF FInv, StoreConsistent, RingReaches, BatchPending, HeadNear, InRing
  <2>5. NoHeightSkipped'
    BY <1>7, <2>1 DEF NoHeightSkipped, Covered
  <2>6. TipReached'
    <3>1. Tip'.number \in Nat /\ Tip'.number <= Tip.number
      BY <1>1, <1>4, <1>7 DEF Tip
    <3>2. CASE current'.block # NoBlock
      BY <3>2 DEF TipReached
    <3>3. CASE Covered(current'.seen \union taken', Tip.number - Backfill)
      <4>1. /\ Tip'.number - Backfill \in Int /\ Tip.number - Backfill \in Int
            /\ Tip'.number - Backfill <= Tip.number - Backfill
        BY <1>4, <1>7, <3>1, Numbering
      <4>2. Covered(current'.seen \union taken', Tip'.number - Backfill)
        BY <3>3, <4>1, CoveredMonotone
      <4> QED
        BY <4>2 DEF TipReached
    <3> QED
      BY <2>1, <3>2, <3>3
  <2> QED
    BY <1>3, <1>5, <2>3, <2>4, <2>5, <2>6 DEF FInv
<1>8. CASE UNCHANGED <<storeVars, cursor, batch, taken>> /\ pc' \in {"stopped", "hung"}
  <2>1. FollowerTypeOK'
    BY <1>2, <1>3, <1>8 DEF FInv, FollowerTypeOK, IInv, storeVars, chainVars
  <2>2. StoreConsistent' /\ NoHeightSkipped' /\ RingReaches' /\ BatchPending'
    BY <1>8 DEF FInv, StoreConsistent, NoHeightSkipped, RingReaches, BatchPending,
                InRing, storeVars
  <2>3. HeadNear' /\ TipReached'
    BY <1>8 DEF HeadNear, TipReached
  <2> QED
    BY <1>3, <1>5, <2>1, <2>2, <2>3 DEF FInv
<1> QED
  BY <1>6, <1>7, <1>8 DEF TipKnown

\* A published snapshot reaches what a later rollback to it will rely on.
LEMMA PublishKeeps == FInv /\ RefreshPublishes => FInv'
<1> SUFFICES ASSUME FInv, RefreshPublishes PROVE FInv'
  OBVIOUS
<1>1. /\ pc = "refresh" /\ pc' = "process" /\ batch' = {} /\ taken' = {}
      /\ UNCHANGED <<detectorVars, cursor, chainVars>>
  BY DEF RefreshPublishes
<1> DEFINE now == current.seen \union taken \union batch
<1>2. PICK b \in {BlockAt(h) : h \in {i \in 1..height : Answered(i)}} \union {NoBlock} :
        Publish([id |-> current.id + 1, block |-> b, seen |-> now])
  BY DEF RefreshPublishes
<1> DEFINE s == [id |-> current.id + 1, block |-> b, seen |-> now]
<1>3. b # NoBlock => b \in Blocks /\ b.number \in Nat /\ b.number <= height
  BY BlockAtHeight, Numbering DEF FInv
<1>4. s \in Snapshot /\ s.block = b /\ s.seen = now
  BY <1>3 DEF FInv, FollowerTypeOK, Snapshot
<1>5. Publish(s)
  BY <1>2
<1> HIDE DEF s, now
<1>6. /\ current' = s
      /\ ring' \in Seq(Snapshot)
      /\ Len(ring') <= MaxSnapshots
      /\ \E i \in 1..Len(ring') : ring'[i] = s
      /\ \A i \in 1..Len(ring') :
            ring'[i] = s \/ \E j \in 1..Len(ring) : ring'[i] = ring[j]
  BY <1>4, <1>5, PublishedRing DEF FInv, FollowerTypeOK, StoreConsistent
<1>7. Reach(s)
  <2>1. b # NoBlock => Covered(now, b.number - Backfill)
    BY <1>1, <1>3, CursorReachesTip DEF now
  <2> QED
    BY <1>4, <2>1 DEF Reach
<1>8. IInv'
  BY <1>1, DetectorUntouched DEF FInv, detectorVars
<1>9. FollowerTypeOK'
  BY <1>1, <1>4, <1>6, <1>8 DEF FInv, FollowerTypeOK, IInv, chainVars
<1>10. StoreConsistent' /\ BatchPending' /\ HeadNear'
  BY <1>1, <1>6 DEF StoreConsistent, BatchPending, HeadNear, InRing
<1>11. RingReaches'
  BY <1>6, <1>7 DEF FInv, RingReaches, Reach
<1>12. NoHeightSkipped'
  BY <1>1, <1>4, <1>6 DEF FInv, NoHeightSkipped, Covered, now
<1>13. TipBelowHead'
  BY <1>1 DEF FInv, TipBelowHead, detectorVars, historyVars, Tip, chainVars
<1>14. TipReached'
  <2>1. chain # <<>> => Covered(now, Tip.number - Backfill)
    BY <1>1, CursorReachesTip, Numbering DEF FInv, TipBelowHead, now
  <2> QED
    BY <1>1, <1>4, <1>6, <2>1
       DEF TipReached, detectorVars, historyVars, Tip, Covered
<1> QED
  BY <1>8, <1>9, <1>10, <1>11, <1>12, <1>13, <1>14 DEF FInv

\* A refresh that publishes nothing is remembered as taken.
LEMMA ChangesNothingKeeps == FInv /\ RefreshChangesNothing => FInv'
<1> SUFFICES ASSUME FInv, RefreshChangesNothing PROVE FInv'
  OBVIOUS
<1>1. /\ pc = "refresh" /\ pc' = "poll" /\ batch' = {} /\ taken' = taken \union batch
      /\ UNCHANGED <<detectorVars, storeVars, cursor, chainVars>>
  BY DEF RefreshChangesNothing
<1>2. IInv'
  BY <1>1, DetectorUntouched DEF FInv, detectorVars
<1>3. FollowerTypeOK'
  BY <1>1, <1>2 DEF FInv, FollowerTypeOK, IInv, storeVars, chainVars
<1>4. StoreConsistent' /\ RingReaches' /\ BatchPending' /\ HeadNear'
  BY <1>1 DEF FInv, StoreConsistent, RingReaches, BatchPending, HeadNear, InRing, storeVars
<1>5. NoHeightSkipped'
  BY <1>1 DEF FInv, NoHeightSkipped, Covered, storeVars
<1>6. TipBelowHead'
  BY <1>1 DEF FInv, TipBelowHead, detectorVars, historyVars, Tip, chainVars
<1>7. TipReached'
  <2>1. chain # <<>> =>
          Covered(current.seen \union taken \union batch, Tip.number - Backfill)
    BY <1>1, CursorReachesTip, Numbering DEF FInv, TipBelowHead
  <2> QED
    BY <1>1, <2>1 DEF TipReached, detectorVars, historyVars, storeVars, Tip, Covered
<1> QED
  BY <1>2, <1>3, <1>4, <1>5, <1>6, <1>7 DEF FInv

\* The end of a round, or of the loop, changes no data.
LEMMA EndKeeps == FInv /\ (Stop \/ Process) => FInv'
<1> SUFFICES ASSUME FInv, Stop \/ Process PROVE FInv'
  OBVIOUS
<1>1. /\ \/ pc' = "stopped"
         \/ pc = "process" /\ pc' = "poll"
      /\ UNCHANGED <<detectorVars, storeVars, cursor, batch, taken, chainVars>>
  BY DEF Stop, Process
<1>2. IInv'
  BY <1>1, DetectorUntouched DEF FInv, detectorVars
<1>3. FollowerTypeOK'
  BY <1>1, <1>2 DEF FInv, FollowerTypeOK, IInv, storeVars, chainVars
<1>4. StoreConsistent' /\ NoHeightSkipped' /\ RingReaches' /\ BatchPending'
  BY <1>1 DEF FInv, StoreConsistent, NoHeightSkipped, RingReaches, BatchPending, InRing, storeVars
<1>5. HeadNear' /\ TipBelowHead' /\ TipReached'
  BY <1>1 DEF FInv, HeadNear, TipBelowHead, TipReached, detectorVars, historyVars,
              storeVars, chainVars, Tip
<1> QED
  BY <1>2, <1>3, <1>4, <1>5 DEF FInv

-----------------------------------------------------------------------------
(* The theorems *)

\* The inductive invariant of the engine's loop.
THEOREM FollowerInvariance == Spec => []FInv
<1>1. FInv /\ [Next]_vars => FInv'
  <2> SUFFICES ASSUME FInv, [Next]_vars PROVE FInv'
    OBVIOUS
  <2>1. CASE UNCHANGED vars
    <3>1. UNCHANGED <<detectorVars, storeVars, pc, cursor, batch, taken, chainVars>>
      BY <2>1 DEF vars
    <3>2. IInv'
      BY <3>1, DetectorUntouched DEF FInv, detectorVars
    <3>3. FollowerTypeOK'
      BY <3>1, <3>2 DEF FInv, FollowerTypeOK, IInv, storeVars, chainVars
    <3>4. StoreConsistent' /\ NoHeightSkipped' /\ RingReaches' /\ BatchPending'
      BY <3>1 DEF FInv, StoreConsistent, NoHeightSkipped, RingReaches, BatchPending, InRing, storeVars
    <3>5. HeadNear' /\ TipBelowHead' /\ TipReached'
      BY <3>1 DEF FInv, HeadNear, TipBelowHead, TipReached, detectorVars, historyVars,
                  storeVars, chainVars, Tip
    <3> QED
      BY <3>2, <3>3, <3>4, <3>5 DEF FInv
  <2>2. CASE Grow \/ Reorganise
    BY <2>2, GrowKeeps
  <2>3. CASE Poll
    BY <2>3, PollKeeps
  <2>4. CASE TipUnknown
    BY <2>4, TipUnknownKeeps
  <2>5. CASE \E h \in 1..height : TipKnown(h)
    BY <2>5, TipKnownKeeps
  <2>6. CASE RefreshPublishes
    BY <2>6, PublishKeeps
  <2>7. CASE RefreshChangesNothing
    BY <2>7, ChangesNothingKeeps
  <2>8. CASE Stop \/ Process
    BY <2>8, EndKeeps
  <2> QED
    BY <2>1, <2>2, <2>3, <2>4, <2>5, <2>6, <2>7, <2>8 DEF Next, Loop
<1> QED
  BY <1>1, InitHolds, PTL DEF Spec

\* The loop's variables keep their types.
THEOREM FollowerTypeCorrect == Spec => []FollowerTypeOK
<1>1. FInv => FollowerTypeOK
  BY DEF FInv
<1> QED
  BY <1>1, FollowerInvariance, PTL

\* No height's logs are passed over by rollbacks, discarded batches, lagging
\* nodes or refreshes that publish nothing.
THEOREM ScanHasNoHoles == Spec => []NoHeightSkipped
<1>1. FInv => NoHeightSkipped
  BY DEF FInv
<1> QED
  BY <1>1, FollowerInvariance, PTL

\* The current snapshot can always be found in the bounded ring.
THEOREM StoreStaysConsistent == Spec => []StoreConsistent
<1>1. FInv => StoreConsistent
  BY DEF FInv
<1> QED
  BY <1>1, FollowerInvariance, PTL

-----------------------------------------------------------------------------
(* The loop over a subscription: induction, and the operators on its logs *)

\* Induction over the natural numbers, about the set of those that have a property
LEMMA InductiveSet ==
    ASSUME NEW S, 0 \in S, \A n \in Nat : n \in S => n + 1 \in S
    PROVE  Nat \subseteq S
<1> DEFINE R == OpToRel(<, Nat)
           T == {n \in Nat : n \notin S}
<1> SUFFICES ASSUME T # {} PROVE FALSE
  OBVIOUS
<1>1. IsWellFoundedOn(R, Nat)
  BY NatLessThanWellFounded, Zenon
<1>2. PICK x \in T : \A y \in T : ~ (<<y, x>> \in R)
  <2> HIDE DEF R
  <2> QED
    BY <1>1, WFMin
<1>3. \A y \in T : ~ (y < x)
  BY <1>2 DEF OpToRel
<1>4. x # 0
  OBVIOUS
<1>5. x - 1 \in Nat /\ x - 1 \in T
  <2>1. x - 1 \in Nat /\ (x - 1) + 1 = x
    BY <1>4
  <2> QED
    BY <2>1
<1> QED
  BY <1>3, <1>5

\* The values after each round of a loop: F[i] is what its i-th round makes of one
Rounds(X, base, n, F) == base \in X /\ n \in Nat /\ F \in [1..n -> [X -> X]]
Values(X, base, n, F, g) == g \in [0..n -> X] /\ g[0] = base /\ \A i \in 1..n : g[i] = F[i][g[i - 1]]

LEMMA LoopExists ==
    ASSUME NEW X, NEW base, NEW n, NEW F, Rounds(X, base, n, F)
    PROVE  \E g : Values(X, base, n, F, g)
<1> USE DEF Rounds
<1> DEFINE Made(g, m) == /\ g \in [0..m -> X]
                         /\ g[0] = base
                         /\ \A i \in 1..m : g[i] = F[i][g[i - 1]]
           T == {m \in Nat : m <= n => \E g : Made(g, m)}
<1>1. 0 \in T
  <2> DEFINE g == [i \in 0..0 |-> base]
  <2>1. Made(g, 0)
    OBVIOUS
  <2> HIDE DEF Made, g
  <2>2. \E f : Made(f, 0)
    BY <2>1
  <2> QED
    BY <2>2
<1>2. ASSUME NEW m \in Nat, m \in T PROVE m + 1 \in T
  <2> SUFFICES ASSUME m + 1 <= n PROVE \E g : Made(g, m + 1)
    <3> HIDE DEF Made
    <3> QED
      OBVIOUS
  <2>1. \E g : Made(g, m)
    <3> HIDE DEF Made
    <3> QED
      BY <1>2
  <2>2. PICK g : Made(g, m)
    BY <2>1
  <2> DEFINE h == [i \in 0..(m + 1) |-> IF i = m + 1 THEN F[m + 1][g[m]] ELSE g[i]]
  <2>3. F[m + 1][g[m]] \in X
    BY <2>2
  <2>4. h \in [0..(m + 1) -> X] /\ h[0] = base
    BY <2>2, <2>3
  <2>5. \A i \in 1..(m + 1) : h[i] = F[i][h[i - 1]]
    <3> TAKE i \in 1..(m + 1)
    <3>1. CASE i = m + 1
      <4>1. h[i] = F[m + 1][g[m]] /\ h[i - 1] = g[m]
        BY <3>1
      <4> QED
        BY <3>1, <4>1
    <3>2. CASE i # m + 1
      <4>1. i \in 1..m /\ h[i] = g[i] /\ h[i - 1] = g[i - 1]
        BY <3>2
      <4> QED
        BY <2>2, <4>1
    <3> QED
      BY <3>1, <3>2
  <2> HIDE DEF h
  <2>6. Made(h, m + 1)
    BY <2>4, <2>5
  <2> HIDE DEF Made
  <2> QED
    BY <2>6
<1>3. n \in T
  <2> HIDE DEF T
  <2> QED
    BY <1>1, <1>2, InductiveSet
<1>4. \E g : Made(g, n)
  <2> HIDE DEF Made
  <2> QED
    BY <1>3
<1> QED
  BY <1>4 DEF Values

\* The logs that are kept are those in S.
LEMMA ThoseAre ==
    ASSUME NEW logs \in Seq(Blocks), NEW S
    PROVE  Those(logs, S) \in Seq(Blocks) /\ Elements(Those(logs, S)) = Elements(logs) \intersect S
<1> DEFINE n == Len(logs)
           after[i \in 0..n] ==
               IF i = 0 THEN <<>>
               ELSE IF logs[i] \in S THEN Append(after[i - 1], logs[i]) ELSE after[i - 1]
<1>1. Those(logs, S) = after[n]
  BY DEF Those
<1>2. after = [i \in 0..n |-> IF i = 0 THEN <<>>
                              ELSE IF logs[i] \in S THEN Append(after[i - 1], logs[i]) ELSE after[i - 1]]
  <2> DEFINE F == [i \in 1..n |-> [x \in Seq(Blocks) |-> IF logs[i] \in S THEN Append(x, logs[i]) ELSE x]]
  <2>1. F \in [1..n -> [Seq(Blocks) -> Seq(Blocks)]] /\ <<>> \in Seq(Blocks)
    OBVIOUS
  <2>2. PICK g : Values(Seq(Blocks), <<>>, n, F, g)
    <3>1. Rounds(Seq(Blocks), <<>>, n, F)
      BY <2>1 DEF Rounds
    <3> HIDE DEF F, n
    <3> QED
      BY <3>1, LoopExists
  <2>3. \A i \in 0..n : i = 0 \/ (i \in 1..n /\ i - 1 \in 0..n)
    OBVIOUS
  <2>4. g = [i \in 0..n |-> IF i = 0 THEN <<>>
                            ELSE IF logs[i] \in S THEN Append(g[i - 1], logs[i]) ELSE g[i - 1]]
    BY <2>2, <2>3 DEF Values
  <2> QED
    BY <2>4, Zenon
<1> HIDE DEF after
<1> DEFINE T == {m \in Nat : m <= n => /\ after[m] \in Seq(Blocks)
                                       /\ Elements(after[m]) = {logs[j] : j \in 1..m} \intersect S}
<1>3. 0 \in T
  <2>1. after[0] = <<>>
    BY <1>2
  <2>2. Elements(after[0]) = {} /\ after[0] \in Seq(Blocks)
    BY <2>1 DEF Elements
  <2>3. {logs[j] : j \in 1..0} = {}
    OBVIOUS
  <2> QED
    BY <2>2, <2>3
<1>4. ASSUME NEW m \in Nat, m \in T PROVE m + 1 \in T
  <2> SUFFICES ASSUME m + 1 <= n
               PROVE  /\ after[m + 1] \in Seq(Blocks)
                      /\ Elements(after[m + 1]) = {logs[j] : j \in 1..(m + 1)} \intersect S
    OBVIOUS
  <2> DEFINE x == after[m]
             b == logs[m + 1]
             y == Append(x, b)
             L == {logs[j] : j \in 1..m}
  <2>1. x \in Seq(Blocks) /\ Elements(x) = L \intersect S
    BY <1>4
  <2>2. b \in Blocks /\ {logs[j] : j \in 1..(m + 1)} = L \union {b}
    <3>1. \A j \in 1..(m + 1) : j \in 1..m \/ j = m + 1
      OBVIOUS
    <3>2. \A j \in 1..m : j \in 1..(m + 1)
      OBVIOUS
    <3> QED
      BY <3>1, <3>2
  <2>3. after[m + 1] = IF b \in S THEN y ELSE x
    <3>1. m + 1 \in 0..n /\ m + 1 # 0 /\ (m + 1) - 1 = m
      OBVIOUS
    <3> QED
      BY <1>2, <3>1
  <2> HIDE DEF x, b, L
  <2>4. y \in Seq(Blocks) /\ Elements(y) = Elements(x) \union {b}
    BY <2>1, <2>2 DEF Elements
  <2> HIDE DEF y
  <2>5. CASE b \in S
    BY <2>1, <2>2, <2>3, <2>4, <2>5
  <2>6. CASE b \notin S
    BY <2>1, <2>2, <2>3, <2>6
  <2> QED
    BY <2>5, <2>6
<1>5. n \in Nat /\ n \in T
  <2> HIDE DEF T
  <2>1. n \in Nat
    OBVIOUS
  <2> QED
    BY <1>3, <1>4, <2>1, InductiveSet
<1> QED
  BY <1>1, <1>5 DEF Elements

\* A key that is remembered was known before, or is the new one.
LEMMA RememberIs ==
    ASSUME NEW known \in Seq(AllKeys), NEW k \in AllKeys
    PROVE  /\ Remember(known, k) \in Seq(AllKeys)
           /\ Elements(Remember(known, k)) \subseteq Elements(known) \union {k}
<1> DEFINE longer == IF k \in Elements(known) THEN known ELSE Append(known, k)
<1>1. longer \in Seq(AllKeys) /\ Elements(longer) \subseteq Elements(known) \union {k}
  <2>1. /\ Append(known, k) \in Seq(AllKeys)
        /\ Elements(Append(known, k)) \subseteq Elements(known) \union {k}
    BY DEF Elements
  <2> QED
    BY <2>1
<1>2. Remember(known, k) = IF Len(longer) > RecentLogs THEN Tail(longer) ELSE longer
  BY DEF Remember
<1> HIDE DEF longer
<1>3. Len(longer) > RecentLogs =>
          Tail(longer) \in Seq(AllKeys) /\ Elements(Tail(longer)) \subseteq Elements(longer)
  <2> SUFFICES ASSUME Len(longer) > RecentLogs
               PROVE  Tail(longer) \in Seq(AllKeys) /\ Elements(Tail(longer)) \subseteq Elements(longer)
    OBVIOUS
  <2>1. longer # <<>>
    BY <1>1, WssAssumption
  <2>2. /\ Tail(longer) \in Seq(AllKeys) /\ Len(Tail(longer)) = Len(longer) - 1
        /\ \A i \in 1..Len(Tail(longer)) : Tail(longer)[i] = longer[i + 1] /\ i + 1 \in 1..Len(longer)
    BY <1>1, <2>1
  <2> QED
    BY <2>2 DEF Elements
<1> QED
  BY <1>1, <1>2, <1>3

\* Keys that are recorded were known before, or are of the logs.
LEMMA RecordedIs ==
    ASSUME NEW known \in Seq(AllKeys), NEW logs \in Seq(Blocks)
    PROVE  /\ Recorded(known, logs) \in Seq(AllKeys)
           /\ Elements(Recorded(known, logs)) \subseteq Elements(known) \union Keys(Elements(logs))
<1> DEFINE n == Len(logs)
           after[i \in 0..n] == IF i = 0 THEN known ELSE Remember(after[i - 1], Key(logs[i]))
<1>1. Recorded(known, logs) = after[n]
  BY DEF Recorded
<1>2. \A i \in 1..n : Key(logs[i]) \in AllKeys
  BY DEF AllKeys, Keys
<1>3. after = [i \in 0..n |-> IF i = 0 THEN known ELSE Remember(after[i - 1], Key(logs[i]))]
  <2> DEFINE F == [i \in 1..n |-> [x \in Seq(AllKeys) |-> Remember(x, Key(logs[i]))]]
  <2>1. Rounds(Seq(AllKeys), known, n, F)
    BY <1>2, RememberIs DEF Rounds
  <2>2. PICK g : Values(Seq(AllKeys), known, n, F, g)
    <3> HIDE DEF F, n
    <3> QED
      BY <2>1, LoopExists
  <2>3. \A i \in 0..n : i = 0 \/ (i \in 1..n /\ i - 1 \in 0..n)
    OBVIOUS
  <2>4. g = [i \in 0..n |-> IF i = 0 THEN known ELSE Remember(g[i - 1], Key(logs[i]))]
    BY <2>2, <2>3 DEF Values
  <2> QED
    BY <2>4, Zenon
<1> HIDE DEF after
<1> DEFINE all == Elements(known) \union Keys(Elements(logs))
           T == {m \in Nat : m <= n => after[m] \in Seq(AllKeys) /\ Elements(after[m]) \subseteq all}
<1>4. 0 \in T
  BY <1>3
<1>5. ASSUME NEW m \in Nat, m \in T PROVE m + 1 \in T
  <2> SUFFICES ASSUME m + 1 <= n
               PROVE  after[m + 1] \in Seq(AllKeys) /\ Elements(after[m + 1]) \subseteq all
    OBVIOUS
  <2>1. after[m] \in Seq(AllKeys) /\ Elements(after[m]) \subseteq all
    BY <1>5
  <2>2. after[m + 1] = Remember(after[m], Key(logs[m + 1]))
    <3>1. m + 1 \in 0..n /\ m + 1 # 0 /\ (m + 1) - 1 = m
      OBVIOUS
    <3> QED
      BY <1>3, <3>1
  <2>3. m + 1 \in 1..n
    OBVIOUS
  <2>4. Key(logs[m + 1]) \in AllKeys /\ Key(logs[m + 1]) \in all
    BY <1>2, <2>3 DEF Keys, Elements
  <2> HIDE DEF all
  <2> QED
    BY <2>1, <2>2, <2>4, RememberIs
<1>6. n \in Nat /\ n \in T
  <2> HIDE DEF T
  <2>1. n \in Nat
    OBVIOUS
  <2> QED
    BY <1>4, <1>5, <2>1, InductiveSet
<1> QED
  BY <1>1, <1>6

LEMMA LeastIn ==
    ASSUME NEW S \in SUBSET Nat, S # {}
    PROVE  \E n \in S : \A m \in S : n <= m
<1> DEFINE R == OpToRel(<, Nat)
<1>1. IsWellFoundedOn(R, Nat)
  BY NatLessThanWellFounded, Zenon
<1>2. PICK n \in S : \A m \in S : ~ (<<m, n>> \in R)
  <2> HIDE DEF R
  <2> QED
    BY <1>1, WFMin
<1>3. \A m \in S : ~ (m < n)
  BY <1>2 DEF OpToRel
<1> QED
  BY <1>3

\* No key is lost by leaving out doubles.
LEMMA DedupedIs ==
    ASSUME NEW logs \in Seq(Blocks)
    PROVE  Deduped(logs) \subseteq Blocks /\ Keys(Deduped(logs)) = Keys(Elements(logs))
<1>1. Deduped(logs) \subseteq Elements(logs) /\ Elements(logs) \subseteq Blocks
  BY DEF Deduped, Elements
<1>2. ASSUME NEW i \in 1..Len(logs) PROVE \E b \in Deduped(logs) : Key(b) = Key(logs[i])
  <2> DEFINE S == {j \in 1..Len(logs) : Key(logs[j]) = Key(logs[i])}
  <2>1. S \in SUBSET Nat /\ S # {}
    OBVIOUS
  <2>2. PICK j \in S : \A k \in S : j <= k
    <3> HIDE DEF S
    <3> QED
      BY <2>1, LeastIn
  <2>3. \A k \in 1..(j - 1) : Key(logs[k]) # Key(logs[j])
    BY <2>2
  <2>4. logs[j] \in Deduped(logs) /\ Key(logs[j]) = Key(logs[i])
    BY <2>2, <2>3 DEF Deduped
  <2> QED
    BY <2>4
<1> QED
  BY <1>1, <1>2 DEF Keys, Elements

-----------------------------------------------------------------------------
(* What reconciliation makes up for *)

WssShape ==
    /\ fork \in 1..Len(Forks) /\ height \in 1..Len(Forks[fork])
    /\ sent \in [fork: 1..fork, height: Nat] /\ sent.height <= Len(Forks[sent.fork])
    /\ queue \in Seq(Blocks) /\ drained \in Seq(Blocks)
    /\ recent \in Seq(AllKeys)
    /\ pc # "reconcile" => drained = <<>>
    /\ pc = "reconcile" => answer \in 1..height /\ reconciled # NotYet

\* No rewrite replaces a block up to h.
Settled(h) == h = 0 \/ h <= Len(Forks[fork]) - Confirmations

Delivered(h, keys) == \A i \in 1..h : Key(BlockAt(i)) \in keys

\* The first poll starts at the cursor, where bootstrap has been.
FirstPoll ==
    reconciled = NotYet =>
        /\ pc = "poll"
        /\ cursor \in 0..height /\ Settled(cursor)
        /\ Delivered(cursor, delivered)

MadeUp ==
    reconciled # NotYet =>
        /\ reconciled \in 0..height /\ Settled(reconciled)
        /\ Delivered(reconciled, delivered \union dropped)

\* A log whose key is remembered has been in a batch, is lost, or waits for a
\* reconciliation.
RecentTaken == Elements(recent) \subseteq delivered \union dropped \union Keys(Elements(drained))

\* The inductive invariant.  ReconciledIsDelivered alone is not inductive: a
\* reconciliation leaves out what is remembered, and a rewrite must not reach
\* the reconciled blocks.
WssInv == WssShape /\ FirstPoll /\ MadeUp /\ RecentTaken

LEMMA ForksAre ==
    ASSUME NEW f \in 1..Len(Forks)
    PROVE  /\ Forks[f] \in Seq(Blocks) /\ Len(Forks[f]) \in Nat
           /\ \A i \in 1..Len(Forks[f]) : Forks[f][i] \in Blocks /\ Forks[f][i].number = i
<1>1. Forks[f] \in Seq(Blocks)
  BY ForksAssumption
<1> QED
  BY <1>1, ForksAssumption

LEMMA WssConstants ==
    /\ Confirmations \in Nat /\ Backfill \in Nat /\ Confirmations <= Backfill
    /\ RecentLogs \in Nat \ {0} /\ NotYet \notin Nat /\ Len(Forks) \in Nat
BY WssAssumption, BackfillAssumption, ForksAssumption DEF NotYet

LEMMA KeyIs == \A b \in Blocks : Key(b) \in AllKeys
BY DEF AllKeys, Keys

LEMMA WssInitHolds == WssInit => WssInv
<1> SUFFICES ASSUME WssInit PROVE WssInv
  OBVIOUS
<1>1. /\ fork = 1 /\ height \in 1..Len(Forks[1]) /\ 1 \in 1..Len(Forks) /\ height \in Nat
      /\ Len(Forks[1]) \in Nat
  BY ForksAssumption, ForksAre DEF WssInit, Init
<1>2. /\ pc = "poll" /\ reconciled = NotYet /\ drained = <<>> /\ recent = <<>> /\ queue = <<>>
      /\ sent = [fork |-> 1, height |-> 0]
      /\ delivered = {Key(BlockAt(i)) : i \in 1..cursor}
  BY DEF WssInit, Init
<1>3. cursor = 0 \/ cursor = SaturatingSub(Forks[1][height].number, Backfill)
  BY DEF WssInit, Init
<1>4. Forks[1][height].number = height
  BY <1>1, ForksAre
<1>5. cursor \in 0..height /\ (cursor = 0 \/ cursor <= height - Backfill)
  BY <1>1, <1>3, <1>4, WssConstants DEF SaturatingSub
<1>6. Settled(cursor)
  BY <1>1, <1>5, WssConstants DEF Settled
<1>7. <<>> \in Seq(Blocks) /\ <<>> \in Seq(AllKeys) /\ Elements(<<>>) = {}
  BY DEF Elements
<1>8. sent \in [fork: 1..fork, height: Nat] /\ sent.height <= Len(Forks[sent.fork])
  BY <1>1, <1>2
<1>9. WssShape
  BY <1>1, <1>2, <1>7, <1>8 DEF WssShape
<1> QED
  BY <1>2, <1>5, <1>6, <1>7, <1>9 DEF WssInv, FirstPoll, MadeUp, RecentTaken, Delivered

\* The chain may grow, or be rewritten above what is settled.
LEMMA SettledStays ==
    ASSUME WssShape, fork' \in fork..Len(Forks), NEW h \in Nat, Settled(h)
    PROVE  /\ Settled(h)'
           /\ h <= height => \A i \in 1..h : BlockAt(i)' = BlockAt(i)
<1>1. fork \in 1..Len(Forks) /\ fork' \in 1..Len(Forks) /\ fork \in Nat /\ fork' \in Nat
  BY WssConstants DEF WssShape
<1>2. Len(Forks[fork]) \in Nat /\ Len(Forks[fork']) \in Nat
  BY <1>1, ForksAre
<1>3. CASE fork' = fork
  BY <1>3 DEF Settled, BlockAt
<1>4. CASE fork < fork'
  <2>1. /\ Len(Forks[fork]) <= Len(Forks[fork'])
        /\ \A i \in 1..(Len(Forks[fork]) - Confirmations) : Forks[fork][i] = Forks[fork'][i]
    BY <1>1, <1>4, WssAssumption
  <2>2. Settled(h)'
    BY <1>2, <2>1, WssConstants DEF Settled
  <2>3. \A i \in 1..h : i \in 1..(Len(Forks[fork]) - Confirmations)
    BY <1>2, WssConstants DEF Settled
  <2> QED
    BY <2>1, <2>2, <2>3 DEF BlockAt
<1> QED
  BY <1>1, <1>3, <1>4

LEMMA MadeUpStays ==
    ASSUME WssInv, WssShape', fork' \in fork..Len(Forks), height <= height',
           reconciled' = reconciled, delivered \union dropped \subseteq delivered' \union dropped'
    PROVE  MadeUp'
<1> SUFFICES ASSUME reconciled # NotYet
             PROVE  /\ reconciled \in 0..height' /\ Settled(reconciled)'
                    /\ \A i \in 1..reconciled : Key(BlockAt(i))' \in delivered' \union dropped'
  BY DEF MadeUp, Settled, Delivered
<1> DEFINE h == reconciled
<1>1. /\ h \in 0..height /\ Settled(h)
      /\ Delivered(h, delivered \union dropped)
  BY DEF WssInv, MadeUp
<1>2. /\ h \in 0..height' /\ Settled(h)'
      /\ \A i \in 1..h : Key(BlockAt(i))' \in delivered' \union dropped'
  <2> DEFINE keys == delivered \union dropped
             more == delivered' \union dropped'
  <2>1. keys \subseteq more
    OBVIOUS
  <2>2. WssShape
    BY DEF WssInv
  <2>3. height \in Nat /\ height' \in Nat
    BY <2>2, ForksAre DEF WssShape
  <2>4. h \in Nat /\ h <= height
    BY <1>1, <2>3
  <2>5. Settled(h)' /\ \A i \in 1..h : BlockAt(i)' = BlockAt(i)
    <3>1. h' = h
      OBVIOUS
    <3>2. \A n \in Nat : Settled(n) => Settled(n)' /\ (n <= height => \A i \in 1..n : BlockAt(i)' = BlockAt(i))
      BY <2>2, SettledStays
    <3> QED
      BY <1>1, <2>4, <3>1, <3>2 DEF Settled
  <2> QED
    BY <1>1, <2>1, <2>3, <2>4, <2>5 DEF Delivered, Key
<1> QED
  BY <1>2

LEMMA FirstPollStays ==
    ASSUME WssInv, WssShape', fork' \in fork..Len(Forks), height <= height',
           UNCHANGED <<reconciled, pc, cursor, delivered>>
    PROVE  FirstPoll'
<1> SUFFICES ASSUME reconciled = NotYet
             PROVE  /\ pc = "poll"
                    /\ cursor \in 0..height' /\ Settled(cursor)'
                    /\ \A i \in 1..cursor : Key(BlockAt(i))' \in delivered
  BY DEF FirstPoll, Settled, Delivered
<1>1. /\ pc = "poll" /\ cursor \in 0..height /\ Settled(cursor)
      /\ Delivered(cursor, delivered)
  BY DEF WssInv, FirstPoll
<1>2. WssShape /\ height \in Nat /\ height' \in Nat
  BY ForksAre DEF WssInv, WssShape
<1>3. cursor \in Nat /\ cursor <= height
  BY <1>1, <1>2
<1>4. Settled(cursor)' /\ \A i \in 1..cursor : BlockAt(i)' = BlockAt(i)
  <2>1. \A n \in Nat : Settled(n) => Settled(n)' /\ (n <= height => \A i \in 1..n : BlockAt(i)' = BlockAt(i))
    BY <1>2, SettledStays
  <2> QED
    BY <1>1, <1>3, <2>1 DEF Settled
<1> QED
  BY <1>1, <1>2, <1>3, <1>4 DEF Delivered, Key

\* The chain and the stream move.
LEMMA StreamKeepsShape ==
    ASSUME WssShape, Connected \/ Sends \/ Retracts \/ Disconnected
    PROVE  WssShape'
<1>1. /\ UNCHANGED <<fork, height, pc, drained, recent, answer, reconciled>>
      /\ fork \in 1..Len(Forks) /\ height \in 1..Len(Forks[fork])
      /\ fork \in Nat /\ Len(Forks[fork]) \in Nat /\ height \in Nat
  BY ForksAre, WssConstants
     DEF Connected, Sends, Retracts, Disconnected, vars, chainVars, ingestVars, WssShape
<1>2. CASE Connected
  <2>1. sent' = [fork |-> fork, height |-> height] /\ queue' = queue
    BY <1>2 DEF Connected
  <2>2. sent' \in [fork: 1..fork, height: Nat] /\ sent'.height <= Len(Forks[sent'.fork])
    BY <1>1, <2>1
  <2> QED
    BY <1>1, <2>1, <2>2 DEF WssShape
<1>3. CASE Disconnected
  BY <1>1, <1>3 DEF Disconnected, WssShape
<1>4. CASE Sends
  <2>1. /\ sent' = [sent EXCEPT !.height = @ + 1]
        /\ sent.fork = fork /\ sent.height < height
        /\ queue' = Append(queue, BlockAt(sent.height + 1))
    BY <1>4 DEF Sends
  <2>2. sent \in [fork: 1..fork, height: Nat]
    BY DEF WssShape
  <2>3. sent' \in [fork: 1..fork, height: Nat] /\ sent'.fork = fork /\ sent'.height = sent.height + 1
    BY <2>1, <2>2
  <2>4. BlockAt(sent.height + 1) \in Blocks
    BY <1>1, <2>1, <2>2, ForksAre DEF BlockAt
  <2>5. queue' \in Seq(Blocks)
    BY <2>1, <2>4 DEF WssShape
  <2> QED
    BY <1>1, <2>1, <2>2, <2>3, <2>5 DEF WssShape
<1>5. CASE Retracts
  <2> DEFINE f == sent.fork
  <2>1. PICK c \in Common(f, fork) :
          /\ queue' = queue \o SubSeq(Forks[f], c + 1, sent.height)
          /\ sent' = [fork |-> fork, height |-> IF c < sent.height THEN c ELSE sent.height]
    BY <1>5 DEF Retracts
  <2>2. /\ f \in 1..fork /\ f \in 1..Len(Forks) /\ f # fork
        /\ sent.height \in Nat /\ sent.height <= Len(Forks[f])
    BY <1>1, <1>5 DEF WssShape, Retracts
  <2>3. Forks[f] \in Seq(Blocks) /\ Len(Forks[f]) \in Nat /\ Len(Forks[f]) <= Len(Forks[fork])
    BY <1>1, <2>2, ForksAre, WssAssumption
  <2>4. c \in 0..Len(Forks[f])
    BY DEF Common
  <2> HIDE DEF f
  <2>5. SubSeq(Forks[f], c + 1, sent.height) \in Seq(Blocks)
    BY <2>2, <2>3, <2>4
  <2>6. queue' \in Seq(Blocks)
    BY <2>1, <2>5 DEF WssShape
  <2> DEFINE k == IF c < sent.height THEN c ELSE sent.height
  <2>7. k \in Nat /\ k <= Len(Forks[fork])
    BY <1>1, <2>2, <2>3, <2>4
  <2>8. sent' = [fork |-> fork, height |-> k]
    BY <2>1
  <2> HIDE DEF k
  <2>9. sent' \in [fork: 1..fork, height: Nat] /\ sent'.height <= Len(Forks[sent'.fork])
    BY <1>1, <2>7, <2>8
  <2> QED
    BY <1>1, <2>6, <2>9 DEF WssShape
<1> QED
  BY <1>2, <1>3, <1>4, <1>5

LEMMA ChainKeepsShape ==
    ASSUME WssShape, Grow \/ Reorganise, UNCHANGED <<streamVars, ingestVars>>
    PROVE  WssShape' /\ fork' \in fork..Len(Forks) /\ height <= height'
<1>1. /\ UNCHANGED <<pc, queue, sent, drained, recent, answer, reconciled>>
      /\ fork \in 1..Len(Forks) /\ height \in 1..Len(Forks[fork])
      /\ fork \in Nat /\ Len(Forks[fork]) \in Nat /\ height \in Nat
  BY ForksAre, WssConstants DEF Grow, Reorganise, streamVars, ingestVars, WssShape
<1>2. /\ fork' \in fork..Len(Forks) /\ height' \in 1..Len(Forks[fork']) /\ height <= height'
      /\ fork' \in Nat /\ height' \in Nat
  <2>1. CASE Grow
    BY <1>1, <2>1, WssConstants DEF Grow
  <2>2. CASE Reorganise
    <3>1. PICK f \in (fork + 1)..Len(Forks) : fork' = f /\ height' \in height..Len(Forks[f])
      BY <2>2 DEF Reorganise
    <3>2. f \in 1..Len(Forks) /\ Len(Forks[f]) \in Nat
      BY <1>1, WssConstants, ForksAre
    <3> QED
      BY <1>1, <3>1, <3>2
  <2> QED
    BY <2>1, <2>2
<1>3. sent \in [fork: 1..fork', height: Nat]
  BY <1>1, <1>2 DEF WssShape
<1>4. fork' \in 1..Len(Forks)
  BY <1>1, <1>2, WssConstants
<1> QED
  BY <1>1, <1>2, <1>3, <1>4 DEF WssShape

LEMMA QueuedIs ==
    ASSUME WssShape
    PROVE  /\ AboveCursor(Queued) \in Seq(Blocks)
           /\ RecentAfter(Queued) \in Seq(AllKeys)
           /\ Elements(RecentAfter(Queued)) \subseteq
                  Elements(recent) \union Keys(Elements(AboveCursor(Queued)))
<1>1. Queued \in Seq(Blocks) /\ recent \in Seq(AllKeys)
  BY DEF Queued, WssShape
<1>2. AboveCursor(Queued) \in Seq(Blocks)
  BY <1>1, ThoseAre DEF AboveCursor
<1> QED
  BY <1>1, <1>2, RecordedIs DEF RecentAfter

\* A poll goes on from where the last one has reconciled to.
LEMMA LastReconciledIs ==
    ASSUME WssInv, pc = "poll"
    PROVE  /\ LastReconciled \in 0..height /\ Settled(LastReconciled)
           /\ LastReconciled # NotYet
           /\ Delivered(LastReconciled, delivered \union dropped)
<1>1. height \in Nat
  BY ForksAre DEF WssInv, WssShape
<1>2. CASE reconciled = NotYet
  BY <1>1, <1>2, WssConstants DEF WssInv, FirstPoll, LastReconciled, Delivered
<1>3. CASE reconciled # NotYet
  BY <1>3 DEF WssInv, MadeUp, LastReconciled
<1> QED
  BY <1>2, <1>3

\* What is delivered are the keys of the logs.
LEMMA DeliverIs ==
    ASSUME NEW logs \in Seq(Blocks), NEW latest, Deliver(logs, latest)
    PROVE  /\ delivered' = delivered \union Keys(Elements(logs))
           /\ drained' = <<>> /\ pc' = "tip"
BY DedupedIs DEF Deliver

LEMMA EmptyIs == <<>> \in Seq(Blocks) /\ Keys(Elements(<<>>)) = {}
BY DEF Keys, Elements

LEMMA StartReconcileKeeps ==
    ASSUME WssInv, NEW latest \in 1..height, StartReconcile(latest)
    PROVE  WssInv'
<1>1. /\ pc = "poll" /\ pc' = "reconcile"
      /\ drained' = AboveCursor(Queued) /\ recent' = RecentAfter(Queued)
      /\ reconciled' = LastReconciled /\ answer' = latest
      /\ queue' = <<>>
      /\ UNCHANGED <<sent, fork, height, delivered, dropped>>
  BY DEF StartReconcile, StartWss, chainVars
<1>2. WssShape /\ drained = <<>>
  BY <1>1 DEF WssInv, WssShape
<1>3. LastReconciled # NotYet
  BY <1>1, LastReconciledIs
<1>4. WssShape'
  BY <1>1, <1>2, <1>3, QueuedIs, EmptyIs DEF WssShape
<1>5. MadeUp' /\ FirstPoll'
  BY <1>1, <1>3, LastReconciledIs DEF MadeUp, FirstPoll, Settled, Delivered, BlockAt, Key
<1>6. RecentTaken'
  BY <1>1, <1>2, QueuedIs, EmptyIs DEF WssInv, RecentTaken
<1> QED
  BY <1>4, <1>5, <1>6 DEF WssInv

LEMMA PollStreamKeeps ==
    ASSUME WssInv, NEW latest \in 1..height, PollStream(latest)
    PROVE  WssInv'
<1> DEFINE logs == AboveCursor(Queued)
<1>1. /\ pc = "poll" /\ Deliver(logs, latest)
      /\ recent' = RecentAfter(Queued)
      /\ reconciled' = LastReconciled
      /\ queue' = <<>>
      /\ UNCHANGED <<sent, fork, height, dropped>>
  BY DEF PollStream, StartWss, chainVars
<1>2. WssShape /\ drained = <<>>
  BY <1>1 DEF WssInv, WssShape
<1>3. LastReconciled # NotYet
  BY <1>1, LastReconciledIs
<1>4. /\ logs \in Seq(Blocks) /\ delivered' = delivered \union Keys(Elements(logs))
      /\ drained' = <<>> /\ pc' = "tip"
  BY <1>1, <1>2, QueuedIs, DeliverIs
<1>5. WssShape'
  BY <1>1, <1>2, <1>3, <1>4, QueuedIs, EmptyIs DEF WssShape
<1>6. MadeUp' /\ FirstPoll'
  BY <1>1, <1>3, <1>4, LastReconciledIs DEF MadeUp, FirstPoll, Settled, Delivered, BlockAt, Key
<1>7. RecentTaken'
  BY <1>1, <1>2, <1>4, QueuedIs, EmptyIs DEF WssInv, RecentTaken
<1> QED
  BY <1>5, <1>6, <1>7 DEF WssInv

\* Of the range that is asked for every log is delivered now or was taken before.
LEMMA ReconcileOkKeeps ==
    ASSUME WssInv, ReconcileOk
    PROVE  WssInv'
<1> DEFINE target == Target(answer)
           range == [i \in 1..(target - reconciled) |-> BlockAt(reconciled + i)]
           unseen == Those(range, {b \in Blocks : Key(b) \notin Elements(recent)})
           logs == unseen \o drained
<1>1. /\ pc = "reconcile" /\ Deliver(logs, answer) /\ reconciled' = target
      /\ UNCHANGED <<queue, sent, fork, height, recent, dropped>>
  BY DEF ReconcileOk, streamVars, chainVars
<1>2. /\ WssShape /\ fork \in 1..Len(Forks) /\ height \in 1..Len(Forks[fork])
      /\ Len(Forks[fork]) \in Nat /\ height \in Nat /\ answer \in 1..height
      /\ drained \in Seq(Blocks)
  BY <1>1, ForksAre DEF WssInv, WssShape
<1>3. /\ target \in Nat /\ target <= height /\ Settled(target)
  BY <1>2, WssConstants DEF Target, SaturatingSub, Settled
<1>4. reconciled \in 0..height /\ Delivered(reconciled, delivered \union dropped)
  BY <1>1 DEF WssInv, WssShape, MadeUp
<1>5. \A h \in 1..height : BlockAt(h) \in Blocks
  BY <1>2, ForksAre DEF BlockAt
<1> HIDE DEF target
<1>6. range \in Seq(Blocks)
  <2>1. \A i \in 1..(target - reconciled) : BlockAt(reconciled + i) \in Blocks
    BY <1>2, <1>3, <1>4, <1>5
  <2>2. CASE target - reconciled \in Nat
    BY <2>1, <2>2
  <2>3. CASE target - reconciled \notin Nat
    <3>1. 1..(target - reconciled) = 1..0
      BY <1>2, <1>3, <1>4, <2>3
    <3>2. range \in [1..0 -> Blocks]
      BY <2>1, <3>1
    <3> HIDE DEF range
    <3> QED
      BY <3>2
  <2> QED
    BY <2>2, <2>3
<1>7. \A h \in (reconciled + 1)..target : BlockAt(h) \in Elements(range)
  <2> TAKE h \in (reconciled + 1)..target
  <2>1. /\ h - reconciled \in 1..(target - reconciled) /\ reconciled + (h - reconciled) = h
        /\ target - reconciled \in Nat
    BY <1>2, <1>3, <1>4
  <2>2. range[h - reconciled] = BlockAt(h) /\ Len(range) = target - reconciled
    BY <2>1
  <2> QED
    BY <2>1, <2>2 DEF Elements
<1> HIDE DEF range
<1>8. unseen \in Seq(Blocks) /\ \A b \in Elements(range) :
          b \in Blocks /\ (Key(b) \in Elements(recent) \/ b \in Elements(unseen))
  <2>1. /\ unseen \in Seq(Blocks)
        /\ Elements(unseen) = Elements(range) \intersect {b \in Blocks : Key(b) \notin Elements(recent)}
    BY <1>6, ThoseAre
  <2>2. Elements(range) \subseteq Blocks
    BY <1>6 DEF Elements
  <2> HIDE DEF unseen
  <2> QED
    BY <2>1, <2>2
<1> HIDE DEF unseen
<1>9. logs \in Seq(Blocks) /\ Elements(logs) = Elements(unseen) \union Elements(drained)
  <2>1. /\ logs \in Seq(Blocks) /\ Len(logs) = Len(unseen) + Len(drained)
        /\ \A i \in 1..Len(unseen) : i \in 1..Len(logs) /\ logs[i] = unseen[i]
        /\ \A i \in 1..Len(drained) :
              Len(unseen) + i \in 1..Len(logs) /\ logs[Len(unseen) + i] = drained[i]
    BY <1>2, <1>8
  <2>2. \A i \in 1..Len(logs) : i \in 1..Len(unseen) \/ i - Len(unseen) \in 1..Len(drained)
    BY <1>2, <1>8, <2>1
  <2>3. \A i \in 1..Len(logs) : i - Len(unseen) \in 1..Len(drained) => logs[i] = drained[i - Len(unseen)]
    BY <1>2, <1>8, <2>1
  <2> HIDE DEF logs
  <2>4. Elements(logs) \subseteq Elements(unseen) \union Elements(drained)
    BY <2>1, <2>2, <2>3 DEF Elements
  <2>5. Elements(unseen) \union Elements(drained) \subseteq Elements(logs)
    BY <2>1 DEF Elements
  <2> QED
    BY <2>1, <2>4, <2>5
<1> HIDE DEF logs
<1>10. /\ delivered' = delivered \union Keys(Elements(logs))
       /\ drained' = <<>> /\ pc' = "tip"
  BY <1>1, <1>9, DeliverIs
<1>11. RecentTaken'
  BY <1>1, <1>9, <1>10 DEF WssInv, RecentTaken, Keys
<1>12. Delivered(target, delivered' \union dropped')
  <2> SUFFICES ASSUME NEW h \in 1..target PROVE Key(BlockAt(h)) \in delivered' \union dropped'
    BY DEF Delivered
  <2>1. CASE h \in 1..reconciled
    BY <1>1, <1>4, <1>10, <2>1 DEF Delivered
  <2>2. CASE h \notin 1..reconciled
    <3>1. BlockAt(h) \in Elements(range)
      BY <1>2, <1>3, <1>4, <1>7, <2>2
    <3>2. CASE Key(BlockAt(h)) \in Elements(recent)
      BY <1>1, <1>11, <3>2, EmptyIs, <1>10 DEF RecentTaken
    <3>3. CASE BlockAt(h) \in Elements(unseen)
      BY <1>9, <1>10, <3>3 DEF Keys
    <3> QED
      BY <1>8, <3>1, <3>2, <3>3
  <2> QED
    BY <2>1, <2>2
<1>13. WssShape'
  BY <1>1, <1>2, <1>10, EmptyIs DEF WssShape
<1>14. MadeUp' /\ FirstPoll'
  <2>1. reconciled' # NotYet /\ reconciled' \in 0..height'
    BY <1>1, <1>2, <1>3, WssConstants
  <2>2. Settled(reconciled)'
    BY <1>1, <1>3 DEF Settled
  <2>3. Delivered(reconciled, delivered \union dropped)'
    BY <1>1, <1>12 DEF Delivered, BlockAt, Key
  <2> QED
    BY <2>1, <2>2, <2>3 DEF MadeUp, FirstPoll
<1> QED
  BY <1>11, <1>13, <1>14 DEF WssInv

\* What the failed poll had taken counts as lost.
LEMMA ReconcileFailsKeeps ==
    ASSUME WssInv, ReconcileFails
    PROVE  WssInv'
<1>1. /\ pc = "reconcile" /\ pc' = "poll" /\ drained' = <<>>
      /\ dropped' = dropped \union Keys(Elements(drained))
      /\ UNCHANGED <<queue, sent, fork, height, recent, reconciled, delivered>>
  BY DEF ReconcileFails, streamVars, chainVars
<1>2. WssShape /\ reconciled # NotYet /\ fork \in 1..Len(Forks)
  BY <1>1 DEF WssInv, WssShape
<1>3. WssShape'
  BY <1>1, <1>2, EmptyIs DEF WssShape
<1>4. MadeUp'
  <2>1. fork' \in fork..Len(Forks) /\ height <= height'
    <3>1. height \in Nat /\ fork \in Nat
      BY <1>2, ForksAre, WssConstants DEF WssShape
    <3> QED
      BY <1>1, <1>2, <3>1, WssConstants
  <2> QED
    BY <1>1, <1>3, <2>1, MadeUpStays
<1>5. FirstPoll'
  BY <1>1, <1>2 DEF FirstPoll
<1>6. RecentTaken'
  BY <1>1, EmptyIs DEF WssInv, RecentTaken
<1> QED
  BY <1>3, <1>4, <1>5, <1>6 DEF WssInv

\* The rest of the loop runs between two polls, and ends it at most.
LEMMA RestKeeps ==
    ASSUME WssInv, Rest \/ (Stop /\ UNCHANGED <<streamVars, ingestVars>>)
    PROVE  WssInv'
<1>1. /\ pc \in {"tip", "refresh", "process"} /\ pc' # "reconcile"
      /\ UNCHANGED <<queue, sent, fork, height, drained, recent, reconciled, delivered, dropped>>
  <2>1. CASE TipUnknown /\ Rest
    BY <2>1 DEF TipUnknown, GoOn, Rest, streamVars, chainVars
  <2>2. CASE (\E h \in 1..height : TipKnown(h)) /\ Rest
    BY <2>2 DEF TipKnown, GoOn, Rest, streamVars, chainVars
  <2>3. CASE RefreshPublishes /\ Rest
    BY <2>3 DEF RefreshPublishes, Rest, streamVars, chainVars
  <2>4. CASE RefreshChangesNothing /\ Rest
    BY <2>4 DEF RefreshChangesNothing, Rest, streamVars, chainVars
  <2>5. CASE Process /\ Rest
    BY <2>5 DEF Process, Rest, streamVars, chainVars
  <2>6. CASE Stop /\ UNCHANGED <<streamVars, ingestVars>>
    BY <2>6 DEF Stop, streamVars, ingestVars, chainVars
  <2> QED
    BY <2>1, <2>2, <2>3, <2>4, <2>5, <2>6 DEF Rest
<1>2. WssShape /\ reconciled # NotYet /\ drained = <<>> /\ fork \in 1..Len(Forks)
  BY <1>1 DEF WssInv, WssShape, FirstPoll
<1>3. WssShape'
  BY <1>1, <1>2 DEF WssShape
<1>4. MadeUp'
  <2>1. fork' \in fork..Len(Forks) /\ height <= height'
    <3>1. height \in Nat /\ fork \in Nat
      BY <1>2, ForksAre, WssConstants DEF WssShape
    <3> QED
      BY <1>1, <1>2, <3>1, WssConstants
  <2> QED
    BY <1>1, <1>3, <2>1, MadeUpStays
<1>5. FirstPoll'
  BY <1>1, <1>2 DEF FirstPoll
<1>6. RecentTaken'
  BY <1>1 DEF WssInv, RecentTaken
<1> QED
  BY <1>3, <1>4, <1>5, <1>6 DEF WssInv

\* The chain and the subscription move while the loop is anywhere.
LEMMA OutsideKeeps ==
    ASSUME WssInv,
           \/ (Grow \/ Reorganise) /\ UNCHANGED <<streamVars, ingestVars>>
           \/ Connected \/ Sends \/ Retracts \/ Disconnected
    PROVE  WssInv'
<1>1. WssShape /\ fork \in 1..Len(Forks) /\ fork \in Nat /\ height \in Nat
  BY ForksAre, WssConstants DEF WssInv, WssShape
<1>2. /\ UNCHANGED <<pc, cursor, recent, reconciled, drained, delivered, dropped>>
      /\ WssShape' /\ fork' \in fork..Len(Forks) /\ height <= height'
  <2>1. CASE (Grow \/ Reorganise) /\ UNCHANGED <<streamVars, ingestVars>>
    <3>1. UNCHANGED <<pc, cursor, recent, reconciled, drained, delivered, dropped>>
      BY <2>1 DEF Grow, Reorganise, ingestVars
    <3> QED
      BY <1>1, <2>1, <3>1, ChainKeepsShape
  <2>2. CASE Connected \/ Sends \/ Retracts \/ Disconnected
    <3>1. UNCHANGED <<pc, cursor, fork, height, recent, reconciled, drained, delivered, dropped>>
      BY <2>2 DEF Connected, Sends, Retracts, Disconnected, ingestVars, vars, chainVars
    <3> QED
      BY <1>1, <2>2, <3>1, StreamKeepsShape, WssConstants
  <2> QED
    BY <2>1, <2>2
<1>3. MadeUp'
  BY <1>2, MadeUpStays
<1>4. FirstPoll'
  BY <1>2, FirstPollStays
<1>5. RecentTaken'
  BY <1>2 DEF WssInv, RecentTaken
<1> QED
  BY <1>2, <1>3, <1>4, <1>5 DEF WssInv

\* Reconciliation makes up for every log of the confirmed chain: the invariant
\* of poll_wss_hybrid, of the task of the subscription and of the chain.
THEOREM WssInvariance == WssSpec => []WssInv
<1>1. WssInit => WssInv
  BY WssInitHolds
<1>2. WssInv /\ [WssNext]_wssVars => WssInv'
  <2> SUFFICES ASSUME WssInv, [WssNext]_wssVars
               PROVE  WssInv'
    OBVIOUS
  <2>1. CASE StartsReconcile
    BY <2>1, StartReconcileKeeps DEF StartsReconcile
  <2>2. CASE PollsStream
    BY <2>2, PollStreamKeeps DEF PollsStream
  <2>3. CASE ReconcileOk
    BY <2>3, ReconcileOkKeeps
  <2>4. CASE ReconcileFails
    BY <2>4, ReconcileFailsKeeps
  <2>5. CASE Rest \/ (Stop /\ UNCHANGED <<streamVars, ingestVars>>)
    BY <2>5, RestKeeps
  <2>6. CASE \/ (Grow \/ Reorganise) /\ UNCHANGED <<streamVars, ingestVars>>
             \/ Connected \/ Sends \/ Retracts \/ Disconnected
    BY <2>6, OutsideKeeps
  <2>7. CASE UNCHANGED wssVars
    <3>1. UNCHANGED <<pc, cursor, fork, height, queue, sent, recent, reconciled, drained, answer,
                      delivered, dropped>>
      BY <2>7 DEF wssVars, vars, chainVars, streamVars, ingestVars
    <3> QED
      BY <3>1 DEF WssInv, WssShape, FirstPoll, MadeUp, RecentTaken, Settled, Delivered, BlockAt, Key
  <2> QED
    BY <2>1, <2>2, <2>3, <2>4, <2>5, <2>6, <2>7 DEF WssNext, WssLoop
<1> QED
  BY <1>1, <1>2, PTL DEF WssSpec

\* Every log of the chain up to the reconciled block has been in a batch, or was
\* lost with a poll whose eth_getLogs failed: whatever the subscription delivers late,
\* twice, not at all or for replaced blocks (poll_wss_hybrid of event_stream.rs).
THEOREM ReconciledIsDeliveredHolds == WssSpec => []ReconciledIsDelivered
<1>1. WssInv => ReconciledIsDelivered
  <2> SUFFICES ASSUME WssInv, NEW h \in 1..reconciled
               PROVE  Key(BlockAt(h)) \in delivered \union dropped
    BY DEF ReconciledIsDelivered
  <2>1. reconciled # NotYet
    BY DEF NotYet
  <2> QED
    BY <2>1 DEF WssInv, MadeUp, Delivered
<1> QED
  BY <1>1, WssInvariance, PTL

-----------------------------------------------------------------------------
(* What is delivered once *)

\* Blocks that are or become part of the chain
OnForks == UNION {Elements(Forks[f]) : f \in 1..Len(Forks)}

\* A reconciliation leaves its log out, or does not ask for it any more.
Remembered(b) == Key(b) \in Elements(recent) \/ b.number <= reconciled

\* The places of the loop's own variables
LoopShape ==
    /\ IInv
    /\ cursor \in Nat /\ batch \subseteq Blocks /\ taken \subseteq Blocks
    /\ current \in Snapshot /\ ring \in Seq(Snapshot) /\ Len(ring) <= MaxSnapshots

\* The stream sends a block of the trunk once: those in the queue and those
\* that have been taken from it are at most as high as the stream has come.
SentOnce ==
    /\ sent.height <= height
    /\ Elements(queue) \subseteq OnForks /\ Elements(drained) \subseteq OnForks
    /\ \A b \in Trunk : b \in Elements(queue) => b.number <= sent.height

\* What a poll has taken when it waits for a reconciliation has not been delivered.
DrainedIsNew ==
    /\ pc = "reconcile" => reconciled < Target(answer)
    /\ \A b \in Trunk : b \in Elements(drained) =>
          /\ Key(b) \notin since /\ Remembered(b)
          /\ b \notin Elements(queue) /\ b.number <= sent.height

\* What has been delivered comes neither from the queue nor from a reconciliation
\* again, as long as the cursor does not go back.
NotAgain ==
    \A b \in Trunk : Key(b) \in since =>
        /\ b.number <= cursor \/ (b \notin Elements(queue) /\ b.number <= sent.height)
        /\ Remembered(b)

TrunkInv == SentOnce /\ DrainedIsNew /\ NotAgain

LEMMA PartOf ==
    ASSUME NEW S, NEW s \in Seq(S), NEW k \in Nat, NEW n \in Nat, k < n, n <= Len(s)
    PROVE  /\ SubSeq(s, k + 1, n) \in Seq(S) /\ Len(SubSeq(s, k + 1, n)) = n - k
           /\ \A i \in 1..(n - k) : SubSeq(s, k + 1, n)[i] = s[k + i]
<1>1. Len(s) \in Nat /\ \A i \in (k + 1)..n : i \in 1..Len(s) /\ s[i] \in S
  OBVIOUS
<1>2. SubSeq(s, k + 1, n) \in Seq(S)
  BY <1>1
<1>3. Len(SubSeq(s, k + 1, n)) = n - k
  BY <1>1
<1>4. \A i \in 1..(n - k) : SubSeq(s, k + 1, n)[i] = s[k + i]
  <2> TAKE i \in 1..(n - k)
  <2>1. SubSeq(s, k + 1, n)[i] = s[(k + 1) + i - 1]
    BY <1>1
  <2>2. (k + 1) + i - 1 = k + i
    OBVIOUS
  <2> QED
    BY <2>1, <2>2
<1> QED
  BY <1>2, <1>3, <1>4

LEMMA PutTogether ==
    ASSUME NEW S, NEW s \in Seq(S), NEW t \in Seq(S), NEW i \in 1..Len(s \o t)
    PROVE  \/ i \in 1..Len(s) /\ (s \o t)[i] = s[i]
           \/ i - Len(s) \in 1..Len(t) /\ (s \o t)[i] = t[i - Len(s)]
<1>1. Len(s) \in Nat /\ Len(t) \in Nat /\ Len(s \o t) = Len(s) + Len(t)
  OBVIOUS
<1>2. CASE i <= Len(s)
  BY <1>1, <1>2
<1>3. CASE ~ (i <= Len(s))
  <2>1. i - Len(s) \in 1..Len(t)
    BY <1>1, <1>3
  <2>2. (s \o t)[i] = t[i - Len(s)]
    BY <1>1, <1>3
  <2> QED
    BY <2>1, <2>2
<1> QED
  BY <1>2, <1>3

\* Chains that share a block share all below it.
LEMMA SharedBelow ==
    ASSUME NEW f \in 1..Len(Forks), NEW g \in 1..Len(Forks),
           NEW n \in 1..Len(Forks[f]), n <= Len(Forks[g]), Forks[f][n] = Forks[g][n],
           NEW j \in 1..n
    PROVE  Forks[f][j] = Forks[g][j]
<1> DEFINE S == {d \in 0..(n - 1) : Forks[f][n - d] # Forks[g][n - d]}
<1> SUFFICES ASSUME Forks[f][j] # Forks[g][j] PROVE FALSE
  OBVIOUS
<1>1. Len(Forks[f]) \in Nat /\ Len(Forks[g]) \in Nat /\ n \in Nat /\ j \in Nat
  BY ForksAre
<1>2. n - j \in 0..(n - 1) /\ n - (n - j) = j
  BY <1>1
<1>3. S \in SUBSET Nat /\ n - j \in S
  BY <1>1, <1>2
<1>4. \A d \in S : d \in 0..(n - 1) /\ Forks[f][n - d] # Forks[g][n - d]
  OBVIOUS
<1>5. \A d \in 0..(n - 1) : d \notin S => Forks[f][n - d] = Forks[g][n - d]
  OBVIOUS
<1> HIDE DEF S
<1>6. PICK d \in S : \A e \in S : d <= e
  BY <1>3, LeastIn
<1>7. d # 0
  <2>1. n - 0 = n
    BY <1>1
  <2> QED
    BY <1>4, <2>1
<1>8. d - 1 \in 0..(n - 1) /\ d - 1 \notin S /\ d \in Nat
  <2>1. d \in 0..(n - 1)
    BY <1>4
  <2>2. d \in Nat /\ d <= n - 1 /\ d >= 1
    BY <1>1, <1>7, <2>1
  <2>3. d - 1 \notin S
    BY <1>6, <2>2
  <2> QED
    BY <1>1, <2>2, <2>3
<1> DEFINE i == n - d
<1>9. /\ n - (d - 1) = i + 1 /\ i \in 1..(Len(Forks[f]) - 1) /\ i \in 1..(Len(Forks[g]) - 1)
      /\ i \in 1..Len(Forks[f]) /\ i \in 1..Len(Forks[g])
  <2>1. d \in Nat /\ d >= 1 /\ d <= n - 1 /\ n <= Len(Forks[f]) /\ n <= Len(Forks[g])
    <3>1. d \in 0..(n - 1)
      BY <1>4
    <3> QED
      BY <1>1, <1>7, <3>1
  <2>2. i \in Nat /\ i >= 1 /\ i <= n - 1 /\ n - (d - 1) = i + 1
    BY <1>1, <2>1
  <2> QED
    BY <1>1, <2>1, <2>2
<1>10. Forks[f][i + 1] = Forks[g][i + 1] /\ Forks[f][i] # Forks[g][i]
  BY <1>4, <1>5, <1>8, <1>9
<1> HIDE DEF i
<1>11. Forks[f][i].hash = Forks[g][i].hash
  BY <1>9, <1>10, LinkedAssumption
<1>12. Forks[f][i] \in Blocks /\ Forks[g][i] \in Blocks
  BY <1>9, ForksAre
<1> QED
  BY <1>10, <1>11, <1>12, BlocksAssumption

\* A block of the trunk is in every chain, at its height.
LEMMA TrunkIs ==
    ASSUME NEW b \in Trunk
    PROVE  /\ b \in Blocks /\ b.number \in Nat /\ b.number >= 1
           /\ \A f \in 1..Len(Forks) : b.number \in 1..Len(Forks[f]) /\ Forks[f][b.number] = b
<1>1. b \in Blocks /\ \A f \in 1..Len(Forks) : \E i \in 1..Len(Forks[f]) : Forks[f][i] = b
  BY DEF Trunk
<1>2. \A f \in 1..Len(Forks) : b.number \in 1..Len(Forks[f]) /\ Forks[f][b.number] = b
  <2> TAKE f \in 1..Len(Forks)
  <2>1. PICK i \in 1..Len(Forks[f]) : Forks[f][i] = b
    BY <1>1
  <2>2. Forks[f][i].number = i
    BY ForksAre
  <2> QED
    BY <2>1, <2>2
<1>3. b.number \in Nat
  BY <1>1, BlocksAssumption
<1>4. 1 \in 1..Len(Forks)
  BY ForksAssumption
<1>5. Len(Forks[1]) \in Nat
  BY <1>4, ForksAre
<1>6. b.number >= 1
  BY <1>2, <1>4, <1>5
<1> QED
  BY <1>1, <1>2, <1>3, <1>6

\* Its key is that of no other block of a chain.
LEMMA TrunkKey ==
    ASSUME NEW b \in Trunk, NEW c \in OnForks, Key(c) = Key(b)
    PROVE  c = b
<1>1. PICK f \in 1..Len(Forks) : c \in Elements(Forks[f])
  BY DEF OnForks
<1>2. PICK i \in 1..Len(Forks[f]) : c = Forks[f][i]
  BY <1>1 DEF Elements
<1>3. c.number = i
  BY <1>2, ForksAre
<1>4. c.number = b.number
  BY DEF Key
<1> QED
  BY <1>2, <1>3, <1>4, TrunkIs

LEMMA ForksAreOnForks ==
    ASSUME NEW f \in 1..Len(Forks), NEW i \in 1..Len(Forks[f])
    PROVE  Forks[f][i] \in OnForks
BY DEF OnForks, Elements

\* A rewrite never reaches the trunk.
LEMMA TrunkIsCommon ==
    ASSUME NEW f \in 1..Len(Forks), NEW g \in 1..Len(Forks), NEW c \in Common(f, g),
           \A d \in Common(f, g) : d <= c, NEW b \in Trunk
    PROVE  b.number <= c
<1> DEFINE n == b.number
<1>1. /\ n \in Nat /\ n >= 1 /\ n \in 1..Len(Forks[f]) /\ n \in 1..Len(Forks[g])
      /\ Forks[f][n] = b /\ Forks[g][n] = b
  BY TrunkIs
<1> HIDE DEF n
<1>2. Len(Forks[g]) \in Nat /\ Len(Forks[f]) \in Nat
  BY ForksAre
<1>3. n <= Len(Forks[g]) /\ n \in 0..Len(Forks[f]) /\ Forks[f][n] = Forks[g][n]
  BY <1>1, <1>2
<1>4. \A j \in 1..n : Forks[f][j] = Forks[g][j]
  BY <1>1, <1>3, SharedBelow
<1>5. n \in Common(f, g)
  BY <1>3, <1>4 DEF Common
<1> QED
  BY <1>5 DEF n

LEMMA TrunkInit == WssInit => LoopShape /\ TrunkInv
<1> SUFFICES ASSUME WssInit PROVE LoopShape /\ TrunkInv
  OBVIOUS
<1>1. FInv
  BY InitHolds DEF WssInit
<1>2. LoopShape
  BY <1>1 DEF FInv, FollowerTypeOK, StoreConsistent, LoopShape
<1>3. /\ pc = "poll" /\ queue = <<>> /\ drained = <<>> /\ since = {}
      /\ sent = [fork |-> 1, height |-> 0] /\ height \in Nat
  BY <1>1, Numbering DEF WssInit, Init
<1>4. Elements(<<>>) = {}
  BY DEF Elements
<1>5. sent.height <= height
  BY <1>3
<1> QED
  BY <1>2, <1>3, <1>4, <1>5 DEF TrunkInv, SentOnce, DrainedIsNew, NotAgain

LEMMA HeightIs ==
    ASSUME WssShape
    PROVE  /\ fork \in 1..Len(Forks) /\ height \in Nat /\ height >= 1 /\ Len(Forks[fork]) \in Nat
           /\ height <= Len(Forks[fork])
           /\ \A h \in 1..height : BlockAt(h) \in Blocks /\ BlockAt(h).number = h /\ BlockAt(h) \in OnForks
<1>1. fork \in 1..Len(Forks) /\ height \in 1..Len(Forks[fork])
  BY DEF WssShape
<1>2. Len(Forks[fork]) \in Nat
  BY <1>1, ForksAre
<1>3. \A h \in 1..height : h \in 1..Len(Forks[fork])
  BY <1>1, <1>2
<1> QED
  BY <1>1, <1>2, <1>3, ForksAre, ForksAreOnForks DEF BlockAt

\* Rolling back sets the cursor below a block of the ring, or below the report.
LEMMA RollbackShape ==
    ASSUME LoopShape, NEW n \in Nat, HandleReorgEvent(n)
    PROVE  /\ cursor' \in Nat /\ taken' \subseteq Blocks
           /\ current' \in Snapshot /\ ring' = ring
<1>1. Backfill \in Nat
  BY BackfillAssumption
<1>2. CASE AtOrBelow(n) # {}
  <2>1. /\ RollbackToSnapshotOf(n) /\ taken' = {}
        /\ cursor' = SaturatingSub(current'.block.number, Backfill)
    BY <1>2 DEF HandleReorgEvent
  <2>2. PICK i \in AtOrBelow(n) : current' = ring[i] /\ ring' = ring
    BY <2>1 DEF RollbackToSnapshotOf
  <2>3. ring[i] \in Snapshot /\ ring[i].block # NoBlock
    BY <2>2 DEF AtOrBelow, LoopShape
  <2>4. ring[i].block.number \in Nat
    BY <2>3, BlocksAssumption DEF Snapshot
  <2> QED
    BY <1>1, <2>1, <2>2, <2>3, <2>4, SaturatingSubIs
<1>3. CASE AtOrBelow(n) = {}
  <2>1. cursor' = SaturatingSub(n, Backfill) /\ UNCHANGED <<current, ring, taken>>
    BY <1>3 DEF HandleReorgEvent, storeVars
  <2> QED
    BY <1>1, <2>1, SaturatingSubIs DEF LoopShape
<1> QED
  BY <1>2, <1>3

LEMMA TipKnownShape ==
    ASSUME WssShape, LoopShape, NEW h \in 1..height, TipKnown(h)
    PROVE  LoopShape'
<1> DEFINE b == BlockAt(h)
<1>1. b \in Blocks /\ IInv
  BY HeightIs DEF LoopShape
<1>2. UpdateChain(b)
  BY DEF TipKnown
<1> HIDE DEF b
<1>3. IInv' /\ (event'.kind \in {"rollback", "detected"} => event'.to \in Nat)
  BY <1>1, <1>2, UpdateChainKeeps, UpdateTip
<1>4. CASE UNCHANGED <<storeVars, cursor, batch, taken>>
  BY <1>3, <1>4 DEF LoopShape, storeVars
<1>5. CASE event'.kind \in {"rollback", "detected"} /\ HandleReorgEvent(event'.to) /\ batch' = {}
  <2>1. event'.to \in Nat
    BY <1>3, <1>5
  <2>2. /\ cursor' \in Nat /\ taken' \subseteq Blocks
        /\ current' \in Snapshot /\ ring' = ring
    BY <1>5, <2>1, RollbackShape
  <2> QED
    BY <1>3, <1>5, <2>2 DEF LoopShape
<1> QED
  BY <1>4, <1>5 DEF TipKnown

LEMMA PublishShape ==
    ASSUME WssShape, LoopShape, RefreshPublishes
    PROVE  LoopShape'
<1> DEFINE now == current.seen \union taken \union batch
<1>1. PICK b \in {BlockAt(h) : h \in {i \in 1..height : Answered(i)}} \union {NoBlock} :
        Publish([id |-> current.id + 1, block |-> b, seen |-> now])
  BY DEF RefreshPublishes
<1>2. b \in Blocks \union {NoBlock}
  BY HeightIs
<1>3. now \subseteq Blocks /\ current.id + 1 \in Nat
  BY DEF LoopShape, Snapshot
<1> DEFINE s == [id |-> current.id + 1, block |-> b, seen |-> now]
<1> HIDE DEF now
<1>4. s \in Snapshot
  BY <1>2, <1>3 DEF Snapshot
<1>5. Publish(s)
  BY <1>1
<1> HIDE DEF s
<1>6. current' = s /\ ring' \in Seq(Snapshot) /\ Len(ring') <= MaxSnapshots
  BY <1>4, <1>5, PublishedRing DEF LoopShape
<1>7. batch' = {} /\ taken' = {} /\ cursor' = cursor /\ UNCHANGED detectorVars
  BY DEF RefreshPublishes
<1>8. IInv'
  BY <1>7, DetectorUntouched DEF LoopShape, detectorVars
<1> QED
  BY <1>4, <1>6, <1>7, <1>8 DEF LoopShape

\* A batch moves the cursor up to what was asked for.
LEMMA DeliverMoves ==
    ASSUME LoopShape, NEW logs \in Seq(Blocks), NEW latest \in Nat, Deliver(logs, latest)
    PROVE  /\ cursor' \in Nat /\ cursor' >= cursor /\ cursor' >= latest
           /\ batch' \subseteq Elements(logs) /\ batch' \subseteq Blocks
           /\ since' = since \union Keys(batch')
<1>1. cursor \in Nat /\ batch' = Deduped(logs) /\ since' = since \union Keys(batch')
      /\ cursor' = IF latest > cursor THEN latest ELSE cursor
  BY DEF Deliver, LoopShape
<1>2. Deduped(logs) \subseteq Elements(logs) /\ Elements(logs) \subseteq Blocks
  BY DEF Deduped, Elements
<1> QED
  BY <1>1, <1>2

\* What a reconciliation delivers are the blocks it asks for whose keys are not
\* remembered, and what the poll had taken.
LEMMA RangeIs ==
    ASSUME WssInv, ReconcileOk
    PROVE  \E logs \in Seq(Blocks) :
              /\ Deliver(logs, answer)
              /\ \A b \in Elements(logs) :
                    \/ b \in Elements(drained)
                    \/ /\ b \in OnForks /\ Key(b) \notin Elements(recent)
                       /\ b.number > reconciled /\ b.number <= Target(answer)
<1> DEFINE target == Target(answer)
           range == [i \in 1..(target - reconciled) |-> BlockAt(reconciled + i)]
           new == {b \in Blocks : Key(b) \notin Elements(recent)}
           unseen == Those(range, new)
           logs == unseen \o drained
<1>1. pc = "reconcile" /\ Deliver(logs, answer)
  BY DEF ReconcileOk
<1>2. /\ WssShape /\ fork \in 1..Len(Forks) /\ height \in Nat /\ height <= Len(Forks[fork])
      /\ answer \in 1..height /\ drained \in Seq(Blocks) /\ reconciled \in 0..height
  BY <1>1, HeightIs DEF WssInv, WssShape, MadeUp
<1>3. target \in Nat /\ target <= height
  BY <1>2, WssConstants DEF Target, SaturatingSub
<1> HIDE DEF target
<1>4. \A i \in 1..(target - reconciled) :
         /\ BlockAt(reconciled + i) \in Blocks /\ BlockAt(reconciled + i) \in OnForks
         /\ BlockAt(reconciled + i).number = reconciled + i
         /\ reconciled + i > reconciled /\ reconciled + i <= target
  <2> TAKE i \in 1..(target - reconciled)
  <2>1. reconciled + i \in 1..height /\ reconciled + i > reconciled /\ reconciled + i <= target
    BY <1>2, <1>3
  <2> QED
    BY <1>2, <2>1, HeightIs
<1>5. range \in Seq(Blocks) /\ \A b \in Elements(range) : \E i \in 1..(target - reconciled) : b = BlockAt(reconciled + i)
  <2>1. CASE target - reconciled \in Nat
    <3>1. range \in Seq(Blocks) /\ Len(range) = target - reconciled
      BY <1>4, <2>1
    <3> QED
      BY <3>1 DEF Elements
  <2>2. CASE target - reconciled \notin Nat
    <3>1. 1..(target - reconciled) = 1..0
      BY <1>2, <1>3, <2>2
    <3>2. range = <<>>
      BY <3>1
    <3> HIDE DEF range
    <3>3. Elements(<<>>) = {}
      BY DEF Elements
    <3> QED
      BY <3>2, <3>3, EmptyIs
  <2> QED
    BY <2>1, <2>2
<1> HIDE DEF range
<1>0. \A b \in new : Key(b) \notin Elements(recent)
  OBVIOUS
<1> HIDE DEF new
<1>6. unseen \in Seq(Blocks) /\ Elements(unseen) = Elements(range) \intersect new
  BY <1>5, ThoseAre
<1> HIDE DEF unseen
<1>7. logs \in Seq(Blocks) /\ \A b \in Elements(logs) : b \in Elements(unseen) \/ b \in Elements(drained)
  <2>1. logs \in Seq(Blocks) /\ Len(logs) = Len(unseen) + Len(drained)
    BY <1>2, <1>6
  <2>2. \A i \in 1..Len(logs) :
           \/ i \in 1..Len(unseen) /\ logs[i] = unseen[i]
           \/ i - Len(unseen) \in 1..Len(drained) /\ logs[i] = drained[i - Len(unseen)]
    BY <1>2, <1>6
  <2> HIDE DEF logs
  <2> QED
    BY <2>1, <2>2 DEF Elements
<1> HIDE DEF logs
<1>8. \A b \in Elements(unseen) :
         /\ b \in OnForks /\ Key(b) \notin Elements(recent)
         /\ b.number > reconciled /\ b.number <= target
  <2> TAKE b \in Elements(unseen)
  <2>1. b \in Elements(range) /\ Key(b) \notin Elements(recent)
    BY <1>0, <1>6
  <2>2. PICK i \in 1..(target - reconciled) : b = BlockAt(reconciled + i)
    BY <1>5, <2>1
  <2> QED
    BY <1>4, <2>1, <2>2
<1> QED
  BY <1>1, <1>7, <1>8 DEF target

LEMMA PollShape ==
    ASSUME WssInv, LoopShape,
           \/ \E latest \in 1..height : StartReconcile(latest) \/ PollStream(latest)
           \/ ReconcileOk \/ ReconcileFails
    PROVE  LoopShape'
<1>1. UNCHANGED <<historyVars, storeVars, taken>> /\ (event' = event \/ event' = NoEvent)
  BY DEF StartReconcile, PollStream, ReconcileOk, ReconcileFails, detectorVars
<1>2. IInv'
  BY <1>1, DetectorUntouched DEF LoopShape
<1>3. cursor' \in Nat /\ batch' \subseteq Blocks
  <2>1. CASE UNCHANGED <<cursor, batch>>
    BY <2>1 DEF LoopShape
  <2>2. CASE \E latest \in 1..height : PollStream(latest)
    <3>1. PICK latest \in 1..height : PollStream(latest)
      BY <2>2
    <3>2. latest \in Nat /\ Deliver(AboveCursor(Queued), latest)
      BY <3>1, HeightIs DEF PollStream, WssInv
    <3>3. AboveCursor(Queued) \in Seq(Blocks)
      BY QueuedIs DEF WssInv
    <3> QED
      BY <3>2, <3>3, DeliverMoves
  <2>3. CASE ReconcileOk
    <3>1. PICK logs \in Seq(Blocks) : Deliver(logs, answer)
      BY <2>3, RangeIs
    <3>2. answer \in Nat
      BY <2>3, HeightIs DEF ReconcileOk, WssInv, WssShape
    <3> QED
      BY <3>1, <3>2, DeliverMoves
  <2> QED
    BY <2>1, <2>2, <2>3 DEF StartReconcile, ReconcileFails
<1> QED
  BY <1>1, <1>2, <1>3 DEF LoopShape, storeVars

LEMMA RestShape ==
    ASSUME WssShape, LoopShape, Rest \/ (Stop /\ UNCHANGED <<streamVars, ingestVars>>)
    PROVE  LoopShape'
<1>1. CASE TipUnknown \/ RefreshChangesNothing \/ Process \/ Stop
  <2>1. UNCHANGED <<detectorVars, storeVars, cursor>> /\ batch' \subseteq Blocks /\ taken' \subseteq Blocks
    BY <1>1 DEF TipUnknown, RefreshChangesNothing, Process, Stop, LoopShape
  <2>2. IInv'
    BY <2>1, DetectorUntouched DEF LoopShape, detectorVars
  <2> QED
    BY <2>1, <2>2 DEF LoopShape, storeVars
<1>2. CASE \E h \in 1..height : TipKnown(h)
  BY <1>2, TipKnownShape
<1>3. CASE RefreshPublishes
  BY <1>3, PublishShape
<1> QED
  BY <1>1, <1>2, <1>3 DEF Rest

\* The stream and the loop move, and what is new stays new.
LEMMA ConnectedKeeps ==
    ASSUME WssInv, LoopShape, TrunkInv, Connected \/ Disconnected
    PROVE  TrunkInv'
<1>1. /\ UNCHANGED <<queue, drained, since, recent, reconciled, cursor, pc, answer, height>>
      /\ sent.height \in Nat /\ height \in Nat /\ sent.height <= height
      /\ sent'.height = sent.height \/ sent'.height = height
  <2>1. WssShape
    BY DEF WssInv
  <2> QED
    BY <2>1, HeightIs DEF Connected, Disconnected, vars, chainVars, ingestVars, WssShape, TrunkInv, SentOnce
<1>2. sent'.height \in Nat /\ sent.height <= sent'.height /\ sent'.height <= height'
  BY <1>1
<1>3. \A b \in Trunk : b.number \in Nat /\ (b.number <= sent.height => b.number <= sent'.height)
  BY <1>1, <1>2, TrunkIs
<1>4. SentOnce'
  BY <1>1, <1>2, <1>3 DEF TrunkInv, SentOnce
<1>5. \A b : Remembered(b)' <=> Remembered(b)
  BY <1>1 DEF Remembered
<1>6. DrainedIsNew'
  BY <1>1, <1>3, <1>5 DEF TrunkInv, DrainedIsNew, Target, Key
<1>7. NotAgain'
  BY <1>1, <1>3, <1>5 DEF TrunkInv, NotAgain, Key
<1> QED
  BY <1>4, <1>6, <1>7 DEF TrunkInv

LEMMA SendsKeeps ==
    ASSUME WssInv, LoopShape, TrunkInv, Sends
    PROVE  TrunkInv'
<1> DEFINE n == sent.height + 1
           c == BlockAt(n)
<1>1. /\ UNCHANGED <<drained, since, recent, reconciled, cursor, pc, answer, height>>
      /\ queue' = Append(queue, c) /\ sent' = [sent EXCEPT !.height = @ + 1]
      /\ sent.height < height /\ WssShape
  BY DEF Sends, vars, chainVars, ingestVars, WssInv
<1>2. /\ sent.height \in Nat /\ height \in Nat /\ sent'.height = n /\ n \in 1..height
      /\ queue \in Seq(Blocks)
  <2>1. sent.height \in Nat /\ height \in Nat /\ queue \in Seq(Blocks)
    BY <1>1, HeightIs DEF WssShape
  <2>2. sent'.height = n
    BY <1>1 DEF WssShape
  <2> QED
    BY <1>1, <2>1, <2>2
<1>3. c \in Blocks /\ c.number = n /\ c \in OnForks
  BY <1>1, <1>2, HeightIs
<1> HIDE DEF c
<1>4. Elements(queue') = Elements(queue) \union {c}
  <2>1. /\ Len(queue') = Len(queue) + 1 /\ queue'[Len(queue) + 1] = c
        /\ \A i \in 1..Len(queue) : queue'[i] = queue[i]
    BY <1>1, <1>2, <1>3
  <2>2. Len(queue) \in Nat
    BY <1>2
  <2> QED
    BY <2>1, <2>2 DEF Elements
<1>5. \A b \in Trunk : b.number \in Nat /\ (b.number <= sent.height => b.number <= n /\ b # c)
  BY <1>2, <1>3, TrunkIs
<1> HIDE DEF n
<1>6. SentOnce'
  <2>1. \A b \in Trunk : b \in Elements(queue') => b.number <= n
    <3> TAKE b \in Trunk
    <3>1. CASE b = c
      BY <1>2, <1>3, <3>1
    <3>2. CASE b \in Elements(queue)
      BY <1>5, <3>2 DEF TrunkInv, SentOnce
    <3> QED
      BY <1>4, <3>1, <3>2
  <2>2. n <= height'
    BY <1>1, <1>2
  <2>3. Elements(queue') \subseteq OnForks
    BY <1>3, <1>4 DEF TrunkInv, SentOnce
  <2> QED
    BY <1>1, <1>2, <2>1, <2>2, <2>3 DEF TrunkInv, SentOnce
<1>7. \A b : Remembered(b)' <=> Remembered(b)
  BY <1>1 DEF Remembered
<1>8. DrainedIsNew'
  BY <1>1, <1>2, <1>4, <1>5, <1>7 DEF TrunkInv, DrainedIsNew, Target, Key
<1>9. NotAgain'
  BY <1>1, <1>2, <1>4, <1>5, <1>7 DEF TrunkInv, NotAgain, Key
<1> QED
  BY <1>6, <1>8, <1>9 DEF TrunkInv

LEMMA RetractsKeeps ==
    ASSUME WssInv, LoopShape, TrunkInv, Retracts
    PROVE  TrunkInv'
<1> DEFINE f == sent.fork
<1>1. /\ UNCHANGED <<drained, since, recent, reconciled, cursor, pc, answer, height, fork>>
      /\ WssShape
  BY DEF Retracts, vars, chainVars, ingestVars, WssInv
<1>2. /\ fork \in 1..Len(Forks) /\ height \in Nat /\ queue \in Seq(Blocks)
      /\ f \in 1..Len(Forks) /\ sent.height \in Nat /\ sent.height <= Len(Forks[f])
  <2>1. fork \in 1..Len(Forks) /\ sent \in [fork: 1..fork, height: Nat] /\ Len(Forks) \in Nat
    BY <1>1, WssConstants DEF WssShape
  <2> QED
    BY <1>1, <2>1, HeightIs DEF WssShape
<1>3. PICK c \in Common(f, fork) :
        /\ \A d \in Common(f, fork) : d <= c
        /\ queue' = queue \o SubSeq(Forks[f], c + 1, sent.height)
        /\ sent' = [fork |-> fork, height |-> IF c < sent.height THEN c ELSE sent.height]
  BY DEF Retracts
<1>4. c \in Nat /\ Forks[f] \in Seq(Blocks) /\ Len(Forks[f]) \in Nat
  BY <1>2, ForksAre DEF Common
<1>5. \A b \in Trunk : b.number \in Nat /\ b.number <= c
  BY <1>2, <1>3, TrunkIsCommon, TrunkIs
<1> DEFINE gone == SubSeq(Forks[f], c + 1, sent.height)
<1>6. gone \in Seq(Blocks) /\ \A e \in Elements(gone) : e \in OnForks /\ e.number > c
  <2>1. \A i \in (c + 1)..sent.height :
           Forks[f][i] \in Blocks /\ Forks[f][i] \in OnForks /\ Forks[f][i].number > c
    <3> TAKE i \in (c + 1)..sent.height
    <3>1. i \in 1..Len(Forks[f]) /\ i > c
      BY <1>2, <1>4
    <3> QED
      BY <1>2, <3>1, ForksAre, ForksAreOnForks
  <2>2. CASE c < sent.height
    <3>1. /\ gone \in Seq(Blocks) /\ Len(gone) = sent.height - c
          /\ \A i \in 1..(sent.height - c) : gone[i] = Forks[f][c + i]
      <4>1. Forks[f] \in Seq(Blocks) /\ sent.height \in Nat /\ sent.height <= Len(Forks[f])
        BY <1>2, <1>4
      <4> HIDE DEF f
      <4> QED
        BY <1>4, <2>2, <4>1, PartOf
    <3> HIDE DEF gone
    <3>2. \A i \in 1..(sent.height - c) : c + i \in (c + 1)..sent.height
      BY <1>2, <1>4
    <3> QED
      BY <2>1, <3>1, <3>2 DEF Elements
  <2>3. CASE ~ (c < sent.height)
    <3>1. gone = <<>>
      BY <1>2, <1>4, <2>3
    <3> HIDE DEF gone
    <3>2. Elements(<<>>) = {}
      BY DEF Elements
    <3> QED
      BY <3>1, <3>2, EmptyIs
  <2> QED
    BY <2>2, <2>3
<1>7. Elements(queue') \subseteq Elements(queue) \union Elements(gone)
  <2>1. queue' = queue \o gone
    BY <1>3
  <2> HIDE DEF gone
  <2>2. Len(queue') = Len(queue) + Len(gone)
    BY <1>2, <1>6, <2>1
  <2>3. \A i \in 1..Len(queue') :
           \/ i \in 1..Len(queue) /\ queue'[i] = queue[i]
           \/ i - Len(queue) \in 1..Len(gone) /\ queue'[i] = gone[i - Len(queue)]
    BY <1>2, <1>6, <2>1, PutTogether
  <2> QED
    BY <2>3 DEF Elements
<1> HIDE DEF gone, f
<1>8. \A b \in Trunk : b \in Elements(queue') => b \in Elements(queue)
  BY <1>4, <1>5, <1>6, <1>7
<1>9. /\ sent'.height \in Nat /\ sent'.height <= height'
      /\ \A b \in Trunk : b.number <= sent.height => b.number <= sent'.height
  <2>1. sent.height <= height
    BY DEF TrunkInv, SentOnce
  <2>2. sent'.height = IF c < sent.height THEN c ELSE sent.height
    BY <1>3
  <2> QED
    BY <1>1, <1>2, <1>4, <1>5, <2>1, <2>2
<1>10. SentOnce'
  BY <1>1, <1>6, <1>7, <1>8, <1>9 DEF TrunkInv, SentOnce
<1>11. \A b : Remembered(b)' <=> Remembered(b)
  BY <1>1 DEF Remembered
<1>12. DrainedIsNew'
  BY <1>1, <1>8, <1>9, <1>11 DEF TrunkInv, DrainedIsNew, Target, Key
<1>13. NotAgain'
  BY <1>1, <1>8, <1>9, <1>11 DEF TrunkInv, NotAgain, Key
<1> QED
  BY <1>10, <1>12, <1>13 DEF TrunkInv

\* The canonical chain is not what the invariant is about.
LEMMA ChainMovesKeep ==
    ASSUME WssInv, LoopShape, TrunkInv, Grow \/ Reorganise, UNCHANGED <<streamVars, ingestVars>>
    PROVE  LoopShape' /\ TrunkInv'
<1>1. /\ UNCHANGED <<queue, sent, drained, since, recent, reconciled, answer>>
      /\ UNCHANGED <<detectorVars, storeVars, pc, cursor, batch, taken>>
      /\ WssShape
  BY DEF Grow, Reorganise, streamVars, ingestVars, WssInv
<1>2. height <= height' /\ height \in Nat /\ sent.height \in Nat
  BY <1>1, ChainKeepsShape, HeightIs DEF WssShape
<1>3. height' \in Nat
  <2>1. WssShape'
    BY <1>1, ChainKeepsShape
  <2>2. fork' \in 1..Len(Forks) /\ height' \in 1..Len(Forks[fork'])
    BY <2>1 DEF WssShape
  <2> QED
    BY <2>2, ForksAre
<1>4. LoopShape'
  <2>1. IInv'
    BY <1>1, DetectorUntouched DEF LoopShape, detectorVars
  <2> QED
    BY <1>1, <2>1 DEF LoopShape, storeVars
<1>5. SentOnce'
  <2>1. sent'.height <= height'
    BY <1>1, <1>2, <1>3 DEF TrunkInv, SentOnce
  <2> QED
    BY <1>1, <2>1 DEF TrunkInv, SentOnce
<1>6. \A b : Remembered(b)' <=> Remembered(b)
  BY <1>1 DEF Remembered
<1>7. DrainedIsNew' /\ NotAgain'
  BY <1>1, <1>6 DEF TrunkInv, DrainedIsNew, NotAgain, Target, Key
<1> QED
  BY <1>4, <1>5, <1>7 DEF TrunkInv

\* Where the cursor goes back, what was delivered no longer counts.
LEMMA RestKeepsTrunk ==
    ASSUME WssInv, LoopShape, LoopShape', TrunkInv,
           Rest \/ (Stop /\ UNCHANGED <<streamVars, ingestVars>>)
    PROVE  TrunkInv' /\ (pc = "tip" \/ pc' # "tip")
<1>1. /\ pc \in {"tip", "refresh", "process"} /\ pc' # "reconcile" /\ (pc = "tip" \/ pc' # "tip")
      /\ UNCHANGED <<queue, sent, height, drained, recent, reconciled>>
  <2>1. CASE TipUnknown /\ Rest
    BY <2>1 DEF TipUnknown, GoOn, Rest, streamVars, chainVars
  <2>2. CASE (\E h \in 1..height : TipKnown(h)) /\ Rest
    BY <2>2 DEF TipKnown, GoOn, Rest, streamVars, chainVars
  <2>3. CASE RefreshPublishes /\ Rest
    BY <2>3 DEF RefreshPublishes, Rest, streamVars, chainVars
  <2>4. CASE RefreshChangesNothing /\ Rest
    BY <2>4 DEF RefreshChangesNothing, Rest, streamVars, chainVars
  <2>5. CASE Process /\ Rest
    BY <2>5 DEF Process, Rest, streamVars, chainVars
  <2>6. CASE Stop /\ UNCHANGED <<streamVars, ingestVars>>
    BY <2>6 DEF Stop, streamVars, ingestVars, chainVars
  <2> QED
    BY <2>1, <2>2, <2>3, <2>4, <2>5, <2>6 DEF Rest
<1>2. since' = {} \/ (since' = since /\ cursor <= cursor')
  <2>1. cursor \in Nat /\ cursor' \in Nat
    BY DEF LoopShape
  <2>2. CASE Rest
    BY <2>1, <2>2 DEF Rest
  <2>3. CASE Stop /\ UNCHANGED <<streamVars, ingestVars>>
    BY <2>1, <2>3 DEF Stop, ingestVars
  <2> QED
    BY <2>2, <2>3
<1>3. drained = <<>> /\ Elements(<<>>) = {}
  BY <1>1 DEF WssInv, WssShape, Elements
<1>4. SentOnce'
  BY <1>1 DEF TrunkInv, SentOnce
<1>5. DrainedIsNew'
  BY <1>1, <1>3 DEF DrainedIsNew
<1>6. \A b : Remembered(b)' <=> Remembered(b)
  BY <1>1 DEF Remembered
<1>7. NotAgain'
  <2>1. CASE since' = {}
    BY <2>1 DEF NotAgain
  <2>2. CASE since' = since /\ cursor <= cursor'
    <3>1. \A b \in Trunk : b.number <= cursor => b.number <= cursor'
      BY <2>2, TrunkIs DEF LoopShape
    <3> QED
      BY <1>1, <1>6, <2>2, <3>1 DEF TrunkInv, NotAgain, Key
  <2> QED
    BY <1>2, <2>1, <2>2
<1> QED
  BY <1>1, <1>4, <1>5, <1>7 DEF TrunkInv

\* What a poll takes has been in the queue and is above the cursor: it is new.
LEMMA TakenIsNew ==
    ASSUME WssInv, LoopShape, TrunkInv
    PROVE  /\ Elements(AboveCursor(Queued)) \subseteq Elements(queue)
           /\ \A b \in Trunk : b \in Elements(AboveCursor(Queued)) =>
                 Key(b) \notin since /\ b.number <= sent.height
<1>1. queue \in Seq(Blocks)
  BY DEF WssInv, WssShape
<1> DEFINE above == {b \in Blocks : b.number > cursor}
<1>2. \A b \in above : b.number > cursor
  OBVIOUS
<1> HIDE DEF above
<1>3. Queued \in Seq(Blocks) /\ Elements(Queued) \subseteq Elements(queue)
  BY <1>1, EmptyIs DEF Queued, Elements
<1>4. Elements(AboveCursor(Queued)) = Elements(Queued) \intersect above
  BY <1>3, ThoseAre DEF AboveCursor, above
<1>5. \A b \in Trunk : b \in Elements(AboveCursor(Queued)) =>
         Key(b) \notin since /\ b.number <= sent.height
  <2> SUFFICES ASSUME NEW b \in Trunk, b \in Elements(AboveCursor(Queued))
               PROVE  Key(b) \notin since /\ b.number <= sent.height
    OBVIOUS
  <2>1. b \in Elements(queue) /\ b.number > cursor
    BY <1>2, <1>3, <1>4
  <2>2. ~ (b.number <= cursor)
    BY <2>1, TrunkIs DEF LoopShape
  <2> QED
    BY <2>1, <2>2 DEF TrunkInv, SentOnce, NotAgain
<1> QED
  BY <1>3, <1>4, <1>5

\* A poll forgets nothing a reconciliation will ask for.
LEMMA PollRemembers ==
    ASSUME WssInv, pc = "poll", pc' \in {"tip", "reconcile"}, reconciled' = LastReconciled,
           RemembersUnreconciled
    PROVE  \A b \in Trunk : Remembered(b) \/ b \in Elements(AboveCursor(Queued)) => Remembered(b)'
<1>1. LastReconciled \in Nat /\ (reconciled = LastReconciled \/ reconciled = -1)
  <2>1. height \in Nat
    BY HeightIs DEF WssInv
  <2> QED
    BY <2>1, LastReconciledIs DEF LastReconciled, NotYet
<1> SUFFICES ASSUME NEW b \in Trunk, Remembered(b) \/ b \in Elements(AboveCursor(Queued))
             PROVE  Remembered(b)'
  OBVIOUS
<1>2. b.number \in Nat /\ Key(b)[1] = b.number
  BY TrunkIs DEF Key
<1>3. CASE b.number <= reconciled
  BY <1>1, <1>2, <1>3 DEF Remembered
<1>4. CASE Key(b) \in Elements(recent) \union Keys(Elements(AboveCursor(Queued)))
  <2>1. Key(b) \in Elements(recent') \/ Key(b)[1] <= reconciled'
    BY <1>4, Zenon DEF RemembersUnreconciled
  <2> QED
    BY <1>2, <2>1 DEF Remembered, Key
<1> QED
  BY <1>3, <1>4 DEF Remembered, Keys

LEMMA StartReconcileKeepsTrunk ==
    ASSUME WssInv, LoopShape, TrunkInv, NEW latest \in 1..height, StartReconcile(latest),
           RemembersUnreconciled
    PROVE  TrunkInv'
<1> DEFINE logs == AboveCursor(Queued)
<1>1. /\ pc = "poll" /\ pc' = "reconcile" /\ drained' = logs
      /\ reconciled' = LastReconciled /\ answer' = latest /\ queue' = <<>>
      /\ Target(latest) > LastReconciled
      /\ UNCHANGED <<sent, height, since, cursor>>
  BY DEF StartReconcile, StartWss, chainVars
<1>2. /\ Elements(logs) \subseteq Elements(queue)
      /\ \A b \in Trunk : b \in Elements(logs) => Key(b) \notin since /\ b.number <= sent.height
  BY TakenIsNew
<1>3. \A b \in Trunk : Remembered(b) \/ b \in Elements(logs) => Remembered(b)'
  BY <1>1, PollRemembers
<1>4. Elements(queue') = {}
  BY <1>1 DEF Elements
<1> HIDE DEF logs
<1>5. SentOnce'
  BY <1>1, <1>2, <1>4 DEF TrunkInv, SentOnce
<1>6. DrainedIsNew'
  <2>1. reconciled' < Target(answer)'
    <3>1. LastReconciled \in Int /\ latest \in Nat
      BY <1>1, LastReconciledIs, HeightIs DEF WssInv
    <3>2. Target(latest) \in Int
      BY <3>1, WssConstants DEF Target, SaturatingSub
    <3>3. Target(answer)' = Target(latest)
      BY <1>1 DEF Target, SaturatingSub
    <3> QED
      BY <1>1, <3>1, <3>2, <3>3
  <2> QED
    BY <1>1, <1>2, <1>3, <1>4, <2>1 DEF DrainedIsNew, Key
<1>7. NotAgain'
  BY <1>1, <1>3, <1>4 DEF TrunkInv, NotAgain, Key
<1> QED
  BY <1>5, <1>6, <1>7 DEF TrunkInv

\* The keys of a batch that are of the trunk are those of its blocks.
LEMMA BatchKeys ==
    ASSUME NEW S \in SUBSET OnForks, NEW b \in Trunk, Key(b) \in Keys(S)
    PROVE  b \in S
BY TrunkKey DEF Keys

LEMMA PollStreamKeepsTrunk ==
    ASSUME WssInv, LoopShape, TrunkInv, NEW latest \in 1..height, PollStream(latest)
    PROVE  /\ NewInBatch
           /\ RemembersUnreconciled => TrunkInv'
<1> DEFINE logs == AboveCursor(Queued)
<1>1. /\ pc = "poll" /\ pc' = "tip" /\ Deliver(logs, latest) /\ drained' = <<>>
      /\ reconciled' = LastReconciled /\ queue' = <<>>
      /\ UNCHANGED <<sent, height>>
  BY DEF PollStream, StartWss, chainVars, Deliver
<1>2. /\ Elements(logs) \subseteq Elements(queue) /\ Elements(queue) \subseteq OnForks
      /\ \A b \in Trunk : b \in Elements(logs) => Key(b) \notin since /\ b.number <= sent.height
  BY TakenIsNew DEF TrunkInv, SentOnce
<1>3. logs \in Seq(Blocks) /\ latest \in Nat
  BY QueuedIs, HeightIs DEF WssInv
<1>4. RemembersUnreconciled => \A b \in Trunk : Remembered(b) \/ b \in Elements(logs) => Remembered(b)'
  BY <1>1, PollRemembers
<1>5. Elements(queue') = {} /\ Elements(drained') = {}
  BY <1>1 DEF Elements
<1> HIDE DEF logs
<1>6. /\ cursor' \in Nat /\ cursor \in Nat /\ cursor <= cursor'
      /\ batch' \subseteq Elements(logs) /\ since' = since \union Keys(batch')
  BY <1>1, <1>3, DeliverMoves DEF LoopShape
<1>7. NewInBatch
  BY <1>2, <1>6 DEF NewInBatch
<1>8. SentOnce'
  BY <1>1, <1>5 DEF TrunkInv, SentOnce
<1>9. DrainedIsNew'
  BY <1>1, <1>5 DEF DrainedIsNew
<1>10. RemembersUnreconciled => NotAgain'
  <2> SUFFICES ASSUME RemembersUnreconciled, NEW b \in Trunk, Key(b) \in since'
               PROVE  (b.number <= cursor' \/ b.number <= sent'.height) /\ Remembered(b)'
    BY <1>5 DEF NotAgain, Key
  <2>1. CASE Key(b) \in since
    <3>1. Remembered(b) /\ (b.number <= cursor \/ b.number <= sent.height)
      BY <2>1 DEF TrunkInv, NotAgain
    <3>2. b.number <= cursor => b.number <= cursor'
      BY <1>6, TrunkIs
    <3> QED
      BY <1>1, <1>4, <3>1, <3>2
  <2>2. CASE Key(b) \in Keys(batch')
    <3>1. b \in Elements(logs)
      BY <1>2, <1>6, <2>2, BatchKeys
    <3> QED
      BY <1>1, <1>2, <1>4, <3>1
  <2> QED
    BY <1>6, <2>1, <2>2
<1> QED
  BY <1>7, <1>8, <1>9, <1>10 DEF TrunkInv

LEMMA ReconcileOkKeepsTrunk ==
    ASSUME WssInv, LoopShape, TrunkInv, ReconcileOk
    PROVE  NewInBatch /\ TrunkInv'
<1> DEFINE target == Target(answer)
<1>1. /\ pc = "reconcile" /\ pc' = "tip" /\ drained' = <<>> /\ reconciled' = target
      /\ UNCHANGED <<queue, sent, height, recent>>
  BY DEF ReconcileOk, Deliver, streamVars, chainVars
<1>2. PICK logs \in Seq(Blocks) :
        /\ Deliver(logs, answer)
        /\ \A b \in Elements(logs) :
              \/ b \in Elements(drained)
              \/ /\ b \in OnForks /\ Key(b) \notin Elements(recent)
                 /\ b.number > reconciled /\ b.number <= target
  BY RangeIs
<1>3. /\ answer \in Nat /\ target \in Nat /\ target <= answer /\ reconciled \in Nat /\ reconciled < target
  <2>1. height \in Nat /\ answer \in 1..height /\ reconciled \in 0..height
    BY <1>1, HeightIs DEF WssInv, WssShape, MadeUp
  <2>2. reconciled < target
    BY <1>1 DEF TrunkInv, DrainedIsNew
  <2> QED
    BY <2>1, <2>2, WssConstants DEF Target, SaturatingSub
<1> HIDE DEF target
<1>4. /\ cursor' \in Nat /\ cursor \in Nat /\ cursor <= cursor' /\ answer <= cursor'
      /\ batch' \subseteq Elements(logs) /\ since' = since \union Keys(batch')
  BY <1>2, <1>3, DeliverMoves DEF LoopShape
<1>5. Elements(logs) \subseteq OnForks
  BY <1>2 DEF TrunkInv, SentOnce
<1>6. \A b \in Trunk : b \in Elements(logs) =>
         /\ Key(b) \notin since
         /\ b.number <= target \/ (b \in Elements(drained))
  <2> SUFFICES ASSUME NEW b \in Trunk, b \in Elements(logs)
               PROVE  /\ Key(b) \notin since
                      /\ b.number <= target \/ (b \in Elements(drained))
    OBVIOUS
  <2>1. CASE b \in Elements(drained)
    BY <2>1 DEF TrunkInv, DrainedIsNew
  <2>2. CASE Key(b) \notin Elements(recent) /\ b.number > reconciled /\ b.number <= target
    <3>1. ~ (b.number <= reconciled)
      BY <1>3, <2>2, TrunkIs
    <3>2. ~ Remembered(b)
      BY <2>2, <3>1 DEF Remembered
    <3> QED
      BY <2>2, <3>2 DEF TrunkInv, NotAgain
  <2> QED
    BY <1>2, <2>1, <2>2
<1>7. NewInBatch
  BY <1>4, <1>6 DEF NewInBatch
<1>8. Elements(drained') = {}
  BY <1>1 DEF Elements
<1>9. SentOnce'
  BY <1>1, <1>8 DEF TrunkInv, SentOnce
<1>10. DrainedIsNew'
  BY <1>1, <1>8 DEF DrainedIsNew
<1>11. \A b \in Trunk : Remembered(b) => Remembered(b)'
  BY <1>1, <1>3, TrunkIs DEF Remembered, Key
<1>12. NotAgain'
  <2> SUFFICES ASSUME NEW b \in Trunk, Key(b) \in since'
               PROVE  /\ b.number <= cursor' \/ (b \notin Elements(queue) /\ b.number <= sent.height)
                      /\ Remembered(b)'
    BY <1>1 DEF NotAgain, Key
  <2>1. CASE Key(b) \in since
    <3>1. /\ Remembered(b)
          /\ b.number <= cursor \/ (b \notin Elements(queue) /\ b.number <= sent.height)
      BY <2>1 DEF TrunkInv, NotAgain
    <3>2. b.number <= cursor => b.number <= cursor'
      BY <1>4, TrunkIs
    <3> QED
      BY <1>11, <3>1, <3>2
  <2>2. CASE b \in Elements(drained)
    BY <1>11, <2>2 DEF TrunkInv, DrainedIsNew
  <2>3. CASE b.number <= target
    <3>1. b.number <= cursor'
      BY <1>3, <1>4, <2>3, TrunkIs
    <3>2. Remembered(b)'
      BY <1>1, <2>3 DEF Remembered
    <3> QED
      BY <3>1, <3>2
  <2>4. Key(b) \in Keys(batch') => b \in Elements(logs)
    BY <1>4, <1>5, BatchKeys
  <2> QED
    BY <1>4, <1>6, <2>1, <2>2, <2>3, <2>4
<1> QED
  BY <1>7, <1>9, <1>10, <1>12 DEF TrunkInv

LEMMA ReconcileFailsKeepsTrunk ==
    ASSUME TrunkInv, ReconcileFails
    PROVE  TrunkInv'
<1>1. /\ pc' = "poll" /\ drained' = <<>>
      /\ UNCHANGED <<queue, sent, height, recent, reconciled, since, cursor>>
  BY DEF ReconcileFails, streamVars, chainVars
<1>2. Elements(drained') = {}
  BY <1>1 DEF Elements
<1>3. \A b : Remembered(b)' <=> Remembered(b)
  BY <1>1 DEF Remembered
<1>4. SentOnce'
  BY <1>1, <1>2 DEF TrunkInv, SentOnce
<1>5. DrainedIsNew'
  BY <1>1, <1>2 DEF DrainedIsNew
<1>6. NotAgain'
  BY <1>1, <1>3 DEF TrunkInv, NotAgain, Key
<1> QED
  BY <1>4, <1>5, <1>6 DEF TrunkInv

LEMMA LoopShapeKeeps ==
    ASSUME WssInv, LoopShape, TrunkInv, [WssNext]_wssVars
    PROVE  LoopShape'
<1>1. WssShape
  BY DEF WssInv
<1>2. CASE StartsReconcile \/ PollsStream \/ ReconcileOk \/ ReconcileFails
  BY <1>2, PollShape DEF StartsReconcile, PollsStream
<1>3. CASE Rest \/ (Stop /\ UNCHANGED <<streamVars, ingestVars>>)
  BY <1>1, <1>3, RestShape
<1>4. CASE (Grow \/ Reorganise) /\ UNCHANGED <<streamVars, ingestVars>>
  BY <1>4, ChainMovesKeep
<1>5. CASE Connected \/ Sends \/ Retracts \/ Disconnected \/ UNCHANGED wssVars
  <2>1. UNCHANGED <<detectorVars, storeVars, cursor, batch, taken>>
    BY <1>5 DEF Connected, Sends, Retracts, Disconnected, wssVars, vars
  <2>2. IInv'
    BY <2>1, DetectorUntouched DEF LoopShape, detectorVars
  <2> QED
    BY <2>1, <2>2 DEF LoopShape, storeVars
<1> QED
  BY <1>2, <1>3, <1>4, <1>5 DEF WssNext, WssLoop

\* The log of a block that is never replaced reaches the batches at most once
\* between two rollbacks of the cursor, however the stream, the retractions and the
\* reconciliations interleave (poll_wss_hybrid): as long as recent_wss_logs is large
\* enough to forget nothing that a later reconciliation asks for.
THEOREM DeliveredOnce == WssSpec /\ [][RemembersUnreconciled]_wssVars => TrunkDeliveredOnce
<1>1. WssInit => LoopShape /\ TrunkInv
  BY TrunkInit
<1>2. /\ WssInv /\ LoopShape /\ TrunkInv /\ [WssNext]_wssVars /\ [RemembersUnreconciled]_wssVars
      => LoopShape' /\ TrunkInv'
  <2> SUFFICES ASSUME WssInv, LoopShape, TrunkInv, [WssNext]_wssVars,
                      [RemembersUnreconciled]_wssVars
               PROVE  TrunkInv'
    BY LoopShapeKeeps
  <2>1. LoopShape'
    BY LoopShapeKeeps
  <2>2. CASE UNCHANGED wssVars
    <3>1. UNCHANGED <<pc, cursor, queue, sent, height, recent, reconciled, drained, answer, since>>
      BY <2>2 DEF wssVars, vars, chainVars, streamVars, ingestVars
    <3> QED
      BY <3>1 DEF TrunkInv, SentOnce, DrainedIsNew, NotAgain, Remembered, Target, Key
  <2>3. CASE RemembersUnreconciled /\ StartsReconcile
    BY <2>3, StartReconcileKeepsTrunk DEF StartsReconcile
  <2>4. CASE RemembersUnreconciled /\ PollsStream
    BY <2>4, PollStreamKeepsTrunk DEF PollsStream
  <2>5. CASE ReconcileOk
    BY <2>5, ReconcileOkKeepsTrunk
  <2>6. CASE ReconcileFails
    BY <2>6, ReconcileFailsKeepsTrunk
  <2>7. CASE Rest \/ (Stop /\ UNCHANGED <<streamVars, ingestVars>>)
    BY <2>1, <2>7, RestKeepsTrunk
  <2>8. CASE (Grow \/ Reorganise) /\ UNCHANGED <<streamVars, ingestVars>>
    BY <2>8, ChainMovesKeep
  <2>9. CASE Connected \/ Sends \/ Retracts \/ Disconnected
    BY <2>9, ConnectedKeeps, SendsKeeps, RetractsKeeps
  <2> QED
    BY <2>2, <2>3, <2>4, <2>5, <2>6, <2>7, <2>8, <2>9 DEF WssNext, WssLoop
<1>3. WssInv /\ LoopShape /\ TrunkInv /\ [WssNext]_wssVars => [NewInBatch]_wssVars
  <2> SUFFICES ASSUME WssInv, LoopShape, TrunkInv, [WssNext]_wssVars
               PROVE  NewInBatch \/ UNCHANGED wssVars
    OBVIOUS
  <2>1. CASE PollsStream
    BY <2>1, PollStreamKeepsTrunk DEF PollsStream
  <2>2. CASE ReconcileOk
    BY <2>2, ReconcileOkKeepsTrunk
  <2>3. CASE StartsReconcile \/ ReconcileFails
    BY <2>3 DEF StartsReconcile, StartReconcile, ReconcileFails, NewInBatch
  <2>4. CASE Rest \/ (Stop /\ UNCHANGED <<streamVars, ingestVars>>)
    BY <2>4, LoopShapeKeeps, RestKeepsTrunk DEF NewInBatch
  <2>5. CASE \/ (Grow \/ Reorganise) /\ UNCHANGED <<streamVars, ingestVars>>
             \/ Connected \/ Sends \/ Retracts \/ Disconnected
    <3>1. pc' = pc
      BY <2>5 DEF Grow, Reorganise, Connected, Sends, Retracts, Disconnected, vars
    <3> QED
      BY <3>1 DEF NewInBatch
  <2> QED
    BY <2>1, <2>2, <2>3, <2>4, <2>5 DEF WssNext, WssLoop
<1> QED
  BY <1>1, <1>2, <1>3, WssInvariance, PTL DEF WssSpec, TrunkDeliveredOnce

=============================================================================

--------------------------- MODULE ReorgDetector ---------------------------
(***************************************************************************)
(* The ReorgDetector of src/reorg/mod.rs: the recent blocks the engine has *)
(* seen, with an index by hash and one by number, and update_chain, which  *)
(* takes the block a node calls the latest and says whether the chain was  *)
(* rewritten.  A block is a header of the external chain; nodes may name   *)
(* any header as the latest, in any order.                                 *)
(*                                                                         *)
(* update_chain holds the three mutexes while its handlers run, and        *)
(* find_common_ancestor locks the two indexes again.  ReentrantLocks says  *)
(* whether a second lock by the holder succeeds.  parking_lot::Mutex is    *)
(* not reentrant, so the code as built is the model with FALSE; with TRUE  *)
(* the rest of handle_parent_mismatch is reached.                          *)
(***************************************************************************)
EXTENDS Naturals, Sequences

CONSTANTS
    Blocks,          \* the headers that exist: hash, number and parent hash
    MaxHistory,      \* MAX_BLOCK_HISTORY
    ReentrantLocks

\* A hash names one header, and a header is one above its parent.
ASSUME BlocksAssumption ==
    /\ \A b \in Blocks : b.number \in Nat
    /\ \A b, c \in Blocks : b.hash = c.hash => b = c
    /\ \A b, c \in Blocks : b.parent = c.hash => b.number = c.number + 1

ASSUME HistoryAssumption == MaxHistory \in Nat \ {0} /\ ReentrantLocks \in BOOLEAN

Hashes == {b.hash : b \in Blocks}
Numbers == {b.number : b \in Blocks}

VARIABLES
    chain,      \* the history, oldest first
    byHash,     \* block_by_hash: hash -> number
    byNumber,   \* block_by_number: number -> header
    event       \* what the last call of update_chain answered

historyVars == <<chain, byHash, byNumber>>
detectorVars == <<historyVars, event>>

\* "none" is Ok(None); "error" is Err; "hung" is a call that never returns.
\* `to` is the block the graph is to be rolled back to.
Event == [kind: {"none", "error", "hung"}, to: {0}]
            \union [kind: {"rollback", "detected"}, to: Numbers]

NoEvent == [kind |-> "none", to |-> 0]

TypeOK ==
    /\ chain \in Seq(Blocks)
    /\ DOMAIN byHash \subseteq Hashes
    /\ DOMAIN byNumber \subseteq Numbers
    /\ event \in Event

DetectorInit ==
    /\ chain = <<>>
    /\ byHash = <<>>
    /\ byNumber = <<>>
    /\ event = NoEvent

-----------------------------------------------------------------------------

Tip == chain[Len(chain)]

Drop(f, S) == [x \in DOMAIN f \ S |-> f[x]]
Put(f, x, v) == [y \in DOMAIN f \union {x} |-> IF y = x THEN v ELSE f[y]]

\* The entries above the first k
Above(k) == {chain[i] : i \in (k + 1)..Len(chain)}

HashesOf(S) == {b.hash : b \in S}
NumbersOf(S) == {b.number : b \in S}

\* Pop the entries above the first k.
KeepFirst(k) ==
    /\ chain' = SubSeq(chain, 1, k)
    /\ byHash' = Drop(byHash, HashesOf(Above(k)))
    /\ byNumber' = Drop(byNumber, NumbersOf(Above(k)))

\* Slip: the oldest entry leaves the history but stays in the index.
InstallPrunesChainOnly(k, b) ==
    LET longer == Append(SubSeq(chain, 1, k), b)
    IN  /\ chain' = IF Len(longer) > MaxHistory THEN Tail(longer) ELSE longer
        /\ byHash' = Put(Drop(byHash, HashesOf(Above(k))), b.hash, b.number)
        /\ byNumber' = Put(Drop(byNumber, NumbersOf(Above(k))), b.number, b)

\* Slip: the index by hash is keyed by the parent.
InstallIndexesParent(k, b) ==
    LET longer == Append(SubSeq(chain, 1, k), b)
    IN  /\ chain' = IF Len(longer) > MaxHistory THEN Tail(longer) ELSE longer
        /\ byHash' = Put(Drop(byHash, HashesOf(Above(k))), b.parent, b.number)
        /\ byNumber' = Put(Drop(byNumber, NumbersOf(Above(k))), b.number, b)

\* Pop the entries above the first k, append b, and prune the oldest entry if
\* the history has become too long.
Install(k, b) ==
    LET longer == Append(SubSeq(chain, 1, k), b)
        pruned == IF Len(longer) > MaxHistory THEN {longer[1]} ELSE {}
    IN  /\ chain' = IF Len(longer) > MaxHistory THEN Tail(longer) ELSE longer
        /\ byHash' = Drop(Put(Drop(byHash, HashesOf(Above(k))), b.hash, b.number),
                          HashesOf(pruned))
        /\ byNumber' = Drop(Put(Drop(byNumber, NumbersOf(Above(k))), b.number, b),
                            NumbersOf(pruned))

-----------------------------------------------------------------------------
(* update_chain, one action per outcome *)

FirstBlock(b) ==
    /\ chain = <<>>
    /\ Install(0, b)
    /\ event' = NoEvent

\* The tip itself, or an older block that is in the history or unknown to it.
NothingNew(b) ==
    /\ chain # <<>>
    /\ \/ b.number = Tip.number /\ b.hash = Tip.hash
       \/ /\ b.number < Tip.number
          /\ b.number \in DOMAIN byNumber => byNumber[b.number].hash = b.hash
    /\ event' = NoEvent
    /\ UNCHANGED historyVars

\* Slips: the replaced tip is not reported, or the same tip is.
SameHeightSilent(b) ==
    /\ chain # <<>>
    /\ b.number = Tip.number /\ b.hash # Tip.hash
    /\ Install(Len(chain) - 1, b)
    /\ event' = NoEvent

SameHeightAnyHash(b) ==
    /\ chain # <<>>
    /\ b.number = Tip.number
    /\ Install(Len(chain) - 1, b)
    /\ event' = [kind |-> "rollback", to |-> Tip.number]

\* handle_reorg_at_same_height: the parent of the new tip is not looked at.
SameHeight(b) ==
    /\ chain # <<>>
    /\ b.number = Tip.number /\ b.hash # Tip.hash
    /\ Install(Len(chain) - 1, b)
    /\ event' = [kind |-> "rollback", to |-> Tip.number]

Extend(b) ==
    /\ chain # <<>>
    /\ b.number = Tip.number + 1 /\ b.parent = Tip.hash
    /\ Install(Len(chain), b)
    /\ event' = NoEvent

\* handle_reorg_with_gap appends whether or not the parent is known.
Gap(b) ==
    /\ chain # <<>>
    /\ b.number > Tip.number + 1
    /\ Install(Len(chain), b)
    /\ event' = NoEvent

\* The two places that call handle_parent_mismatch.
ParentMismatch(b) ==
    /\ chain # <<>>
    /\ \/ b.number = Tip.number + 1 /\ b.parent # Tip.hash
       \/ /\ b.number < Tip.number
          /\ b.number \in DOMAIN byNumber
          /\ byNumber[b.number].hash # b.hash

\* find_common_ancestor waits for a mutex its caller holds.
MismatchHangs(b) ==
    /\ ~ReentrantLocks
    /\ ParentMismatch(b)
    /\ event' = [kind |-> "hung", to |-> 0]
    /\ UNCHANGED historyVars

AncestorKnown(b) == b.parent \in DOMAIN byHash /\ byHash[b.parent] \in DOMAIN byNumber

MismatchFails(b) ==
    /\ ReentrantLocks
    /\ ParentMismatch(b)
    /\ ~AncestorKnown(b)
    /\ event' = [kind |-> "error", to |-> 0]
    /\ UNCHANGED historyVars

\* Pop until the tip is the common ancestor, or nothing is left.
MismatchResolved(b) ==
    /\ ReentrantLocks
    /\ ParentMismatch(b)
    /\ AncestorKnown(b)
    /\ LET ancestor == byNumber[byHash[b.parent]]
       IN  /\ \E k \in {j \in 0..Len(chain) : j > 0 => chain[j].hash = ancestor.hash} :
                 /\ \A i \in (k + 1)..Len(chain) : chain[i].hash # ancestor.hash
                 /\ Install(k, b)
           /\ event' = [kind |-> "detected", to |-> ancestor.number]

UpdateChain(b) ==
    /\ event.kind # "hung"
    /\ \/ FirstBlock(b) \/ NothingNew(b) \/ SameHeight(b) \/ Extend(b) \/ Gap(b)
       \/ MismatchHangs(b) \/ MismatchFails(b) \/ MismatchResolved(b)

\* rollback_to_block (public; the engine does not call it)
RollbackToBlock(n) ==
    /\ event.kind # "hung"
    /\ \E k \in {j \in 0..Len(chain) : j > 0 => chain[j].number <= n} :
          /\ \A i \in (k + 1)..Len(chain) : chain[i].number > n
          /\ KeepFirst(k)
    /\ UNCHANGED event

DetectorNext ==
    \/ \E b \in Blocks : UpdateChain(b)
    \/ \E n \in Numbers : RollbackToBlock(n)

DetectorSpec == DetectorInit /\ [][DetectorNext]_detectorVars

-----------------------------------------------------------------------------
(* Properties *)

\* The two indexes name exactly the blocks of the history.  Five paths edit
\* the three containers entry by entry; an entry left behind would make a
\* block that was dropped look like a common ancestor.
IndexesAgree ==
    /\ DOMAIN byHash = HashesOf(Above(0))
    /\ DOMAIN byNumber = NumbersOf(Above(0))
    /\ \A i \in 1..Len(chain) :
          /\ byHash[chain[i].hash] = chain[i].number
          /\ byNumber[chain[i].number] = chain[i]

\* The history is bounded and strictly ascending, whatever order nodes name
\* headers in: lagging answers, gaps and rewrites included.
ChainOrdered ==
    /\ Len(chain) <= MaxHistory
    /\ \A i, j \in 1..Len(chain) : i < j => chain[i].number < chain[j].number

\* A block that update_chain takes out of the history, other than by pruning
\* the oldest one, is reported by an event that rolls the graph back to that
\* block's number or further: no block is replaced behind the engine's back.
RewriteReported ==
    (\E b \in Blocks : UpdateChain(b)) =>
        \A i \in 1..Len(chain) :
            \/ chain[i] \in {chain'[j] : j \in 1..Len(chain')}
            \/ i = 1 /\ Len(chain) = MaxHistory
            \/ event'.kind \in {"rollback", "detected"} /\ event'.to <= chain[i].number

NoSilentRewrite == [][RewriteReported]_detectorVars

\* A common ancestor is only ever found for a block below the tip, and the new
\* tip is then its child.  A reorganisation that shows up as a longer chain,
\* the usual one, is never resolved: the parent of a block one above the tip
\* is as high as the tip, so it is not in the history, and the call errs.
ResolvedIsLinked ==
    (\E b \in Blocks : UpdateChain(b)) /\ event'.kind = "detected" =>
        /\ chain'[Len(chain')].number < Tip.number
        /\ event'.to = chain'[Len(chain')].number - 1
        /\ Len(chain') > 1 =>
              chain'[Len(chain')].parent = chain'[Len(chain') - 1].hash

OnlyOlderResolved == [][ResolvedIsLinked]_detectorVars

\* "supports rolling back to a common ancestor" (src/reorg/mod.rs:3-4): every
\* call returns.
CallReturns == event.kind # "hung"

=============================================================================

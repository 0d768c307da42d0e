------------------------ MODULE LogRequestsProofs ------------------------
(***************************************************************************)
(* Proofs that a scan which returns has every block and address once, and  *)
(* that a request is given up only after every endpoint had its turn, for  *)
(* all ranges, chunk sizes, groups of addresses, retries and endpoints.    *)
(***************************************************************************)
EXTENDS LogRequests, FiniteSetTheorems, TLAPS

\* What a scan that runs has among its logs: each block below its next one, once.
BelowStart == \A b \in 1..To, g \in Groups : logs[b][g] = IF b < start THEN 1 ELSE 0

\* The requests that run, and those that were answered, are of this chunk; a call
\* has one request.
OfThisChunk ==
    /\ mode = "call" => \A r, s \in DOMAIN flight : r = s
    /\ mode # "call" => DOMAIN flight \subseteq IF Scanning THEN ChunkRequests ELSE {}
    /\ rangeLogs \subseteq IF Scanning THEN ChunkRequests ELSE {}
    /\ rangeLogs \intersect DOMAIN flight = {}

\* The scan's own counters; by topic, a chunk is halved once per retry at most.
CountersOK ==
    /\ mode \in AllModes \union {"call", "none"}
    /\ start \in 1..(To + 1)
    /\ chunk \in 1..(ChunkBlocks + ReceiptBlocks)
    /\ retries \in 0..(ChunkRetries + ChunkBlocks)
    /\ mode = "topic_logs" => chunk + retries <= ChunkBlocks + ChunkRetries /\ chunk <= ChunkBlocks
    /\ mode = "address_logs" => retries <= ChunkRetries
    /\ plan \in Seq(AllModes \union {"call"})
    /\ logs \in [1..To -> [Groups -> Nat]]

ScanInv == CountersOK /\ OfThisChunk /\ BelowStart

\* The circuits count the failures in a row, and open at the threshold.
CircuitsCount ==
    /\ circuits \in [Methods -> [Urls -> [failures: 0..Threshold, open: BOOLEAN]]]
    /\ streak \in [Methods -> [Urls -> 0..Threshold]]
    /\ \A m \in Methods, u \in Urls :
          /\ circuits[m][u].failures = streak[m][u]
          /\ circuits[m][u].open => streak[m][u] = Threshold

\* A request is past the endpoints that are through.
PassedAreThrough ==
    \A r \in DOMAIN flight :
        /\ flight[r] \in Progress
        /\ flight[r].at \in 1..(Len(Endpoints) + 1)
        /\ \A i \in 1..Len(Endpoints) : i < flight[r].at => Endpoints[i] \in flight[r].through

RequestInv == CircuitsCount /\ PassedAreThrough

-----------------------------------------------------------------------------
(* Lemmas about the operators *)

\* Adding a URL to a list: it is there, and what was there stays.
LEMMA WithAdds ==
    ASSUME NEW s \in Seq(Urls), NEW u \in Urls \union {None}
    PROVE  /\ With(s, u) \in Seq(Urls)
           /\ u # None => \E i \in 1..Len(With(s, u)) : With(s, u)[i] = u
           /\ \A i \in 1..Len(s) : \E j \in 1..Len(With(s, u)) : With(s, u)[j] = s[i]
<1>1. CASE u = None \/ \E i \in 1..Len(s) : s[i] = u
  BY <1>1 DEF With
<1>2. CASE ~ (u = None \/ \E i \in 1..Len(s) : s[i] = u)
  <2>1. With(s, u) = Append(s, u)
    BY <1>2 DEF With
  <2>2. u \in Urls
    BY <1>2
  <2>3. /\ Append(s, u) \in Seq(Urls) /\ Len(Append(s, u)) = Len(s) + 1
        /\ Append(s, u)[Len(s) + 1] = u
        /\ \A i \in 1..Len(s) : Append(s, u)[i] = s[i]
    BY <2>2
  <2>4. Len(s) \in Nat
    OBVIOUS
  <2> QED
    BY <2>1, <2>3, <2>4
<1> QED
  BY <1>1, <1>2

\* The endpoints, when they are built up from these three URLs in this order
LEMMA ListOfThree ==
    ASSUME NEW a \in Urls, NEW b \in Urls \union {None}, NEW c \in Urls \union {None},
           Urls = {a, b, c} \ {None}, Endpoints = With(With(<<a>>, b), c)
    PROVE  /\ Endpoints \in Seq(Urls)
           /\ \A u \in Urls : \E i \in 1..Len(Endpoints) : Endpoints[i] = u
<1> DEFINE one == <<a>>
           two == With(one, b)
           s == With(two, c)
<1>1. one \in Seq(Urls) /\ Len(one) = 1 /\ one[1] = a
  OBVIOUS
<1> HIDE DEF one
<1>2. /\ two \in Seq(Urls)
      /\ b # None => \E i \in 1..Len(two) : two[i] = b
      /\ \A i \in 1..Len(one) : \E j \in 1..Len(two) : two[j] = one[i]
  BY <1>1, WithAdds
<1> HIDE DEF two
<1>3. /\ s \in Seq(Urls)
      /\ c # None => \E i \in 1..Len(s) : s[i] = c
      /\ \A i \in 1..Len(two) : \E j \in 1..Len(s) : s[j] = two[i]
  BY <1>2, WithAdds
<1>6. Endpoints = s
  BY DEF one, two, s
<1> HIDE DEF s
<1>4. \E j \in 1..Len(two) : two[j] = a
  BY <1>1, <1>2
<1>5. \A u \in {a, b, c} \ {None} : \E i \in 1..Len(s) : s[i] = u
  BY <1>2, <1>3, <1>4
<1> QED
  BY <1>3, <1>5, <1>6

\* The endpoints of a request are exactly the URLs of the settings.
LEMMA EndpointsAreUrls ==
    /\ Endpoints \in Seq(Urls)
    /\ \A u \in Urls : \E i \in 1..Len(Endpoints) : Endpoints[i] = u
<1>1. CASE Preconf # None
  <2>1. Endpoints = With(With(<<Preconf>>, Public), Fallback)
    BY <1>1 DEF Endpoints
  <2>2. Urls = {Preconf, Public, Fallback} \ {None} /\ Preconf \in Urls
    BY <1>1 DEF Urls
  <2>3. Public \in Urls \union {None} /\ Fallback \in Urls \union {None}
    BY DEF Urls
  <2> QED
    BY <2>1, <2>2, <2>3, ListOfThree
<1>2. CASE Preconf = None
  <2>1. Endpoints = With(With(<<Public>>, Preconf), Fallback)
    BY <1>2 DEF Endpoints
  <2>2. Urls = {Public, Preconf, Fallback} \ {None} /\ Public \in Urls
    BY RequestsAssumption DEF Urls
  <2>3. Preconf \in Urls \union {None} /\ Fallback \in Urls \union {None}
    BY DEF Urls
  <2> QED
    BY <2>1, <2>2, <2>3, ListOfThree
<1> QED
  BY <1>1, <1>2

\* The constants as numbers
LEMMA Constants ==
    /\ ChunkBlocks \in Nat /\ ChunkBlocks >= 1 /\ RangeCap \in Nat /\ RangeCap >= 1
    /\ ReceiptBlocks \in Nat /\ ReceiptBlocks >= 1 /\ MinChunk \in Nat /\ MinChunk >= 1
    /\ Concurrency \in Nat /\ Concurrency >= 1 /\ Threshold \in Nat /\ Threshold >= 1
    /\ To \in Nat /\ To >= 1 /\ ChunkRetries \in Nat /\ Capacity \in Nat
BY RequestsAssumption

\* A smaller chunk is still a chunk.
LEMMA HalfIsSmaller ==
    ASSUME NEW n \in Nat, n >= 1, NEW k \in Nat, k >= 1
    PROVE  /\ Larger(n \div 2, 1) \in 1..n
           /\ n > 1 => Larger(n \div 2, 1) + 1 <= n
           /\ n > k => Larger(n \div 2, k) \in 1..n
BY DEF Larger

\* A chunk ends within the range, and not before its first block.
LEMMA EndIsInRange ==
    ASSUME CountersOK, start <= To
    PROVE  End \in start..To
BY Constants DEF CountersOK, End, AtMost

\* The requests of a chunk cover each of its blocks and groups once, and no other.
LEMMA RangeCoversOnce ==
    ASSUME CountersOK, Scanning, NEW b \in 1..To, NEW g \in Groups
    PROVE  LET covering == {r \in ChunkRequests : Covers(r, b, g)}
           IN  IF b \in start..End THEN \E r : covering = {r} ELSE covering = {}
<1> DEFINE covering == {r \in ChunkRequests : Covers(r, b, g)}
<1>1. start \in Nat /\ End \in Nat /\ To \in Nat
  BY EndIsInRange, Constants DEF CountersOK, Scanning
<1>2. CASE mode = "topic_logs"
  <2> DEFINE r == [from |-> start, to |-> End, group |-> Whole]
  <2>1. ChunkRequests = {r}
    BY <1>2 DEF ChunkRequests
  <2>2. Covers(r, b, g) <=> start <= b /\ b <= End
    BY DEF Covers
  <2> QED
    BY <1>1, <2>1, <2>2
<1>3. CASE mode = "address_logs"
  <2> DEFINE r == [from |-> start, to |-> End, group |-> g]
  <2>1. ChunkRequests = {[from |-> start, to |-> End, group |-> h] : h \in Groups}
    BY <1>3 DEF ChunkRequests
  <2>2. \A x \in ChunkRequests : Covers(x, b, g) <=> x = r /\ start <= b /\ b <= End
    BY <2>1, RequestsAssumption DEF Covers
  <2>3. r \in ChunkRequests
    BY <2>1
  <2> HIDE DEF r
  <2> QED
    BY <1>1, <2>2, <2>3
<1>4. CASE mode = "block_receipts"
  <2> DEFINE r == [from |-> b, to |-> b, group |-> Whole]
  <2>1. ChunkRequests = {[from |-> c, to |-> c, group |-> Whole] : c \in start..End}
    BY <1>4 DEF ChunkRequests
  <2>2. \A x \in ChunkRequests : Covers(x, b, g) <=> x = r
    BY <1>1, <2>1 DEF Covers
  <2>3. r \in ChunkRequests <=> b \in start..End
    BY <2>1
  <2> HIDE DEF r
  <2> QED
    BY <2>2, <2>3
<1> QED
  BY <1>2, <1>3, <1>4 DEF Scanning, AllModes

\* When all requests of a chunk are answered, the logs have its blocks once more.
LEMMA AppendedIs ==
    ASSUME CountersOK, Scanning, rangeLogs = ChunkRequests, NEW b \in 1..To, NEW g \in Groups
    PROVE  Appended[b][g] = logs[b][g] + IF b \in start..End THEN 1 ELSE 0
<1> DEFINE covering == {r \in ChunkRequests : Covers(r, b, g)}
<1>1. Appended[b][g] = logs[b][g] + Cardinality(covering)
  BY DEF Appended
<1>2. IF b \in start..End THEN \E r : covering = {r} ELSE covering = {}
  BY RangeCoversOnce
<1>3. Cardinality(covering) = IF b \in start..End THEN 1 ELSE 0
  BY <1>2, FS_Singleton, FS_EmptySet
<1> QED
  BY <1>1, <1>3

-----------------------------------------------------------------------------
(* Every block and address once *)

LEMMA ScanInit == Init => ScanInv
<1> SUFFICES ASSUME Init PROVE ScanInv
  OBVIOUS
<1>1. CountersOK
  BY RequestsAssumption, Constants DEF Init, CountersOK
<1>2. OfThisChunk
  BY DEF Init, OfThisChunk
<1>3. BelowStart
  BY Constants DEF Init, BelowStart
<1> QED
  BY <1>1, <1>2, <1>3 DEF ScanInv

\* A scan that starts, or starts again
LEMMA FreshKeepsScan ==
    ASSUME NEW m \in AllModes, Fresh(m), plan' \in Seq(AllModes \union {"call"})
    PROVE  ScanInv'
<1>1. FirstChunk(m) \in 1..(ChunkBlocks + ReceiptBlocks) /\ (m = "topic_logs" => FirstChunk(m) = ChunkBlocks)
  BY Constants DEF FirstChunk, AtMost
<1>2. CountersOK'
  BY <1>1, Constants DEF Fresh, CountersOK
<1>3. OfThisChunk'
  BY DEF Fresh, OfThisChunk
<1>4. BelowStart'
  BY Constants DEF Fresh, BelowStart
<1> QED
  BY <1>2, <1>3, <1>4 DEF ScanInv

\* A scan that ends
LEMMA EndKeepsScan ==
    ASSUME ScanInv, mode' = "none", DOMAIN flight' = {}, rangeLogs' = {},
           UNCHANGED <<start, chunk, retries, logs, plan>>
    PROVE  ScanInv'
<1>1. CountersOK'
  BY DEF ScanInv, CountersOK
<1>2. OfThisChunk'
  BY DEF OfThisChunk
<1>3. BelowStart'
  BY DEF ScanInv, BelowStart
<1> QED
  BY <1>1, <1>2, <1>3 DEF ScanInv

\* What happens to a request while its chunk stays the same
LEMMA RequestKeepsScan ==
    ASSUME ScanInv, DOMAIN flight' = DOMAIN flight, UNCHANGED <<scanVars, rangeLogs>>
    PROVE  ScanInv'
<1>1. CountersOK'
  BY DEF ScanInv, CountersOK, scanVars
<1>2. BelowStart'
  BY DEF ScanInv, BelowStart, scanVars
<1>3. ChunkRequests' = ChunkRequests /\ (Scanning' <=> Scanning)
  BY DEF ChunkRequests, Scanning, End, AtMost, scanVars
<1>4. OfThisChunk'
  BY <1>3 DEF ScanInv, OfThisChunk, scanVars
<1> QED
  BY <1>1, <1>2, <1>4 DEF ScanInv

LEMMA BeginKeepsScan == ASSUME ScanInv, Begin PROVE ScanInv'
<1> PICK r \in ChunkRequests \ (DOMAIN flight \union rangeLogs) :
        flight' = [s \in DOMAIN flight \union {r} |-> IF s = r THEN NewRequest ELSE flight[s]]
  BY DEF Begin
<1>1. /\ Scanning /\ DOMAIN flight' = DOMAIN flight \union {r}
      /\ UNCHANGED <<mode, start, chunk, retries, logs, plan, rangeLogs>>
  BY DEF Begin, scanVars
<1>2. CountersOK'
  BY <1>1 DEF ScanInv, CountersOK
<1>3. BelowStart'
  BY <1>1 DEF ScanInv, BelowStart
<1>4. ChunkRequests' = ChunkRequests /\ (Scanning' <=> Scanning)
  BY <1>1 DEF ChunkRequests, Scanning, End
<1>5. OfThisChunk'
  <2>1. mode # "call"
    BY <1>1 DEF Scanning, AllModes
  <2> QED
    BY <1>1, <1>4, <2>1 DEF ScanInv, OfThisChunk
<1> QED
  BY <1>2, <1>3, <1>5 DEF ScanInv

LEMMA AnswerKeepsScan ==
    ASSUME ScanInv, NEW r \in DOMAIN flight, Answered(r)
    PROVE  ScanInv'
<1>1. DOMAIN flight' = DOMAIN flight \ {r} /\ UNCHANGED <<start, chunk, retries, logs, plan>>
  BY DEF Answered, Without
<1>2. CASE mode = "call"
  <2>1. mode' = "none" /\ rangeLogs' = {}
    BY <1>2 DEF Answered
  <2>2. DOMAIN flight' = {}
    BY <1>1, <1>2 DEF ScanInv, OfThisChunk
  <2> QED
    BY <1>1, <2>1, <2>2, EndKeepsScan
<1>3. CASE mode # "call"
  <2>1. mode' = mode /\ rangeLogs' = rangeLogs \union {r}
    BY <1>3 DEF Answered
  <2>2. CountersOK'
    BY <1>1, <2>1 DEF ScanInv, CountersOK
  <2>3. BelowStart'
    BY <1>1, <2>1 DEF ScanInv, BelowStart
  <2>4. ChunkRequests' = ChunkRequests /\ (Scanning' <=> Scanning)
    BY <1>1, <2>1 DEF ChunkRequests, Scanning, End
  <2>5. OfThisChunk'
    BY <1>1, <1>3, <2>1, <2>4 DEF ScanInv, OfThisChunk
  <2> QED
    BY <2>2, <2>3, <2>5 DEF ScanInv
<1> QED
  BY <1>2, <1>3

\* The chunk's logs are appended, and the scan goes on behind them.
LEMMA ChunkDoneKeepsScan == ASSUME ScanInv, ChunkDone PROVE ScanInv'
<1>0. Scanning /\ ChunkRequests \subseteq rangeLogs /\ mode # "call"
  BY DEF ChunkDone, Scanning, AllModes
<1>1. /\ Scanning /\ rangeLogs = ChunkRequests /\ DOMAIN flight = {}
      /\ start \in 1..To /\ chunk \in Nat
  <2>1. rangeLogs = ChunkRequests /\ DOMAIN flight = {}
    BY <1>0 DEF ScanInv, OfThisChunk
  <2>2. start \in 1..To /\ chunk \in Nat
    BY <1>0, Constants DEF ScanInv, CountersOK, Scanning
  <2> QED
    BY <1>0, <2>1, <2>2
<1>2. End \in start..To
  BY <1>1, EndIsInRange DEF ScanInv
<1>3. /\ logs' = Appended /\ start' = End + 1 /\ retries' = 0 /\ rangeLogs' = {}
      /\ UNCHANGED <<mode, chunk, flight, plan>>
  BY DEF ChunkDone
<1>4. \A b \in 1..To, g \in Groups :
          Appended[b][g] = logs[b][g] + IF b \in start..End THEN 1 ELSE 0
  BY <1>1, AppendedIs DEF ScanInv
<1>5. \A b \in 1..To, g \in Groups : Appended[b][g] = IF b < End + 1 THEN 1 ELSE 0
  <2> SUFFICES ASSUME NEW b \in 1..To, NEW g \in Groups
               PROVE  Appended[b][g] = IF b < End + 1 THEN 1 ELSE 0
    OBVIOUS
  <2>1. logs[b][g] = IF b < start THEN 1 ELSE 0
    BY DEF ScanInv, BelowStart
  <2>2. Appended[b][g] = logs[b][g] + IF b \in start..End THEN 1 ELSE 0
    BY <1>4
  <2> HIDE DEF Appended
  <2> QED
    BY <1>1, <1>2, <2>1, <2>2
<1>6. BelowStart'
  BY <1>3, <1>5 DEF BelowStart
<1>7. logs' \in [1..To -> [Groups -> Nat]]
  <2>1. Appended = [b \in 1..To |-> [g \in Groups |-> Appended[b][g]]]
    BY DEF Appended
  <2>2. \A b \in 1..To, g \in Groups : Appended[b][g] \in Nat
    BY <1>5
  <2> HIDE DEF Appended
  <2> QED
    BY <1>3, <2>1, <2>2
<1>8. CountersOK'
  BY <1>1, <1>2, <1>3, <1>7, Constants DEF ScanInv, CountersOK
<1>9. OfThisChunk'
  BY <1>1, <1>3 DEF OfThisChunk
<1> QED
  BY <1>6, <1>8, <1>9 DEF ScanInv

LEMMA RetryKeepsScan ==
    ASSUME ScanInv, NEW r \in DOMAIN flight, RetryRange(r)
    PROVE  ScanInv'
<1> DEFINE error == flight[r].error
<1>1. /\ mode \in {"topic_logs", "address_logs"}
      /\ Halves(error) \/ Waits(error)
      /\ chunk' = IF Halves(error) THEN Larger(chunk \div 2, 1)
                  ELSE IF chunk > MinChunk THEN Larger(chunk \div 2, MinChunk) ELSE chunk
      /\ retries' = retries + 1 /\ flight' = << >> /\ rangeLogs' = {}
      /\ UNCHANGED <<mode, start, logs, plan>>
  BY DEF RetryRange, CountRetry, Kept
<1> HIDE DEF error
<1>2. /\ chunk \in Nat /\ chunk >= 1 /\ retries \in Nat /\ start \in Nat
      /\ chunk <= ChunkBlocks + ReceiptBlocks
      /\ mode = "topic_logs" => chunk + retries <= ChunkBlocks + ChunkRetries /\ chunk <= ChunkBlocks
      /\ mode = "address_logs" => retries <= ChunkRetries
  BY Constants DEF ScanInv, CountersOK
<1>3. chunk' \in 1..chunk
  BY <1>1, <1>2, HalfIsSmaller, Constants
<1>4. /\ mode = "topic_logs" => chunk' + retries' <= ChunkBlocks + ChunkRetries
      /\ mode = "address_logs" => retries' <= ChunkRetries
  <2>1. CASE Halves(error) /\ mode = "topic_logs"
    <3>1. chunk > 1
      BY <2>1 DEF Halves
    <3>2. chunk' + 1 <= chunk
      BY <1>1, <1>2, <2>1, <3>1, HalfIsSmaller
    <3> QED
      BY <1>1, <1>2, <1>3, <2>1, <3>2, Constants
  <2>2. CASE ~ (Halves(error) /\ mode = "topic_logs")
    <3>1. retries < ChunkRetries
      BY <1>1, <2>2 DEF Halves, Waits
    <3> QED
      BY <1>1, <1>2, <1>3, <3>1, Constants
  <2> QED
    BY <2>1, <2>2
<1>5. retries' \in Nat /\ retries' <= ChunkBlocks + ChunkRetries
  BY <1>1, <1>2, <1>3, <1>4, Constants
<1>6. CountersOK'
  BY <1>1, <1>2, <1>3, <1>4, <1>5, Constants DEF ScanInv, CountersOK
<1>7. OfThisChunk'
  BY <1>1 DEF OfThisChunk
<1>8. BelowStart'
  BY <1>1 DEF ScanInv, BelowStart
<1> QED
  BY <1>6, <1>7, <1>8 DEF ScanInv

THEOREM ScanInvariant == Spec => []ScanInv
<1>1. Init => ScanInv
  BY ScanInit
<1>2. ScanInv /\ [Next]_vars => ScanInv'
  <2> SUFFICES ASSUME ScanInv, [Next]_vars PROVE ScanInv'
    OBVIOUS
  <2>1. CASE UNCHANGED vars
    BY <2>1, RequestKeepsScan DEF vars, scanVars
  <2>2. CASE Poll
    <3> DEFINE m == Head(plan)
    <3>1. plan \in Seq(AllModes \union {"call"}) /\ plan # << >>
      BY <2>2 DEF ScanInv, CountersOK, Poll
    <3>2. m \in AllModes /\ Tail(plan) \in Seq(AllModes \union {"call"})
      BY <2>2, <3>1 DEF Poll
    <3> QED
      BY <2>2, <3>2, FreshKeepsScan DEF Poll
  <2>3. CASE Call
    <3>1. plan' \in Seq(AllModes \union {"call"})
      BY <2>3 DEF ScanInv, CountersOK, Call
    <3>2. /\ mode = "none" /\ mode' = "call"
          /\ UNCHANGED <<start, chunk, retries, logs, rangeLogs>>
      BY <2>3 DEF Call
    <3>3. CountersOK'
      BY <3>1, <3>2 DEF ScanInv, CountersOK
    <3>4. rangeLogs = {}
      BY <3>2 DEF ScanInv, OfThisChunk, Scanning, AllModes
    <3>5. OfThisChunk'
      <4>1. DOMAIN flight' = {[from |-> 1, to |-> 1, group |-> Whole]}
        BY <2>3 DEF Call
      <4> QED
        BY <3>2, <3>4, <4>1 DEF OfThisChunk
    <3>6. BelowStart'
      BY <3>2 DEF ScanInv, BelowStart
    <3> QED
      BY <3>3, <3>5, <3>6 DEF ScanInv
  <2>4. CASE Begin
    BY <2>4, BeginKeepsScan
  <2>5. CASE ChunkDone
    BY <2>5, ChunkDoneKeepsScan
  <2>6. CASE ScanDone
    <3>1. mode # "call" /\ ~ Scanning
      BY <2>6, Constants DEF ScanDone, ScanInv, CountersOK, Scanning, AllModes
    <3>2. rangeLogs = {} /\ DOMAIN flight = {}
      BY <3>1 DEF ScanInv, OfThisChunk
    <3> QED
      BY <2>6, <3>2, EndKeepsScan DEF ScanDone
  <2>7. ASSUME NEW r \in DOMAIN flight, Progresses(r) PROVE ScanInv'
    <3>1. CASE Skip(r) \/ Send(r) \/ TryAgain(r) \/ \E error \in Errors : Refused(r, error)
      <4>1. DOMAIN flight' = DOMAIN flight /\ UNCHANGED <<scanVars, rangeLogs>>
        BY <3>1 DEF Skip, Send, TryAgain, Refused
      <4> QED
        BY <4>1, RequestKeepsScan
    <3>2. CASE Answered(r)
      BY <3>2, AnswerKeepsScan
    <3>3. CASE RetryRange(r)
      BY <3>3, RetryKeepsScan
    <3>4. CASE FallBack(r) \/ (Garbled(r) /\ mode = "block_receipts" /\ TopicFallback)
      <4>1. Fresh("topic_logs") /\ plan' = plan
        BY <3>4 DEF FallBack, Garbled
      <4> QED
        BY <4>1, FreshKeepsScan DEF ScanInv, CountersOK, AllModes
    <3>5. CASE ScanFails(r) \/ (Garbled(r) /\ ~ (mode = "block_receipts" /\ TopicFallback))
      <4>1. /\ mode' = "none" /\ flight' = << >> /\ rangeLogs' = {}
            /\ UNCHANGED <<start, chunk, retries, logs, plan>>
        BY <3>5 DEF ScanFails, Garbled
      <4> QED
        BY <4>1, EndKeepsScan
    <3>6. CASE CallFails(r) \/ CallReverts(r)
      <4>1. /\ mode = "call" /\ mode' = "none" /\ flight' = << >>
            /\ UNCHANGED <<start, chunk, retries, logs, rangeLogs, plan>>
        BY <3>6 DEF CallFails, CallReverts
      <4>2. rangeLogs = {}
        BY <4>1 DEF ScanInv, OfThisChunk, Scanning, AllModes
      <4> QED
        BY <4>1, <4>2, EndKeepsScan
    <3> QED
      BY <2>7, <3>1, <3>2, <3>3, <3>4, <3>5, <3>6 DEF Progresses
  <2>8. CASE CircuitCloses \/ Refill
    BY <2>8, RequestKeepsScan DEF CircuitCloses, Refill
  <2> QED
    BY <2>1, <2>2, <2>3, <2>4, <2>5, <2>6, <2>7, <2>8 DEF Next
<1> QED
  BY <1>1, <1>2, PTL DEF Spec

\* event_stream.rs, poll_logs: a scan that returns has every block of its range
\* and every watched address exactly once, for every range, chunk size, number of
\* retries and way to scan.
THEOREM WholeRangeHolds == Spec => []WholeRange
<1>1. ScanInv => WholeRange
  BY Constants DEF ScanInv, CountersOK, BelowStart, WholeRange
<1> QED
  BY <1>1, ScanInvariant, PTL

-----------------------------------------------------------------------------
(* Every endpoint has its turn *)

LEMMA RequestInit == Init => RequestInv
BY Constants, RequestsAssumption DEF Init, RequestInv, CircuitsCount, PassedAreThrough

\* What a step of a request does to its progress keeps what is known of it.
LEMMA PassedKept ==
    ASSUME PassedAreThrough, NEW r \in DOMAIN flight,
           flight' = [flight EXCEPT ![r] = flight'[r]],
           flight'[r] \in Progress, flight'[r].at \in 1..(Len(Endpoints) + 1),
           \A i \in 1..Len(Endpoints) : i < flight'[r].at => Endpoints[i] \in flight'[r].through
    PROVE  PassedAreThrough'
<1> SUFFICES ASSUME NEW s \in DOMAIN flight'
             PROVE  /\ flight'[s] \in Progress
                    /\ flight'[s].at \in 1..(Len(Endpoints) + 1)
                    /\ \A i \in 1..Len(Endpoints) :
                           i < flight'[s].at => Endpoints[i] \in flight'[s].through
  BY DEF PassedAreThrough
<1>1. s \in DOMAIN flight /\ (s # r => flight'[s] = flight[s])
  OBVIOUS
<1> QED
  BY <1>1 DEF PassedAreThrough

\* Requests that start anew, or end
LEMMA NewIsPassed ==
    ASSUME PassedAreThrough,
           \A s \in DOMAIN flight' :
               (s \in DOMAIN flight /\ flight'[s] = flight[s]) \/ flight'[s] = NewRequest
    PROVE  PassedAreThrough'
<1>1. NewRequest \in Progress /\ NewRequest.at = 1
  BY DEF NewRequest, Progress, Errors, Unasked
<1>2. 1 \in 1..(Len(Endpoints) + 1)
  BY EndpointsAreUrls
<1> QED
  BY <1>1, <1>2 DEF PassedAreThrough

\* The circuit of an endpoint that failed once more
LEMMA FailureCounts ==
    ASSUME CircuitsCount, NEW m \in Methods, NEW u \in Urls,
           circuits' = RecordFailure(m, u),
           streak' = [streak EXCEPT ![m][u] = AtMost(@ + 1, Threshold)]
    PROVE  CircuitsCount'
<1> DEFINE old == circuits[m][u]
           new == [failures |-> AtMost(old.failures + 1, Threshold),
                   open |-> old.open \/ old.failures + 1 >= Threshold]
           count == AtMost(streak[m][u] + 1, Threshold)
<1>1. /\ old.failures \in 0..Threshold /\ old.open \in BOOLEAN /\ streak[m][u] = old.failures
      /\ old.open => old.failures = Threshold
  BY DEF CircuitsCount
<1>2. /\ new \in [failures: 0..Threshold, open: BOOLEAN]
      /\ count \in 0..Threshold /\ new.failures = count
      /\ new.open => count = Threshold
  BY <1>1, Constants DEF AtMost
<1>3. circuits' = [circuits EXCEPT ![m][u] = new] /\ streak' = [streak EXCEPT ![m][u] = count]
  BY DEF RecordFailure
<1> HIDE DEF new, count
<1> QED
  BY <1>2, <1>3 DEF CircuitsCount

LEMMA AnswerResets ==
    ASSUME CircuitsCount, NEW r, Method \in Methods, Url(r) \in Urls, AnswerFrom(r)
    PROVE  CircuitsCount'
<1> DEFINE m == Method
           u == Url(r)
           new == [failures |-> 0, open |-> FALSE]
<1>1. circuits' = [circuits EXCEPT ![m][u] = new] /\ streak' = [streak EXCEPT ![m][u] = 0]
  BY DEF AnswerFrom
<1>2. new \in [failures: 0..Threshold, open: BOOLEAN] /\ 0 \in 0..Threshold
  BY Constants
<1>3. m \in Methods /\ u \in Urls /\ new.failures = 0 /\ new.open = FALSE
  OBVIOUS
<1> HIDE DEF m, u, new
<1> QED
  BY <1>1, <1>2, <1>3 DEF CircuitsCount

\* A request that runs is at one of the endpoints.
LEMMA RunningIsAt ==
    ASSUME PassedAreThrough, NEW r \in Running
    PROVE  /\ r \in DOMAIN flight
           /\ flight[r].at \in 1..Len(Endpoints)
           /\ Url(r) = Endpoints[flight[r].at] /\ Url(r) \in Urls
<1>1. r \in DOMAIN flight /\ flight[r].at \in 1..(Len(Endpoints) + 1) /\ flight[r].at <= Len(Endpoints)
  BY DEF Running, PassedAreThrough
<1>2. Len(Endpoints) \in Nat
  BY EndpointsAreUrls
<1>3. flight[r].at \in 1..Len(Endpoints)
  BY <1>1, <1>2
<1> QED
  BY <1>1, <1>3, EndpointsAreUrls DEF Url

LEMMA MethodIs == Method \in Methods
BY DEF Method, Methods

\* An endpoint that failed is through; one whose circuit is open, too.
LEMMA NextEndpoint ==
    ASSUME PassedAreThrough, NEW r \in Running, NEW p,
           p \in Progress, p.at = flight[r].at + 1,
           p.through = flight[r].through \union {Url(r)},
           flight' = [flight EXCEPT ![r] = p]
    PROVE  PassedAreThrough'
<1>1. r \in DOMAIN flight /\ flight[r].at \in 1..Len(Endpoints) /\ Url(r) = Endpoints[flight[r].at]
  BY RunningIsAt
<1>2. Len(Endpoints) \in Nat
  BY EndpointsAreUrls
<1>3. p.at \in 1..(Len(Endpoints) + 1)
  BY <1>1, <1>2
<1>4. \A i \in 1..Len(Endpoints) : i < p.at => Endpoints[i] \in p.through
  <2> SUFFICES ASSUME NEW i \in 1..Len(Endpoints), i < p.at PROVE Endpoints[i] \in p.through
    OBVIOUS
  <2>1. CASE i = flight[r].at
    BY <1>1, <2>1
  <2>2. CASE i < flight[r].at
    BY <1>1, <2>2 DEF PassedAreThrough
  <2> QED
    BY <1>1, <1>2, <2>1, <2>2
<1>5. flight'[r] = p
  BY <1>1
<1> QED
  BY <1>1, <1>3, <1>4, <1>5, PassedKept

LEMMA SkipKeeps == ASSUME RequestInv, NEW r, Skip(r) PROVE RequestInv'
<1> DEFINE p == NextUp(flight[r], flight[r].error, flight[r].through \union {Url(r)})
<1>1. r \in Running /\ Circuit(r).open /\ UNCHANGED <<mode, circuits, streak>>
  BY DEF Skip, clientVars, scanVars
<1>2. r \in DOMAIN flight /\ Url(r) \in Urls /\ flight[r] \in Progress
  BY <1>1, RunningIsAt DEF RequestInv, PassedAreThrough
<1>3. streak[Method][Url(r)] = Threshold
  BY <1>1, <1>2, MethodIs DEF RequestInv, CircuitsCount, Circuit
<1>4. flight' = [flight EXCEPT ![r] = p]
  <2>1. streak[Method][Url(r)] >= Threshold
    BY <1>3, Constants
  <2> QED
    BY <1>2, <2>1 DEF Skip
<1>5. p \in Progress /\ p.at = flight[r].at + 1 /\ p.through = flight[r].through \union {Url(r)}
  BY <1>2 DEF Progress, NextUp
<1> HIDE DEF p
<1>6. PassedAreThrough'
  BY <1>1, <1>4, <1>5, NextEndpoint DEF RequestInv
<1>7. CircuitsCount'
  BY <1>1 DEF RequestInv, CircuitsCount
<1> QED
  BY <1>1, <1>6, <1>7 DEF RequestInv

LEMMA RefusedKeeps ==
    ASSUME RequestInv, NEW r, NEW error \in Errors, Refused(r, error)
    PROVE  RequestInv'
<1> DEFINE p == NextUp(flight[r], error, flight[r].through \union {Url(r)})
<1>1. r \in Running /\ mode' = mode
  BY DEF Refused, scanVars
<1>2. r \in DOMAIN flight /\ Url(r) \in Urls /\ flight[r] \in Progress
  BY <1>1, RunningIsAt DEF RequestInv, PassedAreThrough
<1>3. flight' = [flight EXCEPT ![r] = p]
  BY <1>2 DEF Refused
<1>4. p \in Progress /\ p.at = flight[r].at + 1 /\ p.through = flight[r].through \union {Url(r)}
  BY <1>2 DEF Progress, NextUp
<1> HIDE DEF p
<1>5. PassedAreThrough'
  BY <1>1, <1>3, <1>4, NextEndpoint DEF RequestInv
<1>6. CircuitsCount'
  BY <1>2, MethodIs, FailureCounts DEF RequestInv, Refused
<1> QED
  BY <1>1, <1>5, <1>6 DEF RequestInv

\* A request is sent, or all endpoints are tried once more.
LEMMA SameThroughKeeps ==
    ASSUME RequestInv, NEW r, Send(r) \/ TryAgain(r)
    PROVE  RequestInv'
<1>1. r \in DOMAIN flight /\ UNCHANGED <<mode, circuits, streak>>
  BY DEF Send, TryAgain, Running, clientVars, scanVars
<1>2. flight[r] \in Progress /\ flight[r].at \in 1..(Len(Endpoints) + 1)
  BY <1>1 DEF RequestInv, PassedAreThrough
<1>3. PICK p : /\ p \in Progress /\ p.at \in {flight[r].at, 1} /\ p.through = flight[r].through
               /\ flight' = [flight EXCEPT ![r] = p]
  <2>1. CASE Send(r)
    <3> DEFINE p == [flight[r] EXCEPT !.sent = TRUE]
    <3>1. p \in Progress /\ p.at = flight[r].at /\ p.through = flight[r].through
      BY <1>2 DEF Progress
    <3>2. flight' = [flight EXCEPT ![r] = p]
      BY <1>1, <2>1 DEF Send
    <3> QED
      BY <3>1, <3>2
  <2>2. CASE TryAgain(r)
    <3> DEFINE p == [attempt |-> flight[r].attempt + 1, at |-> 1, sent |-> FALSE,
                     error |-> flight[r].error, through |-> flight[r].through]
    <3>1. p \in Progress /\ p.at = 1 /\ p.through = flight[r].through
      BY <1>2 DEF Progress
    <3>2. flight' = [flight EXCEPT ![r] = p]
      BY <1>1, <2>2 DEF TryAgain
    <3> QED
      BY <3>1, <3>2
  <2> QED
    BY <2>1, <2>2
<1>5. flight'[r] = p /\ p.at \in 1..(Len(Endpoints) + 1)
  BY <1>1, <1>2, <1>3, EndpointsAreUrls
<1>6. \A i \in 1..Len(Endpoints) : i < p.at => Endpoints[i] \in p.through
  BY <1>1, <1>3 DEF RequestInv, PassedAreThrough
<1>7. PassedAreThrough'
  BY <1>1, <1>3, <1>5, <1>6, PassedKept DEF RequestInv
<1>8. CircuitsCount'
  BY <1>1 DEF RequestInv, CircuitsCount
<1> QED
  BY <1>1, <1>7, <1>8 DEF RequestInv

\* Requests start, or are dropped, and the circuits stay.
LEMMA NewKeeps ==
    ASSUME RequestInv, UNCHANGED <<circuits, streak>>,
           \A s \in DOMAIN flight' :
               (s \in DOMAIN flight /\ flight'[s] = flight[s]) \/ flight'[s] = NewRequest
    PROVE  RequestInv'
<1>1. PassedAreThrough'
  BY NewIsPassed DEF RequestInv
<1>2. CircuitsCount'
  BY DEF RequestInv, CircuitsCount
<1> QED
  BY <1>1, <1>2 DEF RequestInv

LEMMA AnswerKeeps ==
    ASSUME RequestInv, NEW r \in DOMAIN flight, Answered(r) \/ Garbled(r)
    PROVE  RequestInv'
<1>1. AnswerFrom(r) /\ r \in Running
  BY DEF Answered, Garbled, AnswerFrom
<1>2. CircuitsCount'
  BY <1>1, RunningIsAt, MethodIs, AnswerResets DEF RequestInv
<1>3. \A s \in DOMAIN flight' : s \in DOMAIN flight /\ flight'[s] = flight[s]
  BY DEF Answered, Garbled, Fresh, Without
<1>5. PassedAreThrough'
  BY <1>3, NewIsPassed DEF RequestInv
<1> QED
  BY <1>2, <1>5 DEF RequestInv

THEOREM RequestInvariant == Spec => []RequestInv
<1>1. Init => RequestInv
  BY RequestInit
<1>2. RequestInv /\ [Next]_vars => RequestInv'
  <2> SUFFICES ASSUME RequestInv, [Next]_vars PROVE RequestInv'
    OBVIOUS
  <2>1. CASE UNCHANGED vars
    BY <2>1 DEF RequestInv, CircuitsCount, PassedAreThrough, vars, clientVars, scanVars
  <2>2. CASE Poll
    BY <2>2, NewKeeps DEF Poll, Fresh, clientVars
  <2>3. CASE Call
    <3>1. \A s \in DOMAIN flight' : flight'[s] = NewRequest
      BY <2>3 DEF Call
    <3> QED
      BY <2>3, <3>1, NewKeeps DEF Call, clientVars
  <2>4. CASE Begin
    <3>1. \A s \in DOMAIN flight' :
              (s \in DOMAIN flight /\ flight'[s] = flight[s]) \/ flight'[s] = NewRequest
      BY <2>4 DEF Begin
    <3> QED
      BY <2>4, <3>1, NewKeeps DEF Begin, RequestInv, clientVars, scanVars
  <2>5. CASE ChunkDone \/ ScanDone
    BY <2>5, NewKeeps DEF ChunkDone, ScanDone, RequestInv, clientVars
  <2>6. ASSUME NEW r \in DOMAIN flight, Progresses(r) PROVE RequestInv'
    <3>1. CASE Skip(r)
      BY <3>1, SkipKeeps
    <3>2. CASE \E error \in Errors : Refused(r, error)
      BY <3>2, RefusedKeeps
    <3>3. CASE Send(r) \/ TryAgain(r)
      BY <3>3, SameThroughKeeps
    <3>4. CASE Answered(r) \/ Garbled(r)
      BY <2>6, <3>4, AnswerKeeps
    <3>5. CASE RetryRange(r)
      BY <3>5, NewKeeps DEF RetryRange, RequestInv, clientVars
    <3>6. CASE ScanFails(r) \/ FallBack(r) \/ CallFails(r) \/ CallReverts(r)
      BY <3>6, NewKeeps DEF ScanFails, FallBack, CallFails, CallReverts, Fresh, AllModes, clientVars
    <3> QED
      BY <2>6, <3>1, <3>2, <3>3, <3>4, <3>5, <3>6 DEF Progresses
  <2>7. CASE CircuitCloses
    <3>1. PICK m \in Methods, u \in Urls :
              circuits' = [circuits EXCEPT ![m][u] = [failures |-> circuits[m][u].failures, open |-> FALSE]]
      BY <2>7 DEF CircuitCloses
    <3>2. streak' = streak /\ flight' = flight /\ mode' = mode
      BY <2>7 DEF CircuitCloses, scanVars
    <3>3. CircuitsCount'
      <4> DEFINE new == [failures |-> circuits[m][u].failures, open |-> FALSE]
      <4>1. new \in [failures: 0..Threshold, open: BOOLEAN] /\ new.failures = streak[m][u] /\ ~ new.open
        BY DEF RequestInv, CircuitsCount
      <4>2. circuits' = [circuits EXCEPT ![m][u] = new]
        BY <3>1
      <4> HIDE DEF new
      <4> QED
        BY <3>2, <4>1, <4>2 DEF RequestInv, CircuitsCount
    <3> QED
      BY <3>2, <3>3 DEF RequestInv, PassedAreThrough
  <2>8. CASE Refill
    BY <2>8 DEF Refill, RequestInv, CircuitsCount, PassedAreThrough, scanVars
  <2> QED
    BY <2>1, <2>2, <2>3, <2>4, <2>5, <2>6, <2>7, <2>8 DEF Next
<1> QED
  BY <1>1, <1>2, PTL DEF Spec

\* rpc/mod.rs, request: a request is given up only after every endpoint has failed
\* it or was passed over with its circuit open for as many failures in a row, for
\* every list of endpoints, threshold and number of attempts.
THEOREM FailsAfterAllHolds == Spec => []FailsAfterAll
<1>1. RequestInv => FailsAfterAll
  <2> SUFFICES ASSUME RequestInv, NEW r \in DOMAIN flight, GivenUp(r)
               PROVE  flight[r].through = Urls
    BY DEF FailsAfterAll
  <2>1. flight[r] \in Progress /\ flight[r].at \in 1..(Len(Endpoints) + 1)
    BY DEF RequestInv, PassedAreThrough
  <2>2. \A i \in 1..Len(Endpoints) : i < flight[r].at
    BY <2>1, EndpointsAreUrls DEF GivenUp, Running
  <2>3. \A i \in 1..Len(Endpoints) : Endpoints[i] \in flight[r].through
    BY <2>2 DEF RequestInv, PassedAreThrough
  <2>4. flight[r].through \subseteq Urls
    BY <2>1 DEF Progress
  <2> QED
    BY <2>3, <2>4, EndpointsAreUrls
<1> QED
  BY <1>1, RequestInvariant, PTL

==========================================================================

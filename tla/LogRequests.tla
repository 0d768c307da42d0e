----------------------------- MODULE LogRequests -----------------------------
(***************************************************************************)
(* The scans for logs of src/discovery/event_stream.rs on top of the       *)
(* requests of RpcClient (src/rpc/mod.rs): a range of blocks is cut into   *)
(* chunks, a chunk into requests that run concurrently, and a request goes *)
(* from one endpoint to the next, past those whose circuit is open, until  *)
(* it is answered or given up.  Calls share the client and its budget.     *)
(***************************************************************************)
EXTENDS Naturals, Sequences, FiniteSets

CONSTANTS
    None,          \* no URL
    Public, Fallback, Preconf,     \* RpcSettings: URLs, the last two may be None
    Groups,        \* the chunks of EVENT_LOG_ADDRESS_CHUNK_SIZE watched addresses
    Whole,         \* stands for all of them in a request by topic or block
    Plans,         \* bound: what is scanned for and called, one after the other
    TopicFallback, \* EVENT_RECEIPTS_FALLBACK_TO_TOPIC_LOGS
    ChunkBlocks,   \* EVENT_LOG_CHUNK_BLOCKS
    RangeCap,      \* adapt_log_chunk_size: what the chain allows
    ReceiptBlocks, \* EVENT_RECEIPT_MAX_BLOCKS
    MinChunk,      \* EVENT_LOG_MIN_CHUNK_BLOCKS
    ChunkRetries,  \* EVENT_LOG_CHUNK_MAX_RETRIES
    Concurrency,   \* EVENT_LOG_ADDRESS_CONCURRENCY, EVENT_RECEIPT_CONCURRENCY
    Retries,       \* rpc_max_retries: method -> retries
    Units,         \* rpc_compute_units: method -> units
    Capacity,      \* RPC_CU_BURST
    Threshold,     \* RPC_PROVIDER_FAILURE_THRESHOLD
    To             \* bound: blocks of a range

Methods == {"eth_getLogs", "eth_getBlockReceipts", "eth_call"}
AllModes == {"topic_logs", "address_logs", "block_receipts"}
Urls == {Public, Fallback, Preconf} \ {None}

\* The limiter never grants a request that costs more than it can hold.
ASSUME RequestsAssumption ==
    /\ Public # None
    /\ Whole \notin Groups /\ IsFiniteSet(Groups)
    /\ Plans \subseteq Seq(AllModes \union {"call"})
    /\ TopicFallback \in BOOLEAN
    /\ {ChunkBlocks, RangeCap, ReceiptBlocks, MinChunk, Concurrency, Threshold, To} \subseteq Nat \ {0}
    /\ {ChunkRetries, Capacity} \subseteq Nat
    /\ Retries \in [Methods -> Nat]
    /\ Units \in [Methods -> 0..Capacity]

VARIABLES
    circuits,   \* endpoint_status: method, URL -> [failures, open]
    tokens,     \* RpcCuLimiter
    mode,       \* how the scan that runs reads; "call" for a call, "none"
    start,      \* its first block that is still missing
    chunk,      \* chunk_blocks
    retries,    \* retry_count
    flight,     \* the requests that run, or wait to be tried again
    rangeLogs,  \* the requests of this chunk that were answered: range_logs
    logs,       \* how often each block and group is among the logs so far
    outcome,    \* of the last scan or call
    plan,       \* what is left of a member of Plans
    streak      \* ghost: method, URL -> its last answers that were failures

clientVars == <<circuits, tokens, streak>>
scanVars == <<mode, start, chunk, retries, logs, plan>>
vars == <<clientVars, scanVars, flight, rangeLogs, outcome>>

-----------------------------------------------------------------------------
(* The clients *)

\* A URL joins a list that does not name it yet: compact_unique_urls, and
\* endpoints_for_method for those of the other clients.
With(urls, u) ==
    IF u = None \/ \E i \in 1..Len(urls) : urls[i] = u THEN urls ELSE Append(urls, u)

\* endpoints_for_method of best_read, for a method that may be asked twice
Endpoints ==
    IF Preconf # None THEN With(With(<<Preconf>>, Public), Fallback)
    ELSE With(With(<<Public>>, Preconf), Fallback)

Errors == {"range", "timeout", "transient", "fatal"}
\* should_reduce_chunk_size and is_transient_log_error on the message
Reduces(error) == error \in {"range", "timeout"}
Transient(error) == error \in {"timeout", "transient"}

\* The error of a request that no endpoint was asked for is "rpc request failed".
Unasked == "transient"

Method ==
    IF mode = "call" THEN "eth_call"
    ELSE IF mode = "block_receipts" THEN "eth_getBlockReceipts" ELSE "eth_getLogs"

Requests == [from: 1..To, to: 1..To, group: Groups \union {Whole}]
\* `through`, a ghost: the endpoints that failed the request, or were passed over
\* after as many failures in a row as open a circuit
Progress == [attempt: Nat, at: Nat, sent: BOOLEAN, error: Errors, through: SUBSET Urls]

NewRequest == [attempt |-> 0, at |-> 1, sent |-> FALSE, error |-> Unasked, through |-> {}]

Running == {r \in DOMAIN flight : flight[r].at <= Len(Endpoints)}
Url(r) == Endpoints[flight[r].at]
Circuit(r) == circuits[Method][Url(r)]

\* The types of the variables.
LogTypeOK ==
    /\ circuits \in [Methods -> [Urls -> [failures: 0..Threshold, open: BOOLEAN]]]
    /\ tokens \in 0..Capacity
    /\ mode \in AllModes \union {"call", "none"}
    /\ start \in 1..(To + 1)
    /\ chunk \in 1..(ChunkBlocks + ReceiptBlocks)
    /\ retries \in 0..(ChunkRetries + ChunkBlocks)
    /\ DOMAIN flight \subseteq Requests
    /\ \A r \in DOMAIN flight :
          /\ flight[r] \in Progress
          /\ flight[r].attempt <= Retries[Method] /\ flight[r].at <= Len(Endpoints) + 1
    /\ Cardinality(DOMAIN flight) <= Concurrency
    /\ rangeLogs \subseteq Requests /\ rangeLogs \intersect DOMAIN flight = {}
    /\ mode = "none" => flight = << >>
    /\ logs \in [1..To -> [Groups -> Nat]]
    /\ outcome \in {"none", "ok", "failed"}
    /\ plan \in Seq(AllModes \union {"call"})
    /\ streak \in [Methods -> [Urls -> 0..Threshold]]

Init ==
    /\ circuits = [m \in Methods |-> [u \in Urls |-> [failures |-> 0, open |-> FALSE]]]
    /\ tokens = Capacity
    /\ mode = "none" /\ start = 1 /\ chunk = 1 /\ retries = 0
    /\ flight = << >>
    /\ rangeLogs = {}
    /\ logs = [b \in 1..To |-> [g \in Groups |-> 0]]
    /\ outcome = "none"
    /\ plan \in Plans
    /\ streak = [m \in Methods |-> [u \in Urls |-> 0]]

-----------------------------------------------------------------------------
(* A request *)

\* The progress of a request that goes on to the next endpoint
NextUp(p, error, through) ==
    [attempt |-> p.attempt, at |-> p.at + 1, sent |-> FALSE, error |-> error, through |-> through]

\* The circuit of the next endpoint is open: it is passed over.
Skip(r) ==
    /\ r \in Running /\ ~ flight[r].sent /\ Circuit(r).open
    /\ LET through == IF streak[Method][Url(r)] >= Threshold THEN {Url(r)} ELSE {}
       IN  flight' = [flight EXCEPT ![r] = NextUp(@, @.error, @.through \union through)]
    /\ UNCHANGED <<clientVars, scanVars, rangeLogs, outcome>>

\* acquire_rpc_budget, then the request is sent.
Send(r) ==
    /\ r \in Running /\ ~ flight[r].sent /\ ~ Circuit(r).open
    /\ tokens >= Units[Method]
    /\ tokens' = tokens - Units[Method]
    /\ flight' = [flight EXCEPT ![r].sent = TRUE]
    /\ UNCHANGED <<circuits, streak, scanVars, rangeLogs, outcome>>

Without(r) == [s \in DOMAIN flight \ {r} |-> flight[s]]

\* An answer, which record_endpoint_success notes
AnswerFrom(r) ==
    /\ r \in Running /\ flight[r].sent
    /\ circuits' = [circuits EXCEPT ![Method][Url(r)] = [failures |-> 0, open |-> FALSE]]
    /\ streak' = [streak EXCEPT ![Method][Url(r)] = 0]
    /\ UNCHANGED tokens

Answered(r) ==
    /\ AnswerFrom(r)
    /\ flight' = Without(r)
    /\ IF mode = "call" THEN mode' = "none" /\ outcome' = "ok" ELSE UNCHANGED <<mode, outcome>>
    /\ rangeLogs' = IF mode = "call" THEN {} ELSE rangeLogs \union {r}
    /\ UNCHANGED <<start, chunk, retries, logs, plan>>

AtMost(n, bound) == IF n < bound THEN n ELSE bound

\* Slip: a failure opens the circuits of all methods.
RecordFailureOfAll(m, u) ==
    [n \in Methods |-> [circuits[n] EXCEPT ![u] =
        [failures |-> AtMost(circuits[m][u].failures + 1, Threshold),
         open |-> circuits[n][u].open \/ circuits[m][u].failures + 1 >= Threshold]]]

\* record_endpoint_failure: failures are counted past the threshold there, where
\* one more opens the circuit again.
RecordFailure(m, u) ==
    [circuits EXCEPT ![m][u] = [failures |-> AtMost(@.failures + 1, Threshold),
                                open |-> @.open \/ @.failures + 1 >= Threshold]]

\* The endpoint fails or is too slow; the next one is tried.
Refused(r, error) ==
    /\ r \in Running /\ flight[r].sent
    /\ circuits' = RecordFailure(Method, Url(r))
    /\ streak' = [streak EXCEPT ![Method][Url(r)] = AtMost(@ + 1, Threshold)]
    /\ flight' = [flight EXCEPT ![r] = NextUp(@, error, @.through \union {Url(r)})]
    /\ UNCHANGED <<tokens, scanVars, rangeLogs, outcome>>

\* All endpoints are through: after a pause they are tried again.
TryAgain(r) ==
    /\ r \in DOMAIN flight \ Running /\ flight[r].attempt < Retries[Method]
    /\ flight' = [flight EXCEPT ![r] =
          [attempt |-> @.attempt + 1, at |-> 1, sent |-> FALSE, error |-> @.error,
           through |-> @.through]]
    /\ UNCHANGED <<clientVars, scanVars, rangeLogs, outcome>>

GivenUp(r) == r \in DOMAIN flight \ Running /\ flight[r].attempt = Retries[Method]

\* The window in which a circuit is open ends.
CircuitCloses ==
    /\ \E m \in Methods, u \in Urls :
          /\ circuits[m][u].open
          /\ circuits' = [circuits EXCEPT ![m][u] = [failures |-> @.failures, open |-> FALSE]]
    /\ UNCHANGED <<tokens, streak, scanVars, flight, rangeLogs, outcome>>

Refill ==
    /\ tokens < Capacity
    /\ tokens' = tokens + 1
    /\ UNCHANGED <<circuits, streak, scanVars, flight, rangeLogs, outcome>>

-----------------------------------------------------------------------------
(* The scans *)

FirstChunk(m) ==
    IF m = "block_receipts" THEN ReceiptBlocks
    ELSE IF m = "address_logs" THEN AtMost(ChunkBlocks, RangeCap) ELSE ChunkBlocks

Fresh(m) ==
    /\ mode' = m
    /\ start' = 1
    /\ chunk' = FirstChunk(m)
    /\ retries' = 0
    /\ logs' = [b \in 1..To |-> [g \in Groups |-> 0]]
    /\ flight' = << >>
    /\ rangeLogs' = {}

\* poll_logs, or poll_wss_reconcile_logs, on the range 1..To
Poll ==
    /\ mode = "none" /\ plan # << >> /\ Head(plan) # "call"
    /\ Fresh(Head(plan))
    /\ plan' = Tail(plan)
    /\ outcome' = "none"
    /\ UNCHANGED clientVars

Call ==
    /\ mode = "none" /\ plan # << >> /\ Head(plan) = "call"
    /\ mode' = "call"
    /\ flight' = [r \in {[from |-> 1, to |-> 1, group |-> Whole]} |-> NewRequest]
    /\ plan' = Tail(plan)
    /\ outcome' = "none"
    /\ UNCHANGED <<clientVars, start, chunk, retries, logs, rangeLogs>>

End == AtMost(start + chunk - 1, To)

\* The requests of a chunk
ChunkRequests ==
    IF mode = "topic_logs" THEN {[from |-> start, to |-> End, group |-> Whole]}
    ELSE IF mode = "address_logs" THEN {[from |-> start, to |-> End, group |-> g] : g \in Groups}
    ELSE {[from |-> b, to |-> b, group |-> Whole] : b \in start..End}

Scanning == mode \in AllModes /\ start <= To

\* buffer_unordered starts another request.
Begin ==
    /\ Scanning
    /\ Cardinality(DOMAIN flight) < Concurrency
    /\ \E r \in ChunkRequests \ (DOMAIN flight \union rangeLogs) :
          flight' = [s \in DOMAIN flight \union {r} |-> IF s = r THEN NewRequest ELSE flight[s]]
    /\ UNCHANGED <<clientVars, scanVars, rangeLogs, outcome>>

Covers(r, b, g) == r.from <= b /\ b <= r.to /\ r.group \in {g, Whole}

\* The logs with those of the answered requests appended
Appended ==
    [b \in 1..To |-> [g \in Groups |->
        logs[b][g] + Cardinality({r \in rangeLogs : Covers(r, b, g)})]]

\* A chunk is complete: on to the next one, with a chunk of the size reached.
ChunkDone ==
    /\ Scanning /\ ChunkRequests \subseteq rangeLogs
    /\ logs' = Appended
    /\ rangeLogs' = {}
    /\ start' = End + 1
    /\ retries' = 0
    /\ UNCHANGED <<clientVars, mode, chunk, flight, outcome, plan>>

ScanDone ==
    /\ mode \in AllModes /\ start > To
    /\ mode' = "none"
    /\ outcome' = "ok"
    /\ UNCHANGED <<clientVars, start, chunk, retries, logs, flight, rangeLogs, plan>>

Larger(a, b) == IF a > b THEN a ELSE b

\* What an error means for the chunk: the next size, or the end of the scan.
\* By topic a range that is too large is halved as often as it takes.
Halves(error) ==
    /\ Reduces(error)
    /\ \/ mode = "topic_logs" /\ chunk > 1
       \/ mode = "address_logs" /\ retries < ChunkRetries
Waits(error) ==
    ~ Halves(error) /\ Transient(error) /\ retries < ChunkRetries /\ mode # "block_receipts"

\* Slip: what was answered before the error stays among the logs.
AfterError == rangeLogs

\* range_logs starts anew with the range; requests in flight are dropped.
Kept == {}

\* Slip: a retry is not counted.
CountNothing == retries

CountRetry == retries + 1

\* A request fails: the range is tried again, from its first block on.
RetryRange(r) ==
    /\ GivenUp(r) /\ mode \in {"topic_logs", "address_logs"}
    /\ LET error == flight[r].error
       IN  /\ Halves(error) \/ Waits(error)
           /\ chunk' = IF Halves(error) THEN Larger(chunk \div 2, 1)
                       ELSE IF chunk > MinChunk THEN Larger(chunk \div 2, MinChunk) ELSE chunk
    /\ retries' = CountRetry
    /\ flight' = << >>
    /\ rangeLogs' = Kept
    /\ UNCHANGED <<clientVars, mode, start, logs, outcome, plan>>

\* ... or the scan fails with it, and with it the poll ...
ScanFails(r) ==
    /\ GivenUp(r) /\ mode \in AllModes
    /\ ~ Halves(flight[r].error) /\ ~ Waits(flight[r].error)
    /\ mode = "block_receipts" => ~ TopicFallback
    /\ flight' = << >> /\ rangeLogs' = {}
    /\ mode' = "none"
    /\ outcome' = "failed"
    /\ UNCHANGED <<clientVars, start, chunk, retries, logs, plan>>

\* ... or starts again by topic.
FallBack(r) ==
    /\ GivenUp(r) /\ mode = "block_receipts" /\ TopicFallback
    /\ Fresh("topic_logs")
    /\ UNCHANGED <<clientVars, outcome, plan>>

\* An answer that cannot be parsed ends a scan like any other last error.
Garbled(r) ==
    /\ mode \in AllModes
    /\ AnswerFrom(r)
    /\ IF mode = "block_receipts" /\ TopicFallback
       THEN Fresh("topic_logs") /\ UNCHANGED outcome
       ELSE /\ flight' = << >> /\ rangeLogs' = {}
            /\ mode' = "none"
            /\ outcome' = "failed"
            /\ UNCHANGED <<start, chunk, retries, logs>>
    /\ UNCHANGED <<plan>>

-----------------------------------------------------------------------------
(* A call *)

CallFails(r) ==
    /\ GivenUp(r) /\ mode = "call"
    /\ flight' = << >>
    /\ mode' = "none"
    /\ outcome' = "failed"
    /\ UNCHANGED <<clientVars, start, chunk, retries, logs, rangeLogs, plan>>

\* should_record_endpoint_failure: an error of the call itself is no failure of
\* the endpoint, and is returned.
CallReverts(r) ==
    /\ mode = "call" /\ r \in Running /\ flight[r].sent
    /\ flight' = << >>
    /\ mode' = "none"
    /\ outcome' = "failed"
    /\ UNCHANGED <<clientVars, start, chunk, retries, logs, rangeLogs, plan>>

Progresses(r) ==
    \/ Skip(r) \/ Send(r) \/ TryAgain(r)
    \/ Answered(r) \/ Garbled(r) \/ CallReverts(r)
    \/ \E error \in Errors : Refused(r, error)
    \/ RetryRange(r) \/ ScanFails(r) \/ FallBack(r) \/ CallFails(r)

Next ==
    \/ Poll \/ Call
    \/ Begin \/ ChunkDone \/ ScanDone
    \/ \E r \in DOMAIN flight : Progresses(r)
    \/ CircuitCloses \/ Refill

\* A task that can go on does, every request ends at the latest when its
\* timeout runs out, and the limiter is refilled while time passes.
Fairness ==
    /\ WF_vars(Begin \/ ChunkDone \/ ScanDone)
    /\ WF_vars(\E r \in DOMAIN flight : Progresses(r))
    /\ WF_vars(Refill)

Spec == Init /\ [][Next]_vars /\ Fairness

-----------------------------------------------------------------------------
(* Properties *)

\* A scan that returns has asked for every block of its range and every watched
\* address, and has each once, however often chunks were cut, requests dropped
\* half-way, or the way to scan changed.
WholeRange ==
    outcome = "ok" /\ mode = "none" /\ start > To =>
        \A b \in 1..To, g \in Groups : logs[b][g] = 1

\* A request is given up only after every endpoint has failed it, or was passed
\* over when it had failed so many requests of this method in a row that its
\* circuit is open, whatever other requests and calls did to the circuits.
FailsAfterAll ==
    \A r \in DOMAIN flight : GivenUp(r) => flight[r].through = Urls

\* A scan, or a call, ends whatever the endpoints do: with its result, or with an
\* error once the retries are used up.
ScanEnds == (mode # "none") ~> (mode = "none")

=============================================================================

---------------------------- MODULE WssFollower ----------------------------
(***************************************************************************)
(* The loop of run_chain with EVENT_INGEST_MODE=wss: poll_wss_hybrid of    *)
(* src/discovery/event_stream.rs takes the logs a subscription has queued  *)
(* and, when a reconciliation is due, asks a node for the logs of all      *)
(* blocks since the last one.  Everything but the poll is ChainFollower.   *)
(*                                                                         *)
(* Each block carries one watched log, so a block stands for its log and   *)
(* `batch` is a set of logs.  The body of a log is its transaction, event  *)
(* and data: what log_key sees of it besides the block's number.           *)
(***************************************************************************)
EXTENDS ChainFollower

CONSTANTS
    BodyOf,          \* block -> body of its log
    Confirmations,   \* EVENT_WSS_RECONCILE_CONFIRMATION_BLOCKS
    RecentLogs       \* EVENT_WSS_RECENT_LOG_CACHE

\* A rewrite replaces at most the blocks a reconciliation leaves out, and the loop
\* starts no less below the head (as shipped: 0 or 1 blocks, and 16 or 32).
ASSUME WssAssumption ==
    /\ DOMAIN BodyOf = Blocks
    /\ Confirmations \in Nat /\ RecentLogs \in Nat \ {0}
    /\ Confirmations <= Backfill
    /\ \A f, g \in 1..Len(Forks) : f < g =>
          /\ Len(Forks[f]) <= Len(Forks[g])
          /\ \A i \in 1..(Len(Forks[f]) - Confirmations) : Forks[f][i] = Forks[g][i]

NotYet == -1   \* last_wss_reconciled_block before the first poll

VARIABLES
    subscription,   \* off, connecting or on; ws_started unless off
    queue,          \* ws_rx: logs sent and not yet taken
    sent,           \* where on which fork the subscription's node is
    recent,         \* recent_wss_logs: the keys of the logs taken, oldest first
    reconciled,     \* last_wss_reconciled_block
    drained,        \* the logs a poll has taken when it waits for a reconciliation
    answer,         \* and the latest block it was told
    delivered,      \* ghost: keys of the logs of all batches, or below the first scan
    since,          \* ghost: those of the batches since the cursor last went back
    dropped         \* ghost: keys of the logs a failed poll had taken

streamVars == <<subscription, queue, sent>>
ingestVars == <<recent, reconciled, drained, answer, delivered, since, dropped>>
wssVars == <<vars, streamVars, ingestVars>>

Key(b) == <<b.number, BodyOf[b]>>
Keys(S) == {Key(b) : b \in S}
Elements(s) == {s[i] : i \in 1..Len(s)}

AllKeys == Keys(Blocks)

\* The types of the variables that ChainFollower does not have, and of those it has.
WssTypeOK ==
    /\ TypeOK
    /\ current \in Snapshot
    /\ pc \in {"poll", "reconcile", "tip", "refresh", "process", "stopped", "hung"}
    /\ cursor \in Nat
    /\ batch \subseteq Blocks
    /\ subscription \in {"off", "connecting", "on"}
    /\ queue \in Seq(Blocks)
    /\ sent \in [fork: 1..Len(Forks), height: Nat]
    /\ recent \in Seq(AllKeys) /\ Len(recent) <= RecentLogs
    /\ reconciled \in Nat \union {NotYet}
    /\ drained \in Seq(Blocks)
    /\ answer \in Nat
    /\ pc # "reconcile" => drained = <<>>

WssInit ==
    /\ Init
    /\ subscription = "off"
    /\ queue = <<>>
    /\ sent = [fork |-> 1, height |-> 0]
    /\ recent = <<>>
    /\ reconciled = NotYet
    /\ drained = <<>>
    /\ answer = 0
    /\ delivered = {Key(BlockAt(i)) : i \in 1..cursor}
    /\ since = {}
    /\ dropped = {}

-----------------------------------------------------------------------------
(* The subscription's task and its node *)

\* What is sent is of no interest once the loop has ended.
Running == pc \notin {"stopped", "hung"}

Connected ==
    /\ Running
    /\ subscription = "connecting"
    /\ subscription' = "on"
    /\ sent' = [fork |-> fork, height |-> height]
    /\ UNCHANGED <<queue, vars, ingestVars>>

\* The node sends the log of the next block.
Sends ==
    /\ Running
    /\ subscription = "on"
    /\ sent.fork = fork /\ sent.height < height
    /\ queue' = Append(queue, BlockAt(sent.height + 1))
    /\ sent' = [sent EXCEPT !.height = @ + 1]
    /\ UNCHANGED <<subscription, vars, ingestVars>>

\* Heights up to which two forks have the same blocks
Common(f, g) == {i \in 0..Len(Forks[f]) : \A j \in 1..i : Forks[f][j] = Forks[g][j]}

\* After a rewrite the node sends the logs of the replaced blocks once more,
\* marked as removed.  The task does not look at the mark.
Retracts ==
    /\ Running
    /\ subscription = "on"
    /\ sent.fork # fork
    /\ \E c \in Common(sent.fork, fork) :
          /\ \A d \in Common(sent.fork, fork) : d <= c
          /\ queue' = queue \o SubSeq(Forks[sent.fork], c + 1, sent.height)
          /\ sent' = [fork |-> fork, height |-> IF c < sent.height THEN c ELSE sent.height]
    /\ UNCHANGED <<subscription, vars, ingestVars>>

\* run_wss_log_subscription returns; what is queued stays until the next start.
Disconnected ==
    /\ Running
    /\ subscription # "off"
    /\ subscription' = "off"
    /\ UNCHANGED <<queue, sent, vars, ingestVars>>

-----------------------------------------------------------------------------
(* poll_wss_hybrid *)

\* RecentLogKeys.insert: a key that is known keeps its place, and the oldest
\* leaves when there are too many.
Remember(known, k) ==
    LET longer == IF k \in Elements(known) THEN known ELSE Append(known, k)
    IN  IF Len(longer) > RecentLogs THEN Tail(longer) ELSE longer

Recorded(known, logs) ==
    LET after[i \in 0..Len(logs)] ==
            IF i = 0 THEN known ELSE Remember(after[i - 1], Key(logs[i]))
    IN  after[Len(logs)]

\* dedup_logs: of the logs with one key the first stays.
Deduped(logs) ==
    {logs[i] : i \in {j \in 1..Len(logs) : \A k \in 1..(j - 1) : Key(logs[k]) # Key(logs[j])}}

\* The logs that are in S, in their order
Those(logs, S) ==
    LET after[i \in 0..Len(logs)] ==
            IF i = 0 THEN <<>>
            ELSE IF logs[i] \in S THEN Append(after[i - 1], logs[i]) ELSE after[i - 1]
    IN  after[Len(logs)]

AboveCursor(logs) == Those(logs, {b \in Blocks : b.number > cursor})

\* Slips: logs that are too old leave their keys behind, or no log does.
RecentWithOld(logs) == Recorded(recent, logs)
RecentUnrecorded(logs) == recent

\* Of the logs taken from the queue only those above the cursor are kept and
\* have their keys recorded.
RecentAfter(logs) == Recorded(recent, AboveCursor(logs))

LastReconciled == IF reconciled = NotYet THEN cursor ELSE reconciled

Deliver(logs, latest) ==
    /\ batch' = Deduped(logs)
    /\ delivered' = delivered \union Keys(batch')
    /\ since' = since \union Keys(batch')
    /\ cursor' = IF latest > cursor THEN latest ELSE cursor
    /\ drained' = <<>>
    /\ answer' = 0
    /\ pc' = "tip"

\* start_wss: a new task gets a new queue.
StartWss ==
    /\ subscription' = IF subscription = "off" THEN "connecting" ELSE subscription
    /\ queue' = <<>>
    /\ UNCHANGED sent

Queued == IF subscription = "off" THEN <<>> ELSE queue

Target(latest) == SaturatingSub(latest, Confirmations)

\* Up to the request of a reconciliation that is due.
StartReconcile(latest) ==
    /\ pc = "poll"
    /\ Answered(latest)
    /\ Target(latest) > LastReconciled
    /\ StartWss
    /\ drained' = AboveCursor(Queued)
    /\ recent' = RecentAfter(Queued)
    /\ reconciled' = LastReconciled
    /\ answer' = latest
    /\ event' = NoEvent
    /\ pc' = "reconcile"
    /\ UNCHANGED <<historyVars, storeVars, cursor, batch, taken, chainVars, delivered, since,
                   dropped>>

\* No reconciliation is due.  One that can be done is due when the subscription
\* has just been started; otherwise intervals, a burst or the gap decide, which
\* is left open here.
PollStream(latest) ==
    /\ pc = "poll"
    /\ Answered(latest)
    /\ subscription # "off" \/ Target(latest) <= LastReconciled
    /\ StartWss
    /\ Deliver(AboveCursor(Queued), latest)
    /\ recent' = RecentAfter(Queued)
    /\ reconciled' = LastReconciled
    /\ event' = NoEvent
    /\ UNCHANGED <<historyVars, storeVars, taken, chainVars, dropped>>

\* Slip: the reconciliation forgets how far it came.
ReconcileNotStored ==
    /\ pc = "reconcile"
    /\ Deliver(drained, answer)
    /\ UNCHANGED <<historyVars, event, storeVars, taken, chainVars, streamVars, recent,
                   reconciled, dropped>>

\* The logs of the range arrive; those that were taken from a queue before are
\* left out.
ReconcileOk ==
    /\ pc = "reconcile"
    /\ LET range == [i \in 1..(Target(answer) - reconciled) |-> BlockAt(reconciled + i)]
           unseen == Those(range, {b \in Blocks : Key(b) \notin Elements(recent)})
       IN  Deliver(unseen \o drained, answer)
    /\ reconciled' = Target(answer)
    /\ UNCHANGED <<historyVars, event, storeVars, taken, chainVars, streamVars, recent, dropped>>

\* The request fails and poll_once with it: the cursor stays, and the logs
\* taken from the queue are lost.
ReconcileFails ==
    /\ pc = "reconcile"
    /\ dropped' = dropped \union Keys(Elements(drained))
    /\ drained' = <<>>
    /\ answer' = 0
    /\ pc' = "poll"
    /\ UNCHANGED <<detectorVars, storeVars, cursor, batch, taken, chainVars, streamVars,
                   recent, reconciled, delivered, since>>

-----------------------------------------------------------------------------

\* The rest of the loop, as in ChainFollower
Rest ==
    /\ \/ TipUnknown
       \/ \E h \in 1..height : TipKnown(h)
       \/ RefreshPublishes
       \/ RefreshChangesNothing
       \/ Process
    /\ since' = IF cursor' < cursor THEN {} ELSE since
    /\ UNCHANGED <<streamVars, recent, reconciled, drained, answer, delivered, dropped>>

StartsReconcile == \E latest \in 1..height : StartReconcile(latest)
PollsStream == \E latest \in 1..height : PollStream(latest)

WssLoop == StartsReconcile \/ PollsStream \/ ReconcileOk \/ ReconcileFails \/ Rest

WssNext ==
    \/ WssLoop
    \/ (Stop \/ Grow \/ Reorganise) /\ UNCHANGED <<streamVars, ingestVars>>
    \/ Connected
    \/ Sends
    \/ Retracts
    \/ Disconnected

WssSpec == WssInit /\ [][WssNext]_wssVars

\* The interval of reconciliations elapses again and again, and not every
\* request for logs fails.
WssFairness ==
    /\ WF_wssVars(WssLoop)
    /\ SF_wssVars(StartsReconcile)
    /\ SF_wssVars(ReconcileOk)

WssFairSpec == WssSpec /\ WssFairness

-----------------------------------------------------------------------------
(* Properties *)

\* Up to the reconciled block every log of the chain has reached a batch, or
\* was taken by a poll whose reconciliation failed: logs that come late, with
\* a subscription that ends, or with blocks that are replaced, are made up for.
ReconciledIsDelivered ==
    \A h \in 1..reconciled : h <= height => Key(BlockAt(h)) \in delivered \union dropped

\* Blocks no rewrite replaces
Trunk == {b \in Blocks : \A f \in 1..Len(Forks) : \E i \in 1..Len(Forks[f]) : Forks[f][i] = b}

\* Between two rollbacks of the cursor the log of a block that is never replaced
\* reaches the batches at most once, in whatever order the stream and the
\* reconciliations present it: a Balancer patch adds to the pool's balances.
NewInBatch ==
    pc # "tip" /\ pc' = "tip" =>
        \A b \in batch' \intersect Trunk : Key(b) \notin since

TrunkDeliveredOnce == [][NewInBatch]_wssVars

\* What recent_wss_logs is large enough for: of the logs a poll takes, and of those it
\* remembered, it forgets only what no later reconciliation asks for.  Nothing in the
\* code sees to it; the default is 100,000 keys.
RemembersUnreconciled ==
    pc = "poll" /\ pc' \in {"tip", "reconcile"} =>
        \A k \in Elements(recent) \union Keys(Elements(AboveCursor(Queued))) :
            k \in Elements(recent') \/ k[1] <= reconciled'

\* Once the chain rests, reconciliations reach the confirmed head, unless an
\* error has ended the loop.
ReconcileCatchesUp ==
    <>[](pc \in {"stopped", "hung"} \/ reconciled >= height - MaxLag - Confirmations)

\* "Re-apply the events" (revised_dex_arb_design.md:278) after a rollback: between
\* two rounds the graph reflects every log that is both scanned (at or below the
\* cursor) and reconciled, but for those a failed poll has lost.  The reconciled
\* block does not go back with the cursor.
ReconciledIsReflected ==
    pc = "poll" =>
        \A h \in 1..reconciled : h <= cursor =>
            Key(BlockAt(h)) \in Keys(current.seen \union taken) \union dropped

=============================================================================

-------------------------- MODULE AnalyticsJournal --------------------------
(* AnalyticsJournalComponent (analytics_journal.py): the log_event messages  *)
(* of a system go to a buffer, and from there to DroneAnalytics in batches   *)
(* over HTTP.  A batch is taken under the lock, by the handler that fills    *)
(* it, by the flush thread or by stop(), and posted without the lock.        *)
EXTENDS Naturals, FiniteSets

CONSTANTS
    Events,         \* the log_event messages; each one has a handler
    BatchSize       \* JOURNAL_BATCH_SIZE

VARIABLES
    arrived,        \* events delivered to the journal, not yet handled
    buffer,         \* _buffer
    inHand,         \* what a thread took out of the buffer and posts now
    posted,         \* times DroneAnalytics took an event
    lost,           \* events of posts that failed
    journal         \* the component: running, flushed (in stop), stopped or over

journalVars == <<arrived, buffer, inHand, posted, lost, journal>>

\* A handler of each event, the flush thread and the thread that calls stop().
Threads == Events \cup {"flush", "stop"}

JournalInit ==
    /\ arrived = {} /\ buffer = {} /\ lost = {}
    /\ inHand = [t \in Threads |-> {}]
    /\ posted = [e \in Events |-> 0]
    /\ journal = "running"

\* The topic of the journal is subscribed to until stop() is past its flush.
Arrive(e) ==
    /\ journal \in {"running", "flushed"}
    /\ arrived' = arrived \cup {e}
    /\ UNCHANGED <<buffer, inHand, posted, lost, journal>>

\* A bug to check EventsKept against: the batch stays in the buffer as well.
TakeBatchCopied(t, entries) ==
    /\ buffer' = entries
    /\ inHand' = [inHand EXCEPT ![t] = entries]

\* batch = _buffer[:]; _buffer.clear()
TakeBatch(t, entries) ==
    /\ buffer' = {}
    /\ inHand' = [inHand EXCEPT ![t] = entries]

HandleLogEvent(e) ==
    /\ e \in arrived
    /\ arrived' = arrived \ {e}
    /\ LET entries == buffer \cup {e} IN
       IF Cardinality(entries) >= BatchSize
       THEN TakeBatch(e, entries)
       ELSE buffer' = entries /\ UNCHANGED inHand
    /\ UNCHANGED <<posted, lost, journal>>

\* The flush thread, each JOURNAL_FLUSH_INTERVAL while the component runs.
Flush ==
    /\ journal \in {"running", "flushed"}
    /\ inHand["flush"] = {} /\ buffer # {}
    /\ TakeBatch("flush", buffer)
    /\ UNCHANGED <<arrived, posted, lost, journal>>

\* It looks at _running before it sleeps: one more flush may follow stop(), if the
\* process is still there.
LastFlush ==
    /\ journal = "stopped" /\ inHand["flush"] = {}
    /\ journal' = "over"
    /\ IF buffer = {} THEN UNCHANGED <<buffer, inHand>> ELSE TakeBatch("flush", buffer)
    /\ UNCHANGED <<arrived, posted, lost>>

\* _send_batch: the answer is looked at only to print it, and nothing is posted
\* again.  A post that times out may have been taken all the same.
SendBatch(t) ==
    /\ inHand[t] # {}
    /\ inHand' = [inHand EXCEPT ![t] = {}]
    /\ \/ posted' = [e \in Events |-> IF e \in inHand[t] THEN posted[e] + 1 ELSE posted[e]]
          /\ UNCHANGED lost
       \/ lost' = lost \cup inHand[t] /\ UNCHANGED posted
    /\ UNCHANGED <<arrived, buffer, journal>>

\* stop(): a flush, and then the component is unsubscribed and stopped.  What the
\* handlers put in the buffer in between stays there.
StopFlushes ==
    /\ journal = "running"
    /\ journal' = "flushed"
    /\ IF buffer = {} THEN UNCHANGED <<buffer, inHand>> ELSE TakeBatch("stop", buffer)
    /\ UNCHANGED <<arrived, posted, lost>>

StopJournal ==
    /\ journal = "flushed" /\ inHand["stop"] = {}
    /\ journal' = "stopped"
    /\ UNCHANGED <<arrived, buffer, inHand, posted, lost>>

JournalStep ==
    \/ Flush \/ LastFlush \/ StopFlushes \/ StopJournal
    \/ \E e \in Events : HandleLogEvent(e)
    \/ \E t \in Threads : SendBatch(t)
=============================================================================

------------------------------- MODULE HarLog -------------------------------
(* The HAR log (harlog.go): requests that are logged send an entry to the      *)
(* aggregator goroutine, which keeps the entries until a flush asks it to      *)
(* write them to a file.  Both ways to the aggregator are bounded channels.    *)
EXTENDS Naturals, Sequences, FiniteSets

CONSTANTS
  EntryCap,     \* capacity of harLogEntryCh
  FlushCap,     \* capacity of harFlushRequest
  Files         \* names given to FlushHARToDisk, each once

ASSUME HarLogAssumption == EntryCap \in Nat \ {0} /\ FlushCap \in Nat \ {0}

VARIABLES
  harLogEntryCh,     \* entries on their way, named by their requests
  harFlushRequest,   \* file names on their way
  aggregator,        \* harLogAggregator has been launched
  entries,           \* harLog.Log.Entries
  disk,              \* what has been written to each file
  asked,             \* the files a flush was asked for
  unwritten          \* history: entries of flushes that failed

harVars == <<harLogEntryCh, harFlushRequest, aggregator, entries, disk, asked,
             unwritten>>

HarInit ==
  /\ harLogEntryCh = <<>> /\ harFlushRequest = <<>>
  /\ aggregator = FALSE /\ entries = <<>>
  /\ disk = [f \in Files |-> <<>>]
  /\ asked = {} /\ unwritten = <<>>

\* harFlusherRunOnce: the first LogToHARFile launches the aggregator.
LaunchAggregator == aggregator' = TRUE

\* Mutant: the channel takes one entry more than it has room for.
SendEntryOneMore(r) ==
  /\ Len(harLogEntryCh) <= EntryCap
  /\ harLogEntryCh' = Append(harLogEntryCh, r)
  /\ UNCHANGED <<harFlushRequest, aggregator, entries, disk, asked, unwritten>>

\* The send of an entry; it waits while the channel is full.
SendEntry(r) ==
  /\ Len(harLogEntryCh) < EntryCap
  /\ harLogEntryCh' = Append(harLogEntryCh, r)
  /\ UNCHANGED <<harFlushRequest, aggregator, entries, disk, asked, unwritten>>

\* FlushHARToDisk waits while the channel is full; it does not launch anything.
FlushHARToDisk(f) ==
  /\ f \notin asked
  /\ Len(harFlushRequest) < FlushCap
  /\ asked' = asked \cup {f}
  /\ harFlushRequest' = Append(harFlushRequest, f)
  /\ UNCHANGED <<harLogEntryCh, aggregator, entries, disk, unwritten>>

\* The aggregator's select takes an entry. The others wait for its turn.
aggregateEntry ==
  /\ aggregator /\ harLogEntryCh # <<>>
  /\ entries' = Append(entries, Head(harLogEntryCh))
  /\ harLogEntryCh' = Tail(harLogEntryCh)
  /\ UNCHANGED <<harFlushRequest, aggregator, disk, asked, unwritten>>

ReceiveFlush ==
  /\ aggregator /\ harFlushRequest # <<>>
  /\ harFlushRequest' = Tail(harFlushRequest)
  /\ UNCHANGED <<harLogEntryCh, aggregator, asked>>

\* Nothing has been logged: no file is made.
flushEmpty ==
  /\ ReceiveFlush
  /\ entries = <<>>
  /\ UNCHANGED <<entries, disk, unwritten>>

\* Mutant: the log is not started anew after a flush.
flushWrittenKeeps ==
  /\ ReceiveFlush
  /\ entries # <<>>
  /\ disk' = [disk EXCEPT ![Head(harFlushRequest)] = entries]
  /\ UNCHANGED <<entries, unwritten>>

\* flushHarToDisk succeeds, and the log starts anew.
flushWritten ==
  /\ ReceiveFlush
  /\ entries # <<>>
  /\ disk' = [disk EXCEPT ![Head(harFlushRequest)] = entries]
  /\ entries' = <<>>
  /\ UNCHANGED unwritten

\* os.Create or the write fails: the log starts anew all the same.
flushFails ==
  /\ ReceiveFlush
  /\ entries # <<>>
  /\ unwritten' = unwritten \o entries
  /\ entries' = <<>>
  /\ UNCHANGED disk

\* One turn of the aggregator's loop.
harLogAggregator == aggregateEntry \/ flushEmpty \/ flushWritten \/ flushFails

-----------------------------------------------------------------------------
Occurs(s, r) == Cardinality({i \in DOMAIN s : s[i] = r})

\* How often r's entry is on its way or in the log.
Held(r) == Occurs(harLogEntryCh, r) + Occurs(entries, r)

InFiles(r) == Cardinality({f \in Files : Occurs(disk[f], r) > 0})
=============================================================================

---------------------------- MODULE RequestTracer ----------------------------
(* RequestTracer (tracer.go): one table of at most one trace command, which a  *)
(* user installs under the write lock (RequestTrace) and every request looks   *)
(* up under the read lock (Trace).  Trace writes the table all the same, so    *)
(* what it read before, seen, may be older than the table it writes.           *)
EXTENDS Naturals, Sequences

CONSTANTS
  Requests,           \* the requests the proxy handles
  Commands,           \* RequestTrace calls, each made at most once
  Matches,            \* the requests whose URL a command's bytes occur in
  Modifying,          \* the commands that ask for a trace, not only to skip
  NoTrace             \* traceRequest{}

ASSUME RequestTracerAssumption ==
  /\ NoTrace \notin Commands
  /\ Matches \in [Commands -> SUBSET Requests]
  /\ Modifying \subseteq Commands

VARIABLES
  table,        \* RequestTracer.Requests
  issued,       \* the commands given so far
  expired,      \* the commands whose expires has passed
  tpc,          \* where a request is in Trace, with the read lock held or not
  seen,         \* the slice a request's range loop runs over
  trace         \* ProxyCtx.Trace

tracerVars == <<table, issued, expired, tpc, seen, trace>>

TracerTypeOK ==
  /\ table \in {<<>>} \cup {<<c>> : c \in Commands}
  /\ issued \subseteq Commands
  /\ expired \subseteq issued
  /\ tpc \in [Requests -> {"out", "match", "prune", "panic"}]
  /\ seen \in [Requests -> {<<>>} \cup {<<c>> : c \in Commands}]
  /\ trace \in [Requests -> Commands \cup {NoTrace}]

TracerInit ==
  /\ table = <<>> /\ issued = {} /\ expired = {}
  /\ tpc = [r \in Requests |-> "out"]
  /\ seen = [r \in Requests |-> <<>>]
  /\ trace = [r \in Requests |-> NoTrace]

\* A request holds the read lock from its first look at the table to its return.
Reading(r) == tpc[r] \in {"match", "prune"}

\* Mutant: RequestTrace does not wait for the readers.
RequestTraceUnlocked(c) ==
  /\ c \notin issued
  /\ issued' = issued \cup {c}
  /\ table' = <<c>>
  /\ UNCHANGED <<expired, tpc, seen, trace>>

\* RequestTrace, under the write lock: the new command replaces the old one.
RequestTrace(c) ==
  /\ c \notin issued
  /\ \A r \in Requests : ~Reading(r)
  /\ issued' = issued \cup {c}
  /\ table' = <<c>>
  /\ UNCHANGED <<expired, tpc, seen, trace>>

\* The deadline of a command passes.
expire(c) ==
  /\ c \in issued \ expired
  /\ expired' = expired \cup {c}
  /\ UNCHANGED <<table, issued, tpc, seen, trace>>

\* Trace takes the read lock; the first loop ranges over the table it finds.
traceLookup(r) ==
  /\ seen' = [seen EXCEPT ![r] = table]
  /\ tpc' = [tpc EXCEPT ![r] = IF table = <<>> THEN "out" ELSE "match"]
  /\ UNCHANGED <<table, issued, expired, trace>>

Takes(r, c) == c \notin expired /\ r \in Matches[c]

\* Mutant: a command that was taken stays in the table.
traceMatchKeeps(r) ==
  /\ tpc[r] = "match"
  /\ Takes(r, Head(seen[r]))
  /\ trace' = [trace EXCEPT ![r] = Head(seen[r])]
  /\ tpc' = [tpc EXCEPT ![r] = "out"]
  /\ seen' = [seen EXCEPT ![r] = <<>>]
  /\ UNCHANGED <<table, issued, expired>>

\* A command that still counts and matches is the request's; one that asks for a
\* trace is deleted, which empties whatever the table is by now.
traceMatch(r) ==
  /\ tpc[r] = "match"
  /\ Takes(r, Head(seen[r]))
  /\ trace' = [trace EXCEPT ![r] = Head(seen[r])]
  /\ table' = IF Head(seen[r]) \in Modifying THEN <<>> ELSE table
  /\ tpc' = [tpc EXCEPT ![r] = "out"]
  /\ seen' = [seen EXCEPT ![r] = <<>>]
  /\ UNCHANGED <<issued, expired>>

\* No match: the second loop ranges over the table as it is now.
traceMiss(r) ==
  /\ tpc[r] = "match"
  /\ ~Takes(r, Head(seen[r]))
  /\ seen' = [seen EXCEPT ![r] = table]
  /\ tpc' = [tpc EXCEPT ![r] = IF table = <<>> THEN "out" ELSE "prune"]
  /\ UNCHANGED <<table, issued, expired, trace>>

\* Delete an expired command. tr.Requests[len(tr.Requests)-1] is read anew: it
\* panics if another request has emptied the table since.
tracePrune(r) ==
  /\ tpc[r] = "prune"
  /\ LET gone == Head(seen[r]) \in expired IN
       /\ table' = IF gone THEN <<>> ELSE table
       /\ tpc' = [tpc EXCEPT ![r] = IF gone /\ table = <<>> THEN "panic" ELSE "out"]
  /\ seen' = [seen EXCEPT ![r] = <<>>]
  /\ UNCHANGED <<issued, expired, trace>>

\* One step of Trace after the lookup.
Trace(r) == traceMatch(r) \/ traceMiss(r) \/ tracePrune(r)

-----------------------------------------------------------------------------
\* A trace command is not lost (tracer.go:119): it leaves the table
\* when a request that matches takes it, when it has expired, or when another
\* command replaces it, whatever stale copies of the table the requests hold.
TraceNotLost ==
  [][\A c \in Commands :
       table = <<c>> /\ table' = <<>> =>
         c \in expired \/ \E r \in Matches[c] : trace'[r] = c]_tracerVars

\* "display modified trace for next request only" (tracer.go:62), as far as the
\* read lock allows it: requests that read the table together may all take the
\* command, but once one of them has it no later request finds it.
TakenThenGone ==
  \A c \in Modifying : (\E r \in Requests : trace[r] = c) => table # <<c>>
=============================================================================

-------------------------- MODULE RoundTripperProofs --------------------------
(* Proofs about RoundTripper, for any requests, trace commands, settings,      *)
(* files and capacities.  First, from IInv: a flush of idle connections is     *)
(* kept, a reported cloaking is real, and a trace command is not lost.  Then,  *)
(* from LInv and TInv: no entry of the HAR log is lost or written twice, who   *)
(* waits for the aggregator is heard, a request panics only for the two known  *)
(* causes, and a trace command that was taken is gone.                         *)
EXTENDS RoundTripper, TLAPS, SequenceTheorems, FiniteSetTheorems

Stages == {"start", "trace", "handlers", "choose", "flushClose", "flushClear",
           "transport", "logSend", "done", "panic"}
Tables == {<<>>} \cup {<<c>> : c \in Commands}
AllOutcomes == [resp : BOOLEAN, err : BOOLEAN, via : {"none", "local", "shadow"},
                failed : BOOLEAN]

\* The types that the arguments below need.
Typed ==
  /\ pc \in [Requests -> Stages]
  /\ set \in [Requests -> Setting]
  /\ tr \in [Requests -> {"none", "own", "fake", "shadow", "proxy"}]
  /\ out \in [Requests -> AllOutcomes]
  /\ private \in [Requests -> BOOLEAN]
  /\ flushIdle \in BOOLEAN /\ owed \in BOOLEAN /\ overlapped \in BOOLEAN
  /\ table \in Tables
  /\ tpc \in [Requests -> {"out", "match", "prune", "panic"}]
  /\ seen \in [Requests -> Tables]
  /\ trace \in [Requests -> Commands \cup {NoTrace}]

\* Between its close and its clear a request knows of no later setting of the
\* flag, unless that one is remembered in overlapped.
ClosedFirst == \A r \in Requests : pc[r] = "flushClear" => (owed => overlapped)

\* A request to which neither exception of CloakedStatus applies.
Ordinary(r) == ~set[r].own /\ ~set[r].fake /\ ~set[r].log

\* A request that is to report the private network is on its way through it,
\* has come back through it, or carries the note that it did not.
Cloaked ==
  \A r \in Requests : Ordinary(r) /\ private[r] =>
    /\ pc[r] \in {"flushClose", "flushClear", "transport"} => tr[r] = "shadow"
    /\ pc[r] = "logSend" /\ out[r].resp => out[r].via = "shadow" \/ out[r].failed
    /\ pc[r] = "done" /\ out[r].resp => out[r].via = "shadow"

\* As long as a request reads, the table is what it has seen, or empty.
TableStable ==
  \A r \in Requests : Reading(r) => seen[r] # <<>> /\ table \in {<<>>, seen[r]}

\* The read lock is held inside Trace only.
ReadersTrace == \A r \in Requests : Reading(r) => pc[r] = "trace"

IInv == /\ Typed /\ FlushIdleKept /\ ClosedFirst /\ Cloaked
        /\ TableStable /\ ReadersTrace

-----------------------------------------------------------------------------
\* The invariant holds initially.
LEMMA InitInv == Init => IInv
<1> SUFFICES ASSUME Init PROVE IInv
  OBVIOUS
<1>1. NoOutcome \in AllOutcomes
  BY DEF NoOutcome, AllOutcomes
<1>2. Typed
  BY <1>1 DEF Init, TracerInit, Typed, Stages, Tables, Setting
<1>3. FlushIdleKept /\ ClosedFirst /\ Cloaked /\ TableStable /\ ReadersTrace
  BY DEF Init, TracerInit, FlushIdleKept, ClosedFirst, Cloaked, Ordinary,
         TableStable, ReadersTrace, Reading
<1> QED
  BY <1>2, <1>3 DEF IInv

\* What the HAR log does concerns nothing the invariant speaks of.
LEMMA HarStep ==
  ASSUME IInv, UNCHANGED <<pc, ctxVars, idleVars, tracerVars>>
  PROVE  IInv'
BY DEF IInv, Typed, FlushIdleKept, ClosedFirst, Cloaked, Ordinary, TableStable,
       ReadersTrace, Reading, ctxVars, idleVars, tracerVars

\* A step of the tracer keeps the table stable: the write lock keeps new commands
\* away while anybody reads, and readers only ever empty the table.
LEMMA TableStep ==
  ASSUME Typed, TableStable, NEW r \in Requests,
         (traceLookup(r) /\ ~Reading(r)) \/ Trace(r)
  PROVE  TableStable' /\ table' \in Tables
         /\ tpc' \in [Requests -> {"out", "match", "prune", "panic"}]
         /\ seen' \in [Requests -> Tables]
         /\ trace' \in [Requests -> Commands \cup {NoTrace}]
         /\ UNCHANGED issued
<1>1. CASE traceLookup(r) /\ ~Reading(r)
  BY <1>1 DEF traceLookup, Typed, TableStable, Reading, Tables
<1>2. CASE traceMatch(r)
  <2>1. PICK c \in Commands : seen[r] = <<c>>
    BY <1>2 DEF traceMatch, Typed, TableStable, Reading, Tables
  <2>2. Head(seen[r]) = c
    BY <2>1
  <2> QED
    BY <1>2, <2>1, <2>2 DEF traceMatch, Typed, TableStable, Reading, Tables
<1>3. CASE traceMiss(r)
  BY <1>3 DEF traceMiss, Typed, TableStable, Reading, Tables
<1>4. CASE tracePrune(r)
  BY <1>4 DEF tracePrune, Typed, TableStable, Reading, Tables
<1> QED
  BY <1>1, <1>2, <1>3, <1>4 DEF Trace

\* What a transport may return: a response of the shadow network's transport is
\* its own, comes with an error, or carries the note, for which there is room
\* unless the request is logged.
LEMMA OutcomeFacts ==
  ASSUME Typed, NEW r \in Requests, NEW o \in Outcomes(r)
  PROVE  /\ o \in AllOutcomes
         /\ tr[r] = "shadow" /\ o.resp /\ ~set[r].log =>
              o.via = "shadow" \/ o.err \/ o.failed
<1>1. PICK p \in LocalOutcomes \cup ShadowOutcomes :
        /\ o = [p EXCEPT !.failed = @ /\ ~set[r].log]
        /\ tr[r] = "shadow" => p \in ShadowOutcomes
  BY DEF Outcomes
<1>2. p \in AllOutcomes
  BY DEF LocalOutcomes, ShadowOutcomes, AllOutcomes
<1>3. set[r].log \in BOOLEAN
  BY DEF Typed, Setting
<1>4. /\ o.resp = p.resp /\ o.err = p.err /\ o.via = p.via
      /\ o.failed = (p.failed /\ ~set[r].log)
      /\ o \in AllOutcomes
  BY <1>1, <1>2, <1>3 DEF AllOutcomes
<1>5. p \in ShadowOutcomes /\ p.resp => p.via = "shadow" \/ p.err \/ p.failed
  BY DEF ShadowOutcomes
<1> QED
  BY <1>1, <1>4, <1>5

\* Every step of a request keeps the invariant.
LEMMA RequestStep ==
  ASSUME IInv, NEW r \in Requests, Request(r)
  PROVE  IInv'
<1> USE DEF IInv, Stages, Goto
<1>1. CASE startTrace(r) \/ traceStep(r)
  <2>1. (traceLookup(r) /\ ~Reading(r)) \/ Trace(r)
    BY <1>1 DEF startTrace, traceStep, ReadersTrace
  <2>2. TableStable' /\ Typed'
    BY <1>1, <2>1, TableStep
       DEF Typed, startTrace, traceStep, ctxVars, idleVars, tracerVars
  <2>3. ReadersTrace'
    BY <1>1 DEF startTrace, traceStep, Trace, traceLookup, traceMatch, traceMiss,
                tracePrune, ReadersTrace, Reading, Typed
  <2>4. FlushIdleKept' /\ ClosedFirst' /\ Cloaked'
    BY <1>1 DEF startTrace, traceStep, Typed, FlushIdleKept, ClosedFirst, Cloaked,
                Ordinary, ctxVars, idleVars
  <2> QED
    BY <2>2, <2>3, <2>4
<1>2. CASE handlers(r)
  <2>1. Typed' /\ UNCHANGED tracerVars
    BY RoundTripperAssumption, <1>2
       DEF handlers, Setting, Typed, tracerVars, ctxVars, idleVars
  <2>2. FlushIdleKept' /\ ClosedFirst'
    BY <1>2 DEF handlers, Typed, FlushIdleKept, ClosedFirst, ctxVars, idleVars
  <2>3. Cloaked'
    BY RoundTripperAssumption, <1>2, <2>1
       DEF handlers, Typed, Setting, Cloaked, Ordinary, ctxVars
  <2>4. TableStable' /\ ReadersTrace'
    BY <1>2, <2>1
       DEF handlers, Typed, TableStable, ReadersTrace, Reading, tracerVars
  <2> QED
    BY <2>1, <2>2, <2>3, <2>4
<1>3. CASE useOwn(r)
  <2>1. Typed' /\ UNCHANGED tracerVars
    BY <1>3 DEF useOwn, Setting, Typed, tracerVars, ctxVars, idleVars
  <2>2. FlushIdleKept' /\ ClosedFirst'
    BY <1>3 DEF useOwn, Typed, FlushIdleKept, ClosedFirst, ctxVars, idleVars
  <2>3. Cloaked'
    BY <1>3, <2>1 DEF useOwn, Typed, Setting, Cloaked, Ordinary, ctxVars
  <2>4. TableStable' /\ ReadersTrace'
    BY <1>3, <2>1 DEF useOwn, Typed, TableStable, ReadersTrace, Reading, tracerVars
  <2> QED
    BY <2>1, <2>2, <2>3, <2>4
<1>4. CASE chooseTransport(r)
  <2>1. Typed' /\ UNCHANGED tracerVars
    BY <1>4
       DEF chooseTransport, TestFlushIdle, Setting, Typed, tracerVars, ctxVars,
           idleVars
  <2>2. FlushIdleKept' /\ ClosedFirst'
    BY <1>4
       DEF chooseTransport, TestFlushIdle, Typed, FlushIdleKept, ClosedFirst,
           ctxVars, idleVars
  <2>3. Cloaked'
    BY <1>4, <2>1
       DEF chooseTransport, TestFlushIdle, Typed, Setting, Cloaked, Ordinary,
           ctxVars
  <2>4. TableStable' /\ ReadersTrace'
    BY <1>4, <2>1
       DEF chooseTransport, TestFlushIdle, Typed, TableStable, ReadersTrace,
           Reading, tracerVars
  <2> QED
    BY <2>1, <2>2, <2>3, <2>4
<1>5. CASE flushClose(r)
  <2>1. Typed' /\ UNCHANGED tracerVars
    BY <1>5 DEF flushClose, Setting, Typed, tracerVars, ctxVars, idleVars
  <2>2. FlushIdleKept' /\ ClosedFirst'
    BY <1>5 DEF flushClose, Typed, FlushIdleKept, ClosedFirst, ctxVars, idleVars
  <2>3. Cloaked'
    BY <1>5, <2>1 DEF flushClose, Typed, Setting, Cloaked, Ordinary, ctxVars
  <2>4. TableStable' /\ ReadersTrace'
    BY <1>5, <2>1
       DEF flushClose, Typed, TableStable, ReadersTrace, Reading, tracerVars
  <2> QED
    BY <2>1, <2>2, <2>3, <2>4
<1>6. CASE flushClear(r)
  <2>1. Typed' /\ UNCHANGED tracerVars
    BY <1>6 DEF flushClear, Setting, Typed, tracerVars, ctxVars, idleVars
  <2>2. FlushIdleKept' /\ ClosedFirst'
    BY <1>6 DEF flushClear, Typed, FlushIdleKept, ClosedFirst, ctxVars, idleVars
  <2>3. Cloaked'
    BY <1>6, <2>1 DEF flushClear, Typed, Setting, Cloaked, Ordinary, ctxVars
  <2>4. TableStable' /\ ReadersTrace'
    BY <1>6, <2>1
       DEF flushClear, Typed, TableStable, ReadersTrace, Reading, tracerVars
  <2> QED
    BY <2>1, <2>2, <2>3, <2>4
<1>7. CASE ownRoundTrip(r)
  <2>1. PICK o \in Outcomes(r) : out' = [out EXCEPT ![r] = o]
    BY <1>7 DEF ownRoundTrip
  <2>2. o \in AllOutcomes
    BY <2>1, OutcomeFacts
  <2>3. Typed' /\ UNCHANGED tracerVars
    BY <1>7, <2>1, <2>2 DEF ownRoundTrip, Typed, tracerVars, idleVars
  <2>4. FlushIdleKept' /\ ClosedFirst'
    BY <1>7 DEF ownRoundTrip, Typed, FlushIdleKept, ClosedFirst, idleVars
  <2>5. Cloaked'
    BY <1>7, <2>1 DEF ownRoundTrip, Typed, Cloaked, Ordinary
  <2>6. TableStable' /\ ReadersTrace'
    BY <1>7 DEF ownRoundTrip, Typed, TableStable, ReadersTrace, Reading, tracerVars
  <2> QED
    BY <2>3, <2>4, <2>5, <2>6
<1>8. CASE wrapTransport(r)
  <2> DEFINE failover(o) == tr[r] = "shadow" /\ private[r] /\ o.err /\ o.resp
  <2>1. PICK o \in Outcomes(r) :
          /\ Goto(r, "transport",
                  IF Traced(r) /\ ~o.resp THEN "panic" ELSE "logSend")
          /\ out' = [out EXCEPT ![r] = [o EXCEPT !.err = @ /\ ~failover(o)]]
          /\ private' = [private EXCEPT ![r] = @ /\ ~failover(o)]
    BY <1>8 DEF wrapTransport
  <2>2. o \in AllOutcomes
    BY OutcomeFacts
  <2>3. [o EXCEPT !.err = @ /\ ~failover(o)] \in AllOutcomes
    BY <2>2 DEF AllOutcomes, Typed
  <2>4. Typed' /\ UNCHANGED tracerVars
    BY <1>8, <2>1, <2>2, <2>3 DEF wrapTransport, Typed, tracerVars, idleVars
  <2>5. FlushIdleKept' /\ ClosedFirst'
    BY <1>8 DEF wrapTransport, Typed, FlushIdleKept, ClosedFirst, idleVars
  <2>6. ASSUME NEW q \in Requests, (Ordinary(q) /\ private[q])'
        PROVE  /\ pc'[q] \in {"flushClose", "flushClear", "transport"} =>
                    tr'[q] = "shadow"
               /\ pc'[q] = "logSend" /\ out'[q].resp =>
                    out'[q].via = "shadow" \/ out'[q].failed
               /\ pc'[q] = "done" /\ out'[q].resp => out'[q].via = "shadow"
    <3>1. UNCHANGED <<set, tr>>
      BY <1>8 DEF wrapTransport
    <3>2. CASE q # r
      BY <2>1, <2>6, <3>1, <3>2 DEF Typed, Cloaked, Ordinary
    <3>3. CASE q = r
      <4>1. private[r] /\ ~failover(o) /\ Ordinary(r)
        BY <2>1, <2>6, <3>1, <3>3 DEF Typed, Ordinary
      <4>2. pc[r] = "transport" /\ pc'[r] \in {"panic", "logSend"}
        BY <2>1 DEF Typed
      <4>3. tr[r] = "shadow"
        BY <4>1, <4>2 DEF Cloaked
      <4>4. o.resp => o.via = "shadow" \/ o.failed
        BY <4>1, <4>3, OutcomeFacts DEF Ordinary
      <4>5. out'[r].resp = o.resp /\ out'[r].via = o.via /\ out'[r].failed = o.failed
        BY <2>1, <2>2 DEF AllOutcomes, Typed
      <4> QED
        BY <3>3, <4>2, <4>4, <4>5
    <3> QED
      BY <3>2, <3>3
  <2>7. Cloaked'
    BY <2>6 DEF Cloaked
  <2>8. TableStable' /\ ReadersTrace'
    BY <1>8 DEF wrapTransport, Typed, TableStable, ReadersTrace, Reading, tracerVars
  <2> QED
    BY <2>4, <2>5, <2>7, <2>8
<1>9. CASE logRoundTrip(r)
  <2>1. Typed' /\ UNCHANGED tracerVars
    BY <1>9
       DEF logRoundTrip, Return, AllOutcomes, Setting, Typed, tracerVars, ctxVars,
           idleVars
  <2>2. FlushIdleKept' /\ ClosedFirst'
    BY <1>9
       DEF logRoundTrip, Return, AllOutcomes, Typed, FlushIdleKept, ClosedFirst,
           ctxVars, idleVars
  <2>3. Cloaked'
    BY <1>9, <2>1
       DEF logRoundTrip, Return, AllOutcomes, Typed, Setting, Cloaked, Ordinary,
           ctxVars
  <2>4. TableStable' /\ ReadersTrace'
    BY <1>9, <2>1
       DEF logRoundTrip, Return, Typed, TableStable, ReadersTrace, Reading,
           tracerVars
  <2> QED
    BY <2>1, <2>2, <2>3, <2>4
<1>10. CASE roundTrip(r)
  <2>1. Typed' /\ UNCHANGED tracerVars
    BY <1>10
       DEF roundTrip, Return, AllOutcomes, Setting, Typed, tracerVars, ctxVars,
           idleVars
  <2>2. FlushIdleKept' /\ ClosedFirst'
    BY <1>10
       DEF roundTrip, Return, AllOutcomes, Typed, FlushIdleKept, ClosedFirst,
           ctxVars, idleVars
  <2>3. Cloaked'
    BY <1>10, <2>1
       DEF roundTrip, Return, AllOutcomes, Typed, Setting, Cloaked, Ordinary,
           ctxVars
  <2>4. TableStable' /\ ReadersTrace'
    BY <1>10, <2>1
       DEF roundTrip, Return, Typed, TableStable, ReadersTrace, Reading, tracerVars
  <2> QED
    BY <2>1, <2>2, <2>3, <2>4
<1> QED
  BY <1>1, <1>2, <1>3, <1>4, <1>5, <1>6, <1>7, <1>8, <1>9, <1>10 DEF Request

\* The owner's calls keep it: a new command waits for the readers.
LEMMA OwnerStep ==
  ASSUME IInv, Owner
  PROVE  IInv'
<1>1. CASE setFlushIdle
  BY <1>1
     DEF setFlushIdle, IInv, Typed, FlushIdleKept, ClosedFirst, Cloaked, Ordinary,
              TableStable, ReadersTrace, Reading, ctxVars, tracerVars
<1>2. ASSUME NEW c \in Commands, RequestTrace(c) \/ expire(c),
             UNCHANGED <<pc, ctxVars, idleVars, harVars>>
      PROVE  IInv'
  <2>1. Typed'
    BY <1>2 DEF RequestTrace, expire, IInv, Typed, Tables, ctxVars, idleVars
  <2>2. TableStable' /\ ReadersTrace'
    BY <1>2 DEF RequestTrace, expire, IInv, TableStable, ReadersTrace, Reading
  <2>3. FlushIdleKept' /\ ClosedFirst' /\ Cloaked'
    BY <1>2
       DEF IInv, FlushIdleKept, ClosedFirst, Cloaked, Ordinary, ctxVars, idleVars
  <2> QED
    BY <2>1, <2>2, <2>3 DEF IInv
<1>3. ASSUME UNCHANGED <<pc, ctxVars, idleVars, tracerVars>>
      PROVE  IInv'
  BY <1>3, HarStep
<1> QED
  BY <1>1, <1>2, <1>3 DEF Owner

\* The invariant holds in every reachable state.
THEOREM Invariant == Spec => []IInv
<1>1. IInv /\ [Next]_vars => IInv'
  <2> SUFFICES ASSUME IInv, [Next]_vars
               PROVE  IInv'
    OBVIOUS
  <2>1. CASE \E r \in Requests : Request(r)
    BY <2>1, RequestStep
  <2>2. CASE Owner
    BY <2>2, OwnerStep
  <2>3. CASE Aggregator \/ Finished \/ UNCHANGED vars
    BY <2>3, HarStep DEF Aggregator, Finished, vars
  <2> QED
    BY <2>1, <2>2, <2>3 DEF Next
<1> QED
  BY InitInv, <1>1, PTL DEF Spec

-----------------------------------------------------------------------------
\* Whenever FlushIdleConnections is down, what was idle when it was last set has
\* been closed, but for a setting that fell between a close and its clear.
THEOREM FlushKept == Spec => []FlushIdleKept
BY Invariant, PTL DEF IInv

\* An ordinary request that reports the private network was answered through it.
THEOREM CloakingReal == Spec => []CloakedStatus
<1>1. IInv => CloakedStatus
  BY DEF IInv, Cloaked, Ordinary, CloakedStatus
<1> QED
  BY Invariant, <1>1, PTL

\* A step that empties the table of a command c is the match of a request with c,
\* or the deletion of c after its deadline.
LEMMA EmptiedStep ==
  ASSUME IInv, [Next]_vars, NEW c \in Commands, table = <<c>>, table' = <<>>
  PROVE  c \in expired \/ \E r \in Matches[c] : trace'[r] = c
<1>1. table # table'
  OBVIOUS
<1>2. PICK r \in Requests : Request(r)
  <2>1. ~Aggregator /\ ~Finished /\ ~UNCHANGED vars
    BY <1>1 DEF Aggregator, Finished, vars, tracerVars
  <2>2. ~Owner
    <3>1. ~setFlushIdle /\ ~UNCHANGED tracerVars
      BY <1>1 DEF setFlushIdle, tracerVars
    <3>2. ASSUME NEW d \in Commands PROVE ~RequestTrace(d) /\ ~expire(d)
      BY <1>1 DEF RequestTrace, expire
    <3> QED
      BY <3>1, <3>2 DEF Owner
  <2> QED
    BY <2>1, <2>2 DEF Next
<1>3. pc[r] = "trace" /\ Trace(r)
  BY <1>1, <1>2
     DEF Request, startTrace, traceLookup, traceStep, handlers, useOwn,
         chooseTransport, flushClose, flushClear, ownRoundTrip, wrapTransport,
         logRoundTrip, roundTrip, Return, tracerVars
<1>4. Reading(r) /\ seen[r] = <<c>>
  BY <1>3 DEF Trace, traceMatch, traceMiss, tracePrune, Reading, IInv, TableStable
<1>5. Head(seen[r]) = c
  BY <1>4
<1>6. CASE traceMatch(r)
  BY <1>5, <1>6 DEF traceMatch, Takes, IInv, Typed
<1>7. CASE traceMiss(r)
  BY <1>1, <1>7 DEF traceMiss
<1>8. CASE tracePrune(r)
  BY <1>1, <1>5, <1>8 DEF tracePrune
<1> QED
  BY <1>3, <1>6, <1>7, <1>8 DEF Trace

\* A trace command leaves the table only taken, expired or replaced.
THEOREM TraceKept == Spec => TraceNotLost
<1>1. IInv /\ [Next]_vars =>
        [\A c \in Commands :
           table = <<c>> /\ table' = <<>> =>
             c \in expired \/ \E r \in Matches[c] : trace'[r] = c]_tracerVars
  BY EmptiedStep
<1> QED
  BY Invariant, <1>1, PTL DEF Spec, TraceNotLost

-----------------------------------------------------------------------------
(* How often an element occurs in a sequence.                                *)

Places(s, x) == {i \in DOMAIN s : s[i] = x}

\* They are finitely many, all within the sequence.
LEMMA PlacesFinite ==
  ASSUME NEW S, NEW s \in Seq(S), NEW x
  PROVE  /\ IsFiniteSet(Places(s, x)) /\ Occurs(s, x) = Cardinality(Places(s, x))
         /\ Occurs(s, x) \in Nat /\ Places(s, x) \subseteq 1..Len(s)
<1>1. DOMAIN s = 1..Len(s) /\ Len(s) \in Nat
  OBVIOUS
<1>2. IsFiniteSet(1..Len(s))
  BY <1>1, FS_Interval
<1>3. Places(s, x) \subseteq 1..Len(s)
  BY <1>1 DEF Places
<1>4. IsFiniteSet(Places(s, x))
  BY <1>2, <1>3, FS_Subset
<1>5. Occurs(s, x) = Cardinality(Places(s, x))
  BY DEF Occurs, Places
<1> QED
  BY <1>3, <1>4, <1>5, FS_CardinalityType

\* Nothing occurs in the empty sequence.
LEMMA OccursEmpty == \A x : Occurs(<<>>, x) = 0
<1> SUFFICES ASSUME NEW x PROVE Occurs(<<>>, x) = 0
  OBVIOUS
<1>1. {i \in DOMAIN <<>> : <<>>[i] = x} = {}
  OBVIOUS
<1> QED
  BY <1>1, FS_EmptySet DEF Occurs

\* An element that is appended occurs once more, and no other.
LEMMA OccursAppend ==
  ASSUME NEW S, NEW s \in Seq(S), NEW y \in S, NEW x
  PROVE  Occurs(Append(s, y), x) = Occurs(s, x) + (IF y = x THEN 1 ELSE 0)
<1>1. PICK n \in Nat : n = Len(s)
  OBVIOUS
<1>2. /\ Append(s, y) \in Seq(S) /\ DOMAIN Append(s, y) = 1..(n + 1) /\ DOMAIN s = 1..n
      /\ Append(s, y)[n + 1] = y /\ \A i \in 1..n : Append(s, y)[i] = s[i]
  BY <1>1
<1>3. IsFiniteSet(Places(s, x)) /\ Occurs(s, x) \in Nat /\ Occurs(s, x) = Cardinality(Places(s, x))
  BY PlacesFinite
<1>4. Occurs(Append(s, y), x) = Cardinality(Places(Append(s, y), x))
  BY <1>2, PlacesFinite
<1>5. CASE y = x
  <2>1. Places(Append(s, y), x) = Places(s, x) \cup {n + 1}
    BY <1>1, <1>2, <1>5 DEF Places
  <2>2. n + 1 \notin Places(s, x)
    BY <1>1, <1>2 DEF Places
  <2>3. Cardinality(Places(s, x) \cup {n + 1}) = Cardinality(Places(s, x)) + 1
    BY <1>3, <2>2, FS_AddElement
  <2> QED
    BY <1>3, <1>4, <1>5, <2>1, <2>3
<1>6. CASE y # x
  <2>1. Places(Append(s, y), x) = Places(s, x)
    BY <1>1, <1>2, <1>6 DEF Places
  <2> QED
    BY <1>3, <1>4, <1>6, <2>1
<1> QED
  BY <1>5, <1>6

\* In two sequences put together an element occurs as often as in both.
LEMMA OccursConcat ==
  ASSUME NEW S, NEW s \in Seq(S), NEW t \in Seq(S), NEW x
  PROVE  Occurs(s \o t, x) = Occurs(s, x) + Occurs(t, x)
<1>1. PICK n \in Nat, m \in Nat : n = Len(s) /\ m = Len(t)
  OBVIOUS
<1>2. /\ s \o t \in Seq(S) /\ DOMAIN (s \o t) = 1..(n + m) /\ DOMAIN s = 1..n /\ DOMAIN t = 1..m
      /\ \A i \in 1..n : (s \o t)[i] = s[i]
      /\ \A i \in 1..m : (s \o t)[i + n] = t[i]
  BY <1>1
<1> DEFINE Q == {i + n : i \in Places(t, x)}
           f == [i \in Places(t, x) |-> i + n]
<1>3. /\ IsFiniteSet(Places(s, x)) /\ Occurs(s, x) = Cardinality(Places(s, x))
      /\ IsFiniteSet(Places(t, x)) /\ Occurs(t, x) = Cardinality(Places(t, x))
      /\ Occurs(s \o t, x) = Cardinality(Places(s \o t, x))
      /\ Places(s, x) \subseteq 1..n /\ Places(t, x) \subseteq 1..m
      /\ Occurs(s, x) \in Nat /\ Occurs(t, x) \in Nat
  <2>1. s \o t \in Seq(S)
    BY <1>2
  <2>2. Occurs(s \o t, x) = Cardinality(Places(s \o t, x))
    BY <2>1, PlacesFinite
  <2> QED
    BY <1>1, <2>2, PlacesFinite
<1>4. f \in Bijection(Places(t, x), Q)
  <2>1. \A i \in Places(t, x) : i \in Nat
    BY <1>3
  <2>2. f \in [Places(t, x) -> Q] /\ \A q \in Q : \E i \in Places(t, x) : f[i] = q
    OBVIOUS
  <2>3. \A i, j \in Places(t, x) : f[i] = f[j] => i = j
    BY <1>1, <2>1
  <2> HIDE DEF Q, f
  <2>4. f \in Injection(Places(t, x), Q)
    BY <2>2, <2>3 DEF Injection, IsInjective
  <2>5. f \in Surjection(Places(t, x), Q)
    BY <2>2 DEF Surjection
  <2> QED
    BY <2>4, <2>5 DEF Bijection
<1>5. IsFiniteSet(Q) /\ Cardinality(Q) = Cardinality(Places(t, x))
  BY <1>3, <1>4, FS_Bijection DEF ExistsBijection
<1>6. Places(s \o t, x) = Places(s, x) \cup Q
  <2>1. ASSUME NEW i \in Places(s \o t, x) PROVE i \in Places(s, x) \cup Q
    <3>1. i \in 1..(n + m) /\ (s \o t)[i] = x
      BY <1>2 DEF Places
    <3>2. CASE i <= n
      BY <1>2, <3>1, <3>2 DEF Places
    <3>3. CASE i > n
      <4>1. i - n \in 1..m /\ i = (i - n) + n
        BY <3>1, <3>3
      <4>2. t[i - n] = x
        BY <1>2, <3>1, <4>1
      <4> QED
        BY <1>2, <4>1, <4>2 DEF Places
    <3> QED
      BY <3>1, <3>2, <3>3
  <2>2. Places(s, x) \subseteq Places(s \o t, x)
    BY <1>2 DEF Places
  <2>3. ASSUME NEW i \in Places(t, x) PROVE i + n \in Places(s \o t, x)
    <3>1. i \in 1..m /\ t[i] = x
      BY <1>2 DEF Places
    <3>2. i + n \in 1..(n + m) /\ (s \o t)[i + n] = x
      BY <1>2, <3>1
    <3> QED
      BY <1>2, <3>2 DEF Places
  <2> QED
    BY <2>1, <2>2, <2>3
<1>7. Places(s, x) \cap Q = {}
  BY <1>3
<1>8. Cardinality(Places(s, x) \cup Q) = Cardinality(Places(s, x)) + Cardinality(Q)
  <2> HIDE DEF Q
  <2>1. Cardinality(Places(s, x) \cup Q)
          = Cardinality(Places(s, x)) + Cardinality(Q) - Cardinality({})
    BY <1>3, <1>5, <1>7, FS_Union
  <2> QED
    BY <1>3, <1>5, <2>1, FS_EmptySet
<1> HIDE DEF Q
<1> QED
  BY <1>3, <1>5, <1>6, <1>8

\* What a receive takes from a channel: its first element.
LEMMA OccursTail ==
  ASSUME NEW S, NEW s \in Seq(S), s # <<>>, NEW x
  PROVE  /\ Head(s) \in S /\ Tail(s) \in Seq(S) /\ Len(Tail(s)) = Len(s) - 1
         /\ Occurs(s, x) = Occurs(Tail(s), x) + (IF Head(s) = x THEN 1 ELSE 0)
<1>1. Head(s) \in S /\ Tail(s) \in Seq(S) /\ Len(Tail(s)) = Len(s) - 1
  BY HeadTailProperties
<1>2. PICK h \in S, t \in Seq(S) : h = Head(s) /\ t = Tail(s)
  BY <1>1
<1>3. PICK e \in Seq(S) : e = <<>>
  BY EmptySeq
<1>4. s = Append(e, h) \o t /\ Append(e, h) \in Seq(S)
  BY <1>2, <1>3
<1>5. Occurs(s, x) = Occurs(Append(e, h), x) + Occurs(t, x)
  BY <1>4, OccursConcat
<1>6. Occurs(Append(e, h), x) = Occurs(e, x) + (IF h = x THEN 1 ELSE 0)
  BY OccursAppend
<1>7. Occurs(t, x) \in Nat /\ Occurs(e, x) = 0
  BY <1>3, PlacesFinite, OccursEmpty
<1> QED
  BY <1>1, <1>2, <1>5, <1>6, <1>7

-----------------------------------------------------------------------------
(* The log.                                                                  *)

LogTyped ==
  /\ harLogEntryCh \in Seq(Requests) /\ entries \in Seq(Requests) /\ unwritten \in Seq(Requests)
  /\ disk \in [Files -> Seq(Requests)]
  /\ harFlushRequest \in Seq(Files) /\ asked \subseteq Files
  /\ aggregator \in BOOLEAN
  /\ Len(harLogEntryCh) <= EntryCap /\ Len(harFlushRequest) <= FlushCap

\* A file is asked for once, and nothing is in it before its turn.
AskedOnce ==
  /\ \A f \in Files : f \notin asked => disk[f] = <<>>
  /\ \A i \in 1..Len(harFlushRequest) :
       harFlushRequest[i] \in asked /\ disk[harFlushRequest[i]] = <<>>
  /\ \A i, j \in 1..Len(harFlushRequest) : harFlushRequest[i] = harFlushRequest[j] => i = j

\* The files that r's entry is in.
FilesWith(r) == {f \in Files : Occurs(disk[f], r) > 0}

\* Whose settings ask for the log has launched the aggregator.
Launched == \A r \in Requests : set[r].log => aggregator

\* r's entry has been sent.
Booked(r) == set[r].log /\ pc[r] = "done"

\* The entry of r is in one place once it is sent, and nowhere before.
Conserved(r) ==
  /\ IsFiniteSet(FilesWith(r))
  /\ Held(r) + InFiles(r) + Occurs(unwritten, r) = IF Booked(r) THEN 1 ELSE 0

\* The invariant.
LInv == IInv /\ LogTyped /\ AskedOnce /\ Launched /\ \A r \in Requests : Conserved(r)

\* Counts are numbers.
LEMMA LogCounts ==
  ASSUME LInv, NEW r \in Requests
  PROVE  /\ Occurs(harLogEntryCh, r) \in Nat /\ Occurs(entries, r) \in Nat
         /\ Occurs(unwritten, r) \in Nat
         /\ IsFiniteSet(FilesWith(r)) /\ InFiles(r) \in Nat
         /\ InFiles(r) = Cardinality(FilesWith(r))
         /\ Occurs(harLogEntryCh, r) + Occurs(entries, r) + InFiles(r) + Occurs(unwritten, r)
              = IF Booked(r) THEN 1 ELSE 0
<1>1. LogTyped /\ Conserved(r)
  BY DEF LInv
<1>2. /\ Occurs(harLogEntryCh, r) \in Nat /\ Occurs(entries, r) \in Nat
      /\ Occurs(unwritten, r) \in Nat
  BY <1>1, PlacesFinite DEF LogTyped
<1>3. IsFiniteSet(FilesWith(r)) /\ InFiles(r) = Cardinality(FilesWith(r))
  BY <1>1 DEF Conserved, InFiles, FilesWith
<1>4. InFiles(r) \in Nat
  BY <1>3, FS_CardinalityType
<1> QED
  BY <1>1, <1>2, <1>3, <1>4 DEF Conserved, Held

\* A step that leaves the log and what has been sent alone.
LEMMA LogStill ==
  ASSUME LInv, IInv', UNCHANGED <<harLogEntryCh, harFlushRequest, entries, disk, asked, unwritten>>,
         aggregator' \in BOOLEAN, Launched',
         \A r \in Requests : Booked(r)' <=> Booked(r)
  PROVE  LInv'
<1>1. LogTyped'
  BY DEF LInv, LogTyped
<1>2. AskedOnce'
  BY DEF LInv, AskedOnce
<1>3. ASSUME NEW r \in Requests PROVE Conserved(r)'
  <2>1. FilesWith(r)' = FilesWith(r) /\ Held(r)' = Held(r) /\ InFiles(r)' = InFiles(r)
    BY DEF FilesWith, Held, InFiles
  <2> QED
    BY <2>1 DEF LInv, Conserved
<1> QED
  BY <1>1, <1>2, <1>3 DEF LInv

\* A request's entry goes on its way.
LEMMA LogSend ==
  ASSUME LInv, IInv', NEW r \in Requests, logRoundTrip(r)
  PROVE  LInv'
<1>0. LogTyped /\ Typed
  BY DEF LInv, IInv
<1>1. /\ UNCHANGED <<set, harFlushRequest, aggregator, entries, disk, asked, unwritten>>
      /\ Len(harLogEntryCh) < EntryCap /\ harLogEntryCh' = Append(harLogEntryCh, r)
      /\ set[r].log /\ pc[r] = "logSend" /\ pc' = [pc EXCEPT ![r] = "done"]
  BY DEF logRoundTrip, SendEntry, Return, Goto
<1>2. /\ harLogEntryCh' \in Seq(Requests)
      /\ Len(harLogEntryCh') = Len(harLogEntryCh) + 1
  BY <1>0, <1>1 DEF LogTyped
<1>3. LogTyped'
  <2>1. EntryCap \in Nat /\ Len(harLogEntryCh) \in Nat
    BY <1>0, HarLogAssumption DEF LogTyped
  <2>2. Len(harLogEntryCh') <= EntryCap
    BY <1>1, <1>2, <2>1
  <2> QED
    BY <1>0, <1>1, <1>2, <2>2 DEF LogTyped
<1>4. AskedOnce' /\ Launched'
  BY <1>1 DEF LInv, AskedOnce, Launched
<1>5. ASSUME NEW q \in Requests PROVE Conserved(q)'
  <2>1. FilesWith(q)' = FilesWith(q) /\ InFiles(q)' = InFiles(q)
    BY <1>1 DEF FilesWith, InFiles
  <2>2. Held(q)' = Occurs(Append(harLogEntryCh, r), q) + Occurs(entries, q)
    BY <1>1 DEF Held
  <2>3. Occurs(Append(harLogEntryCh, r), q)
          = Occurs(harLogEntryCh, q) + (IF r = q THEN 1 ELSE 0)
    BY <1>0, OccursAppend DEF LogTyped
  <2>4. (Booked(q)' <=> q = r \/ Booked(q)) /\ ~Booked(r)
    BY <1>0, <1>1 DEF Booked, Typed
  <2> QED
    BY <1>1, <2>1, <2>2, <2>3, <2>4, LogCounts DEF Conserved
<1> QED
  BY <1>3, <1>4, <1>5 DEF LInv

\* A flush is asked for.
LEMMA LogAsk ==
  ASSUME LInv, IInv', NEW f \in Files, FlushHARToDisk(f), UNCHANGED <<pc, set>>
  PROVE  LInv'
<1>0. LogTyped /\ AskedOnce
  BY DEF LInv
<1>1. /\ UNCHANGED <<harLogEntryCh, aggregator, entries, disk, unwritten>>
      /\ f \notin asked /\ asked' = asked \cup {f}
      /\ Len(harFlushRequest) < FlushCap /\ harFlushRequest' = Append(harFlushRequest, f)
  BY DEF FlushHARToDisk
<1>2. PICK n \in Nat : n = Len(harFlushRequest)
  BY <1>0 DEF LogTyped
<1>3. /\ harFlushRequest' \in Seq(Files) /\ Len(harFlushRequest') = n + 1
      /\ harFlushRequest'[n + 1] = f
      /\ \A i \in 1..n : harFlushRequest'[i] = harFlushRequest[i]
  BY <1>0, <1>1, <1>2 DEF LogTyped
<1>4. LogTyped'
  <2>1. n + 1 <= FlushCap
    BY <1>1, <1>2, HarLogAssumption
  <2> QED
    BY <1>0, <1>1, <1>3, <2>1 DEF LogTyped
<1>5. AskedOnce'
  <2>1. \A g \in Files : g \notin asked' => disk'[g] = <<>>
    BY <1>0, <1>1 DEF AskedOnce
  <2>2. \A i \in 1..n : harFlushRequest[i] \in asked /\ disk[harFlushRequest[i]] = <<>>
    BY <1>0, <1>2 DEF AskedOnce
  <2>3. \A i \in 1..(n + 1) : i \in 1..n \/ i = n + 1
    OBVIOUS
  <2>4. \A i \in 1..(n + 1) : harFlushRequest'[i] \in asked' /\ disk'[harFlushRequest'[i]] = <<>>
    BY <1>0, <1>1, <1>3, <2>2, <2>3 DEF AskedOnce
  <2>5. \A i, j \in 1..n : harFlushRequest[i] = harFlushRequest[j] => i = j
    BY <1>0, <1>2 DEF AskedOnce
  <2>6. \A i, j \in 1..(n + 1) : harFlushRequest'[i] = harFlushRequest'[j] => i = j
    BY <1>1, <1>3, <2>2, <2>3, <2>5
  <2> QED
    BY <1>3, <2>1, <2>4, <2>6 DEF AskedOnce
<1>6. Launched'
  BY <1>1 DEF LInv, Launched
<1>7. ASSUME NEW q \in Requests PROVE Conserved(q)'
  <2>1. FilesWith(q)' = FilesWith(q) /\ InFiles(q)' = InFiles(q) /\ Held(q)' = Held(q)
        /\ (Booked(q)' <=> Booked(q))
    BY <1>1 DEF FilesWith, InFiles, Held, Booked
  <2> QED
    BY <1>1, <2>1 DEF LInv, Conserved
<1> QED
  BY <1>4, <1>5, <1>6, <1>7 DEF LInv

\* The aggregator takes an entry from the channel to the log.
LEMMA LogTake ==
  ASSUME LInv, IInv', aggregateEntry, UNCHANGED <<pc, set>>
  PROVE  LInv'
<1>0. LogTyped /\ AskedOnce
  BY DEF LInv
<1>1. /\ UNCHANGED <<harFlushRequest, aggregator, disk, asked, unwritten>>
      /\ harLogEntryCh # <<>> /\ harLogEntryCh' = Tail(harLogEntryCh)
      /\ entries' = Append(entries, Head(harLogEntryCh))
  BY DEF aggregateEntry
<1>2. /\ Head(harLogEntryCh) \in Requests /\ Tail(harLogEntryCh) \in Seq(Requests)
      /\ Len(Tail(harLogEntryCh)) = Len(harLogEntryCh) - 1
  BY <1>0, <1>1, OccursTail DEF LogTyped
<1>3. LogTyped'
  <2>1. Len(harLogEntryCh') <= EntryCap
    <3>1. Len(harLogEntryCh) \in Nat /\ EntryCap \in Nat /\ Len(harLogEntryCh) <= EntryCap
      BY <1>0, HarLogAssumption DEF LogTyped
    <3> QED
      BY <1>1, <1>2, <3>1
  <2>2. entries' \in Seq(Requests)
    BY <1>0, <1>1, <1>2 DEF LogTyped
  <2> QED
    BY <1>0, <1>1, <1>2, <2>1, <2>2 DEF LogTyped
<1>4. AskedOnce' /\ Launched'
  BY <1>1 DEF LInv, AskedOnce, Launched
<1>5. ASSUME NEW q \in Requests PROVE Conserved(q)'
  <2>1. PICK h \in Requests : h = Head(harLogEntryCh)
    BY <1>2
  <2>2. FilesWith(q)' = FilesWith(q) /\ InFiles(q)' = InFiles(q) /\ (Booked(q)' <=> Booked(q))
    BY <1>1 DEF FilesWith, InFiles, Booked
  <2>3. Occurs(harLogEntryCh, q) = Occurs(Tail(harLogEntryCh), q) + (IF h = q THEN 1 ELSE 0)
    BY <1>0, <1>1, <2>1, OccursTail DEF LogTyped
  <2>4. Occurs(Append(entries, h), q) = Occurs(entries, q) + (IF h = q THEN 1 ELSE 0)
    BY <1>0, OccursAppend DEF LogTyped
  <2>5. Held(q)' = Occurs(Tail(harLogEntryCh), q) + Occurs(Append(entries, h), q)
    BY <1>1, <2>1 DEF Held
  <2>6. Occurs(Tail(harLogEntryCh), q) \in Nat
    BY <1>2, PlacesFinite
  <2>7. Held(q)' = Occurs(harLogEntryCh, q) + Occurs(entries, q)
    <3>1. Occurs(entries, q) \in Nat
      BY LogCounts
    <3>2. CASE h = q
      BY <2>3, <2>4, <2>5, <2>6, <3>1, <3>2
    <3>3. CASE h # q
      BY <2>3, <2>4, <2>5, <2>6, <3>1, <3>3
    <3> QED
      BY <3>2, <3>3
  <2>8. Held(q)' = Held(q)
    BY <2>7 DEF Held
  <2> QED
    BY <1>1, <2>2, <2>8 DEF LInv, Conserved
<1> QED
  BY <1>3, <1>4, <1>5 DEF LInv

\* What a flush does to the channel of requests for one.
LEMMA LogFlushTaken ==
  ASSUME LInv, ReceiveFlush
  PROVE  /\ Head(harFlushRequest) \in asked /\ Head(harFlushRequest) \in Files
         /\ disk[Head(harFlushRequest)] = <<>>
         /\ harFlushRequest' \in Seq(Files) /\ Len(harFlushRequest') <= FlushCap
         /\ \A i \in 1..Len(harFlushRequest') :
              /\ harFlushRequest'[i] \in asked /\ disk[harFlushRequest'[i]] = <<>>
              /\ harFlushRequest'[i] # Head(harFlushRequest)
         /\ \A i, j \in 1..Len(harFlushRequest') :
              harFlushRequest'[i] = harFlushRequest'[j] => i = j
<1>1. LogTyped /\ AskedOnce /\ harFlushRequest # <<>> /\ harFlushRequest' = Tail(harFlushRequest)
  BY DEF LInv, ReceiveFlush
<1>2. PICK n \in Nat : Len(harFlushRequest) = n + 1
  <2>1. Len(harFlushRequest) \in Nat /\ Len(harFlushRequest) # 0
    BY <1>1, EmptySeq DEF LogTyped
  <2>2. Len(harFlushRequest) = (Len(harFlushRequest) - 1) + 1 /\ Len(harFlushRequest) - 1 \in Nat
    BY <2>1
  <2> QED
    BY <2>2
<1>3. /\ Head(harFlushRequest) = harFlushRequest[1] /\ Head(harFlushRequest) \in Files
      /\ harFlushRequest' \in Seq(Files) /\ Len(harFlushRequest') = n
      /\ \A i \in 1..n : harFlushRequest'[i] = harFlushRequest[i + 1]
  BY <1>1, <1>2, HeadTailProperties DEF LogTyped
<1>4. \A i \in 1..(n + 1) : harFlushRequest[i] \in asked /\ disk[harFlushRequest[i]] = <<>>
  BY <1>1, <1>2 DEF AskedOnce
<1>5. \A i, j \in 1..(n + 1) : harFlushRequest[i] = harFlushRequest[j] => i = j
  BY <1>1, <1>2 DEF AskedOnce
<1>6. 1 \in 1..(n + 1) /\ \A i \in 1..n : i + 1 \in 1..(n + 1) /\ i + 1 # 1
  OBVIOUS
<1>7. n <= FlushCap
  BY <1>1, <1>2, HarLogAssumption DEF LogTyped
<1>8. \A i, j \in 1..n : harFlushRequest'[i] = harFlushRequest'[j] => i = j
  <2> SUFFICES ASSUME NEW i \in 1..n, NEW j \in 1..n, harFlushRequest'[i] = harFlushRequest'[j]
               PROVE  i = j
    OBVIOUS
  <2>1. i + 1 = j + 1
    BY <1>3, <1>5, <1>6
  <2> QED
    BY <2>1
<1>9. \A i \in 1..n :
        /\ harFlushRequest'[i] \in asked /\ disk[harFlushRequest'[i]] = <<>>
        /\ harFlushRequest'[i] # Head(harFlushRequest)
  BY <1>3, <1>4, <1>5, <1>6
<1>10. Head(harFlushRequest) \in asked /\ disk[Head(harFlushRequest)] = <<>>
  BY <1>3, <1>4, <1>6
<1> QED
  BY <1>3, <1>7, <1>8, <1>9, <1>10

\* A flush that finds nothing, or that fails.
LEMMA LogDrop ==
  ASSUME LInv, IInv', flushEmpty \/ flushFails, UNCHANGED <<pc, set>>
  PROVE  LInv'
<1>0. LogTyped /\ AskedOnce
  BY DEF LInv
<1>1. ReceiveFlush /\ UNCHANGED <<harLogEntryCh, aggregator, disk, asked>>
  BY DEF flushEmpty, flushFails, ReceiveFlush
<1>2. PICK e \in Seq(Requests) : e = <<>>
  BY EmptySeq
<1>3. (entries' = entries /\ unwritten' = unwritten) \/ (entries' = e /\ unwritten' = unwritten \o entries)
  BY <1>2 DEF flushEmpty, flushFails
<1>4. LogTyped'
  <2>1. entries' \in Seq(Requests) /\ unwritten' \in Seq(Requests)
    <3>1. entries \in Seq(Requests) /\ unwritten \in Seq(Requests)
      BY <1>0 DEF LogTyped
    <3>2. unwritten \o entries \in Seq(Requests) /\ e \in Seq(Requests)
      BY <1>2, <3>1
    <3> QED
      BY <1>3, <3>1, <3>2
  <2> QED
    BY <1>0, <1>1, <2>1, LogFlushTaken DEF LogTyped
<1>5. AskedOnce' /\ Launched'
  BY <1>0, <1>1, LogFlushTaken DEF LInv, AskedOnce, Launched
<1>6. ASSUME NEW q \in Requests PROVE Conserved(q)'
  <2>1. FilesWith(q)' = FilesWith(q) /\ InFiles(q)' = InFiles(q) /\ (Booked(q)' <=> Booked(q))
    BY <1>1 DEF FilesWith, InFiles, Booked
  <2>2. Held(q)' = Occurs(harLogEntryCh, q) + Occurs(entries', q)
    BY <1>1 DEF Held
  <2>3. Occurs(entries', q) + Occurs(unwritten', q) = Occurs(entries, q) + Occurs(unwritten, q)
    <3>1. CASE entries' = entries /\ unwritten' = unwritten
      BY <3>1
    <3>2. CASE entries' = e /\ unwritten' = unwritten \o entries
      <4>1. Occurs(entries', q) = 0
        BY <1>2, <3>2, OccursEmpty
      <4>2. Occurs(unwritten', q) = Occurs(unwritten, q) + Occurs(entries, q)
        BY <1>0, <3>2, OccursConcat DEF LogTyped
      <4> QED
        BY <4>1, <4>2, LogCounts
    <3> QED
      BY <1>3, <3>1, <3>2
  <2>4. Occurs(entries', q) \in Nat /\ Occurs(unwritten', q) \in Nat
    BY <1>4, PlacesFinite DEF LogTyped
  <2>5. IsFiniteSet(FilesWith(q))
    BY LogCounts
  <2>6. Held(q)' + InFiles(q) + Occurs(unwritten', q) = IF Booked(q) THEN 1 ELSE 0
    BY <2>2, <2>3, <2>4, LogCounts
  <2> QED
    BY <2>1, <2>5, <2>6 DEF Conserved
<1> QED
  BY <1>4, <1>5, <1>6 DEF LInv

\* A flush that writes its file, in which nothing was before.
LEMMA LogWritten ==
  ASSUME LInv, IInv', flushWritten, UNCHANGED <<pc, set>>
  PROVE  LInv'
<1>0. LogTyped /\ AskedOnce
  BY DEF LInv
<1>1. PICK f \in Files : f = Head(harFlushRequest)
  BY LogFlushTaken DEF flushWritten
<1>2. /\ ReceiveFlush /\ UNCHANGED <<harLogEntryCh, aggregator, asked, unwritten>>
      /\ disk' = [disk EXCEPT ![f] = entries] /\ entries' = <<>>
      /\ f \in asked /\ disk[f] = <<>>
  BY <1>1, LogFlushTaken DEF flushWritten, ReceiveFlush
<1>3. /\ disk'[f] = entries /\ \A g \in Files \ {f} : disk'[g] = disk[g]
      /\ disk' \in [Files -> Seq(Requests)]
  BY <1>0, <1>2 DEF LogTyped
<1>4. LogTyped'
  <2>1. entries' \in Seq(Requests)
    BY <1>2, EmptySeq
  <2> QED
    BY <1>0, <1>2, <1>3, <2>1, LogFlushTaken DEF LogTyped
<1>5. AskedOnce'
  <2>1. \A g \in Files : g \notin asked => disk'[g] = <<>>
    BY <1>0, <1>2, <1>3 DEF AskedOnce
  <2>2. \A i \in 1..Len(harFlushRequest') :
          harFlushRequest'[i] \in asked /\ disk'[harFlushRequest'[i]] = <<>>
    <3> SUFFICES ASSUME NEW i \in 1..Len(harFlushRequest')
                 PROVE  harFlushRequest'[i] \in asked /\ disk'[harFlushRequest'[i]] = <<>>
      OBVIOUS
    <3>1. /\ harFlushRequest'[i] \in asked /\ disk[harFlushRequest'[i]] = <<>>
          /\ harFlushRequest'[i] # f
      BY <1>1, <1>2, LogFlushTaken
    <3>2. harFlushRequest'[i] \in Files
      BY <1>4 DEF LogTyped
    <3> QED
      BY <1>3, <3>1, <3>2
  <2> QED
    BY <1>2, <2>1, <2>2, LogFlushTaken DEF AskedOnce
<1>6. Launched'
  BY <1>2 DEF LInv, Launched
<1>7. ASSUME NEW q \in Requests PROVE Conserved(q)'
  <2>1. Held(q)' = Occurs(harLogEntryCh, q) /\ (Booked(q)' <=> Booked(q))
    <3>1. Held(q)' = Occurs(harLogEntryCh, q) + Occurs(<<>>, q)
      BY <1>2 DEF Held
    <3>2. Occurs(<<>>, q) = 0 /\ Occurs(harLogEntryCh, q) \in Nat
      BY LogCounts, OccursEmpty
    <3> QED
      BY <3>1, <3>2 DEF Booked
  <2>2. Occurs(entries, q) \in {0, 1}
    BY LogCounts
  <2>3. f \notin FilesWith(q)
    BY <1>2, OccursEmpty DEF FilesWith
  <2>4. IsFiniteSet(FilesWith(q)') /\ InFiles(q)' = InFiles(q) + Occurs(entries, q)
    <3>1. InFiles(q)' = Cardinality(FilesWith(q)')
      BY DEF InFiles, FilesWith
    <3>2. CASE Occurs(entries, q) = 0
      <4>1. FilesWith(q)' = FilesWith(q)
        BY <1>3, <2>3, <3>2 DEF FilesWith
      <4> QED
        BY <3>1, <3>2, <4>1, LogCounts
    <3>3. CASE Occurs(entries, q) = 1
      <4>1. FilesWith(q)' = FilesWith(q) \cup {f}
        BY <1>3, <3>3 DEF FilesWith
      <4>2. /\ IsFiniteSet(FilesWith(q) \cup {f})
            /\ Cardinality(FilesWith(q) \cup {f}) = Cardinality(FilesWith(q)) + 1
        BY <2>3, LogCounts, FS_AddElement
      <4> QED
        BY <3>1, <3>3, <4>1, <4>2, LogCounts
    <3> QED
      BY <2>2, <3>2, <3>3
  <2>5. Occurs(harLogEntryCh, q) + (InFiles(q) + Occurs(entries, q)) + Occurs(unwritten, q)
          = IF Booked(q) THEN 1 ELSE 0
    BY LogCounts
  <2> QED
    BY <1>2, <2>1, <2>4, <2>5 DEF Conserved
<1> QED
  BY <1>4, <1>5, <1>6, <1>7 DEF LInv

\* The steps of a request that do not touch the log.
LEMMA RequestLog ==
  ASSUME LInv, NEW r \in Requests, Request(r)
  PROVE  LInv'
<1>0. IInv' /\ Typed /\ Typed' /\ LogTyped
  BY RequestStep DEF LInv, IInv
<1> DEFINE still == UNCHANGED <<harLogEntryCh, harFlushRequest, entries, disk, asked, unwritten>>
<1>1. CASE handlers(r)
  <2>1. PICK s \in Settings :
          /\ set' = [set EXCEPT ![r] = s]
          /\ IF s.log THEN aggregator' = TRUE ELSE aggregator' = aggregator
    BY <1>1 DEF handlers, LaunchAggregator
  <2>2. still /\ pc[r] = "handlers" /\ pc' = [pc EXCEPT ![r] = "choose"]
    BY <1>1 DEF handlers, Goto
  <2>3. set'[r] = s /\ \A q \in Requests \ {r} : set'[q] = set[q]
    BY <1>0, <2>1 DEF Typed
  <2>4. aggregator' \in BOOLEAN
    BY <1>0, <2>1 DEF LogTyped
  <2>5. Launched'
    BY <2>1, <2>3 DEF LInv, Launched
  <2>6. \A q \in Requests : Booked(q)' <=> Booked(q)
    BY <1>0, <2>2, <2>3 DEF Booked, Typed
  <2> QED
    BY <1>0, <2>2, <2>4, <2>5, <2>6, LogStill
<1>2. CASE logRoundTrip(r)
  BY <1>0, <1>2, LogSend
<1>3. ASSUME UNCHANGED <<set, harVars>>, \A q \in Requests \ {r} : pc'[q] = pc[q],
             pc[r] # "done", pc'[r] = "done" => ~set[r].log
      PROVE  LInv'
  <2>1. still /\ aggregator' = aggregator /\ set' = set
    BY <1>3 DEF harVars
  <2>2. aggregator' \in BOOLEAN /\ Launched'
    BY <1>0, <2>1 DEF LogTyped, LInv, Launched
  <2>3. \A q \in Requests : Booked(q)' <=> Booked(q)
    BY <1>3, <2>1 DEF Booked
  <2> QED
    BY <1>0, <2>1, <2>2, <2>3, LogStill
<1>4. CASE startTrace(r) \/ traceStep(r)
  <2>1. UNCHANGED <<set, harVars>>
    BY <1>4 DEF startTrace, traceStep, ctxVars
  <2>2. /\ \A q \in Requests \ {r} : pc'[q] = pc[q]
        /\ pc[r] # "done" /\ pc'[r] # "done"
    BY <1>0, <1>4 DEF startTrace, traceStep, Goto, Typed
  <2> QED
    BY <1>3, <2>1, <2>2
<1>5. CASE useOwn(r) \/ chooseTransport(r) \/ flushClose(r) \/ flushClear(r)
  <2>1. UNCHANGED <<set, harVars>>
    BY <1>5 DEF useOwn, chooseTransport, flushClose, flushClear, ctxVars
  <2>2. /\ \A q \in Requests \ {r} : pc'[q] = pc[q]
        /\ pc[r] # "done" /\ pc'[r] # "done"
    BY <1>0, <1>5
       DEF useOwn, chooseTransport, TestFlushIdle, flushClose, flushClear, Goto, Typed
  <2> QED
    BY <1>3, <2>1, <2>2
<1>6. CASE ownRoundTrip(r) \/ wrapTransport(r)
  <2>1. UNCHANGED <<set, harVars>>
    BY <1>6 DEF ownRoundTrip, wrapTransport
  <2>2. /\ \A q \in Requests \ {r} : pc'[q] = pc[q]
        /\ pc[r] # "done" /\ pc'[r] # "done"
    BY <1>0, <1>6 DEF ownRoundTrip, wrapTransport, Goto, Typed
  <2> QED
    BY <1>3, <2>1, <2>2
<1>7. CASE roundTrip(r)
  <2>1. UNCHANGED <<set, harVars>> /\ ~set[r].log
    BY <1>7 DEF roundTrip, Return
  <2>2. /\ \A q \in Requests \ {r} : pc'[q] = pc[q]
        /\ pc[r] # "done"
    BY <1>0, <1>7 DEF roundTrip, Return, Goto, Typed
  <2> QED
    BY <1>3, <2>1, <2>2
<1> QED
  BY <1>1, <1>2, <1>4, <1>5, <1>6, <1>7 DEF Request

\* Nothing is logged at first.
LEMMA LogInit == Init => LInv
<1> SUFFICES ASSUME Init PROVE LInv
  OBVIOUS
<1>1. /\ harLogEntryCh = <<>> /\ harFlushRequest = <<>> /\ aggregator = FALSE
      /\ entries = <<>> /\ disk = [f \in Files |-> <<>>] /\ asked = {} /\ unwritten = <<>>
  BY DEF Init, HarInit
<1>2. LogTyped
  <2>1. Len(harLogEntryCh) = 0 /\ Len(harFlushRequest) = 0 /\ 0 <= EntryCap /\ 0 <= FlushCap
    BY <1>1, HarLogAssumption
  <2>2. <<>> \in Seq(Requests) /\ <<>> \in Seq(Files)
    BY EmptySeq
  <2>3. disk \in [Files -> Seq(Requests)]
    BY <1>1, <2>2
  <2> QED
    BY <1>1, <2>1, <2>2, <2>3 DEF LogTyped
<1>3. AskedOnce
  <2>1. 1..Len(harFlushRequest) = {}
    BY <1>1
  <2> QED
    BY <1>1, <2>1 DEF AskedOnce
<1>4. Launched
  BY DEF Init, Launched
<1>5. ASSUME NEW q \in Requests PROVE Conserved(q)
  <2>1. FilesWith(q) = {}
    BY <1>1, OccursEmpty DEF FilesWith
  <2>2. IsFiniteSet(FilesWith(q)) /\ InFiles(q) = 0
    BY <2>1, FS_EmptySet DEF FilesWith, InFiles
  <2>3. Held(q) = 0 /\ Occurs(unwritten, q) = 0
    BY <1>1, OccursEmpty DEF Held
  <2>4. ~Booked(q)
    BY DEF Init, Booked
  <2> QED
    BY <2>2, <2>3, <2>4 DEF Conserved
<1> QED
  BY <1>2, <1>3, <1>4, <1>5, InitInv DEF LInv

\* Every step keeps the invariant.
LEMMA LogStep == LInv /\ [Next]_vars => LInv'
<1> SUFFICES ASSUME LInv, [Next]_vars
             PROVE  LInv'
  OBVIOUS
<1>1. CASE \E r \in Requests : Request(r)
  BY <1>1, RequestLog
<1>2. ASSUME UNCHANGED <<pc, set, harVars>>, IInv'
      PROVE  LInv'
  <2>1. /\ UNCHANGED <<harLogEntryCh, harFlushRequest, entries, disk, asked, unwritten>>
        /\ aggregator' = aggregator /\ pc' = pc /\ set' = set
    BY <1>2 DEF harVars
  <2>2. aggregator' \in BOOLEAN /\ Launched'
    BY <2>1 DEF LInv, LogTyped, Launched
  <2>3. \A q \in Requests : Booked(q)' <=> Booked(q)
    BY <2>1 DEF Booked
  <2> QED
    BY <1>2, <2>1, <2>2, <2>3, LogStill
<1>3. CASE Owner
  <2>1. IInv'
    BY <1>3, OwnerStep DEF LInv
  <2>2. ASSUME NEW f \in Files, FlushHARToDisk(f), UNCHANGED <<pc, ctxVars>>
        PROVE  LInv'
    BY <2>1, <2>2, LogAsk DEF ctxVars
  <2>3. CASE setFlushIdle \/ UNCHANGED <<pc, ctxVars, idleVars, harVars>>
    BY <1>2, <2>1, <2>3 DEF setFlushIdle, ctxVars
  <2> QED
    BY <1>3, <2>2, <2>3 DEF Owner
<1>4. CASE Aggregator
  <2>1. IInv' /\ UNCHANGED <<pc, set>>
    BY <1>4, HarStep DEF Aggregator, LInv, ctxVars
  <2> QED
    BY <1>4, <2>1, LogTake, LogDrop, LogWritten DEF Aggregator, harLogAggregator
<1>5. CASE Finished \/ UNCHANGED vars
  <2>1. UNCHANGED <<pc, ctxVars, idleVars, tracerVars>> /\ UNCHANGED harVars /\ set' = set
    BY <1>5 DEF Finished, vars, ctxVars
  <2> QED
    BY <1>2, <2>1, HarStep DEF LInv
<1> QED
  BY <1>1, <1>3, <1>4, <1>5 DEF Next

\* The invariant holds in every reachable state.
THEOREM LogInvariant == Spec => []LInv
BY LogInit, LogStep, PTL DEF Spec

\* Every entry that was sent is in one place: in the channel, in the log, in one
\* file or lost with a flush that failed (harlog.go:51-114).
THEOREM EntriesConserved == Spec => []LogConserved
<1>1. LInv => LogConserved
  BY DEF LInv, LogConserved, Conserved, Booked
<1> QED
  BY LogInvariant, <1>1, PTL

\* A request that waits for room in the channel of entries waits for an aggregator
\* that has been launched (harlog.go:116).
THEOREM SendHeard == Spec => []LogSendHeard
<1>1. LInv => LogSendHeard
  BY DEF LInv, Launched, LogSendHeard
<1> QED
  BY LogInvariant, <1>1, PTL

-----------------------------------------------------------------------------
(* Panics, taken commands and types.                                         *)

\* What a transport may have come back with.
Returned == {NoOutcome} \cup LocalOutcomes \cup ShadowOutcomes

\* Only commands that were given are anywhere.
Known ==
  /\ issued \subseteq Commands /\ expired \subseteq issued
  /\ \A c \in Commands :
       /\ table = <<c>> => c \in issued
       /\ \A r \in Requests : seen[r] = <<c>> \/ trace[r] = c => c \in issued

\* A request that is past the choice has a transport.
Chosen ==
  \A r \in Requests :
    pc[r] \in {"flushClose", "flushClear", "transport", "logSend", "done"} => tr[r] # "none"

\* A request that reads an empty table did not empty it.
EmptiedByOther ==
  \A r \in Requests :
    Reading(r) /\ table = <<>> => \E q \in Requests \ {r} : pc[q] # "start"

\* The invariant.
TInv == /\ LInv /\ Known /\ Chosen /\ EmptiedByOther
        /\ out \in [Requests -> Returned] /\ TakenThenGone /\ PanicCause

\* The outcome of a transport, and what is made of a failover.
LEMMA ReturnedFacts ==
  ASSUME Typed, NEW r \in Requests, NEW o \in Outcomes(r), NEW b \in BOOLEAN
  PROVE  /\ o \in Returned /\ [o EXCEPT !.err = @ /\ b] \in Returned
         /\ [o EXCEPT !.err = @ /\ b].resp = o.resp
<1> DEFINE Shape(x) ==
             \/ x.resp /\ ~x.err /\ x.via = "local"
             \/ ~x.resp /\ x.via = "none" /\ ~x.failed
             \/ x.resp /\ ~x.err /\ x.via = "shadow" /\ ~x.failed
             \/ x.resp /\ x.err /\ x.via = "local" /\ ~x.failed
<1>1. PICK p \in LocalOutcomes \cup ShadowOutcomes :
        o = [p EXCEPT !.failed = @ /\ ~set[r].log]
  BY DEF Outcomes
<1>2. p \in AllOutcomes /\ Shape(p)
  BY DEF LocalOutcomes, ShadowOutcomes, AllOutcomes
<1>3. /\ o \in AllOutcomes /\ o.resp = p.resp /\ o.err = p.err /\ o.via = p.via
      /\ o.failed = (p.failed /\ ~set[r].log)
  BY <1>1, <1>2 DEF AllOutcomes, Typed, Setting
<1>4. Shape(o)
  BY <1>2, <1>3
<1>5. PICK e \in AllOutcomes : e = [o EXCEPT !.err = @ /\ b]
  BY <1>3 DEF AllOutcomes
<1>6. e.resp = o.resp /\ e.err = (o.err /\ b) /\ e.via = o.via /\ e.failed = o.failed
  BY <1>3, <1>5 DEF AllOutcomes
<1>7. Shape(e)
  BY <1>4, <1>6
<1>8. ASSUME NEW x \in AllOutcomes, Shape(x) PROVE x \in Returned
  <2>1. CASE x.resp /\ ~x.err /\ x.via = "local"
    BY <2>1 DEF AllOutcomes, Returned, LocalOutcomes, ShadowOutcomes
  <2>2. CASE ~x.resp /\ x.via = "none" /\ ~x.failed
    BY <2>2 DEF AllOutcomes, Returned, LocalOutcomes, NoOutcome
  <2>3. CASE x.resp /\ ~x.err /\ x.via = "shadow" /\ ~x.failed
    BY <2>3 DEF AllOutcomes, Returned, ShadowOutcomes
  <2>4. CASE x.resp /\ x.err /\ x.via = "local" /\ ~x.failed
    BY <2>4 DEF AllOutcomes, Returned, ShadowOutcomes
  <2> QED
    BY <1>8, <2>1, <2>2, <2>3, <2>4
<1>9. o \in Returned /\ e \in Returned
  BY <1>3, <1>4, <1>7, <1>8
<1> HIDE DEF Shape
<1> QED
  BY <1>5, <1>6, <1>9

\* The steps of Trace: the command a request takes is deleted for those who come
\* later; a table that is empty to its reader was emptied by another.
LEMMA TraceStep ==
  ASSUME TInv, LInv', NEW r \in Requests, startTrace(r) \/ traceStep(r)
  PROVE  TInv'
<1>0. Typed /\ Typed' /\ TableStable /\ ReadersTrace
  BY DEF TInv, LInv, IInv
<1>1. /\ (traceLookup(r) /\ ~Reading(r) /\ pc[r] = "start") \/ (Trace(r) /\ pc[r] = "trace")
      /\ pc' = [pc EXCEPT ![r] = pc'[r]] /\ pc'[r] \in {"handlers", "trace", "panic"}
      /\ (pc'[r] = "panic" => Trace(r) /\ tpc'[r] = "panic")
      /\ UNCHANGED <<set, tr, out, private>>
  <2>1. CASE startTrace(r)
    BY <1>0, <2>1 DEF startTrace, Goto, ReadersTrace, ctxVars, Typed
  <2>2. CASE traceStep(r)
    BY <1>0, <2>2 DEF traceStep, ctxVars, Typed
  <2> QED
    BY <2>1, <2>2
<1>2. /\ \A q \in Requests \ {r} :
           tpc'[q] = tpc[q] /\ seen'[q] = seen[q] /\ trace'[q] = trace[q] /\ pc'[q] = pc[q]
      /\ UNCHANGED <<issued, expired>>
  BY <1>0, <1>1 DEF Trace, traceLookup, traceMatch, traceMiss, tracePrune, Typed
<1>3. \/ table' = table \/ (table' = <<>> /\ pc[r] = "trace" /\ tpc'[r] \in {"out", "panic"})
  BY <1>0, <1>1 DEF Trace, traceLookup, traceMatch, traceMiss, tracePrune, Typed
<1>4. \A c \in Commands : \A d : <<c>> # <<>> /\ (<<c>> = <<d>> => c = d) /\ Head(<<c>>) = c
  OBVIOUS
<1>5. CASE traceMatch(r)
  <2>1. PICK c \in Commands : seen[r] = <<c>> /\ Head(seen[r]) = c
    BY <1>0, <1>5 DEF traceMatch, Typed, TableStable, Reading, Tables
  <2>2. /\ trace'[r] = c /\ seen'[r] = <<>> /\ tpc'[r] = "out"
        /\ table' = IF c \in Modifying THEN <<>> ELSE table
    BY <1>0, <1>5, <2>1 DEF traceMatch, Typed
  <2>3. c \in issued
    BY <2>1 DEF TInv, Known
  <2>4. Known'
    <3>1. \A d \in Commands : table' = <<d>> => d \in issued'
      BY <1>2, <2>2, <1>4 DEF TInv, Known
    <3>2. \A d \in Commands : seen'[r] = <<d>> \/ trace'[r] = d => d \in issued'
      BY <1>2, <1>4, <2>2, <2>3
    <3>3. \A d \in Commands : \A q \in Requests \ {r} :
             seen'[q] = <<d>> \/ trace'[q] = d => d \in issued'
      BY <1>2 DEF TInv, Known
    <3> QED
      BY <1>2, <3>1, <3>2, <3>3 DEF TInv, Known
  <2>5. TakenThenGone'
    <3> SUFFICES ASSUME NEW d \in Modifying, NEW q \in Requests, trace'[q] = d
                 PROVE  table' # <<d>>
      BY DEF TakenThenGone
    <3>1. d \in Commands
      BY RequestTracerAssumption
    <3>2. CASE q = r
      BY <1>4, <2>2, <3>1, <3>2
    <3>3. CASE q # r
      <4>1. table # <<d>>
        BY <1>2, <3>3 DEF TInv, TakenThenGone
      <4> QED
        BY <1>4, <2>2, <3>1, <4>1
    <3> QED
      BY <3>2, <3>3
  <2>6. pc'[r] # "panic"
    BY <1>1, <2>2
  <2>7. PanicCause' /\ Chosen'
    BY <1>1, <1>2, <2>6 DEF TInv, PanicCause, Chosen, Traced
  <2>8. EmptiedByOther'
    BY <1>1, <1>2, <1>3, <2>2 DEF TInv, EmptiedByOther, Reading
  <2> QED
    BY <1>1, <2>4, <2>5, <2>7, <2>8 DEF TInv
<1>6. CASE ~traceMatch(r)
  <2>1. trace'[r] = trace[r] /\ (seen'[r] = table \/ seen'[r] = <<>>)
    BY <1>0, <1>1, <1>6 DEF Trace, traceLookup, traceMiss, tracePrune, Typed
  <2>2. Known'
    <3>1. \A d \in Commands : table' = <<d>> => d \in issued'
      BY <1>2, <1>3, <1>4 DEF TInv, Known
    <3>2. \A d \in Commands : seen'[r] = <<d>> \/ trace'[r] = d => d \in issued'
      BY <1>2, <1>4, <2>1 DEF TInv, Known
    <3>3. \A d \in Commands : \A q \in Requests \ {r} :
             seen'[q] = <<d>> \/ trace'[q] = d => d \in issued'
      BY <1>2 DEF TInv, Known
    <3> QED
      BY <1>2, <3>1, <3>2, <3>3 DEF TInv, Known
  <2>3. TakenThenGone'
    <3> SUFFICES ASSUME NEW d \in Modifying, NEW q \in Requests, trace'[q] = d
                 PROVE  table' # <<d>>
      BY DEF TakenThenGone
    <3>1. d \in Commands /\ trace[q] = d
      BY <1>2, <2>1, RequestTracerAssumption
    <3>2. table # <<d>>
      BY <3>1 DEF TInv, TakenThenGone
    <3> QED
      BY <1>3, <1>4, <3>1, <3>2
  <2>4. pc'[r] = "panic" => tpc'[r] = "panic" /\ expired' # {}
                            /\ \E q \in Requests \ {r} : pc'[q] # "start"
    <3> SUFFICES ASSUME pc'[r] = "panic"
                 PROVE  tpc'[r] = "panic" /\ expired' # {}
                        /\ \E q \in Requests \ {r} : pc'[q] # "start"
      OBVIOUS
    <3>1. tpc'[r] = "panic" /\ Trace(r)
      BY <1>1
    <3>2. tracePrune(r) /\ table = <<>> /\ expired # {} /\ Reading(r)
      BY <1>0, <1>6, <3>1 DEF Trace, traceMiss, tracePrune, Reading, Typed
    <3>3. \E q \in Requests \ {r} : pc[q] # "start"
      BY <3>2 DEF TInv, EmptiedByOther
    <3> QED
      BY <1>2, <3>1, <3>2, <3>3
  <2>5. PanicCause' /\ Chosen'
    BY <1>1, <1>2, <2>4 DEF TInv, PanicCause, Chosen, Traced
  <2>6. Reading(r)' => table' # <<>>
    BY <1>0, <1>1, <1>6 DEF Trace, traceLookup, traceMiss, tracePrune, Typed, Reading
  <2>7. EmptiedByOther'
    BY <1>1, <1>2, <1>3, <2>6 DEF TInv, EmptiedByOther, Reading
  <2> QED
    BY <1>1, <2>2, <2>3, <2>5, <2>7 DEF TInv
<1> QED
  BY <1>5, <1>6

\* The other steps leave the tracer alone.
LEMMA OtherStep ==
  ASSUME TInv, LInv', NEW r \in Requests, Request(r), ~startTrace(r), ~traceStep(r)
  PROVE  TInv'
<1>0. Typed /\ Typed'
  BY DEF TInv, LInv, IInv
<1>1. UNCHANGED tracerVars /\ pc' = [pc EXCEPT ![r] = pc'[r]]
      /\ pc[r] \notin {"start", "trace", "done", "panic"} /\ pc'[r] # "start"
  BY <1>0
     DEF Request, handlers, useOwn, chooseTransport, TestFlushIdle, flushClose,
         flushClear, ownRoundTrip, wrapTransport, logRoundTrip, roundTrip, Return,
         Goto, ctxVars, Typed
<1>2. /\ UNCHANGED <<table, issued, expired, tpc, seen, trace>>
      /\ \A q \in Requests \ {r} : pc'[q] = pc[q]
  BY <1>0, <1>1 DEF tracerVars, Typed
<1>3. Known' /\ TakenThenGone'
  BY <1>2 DEF TInv, Known, TakenThenGone
<1>4. EmptiedByOther'
  BY <1>1, <1>2 DEF TInv, EmptiedByOther, Reading
<1>5. ASSUME \A q \in Requests \ {r} : tr'[q] = tr[q] /\ out'[q] = out[q],
             out' \in [Requests -> Returned], pc'[r] # "choose" => tr'[r] # "none",
             pc'[r] = "panic" => Traced(r) /\ ~out'[r].resp /\ tr'[r] # "none"
      PROVE  TInv'
  <2>1. Chosen'
    BY <1>2, <1>5 DEF TInv, Chosen
  <2>2. PanicCause'
    BY <1>1, <1>2, <1>5 DEF TInv, PanicCause, Traced
  <2> QED
    BY <1>3, <1>4, <1>5, <2>1, <2>2 DEF TInv
<1>6. CASE handlers(r)
  <2>1. UNCHANGED <<tr, out>> /\ pc'[r] = "choose"
    BY <1>0, <1>6 DEF handlers, Goto, Typed
  <2> QED
    BY <1>5, <2>1 DEF TInv
<1>7. CASE useOwn(r) \/ chooseTransport(r)
  <2>1. out' = out /\ pc'[r] # "panic"
    BY <1>0, <1>7 DEF useOwn, chooseTransport, TestFlushIdle, Goto, Typed
  <2>2. tr'[r] # "none" /\ \A q \in Requests \ {r} : tr'[q] = tr[q]
    BY <1>0, <1>7 DEF useOwn, chooseTransport, Typed
  <2> QED
    BY <1>5, <2>1, <2>2 DEF TInv
<1>8. CASE flushClose(r) \/ flushClear(r) \/ logRoundTrip(r) \/ roundTrip(r)
  <2>1. UNCHANGED <<tr, out>> /\ pc'[r] # "panic"
        /\ pc[r] \in {"flushClose", "flushClear", "logSend"}
    BY <1>0, <1>8
       DEF flushClose, flushClear, logRoundTrip, roundTrip, Return, Goto, ctxVars, Typed
  <2>2. tr[r] # "none"
    BY <2>1 DEF TInv, Chosen
  <2> QED
    BY <1>5, <2>1, <2>2 DEF TInv
<1>9. CASE ownRoundTrip(r) \/ wrapTransport(r)
  <2> DEFINE failover(o) == tr[r] = "shadow" /\ private[r] /\ o.err /\ o.resp
  <2>1. tr' = tr /\ pc[r] = "transport"
    BY <1>0, <1>9 DEF ownRoundTrip, wrapTransport, Goto, Typed
  <2>2. tr[r] # "none"
    BY <2>1 DEF TInv, Chosen
  <2>3. PICK o \in Outcomes(r), b \in BOOLEAN :
          /\ \/ out' = [out EXCEPT ![r] = o]
             \/ out' = [out EXCEPT ![r] = [o EXCEPT !.err = @ /\ b]]
          /\ pc'[r] = "panic" => Traced(r) /\ ~o.resp
    <3>1. CASE ownRoundTrip(r)
      BY <1>0, <3>1 DEF ownRoundTrip, Goto, Typed
    <3>2. CASE wrapTransport(r)
      <4>1. PICK o \in Outcomes(r) :
              /\ pc' = [pc EXCEPT ![r] = IF Traced(r) /\ ~o.resp THEN "panic" ELSE "logSend"]
              /\ out' = [out EXCEPT ![r] = [o EXCEPT !.err = @ /\ ~failover(o)]]
        BY <3>2 DEF wrapTransport, Goto
      <4>2. (~failover(o)) \in BOOLEAN
        OBVIOUS
      <4>3. pc'[r] = "panic" => Traced(r) /\ ~o.resp
        BY <1>0, <4>1 DEF Typed
      <4> HIDE DEF failover
      <4> QED
        BY <4>1, <4>2, <4>3
    <3> QED
      BY <1>9, <3>1, <3>2
  <2>4. PICK p \in Returned : out' = [out EXCEPT ![r] = p] /\ p.resp = o.resp
    BY <1>0, <2>3, ReturnedFacts
  <2>5. out' \in [Requests -> Returned] /\ out'[r] = p /\ \A q \in Requests \ {r} : out'[q] = out[q]
    BY <2>4 DEF TInv
  <2> QED
    BY <1>5, <2>1, <2>2, <2>3, <2>4, <2>5
<1> QED
  BY <1>6, <1>7, <1>8, <1>9 DEF Request
\* A step of the log changes nothing of this.
LEMMA StillStep ==
  ASSUME TInv, LInv', UNCHANGED <<pc, ctxVars, tracerVars>>
  PROVE  TInv'
BY DEF TInv, Known, Chosen, EmptiedByOther, TakenThenGone, PanicCause, Reading, Traced,
       ctxVars, tracerVars

\* A new command is none that was taken before, and waits for the readers.
LEMMA CommandStep ==
  ASSUME TInv, LInv', NEW c \in Commands, RequestTrace(c) \/ expire(c), UNCHANGED <<pc, ctxVars>>
  PROVE  TInv'
<1>0. /\ UNCHANGED <<pc, set, tr, out, tpc, seen, trace>>
      /\ issued \subseteq issued' /\ expired \subseteq expired'
      /\ \A r \in Requests : Traced(r)' <=> Traced(r)
  BY DEF RequestTrace, expire, ctxVars, Traced
<1>1. PanicCause' /\ Chosen' /\ out' \in [Requests -> Returned]
  BY <1>0 DEF TInv, PanicCause, Chosen
<1>2. CASE RequestTrace(c)
  <2>1. c \notin issued /\ issued' = issued \cup {c} /\ table' = <<c>> /\ expired' = expired
        /\ \A r \in Requests : ~Reading(r)
    BY <1>2 DEF RequestTrace
  <2>2. \A d : <<c>> # <<>> /\ (<<c>> = <<d>> => c = d)
    OBVIOUS
  <2>3. Known'
    BY <1>0, <2>1, <2>2 DEF TInv, Known
  <2>4. TakenThenGone'
    <3> SUFFICES ASSUME NEW d \in Modifying, NEW r \in Requests, trace[r] = d, <<c>> = <<d>>
                 PROVE  FALSE
      BY <1>0, <2>1 DEF TakenThenGone
    <3>1. d = c /\ c \in issued
      BY <2>2 DEF TInv, Known
    <3> QED
      BY <2>1, <3>1
  <2>5. EmptiedByOther'
    BY <2>1, <2>2 DEF EmptiedByOther
  <2> QED
    BY <1>1, <2>3, <2>4, <2>5 DEF TInv
<1>3. CASE expire(c)
  <2>1. UNCHANGED <<table, issued>> /\ c \in issued /\ expired' = expired \cup {c}
    BY <1>3 DEF expire
  <2>2. Known' /\ TakenThenGone' /\ EmptiedByOther'
    BY <1>0, <2>1 DEF TInv, Known, TakenThenGone, EmptiedByOther, Reading
  <2> QED
    BY <1>1, <2>2 DEF TInv
<1> QED
  BY <1>2, <1>3

\* The owner's calls.
LEMMA OwnerTraces ==
  ASSUME TInv, LInv', Owner
  PROVE  TInv'
<1>1. CASE setFlushIdle
  BY <1>1, StillStep DEF setFlushIdle
<1>2. ASSUME NEW c \in Commands, RequestTrace(c) \/ expire(c), UNCHANGED <<pc, ctxVars>>
      PROVE  TInv'
  BY <1>2, CommandStep
<1>3. CASE UNCHANGED <<pc, ctxVars, tracerVars>>
  BY <1>3, StillStep
<1> QED
  BY <1>1, <1>2, <1>3 DEF Owner

\* Nothing is given, taken or chosen at first.
LEMMA TracesInit == Init => TInv
<1> SUFFICES ASSUME Init PROVE TInv
  OBVIOUS
<1>1. /\ table = <<>> /\ issued = {} /\ expired = {}
      /\ tpc = [r \in Requests |-> "out"] /\ seen = [r \in Requests |-> <<>>]
      /\ trace = [r \in Requests |-> NoTrace] /\ pc = [r \in Requests |-> "start"]
      /\ out = [r \in Requests |-> NoOutcome]
  BY DEF Init, TracerInit
<1>2. \A c \in Commands : <<c>> # <<>> /\ c # NoTrace
  BY RequestTracerAssumption
<1>3. Known /\ TakenThenGone
  BY <1>1, <1>2, RequestTracerAssumption DEF Known, TakenThenGone
<1>4. Chosen /\ EmptiedByOther /\ PanicCause
  BY <1>1 DEF Chosen, EmptiedByOther, PanicCause, Reading
<1>5. out \in [Requests -> Returned]
  BY <1>1 DEF Returned
<1> QED
  BY <1>3, <1>4, <1>5, LogInit DEF TInv

\* The invariant holds in every reachable state.
THEOREM TraceInvariant == Spec => []TInv
<1>1. TInv /\ [Next]_vars => TInv'
  <2> SUFFICES ASSUME TInv, [Next]_vars
               PROVE  TInv'
    OBVIOUS
  <2>1. LInv'
    BY LogStep DEF TInv
  <2>2. ASSUME NEW r \in Requests, Request(r)
        PROVE  TInv'
    BY <2>1, <2>2, TraceStep, OtherStep
  <2>3. CASE Owner
    BY <2>1, <2>3, OwnerTraces
  <2>4. CASE Aggregator \/ Finished \/ UNCHANGED vars
    BY <2>1, <2>4, StillStep DEF Aggregator, Finished, vars
  <2> QED
    BY <2>2, <2>3, <2>4 DEF Next
<1> QED
  BY TracesInit, <1>1, PTL DEF Spec

\* The state keeps its type: outcomes of transports are those the code tells
\* apart, and the channels never hold more than their capacity.
THEOREM TypeCorrect == Spec => []TypeOK
<1>1. TInv => TypeOK
  <2> SUFFICES ASSUME TInv PROVE TypeOK
    OBVIOUS
  <2>1. Typed /\ LogTyped /\ Known /\ out \in [Requests -> Returned]
    BY DEF TInv, LInv, IInv
  <2>2. TracerTypeOK
    BY <2>1 DEF TracerTypeOK, Typed, Tables, Known
  <2> QED
    BY <2>1, <2>2 DEF TypeOK, Typed, Stages, LogTyped, Returned
<1> QED
  BY TraceInvariant, <1>1, PTL

\* A request ends in a panic only when it is traced and got no response, or in the
\* deletion of a command that another request has deleted (tracer.go:158).
THEOREM PanicKnown == Spec => []PanicCause
<1>1. TInv => PanicCause
  BY DEF TInv
<1> QED
  BY TraceInvariant, <1>1, PTL

\* A trace command that a request has is in nobody's table any more (tracer.go:62).
THEOREM TakenOnce == Spec => []TakenThenGone
<1>1. TInv => TakenThenGone
  BY DEF TInv
<1> QED
  BY TraceInvariant, <1>1, PTL
=============================================================================

--------------------------- MODULE CertStoreProofs ---------------------------
(***************************************************************************)
(* Proofs about CertStore, for any workers, hosts and cells.               *)
(***************************************************************************)
EXTENDS CertStore, TLAPS

\* CreateCert's template has a host, an expiry and the bad flag.
LEMMA NewCertType ==
  ASSUME TypeOK, NEW w \in Workers, pc[w] # "idle" => host[w] \in Hosts, pc[w] = "create"
  PROVE  NewCert(w) \in Certs
BY CertStoreAssumption DEF TypeOK, NewCert, Certs

\* Collecting garbage leaves well-typed cells.
LEMMA CollectedType ==
  ASSUME NEW cells \in [Infos -> HostInfo], Collected(cells)
  PROVE  info' \in [Infos -> HostInfo]
BY CertStoreAssumption DEF Collected, HostInfo, ZeroInfo, ZeroTime

\* Writing a time into a HostInfo leaves it one.
LEMMA CellFields ==
  ASSUME NEW cells \in [Infos -> HostInfo], NEW i \in Infos,
         NEW t \in Int
  PROVE  /\ [cells EXCEPT ![i].LastVerify = t] \in [Infos -> HostInfo]
         /\ [cells EXCEPT ![i].NextAttempt = t] \in [Infos -> HostInfo]
BY DEF HostInfo

\* Writing a Config into a HostInfo leaves it one.
LEMMA CellConfig ==
  ASSUME NEW cells \in [Infos -> HostInfo], NEW i \in Infos, NEW c \in Certs
  PROVE  [cells EXCEPT ![i].Config = c] \in [Infos -> HostInfo]
BY DEF HostInfo

\* Locking or unlocking a HostInfo leaves it one.
LEMMA CellMu ==
  ASSUME NEW cells \in [Infos -> HostInfo], NEW i \in Infos,
         NEW w \in Workers \cup {NoWorker}
  PROVE  [cells EXCEPT ![i].mu = w] \in [Infos -> HostInfo]
BY DEF HostInfo

\* The history bit of a certificate may be set.
LEMMA MarkStale ==
  ASSUME NEW c \in Certs, NEW b \in BOOLEAN
  PROVE  [c EXCEPT !.stale = b] \in Certs
BY DEF Certs

\* What every return of certWithCommonName leaves behind is well typed ...
LEMMA ReturnType ==
  ASSUME TypeOK, NEW w \in Workers, hi[w] \in Infos,
         NEW cert \in Certs \cup {NoCert}, NEW cells \in [Infos -> HostInfo],
         Return(w, cert, cells)
  PROVE  /\ info' \in [Infos -> HostInfo]
         /\ pc' \in [Workers -> WorkerAt]
         /\ served' \in [Workers -> Certs \cup {NoCert}]
         /\ hi' \in [Workers -> Infos \cup {NoInfo}]
         /\ found' \in [Workers -> BOOLEAN]
         /\ orig' \in [Workers -> Int \cup {NoTime}]
         /\ badcert' \in [Workers -> BOOLEAN]
         /\ made' \in [Workers -> Certs \cup {NoCert}]
         /\ flushed' \in [Workers -> BOOLEAN]
<1>1. info' \in [Infos -> HostInfo]
  <2>1. [cells EXCEPT ![hi[w]].mu = NoWorker] \in [Infos -> HostInfo]
    BY DEF HostInfo
  <2> QED
    BY <2>1, CollectedType DEF Return
<1> QED
  BY <1>1 DEF Return, TypeOK, WorkerAt

\* A worker has a host from the lookup on, a cell until it returns, and a
\* certificate when it comes to store one.
Refs == \A w \in Workers : /\ hi[w] \in Infos <=> pc[w] \notin {"idle", "done"}
                           /\ pc[w] # "idle" => host[w] \in Hosts
                           /\ pc[w] \in {"made", "storing"} => made[w] \in Certs

Typed == TypeOK /\ Refs

\* ... so a step that returns preserves Typed when it types the store.
LEMMA ReturnTyped ==
  ASSUME Typed, NEW w \in Workers, pc[w] \notin {"idle", "done"},
         NEW cert \in Certs \cup {NoCert}, NEW cells \in [Infos -> HostInfo],
         Return(w, cert, cells),
         store' \in [Hosts -> Infos \cup {NoInfo}],
         certmu' \in Workers \cup {NoWorker}
  PROVE  Typed'
<1>1. hi[w] \in Infos
  BY DEF Typed, Refs
<1>2. TypeOK'
  BY <1>1, ReturnType DEF Typed, TypeOK, Return
<1>3. Refs'
  BY CertStoreAssumption DEF Typed, TypeOK, Refs, Return
<1> QED
  BY <1>2, <1>3 DEF Typed

\* The empty store is well typed.
LEMMA InitTyped == Init => Typed
BY CertStoreAssumption DEF Init, Typed, TypeOK, Refs, WorkerAt, ZeroInfo, HostInfo, ZeroTime

\* Every step of a handshake, every flush and every tick preserves the types.
LEMMA StepTyped == Typed /\ [Next]_vars => Typed'
<1> SUFFICES ASSUME Typed, [Next]_vars PROVE Typed'
  OBVIOUS
<1>0. info \in [Infos -> HostInfo] /\ now \in Int
  BY DEF Typed, TypeOK
<1> USE CertStoreAssumption DEF Typed, Refs
<1>1. ASSUME NEW w \in Workers, NEW h \in Hosts, Lookup(w, h) PROVE Typed'
  <2>1. hi' \in [Workers -> Infos \cup {NoInfo}] /\ hi'[w] \in Infos
    BY <1>1 DEF Lookup, TypeOK
  <2>2. found' \in [Workers -> BOOLEAN]
    BY <1>1 DEF Lookup, TypeOK
  <2>3. TypeOK'
    BY <1>1, <2>1, <2>2 DEF Lookup, TypeOK, WorkerAt
  <2>4. \A v \in Workers \ {w} : /\ hi'[v] = hi[v] /\ pc'[v] = pc[v]
                                    /\ host'[v] = host[v] /\ made'[v] = made[v]
    BY <1>1 DEF Lookup, TypeOK
  <2>5. pc'[w] = "lookup" /\ host'[w] = h
    BY <1>1 DEF Lookup, TypeOK
  <2>6. Refs'
    BY <2>1, <2>4, <2>5
  <2> QED
    BY <2>3, <2>6
<1>2. ASSUME NEW w \in Workers, LockHost(w) PROVE Typed'
  <2>0. hi[w] \in Infos /\ info' = [info EXCEPT ![hi[w]].mu = w]
    BY <1>2 DEF LockHost
  <2>1. info' \in [Infos -> HostInfo]
    BY <1>0, <2>0, CellMu
  <2>2. pc' \in [Workers -> WorkerAt]
    BY <1>2 DEF LockHost, TypeOK, WorkerAt
  <2>3. TypeOK'
    BY <1>2, <2>1, <2>2 DEF LockHost, TypeOK
  <2>4. Refs'
    BY <1>2 DEF LockHost, TypeOK
  <2> QED
    BY <2>3, <2>4
<1>3. ASSUME NEW w \in Workers, LockStore(w) PROVE Typed'
  BY <1>3 DEF LockStore, TypeOK, WorkerAt
<1>4. ASSUME NEW w \in Workers, UseRecent(w) PROVE Typed'
  <2>1. info[hi[w]].Config \in Certs \cup {NoCert}
    BY <1>4 DEF UseRecent, TypeOK, HostInfo
  <2> QED
    BY <1>4, <2>1, ReturnTyped DEF UseRecent, TypeOK
<1>5. ASSUME NEW w \in Workers, UseVerified(w) PROVE Typed'
  <2>1. info[hi[w]].Config \in Certs \cup {NoCert}
    BY <1>5 DEF UseVerified, TypeOK, HostInfo
  <2>2. [info EXCEPT ![hi[w]].LastVerify = now] \in [Infos -> HostInfo]
    <3>1. hi[w] \in Infos
      BY <1>5 DEF UseVerified
    <3> QED
      BY <1>0, <3>1, CellFields
  <2> QED
    BY <1>5, <2>1, <2>2, ReturnTyped DEF UseVerified, TypeOK
<1>6. ASSUME NEW w \in Workers, VerifyFails(w) PROVE Typed'
  BY <1>6 DEF VerifyFails, TypeOK, WorkerAt
<1>7. ASSUME NEW w \in Workers, SkipFetch(w) PROVE Typed'
  BY <1>7 DEF SkipFetch, TypeOK, WorkerAt
<1>8. ASSUME NEW w \in Workers, DialFails(w) PROVE Typed'
  BY <1>8, ReturnTyped DEF DialFails, Dialing, TypeOK
<1>9. ASSUME NEW w \in Workers, DialTimesOut(w) PROVE Typed'
  BY <1>9 DEF DialTimesOut, TypeOK, WorkerAt
<1>10. ASSUME NEW w \in Workers, NEW l \in Lifetimes, NEW chainOK \in BOOLEAN,
              Fetched(w, now + l, chainOK) PROVE Typed'
  <2>1. orig' \in [Workers -> Int \cup {NoTime}]
    BY <1>10 DEF Fetched, TypeOK
  <2>2. badcert' \in [Workers -> BOOLEAN]
    BY <1>10 DEF Fetched, TypeOK
  <2>3. info' \in [Infos -> HostInfo]
    <3>1. hi[w] \in Infos /\ now + RetryAge \in Int
      BY <1>10 DEF Fetched, Dialing, TypeOK
    <3>2. info' = info \/ info' = [info EXCEPT ![hi[w]].NextAttempt = now + RetryAge]
      BY <1>10 DEF Fetched
    <3>3. [info EXCEPT ![hi[w]].NextAttempt = now + RetryAge] \in [Infos -> HostInfo]
      BY <1>0, <3>1, CellFields
    <3> QED
      BY <1>0, <3>2, <3>3
  <2>4. TypeOK'
    BY <1>10, <2>1, <2>2, <2>3 DEF Fetched, TypeOK, WorkerAt
  <2>5. Refs'
    BY <1>10 DEF Fetched, Dialing, TypeOK
  <2> QED
    BY <2>4, <2>5
<1>11. ASSUME NEW w \in Workers, FetchedNone(w) PROVE Typed'
  BY <1>11 DEF FetchedNone, Dialing, TypeOK, WorkerAt
<1>12. ASSUME NEW w \in Workers, CreateCert(w) PROVE Typed'
  BY <1>12, NewCertType DEF CreateCert, TypeOK, WorkerAt
<1>13. ASSUME NEW w \in Workers, CreateFails(w) PROVE Typed'
  BY <1>13, ReturnTyped DEF CreateFails, TypeOK
<1>14. ASSUME NEW w \in Workers, StoreCert(w) PROVE Typed'
  <2> DEFINE verified == [info EXCEPT ![hi[w]].LastVerify = now]
             cert     == [made[w] EXCEPT !.stale = flushed[w]]
  <2>1. pc[w] = "storing" /\ hi[w] \in Infos /\ host[w] \in Hosts
    BY <1>14 DEF StoreCert
  <2>2. verified \in [Infos -> HostInfo]
    BY <1>0, <2>1, CellFields
  <2>3. info[hi[w]].Config \in Certs \cup {NoCert}
    BY <2>1 DEF TypeOK, HostInfo
  <2>4. certmu' \in Workers \cup {NoWorker}
    BY <1>14 DEF StoreCert
  <2>5. CASE Keeps(w)
    <3>1. cert \in Certs
      BY <2>1, MarkStale DEF TypeOK
    <3>2. [verified EXCEPT ![hi[w]].Config = cert] \in [Infos -> HostInfo]
      BY <2>1, <2>2, <3>1, CellConfig
    <3>3. store' \in [Hosts -> Infos \cup {NoInfo}]
      BY <1>14, <2>1, <2>5 DEF StoreCert, TypeOK
    <3>4. Return(w, cert, [verified EXCEPT ![hi[w]].Config = cert])
      BY <1>14, <2>5 DEF StoreCert
    <3> QED
      BY <2>1, <2>4, <3>1, <3>2, <3>3, <3>4, ReturnTyped
  <2>6. CASE ~Keeps(w)
    <3>1. Return(w, info[hi[w]].Config, verified) /\ store' = store
      BY <1>14, <2>6 DEF StoreCert
    <3> QED
      BY <2>1, <2>2, <2>3, <2>4, <3>1, ReturnTyped DEF TypeOK
  <2> QED
    BY <2>5, <2>6
<1>15. ASSUME NEW w \in Workers, Done(w) PROVE Typed'
  BY <1>15 DEF Done, TypeOK, WorkerAt
<1>16. ASSUME NEW h \in Hosts, FlushCert(h) PROVE Typed'
  <2>1. info' \in [Infos -> HostInfo]
    BY <1>16, CollectedType DEF FlushCert, TypeOK
  <2>2. flushed' \in [Workers -> BOOLEAN]
    BY <1>16, Zenon DEF FlushCert
  <2> QED
    BY <1>16, <2>1, <2>2 DEF FlushCert, TypeOK
<1>17. CASE Tick
  BY <1>17 DEF Tick, TypeOK, workerVars
<1>18. CASE UNCHANGED vars
  BY <1>18 DEF vars, workerVars, TypeOK
<1> QED
  BY <1>1, <1>2, <1>3, <1>4, <1>5, <1>6, <1>7, <1>8, <1>9, <1>10, <1>11, <1>12,
     <1>13, <1>14, <1>15, <1>16, <1>17, <1>18 DEF Next, WorkerStep

-----------------------------------------------------------------------------
(* The inductive invariant behind the safety properties.                   *)

Active(w) == pc[w] \notin {"idle", "done"}

\* A worker between its lock and its return is the holder of its cell's mutex.
HostLocked == \A w \in Workers : Inside(w) => info[hi[w]].mu = w

\* A cell that was found in the map keeps a certificate for that host, also
\* when it has since been flushed from the map.
FoundReady ==
  \A w \in Workers : Active(w) /\ found[w] =>
    info[hi[w]].Config # NoCert /\ info[hi[w]].Config.host = host[w]

\* The new certificate is for the worker's host, only a found cell gets to the
\* check of its cached certificate, and only a finished call has a result.
MadeForHost ==
  \A w \in Workers : /\ pc[w] \in {"made", "storing"} =>
                          made[w].host = host[w] /\ made[w].bad = badcert[w]
                     /\ pc[w] = "locked" => found[w]
                     /\ pc[w] # "done" => served[w] = NoCert

Safe == /\ HostLocked /\ PrivateUntilStored /\ FoundReady /\ MadeForHost
        /\ PublishedReady /\ ServedForHost

\* The empty store is safe.
LEMMA InitSafe == Init => Safe
BY CertStoreAssumption
   DEF Init, Safe, HostLocked, PrivateUntilStored, FoundReady, MadeForHost,
       PublishedReady, ServedForHost, Inside, Active

\* A step that moves workers on inside their critical sections, and changes
\* neither the map nor what it holds.
LEMMA SafeQuiet ==
  ASSUME Typed, Safe, UNCHANGED <<store, host, hi, found, served>>,
         \A v \in Workers : Inside(v)' = Inside(v) /\ Active(v)' = Active(v),
         \A i \in Infos : info'[i].mu = info[i].mu /\ info'[i].Config = info[i].Config,
         MadeForHost'
  PROVE  Safe'
<1> USE DEF Safe
<1>1. \A w \in Workers : Active(w) => hi[w] \in Infos
  BY DEF Typed, Refs, Active
<1>2. \A w \in Workers : Inside(w) => Active(w)
  BY DEF Inside, Active
<1>3. HostLocked'
  BY <1>1, <1>2 DEF HostLocked
<1>4. PrivateUntilStored'
  BY DEF PrivateUntilStored, Active, Published
<1>5. FoundReady'
  BY <1>1 DEF FoundReady
<1>6. PublishedReady'
  BY DEF PublishedReady, Typed, TypeOK
<1>7. ServedForHost'
  BY DEF ServedForHost
<1> QED
  BY <1>3, <1>4, <1>5, <1>6, <1>7

\* What Return leaves behind: the other workers as they were, and the cells
\* that anything still refers to with the contents they were given.
LEMMA ReturnFacts ==
  ASSUME Typed, NEW w \in Workers, Active(w), NEW cert, NEW cells,
         cells \in [Infos -> HostInfo], Return(w, cert, cells)
  PROVE  /\ pc'[w] = "done" /\ hi'[w] = NoInfo /\ served'[w] = cert /\ host' = host
         /\ \A v \in Workers \ {w} : /\ pc'[v] = pc[v] /\ hi'[v] = hi[v]
                                     /\ found'[v] = found[v] /\ made'[v] = made[v]
                                     /\ badcert'[v] = badcert[v]
                                     /\ served'[v] = served[v]
         /\ \A i \in Infos : Published(i)' \/ Referenced(i)' =>
              /\ info'[i].Config = cells[i].Config
              /\ i # hi[w] => info'[i].mu = cells[i].mu
<1>1. hi[w] \in Infos
  BY DEF Typed, Refs, Active
<1>2. \A i \in Infos : Published(i)' \/ Referenced(i)' =>
        info'[i] = [cells EXCEPT ![hi[w]].mu = NoWorker][i]
  BY DEF Return, Collected
<1>3. \A i \in Infos : Published(i)' \/ Referenced(i)' =>
        /\ info'[i].Config = cells[i].Config
        /\ i # hi[w] => info'[i].mu = cells[i].mu
  BY <1>1, <1>2 DEF HostInfo
<1> QED
  BY <1>3 DEF Return, Typed, TypeOK

\* A step that ends a worker's call and leaves the map alone.
LEMMA SafeReturn ==
  ASSUME Typed, Safe, NEW w \in Workers, Inside(w), NEW cert, NEW cells,
         cells \in [Infos -> HostInfo], Return(w, cert, cells), store' = store,
         cert # NoCert => cert.host = host[w],
         \A i \in Infos : cells[i].mu = info[i].mu /\ cells[i].Config = info[i].Config
  PROVE  Safe'
<1> USE DEF Safe
<1>0. Active(w)
  BY DEF Inside, Active
<1>1. \A v \in Workers : Active(v) <=> hi[v] \in Infos
  BY DEF Typed, Refs, Active
<1>2. /\ pc'[w] = "done" /\ hi'[w] = NoInfo /\ served'[w] = cert /\ host' = host
      /\ \A v \in Workers \ {w} : /\ pc'[v] = pc[v] /\ hi'[v] = hi[v]
                                  /\ found'[v] = found[v] /\ made'[v] = made[v]
                                  /\ badcert'[v] = badcert[v] /\ served'[v] = served[v]
  BY <1>0, ReturnFacts
<1>3. \A i \in Infos : Published(i)' \/ Referenced(i)' =>
        /\ info'[i].Config = info[i].Config
        /\ i # hi[w] => info'[i].mu = info[i].mu
  BY <1>0, ReturnFacts
<1>4. \A v \in Workers \ {w} : Active(v) => hi[v] \in Infos /\ Referenced(hi[v])'
  BY <1>1, <1>2 DEF Referenced
<1>5. \A v \in Workers \ {w} : Inside(v) => hi[v] # hi[w]
  BY DEF HostLocked
<1>6. HostLocked'
  BY <1>2, <1>3, <1>4, <1>5 DEF HostLocked, Inside, Active
<1>7. PrivateUntilStored'
  BY <1>1, <1>2, CertStoreAssumption DEF PrivateUntilStored, Active, Published
<1>8. FoundReady'
  BY <1>2, <1>3, <1>4 DEF FoundReady, Active
<1>9. MadeForHost'
  BY <1>2 DEF MadeForHost
<1>10. PublishedReady'
  <2> SUFFICES ASSUME NEW h \in Hosts, store[h] # NoInfo
               PROVE  info'[store[h]].Config # NoCert /\ info'[store[h]].Config.host = h
    BY DEF PublishedReady
  <2>1. store[h] \in Infos /\ Published(store[h])'
    BY DEF Typed, TypeOK, Published
  <2> QED
    BY <1>3, <2>1 DEF PublishedReady
<1>11. ServedForHost'
  BY <1>2 DEF ServedForHost
<1> QED
  BY <1>6, <1>7, <1>8, <1>9, <1>10, <1>11

\* The lookup: a found cell has FoundReady from PublishedReady, an allocated one
\* is referred to by nobody else.
LEMMA SafeLookup ==
  ASSUME Typed, Safe, NEW w \in Workers, NEW h \in Hosts, Lookup(w, h)
  PROVE  Safe'
<1> USE DEF Safe
<1>1. \A v \in Workers : Active(v) <=> hi[v] \in Infos
  BY DEF Typed, Refs, Active
<1>2. /\ pc[w] = "idle" /\ pc'[w] = "lookup" /\ host'[w] = h
      /\ \A v \in Workers \ {w} : /\ pc'[v] = pc[v] /\ hi'[v] = hi[v]
                                  /\ found'[v] = found[v] /\ host'[v] = host[v]
      /\ UNCHANGED <<info, store, served, made, badcert>>
  BY DEF Lookup, Typed, TypeOK
<1>3. \/ store[h] # NoInfo /\ hi'[w] = store[h] /\ found'[w]
      \/ /\ hi'[w] \in Infos /\ ~Published(hi'[w]) /\ ~Referenced(hi'[w])
         /\ ~found'[w]
  BY DEF Lookup, Typed, TypeOK
<1>4. HostLocked'
  BY <1>2 DEF HostLocked, Inside
<1>5. PrivateUntilStored'
  BY <1>1, <1>2, <1>3 DEF PrivateUntilStored, Active, Published, Referenced, Typed, TypeOK
<1>6. FoundReady'
  BY <1>2, <1>3 DEF FoundReady, Active, PublishedReady
<1>7. MadeForHost' /\ PublishedReady' /\ ServedForHost'
  <2>1. MadeForHost'
    BY <1>2 DEF MadeForHost
  <2>2. PublishedReady'
    BY <1>2 DEF PublishedReady
  <2>3. served[w] = NoCert
    BY <1>2 DEF MadeForHost
  <2> QED
    BY <1>2, <2>1, <2>2, <2>3 DEF ServedForHost
<1> QED
  BY <1>4, <1>5, <1>6, <1>7

\* Taking HostInfo.mu: nobody inside holds it.
LEMMA SafeLockHost ==
  ASSUME Typed, Safe, NEW w \in Workers, LockHost(w)
  PROVE  Safe'
<1> USE DEF Safe
<1>1. \A v \in Workers : Active(v) <=> hi[v] \in Infos
  BY DEF Typed, Refs, Active
<1>2. /\ Active(w) /\ Active(w)' /\ info[hi[w]].mu = NoWorker
      /\ \A v \in Workers \ {w} : pc'[v] = pc[v]
      /\ pc'[w] = IF found[w] THEN "locked" ELSE "fetch"
      /\ UNCHANGED <<store, hi, found, host, served, made, badcert>>
  BY DEF LockHost, Active, Typed, TypeOK
<1>3. info'[hi[w]].mu = w
      /\ \A i \in Infos : /\ i # hi[w] => info'[i].mu = info[i].mu
                          /\ info'[i].Config = info[i].Config
  BY <1>1, <1>2 DEF LockHost, Typed, TypeOK, HostInfo
<1>4. \A v \in Workers \ {w} : Inside(v) => hi[v] # hi[w]
  BY <1>2, CertStoreAssumption DEF HostLocked
<1>5. HostLocked'
  BY <1>1, <1>2, <1>3, <1>4 DEF HostLocked, Inside, Active
<1>6. PrivateUntilStored'
  BY <1>2 DEF PrivateUntilStored, Active, Published
<1>7. FoundReady'
  BY <1>1, <1>2, <1>3 DEF FoundReady, Active
<1>8. MadeForHost' /\ ServedForHost'
  <2>1. pc'[w] \in {"locked", "fetch"} /\ (pc'[w] = "locked" => found[w])
    BY <1>2
  <2>2. served[w] = NoCert
    BY <1>2 DEF MadeForHost, Active
  <2>3. MadeForHost'
    BY <1>2, <2>1, <2>2 DEF MadeForHost
  <2> QED
    BY <1>2, <2>3 DEF ServedForHost
<1>9. PublishedReady'
  BY <1>2, <1>3 DEF PublishedReady, Typed, TypeOK
<1> QED
  BY <1>5, <1>6, <1>7, <1>8, <1>9

\* The end of a call touches the worker's own fields only.
LEMMA SafeDone ==
  ASSUME Typed, Safe, NEW w \in Workers, Done(w)
  PROVE  Safe'
<1> USE DEF Safe
<1>1. /\ pc[w] = "done" /\ pc'[w] = "idle" /\ served'[w] = NoCert
      /\ \A v \in Workers \ {w} : /\ pc'[v] = pc[v] /\ host'[v] = host[v]
                                  /\ served'[v] = served[v]
      /\ UNCHANGED <<info, store, hi, found, made, badcert>>
  BY DEF Done, Typed, TypeOK
<1>2. HostLocked' /\ PrivateUntilStored'
  BY <1>1 DEF HostLocked, PrivateUntilStored, Inside, Active, Published
<1>3. FoundReady' /\ MadeForHost' /\ PublishedReady' /\ ServedForHost'
  BY <1>1 DEF FoundReady, MadeForHost, PublishedReady, ServedForHost, Active
<1> QED
  BY <1>2, <1>3

\* A flush unpublishes a cell, and its holders keep it.
LEMMA SafeFlush ==
  ASSUME Typed, Safe, NEW h \in Hosts, FlushCert(h)
  PROVE  Safe'
<1> USE DEF Safe
<1>1. /\ UNCHANGED <<pc, host, hi, found, made, badcert, served>>
      /\ store' = [store EXCEPT ![h] = NoInfo]
  BY DEF FlushCert
<1>2. \A i \in Infos : Published(i)' \/ Referenced(i)' => info'[i] = info[i]
  BY DEF FlushCert, Collected
<1>3. \A v \in Workers : Active(v) => hi[v] \in Infos /\ Referenced(hi[v])'
  BY <1>1 DEF Typed, Refs, Active, Referenced
<1>4. HostLocked'
  BY <1>1, <1>2, <1>3 DEF HostLocked, Inside, Active
<1>5. PrivateUntilStored'
  BY <1>1, <1>3, CertStoreAssumption DEF PrivateUntilStored, Active, Published, Typed, TypeOK
<1>6. FoundReady'
  BY <1>1, <1>2, <1>3 DEF FoundReady, Active
<1>7. MadeForHost' /\ ServedForHost'
  BY <1>1 DEF MadeForHost, ServedForHost
<1>8. \A g \in Hosts : store'[g] # NoInfo =>
        store'[g] = store[g] /\ store[g] \in Infos /\ Published(store[g])'
  BY <1>1 DEF Typed, TypeOK, Published
<1>9. PublishedReady'
  BY <1>2, <1>8 DEF PublishedReady
<1> QED
  BY <1>4, <1>5, <1>6, <1>7, <1>9

\* StoreCert when the new certificate is kept: the cell is published for the
\* worker's host, and nobody else was using it unless it was published before.
LEMMA SafeKeep ==
  ASSUME Typed, Safe, NEW w \in Workers, StoreCert(w), Keeps(w)
  PROVE  Safe'
<1> USE DEF Safe
<1> DEFINE cert  == [made[w] EXCEPT !.stale = flushed[w]]
           cells == [[info EXCEPT ![hi[w]].LastVerify = now] EXCEPT ![hi[w]].Config = cert]
<1>0. /\ Active(w) /\ Inside(w) /\ pc[w] = "storing" /\ hi[w] \in Infos
      /\ host[w] \in Hosts /\ made[w] \in Certs
  BY DEF StoreCert, Active, Inside, Typed, Refs
<1>1. \A v \in Workers : Active(v) <=> hi[v] \in Infos
  BY DEF Typed, Refs, Active
<1>2. cert \in Certs /\ cert.host = host[w]
  BY <1>0, MarkStale DEF MadeForHost, Typed, TypeOK, Certs
<1>3. info \in [Infos -> HostInfo] /\ now \in Int
  BY DEF Typed, TypeOK
<1>4. cells \in [Infos -> HostInfo]
  <2>1. [info EXCEPT ![hi[w]].LastVerify = now] \in [Infos -> HostInfo]
    BY <1>0, <1>3, CellFields
  <2> QED
    BY <1>0, <1>2, <2>1, CellConfig
<1>5. Return(w, cert, cells) /\ store' = [store EXCEPT ![host[w]] = hi[w]]
  BY DEF StoreCert
<1>6. /\ cells[hi[w]].Config = cert
      /\ \A i \in Infos : /\ cells[i].mu = info[i].mu
                          /\ i # hi[w] => cells[i].Config = info[i].Config
  BY <1>0, <1>3 DEF HostInfo
<1> HIDE DEF cert, cells
<1>7. /\ pc'[w] = "done" /\ hi'[w] = NoInfo /\ served'[w] = cert /\ host' = host
      /\ \A v \in Workers \ {w} : /\ pc'[v] = pc[v] /\ hi'[v] = hi[v]
                                  /\ found'[v] = found[v] /\ made'[v] = made[v]
                                  /\ badcert'[v] = badcert[v] /\ served'[v] = served[v]
  BY <1>0, <1>4, <1>5, ReturnFacts
<1>8. \A i \in Infos : Published(i)' \/ Referenced(i)' =>
        /\ info'[i].Config = cells[i].Config
        /\ i # hi[w] => info'[i].mu = cells[i].mu
  BY <1>0, <1>4, <1>5, ReturnFacts
<1>9. \A v \in Workers \ {w} : Active(v) => hi[v] \in Infos /\ Referenced(hi[v])'
  BY <1>1, <1>7 DEF Referenced
<1>10. \A v \in Workers \ {w} : Inside(v) => hi[v] # hi[w]
  BY <1>0 DEF HostLocked
<1>11. HostLocked'
  BY <1>6, <1>7, <1>8, <1>9, <1>10 DEF HostLocked, Inside, Active
<1>12. PrivateUntilStored'
  <2> SUFFICES ASSUME NEW v \in Workers \ {w}, Active(v), ~found[v]
               PROVE  /\ ~Published(hi[v])'
                      /\ \A u \in Workers \ {v} : hi'[u] # hi[v]
    BY <1>7 DEF PrivateUntilStored, Active
  <2>1. hi[v] \in Infos /\ hi[v] # hi[w] /\ ~Published(hi[v])
    BY <1>1 DEF PrivateUntilStored, Active
  <2>2. ~Published(hi[v])'
    BY <1>0, <1>5, <1>7, <2>1 DEF Published, Typed, TypeOK
  <2>3. \A u \in Workers \ {v} : hi'[u] # hi[v]
    BY <1>7, <2>1, CertStoreAssumption DEF PrivateUntilStored, Active
  <2> QED
    BY <2>2, <2>3
<1>13. \A v \in Workers \ {w} : Active(v) /\ found[v] /\ hi[v] = hi[w] => host[v] = host[w]
  BY <1>0 DEF FoundReady, PrivateUntilStored, Active
<1>14. FoundReady'
  BY <1>2, <1>6, <1>7, <1>8, <1>9, <1>13, CertStoreAssumption DEF FoundReady, Active
<1>15. MadeForHost' /\ ServedForHost'
  BY <1>2, <1>7 DEF MadeForHost, ServedForHost
<1>16. \A h \in Hosts : store[h] = hi[w] => h = host[w]
  <2> SUFFICES ASSUME NEW h \in Hosts, store[h] = hi[w] PROVE h = host[w]
    OBVIOUS
  <2>1. Published(hi[w]) /\ store[h] # NoInfo
    BY <1>0, CertStoreAssumption DEF Published
  <2>2. found[w]
    BY <1>0, <2>1 DEF PrivateUntilStored
  <2>3. info[hi[w]].Config.host = host[w]
    BY <1>0, <2>2 DEF FoundReady
  <2>4. info[store[h]].Config.host = h
    BY <2>1 DEF PublishedReady
  <2> QED
    BY <2>3, <2>4
<1>17. PublishedReady'
  <2>0. /\ store \in [Hosts -> Infos \cup {NoInfo}]
        /\ \A h \in Hosts : store'[h] = IF h = host[w] THEN hi[w] ELSE store[h]
    BY <1>0, <1>5 DEF Typed, TypeOK
  <2> SUFFICES ASSUME NEW h \in Hosts, store'[h] # NoInfo
               PROVE  info'[store'[h]].Config # NoCert /\ info'[store'[h]].Config.host = h
    BY DEF PublishedReady
  <2>1. store'[h] \in Infos /\ Published(store[h])'
    BY <1>0, <2>0 DEF Published
  <2>2. info'[store'[h]].Config = cells[store'[h]].Config
    BY <1>8, <2>1
  <2>3. CASE h = host[w]
    <3>1. store'[h] = hi[w]
      BY <2>0, <2>3
    <3>2. info'[hi[w]].Config = cells[hi[w]].Config
      BY <2>2, <3>1
    <3>3. info'[hi[w]].Config = cert
      BY <1>6, <3>2, Zenon
    <3>4. cert # NoCert
      BY <1>2, CertStoreAssumption
    <3> QED
      BY <1>2, <2>3, <3>1, <3>3, <3>4, Zenon
  <2>4. CASE h # host[w]
    <3>1. store'[h] = store[h] /\ store[h] # hi[w]
      BY <1>16, <2>0, <2>4
    <3>2. info'[store'[h]].Config = info[store[h]].Config
      BY <1>6, <2>1, <2>2, <3>1
    <3> QED
      BY <3>1, <3>2 DEF PublishedReady
  <2> QED
    BY <2>3, <2>4
<1> QED
  BY <1>11, <1>12, <1>14, <1>15, <1>17

\* Every step preserves the safety invariant.
LEMMA StepSafe == Typed /\ Safe /\ [Next]_vars => Safe'
<1> SUFFICES ASSUME Typed, Safe, [Next]_vars PROVE Safe'
  OBVIOUS
<1>0. info \in [Infos -> HostInfo] /\ now \in Int
  BY DEF Typed, TypeOK
<1>1. \A w \in Workers : Active(w) => hi[w] \in Infos /\ host[w] \in Hosts
  BY DEF Typed, Refs, Active
<1>2. ASSUME NEW w \in Workers, pc[w] = "locked"
      PROVE  info[hi[w]].Config.host = host[w]
  BY <1>2 DEF Safe, MadeForHost, FoundReady, Active
<1>3. ASSUME NEW w \in Workers, UseRecent(w) PROVE Safe'
  <2>1. Inside(w) /\ store' = store /\ Return(w, info[hi[w]].Config, info)
    BY <1>3 DEF UseRecent, Inside
  <2> QED
    BY <1>0, <1>2, <1>3, <2>1, SafeReturn DEF UseRecent
<1>4. ASSUME NEW w \in Workers, UseVerified(w) PROVE Safe'
  <2> DEFINE cells == [info EXCEPT ![hi[w]].LastVerify = now]
  <2>1. /\ Inside(w) /\ store' = store /\ Return(w, info[hi[w]].Config, cells)
        /\ info[hi[w]].Config.host = host[w] /\ hi[w] \in Infos
    BY <1>1, <1>2, <1>4 DEF UseVerified, Inside, Active
  <2>2. cells \in [Infos -> HostInfo]
    BY <1>0, <2>1, CellFields
  <2>3. \A i \in Infos : cells[i].mu = info[i].mu /\ cells[i].Config = info[i].Config
    BY <1>0, <2>1 DEF HostInfo
  <2> HIDE DEF cells
  <2> QED
    BY <2>1, <2>2, <2>3, SafeReturn
<1>5. ASSUME NEW w \in Workers, DialFails(w) \/ CreateFails(w) PROVE Safe'
  <2>1. Inside(w) /\ store' = store /\ Return(w, NoCert, info)
    BY <1>5 DEF DialFails, CreateFails, Dialing, Inside
  <2> QED
    BY <1>0, <2>1, SafeReturn
<1>6. ASSUME NEW w \in Workers, StoreCert(w), ~Keeps(w) PROVE Safe'
  <2> DEFINE cells == [info EXCEPT ![hi[w]].LastVerify = now]
  <2>1. /\ Inside(w) /\ store' = store /\ Return(w, info[hi[w]].Config, cells)
        /\ hi[w] \in Infos
    BY <1>1, <1>6 DEF StoreCert, Inside, Active
  <2>2. cells \in [Infos -> HostInfo]
    BY <1>0, <2>1, CellFields
  <2>3. \A i \in Infos : cells[i].mu = info[i].mu /\ cells[i].Config = info[i].Config
    BY <1>0, <2>1 DEF HostInfo
  <2>4. info[hi[w]].Config.host = host[w]
    BY <1>6 DEF StoreCert, Keeps, Safe, FoundReady, Active
  <2> HIDE DEF cells
  <2> QED
    BY <2>1, <2>2, <2>3, <2>4, SafeReturn
<1>7. ASSUME NEW w \in Workers, VerifyFails(w) \/ SkipFetch(w) \/ DialTimesOut(w)
                                 \/ FetchedNone(w) \/ CreateCert(w) \/ LockStore(w)
      PROVE  Safe'
  <2>1. UNCHANGED <<store, host, hi, found, served, info, badcert>>
    BY <1>7 DEF VerifyFails, SkipFetch, DialTimesOut, FetchedNone, CreateCert, LockStore
  <2>2. /\ pc[w] \in {"locked", "fetch", "retry", "create", "made"}
        /\ pc'[w] \in {"fetch", "retry", "create", "made", "storing"}
        /\ \A v \in Workers \ {w} : pc'[v] = pc[v] /\ made'[v] = made[v]
    BY <1>7 DEF VerifyFails, SkipFetch, DialTimesOut, FetchedNone, CreateCert,
                LockStore, Dialing, Typed, TypeOK
  <2>3. pc'[w] \in {"made", "storing"} =>
          made'[w].host = host[w] /\ made'[w].bad = badcert[w]
    <3>1. CASE CreateCert(w)
      BY <3>1 DEF CreateCert, NewCert, Typed, TypeOK
    <3>2. CASE LockStore(w)
      BY <3>2 DEF LockStore, Safe, MadeForHost
    <3>3. CASE VerifyFails(w) \/ SkipFetch(w) \/ DialTimesOut(w) \/ FetchedNone(w)
      BY <3>3 DEF VerifyFails, SkipFetch, DialTimesOut, FetchedNone, Typed, TypeOK
    <3> QED
      BY <1>7, <3>1, <3>2, <3>3
  <2>4. served[w] = NoCert
    BY <2>2 DEF Safe, MadeForHost
  <2>5. MadeForHost'
    BY <2>1, <2>2, <2>3, <2>4 DEF Safe, MadeForHost
  <2>6. \A v \in Workers : Inside(v)' = Inside(v) /\ Active(v)' = Active(v)
    BY <2>2 DEF Inside, Active
  <2> QED
    BY <2>1, <2>5, <2>6, SafeQuiet
<1>8. ASSUME NEW w \in Workers, NEW l \in Lifetimes, NEW chainOK \in BOOLEAN,
             Fetched(w, now + l, chainOK)
      PROVE  Safe'
  <2>1. /\ UNCHANGED <<store, host, hi, found, served, made>>
        /\ pc[w] \in {"fetch", "retry"} /\ pc'[w] = "create"
        /\ \A v \in Workers \ {w} : pc'[v] = pc[v] /\ badcert'[v] = badcert[v]
    BY <1>8 DEF Fetched, Dialing, Typed, TypeOK
  <2>2. \A i \in Infos : info'[i].mu = info[i].mu /\ info'[i].Config = info[i].Config
    <3>1. hi[w] \in Infos
      BY <1>1, <2>1 DEF Active
    <3>2. info' = info \/ info' = [info EXCEPT ![hi[w]].NextAttempt = now + RetryAge]
      BY <1>8 DEF Fetched
    <3> QED
      BY <1>0, <3>1, <3>2 DEF HostInfo
  <2>3. served[w] = NoCert
    BY <2>1 DEF Safe, MadeForHost
  <2>4. MadeForHost'
    BY <2>1, <2>3 DEF Safe, MadeForHost
  <2>5. \A v \in Workers : Inside(v)' = Inside(v) /\ Active(v)' = Active(v)
    BY <2>1 DEF Inside, Active
  <2> QED
    BY <2>1, <2>2, <2>4, <2>5, SafeQuiet
<1>9. CASE Tick \/ UNCHANGED vars
  <2>1. UNCHANGED <<store, info, pc, host, hi, found, served, made, badcert>>
    BY <1>9 DEF Tick, vars, workerVars
  <2>2. MadeForHost'
    BY <2>1 DEF Safe, MadeForHost
  <2>3. \A v \in Workers : Inside(v)' = Inside(v) /\ Active(v)' = Active(v)
    BY <2>1 DEF Inside, Active
  <2> QED
    BY <2>1, <2>2, <2>3, SafeQuiet
<1>10. ASSUME NEW w \in Workers, StoreCert(w) PROVE Safe'
  BY <1>6, <1>10, SafeKeep
<1> QED
  BY <1>3, <1>4, <1>5, <1>7, <1>8, <1>9, <1>10, SafeLookup, SafeLockHost, SafeDone,
     SafeFlush DEF Next, WorkerStep

\* The inductive invariant of the certificate store.
LEMMA Invariant == Spec => [](Typed /\ Safe)
<1>1. Init => Typed /\ Safe
  BY InitTyped, InitSafe
<1>2. Typed /\ Safe /\ [Next]_vars => (Typed /\ Safe)'
  BY StepTyped, StepSafe
<1> QED
  BY <1>1, <1>2, PTL DEF Spec

-----------------------------------------------------------------------------
\* The state of the certificate store, of its HostInfos and of every call of
\* certWithCommonName keeps its type.
THEOREM TypeCorrect == Spec => []TypeOK
<1>1. Typed /\ Safe => TypeOK
  BY DEF Typed
<1> QED
  BY <1>1, Invariant, PTL

\* Every entry of GoproxyConfigServer.Host is complete and holds a certificate
\* made for its host, whatever handshakes and flushes interleave.
THEOREM EntriesReady == Spec => []PublishedReady
<1>1. Typed /\ Safe => PublishedReady
  BY DEF Safe
<1> QED
  BY <1>1, Invariant, PTL

\* The HostInfo a handshake allocates after a miss is its own until it is stored.
THEOREM MissIsPrivate == Spec => []PrivateUntilStored
<1>1. Typed /\ Safe => PrivateUntilStored
  BY DEF Safe
<1> QED
  BY <1>1, Invariant, PTL

\* HostInfo.mu lets one handshake at a time verify, fetch and replace an entry.
THEOREM OneAtATime == Spec => []OneFetchPerEntry
<1>1. Typed /\ Safe => OneFetchPerEntry
  BY DEF Safe, HostLocked, OneFetchPerEntry
<1> QED
  BY <1>1, Invariant, PTL

\* certWithCommonName never returns another host's certificate.
THEOREM OwnHostOnly == Spec => []ServedForHost
<1>1. Typed /\ Safe => ServedForHost
  BY DEF Safe
<1> QED
  BY <1>1, Invariant, PTL

\* A published cell changes its Config only by StoreCert; the worker that stores
\* into a published cell has found it, so it keeps the new certificate only if the
\* upstream chain was bad.
LEMMA StepImmutable ==
  ASSUME Typed, Safe, [Next]_vars, NEW i \in Infos, Published(i), Published(i)'
  PROVE  \/ info'[i].Config = info[i].Config
         \/ info'[i].Config # NoCert /\ info'[i].Config.bad
<1>0. info \in [Infos -> HostInfo] /\ now \in Int
  BY DEF Typed, TypeOK
<1>1. \A w \in Workers : Active(w) => hi[w] \in Infos
  BY DEF Typed, Refs, Active
<1>2. ASSUME NEW w \in Workers, NEW cert, NEW cells \in [Infos -> HostInfo], Active(w),
             Return(w, cert, cells), cells[i].Config = info[i].Config
      PROVE  info'[i].Config = info[i].Config
  BY <1>2, ReturnFacts
<1>3. ASSUME NEW w \in Workers, UseRecent(w) \/ DialFails(w) \/ CreateFails(w)
      PROVE  info'[i].Config = info[i].Config
  BY <1>0, <1>2, <1>3 DEF UseRecent, DialFails, CreateFails, Dialing, Active
<1>4. ASSUME NEW w \in Workers, UseVerified(w) \/ (StoreCert(w) /\ ~Keeps(w))
      PROVE  info'[i].Config = info[i].Config
  <2> DEFINE cells == [info EXCEPT ![hi[w]].LastVerify = now]
  <2>1. Active(w) /\ Return(w, info[hi[w]].Config, cells)
    BY <1>4 DEF UseVerified, StoreCert, Active
  <2>2. cells \in [Infos -> HostInfo] /\ cells[i].Config = info[i].Config
    BY <1>0, <1>1, <2>1, CellFields DEF HostInfo
  <2> HIDE DEF cells
  <2> QED
    BY <1>2, <2>1, <2>2
<1>5. ASSUME NEW w \in Workers, StoreCert(w), Keeps(w)
      PROVE  \/ info'[i].Config = info[i].Config
             \/ info'[i].Config # NoCert /\ info'[i].Config.bad
  <2> DEFINE cert  == [made[w] EXCEPT !.stale = flushed[w]]
             half  == [info EXCEPT ![hi[w]].LastVerify = now]
             cells == [half EXCEPT ![hi[w]].Config = cert]
  <2>1. /\ Active(w) /\ pc[w] = "storing" /\ hi[w] \in Infos /\ made[w] \in Certs
        /\ Return(w, cert, cells)
    BY <1>1, <1>5 DEF StoreCert, Active, Typed, Refs
  <2>2. cert \in Certs /\ cert.bad = made[w].bad
    BY <2>1, MarkStale DEF Certs, Typed, TypeOK
  <2>3. half \in [Infos -> HostInfo] /\ half[i].Config = info[i].Config
    BY <1>0, <2>1, CellFields DEF HostInfo
  <2> HIDE DEF cert, half
  <2>4. cells \in [Infos -> HostInfo]
    BY <2>1, <2>2, <2>3, CellConfig
  <2>5. cells[i].Config = IF i = hi[w] THEN cert ELSE half[i].Config
    BY <2>1, <2>3 DEF HostInfo
  <2> HIDE DEF cells
  <2>6. info'[i].Config = cells[i].Config
    BY <2>1, <2>4, ReturnFacts
  <2>7. CASE i # hi[w]
    BY <2>3, <2>5, <2>6, <2>7
  <2>8. CASE i = hi[w]
    <3>1. found[w]
      BY <2>1, <2>8 DEF Safe, PrivateUntilStored
    <3>2. made[w].bad
      BY <1>5, <2>1, <3>1 DEF Keeps, Safe, MadeForHost
    <3>3. cert # NoCert
      BY <2>2, CertStoreAssumption
    <3> QED
      BY <2>2, <2>5, <2>6, <2>8, <3>2, <3>3
  <2> QED
    BY <2>7, <2>8
<1>6. ASSUME NEW w \in Workers, NEW l \in Lifetimes, NEW chainOK \in BOOLEAN,
             Fetched(w, now + l, chainOK)
      PROVE  info'[i].Config = info[i].Config
  <2>1. info' = info \/ info' = [info EXCEPT ![hi[w]].NextAttempt = now + RetryAge]
    BY <1>6 DEF Fetched
  <2> QED
    BY <1>0, <2>1 DEF HostInfo
<1>7. ASSUME NEW w \in Workers, LockHost(w)
      PROVE  info'[i].Config = info[i].Config
  BY <1>0, <1>7 DEF LockHost, HostInfo
<1>8. ASSUME NEW h \in Hosts, FlushCert(h)
      PROVE  info'[i].Config = info[i].Config
  BY <1>8 DEF FlushCert, Collected
<1>9. ASSUME NEW w \in Workers, NEW h \in Hosts, Lookup(w, h)
      PROVE  info'[i].Config = info[i].Config
  BY <1>9 DEF Lookup
<1>10. ASSUME NEW w \in Workers,
              VerifyFails(w) \/ SkipFetch(w) \/ DialTimesOut(w) \/ FetchedNone(w)
                \/ CreateCert(w) \/ LockStore(w) \/ Done(w)
       PROVE  info'[i].Config = info[i].Config
  BY <1>10 DEF VerifyFails, SkipFetch, DialTimesOut, FetchedNone, CreateCert, LockStore, Done
<1>11. CASE Tick \/ UNCHANGED vars
  BY <1>11 DEF Tick, vars
<1> QED
  BY <1>3, <1>4, <1>5, <1>6, <1>7, <1>8, <1>9, <1>10, <1>11 DEF Next, WorkerStep

\* The Config of a published entry changes to an expired certificate of a host
\* with a bad chain, and in no other way (signer.go:73, "immutable").
THEOREM Immutable == Spec => ConfigImmutable
<1>1. Typed /\ Safe /\ [Next]_vars =>
        [\A i \in Infos : Published(i) /\ Published(i)' =>
           \/ info'[i].Config = info[i].Config
           \/ info'[i].Config # NoCert /\ info'[i].Config.bad]_vars
  BY StepImmutable
<1> QED
  BY <1>1, Invariant, PTL DEF Spec, ConfigImmutable

-----------------------------------------------------------------------------
(* CertStore implements CertCache.                                         *)

\* What a call sees is its own until it returns: cells that are still in use
\* keep their certificates in every step but the store of a new one.
LEMMA ViewsKept ==
  ASSUME Typed, Safe, UNCHANGED <<store, host, hi, found, served>>,
         \A v \in Workers : /\ pc'[v] = "idle" <=> pc[v] = "idle"
                            /\ pc'[v] = "done" <=> pc[v] = "done",
         \A i \in Infos : info'[i].Config = info[i].Config
  PROVE  UNCHANGED Cache!vars
<1>1. \A v \in Workers : Active(v) => hi[v] \in Infos
  BY DEF Typed, Refs, Active
<1>2. Cached' = Cached
  BY DEF Cached, Typed, TypeOK
<1>3. CallAt' = CallAt
  BY DEF CallAt
<1>4. InView' = InView
  BY <1>1 DEF InView, Active
<1> QED
  BY <1>2, <1>3, <1>4 DEF Cache!vars

\* A return that changes no certificate ends the call, and only that.
LEMMA ReturnAnswers ==
  ASSUME Typed, Safe, NEW w \in Workers, Inside(w), NEW cert, NEW cells,
         cells \in [Infos -> HostInfo], Return(w, cert, cells), store' = store,
         \A i \in Infos : cells[i].Config = info[i].Config
  PROVE  /\ Cache!Answer(w, cert)
         /\ InView' = [InView EXCEPT ![w] = NoCert]
         /\ Cached' = Cached
<1>0. Active(w)
  BY DEF Inside, Active
<1>1. \A v \in Workers : Active(v) <=> hi[v] \in Infos
  BY DEF Typed, Refs, Active
<1>2. /\ pc'[w] = "done" /\ host' = host
      /\ \A v \in Workers \ {w} : /\ pc'[v] = pc[v] /\ hi'[v] = hi[v]
                                  /\ found'[v] = found[v]
  BY <1>0, ReturnFacts
<1>3. \A i \in Infos : Published(i)' \/ Referenced(i)' => info'[i].Config = info[i].Config
  BY <1>0, ReturnFacts
<1>4. \A v \in Workers \ {w} : Active(v) => hi[v] \in Infos /\ Referenced(hi[v])'
  BY <1>1, <1>2 DEF Referenced
<1>5. \A h \in Hosts : store[h] # NoInfo => store[h] \in Infos /\ Published(store[h])'
  BY DEF Typed, TypeOK, Published
<1>6. Cached' = Cached
  BY <1>3, <1>5 DEF Cached
<1>7. InView' = [InView EXCEPT ![w] = NoCert]
  BY <1>2, <1>3, <1>4 DEF InView, Active
<1>8. Cache!Answer(w, cert)
  <2>1. CallAt[w] = "asked" /\ CallAt' = [CallAt EXCEPT ![w] = "answered"]
    BY <1>0, <1>2 DEF CallAt, Active
  <2>2. served' = [served EXCEPT ![w] = cert]
    BY DEF Return
  <2> QED
    BY <1>2, <2>1, <2>2 DEF Cache!Answer
<1> QED
  BY <1>6, <1>7, <1>8

\* A lookup asks: what it finds is complete, and what it allocates holds nothing.
LEMMA LookupAsks ==
  ASSUME Typed, Safe, NEW w \in Workers, NEW h \in Hosts, Lookup(w, h)
  PROVE  Cache!Ask(w, h)
<1>1. /\ pc[w] = "idle" /\ pc'[w] = "lookup" /\ host' = [host EXCEPT ![w] = h]
      /\ \A v \in Workers \ {w} : /\ pc'[v] = pc[v] /\ hi'[v] = hi[v]
                                  /\ found'[v] = found[v]
      /\ UNCHANGED <<info, store, served>>
  BY DEF Lookup, Typed, TypeOK
<1>2. \/ store[h] # NoInfo /\ hi'[w] = store[h] /\ found'[w]
      \/ store[h] = NoInfo /\ ~found'[w]
  BY DEF Lookup, Typed, TypeOK
<1>3. Cached' = Cached
  BY <1>1 DEF Cached
<1>4. CallAt[w] = "idle" /\ CallAt' = [CallAt EXCEPT ![w] = "asked"]
  BY <1>1 DEF CallAt
<1>5. InView' = [InView EXCEPT ![w] = Cached[h]]
  BY <1>1, <1>2 DEF InView, Cached
<1> QED
  BY <1>1, <1>3, <1>4, <1>5 DEF Cache!Ask

\* A flush empties the host's entry; calls that have found its cell keep it.
LEMMA FlushFlushes ==
  ASSUME Typed, Safe, NEW h \in Hosts, FlushCert(h)
  PROVE  Cache!Flush(h)
<1>1. /\ UNCHANGED <<pc, host, hi, found, served>>
      /\ store' = [store EXCEPT ![h] = NoInfo]
  BY DEF FlushCert
<1>2. \A i \in Infos : Published(i)' \/ Referenced(i)' => info'[i] = info[i]
  BY DEF FlushCert, Collected
<1>3. \A v \in Workers : Active(v) => hi[v] \in Infos /\ Referenced(hi[v])'
  BY <1>1 DEF Typed, Refs, Active, Referenced
<1>4. \A g \in Hosts : store'[g] = IF g = h THEN NoInfo ELSE store[g]
  BY <1>1 DEF Typed, TypeOK
<1>5. \A g \in Hosts : store'[g] # NoInfo =>
        store'[g] = store[g] /\ store[g] \in Infos /\ Published(store[g])'
  BY <1>1, <1>4 DEF Typed, TypeOK, Published
<1>6. Cached' = [Cached EXCEPT ![h] = NoCert]
  BY <1>2, <1>4, <1>5 DEF Cached
<1>7. CallAt' = CallAt
  BY <1>1 DEF CallAt
<1>8. InView' = InView
  BY <1>1, <1>2, <1>3 DEF InView, Active
<1> QED
  BY <1>1, <1>6, <1>7, <1>8 DEF Cache!Flush

\* A kept certificate is put in the cache: it is the entry of the worker's host and
\* of no other, and only calls that hold the same cell see it.
LEMMA KeepPuts ==
  ASSUME Typed, Safe, NEW w \in Workers, StoreCert(w), Keeps(w)
  PROVE  Cache!Put(w, served'[w])
<1> USE DEF Safe
<1> DEFINE cert  == [made[w] EXCEPT !.stale = flushed[w]]
           cells == [[info EXCEPT ![hi[w]].LastVerify = now] EXCEPT ![hi[w]].Config = cert]
           Seers == {u \in Workers \ {w} : Active(u) /\ found[u] /\ hi[u] = hi[w]}
<1>0. /\ Active(w) /\ pc[w] = "storing" /\ hi[w] \in Infos
      /\ host[w] \in Hosts /\ made[w] \in Certs
  BY DEF StoreCert, Active, Typed, Refs
<1>1. \A v \in Workers : Active(v) <=> hi[v] \in Infos
  BY DEF Typed, Refs, Active
<1>2. cert \in Certs /\ cert.host = host[w] /\ cert.bad = made[w].bad
  BY <1>0, MarkStale DEF MadeForHost, Typed, TypeOK, Certs
<1>3. info \in [Infos -> HostInfo] /\ now \in Int
  BY DEF Typed, TypeOK
<1>4. cells \in [Infos -> HostInfo]
  <2>1. [info EXCEPT ![hi[w]].LastVerify = now] \in [Infos -> HostInfo]
    BY <1>0, <1>3, CellFields
  <2> QED
    BY <1>0, <1>2, <2>1, CellConfig
<1>5. Return(w, cert, cells) /\ store' = [store EXCEPT ![host[w]] = hi[w]]
  BY DEF StoreCert
<1>6. /\ cells[hi[w]].Config = cert
      /\ \A i \in Infos : i # hi[w] => cells[i].Config = info[i].Config
  BY <1>0, <1>3 DEF HostInfo
<1>7. found[w] => cert.bad
  BY <1>0, <1>2 DEF Keeps, MadeForHost
<1> HIDE DEF cert, cells
<1>8. /\ pc'[w] = "done" /\ host' = host
      /\ served' = [served EXCEPT ![w] = cert] /\ served'[w] = cert
      /\ \A v \in Workers \ {w} : /\ pc'[v] = pc[v] /\ hi'[v] = hi[v]
                                  /\ found'[v] = found[v]
  BY <1>0, <1>4, <1>5, ReturnFacts DEF Return
<1>9. \A i \in Infos : Published(i)' \/ Referenced(i)' => info'[i].Config = cells[i].Config
  BY <1>0, <1>4, <1>5, ReturnFacts
<1>10. \A v \in Workers \ {w} : Active(v) => hi[v] \in Infos /\ Referenced(hi[v])'
  BY <1>1, <1>8 DEF Referenced
<1>11. \A v \in Seers : host[v] = host[w]
  BY <1>0 DEF FoundReady, PrivateUntilStored, Active
<1>12. \A h \in Hosts : store[h] = hi[w] => h = host[w]
  <2> SUFFICES ASSUME NEW h \in Hosts, store[h] = hi[w] PROVE h = host[w]
    OBVIOUS
  <2>1. Published(hi[w]) /\ store[h] # NoInfo
    BY <1>0, CertStoreAssumption DEF Published
  <2>2. found[w]
    BY <1>0, <2>1 DEF PrivateUntilStored
  <2> QED
    BY <1>0, <2>1, <2>2 DEF FoundReady, PublishedReady
<1>13. Cached' = [Cached EXCEPT ![host[w]] = cert]
  <2>1. \A h \in Hosts : store'[h] = IF h = host[w] THEN hi[w] ELSE store[h]
    BY <1>0, <1>5 DEF Typed, TypeOK
  <2>2. \A h \in Hosts \ {host[w]} : store[h] # NoInfo =>
          /\ store[h] \in Infos /\ store[h] # hi[w]
          /\ \A i \in Infos : i = store[h] => Published(i)'
    BY <1>12, <2>1 DEF Published, Typed, TypeOK
  <2>3. \A h \in Hosts \ {host[w]} : store[h] # NoInfo =>
          info'[store[h]].Config = info[store[h]].Config
    BY <1>6, <1>9, <2>2
  <2>4. info'[hi[w]].Config = cert
    <3>1. \A i \in Infos : i = hi[w] => Published(i)'
      BY <1>0, <2>1 DEF Published
    <3> QED
      BY <1>0, <1>6, <1>9, <3>1, Zenon
  <2>5. \A h \in Hosts : Cached'[h] = IF h = host[w] THEN cert ELSE Cached[h]
    BY <1>0, <2>1, <2>3, <2>4, CertStoreAssumption DEF Cached
  <2> QED
    BY <2>5 DEF Cached
<1>14. InView' = [u \in Workers |-> IF u = w THEN NoCert ELSE IF u \in Seers THEN cert
                                                              ELSE InView[u]]
  <2> SUFFICES ASSUME NEW u \in Workers
               PROVE  InView'[u] = IF u = w THEN NoCert ELSE IF u \in Seers THEN cert
                                                         ELSE InView[u]
    BY DEF InView
  <2>1. CASE u = w
    BY <1>8, <2>1 DEF InView
  <2>2. CASE u # w /\ Active(u) /\ found[u]
    <3>1. InView'[u] = info'[hi[u]].Config /\ InView[u] = info[hi[u]].Config
      BY <1>8, <2>2 DEF InView, Active
    <3>2. info'[hi[u]].Config = cells[hi[u]].Config
      BY <1>8, <1>9, <1>10, <2>2
    <3>3. hi[u] \in Infos
      BY <1>10, <2>2
    <3>4. CASE hi[u] = hi[w]
      <4>1. u \in Seers
        BY <2>2, <3>4
      <4>2. InView'[u] = cert
        BY <1>6, <3>1, <3>2, <3>4, Zenon
      <4> QED
        BY <2>2, <4>1, <4>2
    <3>5. CASE hi[u] # hi[w]
      BY <1>6, <2>2, <3>1, <3>2, <3>3, <3>5
    <3> QED
      BY <3>4, <3>5
  <2>3. CASE u # w /\ ~(Active(u) /\ found[u])
    <3>1. InView'[u] = NoCert /\ InView[u] = NoCert
      BY <1>8, <2>3 DEF InView, Active
    <3> QED
      BY <2>3, <3>1
  <2> QED
    BY <2>1, <2>2, <2>3
<1>15. Seers \in SUBSET {u \in Workers : /\ CallAt[u] = "asked" /\ host[u] = host[w]
                                         /\ InView[u] # NoCert}
  BY <1>11 DEF CallAt, InView, Active, FoundReady
<1>16. Cache!Answer(w, cert)
  <2>1. CallAt[w] = "asked" /\ CallAt' = [CallAt EXCEPT ![w] = "answered"]
    BY <1>0, <1>8 DEF CallAt
  <2> QED
    BY <1>8, <2>1 DEF Cache!Answer
<1>17. InView[w] = NoCert \/ cert.bad
  BY <1>7 DEF InView
<1> HIDE DEF Seers
<1>18. Cache!Put(w, cert)
  BY <1>2, <1>13, <1>14, <1>15, <1>16, <1>17 DEF Cache!Put
<1> QED
  BY <1>8, <1>18

\* Every step of a handshake, a flush or the clock is one of CertCache, or one that
\* it does not see.
LEMMA StepCache == Typed /\ Safe /\ [Next]_vars => [Cache!Next]_Cache!vars
<1> SUFFICES ASSUME Typed, Safe, [Next]_vars PROVE [Cache!Next]_Cache!vars
  OBVIOUS
<1>0. info \in [Infos -> HostInfo] /\ now \in Int
  BY DEF Typed, TypeOK
<1>1. \A w \in Workers : Active(w) => hi[w] \in Infos
  BY DEF Typed, Refs, Active
<1>2. ASSUME NEW w \in Workers, NEW cells \in [Infos -> HostInfo], Inside(w), found[w],
             Return(w, info[hi[w]].Config, cells), store' = store,
             \A i \in Infos : cells[i].Config = info[i].Config
      PROVE  Cache!Hit(w)
  <2>1. InView[w] = info[hi[w]].Config /\ InView[w] # NoCert
    BY <1>2 DEF InView, Inside, Safe, FoundReady, Active
  <2> QED
    BY <1>2, <2>1, ReturnAnswers DEF Cache!Hit
<1>3. ASSUME NEW w \in Workers, UseRecent(w) PROVE Cache!Hit(w)
  <2>1. /\ Inside(w) /\ store' = store /\ Return(w, info[hi[w]].Config, info)
        /\ found[w]
    BY <1>3 DEF UseRecent, Inside, Safe, MadeForHost
  <2> QED
    BY <1>0, <1>2, <2>1
<1>4. ASSUME NEW w \in Workers, UseVerified(w) \/ (StoreCert(w) /\ ~Keeps(w))
      PROVE  Cache!Hit(w)
  <2> DEFINE cells == [info EXCEPT ![hi[w]].LastVerify = now]
  <2>1. /\ Inside(w) /\ store' = store /\ Return(w, info[hi[w]].Config, cells)
        /\ found[w] /\ hi[w] \in Infos
    BY <1>1, <1>4 DEF UseVerified, StoreCert, Keeps, Inside, Safe, MadeForHost, Active
  <2>2. cells \in [Infos -> HostInfo] /\ \A i \in Infos : cells[i].Config = info[i].Config
    BY <1>0, <2>1, CellFields DEF HostInfo
  <2> HIDE DEF cells
  <2> QED
    BY <1>2, <2>1, <2>2
<1>5. ASSUME NEW w \in Workers, DialFails(w) \/ CreateFails(w) PROVE Cache!Fail(w)
  <2>1. Inside(w) /\ store' = store /\ Return(w, NoCert, info)
    BY <1>5 DEF DialFails, CreateFails, Dialing, Inside
  <2> QED
    BY <1>0, <2>1, ReturnAnswers DEF Cache!Fail
<1>6. ASSUME NEW w \in Workers, LockHost(w) PROVE UNCHANGED Cache!vars
  <2>1. /\ UNCHANGED <<store, host, hi, found, served>>
        /\ pc[w] = "lookup" /\ pc'[w] \notin {"idle", "done"}
        /\ \A v \in Workers \ {w} : pc'[v] = pc[v]
    BY <1>6 DEF LockHost, Typed, TypeOK
  <2>2. \A i \in Infos : info'[i].Config = info[i].Config
    BY <1>0, <1>6 DEF LockHost, HostInfo
  <2> QED
    BY <2>1, <2>2, ViewsKept
<1>7. ASSUME NEW w \in Workers, VerifyFails(w) \/ SkipFetch(w) \/ DialTimesOut(w)
                                 \/ FetchedNone(w) \/ CreateCert(w) \/ LockStore(w)
      PROVE  UNCHANGED Cache!vars
  <2>1. UNCHANGED <<store, host, hi, found, served, info>>
    BY <1>7 DEF VerifyFails, SkipFetch, DialTimesOut, FetchedNone, CreateCert, LockStore
  <2>2. /\ pc[w] \notin {"idle", "done"} /\ pc'[w] \notin {"idle", "done"}
        /\ \A v \in Workers \ {w} : pc'[v] = pc[v]
    BY <1>7 DEF VerifyFails, SkipFetch, DialTimesOut, FetchedNone, CreateCert,
                LockStore, Dialing, Typed, TypeOK
  <2> QED
    BY <2>1, <2>2, ViewsKept
<1>8. ASSUME NEW w \in Workers, NEW l \in Lifetimes, NEW chainOK \in BOOLEAN,
             Fetched(w, now + l, chainOK)
      PROVE  UNCHANGED Cache!vars
  <2>1. /\ UNCHANGED <<store, host, hi, found, served>>
        /\ pc[w] \notin {"idle", "done"} /\ pc'[w] \notin {"idle", "done"}
        /\ \A v \in Workers \ {w} : pc'[v] = pc[v]
    BY <1>8 DEF Fetched, Dialing, Typed, TypeOK
  <2>2. info' = info \/ info' = [info EXCEPT ![hi[w]].NextAttempt = now + RetryAge]
    BY <1>8 DEF Fetched
  <2>3. \A i \in Infos : info'[i].Config = info[i].Config
    BY <1>0, <2>2 DEF HostInfo
  <2> QED
    BY <2>1, <2>3, ViewsKept
<1>9. ASSUME NEW w \in Workers, Done(w) PROVE Cache!Done(w)
  <2>1. /\ pc[w] = "done" /\ pc'[w] = "idle"
        /\ \A v \in Workers \ {w} : pc'[v] = pc[v]
        /\ UNCHANGED <<info, store, hi, found>>
    BY <1>9 DEF Done, Typed, TypeOK
  <2>2. CallAt[w] = "answered" /\ CallAt' = [CallAt EXCEPT ![w] = "idle"]
    BY <2>1 DEF CallAt
  <2>3. Cached' = Cached /\ InView' = InView
    BY <2>1 DEF Cached, InView
  <2> QED
    BY <1>9, <2>2, <2>3 DEF Done, Cache!Done
<1>10. CASE Tick \/ UNCHANGED vars
  BY <1>10, ViewsKept DEF Tick, vars, workerVars
<1>11. ASSUME NEW w \in Workers, WorkerStep(w) PROVE [Cache!Next]_Cache!vars
  BY <1>3, <1>4, <1>5, <1>7, <1>8, <1>9, <1>11, KeepPuts DEF WorkerStep, Cache!Next
<1>12. ASSUME NEW w \in Workers, NEW h \in Hosts, Lookup(w, h) PROVE Cache!Next
  BY <1>12, LookupAsks DEF Cache!Next
<1>13. ASSUME NEW h \in Hosts, FlushCert(h) PROVE Cache!Next
  BY <1>13, FlushFlushes DEF Cache!Next
<1> QED
  BY <1>6, <1>7, <1>10, <1>11, <1>12, <1>13 DEF Next

\* certWithCommonName and FlushCert, whose handshakes run into one another between
\* their lookup, their fetch and their store, implement a cache with one
\* certificate per host, changed only in the moment a handshake is answered.
THEOREM StoreImplementsCache == Spec => ImplementsCache
<1>1. Init => Cache!Init
  BY DEF Init, Cache!Init, Cached, CallAt, InView
<1>2. Typed /\ Safe /\ [Next]_vars => [Cache!Next]_Cache!vars
  BY StepCache
<1> QED
  BY <1>1, <1>2, Invariant, PTL DEF Spec, ImplementsCache, Cache!Spec
=============================================================================

------------------------------ MODULE CertStore ------------------------------
(***************************************************************************)
(* The certificate cache of signer.go: GoproxyConfigServer.Host, a map     *)
(* from host names to HostInfo objects, filled by certWithCommonName from  *)
(* many TLS handshakes at once and emptied by FlushCert.  certmu guards    *)
(* the map, HostInfo.mu one entry; the upstream fetch happens while only   *)
(* HostInfo.mu is held.                                                    *)
(*                                                                         *)
(* HostInfo objects are heap cells: a cell that no worker and no map entry *)
(* refers to may be allocated again.  Time is a counter of hours.          *)
(***************************************************************************)
EXTENDS Integers

CONSTANTS Workers,     \* goroutines inside certWithCommonName
          Hosts,       \* host names and addresses, port removed
          Infos,       \* HostInfo cells
          LocalHosts,  \* names containing winston.conf: never fetched
          Loopback,    \* 127.0.0.x: a cached certificate is never verified
          VerifyAge,   \* 60 minutes
          RetryAge,    \* 24 hours
          Validity,    \* GoproxyConfigServer.validity
          Lifetimes,   \* hours an upstream certificate may have left; less
                       \* than 0 for one that does not verify (expired, or
                       \* for other names than the host's)
          MaxNow,      \* bound on the clock
          NoWorker, NoHost, NoInfo, NoCert, NoTime

\* A leaf certificate: the host it was made for, the last hour in which it
\* verifies, whether it was made expired because the upstream chain was bad;
\* stale (history) says that a flush overtook its fetch.
Certs == [host: Hosts, notAfter: Int, bad: BOOLEAN, stale: BOOLEAN]

ASSUME CertStoreAssumption ==
  /\ LocalHosts \subseteq Hosts
  /\ Loopback \subseteq Hosts
  /\ VerifyAge \in Nat /\ RetryAge \in Nat /\ Validity \in Nat
  /\ Lifetimes \subseteq Int
  /\ MaxNow \in Nat
  /\ NoWorker \notin Workers
  /\ NoHost \notin Hosts
  /\ NoInfo \notin Infos
  /\ NoCert \notin Certs
  /\ NoTime \notin Int

VARIABLES
  now,      \* the clock
  store,    \* GoproxyConfigServer.Host: a cell, or NoInfo when absent
  certmu,   \* the writer that holds certmu, if any
  info,     \* the HostInfo cells
  pc,       \* where a worker is
  host,     \* the worker's host
  hi,       \* the worker's hostmetadata pointer
  found,    \* the worker's found flag
  orig,     \* the worker's origcert, reduced to its expiry
  badcert,  \* the worker's badcert flag
  made,     \* the certificate the worker created
  flushed,  \* history: host was flushed after the worker's fetch
  served    \* what the worker's call returned, NoCert for an error

workerVars == <<pc, host, hi, found, orig, badcert, made, flushed, served>>
vars == <<now, store, certmu, info, workerVars>>

\* The zero time.Time, which is before every now - VerifyAge.
ZeroTime == -1 - VerifyAge

\* HostInfo; its Config is reduced to the one certificate it holds.
HostInfo == [LastVerify: Int, NextAttempt: Int, mu: Workers \cup {NoWorker},
             Config: Certs \cup {NoCert}]
ZeroInfo == [LastVerify |-> ZeroTime, NextAttempt |-> ZeroTime, mu |-> NoWorker,
             Config |-> NoCert]

WorkerAt == {"idle", "lookup", "locked", "fetch", "retry", "create", "made",
             "storing", "done"}

TypeOK ==
  /\ now \in Nat
  /\ store \in [Hosts -> Infos \cup {NoInfo}]
  /\ certmu \in Workers \cup {NoWorker}
  /\ info \in [Infos -> HostInfo]
  /\ pc \in [Workers -> WorkerAt]
  /\ host \in [Workers -> Hosts \cup {NoHost}]
  /\ hi \in [Workers -> Infos \cup {NoInfo}]
  /\ found \in [Workers -> BOOLEAN]
  /\ orig \in [Workers -> Int \cup {NoTime}]
  /\ badcert \in [Workers -> BOOLEAN]
  /\ made \in [Workers -> Certs \cup {NoCert}]
  /\ flushed \in [Workers -> BOOLEAN]
  /\ served \in [Workers -> Certs \cup {NoCert}]

Init ==
  /\ now = 0
  /\ store = [h \in Hosts |-> NoInfo]
  /\ certmu = NoWorker
  /\ info = [i \in Infos |-> ZeroInfo]
  /\ pc = [w \in Workers |-> "idle"]
  /\ host = [w \in Workers |-> NoHost]
  /\ hi = [w \in Workers |-> NoInfo]
  /\ found = [w \in Workers |-> FALSE]
  /\ orig = [w \in Workers |-> NoTime]
  /\ badcert = [w \in Workers |-> FALSE]
  /\ made = [w \in Workers |-> NoCert]
  /\ flushed = [w \in Workers |-> FALSE]
  /\ served = [w \in Workers |-> NoCert]

Published(i)  == \E h \in Hosts : store[h] = i
Referenced(i) == \E w \in Workers : hi[w] = i

\* The cells after a step that may drop the last reference to one: what
\* nothing refers to any more is garbage, and as good as new.
Collected(cells) ==
  info' = [i \in Infos |-> IF Published(i)' \/ Referenced(i)' THEN cells[i]
                                                              ELSE ZeroInfo]

-----------------------------------------------------------------------------
(* certWithCommonName, from the lookup to the decision about a cached      *)
(* certificate.                                                            *)

\* Mutant: a new cell is put in the map at once, to be filled in later.
LookupPublishes(w, h) ==
  /\ pc[w] = "idle"
  /\ certmu = NoWorker
  /\ \E i \in Infos :
       /\ IF store[h] # NoInfo THEN i = store[h] ELSE ~Published(i) /\ ~Referenced(i)
       /\ hi' = [hi EXCEPT ![w] = i]
       /\ store' = [store EXCEPT ![h] = i]
  /\ found' = [found EXCEPT ![w] = store[h] # NoInfo]
  /\ pc' = [pc EXCEPT ![w] = "lookup"]
  /\ host' = [host EXCEPT ![w] = h]
  /\ UNCHANGED <<now, certmu, info, orig, badcert, made, flushed, served>>

\* Under certmu.RLock: find the host's cell, or allocate one of one's own.
Lookup(w, h) ==
  /\ pc[w] = "idle"
  /\ certmu = NoWorker
  /\ \/ /\ store[h] # NoInfo
        /\ hi' = [hi EXCEPT ![w] = store[h]]
        /\ found' = [found EXCEPT ![w] = TRUE]
     \/ /\ store[h] = NoInfo
        /\ \E i \in Infos : /\ ~Published(i)
                            /\ ~Referenced(i)
                            /\ hi' = [hi EXCEPT ![w] = i]
        /\ found' = [found EXCEPT ![w] = FALSE]
  /\ pc' = [pc EXCEPT ![w] = "lookup"]
  /\ host' = [host EXCEPT ![w] = h]
  /\ UNCHANGED <<now, store, certmu, info, orig, badcert, made, flushed, served>>

\* Mutant: the cell's mutex is not waited for.
LockHostAnyway(w) ==
  /\ pc[w] = "lookup"
  /\ info' = [info EXCEPT ![hi[w]].mu = w]
  /\ pc' = [pc EXCEPT ![w] = IF found[w] THEN "locked" ELSE "fetch"]
  /\ UNCHANGED <<now, store, certmu, host, hi, found, orig, badcert, made,
                 flushed, served>>

LockHost(w) ==
  /\ pc[w] = "lookup"
  /\ info[hi[w]].mu = NoWorker
  /\ info' = [info EXCEPT ![hi[w]].mu = w]
  /\ pc' = [pc EXCEPT ![w] = IF found[w] THEN "locked" ELSE "fetch"]
  /\ UNCHANGED <<now, store, certmu, host, hi, found, orig, badcert, made,
                 flushed, served>>

\* return cert: the result, the end of the locals and of the reference to the
\* cell, and the deferred Unlock of its mutex.
Return(w, cert, cells) ==
  /\ pc' = [pc EXCEPT ![w] = "done"]
  /\ served' = [served EXCEPT ![w] = cert]
  /\ hi' = [hi EXCEPT ![w] = NoInfo]
  /\ found' = [found EXCEPT ![w] = FALSE]
  /\ orig' = [orig EXCEPT ![w] = NoTime]
  /\ badcert' = [badcert EXCEPT ![w] = FALSE]
  /\ made' = [made EXCEPT ![w] = NoCert]
  /\ flushed' = [flushed EXCEPT ![w] = FALSE]
  /\ Collected([cells EXCEPT ![hi[w]].mu = NoWorker])
  /\ UNCHANGED <<now, host>>

NeedsVerify(w) == info[hi[w]].LastVerify < now - VerifyAge

LeafVerifies(w) ==
  host[w] \in Loopback \/ now <= info[hi[w]].Config.notAfter

\* Verified within the hour: return what is cached.
UseRecent(w) ==
  /\ pc[w] = "locked"
  /\ ~NeedsVerify(w)
  /\ UNCHANGED <<store, certmu>>
  /\ Return(w, info[hi[w]].Config, info)

UseVerified(w) ==
  /\ pc[w] = "locked"
  /\ NeedsVerify(w)
  /\ LeafVerifies(w)
  /\ UNCHANGED <<store, certmu>>
  /\ Return(w, info[hi[w]].Config, [info EXCEPT ![hi[w]].LastVerify = now])

VerifyFails(w) ==
  /\ pc[w] = "locked"
  /\ NeedsVerify(w)
  /\ ~LeafVerifies(w)
  /\ pc' = [pc EXCEPT ![w] = "fetch"]
  /\ UNCHANGED <<now, store, certmu, info, host, hi, found, orig, badcert,
                 made, flushed, served>>

-----------------------------------------------------------------------------
(* The upstream fetch, with HostInfo.mu held and certmu free.              *)

ToFetch(w) == host[w] \notin LocalHosts /\ info[hi[w]].NextAttempt < now

SkipFetch(w) ==
  /\ pc[w] = "fetch"
  /\ ~ToFetch(w)
  /\ pc' = [pc EXCEPT ![w] = "create"]
  /\ UNCHANGED <<now, store, certmu, info, host, hi, found, orig, badcert,
                 made, flushed, served>>

Dialing(w) == pc[w] = "retry" \/ (pc[w] = "fetch" /\ ToFetch(w))

\* The dial fails: once and for all, or on the retry.
DialFails(w) ==
  /\ Dialing(w)
  /\ UNCHANGED <<store, certmu>>
  /\ Return(w, NoCert, info)

\* Mutant: a timeout is retried without end.
DialTimesOutAgain(w) ==
  /\ Dialing(w)
  /\ pc' = [pc EXCEPT ![w] = IF @ = "fetch" THEN "retry" ELSE "fetch"]
  /\ UNCHANGED <<now, store, certmu, info, host, hi, found, orig, badcert,
                 made, flushed, served>>

\* A timeout of more than two seconds is retried once.
DialTimesOut(w) ==
  /\ pc[w] = "fetch"
  /\ ToFetch(w)
  /\ pc' = [pc EXCEPT ![w] = "retry"]
  /\ UNCHANGED <<now, store, certmu, info, host, hi, found, orig, badcert,
                 made, flushed, served>>

\* The upstream presents a certificate; its chain is checked unless the cell
\* was verified within the hour.  A bad chain is not tried again for a day.
Fetched(w, notAfter, chainOK) ==
  LET bad == NeedsVerify(w) /\ ~chainOK IN
  /\ Dialing(w)
  /\ orig' = [orig EXCEPT ![w] = notAfter]
  /\ badcert' = [badcert EXCEPT ![w] = bad]
  /\ info' = IF bad THEN [info EXCEPT ![hi[w]].NextAttempt = now + RetryAge]
                    ELSE info
  /\ pc' = [pc EXCEPT ![w] = "create"]
  /\ UNCHANGED <<now, store, certmu, host, hi, found, made, flushed, served>>

\* The handshake succeeds without a peer certificate.
FetchedNone(w) ==
  /\ Dialing(w)
  /\ pc' = [pc EXCEPT ![w] = "create"]
  /\ UNCHANGED <<now, store, certmu, info, host, hi, found, orig, badcert,
                 made, flushed, served>>

-----------------------------------------------------------------------------
(* Creating and storing the certificate.                                   *)

\* Mutant: no test for a missing upstream certificate.
NewCertUnchecked(w) ==
  [host |-> host[w], notAfter |-> IF badcert[w] THEN -1 ELSE orig[w],
   bad |-> badcert[w], stale |-> FALSE]

\* A bad chain gives a certificate that has already expired; otherwise the
\* upstream's validity (and names), or the server's own.
NewCert(w) ==
  [host     |-> host[w],
   notAfter |-> IF badcert[w] THEN -1
                ELSE IF orig[w] # NoTime THEN orig[w] ELSE now + Validity,
   bad      |-> badcert[w],
   stale    |-> FALSE]

CreateCert(w) ==
  /\ pc[w] = "create"
  /\ made' = [made EXCEPT ![w] = NewCert(w)]
  /\ orig' = [orig EXCEPT ![w] = NoTime]
  /\ pc' = [pc EXCEPT ![w] = "made"]
  /\ UNCHANGED <<now, store, certmu, info, host, hi, found, badcert,
                 flushed, served>>

CreateFails(w) ==
  /\ pc[w] = "create"
  /\ UNCHANGED <<store, certmu>>
  /\ Return(w, NoCert, info)

\* certmu.Lock, with HostInfo.mu held.
LockStore(w) ==
  /\ pc[w] = "made"
  /\ certmu = NoWorker
  /\ certmu' = w
  /\ pc' = [pc EXCEPT ![w] = "storing"]
  /\ UNCHANGED <<now, store, info, host, hi, found, orig, badcert, made,
                 flushed, served>>

\* Mutant: the cached certificate is always overwritten.
KeepsAlways(w) == TRUE

\* The new certificate is kept only if there was none or the chain is bad;
\* LastVerify is set either way, and both locks are released.
Keeps(w) == ~found[w] \/ badcert[w]

\* Mutant: the new certificate is returned also where it is not kept.
StoreCertServesNew(w) ==
  LET verified == [info EXCEPT ![hi[w]].LastVerify = now]
      cert     == [made[w] EXCEPT !.stale = flushed[w]]
  IN
  /\ pc[w] = "storing"
  /\ certmu' = NoWorker
  /\ IF Keeps(w)
       THEN /\ store' = [store EXCEPT ![host[w]] = hi[w]]
            /\ Return(w, cert, [verified EXCEPT ![hi[w]].Config = cert])
       ELSE /\ UNCHANGED store
            /\ Return(w, cert, verified)

StoreCert(w) ==
  LET verified == [info EXCEPT ![hi[w]].LastVerify = now]
      cert     == [made[w] EXCEPT !.stale = flushed[w]]
  IN
  /\ pc[w] = "storing"
  /\ certmu' = NoWorker
  /\ IF Keeps(w)
       THEN /\ store' = [store EXCEPT ![host[w]] = hi[w]]
            /\ Return(w, cert, [verified EXCEPT ![hi[w]].Config = cert])
       ELSE /\ UNCHANGED store
            /\ Return(w, info[hi[w]].Config, verified)

-----------------------------------------------------------------------------
\* The handshake takes the result; the worker may serve another one.
Done(w) ==
  /\ pc[w] = "done"
  /\ pc' = [pc EXCEPT ![w] = "idle"]
  /\ host' = [host EXCEPT ![w] = NoHost]
  /\ served' = [served EXCEPT ![w] = NoCert]
  /\ UNCHANGED <<now, store, certmu, info, hi, found, orig, badcert, made, flushed>>

\* FlushCert, called when a domain is white- or blacklisted.
FlushCert(h) ==
  /\ certmu = NoWorker
  /\ store' = [store EXCEPT ![h] = NoInfo]
  /\ flushed' = [w \in Workers |->
                   flushed[w] \/ (host[w] = h /\ pc[w] \in {"create", "made"})]
  /\ UNCHANGED <<now, certmu, pc, host, hi, found, orig, badcert, made, served>>
  /\ Collected(info)

Tick ==
  /\ now < MaxNow
  /\ now' = now + 1
  /\ UNCHANGED <<store, certmu, info, workerVars>>

WorkerStep(w) ==
  \/ UseRecent(w)
  \/ UseVerified(w)
  \/ VerifyFails(w)
  \/ SkipFetch(w)
  \/ DialFails(w)
  \/ DialTimesOut(w)
  \/ \E l \in Lifetimes, chainOK \in BOOLEAN : Fetched(w, now + l, chainOK)
  \/ FetchedNone(w)
  \/ CreateCert(w)
  \/ CreateFails(w)
  \/ StoreCert(w)
  \/ Done(w)

Next ==
  \/ \E w \in Workers : \/ \E h \in Hosts : Lookup(w, h)
                        \/ LockHost(w)
                        \/ LockStore(w)
                        \/ WorkerStep(w)
  \/ \E h \in Hosts : FlushCert(h)
  \/ Tick

Spec == Init /\ [][Next]_vars

\* Workers run; the dial ends (the dialer has a timeout of five seconds); Go
\* mutexes are starvation-free, so a lock that keeps becoming free is granted.
FairSpec ==
  /\ Spec
  /\ \A w \in Workers : WF_vars(WorkerStep(w)) /\ SF_vars(LockHost(w))
                        /\ SF_vars(LockStore(w))
-----------------------------------------------------------------------------
(* Properties.                                                             *)

\* Whatever handshakes and flushes interleave, an entry of the map is a
\* finished one: its Config is set and holds a certificate made for that host,
\* so the lookup "should never happen" to miss (signer.go:343) and a handshake
\* is never handed a nil config or another host's.
PublishedReady ==
  \A h \in Hosts : store[h] # NoInfo =>
    info[store[h]].Config # NoCert /\ info[store[h]].Config.host = h

\* A cell that a worker allocated because the lookup missed is that worker's
\* alone until it stores it: nobody else waits for its mutex and no map entry
\* points at it, which is what makes its unguarded fields safe to write.
PrivateUntilStored ==
  \A w \in Workers : pc[w] \notin {"idle", "done"} /\ ~found[w] =>
    /\ ~Published(hi[w])
    /\ \A v \in Workers \ {w} : hi[v] # hi[w]

\* A published entry is verified, fetched and replaced by one handshake at a
\* time: HostInfo.mu is held from the lookup's lock to the return, across the
\* upstream dial, on every path.
Inside(w) == pc[w] \notin {"idle", "lookup", "done"}

OneFetchPerEntry ==
  \A v, w \in Workers : Inside(v) /\ Inside(w) /\ hi[v] = hi[w] => v = w

\* "a global list of immutable TLS Configs" (signer.go:73): the certificate of
\* a published entry never changes under the handshakes that use it, except to
\* the expired one of a host whose chain was found bad.
ConfigImmutable ==
  [][\A i \in Infos : Published(i) /\ Published(i)' =>
       \/ info'[i].Config = info[i].Config
       \/ info'[i].Config # NoCert /\ info'[i].Config.bad]_vars

\* A handshake gets a certificate made for its own host, or an error: part of
\* what ImplementsCache says.
ServedForHost ==
  \A w \in Workers : served[w] # NoCert => served[w].host = host[w]

\* What CertCache sees: the certificate that an entry leads to, how far a call is,
\* and the certificate of the cell that it has found.
Cached == [h \in Hosts |-> IF store[h] = NoInfo THEN NoCert ELSE info[store[h]].Config]

CallAt == [w \in Workers |-> IF pc[w] \in {"idle", "done"}
                               THEN IF pc[w] = "idle" THEN "idle" ELSE "answered"
                               ELSE "asked"]

InView == [w \in Workers |-> IF pc[w] \notin {"idle", "done"} /\ found[w]
                               THEN info[hi[w]].Config ELSE NoCert]

Cache == INSTANCE CertCache WITH
           Calls <- Workers, cache <- Cached, at <- CallAt, view <- InView, got <- served

\* A map of pointers, two kinds of locks and a fetch between them add up to a
\* cache with one certificate per host: a handshake gets the certificate that was
\* cached when it looked, or one that was cached since, or the one it caches
\* itself; a failed one changes nothing that others see ("in the worst cast, we'll
\* fetch the downstream certificate multiple times", signer.go:319).
ImplementsCache == Cache!Spec

\* Every handshake that asks for a certificate is answered: HostInfo.mu and
\* certmu are taken in one order and released on every return path.
HandshakeAnswered == \A w \in Workers : pc[w] # "idle" ~> pc[w] = "idle"

\* "if the cached certificate has expired, create a new one" (signer.go:335):
\* a certificate that was created is the one the handshake gets.
ExpiredIsReplaced ==
  [][\A w \in Workers : StoreCert(w) => served'[w] = [made[w] EXCEPT !.stale = flushed[w]]]_vars

\* FlushCert "removes the certificate ... necessary if we change the whitelist
\* or blacklist settings" (signer.go:222): no certificate fetched before the
\* last flush of its host is in the cache.
FlushTakesEffect ==
  \A h \in Hosts : store[h] # NoInfo => ~info[store[h]].Config.stale
=============================================================================

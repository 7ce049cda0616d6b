----------------------------- MODULE CertCache ------------------------------
(***************************************************************************)
(* What the certificate cache of signer.go promises its handshakes: one    *)
(* certificate per host, put there in the moment in which the handshake    *)
(* that made it gets it.  A handshake that found one is given that one, or *)
(* what has replaced it since; it replaces it itself only for a host with  *)
(* a bad chain.  One that found none makes its own.  A failed handshake    *)
(* leaves the cache as it was, and a flush takes nothing from the          *)
(* handshakes that have looked already.                                    *)
(***************************************************************************)
CONSTANTS Calls, Hosts, NoHost,
          Certs,  \* records with the host and whether its chain is bad
          NoCert

VARIABLES cache,  \* cache[h]: the certificate cached for h
          at,     \* at[w]: "idle", "asked" or "answered"
          host,   \* the host w asks for
          view,   \* the cached certificate w would be given
          got     \* w's answer, NoCert for an error

vars == <<cache, at, host, view, got>>

Init ==
  /\ cache = [h \in Hosts |-> NoCert]
  /\ at = [w \in Calls |-> "idle"]
  /\ host = [w \in Calls |-> NoHost]
  /\ view = [w \in Calls |-> NoCert]
  /\ got = [w \in Calls |-> NoCert]

Ask(w, h) ==
  /\ at[w] = "idle"
  /\ at' = [at EXCEPT ![w] = "asked"]
  /\ host' = [host EXCEPT ![w] = h]
  /\ view' = [view EXCEPT ![w] = cache[h]]
  /\ UNCHANGED <<cache, got>>

Answer(w, c) ==
  /\ at[w] = "asked"
  /\ at' = [at EXCEPT ![w] = "answered"]
  /\ got' = [got EXCEPT ![w] = c]
  /\ UNCHANGED host

Fail(w) ==
  /\ Answer(w, NoCert)
  /\ view' = [view EXCEPT ![w] = NoCert]
  /\ UNCHANGED cache

Hit(w) ==
  /\ view[w] # NoCert
  /\ Answer(w, view[w])
  /\ view' = [view EXCEPT ![w] = NoCert]
  /\ UNCHANGED cache

\* Who found a certificate of the same host may see it replaced.
Put(w, c) ==
  /\ c \in Certs /\ c.host = host[w]
  /\ view[w] = NoCert \/ c.bad
  /\ Answer(w, c)
  /\ cache' = [cache EXCEPT ![host[w]] = c]
  /\ \E S \in SUBSET {u \in Calls : at[u] = "asked" /\ host[u] = host[w] /\ view[u] # NoCert} :
       view' = [u \in Calls |-> IF u = w THEN NoCert ELSE IF u \in S THEN c ELSE view[u]]

Flush(h) ==
  /\ cache' = [cache EXCEPT ![h] = NoCert]
  /\ UNCHANGED <<at, host, view, got>>

Done(w) ==
  /\ at[w] = "answered"
  /\ at' = [at EXCEPT ![w] = "idle"]
  /\ host' = [host EXCEPT ![w] = NoHost]
  /\ got' = [got EXCEPT ![w] = NoCert]
  /\ UNCHANGED <<cache, view>>

Next ==
  \/ \E w \in Calls : \/ \E h \in Hosts : Ask(w, h)
                      \/ Hit(w) \/ Put(w, got[w]') \/ Fail(w) \/ Done(w)
  \/ \E h \in Hosts : Flush(h)

Spec == Init /\ [][Next]_vars
=============================================================================

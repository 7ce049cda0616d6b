----------------------------- MODULE ConnectDial -----------------------------
(***************************************************************************)
(* https.go: connectDialContext, which dials the destination or, when      *)
(* ConnectDialContext is set (NewConnectDialToProxyContext, from the       *)
(* environment), an upstream proxy that is asked to CONNECT.  The legacy   *)
(* Dial functions do the same without a context.                           *)
(***************************************************************************)
EXTENDS Naturals

CONSTANTS Vias,     \* how the proxy may be set up: "direct", "http", "https"
          MaxEarly  \* bytes the destination may send before it is spoken to

VARIABLES
  dial,     \* where the dial is
  via,      \* the dialer that was chosen
  socket,   \* the connection dialed
  early,    \* destination bytes read into the discarded bufio.Reader
  refusal   \* what the upstream proxy sends after a status that is not 200

vars == <<dial, via, socket, early, refusal>>

Init ==
  /\ dial = "no" /\ via = "direct" /\ socket = "none"
  /\ early = 0 /\ refusal = "none"

connectDialContext ==
  /\ dial = "no"
  /\ via' \in Vias
  /\ dial' = "dialing"
  /\ UNCHANGED <<socket, early, refusal>>

dialFails ==
  /\ dial = "dialing"
  /\ dial' = "err"
  /\ UNCHANGED <<via, socket, early, refusal>>

\* dialContext has a connection: the destination's, or the proxy's, to which
\* the CONNECT is written; an error of that write is ignored.
dialed ==
  /\ dial = "dialing"
  /\ socket' = "open"
  /\ dial' = IF via = "direct" THEN "ok" ELSE "asked"
  /\ UNCHANGED <<via, early, refusal>>

\* ReadResponse: 200, and with it whatever was already there to be read.
accepted ==
  /\ dial = "asked"
  /\ early' \in 0..MaxEarly
  /\ dial' = "ok"
  /\ UNCHANGED <<via, socket, refusal>>

\* ReadResponse fails.
unreadable ==
  /\ dial = "asked"
  /\ socket' = "closed"
  /\ dial' = "err"
  /\ UNCHANGED <<via, early, refusal>>

\* The body of a refusal ends; or it does not, and only the end of the connection
\* could end it ("endless"), or a last chunk or a promised length on a connection
\* that is kept alive ("framed").
refused ==
  /\ dial = "asked"
  /\ refusal' \in {"ends", "endless", "framed"}
  /\ dial' = "refused"
  /\ UNCHANGED <<via, socket, early>>

\* Http reads all of the body.  Https reads 500 bytes, and then Body.Close reads
\* the rest, but not of a body that the end of the connection ends.
ReadsToItsEnd == via = "http" \/ refusal = "framed"

\* Mutant: the connection to the proxy is left open.
refusalReadLeavesOpen ==
  /\ dial = "refused"
  /\ ReadsToItsEnd => refusal = "ends"
  /\ dial' = "err"
  /\ UNCHANGED <<via, socket, early, refusal>>

refusalRead ==
  /\ dial = "refused"
  /\ ReadsToItsEnd => refusal = "ends"
  /\ socket' = "closed"
  /\ dial' = "err"
  /\ UNCHANGED <<via, early, refusal>>

Next == connectDialContext \/ dialFails \/ dialed \/ accepted
        \/ unreadable \/ refused \/ refusalRead
-----------------------------------------------------------------------------
\* The dial is over: a connection that is open, or an error and none that is.
Settled == \/ dial = "ok" /\ socket = "open"
           \/ dial = "err" /\ socket # "open"

\* A refusal that is read to an end that does not come: nothing bounds that.
ReadsForEver == dial = "refused" /\ ReadsToItsEnd /\ refusal # "ends"
=============================================================================

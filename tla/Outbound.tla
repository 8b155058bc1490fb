------------------------------ MODULE Outbound ------------------------------
(***************************************************************************)
(* One outbound fetch: HttpFetcher.fetch_with_policy over ValidatedTransport. *)
(* The fetch follows redirects by hand; each hop is checked by the         *)
(* caller's policy and by a preflight name lookup, and the transport looks *)
(* the host up again when it opens a connection.  Names are looked up      *)
(* twice, so the answer may change between the check and the connect; and  *)
(* a connection kept alive is used again without any lookup.  The order of *)
(* the addresses in an answer is left open.                                *)
(***************************************************************************)
EXTENDS Integers, FiniteSets

CONSTANTS
  Hosts, Addresses,
  Blocked,       \* addresses an outbound fetch may not reach
  Targets,       \* URLs a fetch or a redirect can name, each with a host
  HostOf,
  Approved,      \* those the caller's policy accepts
  MaxRedirects,  \* FETCHER_HTTP_MAX_REDIRECTS
  Timeout,       \* connect timeout, in clock units
  None

ASSUME OutboundAssumption ==
  /\ IsFiniteSet(Addresses) /\ Blocked \subseteq Addresses
  /\ HostOf \in [Targets -> Hosts] /\ Approved \subseteq Targets
  /\ MaxRedirects \in Nat /\ Timeout \in Nat
  /\ None \notin Targets \cup Addresses

VARIABLES
  dns,       \* what a lookup of a host returns now
  pool,      \* kept-alive connections: the peer, or None
  pc, current, hop,  \* where the fetch is, its URL, the turn of its loop
  addresses, remaining,  \* connect_tcp: addresses left to try, time left
  peer,      \* the address the current request's connection goes to
  requested, \* URLs requested so far
  dialled    \* addresses dialled so far

connection == <<addresses, remaining, peer>>
outboundVars == <<dns, pool, pc, current, hop, connection, requested, dialled>>

Over == {"content", "error", "timeout"}
Goto(next) == pc' = next
\* resolve_allowed: the whole answer set must be usable.
ResolveAllowed(h) == dns[h] # {} /\ dns[h] \cap Blocked = {}

-----------------------------------------------------------------------------
Begin(u) ==
  /\ pc = "idle" /\ Goto("validate") /\ current' = u /\ hop' = 0
  /\ UNCHANGED <<dns, pool, connection, requested, dialled>>

\* The caller's policy, then the scheme and the preflight lookup.
Validate ==
  /\ pc = "validate"
  /\ Goto(IF current \in Approved /\ ResolveAllowed(HostOf[current]) THEN "connect" ELSE "error")
  /\ UNCHANGED <<dns, pool, current, hop, connection, requested, dialled>>

\* The pool has a connection to the host, or opens one.
Reuse ==
  /\ pc = "connect" /\ pool[HostOf[current]] # None
  /\ peer' = pool[HostOf[current]] /\ Goto("request")
  /\ UNCHANGED <<dns, pool, current, hop, addresses, remaining, requested, dialled>>

\* Mutant: the transport relies on the preflight check.
Connect_Unchecked ==
  /\ pc = "connect" /\ pool[HostOf[current]] = None
  /\ addresses' = dns[HostOf[current]] /\ remaining' = Timeout /\ Goto("dial")
  /\ UNCHANGED <<dns, pool, current, hop, peer, requested, dialled>>

\* connect_tcp looks the host up anew.
Connect ==
  LET h == HostOf[current] IN
  /\ pc = "connect" /\ pool[h] = None
  /\ IF ResolveAllowed(h)
     THEN addresses' = dns[h] /\ remaining' = Timeout /\ Goto("dial")
     ELSE Goto("error") /\ UNCHANGED <<addresses, remaining>>
  /\ UNCHANGED <<dns, pool, current, hop, peer, requested, dialled>>

\* One address after the other, within one deadline.
Dial(a, elapsed, accepted) ==
  /\ pc = "dial" /\ remaining > 0 /\ a \in addresses
  /\ dialled' = dialled \cup {a}
  /\ addresses' = addresses \ {a} /\ remaining' = remaining - elapsed
  /\ IF accepted
     THEN /\ peer' = a /\ pool' = [pool EXCEPT ![HostOf[current]] = a] /\ Goto("request")
     ELSE UNCHANGED <<peer, pool, pc>>
  /\ UNCHANGED <<dns, current, hop, requested>>
DialGivesUp ==
  /\ pc = "dial" /\ (remaining = 0 \/ addresses = {})
  /\ pc' \in IF remaining = 0 /\ addresses # {} THEN {"timeout"} ELSE {"error", "timeout"}
  /\ UNCHANGED <<dns, pool, current, hop, connection, requested, dialled>>

\* The response: an error status, a body over the cap, a broken connection or a
\* read timeout ...
Response(outcome) ==
  /\ pc = "request" /\ Goto(outcome)
  /\ requested' = requested \cup {current}
  /\ UNCHANGED <<dns, pool, current, hop, connection, dialled>>

\* Mutant: the loop has no bound.
Redirect_Unbounded(u) ==
  /\ pc = "request" /\ requested' = requested \cup {current}
  /\ current' = u /\ Goto("validate")
  /\ UNCHANGED <<dns, pool, hop, connection, dialled>>

\* ... or a redirect (without a Location it is an error).
Redirect(u) ==
  /\ pc = "request" /\ requested' = requested \cup {current}
  /\ IF u # None /\ hop < MaxRedirects
     THEN current' = u /\ hop' = hop + 1 /\ Goto("validate")
     ELSE Goto("error") /\ UNCHANGED <<current, hop>>
  /\ UNCHANGED <<dns, pool, connection, dialled>>

\* Names move, idle connections close.
DnsChanges(h, answer) ==
  /\ dns' = [dns EXCEPT ![h] = answer]
  /\ UNCHANGED <<pool, pc, current, hop, connection, requested, dialled>>
PoolCloses(h) ==
  /\ pc # "request" /\ pool' = [pool EXCEPT ![h] = None]
  /\ UNCHANGED <<dns, pc, current, hop, connection, requested, dialled>>

\* The caller has its result; the next fetch uses the same pool.
Finish ==
  /\ pc \in Over /\ Goto("idle") /\ current' = None /\ hop' = 0
  /\ addresses' = {} /\ remaining' = 0 /\ peer' = None
  /\ requested' = {} /\ dialled' = {}
  /\ UNCHANGED <<dns, pool>>

-----------------------------------------------------------------------------
OutboundInit ==
  /\ dns \in [Hosts -> SUBSET Addresses] /\ pool = [h \in Hosts |-> None]
  /\ pc = "idle" /\ current = None /\ hop = 0
  /\ addresses = {} /\ remaining = 0 /\ peer = None
  /\ requested = {} /\ dialled = {}

Step ==
  \/ Validate \/ Reuse \/ Connect \/ DialGivesUp \/ Finish
  \/ \E a \in Addresses, accepted \in BOOLEAN, elapsed \in 0..remaining : Dial(a, elapsed, accepted)
  \/ \E outcome \in Over : Response(outcome)
  \/ \E u \in Targets \cup {None} : Redirect(u)

OutboundNext ==
  \/ \E u \in Targets : Begin(u)
  \/ Step
  \/ \E h \in Hosts, answer \in SUBSET Addresses : DnsChanges(h, answer)
  \/ \E h \in Hosts : PoolCloses(h)

\* The thread runs, and sockets answer or time out.
OutboundSpec == OutboundInit /\ [][OutboundNext]_outboundVars /\ WF_outboundVars(Step)

-----------------------------------------------------------------------------
(* Properties *)

\* ADR-025 and "Every HTTP redirect must satisfy this policy before its target is
\* contacted": whatever a name resolved to at the check, and however it changes
\* before the connect or while a connection is kept alive, nothing is sent to an
\* address that was not in a validated answer, nor for a URL that is not approved.
EgressConfined ==
  /\ dialled \cap Blocked = {} /\ requested \subseteq Approved
  /\ pc = "request" => peer \in Addresses \ Blocked /\ current \in Approved
  /\ \A h \in Hosts : pool[h] \notin Blocked

\* A fetch ends, also when approved URLs redirect to each other for ever.
FetchEnds == pc # "idle" ~> pc = "idle"
=============================================================================

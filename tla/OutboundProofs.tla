--------------------------- MODULE OutboundProofs ---------------------------
(* Theorems about Outbound, for any hosts, addresses, policy and answers of DNS. *)
EXTENDS Outbound, TLAPS

-----------------------------------------------------------------------------
OutboundTypes ==
  /\ dns \in [Hosts -> SUBSET Addresses]
  /\ pool \in [Hosts -> Addresses \cup {None}]
  /\ pc \in {"idle", "validate", "connect", "dial", "request"} \cup Over
  /\ current \in Targets \cup {None}
  /\ pc \in {"validate", "connect", "dial", "request"} => current \in Targets
  /\ hop \in 0..MaxRedirects
  /\ addresses \subseteq Addresses

\* What makes EgressConfined inductive: a check made earlier is carried by what was
\* fetched with it.  The addresses left to dial come from one answer that passed as a
\* whole, a kept-alive peer was dialled from such an answer, and only the target that
\* passed the policy is past "validate".
EgressInv ==
  /\ OutboundTypes
  /\ addresses \cap Blocked = {}
  /\ pc \in {"connect", "dial", "request"} => current \in Approved
  /\ EgressConfined

\* Every step of a fetch, of DNS and of the pool keeps the invariant.
LEMMA EgressStep ==
  ASSUME EgressInv, [OutboundNext]_outboundVars
  PROVE  EgressInv'
<1> USE OutboundAssumption DEF EgressInv, OutboundTypes, EgressConfined, Over, Goto, connection
<1>1. ASSUME NEW u \in Targets, Begin(u)
      PROVE  EgressInv'
  BY <1>1 DEF Begin
<1>2. CASE Validate
  BY <1>2 DEF Validate
<1>3. CASE Reuse
  <2>1. HostOf[current] \in Hosts /\ pool[HostOf[current]] \in Addresses \ Blocked
    BY <1>3 DEF Reuse
  <2> QED
    BY <1>3, <2>1 DEF Reuse
<1>4. CASE Connect
  <2>1. HostOf[current] \in Hosts
    BY <1>4 DEF Connect
  <2> QED
    BY <1>4, <2>1 DEF Connect, ResolveAllowed
<1>5. CASE DialGivesUp
  BY <1>5 DEF DialGivesUp
<1>6. CASE Finish
  BY <1>6 DEF Finish
<1>7. ASSUME NEW a \in Addresses, NEW accepted \in BOOLEAN, NEW elapsed \in 0..remaining,
             Dial(a, elapsed, accepted)
      PROVE  EgressInv'
  <2>1. a \notin Blocked /\ HostOf[current] \in Hosts
    BY <1>7 DEF Dial
  <2>2. CASE accepted
    BY <1>7, <2>1, <2>2 DEF Dial
  <2>3. CASE ~accepted
    BY <1>7, <2>1, <2>3 DEF Dial
  <2> QED
    BY <2>2, <2>3
<1>8. ASSUME NEW outcome \in Over, Response(outcome)
      PROVE  EgressInv'
  BY <1>8 DEF Response
<1>9. ASSUME NEW u \in Targets \cup {None}, Redirect(u)
      PROVE  EgressInv'
  BY <1>9 DEF Redirect
<1>10. ASSUME NEW h \in Hosts, NEW answer \in SUBSET Addresses, DnsChanges(h, answer)
       PROVE  EgressInv'
  BY <1>10 DEF DnsChanges
<1>11. ASSUME NEW h \in Hosts, PoolCloses(h)
       PROVE  EgressInv'
  BY <1>11 DEF PoolCloses
<1>12. CASE UNCHANGED outboundVars
  BY <1>12 DEF outboundVars
<1> QED
  BY <1>1, <1>2, <1>3, <1>4, <1>5, <1>6, <1>7, <1>8, <1>9, <1>10, <1>11, <1>12
     DEF OutboundNext, Step

\* Whatever DNS answers and however it changes between the check, the connect and the
\* reuse of a connection, a fetch only reaches addresses and URLs that passed the check.
THEOREM EgressSafe == OutboundSpec => []EgressConfined
<1>1. OutboundInit => EgressInv
  BY OutboundAssumption DEF OutboundInit, EgressInv, OutboundTypes, EgressConfined, Over
<1>2. EgressInv /\ [OutboundNext]_outboundVars => EgressInv'
  BY EgressStep
<1>3. EgressInv => EgressConfined
  BY DEF EgressInv
<1> QED
  BY <1>1, <1>2, <1>3, PTL DEF OutboundSpec
=============================================================================

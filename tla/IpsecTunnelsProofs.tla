------------------------- MODULE IpsecTunnelsProofs -------------------------
(***************************************************************************)
(* Proofs about IpsecTunnels, for every list of peers and any number of    *)
(* cycles.  What the check of a service says follows from four facts kept  *)
(* by every step: which peers are printed, what the agent still knows of   *)
(* an undisturbed gateway, what the value store holds after a check that   *)
(* gave no result, and that results are those of the section that is there.*)
(***************************************************************************)
EXTENDS IpsecTunnels, SequenceTheorems, WellFoundedInduction, TLAPS

Peer == [name : STRING, local : STRING, remote : STRING]

\* Properties a configuration may have.
Complete(ps) == \A k \in DOMAIN ps : ps[k].local # Missing
OwnRemotes(ps) == \A k, m \in DOMAIN ps : ps[k].remote = ps[m].remote => k = m
OwnNames(ps) == \A k, m \in DOMAIN ps : ps[k].name = ps[m].name => k = m
OwnLocals(ps) == \A k, m \in DOMAIN ps : ps[k].local = ps[m].local => k = m
Apart(ps) == \A k, m \in DOMAIN ps : ps[k].local # ps[m].remote

\* The peers FetchPeers prints: those before the first without a local address.
BadRows == {k \in DOMAIN peers : peers[k].local = Missing}
Listed ==
    SubSeq(peers, 1, IF BadRows = {} THEN Len(peers)
                     ELSE (CHOOSE k \in BadRows : \A m \in BadRows : k <= m) - 1)

PeersPrinted == (phase # "peers" /\ aborted # "peers") => outPeers = Listed

\* Before the check no handler was entered; what an undisturbed, unfailing cycle has
\* read so far is what the gateway still holds; a row without an address is a failure.
SnapshotKept ==
    /\ phase \in {"peers", "addresses", "sas"} => aborted = "none"
    /\ (phase = "sas" /\ ~changed) => invips = invalid
    /\ (phase \in {"check", "end"} /\ ~changed /\ aborted = "none") =>
          invips = invalid /\ outSas = sas
    /\ (phase # "peers" /\ aborted = "none") => Complete(peers)

\* Associations belong to tunnels of configured peers.
SasOfTunnels == \A s \in sas : \E t \in Tunnels : s.src = t.src /\ s.dst = t.dst

\* A check that gave no result stored a counter more.
CountersKept ==
    \A name \in Items :
        /\ without[name] \in 0 .. 2
        /\ without[name] >= 1 => <<name, "in">> \in stored
        /\ without[name] = 2 => {<<name, "in">>, <<name, "out">>} \subseteq stored

\* Results are those of the section, or are missing for want of counters.
Judgement(name) == IF Found(name) = {} THEN "notfound" ELSE Status(name)
ResultsFresh ==
    phase = "end" => \A name \in Items :
        results[name] = Judgement(name) \/ results[name] = "ignored"

IInv ==
    TypeOK /\ PeersPrinted /\ SnapshotKept /\ SasOfTunnels /\ CountersKept /\ ResultsFresh

\* Items, tunnels and what is printed of the peers depend on the configuration alone.
LEMMA PeersAreFixed ==
    ASSUME peers' = peers
    PROVE  Items' = Items /\ Tunnels' = Tunnels /\ Listed' = Listed
  BY DEF Items, Tunnels, Listed, BadRows, PeersOf

\* A judgement depends on what was printed alone.
LEMMA JudgementIsFixed ==
    ASSUME outPeers' = outPeers, invips' = invips, outSas' = outSas
    PROVE  \A name : Judgement(name)' = Judgement(name)
  BY DEF Judgement, Status, Found, EntryOf, SasOf, Marked, Place, Remotes, Entry, Lines,
         LastOf, FirstOf, PeersOf

\* A set of positions has a first one.
LEMMA FirstExists ==
    ASSUME NEW n \in Nat, NEW S, S \subseteq 1 .. n, S # {}
    PROVE  \E k \in S : \A m \in S : k <= m
<1>1. S \subseteq Nat
  OBVIOUS
<1>2. PICK x \in S : \A y \in S : ~(<<y, x>> \in OpToRel(<, Nat))
  BY <1>1, NatLessThanWellFounded, WFMin
<1>3. ASSUME NEW m \in S PROVE x <= m
  <2>1. ~(m < x)
    BY <1>1, <1>2 DEF OpToRel
  <2> QED
    BY <1>1, <2>1
<1> QED
  BY <1>3

\* The states a printed peer can have.
LEMMA StatusRange ==
    \A name : Status(name) \in {"active", "badstate", "standby", "down"}
  BY DEF Status

-----------------------------------------------------------------------------
\* The initial states satisfy the invariant.
LEMMA InitInv == Init => IInv
<1> SUFFICES ASSUME Init PROVE IInv
  OBVIOUS
<1>1. TypeOK
  BY MaxCyclesAssumption DEF Init, TypeOK
<1>2. PeersPrinted /\ SnapshotKept /\ SasOfTunnels /\ CountersKept /\ ResultsFresh
  BY DEF Init, PeersPrinted, SnapshotKept, SasOfTunnels, CountersKept, ResultsFresh
<1> QED
  BY <1>1, <1>2 DEF IInv

\* Every variable keeps to its type.
LEMMA TypeStep == ASSUME TypeOK, [Next]_vars PROVE TypeOK'
<1>1. CASE GatewayChanges
  <2>1. UNCHANGED <<peers, phase, cycle, aborted, stored, results, without>>
    BY <1>1 DEF GatewayChanges
  <2>2. invalid' \subseteq {p.local : p \in PeersOf(peers)}
    BY <1>1 DEF GatewayChanges, TypeOK
  <2> QED
    BY <2>1, <2>2, PeersAreFixed DEF TypeOK, PeersOf
<1>2. CASE FetchPeers \/ FetchAddresses \/ FetchSas
  <2>1. /\ UNCHANGED <<peers, invalid, cycle, stored, results, without>>
        /\ phase' \in {"addresses", "sas", "check"}
        /\ aborted' = aborted \/ aborted' \in {"row", "peers", "addresses", "sas"}
    BY <1>2 DEF FetchPeers, FetchAddresses, FetchSas, Abort, gateway
  <2> QED
    BY <2>1, PeersAreFixed DEF TypeOK, PeersOf
<1>3. CASE Check
  <2>1. UNCHANGED <<peers, invalid, cycle, aborted>> /\ phase' = "end"
    BY <1>3 DEF Check, gateway
  <2>2. stored' \subseteq Items \X {"in", "out"}
    <3>1. \A name \in Items : Stores(name) \subseteq Items \X {"in", "out"}
      BY DEF Stores
    <3> QED
      BY <1>3, <3>1 DEF Check, TypeOK
  <2>3. \A name : Outcome(name) \in
            {"ignored", "notfound", "active", "badstate", "standby", "down"}
    BY StatusRange DEF Outcome
  <2>4. results' \in [Items -> {"ignored", "notfound", "active", "badstate", "standby", "down"}]
    BY <1>3, <2>3 DEF Check
  <2>5. without' \in [Items -> Nat]
    <3>1. \A name \in Items : without[name] \in Nat
      BY DEF TypeOK
    <3>2. \A name \in Items :
              without[name] + (IF Outcome(name) = "ignored" THEN 1 ELSE 0) \in Nat
      BY <3>1
    <3> QED
      BY <1>3, <3>2 DEF Check
  <2> QED
    BY <2>1, <2>2, <2>4, <2>5, PeersAreFixed DEF TypeOK, PeersOf
<1>4. CASE NextCycle
  <2>1. /\ UNCHANGED <<peers, invalid, stored, results, without>> /\ phase' = "peers"
        /\ cycle' \in 1 .. MaxCycles /\ aborted' = "none"
    BY <1>4, MaxCyclesAssumption DEF NextCycle, gateway, TypeOK
  <2> QED
    BY <2>1, PeersAreFixed DEF TypeOK, PeersOf
<1>5. CASE UNCHANGED vars
  BY <1>5, PeersAreFixed DEF vars, TypeOK, PeersOf
<1> QED
  BY <1>1, <1>2, <1>3, <1>4, <1>5 DEF Next, Monitoring

\* A gateway change touches nothing but associations and marks.
LEMMA GatewayStep == ASSUME IInv, GatewayChanges PROVE IInv'
<1>1. /\ phase \in {"peers", "addresses", "sas"} /\ changed' = (changed \/ phase # "peers")
      /\ UNCHANGED <<peers, phase, cycle, outPeers, invips, outSas, aborted, stored, results,
                     without>>
      /\ SaChanges \/ UNCHANGED sas
  BY DEF GatewayChanges
<1>2. TypeOK' /\ PeersPrinted' /\ CountersKept' /\ ResultsFresh'
  BY <1>1, TypeStep, PeersAreFixed DEF IInv, Next, PeersPrinted, CountersKept, ResultsFresh
<1>3. SnapshotKept'
  BY <1>1 DEF IInv, SnapshotKept
<1>4. SasOfTunnels'
  BY <1>1, PeersAreFixed DEF IInv, SasOfTunnels, SaChanges
<1> QED
  BY <1>2, <1>3, <1>4 DEF IInv

\* The calls of a cycle: the peers, then addresses and associations or an error.
LEMMA FetchStep == ASSUME IInv, FetchPeers \/ FetchAddresses \/ FetchSas PROVE IInv'
<1>1. UNCHANGED <<peers, invalid, sas, cycle, changed, stored, results, without>>
      /\ phase' \in {"addresses", "sas", "check"}
  BY DEF FetchPeers, FetchAddresses, FetchSas, Abort, gateway
<1>2. aborted' # "peers" => outPeers' = Listed
  BY DEF FetchPeers, FetchAddresses, FetchSas, Abort, IInv, PeersPrinted, SnapshotKept,
         Listed, BadRows
<1>3. TypeOK' /\ PeersPrinted' /\ SasOfTunnels' /\ CountersKept' /\ ResultsFresh'
  BY <1>1, <1>2, TypeStep, PeersAreFixed
     DEF IInv, Next, Monitoring, PeersPrinted, SasOfTunnels, CountersKept, ResultsFresh
<1>4. SnapshotKept'
  <2>1. (phase = "peers" /\ aborted' = "none") => Complete(peers)
    BY DEF FetchPeers, FetchAddresses, FetchSas, Abort, Complete
  <2>2. Complete(peers)' = Complete(peers)
    BY <1>1 DEF Complete
  <2> QED
    BY <1>1, <2>1, <2>2
       DEF IInv, SnapshotKept, FetchPeers, FetchAddresses, FetchSas, Abort
<1> QED
  BY <1>3, <1>4 DEF IInv

\* The check stores a counter more for every service it finds, and judges the
\* services that had both.
LEMMA CheckStep == ASSUME IInv, Check PROVE IInv'
<1>1. /\ UNCHANGED <<peers, invalid, sas, cycle, outPeers, invips, outSas, aborted, changed>>
      /\ phase = "check" /\ phase' = "end"
      /\ results' = [name \in Items |-> Outcome(name)]
      /\ stored' = stored \cup UNION {Stores(name) : name \in Items}
      /\ without' = [name \in Items |->
                       without[name] + IF Outcome(name) = "ignored" THEN 1 ELSE 0]
  BY DEF Check, gateway
<1>2. TypeOK' /\ PeersPrinted' /\ SnapshotKept' /\ SasOfTunnels'
  BY <1>1, TypeStep, PeersAreFixed
     DEF IInv, Next, Monitoring, PeersPrinted, SnapshotKept, SasOfTunnels
<1>3. CountersKept'
  <2> SUFFICES ASSUME NEW name \in Items
               PROVE  /\ without'[name] \in 0 .. 2
                      /\ without'[name] >= 1 => <<name, "in">> \in stored'
                      /\ without'[name] = 2 => {<<name, "in">>, <<name, "out">>} \subseteq stored'
    BY <1>1, PeersAreFixed DEF CountersKept
  <2>1. /\ without[name] \in 0 .. 2
        /\ without[name] >= 1 => <<name, "in">> \in stored
        /\ without[name] = 2 => {<<name, "in">>, <<name, "out">>} \subseteq stored
    BY DEF IInv, CountersKept
  <2>2. stored \subseteq stored' /\ Stores(name) \subseteq stored'
    BY <1>1
  <2>3. CASE Outcome(name) # "ignored"
    BY <1>1, <2>1, <2>2, <2>3
  <2>4. CASE Outcome(name) = "ignored"
    <3>1. Found(name) # {} /\ ~({<<name, "in">>, <<name, "out">>} \subseteq stored)
      BY <2>4, StatusRange DEF Outcome
    <3>2. without[name] \in {0, 1} /\ without'[name] = without[name] + 1
      BY <1>1, <2>1, <2>4, <3>1
    <3>3. <<name, "in">> \in stored'
      BY <2>2, <3>1 DEF Stores
    <3>4. CASE without[name] = 0
      BY <3>2, <3>3, <3>4
    <3>5. CASE without[name] = 1
      BY <2>1, <2>2, <3>1, <3>2, <3>3, <3>5 DEF Stores
    <3> QED
      BY <3>2, <3>4, <3>5
  <2> QED
    BY <2>3, <2>4
<1>4. \A name \in Items : results'[name] = Judgement(name) \/ results'[name] = "ignored"
  BY <1>1 DEF Outcome, Judgement
<1>5. ResultsFresh'
  BY <1>1, <1>4, PeersAreFixed, JudgementIsFixed DEF ResultsFresh
<1> QED
  BY <1>2, <1>3, <1>5 DEF IInv

\* The next cycle starts with what the last one stored.
LEMMA NextCycleStep == ASSUME IInv, NextCycle PROVE IInv'
<1>1. /\ UNCHANGED <<peers, invalid, sas, outPeers, invips, outSas, stored, results, without>>
      /\ phase = "end" /\ phase' = "peers" /\ aborted' = "none" /\ changed' = FALSE
  BY DEF NextCycle, gateway
<1>2. TypeOK' /\ CountersKept'
  BY <1>1, TypeStep, PeersAreFixed DEF IInv, Next, Monitoring, CountersKept
<1>3. PeersPrinted' /\ SnapshotKept' /\ SasOfTunnels' /\ ResultsFresh'
  BY <1>1, PeersAreFixed DEF IInv, PeersPrinted, SnapshotKept, SasOfTunnels, ResultsFresh
<1> QED
  BY <1>2, <1>3 DEF IInv

\* The invariant holds in every run.
LEMMA Invariance == Spec => []IInv
<1>1. ASSUME IInv, [Next]_vars PROVE IInv'
  <2>1. CASE UNCHANGED vars
    BY <1>1, <2>1, TypeStep, PeersAreFixed, JudgementIsFixed
       DEF IInv, vars, PeersPrinted, SnapshotKept, SasOfTunnels, CountersKept, ResultsFresh
  <2> QED
    BY <1>1, <2>1, GatewayStep, FetchStep, CheckStep, NextCycleStep DEF Next, Monitoring
<1> QED
  BY <1>1, InitInv, PTL DEF Spec

-----------------------------------------------------------------------------
\* A service exists for every peer that is listed: with remote addresses of their
\* own the section holds each listed peer, itself, at its own place.
LEMMA SectionOfOwnRemotes ==
    ASSUME TypeOK, PeersPrinted, phase = "end", aborted # "peers", Complete(peers),
           OwnRemotes(peers), NEW k \in DOMAIN peers
    PROVE  /\ Remotes = {peers[m].remote : m \in DOMAIN peers}
           /\ Entry(peers[k].remote) = peers[k]
           /\ Place(peers[k].remote) = k
<1>1. peers \in Seq(Peer) /\ DOMAIN peers \subseteq Nat
  BY PeerConfigsAssumption DEF TypeOK, Peer
<1>2. outPeers = peers
  <2>1. BadRows = {}
    BY DEF BadRows, Complete
  <2> QED
    BY <1>1, <2>1, SubSeqFull DEF PeersPrinted, Listed
<1>3. Lines(peers[k].remote) = {k}
  BY <1>2 DEF Lines, OwnRemotes
<1>4. LastOf({k}) = k /\ FirstOf({k}) = k
  BY <1>1 DEF LastOf, FirstOf
<1> QED
  BY <1>2, <1>3, <1>4 DEF Remotes, PeersOf, Entry, Place

\* With names of their own the check of a service finds the peer it was made for.
LEMMA FoundByOwnName ==
    ASSUME TypeOK, PeersPrinted, phase = "end", aborted # "peers", Complete(peers),
           OwnRemotes(peers), OwnNames(peers), NEW k \in DOMAIN peers
    PROVE  /\ Found(peers[k].name) = {peers[k].remote}
           /\ EntryOf(peers[k].name) = peers[k].remote
<1>1. Found(peers[k].name) = {peers[k].remote}
  BY SectionOfOwnRemotes DEF Found, OwnNames
<1>2. Place(peers[k].remote) \in Nat
  <2>1. DOMAIN peers \subseteq Nat
    BY PeerConfigsAssumption DEF TypeOK
  <2> QED
    BY <2>1, SectionOfOwnRemotes
<1> QED
  BY <1>1, <1>2 DEF EntryOf

\* When no address is both local and remote, an association in either direction
\* counts for the peer at its far end.
LEMMA BothDirectionsCount ==
    ASSUME IInv, Undisturbed, OwnRemotes(peers), Apart(peers), NEW k \in DOMAIN peers,
           NEW s \in sas, peers[k].remote \in {s.src, s.dst}
    PROVE  s \in SasOf(peers[k].remote)
<1>1. outSas = sas /\ Complete(peers)
  BY DEF IInv, SnapshotKept, Undisturbed
<1>2. Remotes = {peers[m].remote : m \in DOMAIN peers}
  BY <1>1, SectionOfOwnRemotes DEF IInv, Undisturbed
<1>3. PICK m \in DOMAIN peers :
          \/ s.src = peers[m].local /\ s.dst = peers[m].remote
          \/ s.src = peers[m].remote /\ s.dst = peers[m].local
  BY DEF IInv, SasOfTunnels, Tunnels, PeersOf
<1>4. s.src = peers[k].remote \/ (s.src \notin Remotes /\ s.dst = peers[k].remote)
  BY <1>2, <1>3 DEF Apart
<1> QED
  BY <1>1, <1>4 DEF SasOf

-----------------------------------------------------------------------------
\* Every variable stays within its range, for every list of peers.
THEOREM TypeCorrect == Spec => []TypeOK
  BY Invariance, PTL DEF IInv

\* A service is without a result at most twice, whatever failed before and between:
\* check_mikrotik_ipsec keeps the counter it met first.
THEOREM ResultsCome == Spec => []MissingAtMostTwice
<1>1. ASSUME IInv PROVE MissingAtMostTwice
  <2>1. \A name \in Items : without[name] \in 0 .. 2
    BY <1>1 DEF IInv, CountersKept
  <2> QED
    BY <2>1 DEF MissingAtMostTwice
<1> QED
  BY <1>1, Invariance, PTL

\* A call that fails behind the peers never takes a peer out of the section, if no two
\* peers share a remote address (of two the parser keeps one); a peer row without a
\* local address takes out itself and the peers behind it alone.
THEOREM PeersKeepTheirService ==
    ASSUME \A ps \in PeerConfigs : OwnRemotes(ps)
    PROVE  Spec => []OneServicePerPeer
<1>1. ASSUME IInv PROVE OneServicePerPeer
  <2> SUFFICES ASSUME phase = "end", aborted # "peers", NEW k \in DOMAIN peers,
                      \A m \in 1 .. k : peers[m].local # Missing
               PROVE  results[peers[k].name] # "notfound"
    BY DEF OneServicePerPeer
  <2>1. OwnRemotes(peers) /\ peers[k].name \in Items
    BY <1>1 DEF IInv, TypeOK, Items, PeersOf
  <2>2. peers \in Seq(Peer) /\ DOMAIN peers = 1 .. Len(peers) /\ Len(peers) \in Nat
    BY <1>1, PeerConfigsAssumption DEF IInv, TypeOK, Peer
  <2>3. PICK last \in k .. Len(peers) : outPeers = SubSeq(peers, 1, last)
    <3>1. outPeers = Listed
      BY <1>1 DEF IInv, PeersPrinted
    <3>2. CASE BadRows = {}
      <4>1. outPeers = SubSeq(peers, 1, Len(peers)) /\ Len(peers) \in k .. Len(peers)
        BY <2>2, <3>1, <3>2 DEF Listed
      <4> QED
        BY <4>1
    <3>3. CASE BadRows # {}
      <4>1. BadRows \subseteq 1 .. Len(peers)
        BY <2>2 DEF BadRows
      <4>2. PICK x \in BadRows : \A m \in BadRows : x <= m
        BY <2>2, <3>3, <4>1, FirstExists
      <4> DEFINE first == CHOOSE x2 \in BadRows : \A m \in BadRows : x2 <= m
      <4>3. first \in BadRows
        BY <4>2
      <4>4. outPeers = SubSeq(peers, 1, first - 1)
        BY <3>1, <3>3 DEF Listed
      <4> HIDE DEF first
      <4>5. first \in 1 .. Len(peers) /\ peers[first].local = Missing
        BY <2>2, <4>3 DEF BadRows
      <4>6. ~(first <= k)
        BY <2>2, <4>5
      <4>7. first - 1 \in k .. Len(peers)
        BY <2>2, <4>5, <4>6
      <4> QED
        BY <4>4, <4>7
    <3> QED
      BY <3>2, <3>3
  <2>4. /\ DOMAIN outPeers = 1 .. last /\ k \in 1 .. last
        /\ \A m \in 1 .. last : outPeers[m] = peers[m]
    <3>1. last \in 1 .. Len(peers) /\ k \in 1 .. last
      BY <2>2
    <3>2. /\ outPeers \in Seq(Peer) /\ Len(outPeers) = last
          /\ \A m \in 1 .. last : outPeers[m] = peers[m]
      BY <2>2, <2>3, <3>1, SubSeqProperties
    <3> QED
      BY <3>1, <3>2
  <2>5. Lines(peers[k].remote) = {k}
    BY <2>1, <2>2, <2>4 DEF Lines, OwnRemotes
  <2>6. LastOf({k}) = k
    BY <2>2 DEF LastOf
  <2>7. Entry(peers[k].remote) = peers[k] /\ peers[k].remote \in Remotes
    BY <2>4, <2>5, <2>6 DEF Entry, Remotes, PeersOf
  <2>8. peers[k].remote \in Found(peers[k].name)
    BY <2>7 DEF Found
  <2> QED
    BY <1>1, <2>1, <2>8, StatusRange DEF IInv, ResultsFresh, Judgement
<1> QED
  BY <1>1, Invariance, PTL

\* A tunnel whose association is in a bad state, in or out, is CRIT, if the
\* peers can be told apart by remote address and by name and no address is local to
\* one peer and remote to another.
THEOREM BadStatesAreReported ==
    ASSUME \A ps \in PeerConfigs : OwnRemotes(ps) /\ OwnNames(ps) /\ Apart(ps)
    PROVE  Spec => []BadStateIsReported
<1>1. ASSUME IInv PROVE BadStateIsReported
  <2> SUFFICES ASSUME Undisturbed, NEW k \in DOMAIN peers, Judged(peers[k]),
                      NEW s \in sas, peers[k].remote \in {s.src, s.dst},
                      s.state \notin OkStates
               PROVE  results[peers[k].name] = "badstate"
    BY DEF BadStateIsReported, HasBadSa, StateOf, PeersOf
  <2>1. /\ OwnRemotes(peers) /\ OwnNames(peers) /\ Apart(peers) /\ Complete(peers)
        /\ peers[k].name \in Items
    BY <1>1 DEF IInv, TypeOK, SnapshotKept, Undisturbed, Items, PeersOf
  <2>2. s \in SasOf(peers[k].remote)
    BY <1>1, <2>1, BothDirectionsCount
  <2>3. /\ Found(peers[k].name) = {peers[k].remote}
        /\ EntryOf(peers[k].name) = peers[k].remote
    BY <1>1, <2>1, FoundByOwnName DEF IInv, Undisturbed
  <2>4. Status(peers[k].name) = "badstate"
    BY <2>2, <2>3 DEF Status
  <2>5. results[peers[k].name] = Judgement(peers[k].name)
    BY <1>1, <2>1 DEF IInv, ResultsFresh, Judged, Undisturbed
  <2> QED
    BY <2>3, <2>4, <2>5 DEF Judgement
<1> QED
  BY <1>1, Invariance, PTL

\* A tunnel reported down is down, if in addition no two peers share a local address
\* (an invip line marks only the first of those that do).
THEOREM DownMeansDown ==
    ASSUME \A ps \in PeerConfigs :
               OwnRemotes(ps) /\ OwnNames(ps) /\ OwnLocals(ps) /\ Apart(ps)
    PROVE  Spec => []DownIsReal
<1>1. ASSUME IInv PROVE DownIsReal
  <2> SUFFICES ASSUME Undisturbed, NEW k \in DOMAIN peers,
                      results[peers[k].name] = "down"
               PROVE  ~HasSa(peers[k]) /\ peers[k].local \notin invalid
    BY DEF DownIsReal, PeersOf
  <2>1. /\ OwnRemotes(peers) /\ OwnNames(peers) /\ OwnLocals(peers) /\ Apart(peers)
        /\ Complete(peers) /\ peers[k].name \in Items /\ phase = "end"
        /\ aborted # "peers"
    BY <1>1 DEF IInv, TypeOK, SnapshotKept, Undisturbed, Items, PeersOf
  <2> DEFINE r == peers[k].remote
  <2>2. Found(peers[k].name) = {r} /\ EntryOf(peers[k].name) = r
    BY <1>1, <2>1, FoundByOwnName DEF IInv
  <2>3. results[peers[k].name] = Judgement(peers[k].name)
    BY <1>1, <2>1 DEF IInv, ResultsFresh
  <2>4. SasOf(r) = {} /\ ~Marked(r)
    BY <2>2, <2>3 DEF Judgement, Status
  <2>5. ~HasSa(peers[k])
    BY <1>1, <2>1, <2>4, BothDirectionsCount DEF HasSa
  <2>6. /\ Remotes = {peers[m].remote : m \in DOMAIN peers}
        /\ \A m \in DOMAIN peers : /\ Entry(peers[m].remote) = peers[m]
                                   /\ Place(peers[m].remote) = m
    BY <1>1, <2>1, SectionOfOwnRemotes DEF IInv
  <2>7. k \in Nat
    BY <1>1, PeerConfigsAssumption DEF IInv, TypeOK
  <2>8. \A q \in Remotes : Entry(q).local = Entry(r).local => Place(r) <= Place(q)
    BY <2>1, <2>6, <2>7 DEF OwnLocals
  <2>9. peers[k].local \notin invips
    BY <2>4, <2>6, <2>8 DEF Marked
  <2> QED
    BY <1>1, <2>5, <2>9 DEF IInv, SnapshotKept, Undisturbed
<1> QED
  BY <1>1, Invariance, PTL

\* The promise of the manual page about invalid addresses holds under the same
\* conditions; with a local address of two peers it fails (MCIpsecShared).
THEOREM InvalidAddressIsStandby ==
    ASSUME \A ps \in PeerConfigs :
               OwnRemotes(ps) /\ OwnNames(ps) /\ OwnLocals(ps) /\ Apart(ps)
    PROVE  Spec => []StandbyIsOk
<1>1. ASSUME IInv PROVE StandbyIsOk
  <2> SUFFICES ASSUME Undisturbed, NEW k \in DOMAIN peers, Judged(peers[k]),
                      peers[k].local \in invalid, ~HasSa(peers[k])
               PROVE  results[peers[k].name] = "standby"
    BY DEF StandbyIsOk, PeersOf
  <2>1. /\ OwnRemotes(peers) /\ OwnNames(peers) /\ OwnLocals(peers)
        /\ Complete(peers) /\ peers[k].name \in Items /\ phase = "end"
        /\ aborted # "peers"
        /\ invips = invalid /\ outSas = sas
    BY <1>1 DEF IInv, TypeOK, SnapshotKept, Undisturbed, Items, PeersOf
  <2> DEFINE r == peers[k].remote
  <2>2. Found(peers[k].name) = {r} /\ EntryOf(peers[k].name) = r
    BY <1>1, <2>1, FoundByOwnName DEF IInv
  <2>3. SasOf(r) = {}
    BY <2>1 DEF SasOf, HasSa
  <2>4. /\ Remotes = {peers[m].remote : m \in DOMAIN peers}
        /\ \A m \in DOMAIN peers : /\ Entry(peers[m].remote) = peers[m]
                                   /\ Place(peers[m].remote) = m
    BY <1>1, <2>1, SectionOfOwnRemotes DEF IInv
  <2>5. k \in Nat
    BY <1>1, PeerConfigsAssumption DEF IInv, TypeOK
  <2>6. Marked(r)
    BY <2>1, <2>4, <2>5 DEF Marked, OwnLocals
  <2>7. results[peers[k].name] = Judgement(peers[k].name)
    BY <1>1, <2>1 DEF IInv, ResultsFresh, Judged
  <2> QED
    BY <2>2, <2>3, <2>6, <2>7 DEF Judgement, Status
<1> QED
  BY <1>1, Invariance, PTL
=============================================================================

---------------------------- MODULE IpsecTunnels ----------------------------
(***************************************************************************)
(* From the IPsec state of a gateway to its "IPsec" check services, over   *)
(* several check cycles.  In each cycle the agent asks for the peers, the  *)
(* addresses and the security associations in three calls; the gateway may *)
(* fail over, set up or drop tunnels between them, and any of the calls    *)
(* may fail inside a handler that keeps what was printed before.  The      *)
(* check computes rates from counters it stored a cycle ago.               *)
(***************************************************************************)
EXTENDS Naturals, Sequences, FiniteSets

CONSTANTS
    PeerConfigs,  \* configurations: sequences of [name, local, remote]
    MaxCycles     \* bound on the check cycles

ASSUME PeerConfigsAssumption ==
    PeerConfigs \subseteq Seq([name : STRING, local : STRING, remote : STRING])
ASSUME MaxCyclesAssumption == MaxCycles \in Nat \ {0}

Missing == "missing"           \* a peer row without local-address
OkStates == {"dying", "mature"}

VARIABLES
    peers,    \* the gateway: configured peers
    invalid,  \* the gateway: local addresses marked invalid
    sas,      \* the gateway: security associations [src, dst, state]
    phase,    \* "peers", "addresses", "sas", "check", "end"
    cycle,    \* number of the check cycle
    outPeers, \* the agent: peers printed
    invips,   \* the agent: invalid addresses printed
    outSas,   \* the agent: associations printed
    aborted,  \* the agent: what led to the handler for any error, or "none"
    changed,  \* the gateway changed while the agent was asking
    stored,   \* the check: keys of the value store
    results,  \* the check: peer name -> outcome of this cycle
    without   \* peer name -> number of checks that gave no result

vars == <<peers, invalid, sas, phase, cycle, outPeers, invips, outSas, aborted,
          changed, stored, results, without>>

gateway == <<peers, invalid, sas>>

PeersOf(ps) == {ps[k] : k \in DOMAIN ps}

\* A tunnel has one association per direction.
Tunnels ==
    {[src |-> p.local, dst |-> p.remote] : p \in {q \in PeersOf(peers) : q.local # Missing}}
    \cup {[src |-> p.remote, dst |-> p.local] : p \in {q \in PeersOf(peers) : q.local # Missing}}

-----------------------------------------------------------------------------
(* The gateway.                                                            *)

\* An association is set up, ages, or is dropped.
SaChanges ==
    \E t \in Tunnels :
        LET own == {s \in sas : s.src = t.src /\ s.dst = t.dst} IN
        \/ \E state \in {"mature", "larval"} :
              sas' = (sas \ own) \cup {[src |-> t.src, dst |-> t.dst, state |-> state]}
        \/ sas' = sas \ own

GatewayChanges ==
    /\ phase \in {"peers", "addresses", "sas"}
    /\ \/ SaChanges /\ UNCHANGED invalid
       \/ \E p \in PeersOf(peers) :
            /\ p.local # Missing
            /\ invalid' = IF p.local \in invalid THEN invalid \ {p.local}
                                                 ELSE invalid \cup {p.local}
            /\ UNCHANGED sas
    /\ changed' = (changed \/ phase # "peers")
    /\ UNCHANGED <<peers, phase, cycle, outPeers, invips, outSas, aborted, stored, results,
                   without>>

-----------------------------------------------------------------------------
(* The agent.                                                              *)

\* Leaving the block for an error prints the end of the section; what was printed
\* before stays.
Abort(why) == aborted' = why /\ phase' = "check"

\* The peer lines.  A row without local-address ends the block (KeyError), and so does
\* an error in place of the peers: it is a row too, without any of the keys.
FetchPeers ==
    /\ phase = "peers" /\ peers # <<>>
    /\ LET bad == {k \in DOMAIN peers : peers[k].local = Missing}
           last == IF bad = {} THEN Len(peers)
                   ELSE (CHOOSE k \in bad : \A m \in bad : k <= m) - 1
       IN \/ /\ outPeers' = SubSeq(peers, 1, last)
             /\ IF bad = {} THEN phase' = "addresses" /\ UNCHANGED aborted ELSE Abort("row")
          \/ outPeers' = <<>> /\ Abort("peers")
    /\ invips' = {} /\ outSas' = {}
    /\ UNCHANGED <<gateway, cycle, changed, stored, results, without>>

\* Faulty variant: an error discards what was printed before.
FetchAddressesOrNothing ==
    /\ phase = "addresses"
    /\ \/ invips' = invalid /\ phase' = "sas" /\ UNCHANGED <<aborted, outPeers>>
       \/ outPeers' = <<>> /\ UNCHANGED invips /\ Abort("addresses")
    /\ UNCHANGED <<gateway, cycle, outSas, changed, stored, results, without>>

\* The invalid addresses; an exception or an error row ends the block.
FetchAddresses ==
    /\ phase = "addresses"
    /\ \/ invips' = invalid /\ phase' = "sas" /\ UNCHANGED aborted
       \/ UNCHANGED invips /\ Abort("addresses")
    /\ UNCHANGED <<gateway, cycle, outPeers, outSas, changed, stored, results, without>>

\* The associations; an exception or an error row ends the block.
FetchSas ==
    /\ phase = "sas"
    /\ \/ outSas' = sas /\ phase' = "check" /\ UNCHANGED aborted
       \/ UNCHANGED outSas /\ Abort("sas")
    /\ UNCHANGED <<gateway, cycle, outPeers, invips, changed, stored, results, without>>

-----------------------------------------------------------------------------
(* The check: parse_mikrotik_ipsec.  The section is a dict by remote       *)
(* address: a later peer of the same remote takes the place of the first.  *)

Remotes == {p.remote : p \in PeersOf(outPeers)}
LastOf(set) == CHOOSE k \in set : \A m \in set : m <= k
FirstOf(set) == CHOOSE k \in set : \A m \in set : k <= m
Lines(remote) == {k \in DOMAIN outPeers : outPeers[k].remote = remote}
Entry(remote) == outPeers[LastOf(Lines(remote))]

\* Position of an entry in the dict: where its key came first.
Place(remote) == FirstOf(Lines(remote))

\* An invip line marks the first entry with that local address and stops there.
Marked(remote) ==
    /\ Entry(remote).local \in invips
    /\ \A r \in Remotes :
         Entry(r).local = Entry(remote).local => Place(remote) <= Place(r)

\* Faulty variant: associations towards a remote are not counted.
SasFromOnly(remote) == {s \in outSas : s.src = remote}

\* An association counts for its source if that is a remote, else for its destination.
SasOf(remote) ==
    {s \in outSas : s.src = remote \/ (s.src \notin Remotes /\ s.dst = remote)}

\* The entry the check finds for an item: the first with that peer name.
Found(name) == {r \in Remotes : Entry(r).name = name}
EntryOf(name) == CHOOSE r \in Found(name) : \A q \in Found(name) : Place(r) <= Place(q)

\* Faulty variant: one association in a good state is enough.
StatusOneIsEnough(name) ==
    LET r == EntryOf(name) IN
    CASE SasOf(r) # {} ->
            IF {s.state : s \in SasOf(r)} \cap OkStates # {} THEN "active" ELSE "badstate"
      [] SasOf(r) = {} /\ Marked(r) -> "standby"
      [] OTHER -> "down"

Status(name) ==
    LET r == EntryOf(name) IN
    CASE SasOf(r) # {} ->
            IF {s.state : s \in SasOf(r)} \subseteq OkStates THEN "active" ELSE "badstate"
      [] SasOf(r) = {} /\ Marked(r) -> "standby"
      [] OTHER -> "down"

\* check_mikrotik_ipsec of one service.  get_rate stores a counter and raises
\* (no result in this cycle) when it has no earlier one; in before out.
Outcome(name) ==
    CASE Found(name) = {} -> "notfound"
      [] Found(name) # {} /\ {<<name, "in">>, <<name, "out">>} \subseteq stored -> Status(name)
      [] OTHER -> "ignored"

\* Faulty variants: one key for both counters; a first counter value is not kept.
StoresOneKey(name) == IF Found(name) = {} THEN {} ELSE {<<name, "bytes">>}
StoresNoFirst(name) == {k \in stored : k[1] = name}

Stores(name) ==
    IF Found(name) = {} THEN {}
    ELSE IF <<name, "in">> \in stored THEN {<<name, "in">>, <<name, "out">>}
    ELSE {<<name, "in">>}

Items == {p.name : p \in PeersOf(peers)}

Check ==
    /\ phase = "check"
    /\ results' = [name \in Items |-> Outcome(name)]
    /\ stored' = stored \cup UNION {Stores(name) : name \in Items}
    /\ without' = [name \in Items |->
                     without[name] + IF Outcome(name) = "ignored" THEN 1 ELSE 0]
    /\ phase' = "end"
    /\ UNCHANGED <<gateway, cycle, outPeers, invips, outSas, aborted, changed>>

NextCycle ==
    /\ phase = "end" /\ cycle < MaxCycles
    /\ cycle' = cycle + 1 /\ phase' = "peers"
    /\ aborted' = "none" /\ changed' = FALSE
    /\ UNCHANGED <<gateway, outPeers, invips, outSas, stored, results, without>>

-----------------------------------------------------------------------------
Init ==
    /\ peers \in PeerConfigs
    /\ invalid \in SUBSET ({p.local : p \in PeersOf(peers)} \ {Missing})
    /\ sas = {}
    /\ phase = "peers" /\ cycle = 1
    /\ outPeers = <<>> /\ invips = {} /\ outSas = {}
    /\ aborted = "none" /\ changed = FALSE
    /\ stored = {} /\ results = [name \in Items |-> "ignored"]
    /\ without = [name \in Items |-> 0]

Monitoring == FetchPeers \/ FetchAddresses \/ FetchSas \/ Check \/ NextCycle

Next == GatewayChanges \/ Monitoring

Spec == Init /\ [][Next]_vars

-----------------------------------------------------------------------------
Undisturbed == phase = "end" /\ aborted = "none" /\ ~changed
HasSa(p) == \E s \in sas : p.remote \in {s.src, s.dst}
Judged(p) == results[p.name] # "ignored"
HasBadSa(p) == \E s \in sas : p.remote \in {s.src, s.dst} /\ s.state \notin OkStates

\* The state of the service: the worst of the results the check yields.
StateOf(p) ==
    CASE results[p.name] \in {"active", "standby"} -> "OK"
      [] results[p.name] \in {"badstate", "down"} -> "CRIT"
      [] results[p.name] = "notfound"             -> "UNKNOWN"
      [] OTHER                                    -> "pending"

\* Every variable stays within its range.
TypeOK ==
    /\ peers \in PeerConfigs
    /\ phase \in {"peers", "addresses", "sas", "check", "end"}
    /\ cycle \in 1 .. MaxCycles
    /\ invalid \subseteq {p.local : p \in PeersOf(peers)}
    /\ stored \subseteq Items \X {"in", "out"}
    /\ aborted \in {"none", "row", "peers", "addresses", "sas"}
    /\ results \in [Items -> {"ignored", "notfound", "active", "badstate", "standby", "down"}]
    /\ without \in [Items -> Nat]

\* A tunnel is reported down only if it has no association and its local address is
\* valid, provided the three calls saw one and the same state of the gateway: what
\* a failed call or a failover between two calls leaves out are the only false alarms.
DownIsReal ==
    Undisturbed => \A p \in PeersOf(peers) :
        results[p.name] = "down" => ~HasSa(p) /\ p.local \notin invalid

\* checkman/mikrotik_ipsec: "It stays OK if an ipsec has no sa, but local IP address
\* is marked invalid."
StandbyIsOk ==
    Undisturbed => \A p \in PeersOf(peers) :
        (Judged(p) /\ p.local \in invalid /\ ~HasSa(p)) => results[p.name] = "standby"

\* checkman/mikrotik_ipsec: "sa states not 'mature' or 'dying' will go CRIT", whether
\* the association is the inbound or the outbound one.
BadStateIsReported ==
    Undisturbed => \A p \in PeersOf(peers) :
        (Judged(p) /\ HasBadSa(p)) => StateOf(p) = "CRIT"

\* rulesets/mikrotik_checks.py:260: "Any SA state not in this list will result in a
\* WARN."
BadStateIsWarn ==
    Undisturbed => \A p \in PeersOf(peers) :
        (Judged(p) /\ HasBadSa(p)) => StateOf(p) = "WARN"

\* checkman/mikrotik_ipsec: "one service per ipsec": a call that fails behind the peers,
\* or the row of another peer without a local address, never takes a peer printed
\* before it out of the section.
OneServicePerPeer ==
    (phase = "end" /\ aborted # "peers") => \A k \in DOMAIN peers :
        (\A m \in 1 .. k : peers[m].local # Missing) =>
            results[peers[k].name] # "notfound"

\* A service is without a result in two checks at most: one for want of the first, one
\* for want of the second counter, whatever cycles without a section lie between.
MissingAtMostTwice == \A name \in Items : without[name] <= 2
=============================================================================

---------------------------- MODULE WireGuardPeers --------------------------
(***************************************************************************)
(* "WireGuard" services: one call, an item made of comment, name or key,   *)
(* and two counters kept in the value store.  The value of a counter is    *)
(* reduced to the key of the peer it belongs to.                           *)
(***************************************************************************)
EXTENDS CheckApi

\* A duration: numbers with units, a clock h:m:s at the end or none, other text or not.
Duration(parts, clock, rest) == [parts |-> parts, clock |-> clock, rest |-> rest]

Never == Duration(<<>>, <<>>, FALSE)
Recent == Duration(<<<<4, "m">>, <<59, "s">>>>, <<>>, FALSE)
Late == Duration(<<>>, <<0, 5, 0>>, FALSE)
Old == Duration(<<<<1, "d">>>>, <<0, 0, 1>>, FALSE)
Handshakes == {Never, Recent, Late, Old}

\* "counted" are the directions for which the device reports a number of bytes.
WireguardRow(comment, name, key, disabled, handshake, counted) ==
    [comment |-> comment, name |-> name, key |-> key, disabled |-> disabled,
     handshake |-> handshake, counted |-> counted]

WireguardRowsWith(names, key, handshakes, counted) ==
    {WireguardRow(n[1], n[2], key, disabled, h, counted) :
        n \in names, disabled \in BOOLEAN, h \in handshakes}

\* Peers with a comment of their own or a shared one, or only a key; the second one
\* counts nothing that goes out.
WireguardDevices ==
    UpToTwo(WireguardRowsWith({<<"office", "p1">>, <<"", "p1">>}, "k1", Handshakes, {"in", "out"}),
            WireguardRowsWith({<<"office", "p2">>, <<"", "">>}, "k2", {Never, Recent}, {"in"}))

PeerItem(row) ==
    CASE row.comment # "" -> row.comment
      [] row.comment = "" /\ row.name # "" -> row.name
      [] OTHER -> row.key

WireguardUnit == [w |-> 604800, d |-> 86400, h |-> 3600, m |-> 60, s |-> 1]

\* Numbers in their units and a clock, in seconds.
WireguardClockSeconds(clock) ==
    IF clock = <<>> THEN 0 ELSE 3600 * clock[1] + 60 * clock[2] + clock[3]

WireguardInSeconds(parts, start) ==
    FoldLeft(LAMBDA sum, part : sum + part[1] * WireguardUnit[part[2]], start, parts)

\* Faulty variant: a clock is all there is of a duration with one.
ParseClockOnly(text) ==
    CASE text = Never \/ text.rest -> {}
      [] text # Never /\ ~text.rest /\ text.clock # <<>> -> {WireguardClockSeconds(text.clock)}
      [] OTHER -> {WireguardInSeconds(text.parts, 0)}

\* parse_duration: the seconds, or nothing for an empty or another text.
ParseDuration(text) ==
    IF text = Never \/ text.rest THEN {}
    ELSE {WireguardInSeconds(text.parts, WireguardClockSeconds(text.clock))}

\* parse_mikrotik_wireguard: of peers with the same item the first.
WireguardSection(asked) ==
    LET rows == RowsOf(asked.print)
        first(item) == rows[Min({k \in DOMAIN rows : PeerItem(rows[k]) = item})]
    IN IF rows = <<>> THEN <<>>
       ELSE <<[item \in {PeerItem(r) : r \in ToSet(rows)} |->
                 [disabled |-> first(item).disabled, bytes |-> first(item).key,
                  counted |-> first(item).counted,
                  last_handshake |-> ParseDuration(first(item).handshake)]]>>

WireguardDiscovered(section) == {item \in DOMAIN section : ~section[item].disabled}

WireguardDefaults ==
    [handshake_age |-> Fixed(300, 900), no_handshake_state |-> "CRIT", disabled_state |-> "WARN"]

\* The counters written for an item, those with a number; an earlier value that is
\* missing costs only the metric of that direction.
WireguardStores(item, section) ==
    IF item \in DOMAIN section /\ ~section[item].disabled
    THEN [c \in {<<item, way>> : way \in section[item].counted} |-> section[item].bytes]
    ELSE NoFields

\* A peer that is gone yields nothing.
WireguardCheck(item, rule, section) ==
    LET p == Params(rule, WireguardDefaults)
        peer == section[item]
    IN CASE item \notin DOMAIN section -> Worst({})
         [] item \in DOMAIN section /\ peer.disabled -> p.disabled_state
         [] item \in DOMAIN section /\ ~peer.disabled /\ peer.last_handshake = {} ->
                p.no_handshake_state
         [] OTHER -> Upper(CHOOSE n \in peer.last_handshake : TRUE, p.handshake_age)
=============================================================================

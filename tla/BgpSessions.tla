---------------------------- MODULE BgpSessions -----------------------------
(***************************************************************************)
(* From the BGP configuration of a device to the state of its "BGP" check  *)
(* services.  On RouterOS 7 the agent asks for the connections and then,   *)
(* in a second call, for the sessions, and copies the established flag of  *)
(* every session whose name begins with the name of a connection into that *)
(* connection's row, removing the session from the list it is iterating    *)
(* over.  The device goes on between the two calls.                        *)
(*                                                                         *)
(* A name is a sequence of characters.  RouterOS derives the name of a     *)
(* session from its connection's by a suffix ("-1", "-2", ...).  The flag  *)
(* established is "true" in the row of an established session and missing  *)
(* ("none") otherwise.  Either call may be answered by an error instead,   *)
(* which the agent takes for one more row, without a name.                 *)
(***************************************************************************)
EXTENDS Naturals, SequencesExt

CONSTANTS
    Names,        \* names connections may have
    Endings,      \* what RouterOS appends for a session (a character each)
    MaxConns,     \* bound on the connections of the device
    MaxSessions,  \* bound on the sessions of the device
    Versions      \* major versions as reported, subset of {"6", "7", "8"}

ASSUME NamesAssumption == Names \subseteq Seq(STRING) \ {<<>>}
ASSUME EndingsAssumption == Endings \subseteq STRING
ASSUME BoundsAssumption == MaxConns \in Nat /\ MaxSessions \in Nat

VARIABLES
    version,   \* first part of the version the device reported
    conns,     \* the device: its connections [name, disabled]
    sess,      \* the device: its sessions [conn, suffix, established]
    phase,     \* "connections", "sessions", "inject", "publish", "done"
    out,       \* the agent: rows of the first call [name, established], or the error
    bgpout,    \* the agent: rows of the second call that are left
    i, j,      \* positions of the outer and the inner loop
    seen,      \* the sessions the second call has told the agent of
    section    \* the check: item -> established, as parsed

vars == <<version, conns, sess, phase, out, bgpout, i, j, seen, section>>

Space == " "
Nameless == <<>>
Flags == {"true", "false", "none"}
SessionName(s) == s.conn \o <<s.suffix>>

NamesOf(cs) == {cs[k].name : k \in DOMAIN cs}
SessionsOf(s, name) == {k \in DOMAIN s : s[k].conn = name}

\* A connection that is not disabled may have any number of sessions.
Connections == [name : Names, disabled : BOOLEAN]
Sessions(cs) ==
    [conn : {cs[k].name : k \in {m \in DOMAIN cs : ~cs[m].disabled}},
     suffix : Endings, established : {"true", "none"}]
Distinct(s, key(_)) == \A k, m \in DOMAIN s : key(s[k]) = key(s[m]) => k = m

-----------------------------------------------------------------------------
(* The device.                                                             *)

\* A session comes up or goes down, or disappears from the list.
SessionChanges ==
    /\ phase \in {"connections", "sessions"}
    /\ \E k \in DOMAIN sess :
        \/ \E flag \in {"true", "none"} \ {sess[k].established} :
              sess' = [sess EXCEPT ![k].established = flag]
        \/ sess' = RemoveAt(sess, k)
    /\ UNCHANGED <<version, conns, phase, out, bgpout, i, j, seen, section>>

-----------------------------------------------------------------------------
(* The agent.                                                              *)

\* RouterOS 6 reports the flag with the peer itself.
PeerFlag(name) ==
    IF \E k \in SessionsOf(sess, name) : sess[k].established = "true"
    THEN "true" ELSE "false"

\* An error, as myapi hands it on: a row with a message, and without a name or a flag.
ErrorRow == [name |-> Nameless, established |-> "none"]

\* The first call: the connections, or an error.  Without any row the section is not
\* printed at all; the error is a row, so the second call is made behind it too.
FetchConnections ==
    /\ phase = "connections"
    /\ \/ out' = [k \in DOMAIN conns |->
                    [name |-> conns[k].name,
                     established |-> IF version = "6" THEN PeerFlag(conns[k].name) ELSE "none"]]
       \/ out' = <<ErrorRow>>
    /\ phase' = CASE out' = <<>>                    -> "done"
                  [] out' # <<>> /\ version = "7"  -> "sessions"
                  [] OTHER                         -> "publish"
    /\ UNCHANGED <<version, conns, sess, bgpout, i, j, seen, section>>

\* The second call: the sessions, or an error.
FetchSessions ==
    /\ phase = "sessions"
    /\ \/ /\ bgpout' = [k \in DOMAIN sess |-> [name |-> SessionName(sess[k]),
                                               established |-> sess[k].established]]
          /\ seen' = sess
       \/ bgpout' = <<ErrorRow>> /\ seen' = <<>>
    /\ i' = 1 /\ j' = 1 /\ phase' = "inject"
    /\ UNCHANGED <<version, conns, sess, out, section>>

\* The row at the position belongs to the connection there, as the loop decides it.
Matches == IsPrefix(out[i].name, bgpout[j].name)
\* Either of the two has no name: a KeyError.
NameMissing == Nameless \in {out[i].name, bgpout[j].name}

\* Faulty variants of a round: a missing flag, in an error row too, counts as
\* established; the names are compared the wrong way round.
Round(matches, flag) ==
    /\ phase = "inject" /\ i <= Len(out) /\ j <= Len(bgpout)
    /\ IF matches
       THEN /\ out' = [out EXCEPT ![i].established = flag]
            /\ bgpout' = RemoveAt(bgpout, j)
       ELSE UNCHANGED <<out, bgpout>>
    /\ j' = j + 1
    /\ UNCHANGED <<version, conns, sess, phase, i, seen, section>>
InjectMissingFlag == Round(Matches \/ NameMissing, "true")
InjectSwappedNames ==
    Round(~NameMissing /\ IsPrefix(bgpout[j].name, out[i].name), bgpout[j].established)

\* One round of the inner loop.  A missing key (name or established) makes the
\* flag 'false' and leaves the row in the list.  Removing the row moves the next
\* one to the position the loop has just passed.
Inject ==
    /\ phase = "inject" /\ i <= Len(out) /\ j <= Len(bgpout)
    /\ CASE ~NameMissing /\ Matches /\ bgpout[j].established = "true" ->
              /\ out' = [out EXCEPT ![i].established = "true"]
              /\ bgpout' = RemoveAt(bgpout, j)
         [] NameMissing \/ (Matches /\ bgpout[j].established = "none") ->
              /\ out' = [out EXCEPT ![i].established = "false"]
              /\ UNCHANGED bgpout
         [] OTHER -> UNCHANGED <<out, bgpout>>
    /\ j' = j + 1
    /\ UNCHANGED <<version, conns, sess, phase, i, seen, section>>

\* Faulty variant: the outer loop runs past the last connection.
NextConnectionOneTooFar ==
    /\ phase = "inject" /\ i <= Len(out) /\ j > Len(bgpout)
    /\ i' = i + 1 /\ j' = 1
    /\ phase' = IF i > Len(out) THEN "publish" ELSE "inject"
    /\ UNCHANGED <<version, conns, sess, out, bgpout, seen, section>>

\* The inner loop is over: the next connection, or the output.
NextConnection ==
    /\ phase = "inject" /\ i <= Len(out) /\ j > Len(bgpout)
    /\ i' = i + 1 /\ j' = 1
    /\ phase' = IF i = Len(out) THEN "publish" ELSE "inject"
    /\ UNCHANGED <<version, conns, sess, out, bgpout, seen, section>>

\* The check splits lines at white space: the item is the first word of a name.
Item(name) ==
    LET spaces == {k \in DOMAIN name : name[k] = Space}
    IN  IF spaces = {} THEN name
        ELSE SubSeq(name, 1, (CHOOSE k \in spaces : \A m \in spaces : k <= m) - 1)

\* print_filtered and parse_mikrotik_bgp: a later row of the same item wins, and what
\* stands before the first name is dropped.
Named == {k \in DOMAIN out : out[k].name # Nameless}
Publish ==
    /\ phase = "publish" /\ phase' = "done"
    /\ section' = [item \in {Item(out[k].name) : k \in Named} |->
                    out[CHOOSE k \in Named :
                          /\ Item(out[k].name) = item
                          /\ \A m \in Named : Item(out[m].name) = item => m <= k
                       ].established]
    /\ UNCHANGED <<version, conns, sess, out, bgpout, i, j, seen>>

-----------------------------------------------------------------------------
Init ==
    /\ version \in Versions
    /\ conns \in {c \in UNION {[1 .. k -> Connections] : k \in 0 .. MaxConns} :
                    Distinct(c, LAMBDA r : r.name)}
    /\ sess \in {s \in UNION {[1 .. k -> Sessions(conns)] : k \in 0 .. MaxSessions} :
                    Distinct(s, SessionName)}
    /\ phase = "connections"
    /\ out = <<>> /\ bgpout = <<>> /\ i = 0 /\ j = 0 /\ seen = <<>>
    /\ section = <<>>

Agent == FetchConnections \/ FetchSessions \/ Inject \/ NextConnection \/ Publish

Next == SessionChanges \/ Agent

Spec == Init /\ [][Next]_vars

-----------------------------------------------------------------------------
(* check_mikrotik_bgp: OK for 'true', CRIT otherwise or without the item.  *)
State(name) ==
    IF Item(name) \in DOMAIN section /\ section[Item(name)] = "true" THEN "OK" ELSE "CRIT"

Judged == phase = "done" /\ conns # <<>>
JudgedBySessions == Judged /\ version = "7"
ConnectionsRead == \A k \in DOMAIN out : out[k].name # Nameless

\* Every variable stays within its range; the loop positions within their lists.
TypeOK ==
    /\ version \in Versions
    /\ phase \in {"connections", "sessions", "inject", "publish", "done"}
    /\ i \in 0 .. Len(out) + 1
    /\ phase = "inject" => i \in 1 .. Len(out) /\ j \in 1 .. Len(bgpout) + 2
    /\ \A k \in DOMAIN out :
          out[k].name \in Names \cup {Nameless} /\ out[k].established \in Flags
    /\ \A item \in DOMAIN section : section[item] \in Flags

\* checkman/mikrotik_bgp: "Check is OK if a BGP session is established".  A service
\* that is OK stands for a connection that had an established session when the
\* sessions were read, whatever the loop skipped or removed; if they could not be
\* read, no service is OK.
OkIsEstablished ==
    JudgedBySessions => \A name \in NamesOf(conns) :
        State(name) = "OK" =>
            \E k \in SessionsOf(seen, name) : seen[k].established = "true"

\* The other way round: once both lists were read, a connection all of whose sessions
\* were established then is OK, although the loop passes over rows behind a removed one.
EstablishedIsOk ==
    (JudgedBySessions /\ ConnectionsRead) => \A name \in NamesOf(conns) :
        (SessionsOf(seen, name) # {} /\
         \A k \in SessionsOf(seen, name) : seen[k].established = "true")
            => State(name) = "OK"

\* checkman/mikrotik_bgp:9: "WARN if disabled".
DisabledIsWarn ==
    Judged => \A k \in DOMAIN conns : conns[k].disabled => State(conns[k].name) = "WARN"
=============================================================================

-------------------------- MODULE BgpSessionsProofs -------------------------
(***************************************************************************)
(* Proofs about BgpSessions, for any names, connections and sessions.  The *)
(* agent removes rows from the list it is iterating over; what makes its   *)
(* result right nevertheless is that a row still waiting for a connection  *)
(* is never behind the position of the loop, and that a flag is only set   *)
(* by a row that came from the device.                                     *)
(***************************************************************************)
EXTENDS BgpSessions, SequenceTheorems, WellFoundedInduction, TLAPS

\* No name is the beginning of another's session name; no two share their first word.
Unrelated ==
    \A n, m \in Names, e \in Endings : IsPrefix(n, m \o <<e>>) => n = m
OwnItems == \A n, m \in Names : Item(n) = Item(m) => n = m

SessionRow == [conn : Names, suffix : Endings, established : {"true", "none"}]
OutRow == [name : Names \cup {Nameless}, established : Flags]
BgpRow == [name : Seq(STRING), established : Flags]

\* The device's lists, and the agent's copies of them.
Lists ==
    /\ conns \in Seq(Connections)
    /\ \A k, m \in DOMAIN conns : conns[k].name = conns[m].name => k = m
    /\ sess \in Seq(SessionRow) /\ seen \in Seq(SessionRow)
    /\ out \in Seq(OutRow) /\ bgpout \in Seq(BgpRow)

\* After the first call every connection has its row, or the only row is the error's,
\* and the second call is made on version 7 only, before any flag is set.
Printed ==
    /\ phase = "connections" => i = 0
    /\ phase # "connections" =>
          \/ /\ Len(out) = Len(conns)
             /\ \A k \in DOMAIN out : out[k].name = conns[k].name
          \/ Len(out) = 1 /\ out[1].name = Nameless
    /\ phase \in {"sessions", "inject"} => version = "7" /\ out # <<>>
    /\ (version = "7" /\ phase = "sessions") =>
          \A k \in DOMAIN out : out[k].established = "none"

\* A row is the error, if that is all the second call returned, or a session's.
RowOf(s) == [name |-> SessionName(s), established |-> s.established]
RowsAreSeen ==
    \A m \in DOMAIN bgpout :
        \/ bgpout[m] = ErrorRow /\ seen = <<>>
        \/ \E s \in DOMAIN seen : bgpout[m] = RowOf(seen[s])

\* A flag is "true" only for a session that is and that the loop takes for the
\* connection's.
FlagsEarned ==
    version = "7" => \A k \in DOMAIN out : out[k].established = "true" =>
        \E s \in DOMAIN seen :
            seen[s].established = "true" /\ IsPrefix(out[k].name, SessionName(seen[s]))

\* A connection all of whose sessions are established has its flag, or a row of
\* its own ahead of the loop.
AllUp(sessions, name) ==
    /\ SessionsOf(sessions, name) # {}
    /\ \A s \in SessionsOf(sessions, name) : sessions[s].established = "true"
RowFrom(first, rows, name) ==
    \E m \in DOMAIN rows :
        m >= first /\ rows[m] # ErrorRow /\ IsPrefix(name, rows[m].name)
FlagsSet ==
    /\ phase = "inject" =>
          \A k \in DOMAIN out : AllUp(seen, out[k].name) =>
              \/ out[k].established = "true"
              \/ k >= i /\ RowFrom(IF k = i THEN j ELSE 1, bgpout, out[k].name)
    /\ (version = "7" /\ phase \in {"publish", "done"}) =>
          \A k \in DOMAIN out : AllUp(seen, out[k].name) => out[k].established = "true"

\* The section holds for each item the flag of the last row with that item.
LastRow(item) ==
    CHOOSE k \in Named :
        /\ Item(out[k].name) = item
        /\ \A m \in Named : Item(out[m].name) = item => m <= k
SectionIsOut ==
    (phase = "done" /\ conns # <<>>) =>
        section = [item \in {Item(out[k].name) : k \in Named} |->
                      out[LastRow(item)].established]

IInv == TypeOK /\ Lists /\ Printed /\ RowsAreSeen /\ FlagsEarned /\ SectionIsOut

-----------------------------------------------------------------------------
\* What removing an element leaves: every other element, at most one place ahead.
LEMMA RemoveAtProperties ==
    ASSUME NEW T, NEW s \in Seq(T), NEW k \in 1 .. Len(s)
    PROVE  /\ RemoveAt(s, k) \in Seq(T)
           /\ Len(RemoveAt(s, k)) = Len(s) - 1
           /\ \A m \in 1 .. Len(s) - 1 :
                 RemoveAt(s, k)[m] = IF m < k THEN s[m] ELSE s[m + 1]
<1> DEFINE before == SubSeq(s, 1, k - 1)
           after == SubSeq(s, k + 1, Len(s))
<1>1. /\ before \in Seq(T) /\ Len(before) = k - 1
      /\ \A m \in 1 .. k - 1 : before[m] = s[m]
  BY SubSeqProperties
<1>2. /\ after \in Seq(T) /\ Len(after) = Len(s) - k
      /\ \A m \in 1 .. Len(s) - k : after[m] = s[m + k]
  BY SubSeqProperties
<1>3. RemoveAt(s, k) = before \o after
  BY DEF RemoveAt
<1> HIDE DEF before, after
<1>4. /\ before \o after \in Seq(T)
      /\ Len(before \o after) = (k - 1) + (Len(s) - k)
      /\ \A m \in 1 .. (k - 1) + (Len(s) - k) :
            (before \o after)[m] = IF m <= k - 1 THEN before[m] ELSE after[m - (k - 1)]
  <2>1. /\ before \o after \in Seq(T)
        /\ Len(before \o after) = Len(before) + Len(after)
        /\ \A m \in 1 .. Len(before) + Len(after) :
              (before \o after)[m] = IF m <= Len(before) THEN before[m]
                                                       ELSE after[m - Len(before)]
    BY <1>1, <1>2, ConcatProperties
  <2> QED
    BY <1>1, <1>2, <2>1
<1>5. ASSUME NEW m \in 1 .. Len(s) - 1
      PROVE  (before \o after)[m] = IF m < k THEN s[m] ELSE s[m + 1]
  <2>1. CASE m < k
    BY <2>1, <1>1, <1>4
  <2>2. CASE ~(m < k)
    <3>1. m - (k - 1) \in 1 .. Len(s) - k /\ (m - (k - 1)) + k = m + 1
      BY <2>2
    <3>2. after[m - (k - 1)] = s[(m - (k - 1)) + k]
      BY <3>1, <1>2
    <3> QED
      BY <2>2, <3>1, <3>2, <1>4
  <2> QED
    BY <2>1, <2>2
<1> QED
  BY <1>3, <1>4, <1>5

\* The name of a session begins with its connection's.
LEMMA NameBeginsSession ==
    ASSUME NEW T, NEW n \in Seq(T), NEW e \in T
    PROVE  /\ n \o <<e>> \in Seq(T) /\ n \o <<e>> # <<>>
           /\ IsPrefix(n, n \o <<e>>)
<1>1. <<e>> \in Seq(T) /\ Len(<<e>>) = 1
  OBVIOUS
<1>2. PICK t \in Seq(T) : t = n \o <<e>>
  BY <1>1, ConcatProperties
<1>3. Len(t) = Len(n) + 1 /\ \A k \in 1 .. Len(n) : t[k] = n[k]
  <2>1. /\ Len(n \o <<e>>) = Len(n) + Len(<<e>>)
        /\ \A k \in 1 .. Len(n) + Len(<<e>>) :
              (n \o <<e>>)[k] = IF k <= Len(n) THEN n[k] ELSE <<e>>[k - Len(n)]
    BY <1>1, ConcatProperties
  <2> QED
    BY <1>1, <1>2, <2>1
<1>4. /\ SubSeq(n, 1, Len(n)) \in Seq(T) /\ SubSeq(t, 1, Len(n)) \in Seq(T)
      /\ Len(SubSeq(n, 1, Len(n))) = Len(n) /\ Len(SubSeq(t, 1, Len(n))) = Len(n)
      /\ \A k \in 1 .. Len(n) : /\ SubSeq(n, 1, Len(n))[k] = n[k]
                                /\ SubSeq(t, 1, Len(n))[k] = t[k]
  BY <1>3, SubSeqProperties
<1>5. SubSeq(n, 1, Len(n)) = SubSeq(t, 1, Len(n))
  BY <1>3, <1>4, SeqEqual
<1>6. t # <<>>
  BY <1>3, LenProperties
<1> QED
  BY <1>2, <1>3, <1>5, <1>6 DEF IsPrefix

\* A set of positions has a last one.
LEMMA LastExists ==
    ASSUME NEW n \in Nat, NEW S, S \subseteq 1 .. n, S # {}
    PROVE  \E k \in S : \A m \in S : m <= k
<1> DEFINE T == {n - k : k \in S}
<1>1. \A k \in S : k \in Nat /\ n - k \in Nat
  OBVIOUS
<1>2. T \subseteq Nat /\ T # {}
  BY <1>1
<1>3. PICK x \in T : \A y \in T : ~(<<y, x>> \in OpToRel(<, Nat))
  <2> HIDE DEF T
  <2> QED
    BY <1>2, NatLessThanWellFounded, WFMin
<1>4. PICK k \in S : x = n - k
  BY <1>3
<1>5. ASSUME NEW m \in S PROVE m <= k
  <2>1. n - m \in T /\ n - m \in Nat /\ x \in Nat
    BY <1>1, <1>4
  <2>2. ~(n - m < x)
    <3> DEFINE y == n - m
    <3>1. y \in T /\ y \in Nat
      BY <2>1
    <3> HIDE DEF T, y
    <3>2. ~(y < x)
      BY <1>3, <2>1, <3>1 DEF OpToRel
    <3> QED
      BY <3>2 DEF y
  <2> QED
    BY <1>1, <1>4, <2>2
<1> QED
  BY <1>5

\* A session's row has the type of a row, is not the error, for it has a name, and
\* begins with the name of its connection.
LEMMA RowTyped ==
    ASSUME NEW s \in SessionRow
    PROVE  /\ RowOf(s) \in BgpRow /\ RowOf(s) # ErrorRow /\ RowOf(s).name # Nameless
           /\ IsPrefix(s.conn, RowOf(s).name)
<1>1. s.conn \in Seq(STRING) /\ s.suffix \in STRING
  BY NamesAssumption, EndingsAssumption DEF SessionRow
<1>2. /\ RowOf(s).name = s.conn \o <<s.suffix>>
      /\ RowOf(s) = [name |-> RowOf(s).name, established |-> RowOf(s).established]
      /\ RowOf(s).established \in Flags
  BY DEF RowOf, SessionRow, Flags, SessionName
<1>3. /\ RowOf(s).name \in Seq(STRING) /\ RowOf(s).name # <<>>
      /\ IsPrefix(s.conn, RowOf(s).name)
  BY <1>1, <1>2, NameBeginsSession
<1>4. ErrorRow.name = <<>>
  BY DEF ErrorRow, Nameless
<1> QED
  BY <1>2, <1>3, <1>4 DEF BgpRow, Nameless

-----------------------------------------------------------------------------
\* The initial states satisfy the invariant.
LEMMA InitInv == Init => IInv
<1> SUFFICES ASSUME Init PROVE IInv
  OBVIOUS
<1>1. /\ conns \in Seq(Connections)
      /\ \A k, m \in DOMAIN conns : conns[k].name = conns[m].name => k = m
  <2>1. PICK n \in 0 .. MaxConns : conns \in [1 .. n -> Connections]
    BY DEF Init
  <2>2. n \in Nat
    BY <2>1, BoundsAssumption
  <2> QED
    BY <2>1, <2>2 DEF Init, Distinct
<1>2. Sessions(conns) \subseteq SessionRow
  <2>1. DOMAIN conns = 1 .. Len(conns) /\ \A k \in DOMAIN conns : conns[k] \in Connections
    BY <1>1
  <2>2. {conns[k].name : k \in {m \in DOMAIN conns : ~conns[m].disabled}} \subseteq Names
    BY <2>1 DEF Connections
  <2> QED
    BY <2>2 DEF Sessions, SessionRow
<1>3. sess \in Seq(SessionRow)
  <2>1. PICK n \in 0 .. MaxSessions : sess \in [1 .. n -> Sessions(conns)]
    BY DEF Init
  <2>2. n \in Nat /\ sess \in [1 .. n -> SessionRow]
    BY <1>2, <2>1, BoundsAssumption
  <2> QED
    BY <2>2
<1>4. /\ version \in Versions /\ phase = "connections"
      /\ out = <<>> /\ bgpout = <<>> /\ i = 0 /\ j = 0 /\ seen = <<>> /\ section = <<>>
  BY DEF Init
<1> QED
  BY <1>1, <1>3, <1>4
     DEF IInv, TypeOK, Lists, Printed, RowsAreSeen, FlagsEarned, SectionIsOut

\* What the section should be depends on the rows of the agent.
LEMMA SectionIsFixed ==
    ASSUME SectionIsOut, UNCHANGED <<conns, phase, out, section>>
    PROVE  SectionIsOut'
<1>1. Named' = Named
  BY DEF Named
<1>2. \A item : LastRow(item)' = LastRow(item)
  BY <1>1 DEF LastRow
<1> QED
  BY <1>1, <1>2 DEF SectionIsOut

\* A session that comes up, goes down or disappears is the device's affair alone.
LEMMA SessionStep == ASSUME IInv, SessionChanges PROVE IInv'
<1>1. UNCHANGED <<version, conns, phase, out, bgpout, i, j, seen, section>>
  BY DEF SessionChanges
<1>2. sess' \in Seq(SessionRow)
  <2>1. PICK k \in DOMAIN sess :
            \/ \E flag \in {"true", "none"} : sess' = [sess EXCEPT ![k].established = flag]
            \/ sess' = RemoveAt(sess, k)
    BY DEF SessionChanges
  <2>2. sess \in Seq(SessionRow) /\ k \in 1 .. Len(sess)
    BY DEF IInv, Lists
  <2>3. CASE sess' = RemoveAt(sess, k)
    BY <2>2, <2>3, RemoveAtProperties
  <2>4. ASSUME NEW flag \in {"true", "none"}, sess' = [sess EXCEPT ![k].established = flag]
        PROVE  sess' \in Seq(SessionRow)
    <3>1. sess[k] \in SessionRow
      BY <2>2
    <3>2. [sess[k] EXCEPT !.established = flag] \in SessionRow
      BY <3>1, <2>4 DEF SessionRow
    <3> QED
      BY <2>2, <2>4, <3>2, ExceptSeq
  <2> QED
    BY <2>1, <2>3, <2>4
<1> QED
  BY <1>1, <1>2, SectionIsFixed
     DEF IInv, TypeOK, Lists, Printed, RowsAreSeen, FlagsEarned

\* The first call leaves a row for every connection, or the error's.
LEMMA ConnectionsStep == ASSUME IInv, FetchConnections PROVE IInv'
<1>1. /\ UNCHANGED <<version, conns, sess, bgpout, i, j, seen, section>>
      /\ phase = "connections" /\ phase' \in {"done", "sessions", "publish"}
      /\ phase' = "sessions" => version = "7" /\ out' # <<>>
      /\ phase' = "done" => out' = <<>>
  BY DEF FetchConnections
<1>2. /\ conns \in Seq(Connections) /\ DOMAIN conns = 1 .. Len(conns) /\ Len(conns) \in Nat
      /\ \A k \in DOMAIN conns : conns[k].name \in Names
  <2>1. conns \in Seq(Connections)
    BY DEF IInv, Lists
  <2>2. DOMAIN conns = 1 .. Len(conns) /\ \A k \in DOMAIN conns : conns[k] \in Connections
    BY <2>1
  <2> QED
    BY <2>1, <2>2 DEF Connections
<1>3. /\ out' \in Seq(OutRow) /\ DOMAIN out' = 1 .. Len(out') /\ Len(out') \in Nat
      /\ \/ /\ Len(out') = Len(conns)
            /\ \A k \in DOMAIN out' : out'[k].name = conns[k].name
         \/ Len(out') = 1 /\ out'[1].name = Nameless
      /\ version = "7" => \A k \in DOMAIN out' : out'[k].established = "none"
  <2>1. \A name : PeerFlag(name) \in Flags
    BY DEF PeerFlag, Flags
  <2> DEFINE row(k) == [name |-> conns[k].name,
                        established |-> IF version = "6" THEN PeerFlag(conns[k].name)
                                                         ELSE "none"]
  <2>2. \A k \in 1 .. Len(conns) :
            /\ row(k) \in OutRow /\ row(k).name = conns[k].name
            /\ version = "7" => row(k).established = "none"
    BY <1>2, <2>1 DEF OutRow, Flags
  <2>3. \/ out' = [k \in 1 .. Len(conns) |-> row(k)]
        \/ out' = <<ErrorRow>>
    BY <1>2 DEF FetchConnections
  <2> HIDE DEF row
  <2>4. CASE out' = [k \in 1 .. Len(conns) |-> row(k)]
    <3>1. out' \in Seq(OutRow) /\ Len(out') = Len(conns)
      BY <1>2, <2>2, <2>4
    <3> QED
      BY <1>2, <2>2, <2>4, <3>1
  <2>5. CASE out' = <<ErrorRow>>
    <3>1. /\ ErrorRow \in OutRow /\ ErrorRow.name = Nameless
          /\ ErrorRow.established = "none"
      BY DEF ErrorRow, OutRow, Flags
    <3>2. Len(out') = 1 /\ out'[1] = ErrorRow /\ out' \in Seq(OutRow) /\ DOMAIN out' = 1 .. 1
      BY <2>5, <3>1
    <3> QED
      BY <3>1, <3>2
  <2> QED
    BY <2>3, <2>4, <2>5
<1>4. TypeOK'
  <2>1. \A k \in DOMAIN out' : /\ out'[k].name \in Names \cup {Nameless}
                               /\ out'[k].established \in Flags
    <3>1. \A k \in DOMAIN out' : out'[k] \in OutRow
      BY <1>3
    <3> QED
      BY <3>1 DEF OutRow
  <2>2. i' \in 0 .. Len(out') + 1
    BY <1>1, <1>3 DEF IInv, Printed
  <2> QED
    BY <1>1, <2>1, <2>2 DEF IInv, TypeOK
<1>5. Lists'
  BY <1>1, <1>3 DEF IInv, Lists
<1>6. Printed'
  BY <1>1, <1>3 DEF Printed
<1>7. SectionIsOut'
  <2>1. phase' = "done" => conns = <<>>
    <3>1. out' = <<>> => Len(out') = 0
      OBVIOUS
    <3> QED
      BY <1>1, <1>2, <1>3, <3>1, EmptySeq
  <2> QED
    BY <1>1, <2>1 DEF SectionIsOut
<1>8. RowsAreSeen' /\ FlagsEarned'
  BY <1>1, <1>3 DEF IInv, RowsAreSeen, FlagsEarned
<1> QED
  BY <1>4, <1>5, <1>6, <1>7, <1>8 DEF IInv

\* The second call: the sessions as they are now, or the error.
LEMMA SessionsStep == ASSUME IInv, FetchSessions PROVE IInv'
<1>1. /\ UNCHANGED <<version, conns, sess, out, section>>
      /\ phase = "sessions" /\ phase' = "inject" /\ i' = 1 /\ j' = 1
  BY DEF FetchSessions
<1>2. /\ seen' \in Seq(SessionRow) /\ bgpout' \in Seq(BgpRow)
      /\ RowsAreSeen'
  <2>1. CASE bgpout' = <<ErrorRow>> /\ seen' = <<>>
    <3>1. ErrorRow \in BgpRow
      BY EmptySeq DEF ErrorRow, BgpRow, Flags, Nameless
    <3> QED
      BY <2>1, <3>1 DEF RowsAreSeen
  <2>2. CASE /\ bgpout' = [k \in DOMAIN sess |-> RowOf(sess[k])]
             /\ seen' = sess
    <3>1. sess \in Seq(SessionRow) /\ DOMAIN sess = 1 .. Len(sess)
          /\ \A k \in DOMAIN sess : sess[k] \in SessionRow
      BY DEF IInv, Lists
    <3>2. \A k \in DOMAIN sess : RowOf(sess[k]) \in BgpRow
      BY <3>1, RowTyped
    <3>3. bgpout' \in Seq(BgpRow)
      BY <2>2, <3>1, <3>2
    <3> QED
      BY <2>2, <3>1, <3>3 DEF RowsAreSeen
  <2> QED
    BY <2>1, <2>2 DEF FetchSessions, RowOf
<1>3. out \in Seq(OutRow) /\ out # <<>>
  BY <1>1 DEF IInv, Lists, Printed
<1>4. TypeOK'
  <2>1. Len(out) \in Nat \ {0} /\ Len(bgpout') \in Nat
    BY <1>2, <1>3, EmptySeq
  <2> QED
    BY <1>1, <2>1 DEF IInv, TypeOK
<1>5. Lists' /\ Printed' /\ FlagsEarned' /\ SectionIsOut'
  BY <1>1, <1>2 DEF IInv, Lists, Printed, FlagsEarned, SectionIsOut
<1> QED
  BY <1>2, <1>4, <1>5 DEF IInv

\* A round sets at most the flag of its connection, after a row it has just read,
\* and takes at most that row from the list.
LEMMA InjectStep == ASSUME IInv, Inject PROVE IInv'
<1> DEFINE row == bgpout[j]
<1>1. /\ UNCHANGED <<version, conns, sess, phase, i, seen, section>>
      /\ phase = "inject" /\ j' = j + 1 /\ i \in 1 .. Len(out) /\ j \in 1 .. Len(bgpout)
      /\ out \in Seq(OutRow) /\ bgpout \in Seq(BgpRow)
      /\ DOMAIN out = 1 .. Len(out) /\ DOMAIN bgpout = 1 .. Len(bgpout)
      /\ Len(out) \in Nat /\ Len(bgpout) \in Nat
  <2>1. /\ UNCHANGED <<version, conns, sess, phase, i, seen, section>>
        /\ phase = "inject" /\ j' = j + 1 /\ i <= Len(out) /\ j <= Len(bgpout)
    BY DEF Inject
  <2>2. out \in Seq(OutRow) /\ bgpout \in Seq(BgpRow)
    BY DEF IInv, Lists
  <2>3. i \in 1 .. Len(out) /\ j \in 1 .. Len(bgpout) + 2
    BY <2>1 DEF IInv, TypeOK
  <2>4. j \in 1 .. Len(bgpout)
    BY <2>1, <2>2, <2>3
  <2> QED
    BY <2>1, <2>2, <2>3, <2>4
<1>2. \/ /\ row # ErrorRow /\ IsPrefix(out[i].name, row.name) /\ row.established = "true"
         /\ out' = [out EXCEPT ![i].established = "true"] /\ bgpout' = RemoveAt(bgpout, j)
      \/ out' = [out EXCEPT ![i].established = "false"] /\ bgpout' = bgpout
      \/ out' = out /\ bgpout' = bgpout
  BY DEF Inject, Matches, NameMissing, ErrorRow
<1>3. /\ bgpout' \in Seq(BgpRow) /\ Len(bgpout') \in Nat /\ Len(bgpout') + 1 >= Len(bgpout)
      /\ DOMAIN bgpout' = 1 .. Len(bgpout')
      /\ \A m \in DOMAIN bgpout' : \E n \in DOMAIN bgpout : bgpout'[m] = bgpout[n]
  <2>1. CASE bgpout' = bgpout
    BY <2>1, <1>1
  <2>2. CASE bgpout' = RemoveAt(bgpout, j)
    <3>1. /\ bgpout' \in Seq(BgpRow) /\ Len(bgpout') = Len(bgpout) - 1
          /\ \A m \in 1 .. Len(bgpout) - 1 :
                bgpout'[m] = IF m < j THEN bgpout[m] ELSE bgpout[m + 1]
      BY <2>2, <1>1, RemoveAtProperties
    <3>2. DOMAIN bgpout' = 1 .. Len(bgpout) - 1
      BY <3>1
    <3>3. ASSUME NEW m \in DOMAIN bgpout'
          PROVE  \E n \in DOMAIN bgpout : bgpout'[m] = bgpout[n]
      <4>1. m \in DOMAIN bgpout /\ m + 1 \in DOMAIN bgpout
        BY <1>1, <3>2
      <4> QED
        BY <3>1, <3>2, <4>1
    <3>4. Len(bgpout') \in Nat /\ Len(bgpout') + 1 >= Len(bgpout)
      BY <1>1, <3>1
    <3>5. DOMAIN bgpout' = 1 .. Len(bgpout')
      BY <3>1, <3>2, Zenon
    <3> QED
      BY <3>1, <3>3, <3>4, <3>5, Zenon
  <2> QED
    BY <1>2, <2>1, <2>2
<1>4. /\ out' \in Seq(OutRow) /\ Len(out') = Len(out) /\ DOMAIN out' = DOMAIN out
      /\ \A k \in DOMAIN out : /\ out'[k].name = out[k].name
                               /\ k # i => out'[k] = out[k]
  <2>1. ASSUME NEW flag \in {"true", "false"}, out' = [out EXCEPT ![i].established = flag]
        PROVE  <1>4!:
    <3>1. out[i] \in OutRow
      BY <1>1
    <3>2. [out[i] EXCEPT !.established = flag] \in OutRow
          /\ [out[i] EXCEPT !.established = flag].name = out[i].name
      BY <3>1 DEF OutRow, Flags
    <3> QED
      BY <1>1, <2>1, <3>2, ExceptSeq
  <2> QED
    BY <1>1, <1>2, <2>1
<1>5. TypeOK'
  <2>1. \A k \in DOMAIN out' : /\ out'[k].name \in Names \cup {Nameless}
                               /\ out'[k].established \in Flags
    <3>1. \A k \in DOMAIN out' : out'[k] \in OutRow
      BY <1>4
    <3> QED
      BY <3>1 DEF OutRow
  <2> QED
    BY <1>1, <1>3, <1>4, <2>1 DEF IInv, TypeOK
<1>6. Lists' /\ Printed'
  BY <1>1, <1>3, <1>4 DEF IInv, Lists, Printed
<1>7. RowsAreSeen'
  BY <1>1, <1>3 DEF IInv, RowsAreSeen
<1>8. FlagsEarned'
  <2> SUFFICES ASSUME version = "7", NEW k \in DOMAIN out, out'[k].established = "true"
               PROVE  \E s \in DOMAIN seen :
                          /\ seen[s].established = "true"
                          /\ IsPrefix(out[k].name, SessionName(seen[s]))
    BY <1>1, <1>4 DEF FlagsEarned
  <2>1. CASE out'[k] = out[k]
    BY <2>1 DEF IInv, FlagsEarned
  <2>2. CASE k = i /\ out'[k] # out[k]
    <3>1. row # ErrorRow /\ IsPrefix(out[i].name, row.name) /\ row.established = "true"
      <4> SUFFICES ASSUME out' = [out EXCEPT ![i].established = "false"] PROVE FALSE
        BY <1>2, <2>2
      <4>1. out[i] \in OutRow
        BY <1>1
      <4>2. out'[i] = [out[i] EXCEPT !.established = "false"]
        BY <1>1
      <4>3. out'[i].established = "false"
        BY <4>1, <4>2 DEF OutRow
      <4> QED
        BY <2>2, <4>3
    <3>2. PICK s \in DOMAIN seen : row = RowOf(seen[s])
      BY <1>1, <3>1 DEF IInv, RowsAreSeen
    <3> QED
      BY <2>2, <3>1, <3>2 DEF RowOf
  <2> QED
    BY <1>4, <2>1, <2>2
<1>9. SectionIsOut'
  BY <1>1 DEF SectionIsOut
<1> QED
  BY <1>5, <1>6, <1>7, <1>8, <1>9 DEF IInv

\* The next connection, or the end of the outer loop.
LEMMA NextConnectionStep == ASSUME IInv, NextConnection PROVE IInv'
<1>1. /\ UNCHANGED <<version, conns, sess, out, bgpout, seen, section>>
      /\ phase = "inject" /\ i \in 1 .. Len(out) /\ i' = i + 1 /\ j' = 1
      /\ phase' = IF i = Len(out) THEN "publish" ELSE "inject"
  BY DEF NextConnection, IInv, TypeOK
<1>2. Len(out) \in Nat /\ Len(bgpout) \in Nat
  BY DEF IInv, Lists
<1>3. TypeOK'
  BY <1>1, <1>2 DEF IInv, TypeOK
<1>4. Lists' /\ Printed' /\ RowsAreSeen' /\ FlagsEarned' /\ SectionIsOut'
  BY <1>1 DEF IInv, Lists, Printed, RowsAreSeen, FlagsEarned, SectionIsOut
<1> QED
  BY <1>3, <1>4 DEF IInv

\* The section is read from the rows as they are printed.
LEMMA PublishStep == ASSUME IInv, Publish PROVE IInv'
<1>1. /\ UNCHANGED <<version, conns, sess, out, bgpout, i, j, seen>>
      /\ phase = "publish" /\ phase' = "done"
      /\ section' = [item \in {Item(out[k].name) : k \in Named} |->
                        out[LastRow(item)].established]
  BY DEF Publish, LastRow
<1>2. Lists' /\ Printed' /\ RowsAreSeen' /\ FlagsEarned'
  BY <1>1 DEF IInv, Lists, Printed, RowsAreSeen, FlagsEarned
<1>3. SectionIsOut'
  BY <1>1 DEF SectionIsOut, LastRow, Named
<1>4. TypeOK'
  <2>1. out \in Seq(OutRow) /\ DOMAIN out = 1 .. Len(out) /\ Len(out) \in Nat
    BY DEF IInv, Lists
  <2>2. ASSUME NEW item \in {Item(out[k].name) : k \in Named}
        PROVE  out[LastRow(item)].established \in Flags
    <3> DEFINE S == {k \in Named : Item(out[k].name) = item}
    <3>1. S \subseteq 1 .. Len(out) /\ S # {} /\ S \subseteq DOMAIN out
      BY <2>1, <2>2 DEF Named
    <3>2. \E k \in S : \A m \in S : m <= k
      BY <2>1, <3>1, LastExists
    <3>3. LastRow(item) \in DOMAIN out
      BY <3>1, <3>2 DEF LastRow
    <3>4. out[LastRow(item)] \in OutRow
      BY <2>1, <3>3
    <3> QED
      BY <3>4 DEF OutRow
  <2> QED
    BY <1>1, <2>2 DEF IInv, TypeOK
<1> QED
  BY <1>2, <1>3, <1>4 DEF IInv

\* The invariant holds in every run.
LEMMA Invariance == Spec => []IInv
<1>1. ASSUME IInv, [Next]_vars PROVE IInv'
  <2>1. CASE UNCHANGED vars
    BY <1>1, <2>1, SectionIsFixed
       DEF IInv, vars, TypeOK, Lists, Printed, RowsAreSeen, FlagsEarned
  <2> QED
    BY <1>1, <2>1, SessionStep, ConnectionsStep, SessionsStep, InjectStep,
       NextConnectionStep, PublishStep DEF Next, Agent
<1> QED
  BY <1>1, InitInv, PTL DEF Spec

-----------------------------------------------------------------------------
\* With unrelated names a row that begins with the name of a connection is one of
\* its own sessions, and no other connection's.
LEMMA MatchingRowIsOwn ==
    ASSUME Unrelated, IInv, NEW m \in DOMAIN bgpout, NEW k \in DOMAIN out,
           bgpout[m] # ErrorRow, out[k].name # Nameless,
           IsPrefix(out[k].name, bgpout[m].name)
    PROVE  \E s \in SessionsOf(seen, out[k].name) : bgpout[m] = RowOf(seen[s])
<1>1. PICK s \in DOMAIN seen : bgpout[m] = RowOf(seen[s])
  BY DEF IInv, RowsAreSeen
<1>2. seen[s] \in SessionRow
  BY <1>1 DEF IInv, Lists
<1>3. /\ out[k].name \in Names /\ seen[s].conn \in Names /\ seen[s].suffix \in Endings
      /\ bgpout[m].name = seen[s].conn \o <<seen[s].suffix>>
  BY <1>1, <1>2 DEF IInv, TypeOK, SessionRow, RowOf, SessionName
<1>4. seen[s].conn = out[k].name
  BY <1>3 DEF Unrelated
<1> QED
  BY <1>1, <1>4 DEF SessionsOf

\* Connections have names of their own, so a row belongs to one of them at most.
LEMMA RowHasOneOwner ==
    ASSUME Unrelated, IInv, phase # "connections", NEW m \in DOMAIN bgpout,
           bgpout[m] # ErrorRow, NEW k \in DOMAIN out, NEW n \in DOMAIN out,
           out[k].name # Nameless, out[n].name # Nameless,
           IsPrefix(out[k].name, bgpout[m].name), IsPrefix(out[n].name, bgpout[m].name)
    PROVE  k = n
<1>1. PICK s \in DOMAIN seen : bgpout[m] = RowOf(seen[s])
  BY DEF IInv, RowsAreSeen
<1>2. seen[s] \in SessionRow
  BY <1>1 DEF IInv, Lists
<1>3. /\ out[k].name \in Names /\ out[n].name \in Names
      /\ seen[s].conn \in Names /\ seen[s].suffix \in Endings
      /\ bgpout[m].name = seen[s].conn \o <<seen[s].suffix>>
  BY <1>1, <1>2 DEF IInv, TypeOK, SessionRow, RowOf, SessionName
<1>4. out[k].name = out[n].name
  BY <1>3 DEF Unrelated
<1>5. /\ k \in 1 .. Len(out) /\ DOMAIN conns = 1 .. Len(conns) /\ n \in 1 .. Len(out)
      /\ \A x, y \in DOMAIN conns : conns[x].name = conns[y].name => x = y
  BY DEF IInv, Lists
<1>6. /\ Len(out) = Len(conns)
      /\ \A x \in DOMAIN out : out[x].name = conns[x].name
  <2>1. ~(Len(out) = 1 /\ out[1].name = Nameless)
    BY <1>5
  <2> QED
    BY <2>1 DEF IInv, Printed
<1> QED
  BY <1>4, <1>5, <1>6

\* A connection whose sessions are all up never loses its last row but to its flag:
\* the row removed under the loop is its own, or leaves its own ahead of it.
LEMMA FlagsSetInject ==
    ASSUME Unrelated, IInv, FlagsSet, Inject
    PROVE  FlagsSet'
<1> DEFINE row == bgpout[j]
           matches == ~NameMissing /\ IsPrefix(out[i].name, row.name)
<1>1. /\ UNCHANGED <<version, conns, sess, phase, i, seen, section>>
      /\ phase = "inject" /\ j' = j + 1 /\ i \in 1 .. Len(out) /\ j \in 1 .. Len(bgpout)
      /\ out \in Seq(OutRow) /\ bgpout \in Seq(BgpRow)
      /\ DOMAIN out = 1 .. Len(out) /\ DOMAIN bgpout = 1 .. Len(bgpout)
      /\ Len(out) \in Nat /\ Len(bgpout) \in Nat
  BY DEF Inject, IInv, TypeOK, Lists
<1>2. \/ /\ matches /\ row.established = "true"
         /\ out' = [out EXCEPT ![i].established = "true"] /\ bgpout' = RemoveAt(bgpout, j)
      \/ /\ NameMissing \/ (matches /\ row.established = "none")
         /\ out' = [out EXCEPT ![i].established = "false"] /\ bgpout' = bgpout
      \/ /\ ~NameMissing /\ ~(matches /\ row.established \in {"true", "none"})
         /\ out' = out /\ bgpout' = bgpout
  BY DEF Inject, Matches
<1>3. /\ DOMAIN out' = DOMAIN out
      /\ \A k \in DOMAIN out : /\ out'[k].name = out[k].name
                               /\ k # i => out'[k] = out[k]
  <2>1. out[i] \in OutRow
    BY <1>1
  <2>2. [out[i] EXCEPT !.established = "true"].name = out[i].name
        /\ [out[i] EXCEPT !.established = "false"].name = out[i].name
    BY <2>1 DEF OutRow
  <2> QED
    BY <1>1, <1>2, <2>2
<1> SUFFICES ASSUME NEW k \in DOMAIN out, AllUp(seen, out[k].name)
             PROVE  \/ out'[k].established = "true"
                    \/ k >= i /\ RowFrom(IF k = i THEN j + 1 ELSE 1, bgpout', out[k].name)
  BY <1>1, <1>3 DEF FlagsSet
<1>4. row # ErrorRow /\ ~NameMissing /\ out[i].name # Nameless /\ out[k].name # Nameless
  <2>1. PICK x \in DOMAIN seen : seen[x].conn = out[k].name
    BY DEF AllUp, SessionsOf
  <2>2. PICK s \in DOMAIN seen : row = RowOf(seen[s])
    BY <1>1, <2>1 DEF IInv, RowsAreSeen
  <2>3. seen[x] \in SessionRow /\ seen[s] \in SessionRow
    BY <2>1, <2>2 DEF IInv, Lists
  <2>4. row # ErrorRow /\ row.name # Nameless
    BY <2>2, <2>3, RowTyped
  <2>5. out[k].name # Nameless
    BY <2>1, <2>3, NamesAssumption DEF SessionRow, Nameless
  <2>0. out[i].name # Nameless
    <3>1. CASE Len(out) = 1
      BY <1>1, <2>5, <3>1
    <3>2. CASE Len(out) # 1
      <4>1. DOMAIN conns = 1 .. Len(conns) /\ \A m \in DOMAIN conns : conns[m] \in Connections
        BY DEF IInv, Lists
      <4>2. Len(out) = Len(conns) /\ out[i].name = conns[i].name
        BY <1>1, <3>2 DEF IInv, Printed
      <4> QED
        BY <1>1, <4>1, <4>2, NamesAssumption DEF Connections, Nameless
    <3> QED
      BY <3>1, <3>2
  <2> QED
    BY <2>4, <2>5, <2>0 DEF NameMissing
<1>5. CASE k = i /\ matches
  <2>1. row.established = "true"
    BY <1>1, <1>4, <1>5, MatchingRowIsOwn DEF AllUp, RowOf
  <2>2. out' = [out EXCEPT ![i].established = "true"] /\ out[i] \in OutRow
    BY <1>1, <1>2, <1>4, <1>5, <2>1
  <2>3. out'[i] = [out[i] EXCEPT !.established = "true"]
    BY <1>1, <2>2
  <2> QED
    BY <1>5, <2>2, <2>3 DEF OutRow
<1>6. CASE k = i /\ ~matches
  <2>1. out' = out /\ bgpout' = bgpout
    BY <1>2, <1>4, <1>6
  <2>2. ASSUME NEW m \in DOMAIN bgpout, m >= j, bgpout[m] # ErrorRow,
               IsPrefix(out[k].name, bgpout[m].name)
        PROVE  m >= j + 1
    BY <1>1, <1>4, <1>6, <2>2
  <2> QED
    BY <1>1, <1>6, <2>1, <2>2 DEF FlagsSet, RowFrom
<1>7. CASE k # i
  <2>1. CASE out[k].established = "true"
    BY <1>3, <1>7, <2>1
  <2>2. CASE k >= i /\ RowFrom(1, bgpout, out[k].name)
    <3>1. PICK m \in DOMAIN bgpout : bgpout[m] # ErrorRow
                                     /\ IsPrefix(out[k].name, bgpout[m].name)
      BY <2>2 DEF RowFrom
    <3>2. CASE bgpout' = bgpout
      BY <1>7, <2>2, <3>2
    <3>3. CASE matches /\ bgpout' = RemoveAt(bgpout, j)
      <4>1. ASSUME m = j PROVE FALSE
        <5>1. i \in DOMAIN out /\ j \in DOMAIN bgpout /\ phase # "connections"
          BY <1>1
        <5>2. /\ bgpout[j] # ErrorRow /\ IsPrefix(out[k].name, bgpout[j].name)
              /\ IsPrefix(out[i].name, bgpout[j].name)
          BY <3>1, <3>3, <4>1
        <5> QED
          BY <1>4, <1>7, <5>1, <5>2, RowHasOneOwner
      <4>2. /\ Len(bgpout') = Len(bgpout) - 1 /\ DOMAIN bgpout' = 1 .. Len(bgpout')
            /\ \A n \in 1 .. Len(bgpout) - 1 :
                  bgpout'[n] = IF n < j THEN bgpout[n] ELSE bgpout[n + 1]
        <5>1. /\ bgpout' \in Seq(BgpRow) /\ Len(bgpout') = Len(bgpout) - 1
              /\ \A n \in 1 .. Len(bgpout) - 1 :
                    bgpout'[n] = IF n < j THEN bgpout[n] ELSE bgpout[n + 1]
          <6>1. bgpout \in Seq(BgpRow) /\ j \in 1 .. Len(bgpout)
            BY <1>1
          <6> QED
            BY ONLY <3>3, <6>1, RemoveAtProperties
        <5> QED
          BY <5>1
      <4>3. PICK n \in 1 .. Len(bgpout) - 1 : bgpout'[n] = bgpout[m]
        <5>1. CASE m < j
          BY <1>1, <4>2, <5>1
        <5>2. CASE m > j
          <6>1. m - 1 \in 1 .. Len(bgpout) - 1 /\ ~(m - 1 < j) /\ (m - 1) + 1 = m
            BY <1>1, <5>2
          <6> QED
            BY <4>2, <6>1
        <5> QED
          BY <1>1, <4>1, <5>1, <5>2
      <4>4. RowFrom(1, bgpout', out[k].name)
        BY <1>1, <3>1, <4>2, <4>3 DEF RowFrom
      <4> QED
        BY <1>7, <2>2, <4>4
    <3> QED
      BY <1>2, <3>2, <3>3
  <2> QED
    BY <1>1, <1>7, <2>1, <2>2 DEF FlagsSet
<1> QED
  BY <1>5, <1>6, <1>7

\* At the end of the inner loop no row is ahead of it.
LEMMA FlagsSetNextConnection ==
    ASSUME Unrelated, IInv, FlagsSet, NextConnection
    PROVE  FlagsSet'
<1>1. /\ phase = "inject" /\ i \in 1 .. Len(out) /\ i' = i + 1 /\ j' = 1
      /\ j > Len(bgpout) /\ UNCHANGED <<version, out, bgpout, seen>>
      /\ Len(out) \in Nat /\ Len(bgpout) \in Nat /\ i \in Nat /\ j \in Nat
      /\ phase' = IF i = Len(out) THEN "publish" ELSE "inject"
  BY DEF NextConnection, IInv, TypeOK, Lists
<1>2. /\ \A m \in DOMAIN bgpout : m \in Nat /\ m <= Len(bgpout)
      /\ \A k \in DOMAIN out : k \in Nat /\ k <= Len(out)
  BY DEF IInv, Lists
<1>3. ASSUME NEW k \in DOMAIN out, AllUp(seen, out[k].name)
      PROVE  \/ out[k].established = "true"
             \/ k >= i + 1 /\ RowFrom(1, bgpout, out[k].name)
  <2>1. ~RowFrom(j, bgpout, out[k].name)
    <3>1. \A m \in DOMAIN bgpout : ~(m >= j)
      BY <1>1, <1>2
    <3> QED
      BY <3>1 DEF RowFrom
  <2>2. CASE k = i
    BY <1>1, <1>3, <2>1, <2>2 DEF FlagsSet
  <2>3. CASE k # i
    BY <1>1, <1>2, <1>3, <2>3 DEF FlagsSet
  <2> QED
    BY <2>2, <2>3
<1>4. CASE phase' = "inject"
  <2>1. ASSUME NEW k \in DOMAIN out, AllUp(seen, out[k].name)
        PROVE  \/ out[k].established = "true"
               \/ k >= i' /\ RowFrom(IF k = i' THEN j' ELSE 1, bgpout, out[k].name)
    BY <1>1, <1>3, <2>1
  <2> QED
    BY <1>1, <1>4, <2>1 DEF FlagsSet
<1>5. CASE phase' = "publish"
  <2>1. \A k \in DOMAIN out : ~(k >= i + 1)
    BY <1>1, <1>2, <1>5
  <2> QED
    BY <1>1, <1>3, <1>5, <2>1 DEF FlagsSet
<1> QED
  BY <1>1, <1>4, <1>5

\* Every step keeps the flags of the connections that are up.
LEMMA FlagsSetStep ==
    ASSUME Unrelated, IInv, FlagsSet, [Next]_vars
    PROVE  FlagsSet'
<1>1. CASE SessionChanges \/ UNCHANGED vars
  <2>1. UNCHANGED <<version, phase, out, bgpout, i, j, seen>>
    BY <1>1 DEF SessionChanges, vars
  <2> QED
    BY <2>1 DEF FlagsSet
<1>2. CASE FetchConnections
  <2>1. /\ phase' \in {"done", "sessions", "publish"} /\ UNCHANGED version
        /\ version = "7" => phase' = "sessions" \/ DOMAIN out' = {}
    BY <1>2 DEF FetchConnections
  <2> QED
    BY <2>1 DEF FlagsSet
<1>3. CASE FetchSessions
  <2>1. /\ phase' = "inject" /\ i' = 1 /\ j' = 1 /\ out' = out
        /\ DOMAIN out \subseteq Nat \ {0}
    BY <1>3 DEF FetchSessions, IInv, Lists
  <2>2. ASSUME NEW k \in DOMAIN out, AllUp(seen', out[k].name)
        PROVE  k >= 1 /\ RowFrom(1, bgpout', out[k].name)
    <3>1. PICK s \in DOMAIN seen' : seen'[s].conn = out[k].name
      BY <2>1, <2>2 DEF AllUp, SessionsOf
    <3>2. seen' = sess /\ bgpout' = [n \in DOMAIN sess |-> RowOf(sess[n])]
      BY <1>3, <3>1 DEF FetchSessions, RowOf
    <3>3. sess[s] \in SessionRow /\ s \in Nat /\ s >= 1
      BY <3>1, <3>2 DEF IInv, Lists
    <3>4. /\ bgpout'[s] # ErrorRow /\ IsPrefix(out[k].name, bgpout'[s].name)
          /\ s \in DOMAIN bgpout'
      BY <3>1, <3>2, <3>3, RowTyped
    <3> QED
      BY <2>1, <3>3, <3>4 DEF RowFrom
  <2> QED
    BY <2>1, <2>2 DEF FlagsSet
<1>4. CASE Publish
  <2>1. UNCHANGED <<version, out, seen>> /\ phase = "publish" /\ phase' = "done"
    BY <1>4 DEF Publish
  <2> QED
    BY <2>1 DEF FlagsSet
<1> QED
  BY <1>1, <1>2, <1>3, <1>4, FlagsSetInject, FlagsSetNextConnection DEF Next, Agent

\* With items of their own the section holds the flag of every connection, if they
\* could be read.
LEMMA SectionHoldsFlags ==
    ASSUME OwnItems, IInv, Judged, ConnectionsRead, NEW name \in NamesOf(conns)
    PROVE  \E k \in DOMAIN out : /\ out[k].name = name
                                 /\ (State(name) = "OK") = (out[k].established = "true")
<1>1. /\ phase = "done" /\ conns # <<>> /\ DOMAIN out = DOMAIN conns /\ Named = DOMAIN out
      /\ \A k \in DOMAIN out : out[k].name = conns[k].name /\ out[k].name \in Names
      /\ \A k, m \in DOMAIN conns : conns[k].name = conns[m].name => k = m
  <2>1. /\ DOMAIN out = 1 .. Len(out) /\ DOMAIN conns = 1 .. Len(conns)
        /\ \A k, m \in DOMAIN conns : conns[k].name = conns[m].name => k = m
        /\ \A k \in DOMAIN out : out[k] \in OutRow
    BY DEF IInv, Lists
  <2>2. \A k \in DOMAIN out : out[k].name \in Names
    BY <2>1 DEF OutRow, ConnectionsRead
  <2>3. /\ Len(out) = Len(conns)
        /\ \A k \in DOMAIN out : out[k].name = conns[k].name
    <3>1. ~(Len(out) = 1 /\ out[1].name = Nameless)
      BY <2>1 DEF ConnectionsRead
    <3> QED
      BY <3>1 DEF Judged, IInv, Printed
  <2> QED
    BY <2>1, <2>2, <2>3 DEF Judged, Named, ConnectionsRead
<1>2. PICK k \in DOMAIN out : out[k].name = name
  BY <1>1 DEF NamesOf
<1>3. \A m \in DOMAIN out : Item(out[m].name) = Item(name) => m = k
  BY <1>1, <1>2 DEF OwnItems
<1>4. k <= k
  BY DEF IInv, Lists
<1>5. LastRow(Item(name)) = k
  <2>1. k \in Named /\ \A m \in Named : Item(out[m].name) = Item(name) => m = k
    BY <1>1, <1>2, <1>3
  <2> QED
    BY <1>2, <1>4, <2>1 DEF LastRow
<1>6. Item(name) \in DOMAIN section /\ section[Item(name)] = out[k].established
  BY <1>1, <1>2, <1>5 DEF IInv, SectionIsOut
<1> QED
  BY <1>2, <1>6 DEF State

-----------------------------------------------------------------------------
\* Every variable stays within its range, for any names, whatever the loop removes.
THEOREM TypeCorrect == Spec => []TypeOK
  BY Invariance, PTL DEF IInv

\* No service is OK without an established session of its own connection, if no
\* connection's name is the beginning of another's session (peer and peer2: the run
\* MCBgpSessionsPrefix) and no two share the first word, which is all the check sees.
THEOREM OkMeansEstablished ==
    ASSUME Unrelated, OwnItems
    PROVE  Spec => []OkIsEstablished
<1>1. ASSUME IInv PROVE OkIsEstablished
  <2> SUFFICES ASSUME JudgedBySessions, NEW name \in NamesOf(conns), State(name) = "OK"
               PROVE  \E k \in SessionsOf(seen, name) : seen[k].established = "true"
    BY DEF OkIsEstablished
  <2>0. ConnectionsRead
    <3> SUFFICES ASSUME ~ConnectionsRead PROVE FALSE
      OBVIOUS
    <3>1. /\ out \in Seq(OutRow) /\ DOMAIN out = 1 .. Len(out) /\ DOMAIN conns = 1 .. Len(conns)
          /\ \A k \in DOMAIN conns : conns[k] \in Connections
      BY <1>1 DEF IInv, Lists
    <3>2. \A k \in DOMAIN conns : conns[k].name # Nameless
      BY <3>1, NamesAssumption DEF Connections, Nameless
    <3>3. Len(out) = 1 /\ out[1].name = Nameless
      <4>1. ~(Len(out) = Len(conns) /\ \A k \in DOMAIN out : out[k].name = conns[k].name)
        BY <3>1, <3>2 DEF ConnectionsRead
      <4> QED
        BY <1>1, <4>1 DEF JudgedBySessions, Judged, IInv, Printed
    <3>4. Named = {}
      BY <3>1, <3>3 DEF Named
    <3>5. DOMAIN section = {}
      BY <1>1, <3>4 DEF JudgedBySessions, Judged, IInv, SectionIsOut
    <3> QED
      BY <3>5 DEF State
  <2>1. PICK k \in DOMAIN out : out[k].name = name /\ out[k].established = "true"
    BY <1>1, <2>0, SectionHoldsFlags DEF JudgedBySessions
  <2>2. PICK s \in DOMAIN seen : /\ seen[s].established = "true"
                                 /\ IsPrefix(name, SessionName(seen[s]))
    BY <1>1, <2>1 DEF JudgedBySessions, IInv, FlagsEarned
  <2>3. seen[s] \in SessionRow
    BY <1>1 DEF IInv, Lists
  <2>4. name \in Names /\ seen[s].conn \in Names /\ seen[s].suffix \in Endings
    BY <1>1, <2>1, <2>3, <2>0 DEF IInv, TypeOK, SessionRow, ConnectionsRead
  <2>5. name = seen[s].conn
    BY <2>2, <2>4 DEF Unrelated, SessionName
  <2> QED
    BY <2>2, <2>5 DEF SessionsOf
<1> QED
  BY <1>1, Invariance, PTL

\* Once the connections were read, one all of whose sessions were established is OK,
\* under the same conditions on the names: removing rows from the list under the loop
\* never loses the last one.
THEOREM EstablishedMeansOk ==
    ASSUME Unrelated, OwnItems
    PROVE  Spec => []EstablishedIsOk
<1>1. Init => FlagsSet
  BY DEF Init, FlagsSet
<1>2. IInv /\ FlagsSet /\ [Next]_vars => FlagsSet'
  BY FlagsSetStep
<1>3. ASSUME IInv, FlagsSet PROVE EstablishedIsOk
  <2> SUFFICES ASSUME JudgedBySessions, ConnectionsRead,
                      NEW name \in NamesOf(conns), AllUp(seen, name)
               PROVE  State(name) = "OK"
    BY DEF EstablishedIsOk, AllUp
  <2> QED
    BY <1>3, SectionHoldsFlags DEF JudgedBySessions, Judged, FlagsSet
<1> QED
  BY <1>1, <1>2, <1>3, Invariance, PTL DEF Spec
=============================================================================

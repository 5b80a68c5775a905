------------------------ MODULE HostMonitoringProofs ------------------------
(***************************************************************************)
(* Proofs about HostMonitoring: an inductive invariant (what the agent     *)
(* holds is what this device answered in this cycle, the section is made   *)
(* of it and the results of the section), what the checks of each module   *)
(* return, and from both the properties of every service.                  *)
(***************************************************************************)
EXTENDS HostMonitoring, LengthCodecProofs, FiniteSetTheorems

-----------------------------------------------------------------------------
(* The inductive invariant.                                                *)

\* What a device of the module may answer to a call.
Answers(call) == {Failed} \cup {Reply(call, dev) : dev \in Devices}

\* What the agent has holds: every reply is one a device of the module may give, of
\* this very device as long as it has not changed, and under WiFi of its driver.
AskedOK ==
    /\ asked = [call \in DOMAIN asked |-> asked[call]]
    /\ \A call \in DOMAIN asked : asked[call] \in Answers(call)
    /\ ~changed => \A call \in DOMAIN asked : asked[call] \in {Failed, Reply(call, device)}
    /\ module = "wifi" => \A call \in DOMAIN asked : asked[call] = Failed \/ call[1] = device.driver

\* There is a section only once every call was made, and it is made of the replies.
SectionOK ==
    /\ phase \in {"asking", "section", "checked"}
    /\ phase = "asking" => section = <<>>
    /\ phase # "asking" => Due = {} /\ section \in Sections

\* The results are those of this cycle: none before the checks, then what the checks
\* make of the section; those of the firewall also read the value store.
ResultsOK ==
    /\ results = [item \in DOMAIN results |-> results[item]]
    /\ phase # "checked" => \A item \in DOMAIN results : results[item] = "pending"
    /\ (phase = "checked" /\ section = <<>>) =>
            \A item \in DOMAIN results : results[item] = "stale"
    /\ (phase = "checked" /\ section # <<>> /\ module # "firewall") =>
            \A item \in DOMAIN results : results[item] = Outcome(item, section[1])
    /\ (phase = "checked" /\ section # <<>> /\ module = "firewall") =>
            \A item \in DOMAIN results : results[item] \in {"UNKNOWN", "ignored", "CRIT", "OK"}

\* The inductive invariant, but for the calls made (CallsOK).
HInv ==
    /\ module \in DOMAIN Rulesets /\ rule \in Rulesets[module]
    /\ device \in Devices
    /\ cycle \in 1 .. MaxCycles[module]
    /\ AskedOK
    /\ SectionOK
    /\ ResultsOK

\* It holds at first.
LEMMA HInit == Init => HInv
  BY ModulesMonitored DEF Init, HInv, AskedOK, SectionOK, ResultsOK, NoFields

\* It survives a call, whatever the reply.
LEMMA AskKeeps ==
    ASSUME HInv, NEW r \in {Failed, Reply(NextCall, device)}, phase = "asking",
           asked' = Field(NextCall, r) ++ asked,
           UNCHANGED <<config, changed, section, results, phase, cycle, device>>
    PROVE  HInv'
<1>1. module' = module /\ rule' = rule /\ device' = device
  BY DEF config
<1>2. Devices' = Devices /\ \A call : Answers(call)' = Answers(call)
       /\ Reply(call, device)' = Reply(call, device)
  BY <1>1 DEF Devices, Answers, Reply
<1>3. AskedOK'
  <2>1. DOMAIN asked' = {NextCall} \cup DOMAIN asked
    BY DEF ++, Field
  <2>2. \A call \in DOMAIN asked' : asked'[call] = IF call = NextCall THEN r ELSE asked[call]
    BY DEF ++, Field
  <2>3. asked' = [call \in DOMAIN asked' |-> asked'[call]]
    BY DEF ++, Field
  <2>4. \A call \in DOMAIN asked' : asked'[call] \in Answers(call)
    BY <2>1, <2>2 DEF HInv, AskedOK, Answers
  <2>5. ~changed => \A call \in DOMAIN asked' : asked'[call] \in {Failed, Reply(call, device)}
    BY <2>1, <2>2 DEF HInv, AskedOK
  <2>6. ASSUME module = "wifi"
        PROVE \A call \in DOMAIN asked' : asked'[call] = Failed \/ call[1] = device.driver
    <3>1. \A call : Reply(call, device) = Failed \/ call[1] = device.driver
      BY <2>6 DEF Reply, WifiReply
    <3> QED BY <2>1, <2>2, <2>6, <3>1 DEF HInv, AskedOK
  <2> QED
    BY <1>1, <1>2, <2>3, <2>4, <2>5, <2>6 DEF AskedOK
<1>4. SectionOK' /\ ResultsOK'
  BY <1>1 DEF HInv, SectionOK, ResultsOK
<1> QED
  BY <1>1, <1>2, <1>3, <1>4 DEF HInv

\* It survives every step.
LEMMA HStep == HInv /\ [Next]_vars => HInv'
<1> SUFFICES ASSUME HInv, [Next]_vars PROVE HInv'
  OBVIOUS
<1>1. module' = module /\ rule' = rule
  BY DEF Next, vars, config, Change, Ask, AskInVain, PrintSection, Discover, CheckServices,
    NextCycle
<1>2. Devices' = Devices /\ \A call : Answers(call)' = Answers(call)
  BY <1>1 DEF Devices, Answers, Reply
<1>2a. cycle' \in 1 .. MaxCycles[module]
  BY ModulesMonitored DEF HInv, Next, vars, Change, Ask, AskInVain, PrintSection, Discover,
    CheckServices, NextCycle
<1>2b. ASSUME device' = device PROVE \A call : Reply(call, device)' = Reply(call, device)
  BY <1>1, <1>2b DEF Reply
<1>3. ASSUME asked' = asked PROVE Due' = Due /\ Sections' = Sections
  BY <1>1, <1>3 DEF Due, Calls, Sections
<1>a. CASE Change
  <2>1. UNCHANGED <<asked, section, results, phase, store>> /\ device' \in Devices /\ changed'
        /\ (module = "wifi" => device'.driver = device.driver)
    BY <1>a DEF Change
  <2>2. AskedOK'
    BY <1>1, <1>2, <2>1 DEF HInv, AskedOK
  <2>3. SectionOK'
    BY <1>3, <2>1 DEF HInv, SectionOK
  <2>4. ResultsOK'
    BY <1>a, <1>1, <2>1 DEF HInv, ResultsOK, Change
  <2> QED
    BY <1>1, <1>2, <1>2a, <2>1, <2>2, <2>3, <2>4 DEF HInv
<1>b. CASE Ask
  BY <1>b, AskKeeps DEF Ask, Answers, HInv
<1>c. CASE AskInVain
  BY <1>c, AskKeeps DEF AskInVain, Answers, HInv
<1>d. CASE PrintSection
  <2>1. UNCHANGED <<asked, device, changed, results, store>> /\ section' \in Sections /\ Due = {}
         /\ phase' = "section"
    BY <1>d DEF PrintSection
  <2>2. AskedOK'
    BY <1>1, <1>2, <1>2b, <2>1 DEF HInv, AskedOK
  <2>3. SectionOK'
    BY <1>3, <2>1 DEF HInv, SectionOK
  <2>4. ResultsOK'
    BY <1>d, <2>1 DEF HInv, ResultsOK, PrintSection
  <2> QED
    BY <1>1, <1>2, <1>2a, <2>1, <2>2, <2>3, <2>4 DEF HInv
<1>e. CASE Discover
  <2>1. UNCHANGED <<asked, device, changed, section, phase>> /\ phase = "section"
    BY <1>e DEF Discover
  <2>2. AskedOK'
    BY <1>1, <1>2, <1>2b, <2>1 DEF HInv, AskedOK
  <2>3. SectionOK'
    BY <1>3, <2>1 DEF HInv, SectionOK
  <2>4. ResultsOK'
    <3>1. results' = results ++ [item \in Discovered(section[1]) |-> "pending"]
      BY <1>e DEF Discover
    <3>2. \A item \in DOMAIN results : results[item] = "pending"
      BY <2>1 DEF HInv, ResultsOK
    <3>3. \A item \in DOMAIN results' : results'[item] = "pending"
      BY <3>1, <3>2 DEF ++
    <3>4. results' = [item \in DOMAIN results' |-> results'[item]]
      BY <3>1 DEF ++
    <3> QED
      BY <2>1, <3>3, <3>4 DEF ResultsOK
  <2> QED
    BY <1>1, <1>2, <1>2a, <2>1, <2>2, <2>3, <2>4 DEF HInv
<1>f. CASE CheckServices
  <2>1. UNCHANGED <<asked, device, changed, section>> /\ phase = "section" /\ phase' = "checked"
    BY <1>f DEF CheckServices
  <2>2. AskedOK'
    BY <1>1, <1>2, <1>2b, <2>1 DEF HInv, AskedOK
  <2>3. SectionOK'
    BY <1>3, <2>1 DEF HInv, SectionOK
  <2>4. ResultsOK'
    <3>1. results' = [item \in DOMAIN results |->
                      IF section = <<>> THEN "stale" ELSE Outcome(item, section[1])]
      BY <1>f DEF CheckServices
    <3>2. module # "firewall" => \A item : Outcome(item, section[1])' = Outcome(item, section[1])
      BY <1>1, <2>1 DEF Outcome
    <3>3. ASSUME module = "firewall", NEW item
          PROVE  Outcome(item, section[1]) \in {"UNKNOWN", "ignored", "CRIT", "OK"}
      BY <3>3 DEF Outcome, FirewallCheck
    <3> QED
      BY <1>1, <2>1, <3>1, <3>2, <3>3 DEF ResultsOK
  <2> QED
    BY <1>1, <1>2, <1>2a, <2>1, <2>2, <2>3, <2>4 DEF HInv
<1>g. CASE NextCycle
  <2>1. asked' = NoFields /\ section' = <<>> /\ phase' = "asking" /\ device' = device
    BY <1>g DEF NextCycle
  <2>2. AskedOK'
    BY <1>2, <2>1 DEF HInv, AskedOK, NoFields
  <2>3. SectionOK'
    BY <2>1 DEF SectionOK
  <2>4. ResultsOK'
    BY <1>g, <2>1 DEF HInv, ResultsOK, NextCycle
  <2> QED
    BY <1>1, <1>2, <1>2a, <2>1, <2>2, <2>3, <2>4 DEF HInv
<1>h. CASE UNCHANGED vars
  <2>1. UNCHANGED <<asked, device, changed, section, phase, results, store, rule, module>>
    BY <1>h DEF vars
  <2>2. AskedOK'
    BY <1>1, <1>2, <1>2b, <2>1 DEF HInv, AskedOK
  <2>3. SectionOK'
    BY <1>3, <2>1 DEF HInv, SectionOK
  <2>4. ResultsOK'
    <3>1. \A item : Outcome(item, section[1])' = Outcome(item, section[1])
      BY <2>1 DEF Outcome
    <3> QED
      BY <2>1, <3>1 DEF HInv, ResultsOK
  <2> QED
    BY <1>1, <1>2, <1>2a, <2>1, <2>2, <2>3, <2>4 DEF HInv
<1> QED
  BY <1>a, <1>b, <1>c, <1>d, <1>e, <1>f, <1>g, <1>h DEF Next

-----------------------------------------------------------------------------
(* WireGuard.                                                              *)

\* The state of a service, written out.
LEMMA WorstChain ==
    ASSUME NEW S
    PROVE  Worst(S) = IF "crash" \in S THEN "crash"
                      ELSE IF "ignored" \in S THEN "ignored"
                      ELSE IF "CRIT" \in S THEN "CRIT"
                      ELSE IF "UNKNOWN" \in S THEN "UNKNOWN"
                      ELSE IF "WARN" \in S THEN "WARN"
                      ELSE IF "OK" \in S THEN "OK" ELSE "UNKNOWN"
  BY DEF Worst, SelectInSeq, Severity, Min

\* A set of naturals has a least element.
LEMMA MinIn ==
    ASSUME NEW K \in SUBSET Nat, K # {}
    PROVE  Min(K) \in K /\ \A k \in K : Min(K) <= k
<1> SUFFICES \E k \in K : \A l \in K : k <= l
  BY DEF Min
<1> SUFFICES ASSUME \A k \in K : \E l \in K : l < k PROVE FALSE
  OBVIOUS
<1> DEFINE N == {n \in Nat : \A k \in K : k >= n}
<1>1. 0 \in N
  OBVIOUS
<1>2. \A n \in N : n + 1 \in N
  OBVIOUS
<1>3. N = Nat
  BY <1>1, <1>2, NumbersByInduction
<1>4. PICK k \in K : TRUE
  OBVIOUS
<1>5. k + 1 \in N
  BY <1>3
<1> QED
  BY <1>4, <1>5

\* A module with one call has made it once there is a section.
LEMMA OneCall ==
    ASSUME HInv, phase # "asking",
           module \in {"ospf", "vrrp", "file", "health", "license", "ntp", "wireguard", "firewall"}
    PROVE  /\ "print" \in DOMAIN asked
           /\ asked["print"] = Failed \/ asked["print"] \in Devices
<1>1. Calls = <<"print">>
  BY DEF Calls
<1>2. Due = {} /\ AskedOK
  BY DEF HInv, SectionOK
<1>3. "print" \in DOMAIN asked
  BY <1>1, <1>2 DEF Due
<1>4. asked["print"] \in Answers("print")
  BY <1>2, <1>3 DEF AskedOK
<1> QED
  BY <1>3, <1>4 DEF Answers, Reply

\* A duration of no numbers.
LEMMA WgNoParts ==
    ASSUME NEW base
    PROVE WireguardInSeconds(<<>>, base) = base
<1> DEFINE it == CHOOSE g : g = [s \in SUBSET (DOMAIN <<>>) |->
                    IF s = {} THEN base
                    ELSE LET x == Max(s)
                         IN g[s \ {x}] + <<>>[x][1] * WireguardUnit[<<>>[x][2]]]
<1>1. WireguardInSeconds(<<>>, base) = it[DOMAIN <<>>]
  BY DEF WireguardInSeconds, FoldLeft, MapThenFoldSet
<1>2. DOMAIN <<>> = {}
  OBVIOUS
<1>3. \E g : g = [s \in SUBSET (DOMAIN <<>>) |->
                    IF s = {} THEN base
                    ELSE LET x == Max(s)
                         IN g[s \ {x}] + <<>>[x][1] * WireguardUnit[<<>>[x][2]]]
  <2>1. [s \in SUBSET {} |-> base] = [s \in SUBSET (DOMAIN <<>>) |->
                    IF s = {} THEN base
                    ELSE LET x == Max(s)
                         IN [t \in SUBSET {} |-> base][s \ {x}]
                            + <<>>[x][1] * WireguardUnit[<<>>[x][2]]]
    BY <1>2
  <2> QED BY <2>1
<1>4. it = [s \in SUBSET (DOMAIN <<>>) |->
                    IF s = {} THEN base
                    ELSE LET x == Max(s)
                         IN it[s \ {x}] + <<>>[x][1] * WireguardUnit[<<>>[x][2]]]
  BY <1>3
<1> QED BY <1>1, <1>2, <1>4

\* A duration of one number: the fold over the numbers makes one step.
LEMMA WgOnePart ==
    ASSUME NEW base, NEW p
    PROVE WireguardInSeconds(<<p>>, base) = base + p[1] * WireguardUnit[p[2]]
<1> DEFINE G(g) == [s \in SUBSET (DOMAIN <<p>>) |->
                    IF s = {} THEN base
                    ELSE LET x == Max(s)
                         IN g[s \ {x}] + <<p>>[x][1] * WireguardUnit[<<p>>[x][2]]]
           it == CHOOSE g : g = G(g)
           h == [s \in SUBSET {1} |-> IF s = {} THEN base ELSE base + p[1] * WireguardUnit[p[2]]]
<1>1. WireguardInSeconds(<<p>>, base) = it[DOMAIN <<p>>]
  BY DEF WireguardInSeconds, FoldLeft, MapThenFoldSet
<1>2. DOMAIN <<p>> = {1} /\ Max({1}) = 1
  BY DEF Max
<1>3. h = G(h)
  <2>1. \A s \in SUBSET {1} : s = {} \/ s = {1}
    OBVIOUS
  <2>2. {1} \ {1} = {} /\ {} \in SUBSET {1} /\ {1} \in SUBSET {1}
    OBVIOUS
  <2>3. h[{}] = base /\ h[{1}] = base + p[1] * WireguardUnit[p[2]]
    BY <2>2
  <2>4. G(h) = [s \in SUBSET {1} |-> IF s = {} THEN base
                    ELSE LET x == Max(s)
                         IN h[s \ {x}] + <<p>>[x][1] * WireguardUnit[<<p>>[x][2]]]
    BY <1>2
  <2>5. G(h)[{}] = h[{}]
    BY <2>2, <2>3, <2>4
  <2>6. G(h)[{1}] = h[{1}]
    <3>1. G(h)[{1}] = h[{1} \ {1}] + <<p>>[1][1] * WireguardUnit[<<p>>[1][2]]
      BY <1>2, <2>2, <2>4, Zenon
    <3>2. <<p>>[1] = p
      OBVIOUS
    <3> QED BY <2>2, <2>3, <3>1, <3>2, Zenon
  <2>7. DOMAIN G(h) = SUBSET {1} /\ DOMAIN h = SUBSET {1}
    BY <2>4
  <2>8. \A s \in SUBSET {1} : G(h)[s] = h[s]
    BY <2>1, <2>5, <2>6, Zenon
  <2>9. G(h) = [s \in SUBSET {1} |-> G(h)[s]] /\ h = [s \in SUBSET {1} |-> h[s]]
    BY <2>4
  <2> HIDE DEF G, h
  <2> QED BY <2>8, <2>9
<1>4. it = G(it)
  BY <1>3
<1>5. {1} \ {1} = {} /\ {} \in SUBSET {1} /\ {1} \in SUBSET {1} /\ {1} # {}
  OBVIOUS
<1>6. it[{}] = base
  BY <1>2, <1>4, <1>5
<1> HIDE DEF it
<1>7. it[{1}] = it[{}] + <<p>>[1][1] * WireguardUnit[<<p>>[1][2]]
  BY <1>2, <1>4, <1>5
<1> QED BY <1>1, <1>2, <1>6, <1>7

\* What the durations of the devices are in seconds.
LEMMA WgDurations ==
    /\ ParseDuration(Never) = {}
    /\ ParseDuration(Late) = {300}
    /\ ParseDuration(Old) = {86401}
<1>1. ParseDuration(Never) = {}
  BY DEF ParseDuration
<1>2. Late.parts = <<>> /\ Late.clock = <<0, 5, 0>> /\ Late.rest = FALSE
      /\ Late # Never
  BY DEF Late, Duration, Never
<1>3. Old.parts = <<<<1, "d">>>> /\ Old.clock = <<0, 0, 1>> /\ Old.rest = FALSE
      /\ Old # Never
  BY DEF Old, Duration, Never
<1>4. WireguardClockSeconds(<<0, 5, 0>>) = 300 /\ WireguardClockSeconds(<<0, 0, 1>>) = 1
  BY DEF WireguardClockSeconds
<1>5. ParseDuration(Late) = {300}
  <2>1. ParseDuration(Late) = {WireguardInSeconds(Late.parts, WireguardClockSeconds(Late.clock))}
    BY <1>2 DEF ParseDuration
  <2>2. WireguardClockSeconds(Late.clock) = 300
    BY <1>2, <1>4
  <2>3. WireguardInSeconds(Late.parts, 300) = 300
    BY <1>2, WgNoParts
  <2> QED BY <2>1, <2>2, <2>3
<1>6. ParseDuration(Old) = {86401}
  <2>1. ParseDuration(Old) = {WireguardInSeconds(Old.parts, WireguardClockSeconds(Old.clock))}
    BY <1>3 DEF ParseDuration
  <2>2. WireguardClockSeconds(Old.clock) = 1
    BY <1>3, <1>4
  <2>3. WireguardInSeconds(Old.parts, 1) = 86401
    <3>1. WireguardUnit["d"] = 86400
      BY DEF WireguardUnit
    <3> DEFINE p == <<1, "d">>
    <3>2. p[1] = 1 /\ p[2] = "d"
      OBVIOUS
    <3>3. WireguardInSeconds(<<p>>, 1) = 1 + p[1] * WireguardUnit[p[2]]
      BY WgOnePart
    <3>4. WireguardInSeconds(<<p>>, 1) = 86401
      BY <3>1, <3>2, <3>3
    <3> QED BY <1>3, <3>4
  <2> QED BY <2>1, <2>2, <2>3
<1> QED BY <1>1, <1>5, <1>6

\* The rows of a device.
IsPeerRow(row) == row.disabled \in BOOLEAN /\ row.handshake \in Handshakes

\* The rows of one peer.
LEMMA WgRowsWith ==
    ASSUME NEW names, NEW key, NEW handshakes \in SUBSET Handshakes, NEW counted,
           NEW r \in WireguardRowsWith(names, key, handshakes, counted)
    PROVE  IsPeerRow(r)
<1>1. PICK n \in names, e \in BOOLEAN, h \in handshakes :
         r = WireguardRow(n[1], n[2], key, e, h, counted)
  BY DEF WireguardRowsWith
<1> QED BY <1>1 DEF WireguardRow, IsPeerRow

\* A device lists one or two peers.
LEMMA WgRows ==
    ASSUME NEW d \in WireguardDevices
    PROVE  /\ d = <<d[1]>> \/ d = <<d[1], d[2]>>
           /\ \A k \in DOMAIN d : IsPeerRow(d[k])
<1> DEFINE A == WireguardRowsWith({<<"office", "p1">>, <<"", "p1">>}, "k1", Handshakes,
                                  {"in", "out"})
           B == WireguardRowsWith({<<"office", "p2">>, <<"", "">>}, "k2", {Never, Recent},
                                  {"in"})
<1>1. \A r \in A : IsPeerRow(r)
  BY WgRowsWith
<1>2. \A r \in B : IsPeerRow(r)
  <2>1. {Never, Recent} \in SUBSET Handshakes
    BY DEF Handshakes
  <2> QED BY <2>1, WgRowsWith
<1>3. d \in UpToTwo(A, B)
  BY DEF WireguardDevices
<1> HIDE DEF A, B
<1>3a. (\E a \in A : d = <<a>>) \/ (\E a \in A, b \in B : d = <<a, b>>)
  BY <1>3 DEF UpToTwo
<1>4. CASE \E a \in A : d = <<a>>
  <2>1. PICK a \in A : d = <<a>>
    BY <1>4
  <2> QED BY <1>1, <2>1
<1>5. CASE \E a \in A, b \in B : d = <<a, b>>
  <2>1. PICK a \in A, b \in B : d = <<a, b>>
    BY <1>5
  <2> QED BY <1>1, <1>2, <2>1
<1> QED BY <1>3a, <1>4, <1>5

\* A peer with an item of its own is judged by its own row, which has no handshake or
\* an old one.
LEMMA DeadPeer == HInv => DeadPeerIsNotOk
<1> SUFFICES ASSUME HInv, module = "wireguard", Checked, rule = NoFields,
                    NEW row \in ToSet(asked.print),
                    ~row.disabled,
                    \A r \in ToSet(asked.print) : PeerItem(r) = PeerItem(row) => r = row,
                    row.handshake # Recent,
                    PeerItem(row) \in DOMAIN results
             PROVE  results[PeerItem(row)] \in {"WARN", "CRIT"}
  BY DEF DeadPeerIsNotOk
<1> DEFINE item == PeerItem(row)
           rows == asked["print"]
           K == {k \in DOMAIN rows : PeerItem(rows[k]) = item}
<1>1. section = WireguardSection(asked) /\ section # <<>>
       /\ results[item] = WireguardCheck(item, rule, section[1])
  BY DEF HInv, SectionOK, ResultsOK, Checked, Sections, Outcome
<1>2. rows # Failed /\ RowsOf(rows) = rows
  BY <1>1 DEF WireguardSection, RowsOf
<1>3. rows \in WireguardDevices
  BY <1>2, OneCall DEF Checked, Devices
<1>4. DOMAIN rows \in SUBSET Nat /\ IsPeerRow(row)
  <2>1. DOMAIN rows = {1} \/ DOMAIN rows = {1, 2}
    BY <1>3, WgRows
  <2> QED BY <1>3, <2>1, WgRows DEF ToSet
<1>5. section[1] = [i \in {PeerItem(r) : r \in ToSet(rows)} |->
                 LET k == Min({k \in DOMAIN rows : PeerItem(rows[k]) = i})
                 IN [disabled |-> rows[k].disabled, bytes |-> rows[k].key,
                  counted |-> rows[k].counted, last_handshake |-> ParseDuration(rows[k].handshake)]]
  BY <1>1, <1>2 DEF WireguardSection
<1>6. item \in DOMAIN section[1] /\ section[1][item].disabled = FALSE
      /\ section[1][item].last_handshake = ParseDuration(row.handshake)
  <2>1. PICK j \in DOMAIN rows : row = rows[j]
    BY DEF ToSet
  <2>2. K \in SUBSET Nat /\ j \in K
    BY <1>4, <2>1
  <2>3. Min(K) \in K
    BY <2>2, MinIn
  <2>4. rows[Min(K)] = row
    BY <2>3 DEF ToSet
  <2>5. item \in {PeerItem(r) : r \in ToSet(rows)}
    BY <2>1 DEF ToSet
  <2>6. row.disabled = FALSE
    BY <1>4 DEF IsPeerRow
  <2> HIDE DEF item
  <2>7. /\ item \in DOMAIN section[1]
        /\ section[1][item].disabled = rows[Min(K)].disabled
        /\ section[1][item].last_handshake = ParseDuration(rows[Min(K)].handshake)
    BY <1>5, <2>5
  <2> HIDE DEF K
  <2> QED
    BY <2>3, <2>4, <2>6, <2>7
<1>7. Params(rule, WireguardDefaults) = WireguardDefaults
  BY DEF Params, ++, NoFields, WireguardDefaults
<1>8. results[item] = IF section[1][item].last_handshake = {} THEN "CRIT"
                      ELSE Upper(CHOOSE n \in section[1][item].last_handshake : TRUE,
                                 Fixed(300, 900))
  BY <1>1, <1>6, <1>7 DEF WireguardCheck, WireguardDefaults
<1> DEFINE age == section[1][item].last_handshake
<1>9. age \in {{}, {300}, {86401}}
  <2>1. row.handshake \in Handshakes
    BY <1>4 DEF IsPeerRow
  <2>2. age = ParseDuration(row.handshake)
    BY <1>6
  <2>3. row.handshake \in {Never, Late, Old}
    BY <2>1 DEF Handshakes
  <2> HIDE DEF age
  <2> QED BY <2>2, <2>3, WgDurations
<1> HIDE DEF item, age
<1> QED
  <2>1. (CHOOSE n \in {300} : TRUE) = 300 /\ (CHOOSE n \in {86401} : TRUE) = 86401
    OBVIOUS
  <2>2. results[item] = IF age = {} THEN "CRIT"
                      ELSE Upper(CHOOSE n \in age : TRUE, Fixed(300, 900))
    BY <1>8 DEF age
  <2> QED BY <1>9, <2>1, <2>2 DEF Upper, Fixed, item

-----------------------------------------------------------------------------
(* Board, clock and license.                                               *)

\* Nothing bad is hidden by an OK.
LEMMA WorstOK ==
   ASSUME NEW S, Worst(S) = "OK"
   PROVE \A s \in {"crash", "ignored", "CRIT", "UNKNOWN", "WARN"} : s \notin S
  BY WorstChain

\* What is known of a board once there is a section.
LEMMA BoardAnswers ==
    ASSUME HInv, phase # "asking", module = "board"
    PROVE  /\ "print" \in DOMAIN asked /\ "routerboard" \in DOMAIN asked
           /\ asked["print"] = Failed \/ \E b \in Boards : asked["print"] = [version |-> b.version]
           /\ asked["routerboard"] \in {Failed, NoFields} \/ \E b \in Boards :
                asked["routerboard"] =
                  (Field("rb-current-firmware",
                         b.current) ++ Field("rb-upgrade-firmware", b.upgrade))
<1>1. Calls = <<"print", "routerboard">> /\ Devices = Boards
  BY DEF Calls, BoardCalls, Devices
<1>2. Due = {} /\ AskedOK
  BY DEF HInv, SectionOK
<1>3. "print" \in DOMAIN asked /\ "routerboard" \in DOMAIN asked
  BY <1>1, <1>2 DEF Due
<1>4. asked["print"] \in Answers("print") /\ asked["routerboard"] \in Answers("routerboard")
  BY <1>2, <1>3 DEF AskedOK
<1>5. asked["print"] = Failed \/ \E b \in Boards : asked["print"] = BoardReply("print", b)
  BY <1>1, <1>4 DEF Answers, Reply
<1>6. asked["routerboard"] = Failed
       \/ \E b \in Boards : asked["routerboard"] = BoardReply("routerboard", b)
  BY <1>1, <1>4 DEF Answers, Reply
<1>7. asked["print"] = Failed \/ \E b \in Boards : asked["print"] = [version |-> b.version]
  BY <1>5 DEF BoardReply
<1>8. \A b : BoardReply("routerboard", b) = IF b.current = 0 THEN NoFields ELSE
      (Field("rb-current-firmware", b.current) ++ Field("rb-upgrade-firmware", b.upgrade))
  BY DEF BoardReply
<1> QED
  BY <1>3, <1>6, <1>7, <1>8

\* The part of InfoOkIsReal about boards.
LEMMA BoardOk ==
    ASSUME HInv, AllAccepted, module = "board", Checked, DOMAIN rule \subseteq {"min_version"},
           NEW item \in DOMAIN results, results[item] = "OK"
    PROVE  /\ (asked.print # Failed /\ "min_version" \in DOMAIN rule
                 /\ rule.min_version > 0) => asked.print.version >= rule.min_version
           /\ (asked.routerboard \notin {Failed, NoFields}) =>
                  ~InfoBelow(asked.routerboard["rb-current-firmware"],
                              asked.routerboard["rb-upgrade-firmware"])
<1> DEFINE sec == section[1]
           p == Params(rule, BoardDefaults)
           low == IF BelowMinimum(sec, p.min_version) THEN "WARN" ELSE "OK"
           pending == IF UpgradePending(sec) THEN p.firmware_upgrade_pending ELSE "OK"
<1>1. section \in {BoardSection(asked)} /\ results[item] = BoardCheck(rule, sec)
  BY DEF HInv, SectionOK, ResultsOK, Checked, Sections, Outcome
<1>2. sec = (BoardFields(asked["print"]) ++ BoardFields(asked["routerboard"]))
  BY <1>1 DEF BoardSection
<1>3. p.firmware_upgrade_pending = "WARN"
      /\ p.min_version = IF "min_version" \in DOMAIN rule THEN rule.min_version ELSE 0
  BY DEF Params, ++, BoardDefaults
<1>4. low # "WARN" /\ pending # "WARN"
  <2>1. Worst({low, pending}) = "OK"
    BY <1>1 DEF BoardCheck
  <2> HIDE DEF low, pending
  <2> QED BY <2>1, WorstOK
<1>5. ~BelowMinimum(sec, p.min_version) /\ ~UpgradePending(sec)
  BY <1>3, <1>4
<1>6. phase # "asking"
  BY DEF Checked
<1>7. ASSUME "min_version" \in DOMAIN rule, rule.min_version > 0, asked.print # Failed
      PROVE  asked.print.version >= rule.min_version
  <2>1. PICK b \in Boards : asked["print"] = [version |-> b.version]
    BY <1>6, <1>7, BoardAnswers
  <2>2. "version" \in DOMAIN sec /\ sec["version"] = b.version
    BY <1>2, <1>7, <2>1 DEF ++, BoardFields
  <2>3. b.version \in {1, 2, -1} /\ rule.min_version \in Int /\ p.min_version = rule.min_version
    BY <1>3, <1>7 DEF Boards, Odd, HInv, AllAccepted, Accepted
  <2>4. ~(Odd \in {b.version, rule.min_version} \/ InfoBelow(b.version, rule.min_version))
    BY <1>5, <1>7, <2>2, <2>3 DEF BelowMinimum
  <2> QED BY <2>1, <2>3, <2>4 DEF InfoBelow, Odd
<1>8. ASSUME asked.routerboard \notin {Failed, NoFields}
      PROVE  ~InfoBelow(asked.routerboard["rb-current-firmware"],
                         asked.routerboard["rb-upgrade-firmware"])
  <2>1. PICK b \in Boards :
          asked["routerboard"] =
            (Field("rb-current-firmware", b.current) ++ Field("rb-upgrade-firmware", b.upgrade))
    BY <1>6, <1>8, BoardAnswers DEF NoFields
  <2>2. BoardFields(asked["routerboard"]) = asked["routerboard"]
    BY <1>8 DEF BoardFields
  <2>3. asked["print"] = Failed \/ \E c \in Boards : asked["print"] = [version |-> c.version]
    BY <1>6, BoardAnswers
  <2>4. DOMAIN BoardFields(asked["print"]) \subseteq {"version"}
    BY <2>3 DEF BoardFields, NoFields
  <2>5. /\ "rb-current-firmware" \in DOMAIN sec
        /\ sec["rb-current-firmware"] = asked["routerboard"]["rb-current-firmware"]
        /\ sec["rb-upgrade-firmware"] = asked["routerboard"]["rb-upgrade-firmware"]
    BY <1>2, <2>1, <2>2, <2>4 DEF ++, Field
  <2> QED BY <1>5, <2>5 DEF UpgradePending
<1> QED BY <1>7, <1>8

\* The offsets of the devices that are 0.2 s or more, as they are read.
LEMMA OffsetValues ==
    /\ OffsetSeconds(Edge) = -200000000 /\ Edge.unit # "other"
    /\ OffsetSeconds(Whole) = 300000000 /\ Whole.unit # "other"
    /\ OffsetSeconds(Micro) = 200000000 /\ Micro.unit # "other"
<1>1. Scale("s") = 1000000 /\ Scale("us") = 1
  BY SMT DEF Scale
<1>2. Edge.number = -200000 /\ Edge.unit # "other"
  BY SMT DEF Edge, Offset
<1>3. Whole.number = 300 /\ Whole.unit = "s"
  BY SMT DEF Whole, Offset
<1>4. Micro.number = 200000000 /\ Micro.unit = "us"
  BY SMT DEF Micro, Offset
<1>5. \A t : OffsetSeconds(t) = t.number * Scale(t.unit)
  BY SMT DEF OffsetSeconds
<1>6. Scale(Edge.unit) = 1000
  <2>1. Edge.unit = ""
    BY SMT DEF Edge, Offset
  <2>2. Scale("") = 1000
    BY SMT DEF Scale
  <2> QED BY Zenon, <2>1, <2>2
<1>7. OffsetSeconds(Edge) = -200000000
  BY SMT, <1>2, <1>5, <1>6
<1>8. OffsetSeconds(Whole) = 300000000
  BY SMT, <1>1, <1>3, <1>5
<1>9. OffsetSeconds(Micro) = 200000000
  BY SMT, <1>1, <1>4, <1>5
<1> QED BY SMT, <1>2, <1>3, <1>4, <1>7, <1>8, <1>9

\* Upper levels of the form the interface takes.
LEMMA UpperOfFixed ==
    ASSUME NEW value, NEW w, NEW c, w \in Int, c \in Int, value \in Int
    PROVE  Upper(value, Fixed(w, c))
           = IF value >= c THEN "CRIT" ELSE IF value >= w THEN "WARN" ELSE "OK"
  BY DEF Upper, Fixed

\* Such an offset is not OK.
LEMMA OffsetFar ==
    ASSUME NEW ns \in {-200000000, 300000000, 200000000}
    PROVE Upper(IF ns < 0 THEN -ns ELSE ns, Fixed(200000000, 500000000)) = "WARN"
<1> DEFINE w == 200000000
           c == 500000000
           v == IF ns < 0 THEN -ns ELSE ns
<1>1. w \in Int /\ c \in Int /\ v \in Int /\ v >= w /\ ~(v >= c)
  BY SMT
<1> HIDE DEF w, c, v
<1>2. Upper(v, Fixed(w, c)) = "WARN"
  BY SMT, <1>1, UpperOfFixed
<1> QED BY SMT, <1>2 DEF w, c, v

\* An error row is neither an enabled clock nor a license.
LEMMA NoEnabled == ~Enabled(ErrorRow) /\ "level" \notin DOMAIN ErrorRow
<1>1. DOMAIN ErrorRow = {"message"}
  BY DEF ErrorRow
<1> QED BY <1>1 DEF Enabled

\* The part of InfoOkIsReal about clocks.
LEMMA NtpOk ==
    ASSUME HInv, module = "ntp", Checked, DOMAIN rule \subseteq {"min_version"},
           NEW item \in DOMAIN results, results[item] = "OK"
    PROVE  /\ asked.print # Failed /\ asked.print.enabled
           /\ asked.print.status = "synchronized"
           /\ asked.print.offset.unit = "other" \/ asked.print.offset.real < 200000000
<1> DEFINE sec == section[1]
           p == Params(rule, NtpDefaults)
           text == sec.offset
           ns == OffsetSeconds(text)
           synced == IF sec.status = "synchronized" THEN "OK" ELSE p.not_synced_state
           off == IF text.unit = "other" THEN "OK"
                   ELSE Upper(IF ns < 0 THEN -ns ELSE ns, p.offset_levels)
           far == IF sec.stratum < 0 THEN "OK" ELSE Upper(sec.stratum, p.stratum_upper)
<1>1. section \in {NtpSection(asked)} /\ results[item] = NtpCheck(rule, sec)
  BY DEF HInv, SectionOK, ResultsOK, Checked, Sections, Outcome
<1>2. sec = Printed(asked["print"])
  BY <1>1 DEF NtpSection
<1>3. /\ p.disabled_state = "WARN" /\ p.not_synced_state = "WARN"
      /\ p.offset_levels = Fixed(200000000, 500000000)
  BY SMT DEF Params, ++, NtpDefaults
<1>4. results[item] = IF ~Enabled(sec) THEN p.disabled_state ELSE Worst({synced, off, far})
  BY <1>1 DEF NtpCheck
<1>5. Enabled(sec) /\ synced # "WARN" /\ off \notin {"WARN", "CRIT"}
  <2> HIDE DEF synced, off, far
  <2> QED BY SMT, <1>3, <1>4, WorstOK
<1>6. asked["print"] # Failed
  BY SMT, <1>2, <1>5, NoEnabled DEF Printed
<1>7. sec = asked["print"] /\ asked["print"] \in Clocks
  <2>1. asked["print"] \in Devices
    BY <1>6, OneCall DEF Checked
  <2> QED BY <1>2, <1>6, <2>1 DEF Printed, Devices
<1>8. sec.enabled /\ sec.status = "synchronized"
  BY <1>3, <1>5 DEF Enabled
<1>9. text \in Offsets
  BY <1>7 DEF Clocks
<1>10. text.unit = "other" \/ text.real < 200000000
  <2>1. text \in {Within, Edge, Whole, Micro, NoOffset}
    BY SMT, <1>9 DEF Offsets
  <2>2. CASE text = Within
    <3>1. Within.real = 199999000
      BY SMT DEF Within, Offset
    <3> QED BY SMT, <2>2, <3>1
  <2>3. CASE text \in {Edge, Whole, Micro}
    <3>1. ns \in {-200000000, 300000000, 200000000} /\ text.unit # "other"
      BY SMT, <2>3, OffsetValues
    <3>2. off = Upper(IF ns < 0 THEN -ns ELSE ns, p.offset_levels)
      BY SMT, <3>1
    <3> HIDE DEF ns, off, p
    <3>3. off = "WARN"
      BY SMT, <1>3, <3>1, <3>2, OffsetFar
    <3> QED BY SMT, <1>5, <3>3
  <2>6. CASE text = NoOffset
    BY SMT, <2>6 DEF NoOffset, Offset
  <2> QED BY SMT, <2>1, <2>2, <2>3, <2>6
<1> QED BY SMT, <1>6, <1>7, <1>8, <1>10

\* The part of InfoOkIsReal about licenses.
LEMMA LicenseOk ==
    ASSUME HInv, module = "license", Checked, DOMAIN rule \subseteq {"min_version"},
           NEW item \in DOMAIN results, results[item] = "OK"
    PROVE  /\ asked.print # Failed /\ "system-id" \in DOMAIN asked.print
           /\ asked.print.level # "free"
<1> DEFINE sec == section[1]
           p == Params(rule, LicenseDefaults)
<1>1. section \in {LicenseSection(asked)} /\ results[item] = LicenseCheck(rule, sec)
  BY DEF HInv, SectionOK, ResultsOK, Checked, Sections, Outcome
<1>2. sec = Printed(asked["print"])
  BY <1>1 DEF LicenseSection
<1>3. p.free_state = "CRIT"
  BY DEF Params, ++, LicenseDefaults
<1>4. "level" \in DOMAIN sec /\ sec.level # "free"
  BY <1>1, <1>3 DEF LicenseCheck
<1>5. asked["print"] # Failed
  BY SMT, <1>2, <1>4, NoEnabled DEF Printed
<1>6. sec = asked["print"] /\ asked["print"] \in Licenses
  <2>1. asked["print"] \in Devices
    BY <1>5, OneCall DEF Checked
  <2> QED BY <1>2, <1>5, <2>1 DEF Printed, Devices
<1>7. \A d \in Licenses : "level" \in DOMAIN d => "system-id" \in DOMAIN d
  BY DEF Licenses, ++, Field
<1> QED BY <1>4, <1>5, <1>6, <1>7

\* InfoOkIsReal follows from the invariant.
LEMMA InfoOk == AllAccepted /\ HInv => InfoOkIsReal
<1> SUFFICES ASSUME AllAccepted, HInv, Checked, DOMAIN rule \subseteq {"min_version"},
                    NEW item \in DOMAIN results, results[item] = "OK"
             PROVE CASE module = "board" ->
                    /\ (asked.print # Failed /\ "min_version" \in DOMAIN rule
                          /\ rule.min_version > 0) => asked.print.version >= rule.min_version
                    /\ (asked.routerboard \notin {Failed, NoFields}) =>
                          ~InfoBelow(asked.routerboard["rb-current-firmware"],
                                      asked.routerboard["rb-upgrade-firmware"])
              [] module = "ntp" ->
                    /\ asked.print # Failed /\ asked.print.enabled
                    /\ asked.print.status = "synchronized"
                    /\ asked.print.offset.unit = "other" \/ asked.print.offset.real < 200000000
              [] module = "license" ->
                    asked.print # Failed /\ "system-id" \in DOMAIN asked.print
                    /\ asked.print.level # "free"
              [] OTHER -> TRUE
  BY DEF InfoOkIsReal
<1>1. CASE module = "board"
  BY <1>1, BoardOk
<1>2. CASE module = "ntp"
  BY <1>2, NtpOk
<1>3. CASE module = "license"
  BY <1>3, LicenseOk
<1> QED BY <1>1, <1>2, <1>3

-----------------------------------------------------------------------------
(* UPS.                                                                    *)

\* What up to three sequences are when joined.
LEMMA FlattenSmall ==
    ASSUME NEW ss
    PROVE  /\ Len(ss) = 0 => FlattenSeq(ss) = ss
           /\ Len(ss) = 1 => FlattenSeq(ss) = ss[1]
           /\ Len(ss) = 2 => FlattenSeq(ss) = ss[1] \o ss[2]
           /\ Len(ss) = 3 => FlattenSeq(ss) = (ss[1] \o ss[2]) \o ss[3]
<1>1. Len(ss) = 0 => FlattenSeq(ss) = ss
  BY DEF FlattenSeq
<1>2. ASSUME NEW n \in {1, 2, 3}, Len(ss) = n
      PROVE  FlattenSeq(ss) = IF n = 1 THEN ss[1] ELSE IF n = 2 THEN ss[1] \o ss[2]
                                                       ELSE (ss[1] \o ss[2]) \o ss[3]
  <2>1. n \in Nat /\ n # 0
    OBVIOUS
  <2>2. PICK f : Joined(ss, n, f) /\ FlattenSeq(ss) = f[n]
    BY <1>2, <2>1, FlattenIsJoined
  <2>3. \A i \in 1 .. n : f[i] = IF i = 1 THEN ss[i] ELSE f[i - 1] \o ss[i]
    BY <2>2 DEF Joined
  <2>4. ASSUME NEW i \in Nat, NEW j \in Nat, i <= n, i = j + 1, j # 0 PROVE f[i] = f[j] \o ss[i]
    <3>1. i \in 1 .. n /\ i # 1 /\ i - 1 = j
      BY <2>4
    <3>2. f[i] = f[i - 1] \o ss[i]
      BY <2>3, <3>1, Zenon
    <3> QED BY <3>1, <3>2, Zenon
  <2>5. f[1] = ss[1]
    BY <2>3
  <2>6. ASSUME n >= 2 PROVE f[2] = f[1] \o ss[2]
    <3>1. 2 \in Nat /\ 1 \in Nat /\ 2 <= n /\ 2 = 1 + 1 /\ 1 # 0
      BY <2>6
    <3> QED BY <2>4, <3>1, Zenon
  <2>7. ASSUME n >= 3 PROVE f[3] = f[2] \o ss[3]
    <3>1. 3 \in Nat /\ 2 \in Nat /\ 3 <= n /\ 3 = 2 + 1 /\ 2 # 0
      BY <2>7
    <3> QED BY <2>4, <3>1, Zenon
  <2>8. CASE n = 1
    BY <2>2, <2>5, <2>8
  <2>9. CASE n = 2
    <3>1. FlattenSeq(ss) = f[2] /\ n >= 2 /\ n # 1
      BY <2>2, <2>9
    <3> QED BY <2>5, <2>6, <2>9, <3>1, Zenon
  <2>10. CASE n = 3
    <3>1. FlattenSeq(ss) = f[3] /\ n >= 2 /\ n >= 3 /\ n # 1 /\ n # 2
      BY <2>2, <2>10
    <3> QED BY <2>5, <2>6, <2>7, <2>10, <3>1, Zenon
  <2> QED BY <2>8, <2>9, <2>10
<1>3. Len(ss) = 1 => FlattenSeq(ss) = ss[1]
  BY <1>2
<1>4. Len(ss) = 2 => FlattenSeq(ss) = ss[1] \o ss[2]
  BY <1>2
<1>5. Len(ss) = 3 => FlattenSeq(ss) = (ss[1] \o ss[2]) \o ss[3]
  BY <1>2
<1> QED BY <1>1, <1>3, <1>4, <1>5

\* Two sequences of one element.
LEMMA TwoJoined == ASSUME NEW a, NEW b PROVE <<a>> \o <<b>> = <<a, b>>
<1> DEFINE S == {a, b}
           s == <<a>> \o <<b>>
<1>1. <<a>> \in Seq(S) /\ <<b>> \in Seq(S)
  OBVIOUS
<1>2. s \in Seq(S) /\ Len(s) = 2 /\ s[1] = a /\ s[2] = b
  BY <1>1
<1>3. <<a, b>> \in Seq(S) /\ Len(<<a, b>>) = 2
  OBVIOUS
<1> HIDE DEF s
<1>4. s = <<a, b>>
  BY <1>2, <1>3
<1> QED BY <1>4 DEF s

\* A device of the UPS module has two of them, of which one may be disabled.
LEMMA UpsDevice ==
    ASSUME NEW d \in UpsDevices
    PROVE  \E e \in BOOLEAN, m1 \in UpsAnswers, m2 \in UpsAnswers : d = UpsPair(e, m1, m2)
<1> DEFINE A == {OnLine, NotOnLine, Weak, NoFields}
           B == {OnLine, OnBattery, LowRuntime}
<1>1. UpsDevices = {UpsPair(e, m1, m2) : e \in BOOLEAN, m1 \in A, m2 \in B}
  BY DEF UpsDevices
<1>2. A \subseteq UpsAnswers /\ B \subseteq UpsAnswers
  BY DEF UpsAnswers
<1> HIDE DEF A, B
<1>3. \E e \in BOOLEAN, m1 \in A, m2 \in B : d = UpsPair(e, m1, m2)
  BY <1>1
<1> QED BY <1>2, <1>3

\* What the list and the monitor calls answer.
LEMMA UpsAsked ==
    ASSUME HInv, module = "ups", phase # "asking"
    PROVE  /\ "print" \in DOMAIN asked
           /\ \/ asked["print"] = Failed
              \/ \E e \in BOOLEAN :
                    asked["print"] = <<[name |-> "u1", disabled |-> e],
                                       [name |-> "u2", disabled |-> FALSE]>>
<1>1. Calls = UpsCalls(asked) /\ Devices = UpsDevices
  BY DEF Calls, Devices
<1>2. Due = {} /\ AskedOK
  BY DEF HInv, SectionOK
<1>3. "print" \in DOMAIN asked
  <2>1. CASE "print" \notin DOMAIN asked
    <3>1. Calls = <<"print">> \o <<>>
      BY <1>1, <2>1 DEF UpsCalls
    <3>2. Calls = <<"print">>
      BY <3>1
    <3> QED BY <1>2, <3>2 DEF Due
  <2> QED BY <2>1
<1>4. asked["print"] \in Answers("print")
  BY <1>2, <1>3 DEF AskedOK
<1>5. asked["print"] = Failed \/ \E d \in UpsDevices : asked["print"] = UpsReply("print", d)
  BY <1>1, <1>4 DEF Answers, Reply
<1>6. ASSUME NEW d \in UpsDevices
      PROVE \E e \in BOOLEAN :
        UpsReply("print", d) =
          <<[name |-> "u1", disabled |-> e], [name |-> "u2", disabled |-> FALSE]>>
  <2>1. PICK e \in BOOLEAN, m1 \in UpsAnswers, m2 \in UpsAnswers : d = UpsPair(e, m1, m2)
    BY UpsDevice
  <2>2. UpsReply("print", d) = [k \in DOMAIN d |-> [name |-> d[k].name, disabled |-> d[k].disabled]]
    BY DEF UpsReply
  <2>3. DOMAIN d = {1, 2} /\ d[1].name = "u1" /\ d[1].disabled = e /\ d[2].name = "u2"
         /\ d[2].disabled = FALSE
    BY <2>1 DEF Ups, UpsPair
  <2>4. UpsReply("print", d) = [k \in {1, 2} |-> IF k = 1 THEN [name |-> "u1", disabled |-> e]
                                                 ELSE [name |-> "u2", disabled |-> FALSE]]
    BY <2>2, <2>3
  <2> QED BY <2>4
<1> QED BY <1>3, <1>5, <1>6

\* The UPS that get a monitor call of their own.
LEMMA UpsMonitored ==
    ASSUME NEW e \in BOOLEAN, NEW rows,
      rows = <<[name |-> "u1", disabled |-> e], [name |-> "u2", disabled |-> FALSE]>>
    PROVE  Monitored(rows) = IF e THEN <<"u2">> ELSE <<"u1", "u2">>
<1> DEFINE ss == [k \in DOMAIN rows |-> IF rows[k].disabled THEN <<>> ELSE <<rows[k].name>>]
<1>1. ss = <<IF e THEN <<>> ELSE <<"u1">>, <<"u2">>>>
  <2>1. DOMAIN rows = {1, 2} /\ rows[1].disabled = e /\ rows[1].name = "u1"
         /\ rows[2].disabled = FALSE /\ rows[2].name = "u2"
    OBVIOUS
  <2>2. ss = [k \in {1, 2} |-> IF k = 1 THEN IF e THEN <<>> ELSE <<"u1">> ELSE <<"u2">>]
    BY <2>1
  <2> QED BY <2>2
<1>2. Monitored(rows) = FlattenSeq(ss)
  BY DEF Monitored
<1> HIDE DEF ss
<1>3. Len(ss) = 2 /\ ss[1] = (IF e THEN <<>> ELSE <<"u1">>) /\ ss[2] = <<"u2">>
  BY <1>1
<1>4. FlattenSeq(ss) = ss[1] \o ss[2]
  BY <1>3, FlattenSmall
<1>5. CASE e
  <2>1. ss[1] = <<>> /\ <<>> \o <<"u2">> = <<"u2">>
    BY <1>3, <1>5
  <2> QED BY <1>2, <1>3, <1>4, <1>5, <2>1
<1>6. CASE ~e
  <2>0. ss[1] = <<"u1">>
    BY <1>3, <1>6
  <2>1. <<"u1">> \o <<"u2">> = <<"u1", "u2">>
    BY TwoJoined
  <2> QED BY <1>2, <1>3, <1>4, <1>6, <2>0, <2>1
<1> QED BY <1>5, <1>6

\* A runtime of one number.
LEMMA UpsOnePart ==
    ASSUME NEW base, NEW p
    PROVE UpsInSeconds(<<p>>, base) = base + PartSeconds(p)
<1> DEFINE G(g) == [s \in SUBSET (DOMAIN <<p>>) |->
                    IF s = {} THEN base
                    ELSE LET x == Max(s)
                         IN g[s \ {x}] + PartSeconds(<<p>>[x])]
           it == CHOOSE g : g = G(g)
           h == [s \in SUBSET {1} |-> IF s = {} THEN base ELSE base + PartSeconds(p)]
<1>1. UpsInSeconds(<<p>>, base) = it[DOMAIN <<p>>]
  BY DEF UpsInSeconds, FoldLeft, MapThenFoldSet
<1>2. DOMAIN <<p>> = {1} /\ Max({1}) = 1
  BY DEF Max
<1>3. h = G(h)
  <2>1. \A s \in SUBSET {1} : s = {} \/ s = {1}
    OBVIOUS
  <2>2. {1} \ {1} = {} /\ {} \in SUBSET {1} /\ {1} \in SUBSET {1}
    OBVIOUS
  <2>3. h[{}] = base /\ h[{1}] = base + PartSeconds(p)
    BY <2>2
  <2>4. G(h) = [s \in SUBSET {1} |-> IF s = {} THEN base
                    ELSE LET x == Max(s)
                         IN h[s \ {x}] + PartSeconds(<<p>>[x])]
    BY <1>2
  <2>5. G(h)[{}] = h[{}]
    BY <2>2, <2>3, <2>4
  <2>6. G(h)[{1}] = h[{1}]
    <3>1. G(h)[{1}] = h[{1} \ {1}] + PartSeconds(<<p>>[1])
      BY <1>2, <2>2, <2>4, Zenon
    <3>2. <<p>>[1] = p
      OBVIOUS
    <3> QED BY <2>2, <2>3, <3>1, <3>2, Zenon
  <2>7. DOMAIN G(h) = SUBSET {1} /\ DOMAIN h = SUBSET {1}
    BY <2>4
  <2>8. \A s \in SUBSET {1} : G(h)[s] = h[s]
    BY <2>1, <2>5, <2>6, Zenon
  <2>9. G(h) = [s \in SUBSET {1} |-> G(h)[s]] /\ h = [s \in SUBSET {1} |-> h[s]]
    BY <2>4
  <2> HIDE DEF G, h
  <2> QED BY <2>8, <2>9
<1>4. it = G(it)
  BY <1>3
<1>5. {1} \ {1} = {} /\ {} \in SUBSET {1} /\ {1} \in SUBSET {1} /\ {1} # {}
  OBVIOUS
<1>6. it[{}] = base
  BY <1>2, <1>4, <1>5
<1> HIDE DEF it
<1>7. it[{1}] = it[{}] + PartSeconds(<<p>>[1])
  BY <1>2, <1>4, <1>5
<1> QED BY <1>1, <1>2, <1>6, <1>7

\* The runtime the devices give.
LEMMA UpsRuntime == RuntimeSeconds(Runtime(<<<<20, "m">>>>, <<>>)) = 1200
<1> DEFINE p == <<20, "m">>
           text == Runtime(<<p>>, <<>>)
<1>1. text.parts = <<p>> /\ text.clock = <<>>
  BY DEF Runtime
<1>2. UpsClockSeconds(text.clock) = 0
  BY <1>1 DEF UpsClockSeconds
<1>3. PartSeconds(p) = 1200
  <2>1. p[1] = 20 /\ p[2] = "m" /\ UpsUnit["m"] = 60
    BY DEF UpsUnit
  <2> QED BY <2>1 DEF PartSeconds
<1> HIDE DEF p, text
<1>4. UpsInSeconds(<<p>>, 0) = 1200
  BY <1>3, UpsOnePart
<1>5. RuntimeSeconds(text) = 1200
  BY <1>1, <1>2, <1>4 DEF RuntimeSeconds
<1> QED BY <1>5 DEF p, text

\* A CRIT among states is the result.
LEMMA WorstIsCrit ==
    ASSUME NEW S, "CRIT" \in S, "crash" \notin S, "ignored" \notin S
    PROVE  Worst(S) = "CRIT"
  BY WorstChain

\* Only OK is OK.
LEMMA WorstIsOk ==
    ASSUME NEW S, "OK" \in S, S \subseteq {"OK"}
    PROVE  Worst(S) = "OK"
  BY WorstChain

\* Values a UPS may have are within the default levels.
LEMMA UpsLevels ==
    ASSUME NEW v \in Int
    PROVE  LET p == UpsDefaults IN
           /\ v >= 50 => Lower(v, p.battery_charge_lower) = "OK"
           /\ v >= 600 => Lower(v, p.runtime_lower) = "OK"
           /\ v < 80 => Upper(v, p.load_upper) = "OK"
           /\ "temperature_upper" \notin DOMAIN p
           /\ p.on_battery_state = "CRIT" /\ p.no_data_state = "CRIT"
  BY DEF UpsDefaults, Lower, Upper, Fixed

\* The check of the three answers that matter.
LEMMA UpsOnLine ==
    Flags(OnLine, UpsDefaults) \cup Measured(OnLine, UpsDefaults) = {"OK"}
<1> DEFINE m == OnLine
<1>1. /\ DOMAIN m = {"on-line", "battery-charge", "runtime-left"} /\ m["on-line"] = TRUE
      /\ m["battery-charge"] = 100 /\ m["runtime-left"] = Runtime(<<<<20, "m">>>>, <<>>)
  BY DEF OnLine, Field, ++
<1> HIDE DEF m
<1>2. Flags(m, UpsDefaults) = {"OK"}
  BY <1>1 DEF Flags, RunsOnBattery, Flag
<1>3. Measured(m, UpsDefaults) = {"OK"}
  <2>1. Lower(m["battery-charge"], UpsDefaults.battery_charge_lower) = "OK"
    BY <1>1, UpsLevels
  <2>2. Lower(RuntimeSeconds(m["runtime-left"]), UpsDefaults.runtime_lower) = "OK"
    <3>1. RuntimeSeconds(m["runtime-left"]) = 1200
      BY <1>1, UpsRuntime
    <3> QED BY <3>1, UpsLevels
  <2> QED BY <1>1, <2>1, <2>2 DEF Measured
<1> QED BY <1>2, <1>3 DEF m

\* A UPS on battery has a state that is CRIT.
LEMMA UpsOnBattery ==
    LET S == Flags(OnBattery, UpsDefaults) \cup Measured(OnBattery, UpsDefaults)
    IN  S \subseteq {"OK", "CRIT"} /\ "CRIT" \in S
<1> DEFINE m == OnBattery
<1>1. /\ DOMAIN m = {"on-battery", "battery-charge", "load"} /\ m["on-battery"] = TRUE
      /\ m["battery-charge"] = 80 /\ m["load"] = 79
  BY DEF OnBattery, Field, ++
<1> HIDE DEF m
<1>2. Flags(m, UpsDefaults) = {"OK", "CRIT"}
  BY <1>1, UpsLevels DEF Flags, RunsOnBattery, Flag
<1>3. Measured(m, UpsDefaults) = {"OK"}
  <2>1. Lower(m["battery-charge"], UpsDefaults.battery_charge_lower) = "OK"
    BY <1>1, UpsLevels
  <2>2. Upper(m["load"], UpsDefaults.load_upper) = "OK"
    BY <1>1, UpsLevels
  <2> QED BY <1>1, <2>1, <2>2 DEF Measured
<1> QED BY <1>2, <1>3 DEF m

\* So has one that is not on line.
LEMMA UpsNotOnLine ==
    LET S == Flags(NotOnLine, UpsDefaults) \cup Measured(NotOnLine, UpsDefaults)
    IN  S \subseteq {"OK", "CRIT"} /\ "CRIT" \in S
<1> DEFINE m == NotOnLine
<1>1. /\ DOMAIN m = {"on-line", "battery-charge"} /\ m["on-line"] = FALSE
      /\ m["battery-charge"] = 50
  BY DEF NotOnLine, Field, ++
<1> HIDE DEF m
<1>2. Flags(m, UpsDefaults) = {"OK", "CRIT"}
  BY <1>1, UpsLevels DEF Flags, RunsOnBattery, Flag
<1>3. Measured(m, UpsDefaults) = {"OK"}
  <2>1. Lower(m["battery-charge"], UpsDefaults.battery_charge_lower) = "OK"
    BY <1>1, UpsLevels
  <2> QED BY <1>1, <2>1 DEF Measured
<1> QED BY <1>2, <1>3 DEF m

\* A UPS is judged by the reply to its own call, whatever was asked before.
LEMMA UpsOwn == HInv => UpsJudgedByOwnMonitor
<1> SUFFICES ASSUME HInv, module = "ups", Checked, rule = NoFields,
                    NEW ups \in ToSet(asked.print), ~ups.disabled, ups.name \in DOMAIN results
             PROVE  /\ (asked[ups.name] \in {Failed, NoFields, OnBattery, NotOnLine}) =>
                          results[ups.name] = "CRIT"
                    /\ asked[ups.name] = OnLine => results[ups.name] = "OK"
  BY Zenon DEF UpsJudgedByOwnMonitor
<1> DEFINE rows == asked["print"]
           sec == section[1]
           n == ups.name
           mon == sec[n].monitor
           p == Params(rule, UpsDefaults)
<1>1. section = UpsSection(asked) /\ section # <<>> /\ results[n] = UpsCheck(n, rule, sec)
  BY DEF HInv, SectionOK, ResultsOK, Checked, Sections, Outcome
<1>2. rows # Failed /\ RowsOf(rows) = rows
  BY <1>1 DEF UpsSection, RowsOf
<1>3. PICK e \in BOOLEAN :
        rows = <<[name |-> "u1", disabled |-> e], [name |-> "u2", disabled |-> FALSE]>>
  BY <1>2, UpsAsked DEF Checked
<1>4. n \in ToSet(Monitored(rows))
  <2>1. Monitored(rows) = IF e THEN <<"u2">> ELSE <<"u1", "u2">>
    BY <1>3, UpsMonitored
  <2>2. \/ ups.name = "u1" /\ ups.disabled = e
        \/ ups.name = "u2"
    BY <1>3 DEF ToSet
  <2>3. "u1" \in ToSet(<<"u1", "u2">>) /\ "u2" \in ToSet(<<"u1", "u2">>) /\ "u2" \in ToSet(<<"u2">>)
    BY DEF ToSet
  <2> QED BY <2>1, <2>2, <2>3
<1>5. sec = [name \in {r.name : r \in ToSet(rows)} |->
               [disabled |-> (CHOOSE r \in ToSet(rows) : r.name = name).disabled,
                monitor |-> Monitor(rows, name, asked)]]
  BY <1>1, <1>2 DEF UpsSection
<1>6. n \in DOMAIN sec /\ mon = IF asked[n] = Failed THEN NoFields ELSE asked[n]
  <2>1. n \in DOMAIN sec /\ mon = Monitor(rows, n, asked)
    BY <1>4, <1>5
  <2> QED BY <1>4, <2>1 DEF Monitor
<1>7. p = UpsDefaults
  BY DEF Params, ++, NoFields, UpsDefaults
<1>8. results[n] = IF DOMAIN mon = {} THEN UpsDefaults.no_data_state
                   ELSE Worst(Flags(mon, UpsDefaults) \cup Measured(mon, UpsDefaults))
  BY <1>1, <1>6, <1>7 DEF UpsCheck
<1> HIDE DEF mon, n, sec
<1>9. CASE asked[n] \in {Failed, NoFields}
  <2>1. DOMAIN mon = {}
    BY <1>6, <1>9 DEF NoFields
  <2>2. results[n] = "CRIT"
    <3>1. UpsDefaults.no_data_state = "CRIT"
      BY DEF UpsDefaults
    <3> QED BY <1>8, <2>1, <3>1
  <2>3. asked[n] # OnLine
    <3>1. OnLine \in UpsAnswers
      BY DEF UpsAnswers
    <3>2. DOMAIN OnLine # DOMAIN NoFields
      BY DEF OnLine, Field, ++, NoFields
    <3> QED BY <1>9, <3>1, <3>2, FailedIsNoAnswer
  <2> QED BY <2>2, <2>3 DEF n
<1>10. CASE asked[n] \notin {Failed, NoFields}
  <2>0. mon = asked[n]
    BY <1>6, <1>10
  <2>1. CASE asked[n] = OnBattery
    <3>1. DOMAIN mon # {} /\ asked[n] # OnLine
      BY <2>0, <2>1 DEF OnBattery, OnLine, Field, ++
    <3> QED BY <1>8, <2>0, <2>1, <3>1, UpsOnBattery, WorstIsCrit DEF n
  <2>2. CASE asked[n] = NotOnLine
    <3>1. DOMAIN mon # {}
      BY <2>0, <2>2 DEF NotOnLine, Field, ++
    <3>2. asked[n] # OnLine
      BY <2>2 DEF NotOnLine, OnLine, Field, ++
    <3> QED BY <1>8, <2>0, <2>2, <3>1, <3>2, UpsNotOnLine, WorstIsCrit DEF n
  <2>3. CASE asked[n] = OnLine
    <3>1. DOMAIN mon # {}
      BY <2>0, <2>3 DEF OnLine, Field, ++
    <3>2. asked[n] # NotOnLine /\ asked[n] # OnBattery
      <4>1. DOMAIN OnLine # DOMAIN NotOnLine /\ DOMAIN OnLine # DOMAIN OnBattery
        BY DEF NotOnLine, OnBattery, OnLine, Field, ++
      <4> QED BY <2>3, <4>1
    <3> QED BY <1>8, <1>10, <2>0, <2>3, <3>1, <3>2, UpsOnLine, WorstIsOk DEF n
  <2> QED BY <1>10, <2>1, <2>2, <2>3 DEF n
<1> QED BY <1>9, <1>10

-----------------------------------------------------------------------------
(* What checks return.                                                     *)

\* The states of a service whose check did not fail.
States == {"OK", "WARN", "CRIT", "UNKNOWN"}

\* Where nothing raised, the result is a state.
LEMMA WorstState ==
    ASSUME NEW S, "crash" \notin S, "ignored" \notin S
    PROVE  Worst(S) \in States
  BY WorstChain DEF States

\* Levels the interface takes give a state.
LEMMA LevelStates ==
    ASSUME NEW v, NEW levels, levels.shape \in {"fixed", "no_levels"}
    PROVE  /\ Lower(v, levels) \in States
           /\ Upper(v, levels) \in States
  BY DEF States, Lower, Upper

\* The check of a neighbor gives a state.
LEMMA OspfStates ==
    ASSUME NEW item, NEW sec PROVE OspfCheck(item, rule, sec) \in States
<1> DEFINE ok == Params(rule, OspfDefaults).ok_states
           S == {Judgement(s, ok) : s \in sec[item]}
<1>1. \A s : Judgement(s, ok) \in States
  BY DEF Judgement, States
<1>2. "crash" \notin S /\ "ignored" \notin S
  <2> HIDE DEF ok
  <2> QED BY <1>1 DEF States
<1>3. OspfCheck(item, rule, sec) = IF item \notin DOMAIN sec THEN "CRIT" ELSE Worst(S)
  BY DEF OspfCheck
<1> HIDE DEF S
<1> QED BY <1>2, <1>3, WorstState DEF States

\* The check of a VRRP instance gives a state or fails.
LEMMA VrrpStates ==
    ASSUME NEW item, NEW sec PROVE VrrpCheck(item, sec) \in States \cup {"crash"}
  BY DEF VrrpCheck, VrrpState, States

\* The check of a file gives a state under levels that are a bare pair.
LEMMA FileStates ==
    ASSUME Accepted(rule), NEW item, NEW sec PROVE FileCheck(item, rule, sec) \in States
<1> DEFINE p == Params(rule, FileDefaults)
<1>1. p.file_age.shape = "tuple"
  <2>1. "file_age" \in DOMAIN FileDefaults
    BY DEF FileDefaults
  <2>2. FileDefaults.file_age = Legacy(90000, 176400)
    BY SMT DEF FileDefaults
  <2>3. FileDefaults.file_age.shape = "tuple"
    BY SMT, <2>2 DEF Legacy
  <2>4. p.file_age = IF "file_age" \in DOMAIN rule THEN rule.file_age ELSE FileDefaults.file_age
    BY <2>1 DEF Params, ++
  <2> QED BY SMT, <2>3, <2>4 DEF Accepted
<1> HIDE DEF p
<1>2. \A age : JudgedAge(age, p.file_age) \in States
  BY <1>1 DEF JudgedAge, States
<1>3. JudgedFile(sec[item], p) \in States
  BY <1>2 DEF JudgedFile, States
<1> QED BY <1>3 DEF FileCheck, States, p

\* The check of a sensor gives a state, or nothing.
LEMMA HealthStates ==
    ASSUME Accepted(rule), NEW item, NEW sec, DOMAIN sec \subseteq {"fan", "psu", "power", "poe"}
    PROVE HealthCheck(item, rule, sec) \in States \cup {"stale"}
<1> DEFINE p == Params(rule, HealthDefaults)
           what == item[1]
           data == sec[what][item[2]]
<1>1. p.lower.shape \in {"fixed", "no_levels", "tuple"}
  BY DEF Params, ++, HealthDefaults, Fixed, Accepted
<1> HIDE DEF p
<1>2. \A fan : CheckFan(fan, p) \in States
  <2>1. (IF p.lower.shape = "tuple" THEN Fixed(p.lower.warn, p.lower.crit)
         ELSE p.lower).shape \in {"fixed", "no_levels"}
    BY <1>1 DEF Fixed
  <2> QED BY <2>1, LevelStates DEF CheckFan, States
<1>3. \A state : CheckPsu(state, p) \in States
  BY DEF CheckPsu, States
<1>4. \A psu : CheckPower(psu, p) \in States
  BY WorstState DEF CheckPower
<1>5. CASE what \notin DOMAIN sec
  BY <1>5 DEF HealthCheck
<1>6. CASE what \in DOMAIN sec /\ item[2] \notin DOMAIN sec[what]
  BY <1>6 DEF HealthCheck, States
<1>7. CASE what \in DOMAIN sec /\ item[2] \in DOMAIN sec[what]
  <2>1. HealthCheck(item, rule, sec) = CASE what = "fan" -> CheckFan(data, p)
                       [] what = "psu" -> CheckPsu(data, p)
                       [] what = "power" -> CheckPower(data, p)
                       [] what = "poe" -> "OK"
    BY <1>7 DEF HealthCheck, p
  <2> HIDE DEF data, what
  <2>2. what \in {"fan", "psu", "power", "poe"}
    BY <1>7
  <2> QED BY <1>2, <1>3, <1>4, <2>1, <2>2 DEF States
<1> QED BY <1>5, <1>6, <1>7

\* What States holds.
LEMMA NoStateIsWorse == "crash" \notin States /\ "ignored" \notin States /\ "OK" \in States
 /\ "WARN" \in States
                        /\ "CRIT" \in States /\ "UNKNOWN" \in States
  BY DEF States

\* The worst of states is one.
LEMMA WorstOfStates ==
    ASSUME NEW S, S \subseteq States PROVE Worst(S) \in States
  BY WorstState, NoStateIsWorse

\* The checks of board, license and clock give a state.
LEMMA InfoStates ==
    ASSUME Accepted(rule), NEW sec
    PROVE  /\ BoardCheck(rule, sec) \in States
           /\ LicenseCheck(rule, sec) \in States
           /\ NtpCheck(rule, sec) \in States
<1>1. BoardCheck(rule, sec) \in States
  <2> DEFINE p == Params(rule, BoardDefaults)
  <2>1. p.firmware_upgrade_pending \in States
    BY DEF Params, ++, BoardDefaults, Accepted, StateKeys, States
  <2> HIDE DEF p
  <2>2. Worst({IF BelowMinimum(sec, p.min_version) THEN "WARN" ELSE "OK",
                IF UpgradePending(sec) THEN p.firmware_upgrade_pending ELSE "OK"}) \in States
    BY <2>1, WorstOfStates, NoStateIsWorse
  <2> QED BY <2>2, NoStateIsWorse DEF BoardCheck, p
<1>2. LicenseCheck(rule, sec) \in States
  <2> DEFINE p == Params(rule, LicenseDefaults)
  <2>1. p.free_state \in States /\ p.limited_upgrades_state \in States
    BY DEF Params, ++, LicenseDefaults, Accepted, StateKeys, States
  <2> HIDE DEF p
  <2> QED BY <2>1, NoStateIsWorse DEF LicenseCheck, p
<1>3. NtpCheck(rule, sec) \in States
  <2> DEFINE p == Params(rule, NtpDefaults)
  <2>1. p.not_synced_state \in States /\ p.disabled_state \in States
    BY SMT DEF Params, ++, NtpDefaults, Accepted, StateKeys, States
  <2>2. p.offset_levels.shape \in {"fixed", "no_levels"}
         /\ p.stratum_upper.shape \in {"fixed", "no_levels"}
    BY SMT DEF Params, ++, NtpDefaults, Fixed, Accepted, LevelKeys
  <2> HIDE DEF p
  <2> DEFINE ns == OffsetSeconds(sec.offset)
             a == IF sec.status = "synchronized" THEN "OK" ELSE p.not_synced_state
             b == IF sec.offset.unit = "other" THEN "OK"
                   ELSE Upper(IF ns < 0 THEN -ns ELSE ns, p.offset_levels)
             c == IF sec.stratum < 0 THEN "OK"
                   ELSE Upper(sec.stratum, p.stratum_upper)
  <2>3. {a, b, c} \subseteq States
    <3>1. a \in States
      BY <2>1, NoStateIsWorse
    <3> HIDE DEF ns
    <3>2. b \in States
      BY <2>2, NoStateIsWorse, LevelStates
    <3>3. c \in States
      BY <2>2, NoStateIsWorse, LevelStates
    <3> HIDE DEF a, b, c
    <3> QED BY <3>1, <3>2, <3>3
  <2>4. NtpCheck(rule, sec) = IF ~Enabled(sec) THEN p.disabled_state ELSE Worst({a, b, c})
    BY DEF NtpCheck, p
  <2> HIDE DEF a, b, c
  <2> QED BY <2>1, <2>3, <2>4, WorstOfStates
<1> QED BY <1>1, <1>2, <1>3

\* The check of a pool gives a state.
LEMMA PoolStates ==
    ASSUME Accepted(rule), NEW item, NEW sec PROVE PoolCheck(item, rule, sec) \in States
<1> DEFINE p == Params(rule, PoolDefaults)
<1>1. p.used_percent_upper.shape \in {"fixed", "no_levels"}
  BY DEF Params, ++, PoolDefaults, Fixed, Accepted, LevelKeys
<1>2. "free_lower" \in DOMAIN p => p.free_lower.shape \in {"fixed", "no_levels"}
  BY DEF Params, ++, PoolDefaults, Accepted, LevelKeys
<1> HIDE DEF p
<1>3. ASSUME NEW used, NEW size, NEW available PROVE Judged(used, size, available, p) \in States
  <2> DEFINE free == IF available # {} THEN CHOOSE n \in available : TRUE
                ELSE IF size > used THEN size - used ELSE 0
             a == Upper((100 * used) \div size, p.used_percent_upper)
             b == IF "free_lower" \in DOMAIN p THEN Lower(free, p.free_lower) ELSE "OK"
  <2>1. Judged(used, size, available, p) = Worst({a, b})
    BY DEF Judged
  <2>2. a \in States
    BY <1>1, LevelStates
  <2>3. b \in States
    <3> HIDE DEF free
    <3> QED BY <1>2, LevelStates, NoStateIsWorse
  <2> HIDE DEF a, b
  <2> QED BY <2>1, <2>2, <2>3, WorstOfStates
<1>4. Worst({}) \in States
  BY WorstOfStates
<1> DEFINE pool == sec[item]
           sizes == IF pool.total \ {0} # {} THEN pool.total ELSE PoolSize(pool.ranges)
<1>5. PoolCheck(item, rule, sec) = IF item \notin DOMAIN sec THEN Worst({})
         ELSE IF pool.used = {} \/ sizes = {} THEN "UNKNOWN"
            ELSE Judged(CHOOSE n \in pool.used : TRUE, CHOOSE n \in sizes : TRUE,
                        pool.available, p)
  BY DEF PoolCheck, p
<1> HIDE DEF pool, sizes
<1> QED BY <1>3, <1>4, <1>5, NoStateIsWorse

\* The check of a peer gives a state.
LEMMA WireguardStates ==
    ASSUME Accepted(rule), NEW item, NEW sec PROVE WireguardCheck(item, rule, sec) \in States
<1> DEFINE p == Params(rule, WireguardDefaults)
<1>1. p.handshake_age.shape \in {"fixed", "no_levels"}
  BY DEF Params, ++, WireguardDefaults, Fixed, Accepted, LevelKeys
<1>2. p.no_handshake_state \in States /\ p.disabled_state \in States
  BY DEF Params, ++, WireguardDefaults, Accepted, StateKeys, States
<1> HIDE DEF p
<1>3. \A v : Upper(v, p.handshake_age) \in States
  BY <1>1, LevelStates
<1>4. Worst({}) \in States
  BY WorstOfStates
<1> QED BY <1>2, <1>3, <1>4 DEF WireguardCheck, p

\* The check of an SSID gives a state.
LEMMA WifiStates ==
    ASSUME Accepted(rule), NEW item, NEW sec PROVE WifiCheck(item, rule, sec) \in States
<1> DEFINE p == Params(rule, WifiDefaults)
           keys == {"clients_upper", "clients_lower", "signal_avg_lower", "signal_min_lower"}
<1>1. \A key \in keys \cap DOMAIN p : p[key].shape \in {"fixed", "no_levels"}
  BY DEF Params, ++, WifiDefaults, Accepted, LevelKeys
<1>2. p.interface_down_state \in States
  BY DEF Params, ++, WifiDefaults, Accepted, StateKeys, States
<1> HIDE DEF p
<1>3. ASSUME NEW v, NEW key \in keys
      PROVE WifiAbove(v, p, key) \in States /\ WifiBelow(v, p, key) \in States
  BY <1>1, LevelStates, NoStateIsWorse DEF WifiAbove, WifiBelow
<1>4. ASSUME NEW s PROVE Signals(s, p) \in States
  <2> DEFINE avg == FoldLeft(+, 0, s) \div Len(s)
             low == Min(ToSet(s))
             a == WifiBelow(avg, p, "signal_avg_lower")
             b == WifiBelow(low, p, "signal_min_lower")
  <2>1. Signals(s, p) = IF s = <<>> THEN "OK" ELSE Worst({a, b})
    BY DEF Signals
  <2>2. a \in States /\ b \in States
    <3> HIDE DEF avg, low
    <3> QED BY <1>3
  <2> HIDE DEF a, b
  <2> QED BY <2>1, <2>2, WorstOfStates, NoStateIsWorse
<1> DEFINE ssid == sec[item]
           a == WifiAbove(ssid.clients, p, "clients_upper")
           b == WifiBelow(ssid.clients, p, "clients_lower")
           c == Signals(ssid.signals, p)
           d == IF \E r \in ssid.radios : ~r.up THEN p.interface_down_state ELSE "OK"
<1>5. WifiCheck(item, rule, sec) = IF item \notin DOMAIN sec THEN Worst({}) ELSE Worst({a, b, c, d})
  BY DEF WifiCheck, p
<1>6. a \in States /\ b \in States /\ c \in States /\ d \in States
  BY <1>2, <1>3, <1>4, NoStateIsWorse
<1> HIDE DEF a, b, c, d
<1> QED BY <1>5, <1>6, WorstOfStates

\* The check of a UPS gives a state.
LEMMA UpsStates ==
    ASSUME Accepted(rule), NEW item, NEW sec PROVE UpsCheck(item, rule, sec) \in States
<1> DEFINE p == Params(rule, UpsDefaults)
           mon == sec[item].monitor
<1>1. /\ p.on_battery_state \in States /\ p.low_battery_state \in States
      /\ p.replace_battery_state \in States /\ p.overload_state \in States
      /\ p.no_data_state \in States
  BY DEF Params, ++, UpsDefaults, Accepted, StateKeys, States
<1>2. /\ p.battery_charge_lower.shape \in {"fixed", "no_levels"}
      /\ p.runtime_lower.shape \in {"fixed", "no_levels"}
      /\ p.load_upper.shape \in {"fixed", "no_levels"}
  BY DEF Params, ++, UpsDefaults, Fixed, Accepted, LevelKeys
<1>3. "temperature_upper" \in DOMAIN p => p.temperature_upper.shape \in {"fixed", "no_levels"}
  BY DEF Params, ++, UpsDefaults, Accepted, LevelKeys
<1> HIDE DEF p, mon
<1>4. Flags(mon, p) \subseteq States
  BY <1>1, NoStateIsWorse DEF Flags
<1>5. Measured(mon, p) \subseteq States
  BY <1>2, <1>3, LevelStates, NoStateIsWorse DEF Measured
<1>6. Flags(mon, p) \cup Measured(mon, p) \subseteq States
  BY <1>4, <1>5
<1>7. Worst(Flags(mon, p) \cup Measured(mon, p)) \in States /\ Worst({}) \in States
  BY <1>6, WorstOfStates
<1>8. UpsCheck(item, rule, sec) = IF item \notin DOMAIN sec THEN Worst({})
             ELSE IF DOMAIN mon = {} THEN p.no_data_state
             ELSE Worst(Flags(mon, p) \cup Measured(mon, p))
  BY DEF UpsCheck, p, mon
<1> QED BY <1>1, <1>7, <1>8

\* The keys of a section of the health check.
LEMMA HealthKeys ==
    ASSUME NEW sec, <<sec>> = HealthSection(asked)
    PROVE  DOMAIN sec \subseteq {"fan", "psu", "power", "poe"}
<1>1. sec = <<sec>>[1]
  OBVIOUS
<1> DEFINE printed == {what \in {"fan", "psu", "power"} : Named(asked["print"], what) # {}}
           f == [what \in printed |->
                  CASE what = "fan" -> ParseFan(asked["print"]) [] what =
                    "psu" -> ParsePsu(asked["print"])
                    [] what = "power" -> ParsePower(asked["print"])]
           g == IF "poe-out-consumption" \in DOMAIN asked["print"].readings
                  THEN Field("poe", ParsePoe(asked["print"])) ELSE NoFields
<1>2. HealthSection(asked) =
        IF asked["print"] # Failed /\ ~asked["print"].whole THEN <<>>
        ELSE IF asked["print"] = Failed \/ DOMAIN asked["print"].readings = {} THEN <<NoFields>>
        ELSE <<(f ++ g)>>
  BY DEF HealthSection
<1>3. DOMAIN f \subseteq {"fan", "psu", "power"} /\ DOMAIN g \subseteq {"poe"}
  BY DEF Field, NoFields
<1> HIDE DEF f, g
<1>4. DOMAIN (f ++ g) \subseteq {"fan", "psu", "power", "poe"}
  BY <1>3 DEF ++
<1>5. sec = NoFields \/ sec = (f ++ g)
  BY <1>1, <1>2
<1> QED BY <1>4, <1>5 DEF NoFields

\* No check but a firewall's is without a result and none but that of VRRP fails, if its
\* rule is accepted.
LEMMA OutcomeStates ==
    ASSUME HInv, AllAccepted, phase # "asking", section # <<>>, module # "firewall", NEW item
    PROVE  \/ Outcome(item, section[1]) \in States \cup {"stale"}
           \/ module = "vrrp" /\ Outcome(item, section[1]) = "crash"
<1>1. Accepted(rule)
  BY DEF HInv, AllAccepted
<1>2. CASE module = "health"
  <2>1. section = HealthSection(asked) /\ section = <<section[1]>>
    <3>1. section = HealthSection(asked) /\ section # <<>>
      BY <1>2 DEF HInv, SectionOK, Sections
    <3> QED BY <3>1 DEF HealthSection
  <2>2. DOMAIN section[1] \subseteq {"fan", "psu", "power", "poe"}
    BY <2>1, HealthKeys
  <2> QED BY <1>1, <1>2, <2>2, HealthStates DEF Outcome
<1>3. module \in {"ospf", "vrrp", "file", "health", "board", "license", "ntp", "pools", "ups",
                 "wifi", "wireguard", "firewall"}
  BY ModulesMonitored DEF HInv, Modules
<1> QED
  BY <1>1, <1>2, <1>3, OspfStates, VrrpStates, FileStates, InfoStates, PoolStates, UpsStates,
     WifiStates, WireguardStates DEF Outcome

\* Every result of a check is a state, none for want of a counter, stale, or a crash of
\* the check of VRRP.
LEMMA Outcomes ==
    ASSUME HInv, AllAccepted, phase = "checked", NEW item \in DOMAIN results
    PROVE  \/ results[item] \in States \cup {"ignored", "stale"}
           \/ module = "vrrp" /\ section # <<>> /\ results[item] = "crash"
<1>1. CASE section = <<>>
  BY <1>1 DEF HInv, ResultsOK
<1>2. CASE module = "firewall" /\ section # <<>>
  BY <1>2 DEF HInv, ResultsOK, States
<1>3. CASE module # "firewall" /\ section # <<>>
  BY <1>3, OutcomeStates DEF HInv, ResultsOK
<1> QED BY <1>1, <1>2, <1>3

-----------------------------------------------------------------------------
(* The calls of a run.                                                     *)

\* The answers of b contain those of a.
Extends(a, b) == DOMAIN a \subseteq DOMAIN b /\ \A call \in DOMAIN a : b[call] = a[call]

\* The elements of two sequences joined.
LEMMA ToSetJoined ==
    ASSUME NEW S, NEW s \in Seq(S), NEW t \in Seq(S)
    PROVE  ToSet(s \o t) = ToSet(s) \cup ToSet(t)
<1> DEFINE u == s \o t
<1>1. u \in Seq(S) /\ Len(u) = Len(s) + Len(t) /\ Len(s) \in Nat /\ Len(t) \in Nat
  OBVIOUS
<1>2. \A i \in 1 .. Len(s) : u[i] = s[i]
  OBVIOUS
<1>3. \A i \in 1 .. Len(t) : u[Len(s) + i] = t[i]
  OBVIOUS
<1>4. DOMAIN u = 1 .. Len(u) /\ DOMAIN s = 1 .. Len(s) /\ DOMAIN t = 1 .. Len(t)
  BY <1>1
<1> HIDE DEF u
<1>5. ToSet(s) \subseteq ToSet(u)
  BY <1>1, <1>2, <1>4 DEF ToSet
<1>6. ToSet(t) \subseteq ToSet(u)
  <2> SUFFICES ASSUME NEW i \in 1 .. Len(t) PROVE t[i] \in ToSet(u)
    BY <1>4 DEF ToSet
  <2>1. Len(s) + i \in DOMAIN u /\ u[Len(s) + i] = t[i]
    BY <1>1, <1>3, <1>4
  <2> QED BY <2>1 DEF ToSet
<1>7. ASSUME NEW k \in DOMAIN u PROVE u[k] \in ToSet(s) \cup ToSet(t)
  <2>1. CASE k <= Len(s)
    BY <1>1, <1>2, <1>4, <2>1 DEF ToSet
  <2>2. CASE k > Len(s)
    <3>1. k - Len(s) \in 1 .. Len(t) /\ Len(s) + (k - Len(s)) = k
      BY <1>1, <1>4, <2>2
    <3>2. u[k] = t[k - Len(s)]
      BY <1>3, <3>1
    <3> QED BY <1>4, <3>1, <3>2 DEF ToSet
  <2> QED BY <1>1, <1>4, <2>1, <2>2
<1>8. ToSet(u) \subseteq ToSet(s) \cup ToSet(t)
  BY <1>7 DEF ToSet
<1> QED BY <1>5, <1>6, <1>8 DEF u

\* More replies never take back a call for pools.
LEMMA PoolsGrow ==
    ASSUME NEW a, NEW b, Extends(a, b)
    PROVE  ToSet(PoolCalls(a)) \subseteq ToSet(PoolCalls(b))
<1>1. "print" \in ToSet(PoolCalls(b))
  BY DEF PoolCalls, ToSet
<1>2. "print" \in DOMAIN a => PoolCalls(a) = PoolCalls(b)
  BY DEF PoolCalls, Extends
<1>3. "print" \notin DOMAIN a => PoolCalls(a) = <<"print">>
  BY DEF PoolCalls
<1> QED BY <1>1, <1>2, <1>3 DEF ToSet

\* The wireless drivers and the menus of one.
Drivers == {"wifi", "wireless", "capsman"}

\* The menus of a driver.
Menus == {"caps", "ifaces", "config", "clients"}

\* What is asked of one driver.
Asks(driver, menus, a) ==
    {<<driver, menu>> : menu \in ({"caps"} \cap menus) \cup {"ifaces"}
                    \cup IF <<driver, "ifaces">> \in DOMAIN a /\ a[<<driver, "ifaces">>] # Failed
                         THEN ({"config"} \cap menus) \cup {"clients"} ELSE {}}

\* The calls for one driver.
LEMMA WifiCallsOf ==
    ASSUME NEW driver \in Drivers, NEW menus, NEW a
    PROVE  /\ CallsOf(<<driver, menus>>, a) \in Seq(Drivers \X Menus)
           /\ ToSet(CallsOf(<<driver, menus>>, a)) = Asks(driver, menus, a)
<1> DEFINE S == Drivers \X Menus
           source == <<driver, menus>>
           asks(menu) == IF menu \in menus THEN <<<<driver, menu>>>> ELSE <<>>
           c == asks("caps")
           i == <<<<driver, "ifaces">>>>
           g == asks("config")
           l == <<<<driver, "clients">>>>
           on == <<driver, "ifaces">> \in DOMAIN a /\ a[<<driver, "ifaces">>] # Failed
           r == IF on THEN g \o l ELSE <<>>
<1>1. c \in Seq(S) /\ i \in Seq(S) /\ g \in Seq(S) /\ l \in Seq(S)
  BY DEF Menus
<1>2. /\ ToSet(c) = {<<driver, menu>> : menu \in {"caps"} \cap menus}
      /\ ToSet(i) = {<<driver, "ifaces">>}
      /\ ToSet(g) = {<<driver, menu>> : menu \in {"config"} \cap menus}
      /\ ToSet(l) = {<<driver, "clients">>}
  BY DEF ToSet
<1>3. CallsOf(source, a) = (c \o i) \o r
  BY DEF CallsOf
<1> HIDE DEF c, i, g, l, S
<1>4. g \o l \in Seq(S) /\ ToSet(g \o l) = ToSet(g) \cup ToSet(l)
  BY <1>1, ToSetJoined
<1>5. r \in Seq(S) /\ ToSet(r) = IF on THEN ToSet(g) \cup ToSet(l) ELSE {}
  <2>1. ToSet(<<>>) = {}
    BY DEF ToSet
  <2>2. <<>> \in Seq(S)
    OBVIOUS
  <2> DEFINE gl == g \o l
  <2>3. r = IF on THEN gl ELSE <<>>
    OBVIOUS
  <2> HIDE DEF gl, r, on
  <2>4. gl \in Seq(S) /\ ToSet(gl) = ToSet(g) \cup ToSet(l)
    BY <1>4 DEF gl
  <2>5. CASE on
    BY <2>3, <2>4, <2>5
  <2>6. CASE ~on
    BY <2>1, <2>2, <2>3, <2>6
  <2> QED BY <2>5, <2>6
<1> HIDE DEF r, on
<1>6. c \o i \in Seq(S) /\ ToSet(c \o i) = ToSet(c) \cup ToSet(i)
  BY <1>1, ToSetJoined
<1>7. (c \o i) \o r \in Seq(S) /\ ToSet((c \o i) \o r) = ToSet(c \o i) \cup ToSet(r)
  <2> DEFINE ci == c \o i
  <2>1. ci \in Seq(S)
    BY <1>6
  <2> HIDE DEF ci
  <2>2. ci \o r \in Seq(S) /\ ToSet(ci \o r) = ToSet(ci) \cup ToSet(r)
    BY <1>5, <2>1, ToSetJoined
  <2> QED BY <2>2 DEF ci
<1>8. ToSet((c \o i) \o r) = {<<driver, menu>> : menu \in ({"caps"} \cap menus) \cup {"ifaces"}
                    \cup IF on THEN ({"config"} \cap menus) \cup {"clients"} ELSE {}}
  BY <1>2, <1>5, <1>6, <1>7
<1> QED BY <1>3, <1>7, <1>8 DEF on, S, Asks

\* The drivers in the order they are asked for, and their menus.
LEMMA WifiSources ==
    /\ DOMAIN Sources = 1 .. 3
    /\ Sources[1] = <<"wifi", {"caps", "config"}>>
    /\ Sources[2] = <<"wireless", {}>>
    /\ Sources[3] = <<"capsman", {"caps", "config"}>>
<1> DEFINE a == <<"wifi", {"caps", "config"}>>
           b == <<"wireless", {}>>
           c == <<"capsman", {"caps", "config"}>>
<1>1. Sources = <<a, b, c>>
  BY DEF Sources
<1> HIDE DEF a, b, c
<1>2. DOMAIN Sources = 1 .. 3 /\ Sources[1] = a /\ Sources[2] = b /\ Sources[3] = c
  BY <1>1
<1> QED BY <1>2 DEF a, b, c

\* The calls of a run for WiFi.
LEMMA WifiCallsListed ==
    ASSUME NEW a
    PROVE  /\ WifiCalls(a) \in Seq(Drivers \X Menus)
           /\ ToSet(WifiCalls(a)) = Asks("wifi", {"caps", "config"}, a) \cup Asks("wireless", {}, a)
                                     \cup Asks("capsman", {"caps", "config"}, a)
<1> DEFINE ss == [k \in DOMAIN Sources |-> CallsOf(Sources[k], a)]
           S == Drivers \X Menus
           x == CallsOf(<<"wifi", {"caps", "config"}>>, a)
           y == CallsOf(<<"wireless", {}>>, a)
           z == CallsOf(<<"capsman", {"caps", "config"}>>, a)
<1>1. WifiCalls(a) = FlattenSeq(ss)
  BY DEF WifiCalls
<1>2. Len(ss) = 3 /\ ss[1] = x /\ ss[2] = y /\ ss[3] = z
  BY WifiSources
<1>3. FlattenSeq(ss) = (x \o y) \o z
  <2> HIDE DEF ss, x, y, z
  <2> QED BY <1>2, FlattenSmall
<1>4. x \in Seq(S) /\ ToSet(x) = Asks("wifi", {"caps", "config"}, a)
  BY WifiCallsOf DEF Drivers
<1>5. y \in Seq(S) /\ ToSet(y) = Asks("wireless", {}, a)
  BY WifiCallsOf DEF Drivers
<1>6. z \in Seq(S) /\ ToSet(z) = Asks("capsman", {"caps", "config"}, a)
  BY WifiCallsOf DEF Drivers
<1> HIDE DEF x, y, z, S
<1>7. x \o y \in Seq(S) /\ ToSet(x \o y) = ToSet(x) \cup ToSet(y)
  BY <1>4, <1>5, ToSetJoined
<1>8. (x \o y) \o z \in Seq(S) /\ ToSet((x \o y) \o z) = ToSet(x \o y) \cup ToSet(z)
  <2> DEFINE xy == x \o y
  <2>1. xy \in Seq(S)
    BY <1>7
  <2> HIDE DEF xy
  <2>2. xy \o z \in Seq(S) /\ ToSet(xy \o z) = ToSet(xy) \cup ToSet(z)
    BY <1>6, <2>1, ToSetJoined
  <2> QED BY <2>2 DEF xy
<1> QED BY <1>1, <1>3, <1>4, <1>5, <1>6, <1>7, <1>8 DEF S

\* More replies never take back a call for one driver.
LEMMA AsksGrow ==
    ASSUME NEW a, NEW b, Extends(a, b), NEW driver, NEW menus
    PROVE  Asks(driver, menus, a) \subseteq Asks(driver, menus, b)
<1>1. (<<driver, "ifaces">> \in DOMAIN a /\ a[<<driver, "ifaces">>] # Failed) =>
      (<<driver, "ifaces">> \in DOMAIN b /\ b[<<driver, "ifaces">>] # Failed)
  BY DEF Extends
<1> DEFINE p == <<driver, "ifaces">> \in DOMAIN a /\ a[<<driver, "ifaces">>] # Failed
           q == <<driver, "ifaces">> \in DOMAIN b /\ b[<<driver, "ifaces">>] # Failed
           A == ({"caps"} \cap menus) \cup {"ifaces"}
                \cup IF p THEN ({"config"} \cap menus) \cup {"clients"} ELSE {}
           B == ({"caps"} \cap menus) \cup {"ifaces"}
                \cup IF q THEN ({"config"} \cap menus) \cup {"clients"} ELSE {}
<1>2. A \subseteq B
  <2> HIDE DEF p, q
  <2> QED BY <1>1 DEF p, q
<1>3. Asks(driver, menus, a) = {<<driver, menu>> : menu \in A}
  BY DEF Asks
<1>4. Asks(driver, menus, b) = {<<driver, menu>> : menu \in B}
  BY DEF Asks
<1> HIDE DEF A, B
<1> QED BY <1>2, <1>3, <1>4

\* More replies never take back a call for WiFi.
LEMMA WifiGrow ==
    ASSUME NEW a, NEW b, Extends(a, b)
    PROVE  ToSet(WifiCalls(a)) \subseteq ToSet(WifiCalls(b))
  BY WifiCallsListed, AsksGrow

\* The answers of the list of UPS.
IsList(rows) == \E e \in BOOLEAN :
  rows = <<[name |-> "u1", disabled |-> e], [name |-> "u2", disabled |-> FALSE]>>

\* The calls of a run for UPS.
LEMMA UpsCallsListed ==
    ASSUME NEW a, "print" \in DOMAIN a => a["print"] = Failed \/ IsList(a["print"])
    PROVE  /\ UpsCalls(a) \in Seq({"print", "u1", "u2"})
           /\ "print" \in ToSet(UpsCalls(a))
           /\ "print" \notin DOMAIN a => UpsCalls(a) = <<"print">>
<1> DEFINE S == {"print", "u1", "u2"}
           names == IF "print" \in DOMAIN a THEN Monitored(RowsOf(a.print)) ELSE <<>>
<1>1. UpsCalls(a) = <<"print">> \o names
  BY DEF UpsCalls
<1>2. names \in Seq(S)
  <2>1. CASE "print" \notin DOMAIN a
    BY <2>1
  <2>2. CASE "print" \in DOMAIN a /\ a["print"] = Failed
    <3>1. RowsOf(a["print"]) = <<>>
      BY <2>2 DEF RowsOf
    <3>2. Monitored(<<>>) = <<>>
      <4>1. [k \in DOMAIN <<>> |-> IF <<>>[k].disabled THEN <<>> ELSE <<<<>>[k].name>>] = <<>>
        OBVIOUS
      <4> QED BY <4>1, FlattenEmpty DEF Monitored
    <3>3. names = <<>>
      BY <2>2, <3>1, <3>2
    <3>4. <<>> \in Seq(S)
      OBVIOUS
    <3> HIDE DEF names
    <3> QED BY <3>3, <3>4
  <2>3. CASE "print" \in DOMAIN a /\ a["print"] # Failed
    <3>1. PICK e \in BOOLEAN :
            a["print"] = <<[name |-> "u1", disabled |-> e], [name |-> "u2", disabled |-> FALSE]>>
      BY <2>3 DEF IsList
    <3>2. names = Monitored(a["print"])
      BY <2>3 DEF RowsOf
    <3>3. names = IF e THEN <<"u2">> ELSE <<"u1", "u2">>
      BY <3>1, <3>2, UpsMonitored
    <3>4. <<"u2">> \in Seq(S) /\ <<"u1", "u2">> \in Seq(S)
      OBVIOUS
    <3> HIDE DEF names
    <3> QED BY <3>3, <3>4
  <2> QED BY <2>1, <2>2, <2>3
<1>3. <<"print">> \in Seq(S) /\ "print" \in ToSet(<<"print">>)
  BY DEF ToSet
<1>4. "print" \notin DOMAIN a => <<"print">> \o names = <<"print">>
  OBVIOUS
<1> HIDE DEF names, S
<1>5. <<"print">> \o names \in Seq(S)
       /\ ToSet(<<"print">> \o names) = ToSet(<<"print">>) \cup ToSet(names)
  <2> DEFINE one == <<"print">>
  <2>1. one \in Seq(S)
    BY <1>3
  <2> HIDE DEF one
  <2>2. one \o names \in Seq(S) /\ ToSet(one \o names) = ToSet(one) \cup ToSet(names)
    BY <1>2, <2>1, ToSetJoined
  <2> QED BY <2>2 DEF one
<1> QED BY <1>1, <1>3, <1>4, <1>5 DEF S

\* More replies never take back a call for UPS.
LEMMA UpsGrow ==
    ASSUME NEW a, NEW b, Extends(a, b),
           "print" \in DOMAIN b => b["print"] = Failed \/ IsList(b["print"])
    PROVE  ToSet(UpsCalls(a)) \subseteq ToSet(UpsCalls(b))
<1>1. CASE "print" \in DOMAIN a
  BY <1>1 DEF Extends, UpsCalls
<1>2. CASE "print" \notin DOMAIN a
  <2>1. UpsCalls(a) = <<"print">>
    BY <1>2, UpsCallsListed
  <2>2. ToSet(<<"print">>) = {"print"}
    BY DEF ToSet
  <2> QED BY <2>1, <2>2, UpsCallsListed
<1> QED BY <1>1, <1>2

\* Every call made is one of the calls of the run.
CallsOK == DOMAIN asked \subseteq ToSet(Calls)

\* What a device may answer to the list of UPS.
LEMMA UpsLists ==
    ASSUME module = "ups", NEW x \in Answers("print")
    PROVE  x = Failed \/ IsList(x)
<1>1. Devices = UpsDevices
  BY DEF Devices
<1>3. x = Failed \/ \E d \in UpsDevices : x = UpsReply("print", d)
  BY <1>1 DEF Answers, Reply
<1>4. ASSUME NEW d \in UpsDevices PROVE IsList(UpsReply("print", d))
  <2>1. PICK e \in BOOLEAN, m1 \in UpsAnswers, m2 \in UpsAnswers : d = UpsPair(e, m1, m2)
    BY UpsDevice
  <2>2. UpsReply("print", d) = [k \in DOMAIN d |-> [name |-> d[k].name, disabled |-> d[k].disabled]]
    BY DEF UpsReply
  <2>3. DOMAIN d = {1, 2} /\ d[1].name = "u1" /\ d[1].disabled = e /\ d[2].name = "u2"
         /\ d[2].disabled = FALSE
    BY <2>1 DEF Ups, UpsPair
  <2>4. UpsReply("print", d) = [k \in {1, 2} |-> IF k = 1 THEN [name |-> "u1", disabled |-> e]
                                                 ELSE [name |-> "u2", disabled |-> FALSE]]
    BY <2>2, <2>3
  <2>5. UpsReply("print", d) =
          <<[name |-> "u1", disabled |-> e], [name |-> "u2", disabled |-> FALSE]>>
    BY <2>4
  <2> QED BY <2>5 DEF IsList
<1> QED BY <1>3, <1>4

\* What the agent has of it.
LEMMA UpsPrint ==
    ASSUME HInv, module = "ups"
    PROVE  "print" \in DOMAIN asked => asked["print"] = Failed \/ IsList(asked["print"])
  BY UpsLists DEF AskedOK, HInv

\* The calls are a sequence.
LEMMA CallsList == ASSUME HInv PROVE DOMAIN Calls \subseteq Nat
<1>0. ASSUME NEW S, NEW s \in Seq(S) PROVE DOMAIN s \subseteq Nat
  OBVIOUS
<1>1. CASE module = "board"
  <2>1. Calls = <<"print", "routerboard">>
    BY <1>1 DEF Calls, BoardCalls
  <2>2. DOMAIN <<"print", "routerboard">> = 1 .. 2
    OBVIOUS
  <2> QED BY <2>1, <2>2
<1>2. CASE module = "pools"
  <2>1. Calls = <<"print", "used">> \/ Calls = <<"print">>
    BY <1>2 DEF Calls, PoolCalls
  <2>2. DOMAIN <<"print", "used">> = 1 .. 2 /\ DOMAIN <<"print">> = 1 .. 1
    OBVIOUS
  <2> QED BY <2>1, <2>2
<1>3. CASE module = "ups"
  <2>1. Calls = UpsCalls(asked)
    BY <1>3 DEF Calls
  <2> QED BY <1>0, <1>3, <2>1, UpsPrint, UpsCallsListed
<1>4. CASE module = "wifi"
  <2>1. Calls = WifiCalls(asked)
    BY <1>4 DEF Calls
  <2> QED BY <1>0, <1>4, <2>1, WifiCallsListed
<1>5. CASE module \notin {"board", "pools", "ups", "wifi"}
  <2>1. Calls = <<"print">>
    BY <1>5 DEF Calls
  <2>2. DOMAIN <<"print">> = 1 .. 1
    OBVIOUS
  <2> QED BY <2>1, <2>2
<1> QED BY <1>1, <1>2, <1>3, <1>4, <1>5

\* The next call is one of the run that was not made.
LEMMA NextIsDue ==
    ASSUME HInv, Due # {}
    PROVE  NextCall \in ToSet(Calls) /\ NextCall \notin DOMAIN asked
<1>2. Due \in SUBSET Nat
  BY CallsList DEF Due
<1>3. Min(Due) \in Due
  BY <1>2, MinIn
<1> QED BY <1>3 DEF NextCall, Due, ToSet

\* A call that is made was one of the run and stays one.
LEMMA CallsGrow ==
    ASSUME HInv, CallsOK, HInv', Due # {}, NEW r, asked' = Field(NextCall, r) ++ asked,
           module' = module
    PROVE  CallsOK'
<1>1. Extends(asked, asked')
  BY NextIsDue DEF Extends, ++, Field
<1>2. DOMAIN asked' = {NextCall} \cup DOMAIN asked
  BY DEF ++, Field
<1>3. DOMAIN asked' \subseteq ToSet(Calls)
  BY <1>2, NextIsDue DEF CallsOK
<1>4. ToSet(Calls) \subseteq ToSet(Calls)'
  <2>1. CASE module = "pools"
    <3>1. Calls = PoolCalls(asked) /\ Calls' = PoolCalls(asked')
      BY <2>1 DEF Calls
    <3> QED BY <1>1, <3>1, PoolsGrow
  <2>2. CASE module = "ups"
    <3>1. Calls = UpsCalls(asked) /\ Calls' = UpsCalls(asked')
      BY <2>2 DEF Calls
    <3>2. "print" \in DOMAIN asked' => asked'["print"] = Failed \/ IsList(asked'["print"])
      <4>1. Answers("print")' = Answers("print")
        BY DEF Answers, Reply, Devices
      <4>2. "print" \in DOMAIN asked' => asked'["print"] \in Answers("print")
        BY <4>1 DEF HInv, AskedOK
      <4> QED BY <2>2, <4>2, UpsLists
    <3> QED BY <1>1, <3>1, <3>2, UpsGrow
  <2>3. CASE module = "wifi"
    <3>1. Calls = WifiCalls(asked) /\ Calls' = WifiCalls(asked')
      BY <2>3 DEF Calls
    <3> QED BY <1>1, <3>1, WifiGrow
  <2>4. CASE module \notin {"pools", "ups", "wifi"}
    <3>1. Calls' = Calls
      BY <2>4 DEF Calls
    <3> QED BY <3>1
  <2> QED BY <2>1, <2>2, <2>3, <2>4
<1> QED BY <1>3, <1>4 DEF CallsOK

\* No step makes a call that is not one of the run.
LEMMA CallsStep == HInv /\ CallsOK /\ [Next]_vars => CallsOK'
<1> SUFFICES ASSUME HInv, CallsOK, [Next]_vars PROVE CallsOK'
  OBVIOUS
<1>1. HInv'
  BY HStep
<1>2. module' = module
  BY DEF Next, vars, config, Change, Ask, AskInVain, PrintSection, Discover, CheckServices,
    NextCycle
<1>3. CASE Ask
  BY <1>1, <1>2, <1>3, CallsGrow DEF Ask
<1>4. CASE AskInVain
  BY <1>1, <1>2, <1>4, CallsGrow DEF AskInVain
<1>5. CASE asked' = NoFields
  BY <1>5 DEF CallsOK, NoFields
<1>6. CASE asked' = asked
  <2>1. Calls' = Calls
    BY <1>2, <1>6 DEF Calls
  <2> QED BY <1>6, <2>1 DEF CallsOK
<1> QED BY <1>3, <1>4, <1>5, <1>6 DEF Next, vars, Change, PrintSection, Discover, CheckServices,
      NextCycle

\* A module prints at most one section.
LEMMA OneSection == ASSUME HInv PROVE Len(section) <= 1
<1>0. Len(<<>>) <= 1 /\ \A x : Len(<<x>>) <= 1
  OBVIOUS
<1>1. CASE phase = "asking"
  BY <1>0, <1>1 DEF HInv, SectionOK
<1>2. CASE phase # "asking"
  <2>1. section \in Sections
    BY <1>2 DEF HInv, SectionOK
  <2>2. module \in Modules
    BY ModulesMonitored DEF HInv
  <2>3. section = <<>> \/ \E x : section = <<x>>
    BY <2>1, <2>2 DEF Modules, Sections, OspfSection, VrrpSection, FileSection, HealthSection,
      BoardSection,
      LicenseSection, NtpSection, PoolSection, UpsSection, WifiSection, WireguardSection,
        FirewallSections, SectionOf
  <2> QED BY <1>0, <2>3
<1> QED BY <1>1, <1>2

\* TypeOK follows from the invariant.
LEMMA Typed == AllAccepted /\ HInv /\ CallsOK => TypeOK
<1> SUFFICES ASSUME AllAccepted, HInv, CallsOK PROVE TypeOK
  OBVIOUS
<1>1. States \cup {"ignored", "crash"} \subseteq ToSet(Severity)
  BY DEF States, ToSet, Severity
<1>2. ASSUME NEW item \in DOMAIN results
      PROVE  IF phase = "checked" THEN results[item] \in ToSet(Severity) \cup {"stale"}
             ELSE results[item] = "pending"
  BY <1>1, Outcomes DEF HInv, ResultsOK
<1>3. /\ rule \in Rulesets[module] /\ device \in Devices
      /\ phase \in {"asking", "section", "checked"} /\ cycle \in 1 .. MaxCycles[module]
  BY DEF HInv, SectionOK
<1> QED BY <1>2, <1>3, OneSection DEF TypeOK, CallsOK

-----------------------------------------------------------------------------
(* Fans and supplies.                                                      *)

\* The sensors the devices have.
Sensors == {"fan1-speed", "fan-state", "psu1-state", "psu1-current", "psu1-voltage", "current",
            "voltage",
            "power-consumption", "poe-out-consumption"}

\* The tables of names, row by row.
LEMMA SensorWords ==
    /\ DOMAIN Words = Sensors
    /\ \A n \in Sensors : "speed" \in Words[n] => n = "fan1-speed"
    /\ {"fan", "speed"} \subseteq Words["fan1-speed"]
    /\ "current" \in Words["psu1-current"] /\ "current" \in Words["current"]
<1> DEFINE a == {"fan", "speed"}
           b == {"fan", "state"}
           c == {"psu", "state"}
           d == {"psu", "current"}
           e == {"psu", "voltage"}
           f == {"current"}
           g == {"voltage"}
           h == {"power"}
           o == {}
<1>1. /\ "speed" \notin b /\ "speed" \notin c /\ "speed" \notin d /\ "speed" \notin e
          /\ "speed" \notin f
      /\ "speed" \notin g /\ "speed" \notin h /\ "speed" \notin o /\ "current" \in d
      /\ "current" \in f
  OBVIOUS
<1> HIDE DEF a, b, c, d, e, f, g, h, o
<1> DEFINE w1 == Field("fan1-speed", a)
           w2 == (w1 ++ Field("fan-state", b))
           w3 == (w2 ++ Field("psu1-state", c))
           w4 == (w3 ++ Field("psu1-current", d))
           w5 == (w4 ++ Field("psu1-voltage", e))
           w6 == (w5 ++ Field("current", f))
           w7 == (w6 ++ Field("voltage", g))
           w8 == (w7 ++ Field("power-consumption", h))
           w9 == (w8 ++ Field("poe-out-consumption", o))
<1>2. Words = w9
  BY DEF Words, a, b, c, d, e, f, g, h, o
<1> HIDE DEF w1, w2, w3, w4, w5, w6, w7, w8, w9
<1>11. DOMAIN w1 = {"fan1-speed"} /\ w1["fan1-speed"] = a
  BY DEF w1, Field
<1>12. DOMAIN w2 = {"fan1-speed", "fan-state"}
      /\ w2["fan1-speed"] = a /\ w2["fan-state"] = b
  BY <1>11 DEF w2, Field, ++
<1>13. DOMAIN w3 = {"fan1-speed", "fan-state", "psu1-state"}
      /\ w3["fan1-speed"] = a /\ w3["fan-state"] = b /\ w3["psu1-state"] = c
  BY <1>12 DEF w3, Field, ++
<1>14. DOMAIN w4 = {"fan1-speed", "fan-state", "psu1-state", "psu1-current"}
      /\ w4["fan1-speed"] = a /\ w4["fan-state"] = b /\ w4["psu1-state"] = c
      /\ w4["psu1-current"] = d
  BY <1>13 DEF w4, Field, ++
<1>15. DOMAIN w5 = {"fan1-speed", "fan-state", "psu1-state", "psu1-current", "psu1-voltage"}
      /\ w5["fan1-speed"] = a /\ w5["fan-state"] = b /\ w5["psu1-state"] = c
      /\ w5["psu1-current"] = d /\ w5["psu1-voltage"] = e
  BY <1>14 DEF w5, Field, ++
<1>16. DOMAIN w6 = {"fan1-speed", "fan-state", "psu1-state", "psu1-current", "psu1-voltage",
                    "current"}
      /\ w6["fan1-speed"] = a /\ w6["fan-state"] = b /\ w6["psu1-state"] = c
      /\ w6["psu1-current"] = d /\ w6["psu1-voltage"] = e /\ w6["current"] = f
  BY <1>15 DEF w6, Field, ++
<1>17. DOMAIN w7 = {"fan1-speed", "fan-state", "psu1-state", "psu1-current", "psu1-voltage",
                    "current", "voltage"}
      /\ w7["fan1-speed"] = a /\ w7["fan-state"] = b /\ w7["psu1-state"] = c
      /\ w7["psu1-current"] = d /\ w7["psu1-voltage"] = e /\ w7["current"] = f /\ w7["voltage"] = g
  BY <1>16 DEF w7, Field, ++
<1>18. DOMAIN w8 = {"fan1-speed", "fan-state", "psu1-state", "psu1-current", "psu1-voltage",
                    "current", "voltage", "power-consumption"}
      /\ w8["fan1-speed"] = a /\ w8["fan-state"] = b /\ w8["psu1-state"] = c
      /\ w8["psu1-current"] = d /\ w8["psu1-voltage"] = e /\ w8["current"] = f /\ w8["voltage"] = g
      /\ w8["power-consumption"] = h
  BY <1>17 DEF w8, Field, ++
<1>19. DOMAIN w9 = {"fan1-speed", "fan-state", "psu1-state", "psu1-current", "psu1-voltage",
                    "current", "voltage", "power-consumption", "poe-out-consumption"}
      /\ w9["fan1-speed"] = a /\ w9["fan-state"] = b /\ w9["psu1-state"] = c
      /\ w9["psu1-current"] = d /\ w9["psu1-voltage"] = e /\ w9["current"] = f /\ w9["voltage"] = g
      /\ w9["power-consumption"] = h /\ w9["poe-out-consumption"] = o
  BY <1>18 DEF w9, Field, ++
<1>3. /\ Words["fan1-speed"] = a /\ Words["fan-state"] = b /\ Words["psu1-state"] = c
      /\ Words["psu1-current"] = d /\ Words["psu1-voltage"] = e /\ Words["current"] = f
      /\ Words["voltage"] = g /\ Words["power-consumption"] = h
      /\ Words["poe-out-consumption"] = o
  BY <1>2, <1>19
<1>4. DOMAIN Words = Sensors
  BY <1>2, <1>19 DEF Sensors
<1>5. ASSUME NEW n \in Sensors, n # "fan1-speed" PROVE "speed" \notin Words[n]
  BY <1>1, <1>3, <1>5 DEF Sensors
<1> QED BY <1>1, <1>3, <1>4, <1>5 DEF a

\* The sensors of the supplies.
LEMMA SensorSupply ==
    /\ Amperes = {"psu1-current", "current"}
    /\ DOMAIN Supply = {"psu1-current", "psu1-voltage", "current", "voltage"}
    /\ Supply["psu1-current"] = <<"PSU1", "current">>
    /\ Supply["psu1-voltage"] = <<"PSU1", "voltage">>
    /\ Supply["current"] = <<"PSU0", "current">>
    /\ Supply["voltage"] = <<"PSU0", "voltage">>
    /\ Prefix["fan1-speed"] = "fan1"
  BY DEF Amperes, Supply, Prefix, Field, ++

\* What a device reports.
LEMMA SensorReadings ==
    ASSUME NEW dev \in HealthDevices
    PROVE  /\ dev.version \in {6, 7}
           /\ DOMAIN dev.readings \subseteq Sensors
           /\ \A n \in DOMAIN dev.readings :
                n \in Amperes => dev.readings[n] \in {99, 100, 800, 3000}
<1> DEFINE M == {NoFields, Field("fan-state", "ok"), Field("fan-state", "fail")}
           S == {0, 999, 1999, 2000}
           C == {99, 100, 3000}
           T == {"ok", "fail"}
           V == {9999, 10000}
           c2 == {100, 800}
           v2 == {9999, 12000}
           r == dev.readings
           Goal == /\ DOMAIN r \subseteq Sensors
                   /\ \A n \in DOMAIN r : n \in Amperes => r[n] \in {99, 100, 800, 3000}
<1>0. \A more \in M : DOMAIN more \subseteq {"fan-state"}
  BY DEF NoFields, Field
<1>1. dev.version \in {6, 7} /\ r \in Fans \cup Supplies
  BY DEF HealthDevices
<1>2. CASE r \in Fans
  <2> HIDE DEF M
  <2>1. PICK speed \in S, more \in M : r = (Field("fan1-speed", speed) ++ more)
    BY <1>2 DEF Fans, M
  <2>2. DOMAIN r \subseteq {"fan1-speed", "fan-state"}
    BY <1>0, <2>1 DEF ++, Field
  <2>3. Goal
    BY <2>2 DEF Sensors, Amperes
  <2> QED BY <1>1, <2>3
<1>3. CASE r \in Supplies
  <2>1. CASE \E state \in T, c \in C, v \in V :
          r = ((Field("psu1-state", state) ++ Field("psu1-current", c)) ++ Field("psu1-voltage", v))
    <3>1. PICK state \in T, c \in C, v \in V :
            r = ((Field("psu1-state",
                        state) ++ Field("psu1-current", c)) ++ Field("psu1-voltage", v))
      BY <2>1
    <3>2. DOMAIN r = {"psu1-state", "psu1-current", "psu1-voltage"} /\ r["psu1-current"] = c
      BY <3>1 DEF ++, Field
    <3>3. Goal
      BY <3>2 DEF Sensors, Amperes
    <3> QED BY <1>1, <3>3
  <2>2. CASE \E c \in c2, v \in v2 :
          r = ((Field("current", c) ++ Field("voltage", v)) ++ Field("power-consumption", 9000))
    <3>1. PICK c \in c2, v \in v2 :
            r = ((Field("current", c) ++ Field("voltage", v)) ++ Field("power-consumption", 9000))
      BY <2>2
    <3>2. DOMAIN r = {"current", "voltage", "power-consumption"} /\ r["current"] = c
      BY <3>1 DEF ++, Field
    <3>3. Goal
      BY <3>2 DEF Sensors, Amperes
    <3> QED BY <1>1, <3>3
  <2>3. CASE r \in {Field("poe-out-consumption", 7000), NoFields}
    <3>2. DOMAIN r \subseteq {"poe-out-consumption"}
      BY <2>3 DEF NoFields, Field
    <3>3. Goal
      BY <3>2 DEF Sensors, Amperes
    <3> QED BY <1>1, <3>3
  <2> QED BY <1>3, <2>1, <2>2, <2>3 DEF Supplies
<1> QED BY <1>1, <1>2, <1>3

\* What is printed of the fans and the supplies.
LEMMA HealthMadeOf ==
    ASSUME HInv, module = "health", Checked, asked["print"] # Failed,
           NEW what \in {"fan", "power"}, Named(asked["print"], what) # {}
    PROVE  /\ what \in DOMAIN section[1]
           /\ section[1][what] = IF what = "fan" THEN ParseFan(asked["print"])
                                 ELSE ParsePower(asked["print"])
           /\ asked["print"] \in HealthDevices
<1> DEFINE reply == asked["print"]
           printed == {w \in {"fan", "psu", "power"} : Named(reply, w) # {}}
           f == [w \in printed |->
                  CASE w = "fan" -> ParseFan(reply) [] w = "psu" -> ParsePsu(reply)
                    [] w = "power" -> ParsePower(reply)]
           g == IF "poe-out-consumption" \in DOMAIN reply.readings
                  THEN Field("poe", ParsePoe(reply)) ELSE NoFields
<1>1. section = HealthSection(asked) /\ section # <<>>
  BY DEF HInv, SectionOK, Checked, Sections
<1>2. DOMAIN reply.readings # {}
  BY DEF Named
<1>3. section[1] = (f ++ g)
  BY <1>1, <1>2 DEF HealthSection
<1>4. what \in DOMAIN f /\ f[what] = IF what = "fan" THEN ParseFan(reply) ELSE ParsePower(reply)
  OBVIOUS
<1>5. reply \in HealthDevices
  <2>1. reply \in Devices
    BY OneCall DEF Checked
  <2> QED BY <2>1 DEF Devices
<1> HIDE DEF f, g
<1> QED BY <1>3, <1>4, <1>5 DEF ++

\* CurrentSurvivesUnits follows from the invariant.
LEMMA Current == HInv => CurrentSurvivesUnits
<1> SUFFICES ASSUME HInv, module = "health", Checked, asked["print"] # Failed,
                    NEW name \in Amperes \cap DOMAIN asked["print"].readings,
                    asked["print"].readings[name] >= 100
             PROVE  section[1].power[Supply[name][1]]["current"] = asked["print"].readings[name]
  BY DEF CurrentSurvivesUnits
<1> DEFINE reply == asked["print"]
           n == reply.readings[name]
           metrics == Named(reply, "power") \cap DOMAIN Supply
           psu == Supply[name][1]
           it == CHOOSE k \in metrics : Supply[k] = <<psu, "current">>
           inner == [metric \in {Supply[k][2] : k \in {m \in metrics : Supply[m][1] = psu}} |->
               LET k == CHOOSE k \in metrics : Supply[k] = <<psu, metric>>
               IN HealthValue(k, PrintedValue(reply, k))]
<1>1. name \in {"psu1-current", "current"} /\ name \in DOMAIN reply.readings
  BY SensorSupply
<1>2. name \in Named(reply, "power")
  BY <1>1, SensorWords DEF Named
<1>3. "power" \in DOMAIN section[1] /\ section[1]["power"] = ParsePower(reply)
       /\ reply \in HealthDevices
  BY <1>2, HealthMadeOf
<1>4. name \in metrics /\ Supply[name] = <<psu, "current">> /\ Supply[name][2] = "current"
  BY <1>1, <1>2, SensorSupply
<1>5. it = name
  <2>1. \A k \in DOMAIN Supply : Supply[k] = Supply[name] => k = name
    BY <1>1, SensorSupply
  <2> QED BY <1>4, <2>1
<1>6. section[1]["power"][psu] = inner
  BY <1>3, <1>4 DEF ParsePower
<1>7. inner["current"] = HealthValue(name, PrintedValue(reply, name))
  <2>1. inner["current"] = HealthValue(it, PrintedValue(reply, it))
    BY <1>4
  <2> QED BY <1>5, <2>1
<1>8. HealthValue(name, PrintedValue(reply, name)) = n
  <2>1. n \in {100, 800, 3000} /\ reply.version \in {6, 7}
    BY <1>1, <1>3, SensorReadings
  <2>2. PrintedValue(reply, name) = IF reply.version = 7 THEN n * 1000 ELSE n
    BY SMT, <2>1 DEF PrintedValue
  <2>3. \A v : HealthValue(name, v) = IF v >= 100 * 1000 THEN v \div 1000 ELSE v
    BY SMT, <1>4 DEF HealthValue, Threshold
  <2> QED BY SMT, <2>1, <2>2, <2>3
<1> QED BY <1>6, <1>7, <1>8

\* StoppedFanIsReported follows from the invariant.
LEMMA StoppedFan == FanLimits /\ HInv => StoppedFanIsReported
<1> SUFFICES ASSUME FanLimits, HInv, module = "health", Checked,
      "lower" \in DOMAIN rule => rule.lower # NoLevels,
                    <<"fan", "fan1">> \in DOMAIN results,
                    asked["print"] # Failed, "fan1-speed" \in DOMAIN asked["print"].readings,
                    asked["print"].readings["fan1-speed"] = 0
             PROVE  results[<<"fan", "fan1">>] = "CRIT"
  BY DEF StoppedFanIsReported
<1> DEFINE reply == asked["print"]
           speeds == {k \in Named(reply, "fan") : "speed" \in Words[k]}
           p == Params(rule, HealthDefaults)
           fan == ParseFan(reply)["fan1"]
           levels == IF p.lower.shape = "tuple" THEN Fixed(p.lower.warn, p.lower.crit) ELSE p.lower
<1>1. "fan1-speed" \in Named(reply, "fan")
  BY SensorWords DEF Named
<1>2. "fan" \in DOMAIN section[1] /\ section[1]["fan"] = ParseFan(reply) /\ reply \in HealthDevices
  BY <1>1, HealthMadeOf
<1>3. speeds = {"fan1-speed"}
  <2>1. speeds \subseteq Sensors
    BY <1>2, SensorReadings DEF Named
  <2> QED BY <1>1, <2>1, SensorWords
<1>4. "fan1" \in DOMAIN ParseFan(reply) /\ fan = [speed |-> 0]
  <2> DEFINE f == [i \in {Prefix[k] : k \in speeds} |->
                      [speed |-> reply.readings[CHOOSE k \in speeds : Prefix[k] = i]]]
  <2>1. "fan1" \in DOMAIN f /\ f["fan1"] = [speed |-> reply.readings["fan1-speed"]]
    <3>1. (CHOOSE k \in speeds : Prefix[k] = "fan1") = "fan1-speed"
      BY <1>3, SensorSupply
    <3>2. "fan1" \in {Prefix[k] : k \in speeds}
      BY <1>3, SensorSupply
    <3> HIDE DEF speeds
    <3> QED BY <3>1, <3>2
  <2> HIDE DEF f
  <2> QED BY <2>1 DEF ParseFan, ++, f
<1>5. levels.shape = "fixed" /\ levels.crit \in Nat \ {0}
  <2>1. p.lower = IF "lower" \in DOMAIN rule THEN rule.lower ELSE Fixed(2000, 1000)
    BY DEF Params, ++, HealthDefaults
  <2>2. CASE "lower" \in DOMAIN rule
    <3>1. rule.lower.shape \in {"fixed", "tuple"} /\ rule.lower.crit \in Nat \ {0}
      BY <2>2 DEF FanLimits, Limits, HInv
    <3> QED BY <2>1, <2>2, <3>1 DEF Fixed
  <2>3. CASE "lower" \notin DOMAIN rule
    BY <2>1, <2>3 DEF Fixed
  <2> QED BY <2>2, <2>3
<1>6. results[<<"fan", "fan1">>] = HealthCheck(<<"fan", "fan1">>, rule, section[1])
  BY DEF HInv, ResultsOK, Checked, Outcome
<1>7. HealthCheck(<<"fan", "fan1">>, rule, section[1]) = CheckFan(fan, p)
  BY <1>2, <1>4 DEF HealthCheck
<1>8. CheckFan(fan, p) = Lower(0, levels)
  BY <1>4 DEF CheckFan
<1>9. Lower(0, levels) = "CRIT"
  <2> HIDE DEF levels
  <2> QED BY <1>5 DEF Lower
<1> QED BY <1>6, <1>7, <1>8, <1>9

-----------------------------------------------------------------------------
(* Pools.                                                                  *)

\* The addresses of up to two ranges: the fold over the ranges makes two steps.
LEMMA PoolSum ==
    ASSUME NEW ranges, DOMAIN ranges \in {{1}, {1, 2}},
           \A i \in DOMAIN ranges : PartSize(ranges[i]) \in Int
    PROVE  Addresses(ranges) = PartSize(ranges[1])
              + IF 2 \in DOMAIN ranges THEN PartSize(ranges[2]) ELSE 0
<1> DEFINE D == DOMAIN ranges
           ps(i) == PartSize(ranges[i])
           G(g) == [s \in SUBSET D |->
                    IF s = {} THEN 0
                    ELSE LET x == Max(s)
                         IN g[s \ {x}] + ps(x)]
           it == CHOOSE g : g = G(g)
           h == [s \in SUBSET D |-> (IF 1 \in s THEN ps(1) ELSE 0) + (IF 2 \in s THEN ps(2) ELSE 0)]
<1>1. Addresses(ranges) = it[D]
  BY DEF Addresses, FoldLeft, MapThenFoldSet
<1>2. ASSUME NEW s \in SUBSET D, s # {} PROVE Max(s) = IF 2 \in s THEN 2 ELSE 1
  BY <1>2 DEF Max
<1>3. h = G(h)
  <2>1. ASSUME NEW s \in SUBSET D PROVE h[s] = G(h)[s]
    <3>1. CASE s = {}
      <4>1. h[s] = 0
        BY <2>1, <3>1
      <4>2. G(h)[s] = 0
        BY <3>1
      <4> QED BY <4>1, <4>2
    <3>2. CASE 2 \in s
      <4>1. G(h)[s] = h[s \ {2}] + ps(2)
        BY <1>2, <3>2
      <4>2. h[s \ {2}] = (IF 1 \in s THEN ps(1) ELSE 0) + 0
        BY <3>2
      <4>3. h[s] = (IF 1 \in s THEN ps(1) ELSE 0) + ps(2)
        BY <3>2
      <4>4. ps(2) \in Int /\ (1 \in s => ps(1) \in Int)
        BY <3>2
      <4> HIDE DEF G, h, ps
      <4> QED BY <4>1, <4>2, <4>3, <4>4
    <3>3. CASE s # {} /\ 2 \notin s
      <4>0. 1 \in s
        BY <3>3
      <4>1. G(h)[s] = h[s \ {1}] + ps(1)
        BY <1>2, <3>3
      <4>2. h[s \ {1}] = 0 + 0
        BY <3>3
      <4>3. h[s] = ps(1) + 0
        BY <3>3, <4>0
      <4>4. ps(1) \in Int
        BY <4>0
      <4> HIDE DEF G, h, ps
      <4> QED BY <4>1, <4>2, <4>3, <4>4
    <3> QED BY <3>1, <3>2, <3>3
  <2>2. h = [s \in SUBSET D |-> h[s]] /\ G(h) = [s \in SUBSET D |-> G(h)[s]]
    OBVIOUS
  <2> HIDE DEF G, h
  <2> QED BY <2>1, <2>2
<1>4. it = G(it)
  BY <1>3
<1>5. \A s \in SUBSET D : it[s] = IF s = {} THEN 0 ELSE it[s \ {Max(s)}] + ps(Max(s))
  BY <1>4
<1> HIDE DEF it, ps
<1>6. it[{}] = 0
  BY <1>5
<1>7. it[{1}] = 0 + ps(1)
  <2>1. {1} \ {1} = {} /\ {1} \in SUBSET D /\ {1} # {} /\ 2 \notin {1}
    OBVIOUS
  <2> HIDE DEF D
  <2> QED BY <1>2, <1>5, <1>6, <2>1
<1>8. D = {1, 2} => it[{1, 2}] = it[{1}] + ps(2)
  <2>1. {1, 2} \ {2} = {1} /\ {1, 2} # {} /\ 2 \in {1, 2}
    OBVIOUS
  <2> HIDE DEF D
  <2> QED BY <1>2, <1>5, <2>1
<1> QED
  BY <1>1, <1>7, <1>8 DEF ps

\* The sizes of the pools of the devices; that of a range backward is not known.
LEMMA PoolSizes ==
    /\ PoolSize(<<Span(10, 13), Single>>) = {5}
    /\ PoolSize(<<Span(13, 10)>>) = {}
    /\ PoolSize(<<Net(30)>>) = {4}
<1>1. ASSUME NEW a, NEW b PROVE ToSet(<<a, b>>) = {a, b} /\ ToSet(<<a>>) = {a}
                                /\ ToSet(<<a, b>>) = {a, b} /\ ToSet(<<a>>) = {a}
  BY DEF ToSet
<1> DEFINE s == Span(10, 13)
           o == Single
           w == Span(13, 10)
           n == Net(30)
<1>2. /\ s.kind = "span" /\ ~(s.last < s.first) /\ PartSize(s) = 4
      /\ o.kind = "single" /\ PartSize(o) = 1
      /\ w.kind = "span" /\ w.last < w.first
      /\ n.kind = "net"
  BY DEF Span, Single, Net, PartSize
<1>3. PartSize(n) = 4
  <2>1. n.kind = "net" /\ n.bits = 30
    BY DEF Net
  <2>2. PartSize(n) = 2 ^ (32 - n.bits)
    BY <2>1 DEF PartSize
  <2> HIDE DEF n
  <2> QED BY SMT, <2>1, <2>2
<1> HIDE DEF s, o, w, n
<1>4. Addresses(<<s, o>>) = 5
  <2> DEFINE r == <<s, o>>
  <2>1. DOMAIN r = {1, 2} /\ r[1] = s /\ r[2] = o
    OBVIOUS
  <2> HIDE DEF r
  <2>2. Addresses(r) = 4 + 1
    BY <1>2, <2>1, PoolSum
  <2> QED BY <2>2 DEF r
<1>5. Addresses(<<n>>) = 4
  <2> DEFINE r == <<n>>
  <2>1. DOMAIN r = {1} /\ r[1] = n
    OBVIOUS
  <2> HIDE DEF r
  <2>2. Addresses(r) = 4 + 0
    BY <1>3, <2>1, PoolSum
  <2> QED BY <2>2 DEF r
<1>6. PoolSize(<<s, o>>) = {5}
  <2>0. ToSet(<<s, o>>) = {s, o}
    BY <1>1
  <2>1. ~\E part \in ToSet(<<s, o>>) : part.kind = "span" /\ part.last < part.first
    <3>1. ASSUME NEW part \in {s, o}, part.kind = "span" PROVE ~(part.last < part.first)
      <4>1. part = s
        BY <1>2, <3>1
      <4> QED BY <1>2, <4>1
    <3> QED BY <2>0, <3>1
  <2>2. PoolSize(<<s, o>>) = {Addresses(<<s, o>>)} \ {0}
    BY <2>1, Zenon DEF PoolSize
  <2>3. {5} \ {0} = {5}
    OBVIOUS
  <2> QED BY <1>4, <2>2, <2>3
<1>7. PoolSize(<<w>>) = {}
  BY <1>1, <1>2 DEF PoolSize
<1>8. PoolSize(<<n>>) = {4}
  <2>1. ~\E part \in ToSet(<<n>>) : part.kind = "span" /\ part.last < part.first
    BY <1>1, <1>2
  <2>2. PoolSize(<<n>>) = {Addresses(<<n>>)} \ {0}
    BY <2>1, Zenon DEF PoolSize
  <2>3. {4} \ {0} = {4}
    OBVIOUS
  <2> QED BY <1>5, <2>2, <2>3
<1> QED BY <1>6, <1>7, <1>8 DEF s, o, w, n

\* A device lists no pool or two.
LEMMA PoolDevice ==
    ASSUME NEW d \in PoolDevices
    PROVE  d = <<>> \/ \E reports \in BOOLEAN, other \in BOOLEAN, n \in {3, 4, 5} :
                          d = PoolPair(Forward, 5, reports, other, n)
                             \/ d = PoolPair(Backward, 0, reports, other, n)
<1> DEFINE N == {3, 4, 5}
<1>1. \/ \E reports \in BOOLEAN, other \in BOOLEAN, n \in N :
           d = PoolPair(Forward, 5, reports, other, n)
      \/ \E reports \in BOOLEAN, other \in BOOLEAN, n \in N :
           d = PoolPair(Backward, 0, reports, other, n)
      \/ d = <<>>
  <2> HIDE DEF N
  <2> QED BY DEF PoolDevices, N
<1> QED BY <1>1

\* The first of two sequences joined.
LEMMA Joins ==
    ASSUME NEW S, NEW s \in Seq(S), NEW t \in Seq(S)
    PROVE  /\ s \o t \in Seq(S) /\ Len(s \o t) = Len(s) + Len(t)
           /\ \A i \in 1 .. Len(s) : (s \o t)[i] = s[i]
  OBVIOUS

\* The second of them, if it has one element.
LEMMA JoinsSecond ==
    ASSUME NEW S, NEW s \in Seq(S), NEW t \in Seq(S)
    PROVE  Len(t) = 1 => (s \o t)[Len(s) + 1] = t[1]
<1> DEFINE u == s \o t
           m == Len(s)
           l == Len(t)
<1>1. \A i \in 1 .. l : u[m + i] = t[i]
  OBVIOUS
<1>2. m \in Nat /\ l \in Nat
  OBVIOUS
<1> HIDE DEF u, m, l
<1>3. l = 1 => u[m + 1] = t[1]
  BY <1>1, <1>2
<1> QED BY <1>3 DEF u, m, l

\* A sequence of n elements a followed by one b.
LEMMA LeasesJoined ==
    ASSUME NEW S, NEW s \in Seq(S), NEW t \in Seq(S), NEW n \in Nat, Len(s) = n, Len(t) = 1, n > 0,
           NEW a, NEW b, a # b, \A i \in 1 .. n : s[i] = a, t[1] = b
    PROVE  LeasesOf(a, s \o t) = n /\ LeasesOf(b, s \o t) = 1
<1> DEFINE u == s \o t
<1>1. u \in Seq(S) /\ Len(u) = n + 1 /\ (\A i \in 1 .. n : u[i] = a) /\ u[n + 1] = b
  <2>1. u \in Seq(S) /\ Len(u) = Len(s) + Len(t)
    BY Joins
  <2>3. \A i \in 1 .. Len(s) : u[i] = s[i]
    BY Joins
  <2>4. u[Len(s) + 1] = t[1]
    BY JoinsSecond, Zenon
  <2>2. 1 \in 1 .. Len(t)
    OBVIOUS
  <2> HIDE DEF u
  <2> QED BY <2>1, <2>2, <2>3, <2>4
<1> HIDE DEF u
<1>2. DOMAIN u = 1 .. (n + 1)
  BY <1>1
<1>3. {k \in DOMAIN u : u[k] = a} = 1 .. n /\ {k \in DOMAIN u : u[k] = b} = {n + 1}
  <2>1. \A k \in DOMAIN u : k \in 1 .. n \/ k = n + 1
    BY <1>2
  <2>2. n + 1 \in DOMAIN u /\ n + 1 \notin 1 .. n /\ 1 .. n \subseteq DOMAIN u
    BY <1>2
  <2> QED BY <1>1, <2>1, <2>2
<1>4. Cardinality(1 .. n) = n
  <2>1. 1 \in Int /\ n \in Int /\ ~(1 > n) /\ n - 1 + 1 = n
    OBVIOUS
  <2> QED BY <2>1, FS_Interval
<1>5. Cardinality({n + 1}) = 1
  BY FS_Singleton
<1>6. LeasesOf(a, u) = Cardinality({k \in DOMAIN u : u[k] = a})
      /\ LeasesOf(b, u) = Cardinality({k \in DOMAIN u : u[k] = b})
  BY Zenon DEF LeasesOf
<1>7. LeasesOf(a, u) = n /\ LeasesOf(b, u) = 1
  BY <1>3, <1>4, <1>5, <1>6
<1> QED BY <1>7 DEF u

\* The leases of a pool are as many as it has in use.
LEMMA LeasesCounted ==
    ASSUME NEW d, NEW n \in {3, 4, 5},
           DOMAIN d = {1, 2}, d[1].name = "p1", d[1].leases = n, d[2].name = "p2", d[2].leases = 1
    PROVE  LeasesOf("p1", LeaseRows(d)) = n /\ LeasesOf("p2", LeaseRows(d)) = 1
<1> DEFINE s == [lease \in 1 .. n |-> "p1"]
           t == [lease \in 1 .. 1 |-> "p2"]
           S == {"p1", "p2"}
           ss == [k \in DOMAIN d |-> [lease \in 1 .. d[k].leases |-> d[k].name]]
<1>1. ss[1] = s /\ ss[2] = t /\ DOMAIN ss = 1 .. 2
  OBVIOUS
<1>2. s \in Seq(S) /\ t \in Seq(S) /\ Len(s) = n /\ Len(t) = 1 /\ (\A i \in 1 .. n : s[i] = "p1")
       /\ t[1] = "p2"
  OBVIOUS
<1>3. LeaseRows(d) = FlattenSeq(ss)
  BY DEF LeaseRows
<1>4. Len(ss) = 2
  <2> HIDE DEF s, t
  <2>1. ss = [k \in 1 .. 2 |-> ss[k]]
    BY <1>1
  <2>2. \A k \in 1 .. 2 : ss[k] \in {s, t}
    BY <1>1
  <2> HIDE DEF ss
  <2>3. ss \in Seq({s, t})
    BY <2>1, <2>2
  <2> QED BY <1>1, <2>3
<1> HIDE DEF s, t, ss, S
<1>5. FlattenSeq(ss) = s \o t
  BY <1>1, <1>4, FlattenSmall
<1>6. n \in Nat /\ n > 0 /\ "p1" # "p2"
  OBVIOUS
<1>7. LeasesOf("p1", s \o t) = n /\ LeasesOf("p2", s \o t) = 1
  BY <1>2, <1>6, LeasesJoined
<1> QED BY <1>3, <1>5, <1>7

\* PoolOkIsReal follows from the invariant.
LEMMA PoolOk == HInv => PoolOkIsReal
<1> SUFFICES ASSUME HInv, module = "pools", Checked, ~changed,
      "used_percent_upper" \notin DOMAIN rule,
                    NEW pool \in ToSet(device), pool.name \in DOMAIN results, results[pool.name] =
                      "OK"
             PROVE  100 * pool.leases < 80 * pool.size
  BY DEF PoolOkIsReal
<1> DEFINE sec == section[1]
           rows == ToSet(RowsOf(asked["print"]))
           row == PoolRow(pool)
           p == Params(rule, PoolDefaults)
           found == sec[pool.name]
<1>1. PICK reports \in BOOLEAN, other \in BOOLEAN, n \in {3, 4, 5} :
          device = PoolPair(Forward, 5, reports, other, n)
           \/ device = PoolPair(Backward, 0, reports, other, n)
  <2>1. device \in PoolDevices
    BY DEF HInv, Devices
  <2>2. device # <<>>
    BY DEF ToSet
  <2> QED BY <2>1, <2>2, PoolDevice
<1>2. /\ DOMAIN device = {1, 2}
      /\ \E r \in {Forward, Backward} :
           /\ device[1] = Pool("p1", r, IF r = Forward THEN 5 ELSE 0, reports, n)
           /\ PoolSize(r) = IF r = Forward THEN {5} ELSE {}
      /\ device[2] = Pool("p2", <<Net(30)>>, 4, other, 1)
  <2>1. Backward # Forward
    <3>1. DOMAIN Backward # DOMAIN Forward
      BY DEF Backward, Forward
    <3> QED BY <3>1
  <2>2. PoolSize(Forward) = {5} /\ PoolSize(Backward) = {}
    BY PoolSizes DEF Forward, Backward
  <2> QED BY <1>1, <2>1, <2>2 DEF PoolPair
<1>3. /\ "print" \in DOMAIN asked /\ asked["print"] \in {Failed, PoolReply("print", device)}
      /\ \A call \in DOMAIN asked : asked[call] \in {Failed, PoolReply(call, device)}
  <2>1. Calls = PoolCalls(asked) /\ Due = {} /\ AskedOK
    BY DEF Calls, Checked, HInv, SectionOK
  <2>2. "print" \in DOMAIN asked
    <3>1. 1 \in DOMAIN Calls /\ Calls[1] = "print"
      BY <2>1 DEF PoolCalls
    <3> QED BY <2>1, <3>1 DEF Due
  <2> QED BY <2>1, <2>2 DEF AskedOK, Reply
<1>4. section = PoolSection(asked) /\ results[pool.name] = PoolCheck(pool.name, rule, sec)
  BY DEF HInv, SectionOK, ResultsOK, Checked, Sections, Outcome
<1>5. asked["print"] = [k \in DOMAIN device |-> PoolRow(device[k])]
       /\ RowsOf(asked["print"]) = asked["print"]
  <2>1. CASE asked["print"] = Failed
    <3>1. rows = {}
      BY <2>1 DEF RowsOf, ToSet
    <3> QED BY <1>4, <3>1 DEF PoolSection, Checked
  <2>2. CASE asked["print"] # Failed
    BY <1>3, <2>2 DEF PoolReply, RowsOf
  <2> QED BY <2>1, <2>2
<1>6. rows = {PoolRow(device[1]), PoolRow(device[2])}
  BY <1>2, <1>5 DEF ToSet
<1>7. pool \in {device[1], device[2]}
  BY <1>2 DEF ToSet
<1>8. /\ PoolRow(device[1]).name = "p1" /\ device[1].name = "p1"
      /\ PoolRow(device[2]).name = "p2" /\ device[2].name = "p2"
      /\ device[1].leases = n /\ device[2].leases = 1
  BY <1>2 DEF PoolRow, Pool
<1>9. row \in rows /\ (CHOOSE r \in rows : r.name = pool.name) = row
       /\ pool.name \in {r.name : r \in rows}
  BY <1>6, <1>7, <1>8
<1>10. found = [row EXCEPT !.used = Counted(row, asked)] /\ pool.name \in DOMAIN sec
  <2>1. section = <<[name \in {r.name : r \in rows} |->
                  [(CHOOSE r \in rows : r.name = name) EXCEPT
                       !.used = Counted((CHOOSE r \in rows : r.name = name), asked)]]>>
    BY <1>4, <1>9 DEF PoolSection
  <2> HIDE DEF rows, row
  <2> QED BY <1>9, <2>1
<1>11. /\ found.used = Counted(row, asked) /\ found.total = row.total /\ found.ranges = row.ranges
       /\ row.used = (IF pool.reports THEN {pool.leases} ELSE {})
       /\ row.total = (IF pool.reports /\ pool.size > 0 THEN {pool.size} ELSE {})
       /\ row.ranges = pool.ranges
  BY <1>10 DEF PoolRow
<1>12. found.used \in {{}, {pool.leases}}
  <2>1. CASE pool.reports
    BY <1>11, <2>1 DEF Counted
  <2>2. CASE ~pool.reports /\ asked["used"] = Failed
    BY <1>11, <2>2 DEF Counted
  <2>3. CASE ~pool.reports /\ asked["used"] # Failed
    <3>1. row.used = {}
      BY <1>11, <2>3
    <3>2. "used" \in DOMAIN asked
      <4>1. Calls = <<"print", "used">>
        <5>1. Calls = PoolCalls(asked)
          BY DEF Calls
        <5> HIDE DEF row, rows
        <5> QED BY <1>3, <1>9, <3>1, <5>1 DEF PoolCalls, rows
      <4>2. Due = {}
        BY DEF Checked, HInv, SectionOK
      <4> QED BY <4>1, <4>2 DEF Due
    <3>3. asked["used"] = PoolReply("used", device)
      BY <1>3, <2>3, <3>2
    <3>4. asked["used"] = LeaseRows(device)
      BY <3>3 DEF PoolReply
    <3>5. LeasesOf(pool.name, asked["used"]) = pool.leases
      <4>1. LeasesOf("p1", asked["used"]) = n /\ LeasesOf("p2", asked["used"]) = 1
        BY <1>2, <1>8, <3>4, LeasesCounted
      <4>2. (pool.name = "p1" /\ pool.leases = n) \/ (pool.name = "p2" /\ pool.leases = 1)
        BY <1>7, <1>8
      <4> QED BY <4>1, <4>2
    <3>6. row.name = pool.name
      BY <1>7, <1>8
    <3>7. Counted(row, asked) = {LeasesOf(row.name, asked["used"])}
      <4> HIDE DEF row
      <4> QED BY <2>3, <3>1 DEF Counted
    <3> QED BY <1>11, <3>5, <3>6, <3>7
  <2> QED BY <2>1, <2>2, <2>3
<1> DEFINE sizes == IF found.total \ {0} # {} THEN found.total ELSE PoolSize(found.ranges)
<1>13. sizes \in {{}, {pool.size}} /\ pool.size \in {0, 4, 5} /\ pool.leases \in {1, 3, 4, 5}
        /\ (sizes # {} => pool.size # 0)
  <2>1. CASE pool = device[1]
    <3>1. PICK r \in {Forward, Backward} :
           /\ pool = Pool("p1", r, IF r = Forward THEN 5 ELSE 0, reports, n)
           /\ PoolSize(r) = IF r = Forward THEN {5} ELSE {}
      BY <1>2, <2>1
    <3>2. pool.ranges = r /\ pool.size = (IF r = Forward THEN 5 ELSE 0) /\ pool.leases = n
      BY <3>1 DEF Pool
    <3> HIDE DEF found, row
    <3> QED BY <1>11, <3>1, <3>2
  <2>2. CASE pool = device[2]
    <3>1. pool.ranges = <<Net(30)>> /\ pool.size = 4 /\ pool.leases = 1
      BY <1>2, <2>2 DEF Pool
    <3>2. PoolSize(pool.ranges) = {4}
      BY <3>1, PoolSizes
    <3> HIDE DEF found, row
    <3> QED BY <1>11, <3>1, <3>2
  <2> QED BY <1>7, <2>1, <2>2
<1>14. found.used = {pool.leases} /\ sizes = {pool.size}
        /\ results[pool.name] = Judged(pool.leases, pool.size, found.available, p)
  <2>1. results[pool.name] = IF found.used = {} \/ sizes = {} THEN "UNKNOWN"
            ELSE Judged(CHOOSE k \in found.used : TRUE, CHOOSE k \in sizes : TRUE, found.available,
                        p)
    BY <1>4, <1>10 DEF PoolCheck
  <2> HIDE DEF found, sizes, p
  <2> QED BY <1>12, <1>13, <2>1
<1> DEFINE a == Upper((100 * pool.leases) \div pool.size, p.used_percent_upper)
           free == IF found.available # {} THEN CHOOSE k \in found.available : TRUE
                ELSE IF pool.size > pool.leases THEN pool.size - pool.leases ELSE 0
           b == IF "free_lower" \in DOMAIN p THEN Lower(free, p.free_lower) ELSE "OK"
<1>15. Worst({a, b}) = "OK"
  BY <1>14 DEF Judged
<1>16. a \notin {"CRIT", "WARN"}
  <2> HIDE DEF a, b
  <2> QED BY <1>15, WorstOK
<1>17. p.used_percent_upper = Fixed(80, 90)
  BY DEF Params, ++, PoolDefaults
<1>18. ~((100 * pool.leases) \div pool.size >= 80)
  <2> HIDE DEF p
  <2> QED BY <1>16, <1>17 DEF Upper, Fixed
<1>19. pool.size \in {4, 5}
  BY <1>13, <1>14
<1> HIDE DEF a, b, p, found, sizes, row, rows, sec
<1> QED BY SMT, <1>13, <1>18, <1>19

-----------------------------------------------------------------------------
(* WiFi.                                                                   *)

\* Joining the empty sequence changes nothing.
LEMMA EmptyJoin == ASSUME NEW S, NEW s \in Seq(S) PROVE <<>> \o s = s /\ s \o <<>> = s
  OBVIOUS

\* A device has one wireless driver.
LEMMA WifiDevice ==
    ASSUME NEW d \in WifiDevices
    PROVE  \E driver \in Drivers : \E links, disabled, clients :
      d = Wifi(driver, links, disabled, clients)
<1>1. PICK driver \in Drivers : d \in DevicesOf(driver)
  BY DEF WifiDevices, Drivers
<1> DEFINE scenes == Scenes(UpLink(driver), DownLink(driver))
<1>2. d \in {Wifi(driver, radios[1], radios[2], clients) : radios \in scenes,
             clients \in Registrations}
  BY <1>1 DEF DevicesOf
<1> HIDE DEF scenes
<1>3. PICK radios \in scenes, clients \in Registrations :
        d = Wifi(driver, radios[1], radios[2], clients)
  BY <1>2
<1> QED BY <1>3

\* The interfaces and profiles of a device.
LEMMA WifiMenus ==
    ASSUME NEW d \in WifiDevices
    PROVE  /\ d.driver \in Drivers
           /\ \E a, b, c : d.ifaces = <<a, b, c>>
           /\ \E a : d.config = <<a>>
<1>1. PICK driver \in Drivers : \E links, disabled, clients :
        d = Wifi(driver, links, disabled, clients)
  BY WifiDevice
<1>2. PICK links, disabled, clients : d = Wifi(driver, links, disabled, clients)
  BY <1>1
<1>3. d.driver = driver
  BY <1>2 DEF Wifi
<1>4. \E a, b, c : d.ifaces = <<a, b, c>>
  BY <1>2 DEF Wifi
<1>5. \E a : d.config = <<a>>
  BY <1>2 DEF Wifi
<1> QED BY <1>3, <1>4, <1>5

\* Rows are listed for the driver of the device only.
LEMMA WifiRows ==
    ASSUME HInv, module = "wifi"
    PROVE  /\ device.driver \in Drivers
           /\ \A driver \in Drivers \ {device.driver} : \A menu : RowsIn(asked, driver, menu) = <<>>
           /\ \/ RowsIn(asked, device.driver, "ifaces") = <<>>
              \/ \E a, b, c : RowsIn(asked, device.driver, "ifaces") = <<a, b, c>>
           /\ \/ RowsIn(asked, device.driver, "config") = <<>>
              \/ \E a : RowsIn(asked, device.driver, "config") = <<a>>
<1> DEFINE own == device.driver
<1>1. Devices = WifiDevices /\ AskedOK /\ device \in Devices
  BY DEF HInv, Devices
<1>2. own \in Drivers
  BY <1>1, WifiMenus
<1>3. ASSUME NEW driver \in Drivers \ {own}, NEW menu PROVE RowsIn(asked, driver, menu) = <<>>
  <2>1. <<driver, menu>> \in DOMAIN asked => asked[<<driver, menu>>] = Failed
    BY <1>1 DEF AskedOK
  <2> QED BY <2>1 DEF RowsIn, RowsOf
<1>4. ASSUME NEW menu \in {"ifaces", "config"}, <<own, menu>> \in DOMAIN asked,
        asked[<<own, menu>>] # Failed
      PROVE  \E d \in WifiDevices : asked[<<own, menu>>] = IF menu = "ifaces" THEN d.ifaces
                                                           ELSE d.config
  <2>1. asked[<<own, menu>>] \in Answers(<<own, menu>>)
    BY <1>1, <1>4 DEF AskedOK
  <2>2. PICK d \in WifiDevices : asked[<<own, menu>>] = WifiReply(<<own, menu>>, d)
    BY <1>1, <1>4, <2>1 DEF Answers, Reply
  <2>3. WifiReply(<<own, menu>>, d) = IF menu = "ifaces" THEN d.ifaces ELSE d.config
    BY <1>4, <2>2 DEF WifiReply
  <2> QED BY <2>2, <2>3
<1>5. ASSUME NEW menu \in {"ifaces", "config"}
      PROVE  \/ RowsIn(asked, own, menu) = <<>>
             \/ \E d \in WifiDevices : RowsIn(asked, own, menu) = IF menu = "ifaces" THEN d.ifaces
                                                                  ELSE d.config
  <2>1. CASE <<own, menu>> \in DOMAIN asked /\ asked[<<own, menu>>] # Failed
    BY <1>4, <2>1 DEF RowsIn, RowsOf
  <2>2. CASE ~(<<own, menu>> \in DOMAIN asked /\ asked[<<own, menu>>] # Failed)
    BY <2>2 DEF RowsIn, RowsOf
  <2> QED BY <2>1, <2>2
<1>6. \/ RowsIn(asked, own, "ifaces") = <<>>
      \/ \E a, b, c : RowsIn(asked, own, "ifaces") = <<a, b, c>>
  <2>1. \/ RowsIn(asked, own, "ifaces") = <<>>
        \/ \E d \in WifiDevices : RowsIn(asked, own, "ifaces") = d.ifaces
    BY <1>5
  <2> QED BY <2>1, WifiMenus
<1>7. \/ RowsIn(asked, own, "config") = <<>>
      \/ \E a : RowsIn(asked, own, "config") = <<a>>
  <2>1. \/ RowsIn(asked, own, "config") = <<>>
        \/ \E d \in WifiDevices : RowsIn(asked, own, "config") = d.config
    BY <1>5
  <2> QED BY <2>1, WifiMenus
<1> QED BY <1>2, <1>3, <1>6, <1>7

\* Of three sequences all but one of which are empty, that one is what they join to.
LEMMA OneOfThree ==
    ASSUME NEW S, NEW s \in Seq(S), NEW ss, Len(ss) = 3, NEW k \in 1 .. 3, ss[k] = s,
           \A l \in (1 .. 3) \ {k} : ss[l] = <<>>
    PROVE  FlattenSeq(ss) = s
<1>1. FlattenSeq(ss) = (ss[1] \o ss[2]) \o ss[3]
  BY FlattenSmall
<1>2. /\ <<>> \o s = s /\ s \o <<>> = s /\ <<>> \o <<>> = <<>>
  BY EmptyJoin
<1>3. CASE k = 1
  <2>1. ss[1] = s /\ ss[2] = <<>> /\ ss[3] = <<>>
    BY <1>3
  <2> QED BY <1>1, <1>2, <2>1
<1>4. CASE k = 2
  <2>1. ss[1] = <<>> /\ ss[2] = s /\ ss[3] = <<>>
    BY <1>4
  <2> QED BY <1>1, <1>2, <2>1
<1>5. CASE k = 3
  <2>1. ss[1] = <<>> /\ ss[2] = <<>> /\ ss[3] = s
    BY <1>5
  <2> QED BY <1>1, <1>2, <2>1
<1> QED BY <1>3, <1>4, <1>5

\* The names of the drivers.
LEMMA SourceNames ==
    /\ DOMAIN Sources = 1 .. 3
    /\ Sources[1][1] = "wifi" /\ Sources[2][1] = "wireless" /\ Sources[3][1] = "capsman"
<1>1. \A x, y : <<x, y>>[1] = x
  OBVIOUS
<1> QED BY <1>1, WifiSources, Zenon

\* A function on three numbers has the length three.
LEMMA LengthThree == ASSUME NEW s, s = [k \in 1 .. 3 |-> s[k]] PROVE Len(s) = 3
<1>1. s \in Seq({s[1], s[2], s[3]})
  OBVIOUS
<1> QED BY <1>1

\* What the menus of the own driver list is all that is listed.
LEMMA OwnOnly ==
    ASSUME NEW own \in Drivers, NEW S, NEW s \in Seq(S), NEW ss,
           ss = [k \in DOMAIN Sources |-> ss[k]],
           \A k \in DOMAIN Sources : ss[k] = IF Sources[k][1] = own THEN s ELSE <<>>
    PROVE  FlattenSeq(ss) = s
<1>1. ss = [k \in 1 .. 3 |-> ss[k]]
  BY SourceNames
<1>2. Len(ss) = 3
  BY <1>1, LengthThree
<1>3. PICK k \in 1 .. 3 : Sources[k][1] = own
  BY SourceNames DEF Drivers
<1>4. ss[k] = s
  BY <1>3, SourceNames
<1>5. \A l \in (1 .. 3) \ {k} : Sources[l][1] # own
  BY <1>3, SourceNames
<1>6. \A l \in (1 .. 3) \ {k} : ss[l] = <<>>
  BY <1>5, SourceNames
<1> QED BY <1>2, <1>4, <1>6, OneOfThree

\* The rows of a menu are a sequence.
LEMMA SomeSeq ==
    ASSUME NEW s, s = <<>> \/ (\E a : s = <<a>>) \/ \E a, b, c : s = <<a, b, c>>
    PROVE  s \in Seq({s[1], s[2], s[3]})
<1>1. CASE s = <<>>
  <2>1. \A T : <<>> \in Seq(T)
    OBVIOUS
  <2> QED BY <1>1, <2>1
<1>2. CASE \E a : s = <<a>>
  <2>1. PICK a : s = <<a>>
    BY <1>2
  <2>2. \A T : a \in T => <<a>> \in Seq(T)
    OBVIOUS
  <2>3. s[1] = a
    BY <2>1
  <2> QED BY <2>1, <2>2, <2>3
<1>3. CASE \E a, b, c : s = <<a, b, c>>
  <2>1. PICK a, b, c : s = <<a, b, c>>
    BY <1>3
  <2>2. <<a, b, c>> \in Seq({a, b, c})
    OBVIOUS
  <2>3. s[1] = a /\ s[2] = b /\ s[3] = c
    BY <2>1
  <2> QED BY <2>1, <2>2, <2>3
<1> QED BY <1>1, <1>2, <1>3

\* What is listed comes from the driver of the device.
LEMMA ListedOwn ==
    ASSUME HInv, module = "wifi", NEW menu \in {"ifaces", "config"}
    PROVE  Listed(menu) = RowsIn(asked, device.driver, menu)
<1> DEFINE own == device.driver
           s == RowsIn(asked, own, menu)
           ss == [k \in DOMAIN Sources |-> RowsIn(asked, Sources[k][1], menu)]
           S == {s[1], s[2], s[3]}
<1>1. own \in Drivers
  BY WifiRows
<1>2. s \in Seq(S)
  <2>1. s = <<>> \/ (\E a : s = <<a>>) \/ \E a, b, c : s = <<a, b, c>>
    BY WifiRows
  <2> HIDE DEF s
  <2> QED BY <2>1, SomeSeq
<1>3. \A k \in DOMAIN Sources : ss[k] = IF Sources[k][1] = own THEN s ELSE <<>>
  <2>1. \A k \in DOMAIN Sources : Sources[k][1] \in Drivers
    BY SourceNames DEF Drivers
  <2> QED BY <2>1, WifiRows
<1>4. ss = [k \in DOMAIN Sources |-> ss[k]] /\ Listed(menu) = FlattenSeq(ss)
  BY DEF Listed
<1> HIDE DEF s, ss, S, own
<1>5. FlattenSeq(ss) = s
  BY <1>1, <1>2, <1>3, <1>4, OwnOnly
<1> QED BY <1>4, <1>5 DEF s, own

\* The elements of three sequences joined.
LEMMA ThreeFlattened ==
    ASSUME NEW S, NEW ss, Len(ss) = 3, ss[1] \in Seq(S), ss[2] \in Seq(S), ss[3] \in Seq(S)
    PROVE  FlattenSeq(ss) \in Seq(S)
     /\ ToSet(FlattenSeq(ss)) = ToSet(ss[1]) \cup ToSet(ss[2]) \cup ToSet(ss[3])
<1>1. FlattenSeq(ss) = (ss[1] \o ss[2]) \o ss[3]
  BY FlattenSmall
<1> DEFINE a == ss[1] \o ss[2]
<1>2. a \in Seq(S) /\ ToSet(a) = ToSet(ss[1]) \cup ToSet(ss[2])
  BY ToSetJoined
<1> HIDE DEF a
<1>3. a \o ss[3] \in Seq(S) /\ ToSet(a \o ss[3]) = ToSet(a) \cup ToSet(ss[3])
  BY <1>2, ToSetJoined
<1> QED BY <1>1, <1>2, <1>3 DEF a

\* The enabled interfaces of the own driver have a line each.
LEMMA WifiLines ==
    ASSUME HInv, module = "wifi"
    PROVE  LET own == device.driver
               rows == RowsIn(asked, own, "ifaces")
               profiles == RowsIn(asked, own, "config")
               lines == IfaceLines(asked, own)
           IN /\ \E S : lines \in Seq(S)
              /\ ToSet(lines) = {WifiLine(r, profiles) : r \in {u \in ToSet(rows) : ~u.disabled}}
              /\ \A driver \in Drivers \ {own} : IfaceLines(asked, driver) = <<>>
<1> DEFINE own == device.driver
           rows == RowsIn(asked, own, "ifaces")
           profiles == RowsIn(asked, own, "config")
           lines == IfaceLines(asked, own)
           line(k) == WifiLine(rows[k], profiles)
           one(k) == IF rows[k].disabled THEN <<>> ELSE <<line(k)>>
           ss == [k \in DOMAIN rows |-> one(k)]
           S == {line(1), line(2), line(3)}
<1>0. ASSUME NEW driver, RowsIn(asked, driver, "ifaces") = <<>>
      PROVE IfaceLines(asked, driver) = <<>>
  <2>1. IfaceLines(asked, driver) = FlattenSeq(<<>>)
    BY <1>0 DEF IfaceLines
  <2> QED BY <2>1, FlattenEmpty
<1>1. lines = FlattenSeq(ss)
  BY DEF IfaceLines
<1>2. \A driver \in Drivers \ {own} : IfaceLines(asked, driver) = <<>>
  BY <1>0, WifiRows
<1>3. CASE rows = <<>>
  <2>1. lines = <<>> /\ ToSet(rows) = {} /\ <<>> \in Seq({})
    BY <1>0, <1>3 DEF ToSet
  <2>0. ToSet(lines) = {}
    BY <2>1 DEF ToSet
  <2> HIDE DEF lines, rows, profiles
  <2>2. lines \in Seq({})
         /\ ToSet(lines) = {WifiLine(r, profiles) : r \in {u \in ToSet(rows) : ~u.disabled}}
    BY <2>0, <2>1
  <2> QED BY <1>2, <2>2 DEF lines, rows, profiles
<1>4. CASE \E a, b, c : rows = <<a, b, c>>
  <2>1. DOMAIN rows = 1 .. 3
    BY <1>4
  <2>2. \A k : one(k) \in {<<>>, <<line(k)>>}
    OBVIOUS
  <2>3. \A k \in 1 .. 3 : one(k) \in Seq(S)
    <3>1. \A k \in 1 .. 3 : line(k) \in S
      <4> HIDE DEF rows, profiles, line
      <4> QED OBVIOUS
    <3> HIDE DEF rows, profiles, line, S, one
    <3>2. \A x \in S : <<x>> \in Seq(S)
      OBVIOUS
    <3>3. <<>> \in Seq(S)
      OBVIOUS
    <3> QED BY <2>2, <3>1, <3>2, <3>3
  <2>4. \A k \in 1 .. 3 : ToSet(one(k)) = IF rows[k].disabled THEN {} ELSE {line(k)}
    <3>1. (\A x : ToSet(<<x>>) = {x}) /\ ToSet(<<>>) = {}
      BY DEF ToSet
    <3> HIDE DEF rows, profiles, line
    <3> QED BY <3>1
  <2>5. ss = [k \in 1 .. 3 |-> ss[k]] /\ ss[1] = one(1) /\ ss[2] = one(2) /\ ss[3] = one(3)
    BY <2>1
  <2> HIDE DEF ss, S, one
  <2>6. Len(ss) = 3
    BY <2>5, LengthThree
  <2>7. FlattenSeq(ss) \in Seq(S)
         /\ ToSet(FlattenSeq(ss)) = ToSet(one(1)) \cup ToSet(one(2)) \cup ToSet(one(3))
    <3>1. ss[1] \in Seq(S) /\ ss[2] \in Seq(S) /\ ss[3] \in Seq(S)
      BY <2>3, <2>5
    <3>2. FlattenSeq(ss) \in Seq(S)
           /\ ToSet(FlattenSeq(ss)) = ToSet(ss[1]) \cup ToSet(ss[2]) \cup ToSet(ss[3])
      BY <2>6, <3>1, ThreeFlattened
    <3> QED BY <2>5, <3>2
  <2>8. ToSet(lines) = {line(k) : k \in {l \in 1 .. 3 : ~rows[l].disabled}}
    <3> HIDE DEF rows, profiles, lines, line
    <3> QED BY <1>1, <2>4, <2>7
  <2>9. ToSet(lines) = {WifiLine(r, profiles) : r \in {u \in ToSet(rows) : ~u.disabled}}
    <3> HIDE DEF rows, profiles, lines
    <3> QED BY <2>1, <2>8 DEF ToSet, line
  <2> HIDE DEF rows, lines, profiles
  <2> QED BY <1>1, <1>2, <2>7, <2>9 DEF rows, lines, profiles
<1> QED BY <1>3, <1>4, WifiRows

\* The section groups the lines of the own driver.
LEMMA WifiMadeOf ==
    ASSUME HInv, module = "wifi", Checked
    PROVE  section[1] = Grouped(IfaceLines(asked, device.driver),
               FlattenSeq([k \in DOMAIN Sources |-> ClientLines(asked, Sources[k][1])]))
<1> DEFINE own == device.driver
           lines == IfaceLines(asked, own)
           ss == [k \in DOMAIN Sources |-> IfaceLines(asked, Sources[k][1])]
           clients == FlattenSeq([k \in DOMAIN Sources |-> ClientLines(asked, Sources[k][1])])
           caps == FlattenSeq([k \in DOMAIN Sources |-> RowsIn(asked, Sources[k][1], "caps")])
<1>1. section = WifiSection(asked) /\ section # <<>>
  BY DEF HInv, SectionOK, Checked, Sections
<1>2. WifiSection(asked) = IF FlattenSeq(ss) \o clients = <<>> /\ caps = <<>> THEN <<>>
                            ELSE <<Grouped(FlattenSeq(ss), clients)>>
  BY Zenon DEF WifiSection
<1>3. PICK S : lines \in Seq(S)
  BY WifiLines
<1>4. \A k \in DOMAIN Sources : ss[k] = IF Sources[k][1] = own THEN lines ELSE <<>>
  <2>1. \A k \in DOMAIN Sources : Sources[k][1] \in Drivers
    BY SourceNames DEF Drivers
  <2>2. \A driver \in Drivers \ {own} : IfaceLines(asked, driver) = <<>>
    BY WifiLines
  <2> QED BY <2>1, <2>2
<1>5. own \in Drivers
  BY WifiRows
<1>6. FlattenSeq(ss) = lines
  <2>1. ss = [k \in DOMAIN Sources |-> ss[k]]
    OBVIOUS
  <2> HIDE DEF ss, lines, own
  <2> QED BY <1>3, <1>4, <1>5, <2>1, OwnOnly
<1> HIDE DEF ss, lines, clients, caps
<1>7. section = <<Grouped(lines, clients)>>
  BY <1>1, <1>2, <1>6
<1> QED BY <1>7 DEF lines, clients

\* DownRadioIsReported follows from the invariant.
LEMMA DownRadio == HInv => DownRadioIsReported
<1> SUFFICES ASSUME HInv, module = "wifi", Checked, "interface_down_state" \notin DOMAIN rule,
                    NEW radio \in ToSet(Listed("ifaces")), ~radio.disabled,
                    radio.link \in {Local(FALSE), Bound(TRUE, TRUE)},
                    KnownSsid(radio) \in DOMAIN results
             PROVE  results[KnownSsid(radio)] # "OK"
  BY DEF DownRadioIsReported
<1> DEFINE item == KnownSsid(radio)
           own == device.driver
           lines == IfaceLines(asked, own)
           profiles == RowsIn(asked, own, "config")
           clients == FlattenSeq([k \in DOMAIN Sources |-> ClientLines(asked, Sources[k][1])])
           line == WifiLine(radio, profiles)
           sec == section[1]
           p == Params(rule, WifiDefaults)
           a == WifiAbove(sec[item].clients, p, "clients_upper")
           b == WifiBelow(sec[item].clients, p, "clients_lower")
           c == Signals(sec[item].signals, p)
           d == IF \E r \in sec[item].radios : ~r.up THEN p.interface_down_state ELSE "OK"
<1>1. line \in ToSet(lines)
  BY ListedOwn, WifiLines
<1>2. item = SsidOf(radio, profiles)
  BY ListedOwn DEF KnownSsid
<1>3. ~Up(radio)
  BY DEF Up, Local, Bound
<1>4. line.ssid = item /\ ~line.up
  BY <1>2, <1>3 DEF WifiLine
<1>5. sec = Grouped(lines, clients)
  BY WifiMadeOf
<1>6. item \in DOMAIN sec => \E r \in sec[item].radios : ~r.up
  <2> SUFFICES ASSUME item \in DOMAIN sec PROVE line \in sec[item].radios
    BY <1>4
  <2> HIDE DEF item, line, lines, clients, sec
  <2>1. sec[item].radios = {r \in ToSet(lines) : r.ssid = item}
    BY <1>5 DEF Grouped
  <2> QED BY <1>1, <1>4, <2>1
<1>7. results[item] = WifiCheck(item, rule, sec)
  BY DEF HInv, ResultsOK, Checked, Outcome
<1>8. WifiCheck(item, rule, sec) = IF item \notin DOMAIN sec THEN Worst({}) ELSE Worst({a, b, c, d})
  BY DEF WifiCheck
<1>9. p.interface_down_state = "WARN"
  BY DEF Params, ++, WifiDefaults
<1>10. CASE item \notin DOMAIN sec
  <2>1. Worst({}) = "UNKNOWN"
    BY WorstChain
  <2> QED BY <1>7, <1>8, <1>10, <2>1
<1>11. CASE item \in DOMAIN sec
  <2>1. d = "WARN"
    BY <1>6, <1>9, <1>11
  <2>2. results[item] = Worst({a, b, c, d})
    BY <1>7, <1>8, <1>11
  <2> HIDE DEF a, b, c, d
  <2> QED BY <2>1, <2>2, WorstOK
<1> QED BY <1>10, <1>11

-----------------------------------------------------------------------------
(* Counters.                                                               *)

\* A bounded set of naturals has a greatest element.
LEMMA MaxIn ==
    ASSUME NEW N \in Nat, NEW K \in SUBSET (1 .. N), K # {}
    PROVE  Max(K) \in K /\ \A l \in K : l <= Max(K)
<1> DEFINE M == {N - k : k \in K}
<1>1. M \in SUBSET Nat /\ M # {}
  <2>1. \A k \in K : N - k \in Nat
    OBVIOUS
  <2>2. PICK k \in K : TRUE
    OBVIOUS
  <2> QED BY <2>1, <2>2
<1>2. Min(M) \in M /\ \A m \in M : Min(M) <= m
  BY <1>1, MinIn
<1>3. PICK k \in K : Min(M) = N - k
  BY <1>2
<1>4. \A l \in K : k >= l
  <2> SUFFICES ASSUME NEW l \in K PROVE k >= l
    OBVIOUS
  <2>1. N - k <= N - l
    BY <1>2, <1>3
  <2> QED BY <2>1
<1> QED BY <1>4 DEF Max

\* The rows of a reply are finitely many.
LEMMA SmallSet ==
    ASSUME NEW rows, DOMAIN rows \subseteq 1 .. 3
    PROVE  Cardinality(ToSet(rows)) \in Nat
<1> DEFINE a == rows[1]
           b == rows[2]
           c == rows[3]
           S == ToSet(rows)
           ab == {a} \cup {b}
           abc == ab \cup {c}
<1>1. S \in SUBSET abc
  BY DEF ToSet
<1> HIDE DEF S, a, b, c
<1>2. IsFiniteSet({a})
  BY FS_Singleton
<1>3. IsFiniteSet(ab)
  BY <1>2, FS_AddElement
<1> HIDE DEF ab
<1>4. IsFiniteSet(abc)
  BY <1>3, FS_AddElement
<1> HIDE DEF abc
<1>5. IsFiniteSet(S)
  BY <1>1, <1>4, FS_Subset
<1>6. Cardinality(S) \in Nat
  BY <1>5, FS_CardinalityType
<1> QED BY <1>6 DEF S

\* A device has up to three rows.
LEMMA FirewallRows ==
    ASSUME NEW d \in FirewallDevices
    PROVE  DOMAIN d.rows \subseteq 1 .. 3
<1> DEFINE O == {<<1, 1, 2>>, <<1, 2, 3>>, <<2>>, <<3, 2>>}
           Off == SUBSET {1, 2}
<1>1. \A o \in O : DOMAIN o \subseteq 1 .. 3
  OBVIOUS
<1> DEFINE Marked ==
             {[rows |-> [k \in DOMAIN order |->
                            FirewallRule(order[k], Comment(order[k], shared), order[k] \in off)],
               show |-> show] :
                  order \in O, shared \in BOOLEAN, off \in Off, show \in BOOLEAN}
<1>2. CASE d \in Marked
  <2> SUFFICES \E order \in O : d.rows = [k \in DOMAIN order |-> d.rows[k]]
    <3> HIDE DEF O
    <3> QED BY <1>1
  <2>1. d \in Marked
    BY <1>2
  <2> HIDE DEF O, Off
  <2>2. PICK order \in O, shared \in BOOLEAN, off \in Off, show \in BOOLEAN :
          d = [rows |-> [k \in DOMAIN order |->
                           FirewallRule(order[k], Comment(order[k], shared), order[k] \in off)],
               show |-> show]
    BY <2>1
  <2> QED BY <2>2
<1>3. CASE d \notin Marked
  <2> DEFINE a == FirewallRule(1, Comment(1, FALSE), FALSE)
             b == FirewallRule(4, Unspaced, FALSE)
  <2>1. d \in {[rows |-> <<a, b>>, show |-> TRUE]} \cup Marked
    <3>1. FirewallDevices = {[rows |-> <<a, b>>, show |-> TRUE]} \cup Marked
      BY DEF FirewallDevices
    <3> HIDE DEF Marked, a, b
    <3> QED BY <3>1
  <2> HIDE DEF Marked, a, b
  <2>2. d.rows = <<a, b>>
    BY <1>3, <2>1
  <2> QED BY <2>2
<1> QED BY <1>2, <1>3

\* A rule's counter in the section is that of a row with its item, whatever the order
\* in which the rows left the set.
LEMMA FirewallCounted ==
    ASSUME HInv, module = "firewall", phase # "asking", section # <<>>,
           NEW item \in DOMAIN section[1].rules
    PROVE  \E r \in ToSet(asked["print"].rows) :
              RuleItem(r.comment) = item /\ r.id = section[1].rules[item].counted
<1> DEFINE rows == asked["print"].rows
           N == Cardinality(ToSet(rows))
<1>1. section \in FirewallSections(asked)
  BY DEF HInv, SectionOK, Sections
<1>2. /\ asked["print"] # Failed
      /\ section \in {<<[rules |-> ParseOrder(order), show_disabled |-> asked["print"].show]>> :
              order \in Orders(rows)}
  BY <1>1 DEF FirewallSections
<1>3. N \in Nat
  BY <1>2, OneCall, FirewallRows, SmallSet DEF Devices
<1>4. PICK order \in Orders(rows) : section[1].rules = ParseOrder(order)
  BY <1>2
<1>5. order \in [1 .. N -> ToSet(rows)]
  BY <1>4 DEF Orders, SetToSeqs
<1> DEFINE K == {k \in DOMAIN order : RuleItem(order[k].comment) = item}
<1>6. item \in {RuleItem(r.comment) : r \in ToSet(order)}
      /\ section[1].rules[item].counted = order[Max(K)].id
  BY <1>4 DEF ParseOrder
<1>7. K \in SUBSET (1 .. N) /\ K # {}
  BY <1>5, <1>6 DEF ToSet
<1> HIDE DEF N
<1>8. Max(K) \in K
  BY <1>3, <1>7, MaxIn
<1>9. order[Max(K)] \in ToSet(rows) /\ RuleItem(order[Max(K)].comment) = item
  BY <1>5, <1>8 DEF ToSet
<1> HIDE DEF K
<1> QED BY <1>6, <1>9

\* A peer's counter in the section is that of a row with its item.
LEMMA PeerCounted ==
    ASSUME HInv, module = "wireguard", phase # "asking", section # <<>>,
           NEW item \in DOMAIN section[1]
    PROVE  \E r \in ToSet(asked["print"]) :
              PeerItem(r) = item /\ r.key = section[1][item].bytes
<1> DEFINE rows == asked["print"]
           K == {k \in DOMAIN rows : PeerItem(rows[k]) = item}
<1>1. section = WireguardSection(asked)
  BY DEF HInv, SectionOK, Sections
<1>2. rows # Failed /\ RowsOf(rows) = rows
  BY <1>1 DEF WireguardSection, RowsOf
<1>3. rows \in WireguardDevices
  BY <1>2, OneCall DEF Devices
<1>4. DOMAIN rows \in SUBSET Nat
  BY <1>3, WgRows
<1>5. section[1] = [i \in {PeerItem(r) : r \in ToSet(rows)} |->
                 LET k == Min({k \in DOMAIN rows : PeerItem(rows[k]) = i})
                 IN [disabled |-> rows[k].disabled, bytes |-> rows[k].key,
                  counted |-> rows[k].counted, last_handshake |-> ParseDuration(rows[k].handshake)]]
  BY <1>1, <1>2 DEF WireguardSection
<1>6. item \in {PeerItem(r) : r \in ToSet(rows)}
      /\ section[1][item].bytes = rows[Min(K)].key
  BY <1>5
<1>7. K \in SUBSET Nat /\ K # {}
  BY <1>4, <1>6 DEF ToSet
<1>8. Min(K) \in K
  BY <1>7, MinIn
<1>9. rows[Min(K)] \in ToSet(rows) /\ PeerItem(rows[Min(K)]) = item
  BY <1>8 DEF ToSet
<1> HIDE DEF K
<1> QED BY <1>6, <1>8, <1>9

\* The counters that are written.
LEMMA CounterWritten ==
    ASSUME HInv, phase # "asking", section # <<>>, NEW c \in DOMAIN Written(section[1])
    PROVE  /\ module \in {"wireguard", "firewall"}
           /\ module = "wireguard" =>
                 \E r \in ToSet(asked["print"]) :
                    PeerItem(r) = c[1] /\ r.key = Written(section[1])[c]
           /\ module = "firewall" =>
                 \E r \in ToSet(asked["print"].rows) :
                    RuleItem(r.comment) = c[1] /\ r.id = Written(section[1])[c]
<1> DEFINE sec == section[1]
<1>1. PICK item \in DOMAIN results : c \in DOMAIN Stores(item, sec)
  BY DEF Written
<1>2. Written(sec)[c] = Stores(c[1], sec)[c]
  BY DEF Written
<1>3. module \in {"wireguard", "firewall"}
  BY <1>1 DEF Stores, NoFields
<1>4. ASSUME module = "wireguard"
      PROVE  \E r \in ToSet(asked["print"]) :
                    PeerItem(r) = c[1] /\ r.key = Written(sec)[c]
  <2>1. c \in DOMAIN WireguardStores(item, sec) /\ Written(sec)[c] = WireguardStores(c[1], sec)[c]
    BY <1>1, <1>2, <1>4 DEF Stores
  <2>2. /\ item \in DOMAIN sec /\ ~sec[item].disabled
        /\ c \in {<<item, way>> : way \in sec[item].counted}
    BY <2>1 DEF WireguardStores, NoFields
  <2>3. c[1] = item
    BY <2>2
  <2>4. Written(sec)[c] = sec[item].bytes
    BY <2>1, <2>2, <2>3 DEF WireguardStores
  <2> QED BY <1>4, <2>2, <2>3, <2>4, PeerCounted
<1>5. ASSUME module = "firewall"
      PROVE  \E r \in ToSet(asked["print"].rows) :
                    RuleItem(r.comment) = c[1] /\ r.id = Written(sec)[c]
  <2>1. c \in DOMAIN FirewallStores(item, sec, store)
         /\ Written(sec)[c] = FirewallStores(c[1], sec, store)[c]
    BY <1>1, <1>2, <1>5 DEF Stores
  <2>2. item \in DOMAIN sec.rules /\ c \in {<<item, "bytes">>, <<item, "packets">>}
    BY <2>1 DEF FirewallStores, NoFields
  <2>3. c[1] = item
    BY <2>2
  <2>4. Written(sec)[c] = sec.rules[item].counted
    BY <2>1, <2>2, <2>3 DEF FirewallStores
  <2> QED BY <1>5, <2>2, <2>3, <2>4, FirewallCounted
<1> QED BY <1>3, <1>4, <1>5

\* What CountersCountTheirOwn says of a step.
CounterOwn ==
    \A c \in DOMAIN store' :
          \/ c \in DOMAIN store /\ store'[c] = store[c]
          \/ IF module = "wireguard"
             THEN \E r \in ToSet(asked.print) : PeerItem(r) = c[1] /\ r.key = store'[c]
             ELSE \E r \in ToSet(asked.print.rows) :
                     RuleItem(r.comment) = c[1] /\ r.id = store'[c]

\* Every step keeps to CountersCountTheirOwn.
LEMMA CountersStep == HInv /\ [Next]_vars => CounterOwn
<1> SUFFICES ASSUME HInv, [Next]_vars PROVE CounterOwn
  OBVIOUS
<1>1. store' = store
       \/ (phase = "section" /\ section # <<>> /\ store' = Written(section[1]) ++ store)
  BY DEF Next, vars, Change, Ask, AskInVain, PrintSection, Discover, CheckServices, NextCycle
<1>2. CASE store' = store
  BY <1>2 DEF CounterOwn
<1>3. CASE phase = "section" /\ section # <<>> /\ store' = Written(section[1]) ++ store
  <2> SUFFICES ASSUME NEW c \in DOMAIN store',
                      ~(c \in DOMAIN store /\ store'[c] = store[c])
               PROVE  IF module = "wireguard"
             THEN \E r \in ToSet(asked["print"]) : PeerItem(r) = c[1] /\ r.key = store'[c]
             ELSE \E r \in ToSet(asked["print"].rows) :
                     RuleItem(r.comment) = c[1] /\ r.id = store'[c]
    BY DEF CounterOwn
  <2> DEFINE w == Written(section[1])
  <2>1. store' = w ++ store
    BY <1>3
  <2> HIDE DEF w
  <2>2. c \in DOMAIN w /\ store'[c] = w[c]
    BY <2>1 DEF ++
  <2> QED BY <1>3, <2>2, CounterWritten DEF w
<1> QED BY <1>1, <1>2, <1>3

\* What NoResultStoresACounter says of a step.
ResultOrCounter ==
    \A item \in DOMAIN results' : results'[item] = "ignored" =>
          \E c \in DOMAIN store' \ DOMAIN store : c[1] = item

\* A firewall check without a result writes a counter that was missing.
LEMMA IgnoredStores ==
    ASSUME module = "firewall", NEW item \in DOMAIN results, NEW sec,
           FirewallCheck(item, sec, store) = "ignored"
    PROVE  \E c \in DOMAIN Written(sec) \ DOMAIN store : c[1] = item
<1> DEFINE b == <<item, "bytes">>
           p == <<item, "packets">>
<1>1. item \in DOMAIN sec.rules /\ ~({b, p} \subseteq DOMAIN store)
  BY DEF FirewallCheck
<1>2. DOMAIN Stores(item, sec) = {b} \cup (IF b \in DOMAIN store THEN {p} ELSE {})
  BY <1>1 DEF Stores, FirewallStores
<1>3. DOMAIN Stores(item, sec) \subseteq DOMAIN Written(sec)
  BY DEF Written
<1>4. b[1] = item /\ p[1] = item
  OBVIOUS
<1> HIDE DEF b, p
<1> QED BY <1>1, <1>2, <1>3, <1>4

\* Every step keeps to NoResultStoresACounter.
LEMMA ResultStep == AllAccepted /\ HInv /\ [Next]_vars => [ResultOrCounter]_vars
<1> SUFFICES ASSUME AllAccepted, HInv, Next, NEW item \in DOMAIN results',
                    results'[item] = "ignored"
             PROVE  \E c \in DOMAIN store' \ DOMAIN store : c[1] = item
  BY DEF ResultOrCounter
<1>1. CheckServices
  <2>1. ASSUME Change \/ Ask \/ AskInVain \/ PrintSection PROVE FALSE
    <3>1. results' = results /\ phase # "checked"
      BY <2>1 DEF Change, Ask, AskInVain, PrintSection
    <3> QED BY <3>1 DEF HInv, ResultsOK
  <2>2. ASSUME Discover PROVE FALSE
    <3>1. results' = results ++ [i \in Discovered(section[1]) |-> "pending"] /\ phase # "checked"
      BY <2>2 DEF Discover
    <3> QED BY <3>1 DEF HInv, ResultsOK, ++
  <2>3. ASSUME NextCycle PROVE FALSE
    BY <2>3 DEF NextCycle
  <2> QED BY <2>1, <2>2, <2>3 DEF Next
<1>2. /\ phase = "section" /\ item \in DOMAIN results
      /\ section # <<>> /\ Outcome(item, section[1]) = "ignored"
      /\ store' = Written(section[1]) ++ store
  BY <1>1 DEF CheckServices
<1>3. module = "firewall"
  BY <1>2, OutcomeStates DEF States
<1>4. FirewallCheck(item, section[1], store) = "ignored"
  BY <1>2, <1>3 DEF Outcome
<1> DEFINE w == Written(section[1])
<1>5. \E c \in DOMAIN w \ DOMAIN store : c[1] = item
  BY <1>2, <1>3, <1>4, IgnoredStores
<1>6. store' = w ++ store
  BY <1>2
<1> HIDE DEF w
<1>7. DOMAIN w \subseteq DOMAIN store'
  BY <1>6 DEF ++
<1> QED BY <1>5, <1>7

-----------------------------------------------------------------------------
(* Parsers that read line after line.                                      *)

\* One line read by the parser of a kind: VRRP, files or OSPF.
ReadOf(kind, s, line) ==
    IF kind = "vrrp" THEN VrrpReadLine(s, line)
    ELSE IF kind = "file" THEN FileReadLine(s, line) ELSE OspfReadLine(s, line)

\* Line after line, the parser comes from the state s to the state t.
Reads(kind, s, lines, t) ==
    \E f : /\ f[0] = s /\ f[Len(lines)] = t
           /\ \A i \in 1 .. Len(lines) : f[i] = ReadOf(kind, f[i - 1], lines[i])

\* What the fold over the numbers 1 .. n of the lines has for each set of them.
Folded(kind, start, lines, n, h) ==
    h = [s \in SUBSET (1 .. n) |->
            IF s = {} THEN start ELSE ReadOf(kind, h[s \ {Max(s)}], lines[Max(s)])]

\* There is such a function, for any number of lines.
LEMMA FoldedExists ==
    ASSUME NEW kind, NEW start, NEW lines, NEW n \in Nat
    PROVE  \E h : Folded(kind, start, lines, n, h)
<1> DEFINE S == {m \in Nat : \E h : Folded(kind, start, lines, m, h)}
<1>1. 0 \in S
  <2> DEFINE h == [s \in SUBSET (1 .. 0) |-> start]
  <2>1. \A s \in SUBSET (1 .. 0) : s = {}
    OBVIOUS
  <2>2. Folded(kind, start, lines, 0, h)
    BY <2>1 DEF Folded
  <2> QED BY <2>2
<1>2. ASSUME NEW m \in S PROVE m + 1 \in S
  <2>1. PICK h : Folded(kind, start, lines, m, h)
    OBVIOUS
  <2> DEFINE g == [s \in SUBSET (1 .. m + 1) |->
                      IF m + 1 \in s THEN ReadOf(kind, h[s \ {m + 1}], lines[m + 1]) ELSE h[s]]
  <2>2. ASSUME NEW s \in SUBSET (1 .. m + 1)
        PROVE  g[s] = IF s = {} THEN start ELSE ReadOf(kind, g[s \ {Max(s)}], lines[Max(s)])
    <3>1. CASE m + 1 \in s
      <4>0. m + 1 \in Nat
        OBVIOUS
      <4>1. Max(s) \in s /\ m + 1 <= Max(s)
        BY ONLY <2>2, <3>1, <4>0, MaxIn, Zenon
      <4>2. Max(s) = m + 1
        <5>1. Max(s) \in 1 .. m + 1
          BY <4>1
        <5> QED BY ONLY <4>0, <4>1, <5>1
      <4>3. s \ {m + 1} \in SUBSET (1 .. m + 1) /\ m + 1 \notin s \ {m + 1} /\ s # {}
        BY <3>1
      <4>4. g[s \ {m + 1}] = h[s \ {m + 1}] /\ g[s] = ReadOf(kind, h[s \ {m + 1}], lines[m + 1])
        BY <3>1, <4>3
      <4> HIDE DEF g
      <4> QED BY <4>2, <4>3, <4>4
    <3>2. CASE m + 1 \notin s
      <4>1. s \in SUBSET (1 .. m)
        BY <3>2
      <4>2. g[s] = h[s]
        BY <3>2
      <4>3. h[s] = IF s = {} THEN start ELSE ReadOf(kind, h[s \ {Max(s)}], lines[Max(s)])
        BY <2>1, <4>1 DEF Folded
      <4>4. m + 1 \notin s \ {Max(s)} /\ s \ {Max(s)} \in SUBSET (1 .. m + 1)
        BY <3>2
      <4>5. g[s \ {Max(s)}] = h[s \ {Max(s)}]
        BY <4>4
      <4> HIDE DEF g
      <4> QED BY <4>2, <4>3, <4>5
    <3> QED BY <3>1, <3>2
  <2>3. Folded(kind, start, lines, m + 1, g)
    <3>1. g = [s \in SUBSET (1 .. m + 1) |-> g[s]]
      OBVIOUS
    <3> HIDE DEF g
    <3> QED BY <2>2, <3>1, Zenon DEF Folded
  <2> QED BY <2>3
<1>3. S = Nat
  <2> HIDE DEF S
  <2>1. S \in SUBSET Nat
    BY DEF S
  <2> QED BY <1>1, <1>2, <2>1, NumbersByInduction
<1> QED BY <1>3

\* The fold over all lines ends where reading line after line ends.
LEMMA FoldedReads ==
    ASSUME NEW kind, NEW start, NEW lines, NEW n \in Nat, n = Len(lines), NEW t,
           Reads(kind, start, lines, t), NEW h, Folded(kind, start, lines, n, h)
    PROVE  h[1 .. n] = t
<1>1. PICK f : /\ f[0] = start /\ f[n] = t
               /\ \A i \in 1 .. n : f[i] = ReadOf(kind, f[i - 1], lines[i])
  BY DEF Reads
<1> DEFINE S == {m \in Nat : m <= n => h[1 .. m] = f[m]}
<1>2. 0 \in S
  <2>1. 1 .. 0 = {} /\ {} \in SUBSET (1 .. n)
    OBVIOUS
  <2>2. h[{}] = start
    BY <2>1 DEF Folded
  <2> QED BY <1>1, <2>1, <2>2
<1>3. ASSUME NEW m \in S PROVE m + 1 \in S
  <2> SUFFICES ASSUME m + 1 <= n PROVE h[1 .. m + 1] = f[m + 1]
    OBVIOUS
  <2>1. h[1 .. m] = f[m] /\ m \in Nat
    OBVIOUS
  <2>2. Max(1 .. m + 1) \in 1 .. m + 1 /\ m + 1 <= Max(1 .. m + 1)
    <3>1. m + 1 \in Nat /\ m + 1 \in 1 .. m + 1 /\ 1 .. m + 1 \in SUBSET (1 .. m + 1)
      BY <2>1
    <3>2. 1 .. m + 1 # {}
      BY ONLY <3>1
    <3> QED BY ONLY <3>1, <3>2, MaxIn, Zenon
  <2>3. Max(1 .. m + 1) = m + 1
    BY <2>1, <2>2
  <2>4. (1 .. m + 1) \ {m + 1} = 1 .. m /\ 1 .. m + 1 \in SUBSET (1 .. n) /\ 1 .. m + 1 # {}
    <3>1. \A i : i \in (1 .. m + 1) \ {m + 1} <=> i \in 1 .. m
      BY ONLY <2>1
    <3>2. \A i \in 1 .. m + 1 : i \in 1 .. n
      BY ONLY <2>1, m + 1 <= n, n \in Nat
    <3>3. m + 1 \in 1 .. m + 1
      BY ONLY <2>1
    <3>4. (1 .. m + 1) \ {m + 1} = 1 .. m
      BY ONLY <3>1, Zenon
    <3> QED BY ONLY <3>2, <3>3, <3>4, Zenon
  <2>5. h[1 .. m + 1] = ReadOf(kind, h[(1 .. m + 1) \ {Max(1 .. m + 1)}], lines[Max(1 .. m + 1)])
    BY <2>4 DEF Folded
  <2>6. f[m + 1] = ReadOf(kind, f[m], lines[m + 1])
    <3>1. m + 1 \in 1 .. n /\ (m + 1) - 1 = m
      BY <2>1
    <3>2. f[m + 1] = ReadOf(kind, f[(m + 1) - 1], lines[m + 1])
      BY ONLY <1>1, <3>1, Zenon
    <3> QED BY ONLY <3>1, <3>2, Zenon
  <2> QED BY ONLY <2>1, <2>3, <2>4, <2>5, <2>6, Zenon
<1>4. S = Nat
  <2> HIDE DEF S
  <2>1. S \in SUBSET Nat
    BY DEF S
  <2> QED BY <1>2, <1>3, <2>1, NumbersByInduction
<1> QED BY <1>1, <1>4

\* The section of VRRP is what reading line after line leaves.
LEMMA VrrpParsed ==
    ASSUME NEW lines, NEW t, Len(lines) \in Nat, DOMAIN lines = 1 .. Len(lines),
           Reads("vrrp", [item |-> "", data |-> NoFields], lines, t)
    PROVE  VrrpParse(lines) = t.data
<1> DEFINE start == [item |-> "", data |-> NoFields]
           n == Len(lines)
           G(k) == [s \in SUBSET (DOMAIN lines) |->
                      IF s = {} THEN start
                      ELSE LET x == Max(s) IN VrrpReadLine(k[s \ {x}], lines[x])]
           it == CHOOSE k : k = G(k)
<1>1. VrrpParse(lines) = it[DOMAIN lines].data
  BY DEF VrrpParse, FoldLeft, MapThenFoldSet
<1>2. \A k : Folded("vrrp", start, lines, n, k) <=> k = G(k)
  BY DEF Folded, ReadOf, Max
<1>3. \E k : k = G(k)
  BY <1>2, FoldedExists
<1>4. it = G(it)
  <2> HIDE DEF G
  <2> QED BY <1>3
<1>5. it[1 .. n] = t
  <2> HIDE DEF G, it, start
  <2> QED BY <1>2, <1>4, FoldedReads DEF start
<1> QED BY <1>1, <1>5

\* No line changes nothing.
LEMMA ReadsNone == ASSUME NEW kind, NEW s PROVE Reads(kind, s, <<>>, s)
<1> DEFINE f == [i \in {0} |-> s]
<1>1. f[0] = s /\ Len(<<>>) = 0
  OBVIOUS
<1>2. \A i \in 1 .. Len(<<>>) : FALSE
  BY <1>1
<1> HIDE DEF f
<1> QED BY <1>1, <1>2 DEF Reads

\* One line is one step.
LEMMA ReadsOne ==
    ASSUME NEW kind, NEW s, NEW line PROVE Reads(kind, s, <<line>>, ReadOf(kind, s, line))
<1> DEFINE f == [i \in {0, 1} |-> IF i = 0 THEN s ELSE ReadOf(kind, s, line)]
<1>1. f[0] = s /\ f[1] = ReadOf(kind, s, line) /\ Len(<<line>>) = 1 /\ <<line>>[1] = line
  OBVIOUS
<1>2. \A i \in 1 .. Len(<<line>>) : i = 1 /\ i - 1 = 0
  BY <1>1
<1> HIDE DEF f
<1> QED BY <1>1, <1>2 DEF Reads

\* Lines are read after others.
LEMMA ReadsJoined ==
    ASSUME NEW kind, NEW A, NEW xs \in Seq(A), NEW ys \in Seq(A), NEW s, NEW t, NEW u,
           Reads(kind, s, xs, t), Reads(kind, t, ys, u)
    PROVE  Reads(kind, s, xs \o ys, u)
<1> DEFINE m == Len(xs)
           n == Len(ys)
<1>1. PICK f : /\ f[0] = s /\ f[m] = t
               /\ \A i \in 1 .. m : f[i] = ReadOf(kind, f[i - 1], xs[i])
  BY DEF Reads
<1>2. PICK g : /\ g[0] = t /\ g[n] = u
               /\ \A i \in 1 .. n : g[i] = ReadOf(kind, g[i - 1], ys[i])
  BY DEF Reads
<1> DEFINE h == [i \in 0 .. m + n |-> IF i <= m THEN f[i] ELSE g[i - m]]
<1>3. m \in Nat /\ n \in Nat /\ Len(xs \o ys) = m + n
  OBVIOUS
<1>4. \A i \in 1 .. m + n : (xs \o ys)[i] = IF i <= m THEN xs[i] ELSE ys[i - m]
  OBVIOUS
<1>5. h[0] = s /\ h[m + n] = u
  <2>1. 0 \in 0 .. m + n /\ m + n \in 0 .. m + n /\ 0 <= m /\ (m + n <= m <=> n = 0)
         /\ (m + n) - m = n
        /\ (n = 0 => m + n = m)
    BY <1>3
  <2> QED BY <1>1, <1>2, <2>1
<1>6. ASSUME NEW i \in 1 .. m + n PROVE h[i] = ReadOf(kind, h[i - 1], (xs \o ys)[i])
  <2>1. CASE i <= m
    <3>1. i \in 1 .. m /\ i - 1 <= m /\ i - 1 \in 0 .. m + n /\ i \in 0 .. m + n
      BY <1>3, <2>1
    <3> QED BY <1>1, <1>4, <2>1, <3>1
  <2>2. CASE i = m + 1
    <3>1. i \in 0 .. m + n /\ ~(i <= m) /\ i - m = 1 /\ i - 1 = m /\ i - 1 <= m /\ 1 \in 1 .. n
           /\ 1 - 1 = 0
          /\ i - 1 \in 0 .. m + n
      BY <1>3, <2>2
    <3> QED BY <1>1, <1>2, <1>4, <3>1
  <2>3. CASE i > m + 1
    <3>1. i \in 0 .. m + n /\ ~(i <= m) /\ i - m \in 1 .. n /\ (i - 1) - m = (i - m) - 1
           /\ ~(i - 1 <= m)
          /\ i - 1 \in 0 .. m + n
      BY <1>3, <2>3
    <3> QED BY <1>2, <1>4, <3>1
  <2> QED BY <1>3, <2>1, <2>2, <2>3
<1> HIDE DEF h
<1> QED BY <1>3, <1>5, <1>6 DEF Reads

\* The lines of several rows, or fields of a row, are read piece by piece.
LEMMA ReadsFlattened ==
    ASSUME NEW kind, NEW A, NEW ss \in Seq(Seq(A)), NEW n \in Nat, n = Len(ss), NEW g,
           \A i \in 1 .. n : Reads(kind, g[i - 1], ss[i], g[i])
    PROVE  Reads(kind, g[0], FlattenSeq(ss), g[n]) /\ FlattenSeq(ss) \in Seq(A)
<1>1. CASE n = 0
  <2>1. ss = <<>>
    <3> DEFINE X == Seq(A)
    <3>1. ss \in Seq(X) /\ Len(ss) = 0
      BY <1>1
    <3> HIDE DEF X
    <3> QED BY ONLY <3>1, EmptySeq
  <2>2. \A T : <<>> \in Seq(T)
    OBVIOUS
  <2> QED BY <1>1, <2>1, <2>2, FlattenEmpty, ReadsNone
<1>2. CASE n # 0
  <2>1. PICK f : Joined(ss, n, f) /\ FlattenSeq(ss) = f[n]
    BY <1>2, FlattenIsJoined
  <2>2. \A i \in 1 .. n : f[i] \in Seq(A)
    BY <2>1, JoinedType
  <2>3. \A i \in 1 .. n : f[i] = IF i = 1 THEN ss[i] ELSE f[i - 1] \o ss[i]
    BY <2>1 DEF Joined
  <2> DEFINE S == {k \in Nat : k \in 1 .. n => Reads(kind, g[0], f[k], g[k])}
  <2>4. 0 \in S
    OBVIOUS
  <2>5. ASSUME NEW k \in S PROVE k + 1 \in S
    <3> SUFFICES ASSUME k + 1 \in 1 .. n PROVE Reads(kind, g[0], f[k + 1], g[k + 1])
      OBVIOUS
    <3>1. (k + 1) - 1 = k /\ Reads(kind, g[(k + 1) - 1], ss[k + 1], g[k + 1])
      OBVIOUS
    <3>2. Reads(kind, g[k], ss[k + 1], g[k + 1])
      BY ONLY <3>1, Zenon
    <3>3. CASE k = 0
      <4>1. f[k + 1] = ss[k + 1]
        BY <2>3, <3>3
      <4> QED BY ONLY <3>2, <3>3, <4>1, Zenon
    <3>4. CASE k # 0
      <4>1. k \in 1 .. n /\ k + 1 # 1 /\ ss[k + 1] \in Seq(A)
        BY <3>4
      <4>2. f[k + 1] = f[k] \o ss[k + 1]
        <5>1. f[k + 1] = f[(k + 1) - 1] \o ss[k + 1]
          BY ONLY <2>3, <4>1, k + 1 \in 1 .. n, Zenon
        <5> QED BY ONLY <3>1, <5>1, Zenon
      <4>3. Reads(kind, g[0], f[k], g[k]) /\ f[k] \in Seq(A)
        BY <2>2, <4>1
      <4> QED BY ONLY <3>2, <4>1, <4>2, <4>3, ReadsJoined, Zenon
    <3> QED BY <3>3, <3>4
  <2>6. S = Nat
    <3> HIDE DEF S
    <3>1. S \in SUBSET Nat
      BY DEF S
    <3> QED BY <2>4, <2>5, <3>1, NumbersByInduction
  <2>7. n \in 1 .. n
    BY <1>2
  <2> QED BY <2>1, <2>2, <2>6, <2>7
<1> QED BY <1>1, <1>2

\* The parser at a word, of which it knows rec.
AtItem(word, rec, data) == [item |-> word, data |-> Field(word, rec) ++ data]

\* The line of a field, if the row has it.
Piece(row, field) == IF field \in DOMAIN row THEN <<<<field, row[field]>>>> ELSE <<>>

\* What VRRP and files keep of a row.
OwnFields(kind, row) ==
    [x \in (IF kind = "vrrp" THEN DOMAIN row ELSE DOMAIN row \ {"name"}) |-> row[x]]

\* A name line starts its word anew.
LEMMA NameRead ==
    ASSUME NEW kind \in {"vrrp", "file"}, NEW s, NEW name
    PROVE  ReadOf(kind, s, <<"name", name>>) =
             AtItem(name[1], IF kind = "vrrp" THEN Field("name", name) ELSE NoFields, s.data)
<1> DEFINE line == <<"name", name>>
<1>1. line[1] = "name" /\ line[2] = name
  OBVIOUS
<1> HIDE DEF line
<1>2. VrrpReadLine(s, line) = AtItem(name[1], Field("name", name), s.data)
  BY <1>1 DEF VrrpReadLine, AtItem, Field, ++
<1>3. FileReadLine(s, line) = AtItem(name[1], NoFields, s.data)
  BY <1>1 DEF FileReadLine, AtItem, Field, ++, NoFields
<1> QED BY <1>2, <1>3 DEF ReadOf, line

\* A field of the word the parser is at is set, written out.
LEMMA ItemUpdate ==
    ASSUME NEW s, NEW word, NEW f, s = [item |-> word, data |-> f], NEW v
    PROVE  [s EXCEPT !.data[word] = v] = [item |-> word, data |-> [f EXCEPT ![word] = v]]
<1>1. [s EXCEPT !.data[word] = v] =
        [x \in DOMAIN s |-> IF x = "data" THEN [s.data EXCEPT ![word] = v] ELSE s[x]]
  OBVIOUS
<1>2. DOMAIN s = {"item", "data"} /\ s.data = f /\ s.item = word
  OBVIOUS
<1> DEFINE g == [f EXCEPT ![word] = v]
<1> HIDE DEF g
<1> QED BY ONLY <1>1, <1>2 DEF g

\* A line that is no name adds to the word the parser is at.
LEMMA FieldRead ==
    ASSUME NEW kind, NEW word, NEW rec, NEW data, NEW field, NEW value,
           kind = "vrrp" \/ kind = "file", word # "", field # "name"
    PROVE  Reads(kind, AtItem(word, rec, data), <<<<field, value>>>>,
                 AtItem(word, Field(field, value) ++ rec, data))
<1> DEFINE line == <<field, value>>
           s == AtItem(word, rec, data)
           f == Field(word, rec) ++ data
           new == Field(field, value) ++ rec
<1>1. line[1] = field /\ line[2] = value
  OBVIOUS
<1>2. s.item = word /\ s.data = f /\ s = [item |-> word, data |-> f]
  BY DEF AtItem
<1>3. word \in DOMAIN f /\ f[word] = rec /\ f = [x \in DOMAIN f |-> f[x]]
  BY DEF Field, ++
<1>4. [f EXCEPT ![word] = new] = Field(word, new) ++ data
  <2> DEFINE a == [f EXCEPT ![word] = new]
             b == Field(word, new) ++ data
  <2>1. DOMAIN f = {word} \cup DOMAIN data /\ \A x \in DOMAIN f : x # word => f[x] = data[x]
    BY DEF Field, ++
  <2>2. DOMAIN b = {word} \cup DOMAIN data /\ b[word] = new
         /\ (\A x \in DOMAIN b : x # word => b[x] = data[x])
        /\ b = [x \in DOMAIN b |-> b[x]]
    BY DEF Field, ++
  <2> HIDE DEF f, new, b
  <2>3. DOMAIN a = DOMAIN f /\ a[word] = new /\ (\A x \in DOMAIN f : x # word => a[x] = f[x])
        /\ a = [x \in DOMAIN f |-> a[x]]
    BY <1>3
  <2> HIDE DEF a
  <2>4. \A x \in DOMAIN f : a[x] = b[x]
    BY <2>1, <2>2, <2>3
  <2> QED BY <2>1, <2>2, <2>3, <2>4 DEF a, b
<1> HIDE DEF line, s, f
<1>5. [s EXCEPT !.data[word] = new] = [item |-> word, data |-> [f EXCEPT ![word] = new]]
  <2> HIDE DEF new
  <2>1. s = [item |-> word, data |-> f]
    BY <1>2
  <2> QED BY ONLY <2>1, ItemUpdate
<1>6. f[word] = rec
  BY <1>3
<1>7. VrrpReadLine(s, line) = AtItem(word, new, data)
  <2>1. VrrpReadLine(s, line) = [s EXCEPT !.data[word] = Field(field, value) ++ f[word]]
    BY <1>1, <1>2 DEF VrrpReadLine, Field, ++
  <2> HIDE DEF new
  <2> QED BY <1>4, <1>5, <1>6, <2>1 DEF AtItem, new
<1>8. FileReadLine(s, line) = AtItem(word, new, data)
  <2>1. FileReadLine(s, line) = [s EXCEPT !.data[word] = Field(field, value) ++ f[word]]
    BY <1>1, <1>2 DEF FileReadLine, Field, ++
  <2> HIDE DEF new
  <2> QED BY <1>4, <1>5, <1>6, <2>1 DEF AtItem, new
<1>9. ReadOf(kind, s, line) = AtItem(word, new, data)
  BY <1>7, <1>8 DEF ReadOf
<1>10. Reads(kind, s, <<line>>, ReadOf(kind, s, line))
  BY ReadsOne
<1> HIDE DEF new
<1> QED BY <1>9, <1>10 DEF line, s, new

\* The lines of a row.
RowLines(row, fields) == FlattenSeq([m \in DOMAIN fields |-> Piece(row, fields[m])])

\* The lines of a row leave its word with the fields of the row and nothing else.
LEMMA PiecesRead ==
    ASSUME NEW kind \in {"vrrp", "file"}, NEW A, NEW row, NEW fields, NEW n \in Nat, n # 0,
           DOMAIN fields = 1 .. n, fields = [m \in 1 .. n |-> fields[m]],
           fields[1] = "name", \A m \in 2 .. n : fields[m] # "name",
           "name" \in DOMAIN row, row.name[1] # "", row = [x \in DOMAIN row |-> row[x]],
           DOMAIN row \subseteq {fields[m] : m \in 1 .. n},
           \A x \in DOMAIN row : <<x, row[x]>> \in A,
           NEW s
    PROVE  /\ Reads(kind, s, RowLines(row, fields),
                    AtItem(row.name[1], OwnFields(kind, row), s.data))
           /\ RowLines(row, fields) \in Seq(A)
<1> DEFINE word == row.name[1]
           Upto(i) == {fields[m] : m \in (IF kind = "vrrp" THEN 1 ELSE 2) .. i} \cap DOMAIN row
           g == [i \in 0 .. n |-> IF i = 0 THEN s
                                  ELSE AtItem(word, [x \in Upto(i) |-> row[x]], s.data)]
           ss == [m \in 1 .. n |-> Piece(row, fields[m])]
<1>0. /\ \A m \in 1 .. n : (m = 1 /\ m - 1 = 0) \/ m \in 2 .. n
      /\ 0 \in 0 .. n /\ n \in 0 .. n /\ 1 \in 0 .. n /\ 1 \in 1 .. n /\ n \in 1 .. n
      /\ \A i \in 2 .. n : i \in 1 .. n /\ i \in 0 .. n /\ i # 0 /\ i - 1 \in 0 .. n /\ i - 1 # 0
                              /\ (1 .. i = (1 .. i - 1) \cup {i})
                              /\ (2 .. i = (2 .. i - 1) \cup {i})
      /\ 1 .. 1 = {1} /\ 2 .. 1 = {}
  BY ONLY n \in Nat, n # 0
<1>1. ss \in Seq(Seq(A)) /\ Len(ss) = n
  <2>1. \A x : x \in A => <<x>> \in Seq(A)
    <3>1. \A T : \A x \in T : <<x>> \in Seq(T)
      BY ONLY TRUE
    <3> QED BY ONLY <3>1, Zenon
  <2>2. <<>> \in Seq(A)
    BY EmptySeq
  <2>3. \A m \in 1 .. n : ss[m] \in Seq(A)
    BY <2>1, <2>2 DEF Piece
  <2> HIDE DEF ss
  <2> DEFINE T == Seq(A)
  <2>4. ss = [m \in 1 .. n |-> ss[m]]
    BY DEF ss
  <2> HIDE DEF T
  <2>5. \A m \in 1 .. n : ss[m] \in T
    BY <2>3 DEF T
  <2>6. ss \in Seq(T) /\ Len(ss) = n
    BY ONLY <2>4, <2>5, n \in Nat
  <2> QED BY <2>6 DEF T
<1>2. Reads(kind, g[0], ss[1], g[1])
  <2>1. g[0] = s
    BY ONLY <1>0, Zenon
  <2>2. ss[1] = <<<<"name", row.name>>>>
    <3>1. ss[1] = Piece(row, fields[1])
      BY ONLY <1>0, Zenon
    <3> QED BY ONLY <3>1, fields[1] = "name", "name" \in DOMAIN row DEF Piece
  <2>3. g[1] = AtItem(word, [x \in Upto(1) |-> row[x]], s.data)
    <3>1. 1 # 0
      OBVIOUS
    <3> QED BY ONLY <1>0, <3>1, Zenon
  <2>4. [x \in Upto(1) |-> row[x]] = IF kind = "vrrp" THEN Field("name", row.name) ELSE NoFields
    <3>1. CASE kind = "vrrp"
      <4>1. Upto(1) = {"name"}
        <5>1. Upto(1) = {fields[m] : m \in 1 .. 1} \cap DOMAIN row
          BY ONLY <3>1, Zenon
        <5> HIDE DEF Upto
        <5> QED BY ONLY <1>0, <5>1, fields[1] = "name", "name" \in DOMAIN row
      <4> QED BY <3>1, <4>1 DEF Field
    <3>2. CASE kind = "file"
      <4>1. kind # "vrrp"
        BY ONLY <3>2
      <4>2. Upto(1) = {}
        <5>1. Upto(1) = {fields[m] : m \in 2 .. 1} \cap DOMAIN row
          BY ONLY <4>1, Zenon
        <5>2. 2 .. 1 = {}
          BY ONLY TRUE
        <5> HIDE DEF Upto
        <5> QED BY ONLY <5>1, <5>2
      <4> QED BY <3>2, <4>1, <4>2 DEF NoFields
    <3> QED BY <3>1, <3>2
  <2>5. ReadOf(kind, s, <<"name", row.name>>) = g[1]
    <3> HIDE DEF g, Upto
    <3> QED BY <2>3, <2>4, NameRead
  <2> HIDE DEF g, ss
  <2>6. Reads(kind, s, <<<<"name", row.name>>>>, ReadOf(kind, s, <<"name", row.name>>))
    BY ReadsOne
  <2> QED BY ONLY <2>1, <2>2, <2>5, <2>6, Zenon
<1>3. ASSUME NEW i \in 2 .. n PROVE Reads(kind, g[i - 1], ss[i], g[i])
  <2> DEFINE rec == [x \in Upto(i - 1) |-> row[x]]
             field == fields[i]
  <2>1. /\ i \in 1 .. n /\ i \in 0 .. n /\ i # 0 /\ i - 1 \in 0 .. n /\ i - 1 # 0
        /\ g[i] = AtItem(word, [x \in Upto(i) |-> row[x]], s.data)
        /\ g[i - 1] = AtItem(word, rec, s.data)
    BY ONLY <1>0, <1>3, Zenon
  <2>2. Upto(i) = Upto(i - 1) \cup ({field} \cap DOMAIN row)
    <3> HIDE DEF field
    <3> DEFINE k == IF kind = "vrrp" THEN 1 ELSE 2
    <3>2. k .. i = (k .. i - 1) \cup {i}
      BY ONLY <1>0, i \in 2 .. n, Zenon
    <3> HIDE DEF k
    <3>3. {fields[m] : m \in k .. i} = {fields[m] : m \in k .. i - 1} \cup {field}
      BY ONLY <3>2, Zenon DEF field
    <3>4. Upto(i) = {fields[m] : m \in k .. i} \cap DOMAIN row
          /\ Upto(i - 1) = {fields[m] : m \in k .. i - 1} \cap DOMAIN row
      BY DEF k
    <3> HIDE DEF Upto
    <3> QED BY ONLY <3>3, <3>4, Zenon
  <2>3. CASE field \in DOMAIN row
    <3>1. ss[i] = <<<<field, row[field]>>>>
      BY <2>1, <2>3 DEF Piece
    <3>2. [x \in Upto(i) |-> row[x]] = Field(field, row[field]) ++ rec
      <4>1. Upto(i) = {field} \cup Upto(i - 1)
        BY <2>2, <2>3
      <4> HIDE DEF Upto, field
      <4> QED BY <4>1 DEF Field, ++
    <3>3. field # "name" /\ word # ""
      OBVIOUS
    <3> HIDE DEF g, ss, Upto, field, rec, word
    <3>4. Reads(kind, AtItem(word, rec, s.data), <<<<field, row[field]>>>>,
                AtItem(word, Field(field, row[field]) ++ rec, s.data))
      BY ONLY <3>3, kind \in {"vrrp", "file"}, FieldRead
    <3> QED BY ONLY <2>1, <3>1, <3>2, <3>4, Zenon
  <2>4. CASE field \notin DOMAIN row
    <3>1. ss[i] = <<>>
      BY <2>1, <2>4 DEF Piece
    <3>2. Upto(i) = Upto(i - 1)
      BY <2>2, <2>4
    <3> HIDE DEF g, ss, Upto, field, word
    <3>3. g[i] = g[i - 1]
      BY <2>1, <3>2
    <3> QED BY <3>1, <3>3, ReadsNone
  <2> QED BY <2>3, <2>4
<1>4. \A i \in 1 .. n : Reads(kind, g[i - 1], ss[i], g[i])
  <2> HIDE DEF g, ss
  <2> QED BY ONLY <1>0, <1>2, <1>3, Zenon
<1>5. g[0] = s /\ g[n] = AtItem(word, OwnFields(kind, row), s.data)
  <2>1. [x \in Upto(n) |-> row[x]] = OwnFields(kind, row)
    <3>1. CASE kind = "vrrp"
      <4>1. Upto(n) = DOMAIN row
        BY <3>1
      <4> HIDE DEF Upto
      <4> QED BY <3>1, <4>1 DEF OwnFields
    <3>2. CASE kind = "file"
      <4>1. kind # "vrrp"
        BY ONLY <3>2
      <4>2. \A m \in 2 .. n : fields[m] # "name" /\ m \in 1 .. n
        BY ONLY <1>0, \A m \in 2 .. n : fields[m] # "name", Zenon
      <4>3. \A x \in DOMAIN row : x = "name" \/ \E m \in 2 .. n : x = fields[m]
        <5> SUFFICES ASSUME NEW x \in DOMAIN row PROVE x = "name" \/ \E m \in 2 .. n : x = fields[m]
          OBVIOUS
        <5>1. PICK m \in 1 .. n : x = fields[m]
          BY ONLY DOMAIN row \subseteq {fields[m] : m \in 1 .. n}, x \in DOMAIN row, Zenon
        <5>2. m = 1 \/ m \in 2 .. n
          BY ONLY <1>0, m \in 1 .. n, Zenon
        <5> QED BY ONLY <5>1, <5>2, fields[1] = "name", Zenon
      <4>4. Upto(n) = DOMAIN row \ {"name"}
        <5>1. Upto(n) = {fields[m] : m \in 2 .. n} \cap DOMAIN row
          BY ONLY <4>1, Zenon
        <5> HIDE DEF Upto
        <5> QED BY ONLY <4>2, <4>3, <5>1
      <4> HIDE DEF Upto
      <4> QED BY ONLY <4>1, <4>4, Zenon DEF OwnFields
    <3> QED BY <3>1, <3>2
  <2> QED BY ONLY <1>0, <2>1, n # 0, Zenon
<1>6. RowLines(row, fields) = FlattenSeq(ss)
  BY DEF RowLines
<1> HIDE DEF g, ss
<1> QED BY ONLY <1>1, <1>4, <1>5, <1>6, n \in Nat, ReadsFlattened, Zenon DEF word

\* A row has a name, whose first word is not empty, and no field that is not printed.
IsRow(row, fields) ==
    /\ row = [x \in DOMAIN row |-> row[x]]
    /\ "name" \in DOMAIN row /\ row.name[1] # ""
    /\ DOMAIN row \subseteq {fields[m] : m \in DOMAIN fields}

\* The name is printed first, and once.
IsFilter(fields, n) ==
    /\ DOMAIN fields = 1 .. n /\ fields = [m \in 1 .. n |-> fields[m]]
    /\ fields[1] = "name" /\ \A m \in 2 .. n : fields[m] # "name"

\* Before the first line.
Start == [item |-> "", data |-> NoFields]

\* After the lines of a row.
After(kind, row, data) == AtItem(row.name[1], OwnFields(kind, row), data)

\* The lines of one row, for such rows and fields.
LEMMA RowRead ==
    ASSUME NEW kind \in {"vrrp", "file"}, NEW A, NEW row, NEW fields, NEW n \in Nat, n # 0,
           IsFilter(fields, n), IsRow(row, fields), \A x \in DOMAIN row : <<x, row[x]>> \in A, NEW s
    PROVE  Reads(kind, s, RowLines(row, fields), After(kind, row, s.data))
     /\ RowLines(row, fields) \in Seq(A)
<1>1. /\ DOMAIN fields = 1 .. n /\ fields = [m \in 1 .. n |-> fields[m]]
      /\ fields[1] = "name" /\ \A m \in 2 .. n : fields[m] # "name"
  BY ONLY IsFilter(fields, n), Zenon DEF IsFilter
<1>2. /\ row = [x \in DOMAIN row |-> row[x]]
      /\ "name" \in DOMAIN row /\ row.name[1] # ""
      /\ DOMAIN row \subseteq {fields[m] : m \in 1 .. n}
  BY ONLY IsRow(row, fields), <1>1, Zenon DEF IsRow
<1> QED BY ONLY <1>1, <1>2, n \in Nat, n # 0, kind \in {"vrrp", "file"},
     \A x \in DOMAIN row : <<x, row[x]>> \in A, PiecesRead, Zenon DEF After

\* A reply of one row.
LEMMA OneRowRead ==
    ASSUME NEW kind \in {"vrrp", "file"}, NEW a, NEW fields, NEW n \in Nat, n # 0,
           IsFilter(fields, n), IsRow(a, fields)
    PROVE  /\ Reads(kind, Start, FieldLines(<<a>>, fields), After(kind, a, NoFields))
           /\ \E A : FieldLines(<<a>>, fields) \in Seq(A)
<1> DEFINE A == {<<x, a[x]>> : x \in DOMAIN a}
           ss == [k \in DOMAIN <<a>> |-> RowLines(<<a>>[k], fields)]
           g == [i \in {0, 1} |-> IF i = 0 THEN Start ELSE After(kind, a, NoFields)]
<1>1. Reads(kind, Start, RowLines(a, fields), After(kind, a, NoFields))
       /\ RowLines(a, fields) \in Seq(A)
  <2>1. \A x \in DOMAIN a : <<x, a[x]>> \in A
    OBVIOUS
  <2> HIDE DEF A
  <2>2. Reads(kind, Start, RowLines(a, fields), After(kind, a, Start.data))
         /\ RowLines(a, fields) \in Seq(A)
    BY <2>1, RowRead
  <2>3. Start.data = NoFields
    BY DEF Start
  <2> QED BY ONLY <2>2, <2>3, Zenon
<1>2. FieldLines(<<a>>, fields) = FlattenSeq(ss)
  BY DEF FieldLines, RowLines, Piece
<1>3. ss = <<RowLines(a, fields)>>
  OBVIOUS
<1> HIDE DEF ss, A
<1>4. FlattenSeq(ss) = RowLines(a, fields)
  <2>1. \A x : Len(<<x>>) = 1 /\ <<x>>[1] = x
    OBVIOUS
  <2>2. Len(ss) = 1 /\ ss[1] = RowLines(a, fields)
    BY ONLY <1>3, <2>1, Zenon
  <2> QED BY <2>2, FlattenSmall
<1> QED BY ONLY <1>1, <1>2, <1>4, Zenon

\* A reply of two rows: the second is read where the first ended.
LEMMA TwoRowsRead ==
    ASSUME NEW kind \in {"vrrp", "file"}, NEW a, NEW b, NEW fields, NEW n \in Nat, n # 0,
           IsFilter(fields, n), IsRow(a, fields), IsRow(b, fields)
    PROVE  LET first == After(kind, a, NoFields)
           IN /\ Reads(kind, Start, FieldLines(<<a, b>>, fields), After(kind, b, first.data))
              /\ \E A : FieldLines(<<a, b>>, fields) \in Seq(A)
<1> DEFINE A == {<<x, a[x]>> : x \in DOMAIN a} \cup {<<x, b[x]>> : x \in DOMAIN b}
           ss == [k \in DOMAIN <<a, b>> |-> RowLines(<<a, b>>[k], fields)]
           first == After(kind, a, NoFields)
           second == After(kind, b, first.data)
           la == RowLines(a, fields)
           lb == RowLines(b, fields)
<1>1. Reads(kind, Start, la, first) /\ la \in Seq(A)
  <2>1. \A x \in DOMAIN a : <<x, a[x]>> \in A
    OBVIOUS
  <2> HIDE DEF A
  <2>2. Reads(kind, Start, la, After(kind, a, Start.data)) /\ la \in Seq(A)
    BY <2>1, RowRead
  <2>3. Start.data = NoFields
    BY DEF Start
  <2> QED BY ONLY <2>2, <2>3, Zenon
<1>2. Reads(kind, first, lb, second) /\ lb \in Seq(A)
  <2>1. \A x \in DOMAIN b : <<x, b[x]>> \in A
    OBVIOUS
  <2> HIDE DEF A, first
  <2> QED BY <2>1, RowRead
<1>3. FieldLines(<<a, b>>, fields) = FlattenSeq(ss)
  BY DEF FieldLines, RowLines, Piece
<1>4. Len(ss) = 2 /\ ss[1] = la /\ ss[2] = lb
  <2>1. ss = <<la, lb>>
    OBVIOUS
  <2>2. \A x, y : Len(<<x, y>>) = 2 /\ <<x, y>>[1] = x /\ <<x, y>>[2] = y
    OBVIOUS
  <2> HIDE DEF ss, la, lb
  <2> QED BY ONLY <2>1, <2>2, Zenon
<1> HIDE DEF ss, A, first, second, la, lb
<1>5. FlattenSeq(ss) = la \o lb
  BY <1>4, FlattenSmall
<1>6. Reads(kind, Start, la \o lb, second)
  BY ONLY <1>1, <1>2, ReadsJoined
<1>7. la \o lb \in Seq(A)
  BY ONLY <1>1, <1>2
<1> QED BY ONLY <1>3, <1>5, <1>6, <1>7, Zenon DEF first, second

\* What is kept under a word is what one row of that name says.
Kept(kind, rows, data) ==
    \A word : LET own == {r \in ToSet(rows) : r.name[1] = word}
              IN /\ word \in DOMAIN data <=> own # {}
                 /\ word \in DOMAIN data => \E r \in own : data[word] = OwnFields(kind, r)

\* So it is without a row,
LEMMA KeptNone == ASSUME NEW kind PROVE Kept(kind, <<>>, NoFields)
<1>1. ToSet(<<>>) = {} /\ DOMAIN NoFields = {}
  BY DEF ToSet, NoFields
<1> QED BY <1>1 DEF Kept

\* after one,
LEMMA KeptOne == ASSUME NEW kind, NEW a PROVE Kept(kind, <<a>>, After(kind, a, NoFields).data)
<1> DEFINE d == After(kind, a, NoFields).data
<1>1. d = Field(a.name[1], OwnFields(kind, a)) ++ NoFields
  BY DEF After, AtItem
<1> HIDE DEF d
<1>2. DOMAIN d = {a.name[1]} /\ d[a.name[1]] = OwnFields(kind, a)
  BY <1>1 DEF Field, ++, NoFields
<1>3. ToSet(<<a>>) = {a}
  BY DEF ToSet
<1> QED BY <1>2, <1>3 DEF Kept, d

\* and after two, of one word or of two.
LEMMA KeptTwo ==
    ASSUME NEW kind, NEW a, NEW b
    PROVE  Kept(kind, <<a, b>>, After(kind, b, After(kind, a, NoFields).data).data)
<1> DEFINE d1 == After(kind, a, NoFields).data
           d == After(kind, b, d1).data
<1>1. d1 = Field(a.name[1], OwnFields(kind, a)) ++ NoFields
  BY DEF After, AtItem
<1> HIDE DEF d1
<1>2. d = Field(b.name[1], OwnFields(kind, b)) ++ d1
  BY DEF After, AtItem
<1> HIDE DEF d
<1>3. DOMAIN d1 = {a.name[1]} /\ d1[a.name[1]] = OwnFields(kind, a)
  BY <1>1 DEF Field, ++, NoFields
<1>4. DOMAIN d = {a.name[1], b.name[1]} /\ d[b.name[1]] = OwnFields(kind, b)
      /\ (a.name[1] # b.name[1] => d[a.name[1]] = OwnFields(kind, a))
  BY <1>2, <1>3 DEF Field, ++
<1>5. ToSet(<<a, b>>) = {a, b}
  BY DEF ToSet
<1> SUFFICES ASSUME NEW word
             PROVE  /\ word \in DOMAIN d <=> \E r \in {a, b} : r.name[1] = word
                    /\ word \in DOMAIN d =>
                          \E r \in {a, b} : r.name[1] = word /\ d[word] = OwnFields(kind, r)
  BY <1>5 DEF Kept, d, d1
<1> QED BY <1>4

-----------------------------------------------------------------------------
(* VRRP.                                                                   *)

\* Up to two rows.
AtMostTwo(rows, fields) ==
    \/ rows = <<>>
    \/ \E a : rows = <<a>> /\ IsRow(a, fields)
    \/ \E a, b : rows = <<a, b>> /\ IsRow(a, fields) /\ IsRow(b, fields)

\* The lines of up to two rows leave what one row of each word says.
LEMMA RowsRead ==
    ASSUME NEW kind \in {"vrrp", "file"}, NEW rows, NEW fields, NEW n \in Nat, n # 0,
           IsFilter(fields, n), AtMostTwo(rows, fields)
    PROVE  LET lines == FieldLines(rows, fields)
           IN /\ \E t : Reads(kind, Start, lines, t) /\ Kept(kind, rows, t.data)
              /\ Len(lines) \in Nat /\ DOMAIN lines = 1 .. Len(lines)
<1>0. ASSUME NEW A, NEW l \in Seq(A) PROVE Len(l) \in Nat /\ DOMAIN l = 1 .. Len(l)
  OBVIOUS
<1>1. CASE rows = <<>>
  <2> DEFINE ss == [k \in DOMAIN rows |-> RowLines(rows[k], fields)]
  <2>1. FieldLines(rows, fields) = FlattenSeq(ss)
    BY DEF FieldLines, RowLines, Piece
  <2>2. ss = <<>>
    BY <1>1
  <2> HIDE DEF ss
  <2>3. FieldLines(rows, fields) = <<>>
    BY <2>1, <2>2, FlattenEmpty
  <2>4. Len(<<>>) \in Nat /\ DOMAIN <<>> = 1 .. Len(<<>>)
    OBVIOUS
  <2>5. Reads(kind, Start, <<>>, Start) /\ Kept(kind, <<>>, Start.data)
    BY ReadsNone, KeptNone DEF Start
  <2> QED BY ONLY <1>1, <2>3, <2>4, <2>5, Zenon
<1>2. CASE \E a : rows = <<a>> /\ IsRow(a, fields)
  <2>1. PICK a : rows = <<a>> /\ IsRow(a, fields)
    BY <1>2
  <2>2. Reads(kind, Start, FieldLines(<<a>>, fields), After(kind, a, NoFields))
        /\ \E A : FieldLines(<<a>>, fields) \in Seq(A)
    BY <2>1, OneRowRead
  <2>3. Kept(kind, <<a>>, After(kind, a, NoFields).data)
    BY KeptOne
  <2> QED BY ONLY <1>0, <2>1, <2>2, <2>3, Zenon
<1>3. CASE \E a, b : rows = <<a, b>> /\ IsRow(a, fields) /\ IsRow(b, fields)
  <2>1. PICK a, b : rows = <<a, b>> /\ IsRow(a, fields) /\ IsRow(b, fields)
    BY <1>3
  <2>2. Reads(kind, Start, FieldLines(<<a, b>>, fields),
              After(kind, b, After(kind, a, NoFields).data))
        /\ \E A : FieldLines(<<a, b>>, fields) \in Seq(A)
    BY <2>1, TwoRowsRead
  <2>3. Kept(kind, <<a, b>>, After(kind, b, After(kind, a, NoFields).data).data)
    BY KeptTwo
  <2> QED BY ONLY <1>0, <2>1, <2>2, <2>3, Zenon
<1> QED BY <1>1, <1>2, <1>3 DEF AtMostTwo

\* The fields printed of a VRRP instance start with the name.
LEMMA VrrpFilter == IsFilter(VrrpFiltered, 9)
<1>1. /\ DOMAIN VrrpFiltered = 1 .. 9 /\ VrrpFiltered = [m \in 1 .. 9 |-> VrrpFiltered[m]]
      /\ VrrpFiltered[1] = "name"
  BY DEF VrrpFiltered
<1>2. VrrpFiltered[2] # "name" /\ VrrpFiltered[3] # "name" /\ VrrpFiltered[4] # "name"
      /\ VrrpFiltered[5] # "name" /\ VrrpFiltered[6] # "name" /\ VrrpFiltered[7] # "name"
      /\ VrrpFiltered[8] # "name" /\ VrrpFiltered[9] # "name"
  BY DEF VrrpFiltered
<1>3. \A m \in 2 .. 9 : m \in {2, 3, 4, 5, 6, 7, 8, 9}
  OBVIOUS
<1> QED BY <1>1, <1>2, <1>3 DEF IsFilter

\* The fields of a row of VRRP.
LEMMA VrrpRowFields ==
    ASSUME NEW r \in VrrpRows
    PROVE  /\ IsRow(r, VrrpFiltered)
           /\ DOMAIN r \subseteq {"name", "running", "master", "backup", "disabled"}
           /\ {"name", "running", "master", "backup"} \subseteq DOMAIN r
           /\ r.running \in BOOLEAN /\ r.master \in BOOLEAN /\ r.backup \in BOOLEAN
           /\ "disabled" \in DOMAIN r => r.disabled \in BOOLEAN
<1> DEFINE More == {NoFields} \cup {Field("disabled", d) : d \in BOOLEAN}
<1>1. \E name \in VrrpNames, x, y, z \in BOOLEAN, more \in More : r = VrrpRow(name, x, y, z, more)
  <2>1. \A x, y, z : <<x, y, z>>[1] = x /\ <<x, y, z>>[2] = y /\ <<x, y, z>>[3] = z
    OBVIOUS
  <2>2. \A role \in Roles : \E x, y, z \in BOOLEAN : role = <<x, y, z>>
    BY DEF Roles
  <2>3. \A role \in Roles : role[1] \in BOOLEAN /\ role[2] \in BOOLEAN /\ role[3] \in BOOLEAN
    <3> SUFFICES ASSUME NEW role \in Roles
                 PROVE  role[1] \in BOOLEAN /\ role[2] \in BOOLEAN /\ role[3] \in BOOLEAN
      OBVIOUS
    <3>1. PICK x, y, z \in BOOLEAN : role = <<x, y, z>>
      BY <2>2
    <3>2. role[1] = x /\ role[2] = y /\ role[3] = z
      BY ONLY <2>1, <3>1, Zenon
    <3> QED BY ONLY <3>2, x \in BOOLEAN, y \in BOOLEAN, z \in BOOLEAN, Zenon
  <2>4. CASE \E name \in VrrpNames, role \in Roles, d \in BOOLEAN :
               r = VrrpRow(name, role[1], role[2], role[3], Field("disabled", d))
    <3>1. PICK name \in VrrpNames, role \in Roles, d \in BOOLEAN :
                 r = VrrpRow(name, role[1], role[2], role[3], Field("disabled", d))
      BY <2>4
    <3>2. Field("disabled", d) \in More
      OBVIOUS
    <3> HIDE DEF More
    <3> QED BY ONLY <2>3, <3>1, <3>2, name \in VrrpNames, role \in Roles, Zenon
  <2>5. CASE \E name \in VrrpNames : r = VrrpRow(name, TRUE, TRUE, FALSE, NoFields)
    <3>1. TRUE \in BOOLEAN /\ FALSE \in BOOLEAN /\ NoFields \in More
      OBVIOUS
    <3> HIDE DEF More
    <3> QED BY ONLY <2>5, <3>1, Zenon
  <2> DEFINE A == {VrrpRow(name, role[1], role[2], role[3], Field("disabled", disabled)) :
                    name \in VrrpNames, role \in Roles, disabled \in BOOLEAN}
             B == {VrrpRow(name, TRUE, TRUE, FALSE, NoFields) : name \in VrrpNames}
  <2>6. r \in A \cup B
    <3>1. VrrpRows = A \cup B
      BY DEF VrrpRows
    <3> HIDE DEF A, B
    <3> QED BY <3>1
  <2>7. CASE r \in A
    <3> HIDE DEF More
    <3>1. \E name \in VrrpNames, role \in Roles, d \in BOOLEAN :
            r = VrrpRow(name, role[1], role[2], role[3], Field("disabled", d))
      BY ONLY <2>7
    <3> QED BY ONLY <2>4, <3>1, Zenon
  <2>8. CASE r \in B
    <3> HIDE DEF More
    <3>1. \E name \in VrrpNames : r = VrrpRow(name, TRUE, TRUE, FALSE, NoFields)
      BY ONLY <2>8
    <3> QED BY ONLY <2>5, <3>1, Zenon
  <2> HIDE DEF A, B
  <2> QED BY ONLY <2>6, <2>7, <2>8
<1>2. \A more \in More : /\ DOMAIN more \subseteq {"disabled"}
                         /\ "disabled" \in DOMAIN more => more["disabled"] \in BOOLEAN
  BY DEF Field, NoFields
<1> HIDE DEF More
<1>3. PICK name \in VrrpNames, x, y, z \in BOOLEAN, more \in More : r = VrrpRow(name, x, y, z, more)
  BY <1>1
<1>4. /\ DOMAIN r = {"name", "running", "master", "backup"} \cup DOMAIN more
      /\ r = [f \in DOMAIN r |-> r[f]]
      /\ r.name = name /\ r.running = x /\ r.master = y /\ r.backup = z
      /\ "disabled" \in DOMAIN r => r.disabled = more["disabled"]
  <2> DEFINE base == [f \in {"name", "running", "master", "backup"} |->
        CASE f = "name" -> name [] f = "running" -> x [] f = "master" -> y [] OTHER -> z]
  <2>1. /\ DOMAIN base = {"name", "running", "master", "backup"}
        /\ base["name"] = name /\ base["running"] = x /\ base["master"] = y
        /\ base["backup"] = z
    OBVIOUS
  <2>2. r = (base ++ more)
    BY <1>3 DEF VrrpRow
  <2> HIDE DEF base
  <2> QED BY <2>1, <2>2 DEF ++
<1>5. name[1] # ""
  <2>1. (\A a : <<a>>[1] = a) /\ \A a, b : <<a, b>>[1] = a
    OBVIOUS
  <2>2. name = <<"lan">> \/ name = <<"wan">> \/ name = <<"lan", "guests">>
    BY DEF VrrpNames
  <2>3. name[1] = "lan" \/ name[1] = "wan"
    BY ONLY <2>1, <2>2, Zenon
  <2> QED BY ONLY <2>3
<1>6. {"name", "running", "master", "backup",
       "disabled"} \subseteq {VrrpFiltered[m] : m \in DOMAIN VrrpFiltered}
  <2>1. DOMAIN VrrpFiltered = 1 .. 9 /\ VrrpFiltered[1] = "name" /\ VrrpFiltered[5] = "master"
        /\ VrrpFiltered[6] = "backup" /\ VrrpFiltered[8] = "running" /\ VrrpFiltered[9] = "disabled"
    BY DEF VrrpFiltered
  <2>2. 1 \in 1 .. 9 /\ 5 \in 1 .. 9 /\ 6 \in 1 .. 9 /\ 8 \in 1 .. 9 /\ 9 \in 1 .. 9
    OBVIOUS
  <2> QED BY <2>1, <2>2
<1>7. DOMAIN more \subseteq {"disabled"}
      /\ ("disabled" \in DOMAIN more => more["disabled"] \in BOOLEAN)
  BY ONLY <1>2, more \in More, Zenon
<1>8. "name" \in DOMAIN r /\ DOMAIN r \subseteq {VrrpFiltered[m] : m \in DOMAIN VrrpFiltered}
  BY ONLY <1>4, <1>6, <1>7
<1>9. IsRow(r, VrrpFiltered)
  BY <1>4, <1>5, <1>8 DEF IsRow
<1> QED BY ONLY <1>4, <1>7, <1>9, x \in BOOLEAN, y \in BOOLEAN, z \in BOOLEAN

\* The section of VRRP has under each word one row of that name.
LEMMA VrrpKept ==
    ASSUME HInv, module = "vrrp", Checked
    PROVE  /\ Kept("vrrp", RowsOf(asked["print"]), section[1])
           /\ ToSet(RowsOf(asked["print"])) \subseteq VrrpRows
<1> DEFINE rows == RowsOf(asked["print"])
           lines == FieldLines(rows, VrrpFiltered)
<1>1. rows = <<>> \/ (\E a \in VrrpRows : rows = <<a>>) \/ \E a, b \in VrrpRows : rows = <<a, b>>
  <2>1. asked["print"] = Failed \/ asked["print"] \in VrrpDevices
    BY OneCall DEF Checked, Devices
  <2>2. asked["print"] \in VrrpDevices =>
          \/ asked["print"] = <<>> \/ (\E a \in VrrpRows : asked["print"] = <<a>>)
          \/ \E a, b \in VrrpRows : asked["print"] = <<a, b>>
    <3> DEFINE R == VrrpRows
               S == {r \in R : r.name # <<"wan">> /\ r.running = r.master}
    <3>1. VrrpDevices = {<<>>} \cup ({<<a>> : a \in R} \cup {<<a, b>> : a \in R, b \in S})
           /\ S \subseteq R
      BY DEF VrrpDevices, UpToTwo
    <3> HIDE DEF R, S
    <3>2. \A d \in VrrpDevices : d = <<>> \/ (\E a \in R : d = <<a>>)
           \/ \E a, b \in R : d = <<a, b>>
      BY <3>1
    <3> QED BY <3>2 DEF R
  <2> QED BY <2>1, <2>2 DEF RowsOf
<1>2. AtMostTwo(rows, VrrpFiltered)
  <2> HIDE DEF rows
  <2> QED BY <1>1, VrrpRowFields DEF AtMostTwo
<1>3. /\ \E t : Reads("vrrp", Start, lines, t) /\ Kept("vrrp", rows, t.data)
      /\ Len(lines) \in Nat /\ DOMAIN lines = 1 .. Len(lines)
  <2>1. 9 \in Nat /\ 9 # 0 /\ "vrrp" \in {"vrrp", "file"}
    OBVIOUS
  <2> HIDE DEF rows
  <2> QED BY ONLY <1>2, <2>1, VrrpFilter, RowsRead, Zenon DEF lines
<1>4. section[1] = VrrpParse(lines)
  <2>1. section = VrrpSection(asked) /\ section # <<>>
    BY DEF HInv, SectionOK, Checked, Sections
  <2> QED BY <2>1 DEF VrrpSection, VrrpLines, SectionOf
<1>5. Kept("vrrp", rows, section[1])
  <2> HIDE DEF rows, lines
  <2>1. PICK t : Reads("vrrp", Start, lines, t) /\ Kept("vrrp", rows, t.data)
    BY <1>3
  <2>2. VrrpParse(lines) = t.data
    BY <1>3, <2>1, VrrpParsed DEF Start
  <2> QED BY ONLY <1>4, <2>1, <2>2, Zenon
<1>6. ToSet(rows) \subseteq VrrpRows
  <2>1. ToSet(<<>>) = {} /\ (\A a : ToSet(<<a>>) = {a}) /\ \A a, b : ToSet(<<a, b>>) = {a, b}
    <3>1. ToSet(<<>>) = {}
      BY DEF ToSet
    <3>2. \A a : ToSet(<<a>>) = {a}
      BY DEF ToSet
    <3>3. \A a, b : ToSet(<<a, b>>) = {a, b}
      BY DEF ToSet
    <3> QED BY <3>1, <3>2, <3>3
  <2> HIDE DEF rows
  <2> QED BY <1>1, <2>1
<1> QED BY <1>5, <1>6

\* What is kept of a word is a row of that name, if there is one.
LEMMA KeptRow ==
    ASSUME NEW kind, NEW data, Kept(kind, RowsOf(asked["print"]), data), NEW word
    PROVE  /\ word \in DOMAIN data <=> OwnRows(word) # {}
           /\ word \in DOMAIN data =>
                 \E r \in OwnRows(word) : data[word] = OwnFields(kind, r)
  BY DEF Kept, OwnRows

\* A check of VRRP judges a row of its item's name, if there is one.
LEMMA VrrpResult ==
    ASSUME HInv, module = "vrrp", Checked, NEW item \in DOMAIN results
    PROVE  \/ OwnRows(item) = {} /\ results[item] = "UNKNOWN"
           \/ \E r \in OwnRows(item) : r \in VrrpRows /\ results[item] = VrrpState(r)
<1> DEFINE data == section[1]
<1>1. results[item] = IF item \notin DOMAIN data THEN "UNKNOWN" ELSE VrrpState(data[item])
  <2>1. results[item] = VrrpCheck(item, data)
    BY DEF HInv, ResultsOK, Checked, Outcome
  <2> QED BY <2>1 DEF VrrpCheck
<1>2. /\ item \in DOMAIN data <=> OwnRows(item) # {}
      /\ item \in DOMAIN data => \E r \in OwnRows(item) : data[item] = OwnFields("vrrp", r)
  BY VrrpKept, KeptRow
<1>3. OwnRows(item) \subseteq VrrpRows
  BY VrrpKept DEF OwnRows
<1>4. \A r \in VrrpRows : OwnFields("vrrp", r) = r
  BY VrrpRowFields DEF OwnFields, IsRow
<1> HIDE DEF data
<1> QED BY <1>1, <1>2, <1>3, <1>4

\* VrrpOkIsOwnRole follows from the invariant.
LEMMA VrrpJudged == HInv => VrrpOkIsOwnRole
<1> SUFFICES ASSUME HInv, module = "vrrp", Checked, NEW item \in DOMAIN results
             PROVE  /\ results[item] = "OK" => \E r \in OwnRows(item) : InRole(r)
                    /\ (OwnRows(item) # {} /\ \A r \in OwnRows(item) : InRole(r))
                          => results[item] = "OK"
  BY DEF VrrpOkIsOwnRole
<1>1. \A r \in VrrpRows : VrrpState(r) = "OK" <=> InRole(r)
  BY VrrpRowFields DEF VrrpState, InRole
<1>2. \/ OwnRows(item) = {} /\ results[item] = "UNKNOWN"
      \/ \E r \in OwnRows(item) : r \in VrrpRows /\ results[item] = VrrpState(r)
  BY VrrpResult
<1> QED BY <1>1, <1>2

\* CrashesOnlyWithoutDisabled follows from the invariant.
LEMMA Crashes == HInv /\ AllAccepted => CrashesOnlyWithoutDisabled
<1> SUFFICES ASSUME HInv, AllAccepted, NEW item \in DOMAIN results, results[item] = "crash"
             PROVE  module = "vrrp" /\ \E r \in OwnRows(item) : "disabled" \notin DOMAIN r
  BY DEF CrashesOnlyWithoutDisabled
<1>1. phase = "checked"
  BY DEF HInv, ResultsOK
<1>2. module = "vrrp" /\ section # <<>>
  BY <1>1, Outcomes DEF States
<1>3. \/ OwnRows(item) = {} /\ results[item] = "UNKNOWN"
      \/ \E r \in OwnRows(item) : r \in VrrpRows /\ results[item] = VrrpState(r)
  BY <1>1, <1>2, VrrpResult DEF Checked
<1>4. PICK r \in OwnRows(item) : r \in VrrpRows /\ results[item] = VrrpState(r)
  BY <1>3
<1>5. "disabled" \notin DOMAIN r
  BY <1>4, VrrpRowFields DEF VrrpState
<1> QED BY <1>2, <1>5

-----------------------------------------------------------------------------
(* Files.                                                                  *)

\* The section of files is what reading line after line leaves, and the watchdog file.
LEMMA FileParsed ==
    ASSUME NEW lines, NEW t, Len(lines) \in Nat, DOMAIN lines = 1 .. Len(lines),
           Reads("file", Start, lines, t)
    PROVE  FileParse(lines) = t.data ++ Field(Watchdog, NoWatchdog)
<1> DEFINE start == [item |-> "", data |-> NoFields]
           n == Len(lines)
           G(k) == [s \in SUBSET (DOMAIN lines) |->
                      IF s = {} THEN start
                      ELSE LET x == Max(s) IN FileReadLine(k[s \ {x}], lines[x])]
           it == CHOOSE k : k = G(k)
<1>1. FileParse(lines) = it[DOMAIN lines].data ++ Field(Watchdog, NoWatchdog)
  BY DEF FileParse, FoldLeft, MapThenFoldSet
<1>2. \A k : Folded("file", start, lines, n, k) <=> k = G(k)
  BY DEF Folded, ReadOf, Max
<1>3. \E k : k = G(k)
  BY <1>2, FoldedExists
<1>4. it = G(it)
  <2> HIDE DEF G
  <2> QED BY <1>3
<1>5. it[1 .. n] = t
  <2> HIDE DEF G, it, start
  <2> QED BY <1>2, <1>4, FoldedReads DEF start, Start
<1> QED BY <1>1, <1>5

\* The fields printed of a file start with the name.
LEMMA FileFilter == IsFilter(FileFiltered, 4)
<1>1. /\ DOMAIN FileFiltered = 1 .. 4 /\ FileFiltered = [m \in 1 .. 4 |-> FileFiltered[m]]
      /\ FileFiltered[1] = "name"
  BY DEF FileFiltered
<1>2. FileFiltered[2] # "name" /\ FileFiltered[3] # "name" /\ FileFiltered[4] # "name"
  BY DEF FileFiltered
<1>3. \A m \in 2 .. 4 : m \in {2, 3, 4}
  OBVIOUS
<1> QED BY <1>1, <1>2, <1>3 DEF IsFilter

\* The fields of a row of files.
LEMMA FileRowFields ==
    ASSUME NEW r \in FileRows
    PROVE  /\ IsRow(r, FileFiltered)
           /\ DOMAIN r \subseteq {"name", "type", "creation-time", "last-modified"}
<1>1. PICK name \in {<<"backup">>, <<Watchdog>>, <<"backup", "old">>},
        type \in {"file", "directory"},
           times \in Times : r = FileRow(name, type, times)
  BY DEF FileRows
<1>2. DOMAIN times \subseteq {"creation-time", "last-modified"}
  BY DEF Times, Field, ++, NoFields
<1>3. /\ DOMAIN r \subseteq {"name", "type", "creation-time", "last-modified"}
          /\ "name" \in DOMAIN r
      /\ r = [x \in DOMAIN r |-> r[x]] /\ r.name = name
  <2> HIDE DEF Times
  <2>1. r = (Field("name", name) ++ Field("type", type)) ++ times
    BY <1>1 DEF FileRow
  <2> DEFINE f == Field("name", name) ++ Field("type", type)
  <2>2. DOMAIN f = {"name", "type"} /\ f["name"] = name
    BY DEF Field, ++
  <2> HIDE DEF f
  <2>3. r = f ++ times
    BY <2>1 DEF f
  <2> QED BY <1>2, <2>2, <2>3 DEF ++
<1>4. name[1] # ""
  <2>1. (\A x : <<x>>[1] = x) /\ \A x, y : <<x, y>>[1] = x
    OBVIOUS
  <2>2. name = <<"backup">> \/ name = <<Watchdog>> \/ name = <<"backup", "old">>
    OBVIOUS
  <2>3. name[1] = "backup" \/ name[1] = Watchdog
    BY ONLY <2>1, <2>2, Zenon
  <2> QED BY ONLY <2>3 DEF Watchdog
<1>5. {"name", "type", "creation-time",
       "last-modified"} \subseteq {FileFiltered[m] : m \in DOMAIN FileFiltered}
  <2>1. DOMAIN FileFiltered = 1 .. 4 /\ FileFiltered[1] = "name"
         /\ FileFiltered[2] = "creation-time"
        /\ FileFiltered[3] = "last-modified" /\ FileFiltered[4] = "type"
    BY DEF FileFiltered
  <2>2. 1 \in 1 .. 4 /\ 2 \in 1 .. 4 /\ 3 \in 1 .. 4 /\ 4 \in 1 .. 4
    OBVIOUS
  <2> QED BY <2>1, <2>2
<1> QED BY <1>3, <1>4, <1>5 DEF IsRow

\* The section of files has under each word one row of that name.
LEMMA FileKept ==
    ASSUME HInv, module = "file", Checked
    PROVE  /\ \E d : Kept("file", RowsOf(asked["print"]), d)
               /\ section[1] = d ++ Field(Watchdog, NoWatchdog)
           /\ ToSet(RowsOf(asked["print"])) \subseteq FileRows
<1> DEFINE rows == RowsOf(asked["print"])
           lines == FieldLines(rows, FileFiltered)
<1>1. rows = <<>> \/ (\E a \in FileRows : rows = <<a>>) \/ \E a, b \in FileRows : rows = <<a, b>>
  <2>1. asked["print"] = Failed \/ asked["print"] \in FileDevices
    BY OneCall DEF Checked, Devices
  <2>2. asked["print"] \in FileDevices =>
          (\E a \in FileRows : asked["print"] = <<a>>)
           \/ \E a, b \in FileRows : asked["print"] = <<a, b>>
    <3> DEFINE R == FileRows
               S == {r \in R : r.type = "file" /\ "creation-time" \notin DOMAIN r}
    <3>1. FileDevices = {<<a>> : a \in R} \cup {<<a, b>> : a \in R, b \in S} /\ S \subseteq R
      BY DEF FileDevices, UpToTwo
    <3> HIDE DEF R, S
    <3>2. \A d \in FileDevices : (\E a \in R : d = <<a>>) \/ \E a, b \in R : d = <<a, b>>
      BY <3>1
    <3> QED BY <3>2 DEF R
  <2> QED BY <2>1, <2>2 DEF RowsOf
<1>2. AtMostTwo(rows, FileFiltered)
  <2> HIDE DEF rows
  <2> QED BY <1>1, FileRowFields DEF AtMostTwo
<1>3. /\ \E t : Reads("file", Start, lines, t) /\ Kept("file", rows, t.data)
      /\ Len(lines) \in Nat /\ DOMAIN lines = 1 .. Len(lines)
  <2>1. 4 \in Nat /\ 4 # 0 /\ "file" \in {"vrrp", "file"}
    OBVIOUS
  <2> HIDE DEF rows
  <2> QED BY ONLY <1>2, <2>1, FileFilter, RowsRead, Zenon DEF lines
<1>4. section[1] = FileParse(lines)
  <2>1. section = FileSection(asked) /\ section # <<>>
    BY DEF HInv, SectionOK, Checked, Sections
  <2> QED BY <2>1 DEF FileSection, FileLines, SectionOf
<1>5. \E d : Kept("file", rows, d) /\ section[1] = d ++ Field(Watchdog, NoWatchdog)
  <2> HIDE DEF rows, lines
  <2>1. PICK t : Reads("file", Start, lines, t) /\ Kept("file", rows, t.data)
    BY <1>3
  <2>2. FileParse(lines) = t.data ++ Field(Watchdog, NoWatchdog)
    BY <1>3, <2>1, FileParsed
  <2> QED BY ONLY <1>4, <2>1, <2>2, Zenon
<1>6. ToSet(rows) \subseteq FileRows
  <2>1. ToSet(<<>>) = {}
    BY DEF ToSet
  <2>2. \A a : ToSet(<<a>>) = {a}
    BY DEF ToSet
  <2>3. \A a, b : ToSet(<<a, b>>) = {a, b}
    BY DEF ToSet
  <2> HIDE DEF rows
  <2> QED BY <1>1, <2>1, <2>2, <2>3
<1> QED BY <1>5, <1>6

\* FilesJudgedByOwnRows follows from the invariant.
LEMMA FilesJudged == HInv => FilesJudgedByOwnRows
<1> DEFINE judged(r) == JudgedFile(r, Params(rule, FileDefaults))
           data == section[1]
<1> SUFFICES ASSUME HInv, module = "file", Checked, NEW item \in DOMAIN results
             PROVE  IF item = Watchdog
                    THEN results[item] = "CRIT" <=> OwnRows(item) # {}
                    ELSE \/ OwnRows(item) = {} /\ results[item] = "UNKNOWN"
                         \/ \E r \in OwnRows(item) : results[item] = judged(r)
  BY DEF FilesJudgedByOwnRows
<1>1. results[item] = FileCheck(item, rule, data)
  BY DEF HInv, ResultsOK, Checked, Outcome
<1>2. PICK d : Kept("file", RowsOf(asked["print"]), d) /\ data = d ++ Field(Watchdog, NoWatchdog)
  BY FileKept
<1>3. /\ item \in DOMAIN d <=> OwnRows(item) # {}
      /\ item \in DOMAIN d => \E r \in OwnRows(item) : d[item] = OwnFields("file", r)
  BY <1>2, KeptRow
<1>4. OwnRows(item) \subseteq FileRows
  BY FileKept DEF OwnRows
<1> HIDE DEF data
<1>5. /\ item \in DOMAIN data <=> item \in DOMAIN d \/ item = Watchdog
      /\ item \in DOMAIN d => data[item] = d[item]
      /\ item \notin DOMAIN d /\ item = Watchdog => data[item] = NoWatchdog
  BY <1>2 DEF ++, Field
<1>6. CASE OwnRows(item) = {} /\ item = Watchdog
  <2>1. item \in DOMAIN data /\ data[item] = NoWatchdog
    BY <1>3, <1>5, <1>6
  <2>2. "notfound" \in DOMAIN NoWatchdog
    BY DEF NoWatchdog
  <2>3. results[item] = "OK"
    BY <1>1, <1>6, <2>1, <2>2 DEF FileCheck
  <2> QED BY <1>6, <2>3
<1>7. CASE OwnRows(item) = {} /\ item # Watchdog
  <2>1. item \notin DOMAIN data
    BY <1>3, <1>5, <1>7
  <2>2. results[item] = "UNKNOWN"
    BY <1>1, <2>1 DEF FileCheck
  <2> QED BY <1>7, <2>2
<1>8. CASE OwnRows(item) # {}
  <2>1. PICK r \in OwnRows(item) : d[item] = OwnFields("file", r)
    BY <1>3, <1>8
  <2>2. item \in DOMAIN data /\ data[item] = OwnFields("file", r) /\ r \in FileRows
    BY <1>3, <1>4, <1>5, <1>8, <2>1
  <2> DEFINE own == OwnFields("file", r)
  <2>3. DOMAIN own = DOMAIN r \ {"name"} /\ \A x \in DOMAIN own : own[x] = r[x]
    BY DEF OwnFields
  <2> HIDE DEF own
  <2>4. CASE item = Watchdog
    <3>1. "notfound" \notin DOMAIN own
      BY <2>2, <2>3, FileRowFields
    <3>2. results[item] = "CRIT"
      BY <1>1, <2>2, <2>4, <3>1 DEF FileCheck, own
    <3> QED BY <1>8, <2>4, <3>2
  <2>5. CASE item # Watchdog
    <3>1. results[item] = judged(own)
      BY <1>1, <2>2, <2>5 DEF FileCheck, own
    <3>2. TimesOf(own) = TimesOf(r)
      BY <2>3 DEF TimesOf
    <3>3. judged(own) = judged(r)
      BY <3>2 DEF JudgedFile
    <3> HIDE DEF judged
    <3> QED BY <2>5, <3>1, <3>3
  <2> QED BY <2>4, <2>5
<1> QED BY <1>6, <1>7, <1>8

-----------------------------------------------------------------------------
(* OSPF.                                                                   *)

\* A field of a row of OSPF is read, if the row has it.
Take(s, row, field) ==
    IF field \in DOMAIN row THEN OspfReadLine(s, <<field, row[field]>>) ELSE s

\* All fields of a row of OSPF are read.
Took(s, row) ==
    Take(Take(Take(Take(Take(s, row, "router-id"), row, "instance"), row, "interface"), row,
              "address"),
         row, "state")

\* The line of a field, or none.
LEMMA PieceRead == ASSUME NEW s, NEW row, NEW field
PROVE Reads("ospf", s, Piece(row, field), Take(s, row, field))
<1>1. CASE field \in DOMAIN row
  <2>1. Piece(row, field) = <<<<field, row[field]>>>>
    BY <1>1 DEF Piece
  <2>2. Take(s, row, field) = ReadOf("ospf", s, <<field, row[field]>>)
    BY <1>1 DEF Take, ReadOf
  <2> QED BY ONLY <2>1, <2>2, ReadsOne, Zenon
<1>2. CASE field \notin DOMAIN row
  <2>1. Piece(row, field) = <<>> /\ Take(s, row, field) = s
    BY <1>2 DEF Piece, Take
  <2> QED BY ONLY <2>1, ReadsNone, Zenon
<1> QED BY <1>1, <1>2

\* The lines of a row are pairs of its fields.
LEMMA PieceType ==
    ASSUME NEW A, NEW row, \A x \in DOMAIN row : <<x, row[x]>> \in A, NEW field
    PROVE  Piece(row, field) \in Seq(A)
<1>1. \A T : \A x \in T : <<x>> \in Seq(T)
  BY ONLY TRUE
<1>2. \A x \in A : <<x>> \in Seq(A)
  BY ONLY <1>1, Zenon
<1>3. <<>> \in Seq(A)
  BY EmptySeq
<1> QED BY <1>2, <1>3 DEF Piece

\* A function on 1 .. n is a list.
LEMMA ListOf ==
    ASSUME NEW T, NEW n \in Nat, NEW ss, ss = [m \in 1 .. n |-> ss[m]],
      \A m \in 1 .. n : ss[m] \in T
    PROVE  ss \in Seq(T) /\ Len(ss) = n
  OBVIOUS

\* The lines of a row of OSPF.
LEMMA OspfRowRead ==
    ASSUME NEW A, NEW row, \A x \in DOMAIN row : <<x, row[x]>> \in A, NEW s
    PROVE  /\ Reads("ospf", s, RowLines(row, OspfFiltered), Took(s, row))
           /\ RowLines(row, OspfFiltered) \in Seq(A)
<1> DEFINE s1 == Take(s, row, "router-id")
           s2 == Take(s1, row, "instance")
           s3 == Take(s2, row, "interface")
           s4 == Take(s3, row, "address")
           s5 == Take(s4, row, "state")
           g == [i \in 0 .. 5 |-> IF i = 0 THEN s ELSE IF i = 1 THEN s1 ELSE IF i = 2 THEN s2
                                  ELSE IF i = 3 THEN s3 ELSE IF i = 4 THEN s4 ELSE s5]
           ss == [m \in DOMAIN OspfFiltered |-> Piece(row, OspfFiltered[m])]
<1>1. /\ Reads("ospf", s, Piece(row, "router-id"), s1)
      /\ Reads("ospf", s1, Piece(row, "instance"), s2)
      /\ Reads("ospf", s2, Piece(row, "interface"), s3)
      /\ Reads("ospf", s3, Piece(row, "address"), s4)
      /\ Reads("ospf", s4, Piece(row, "state"), s5)
  BY ONLY PieceRead, Zenon
<1>2. s5 = Took(s, row)
  BY DEF Took
<1>3. DOMAIN OspfFiltered = 1 .. 5 /\ OspfFiltered[1] = "router-id" /\ OspfFiltered[2] = "instance"
      /\ OspfFiltered[3] = "interface" /\ OspfFiltered[4] = "address" /\ OspfFiltered[5] = "state"
  BY DEF OspfFiltered
<1>4. ss = [m \in 1 .. 5 |-> ss[m]] /\ ss[1] = Piece(row, "router-id")
       /\ ss[2] = Piece(row, "instance")
      /\ ss[3] = Piece(row, "interface") /\ ss[4] = Piece(row, "address")
      /\ ss[5] = Piece(row, "state")
  BY <1>3
<1>5. \A m \in DOMAIN OspfFiltered : ss[m] \in Seq(A)
  <2>1. \A field : Piece(row, field) \in Seq(A)
    BY PieceType
  <2> QED BY ONLY <2>1
<1> HIDE DEF s1, s2, s3, s4, s5, ss
<1>6. g[0] = s /\ g[1] = s1 /\ g[2] = s2 /\ g[3] = s3 /\ g[4] = s4 /\ g[5] = s5
  OBVIOUS
<1> HIDE DEF g
<1>7. ASSUME NEW i \in 1 .. 5 PROVE Reads("ospf", g[i - 1], ss[i], g[i])
  <2>1. \/ i = 1 /\ i - 1 = 0
        \/ i = 2 /\ i - 1 = 1
        \/ i = 3 /\ i - 1 = 2
        \/ i = 4 /\ i - 1 = 3
        \/ i = 5 /\ i - 1 = 4
    BY ONLY i \in 1 .. 5
  <2> QED BY ONLY <1>1, <1>4, <1>6, <2>1
<1> DEFINE T == Seq(A)
<1>8. ss \in Seq(T) /\ Len(ss) = 5
  <2>1. \A m \in 1 .. 5 : ss[m] \in T
    BY ONLY <1>3, <1>5, Zenon
  <2>2. 5 \in Nat /\ ss = [m \in 1 .. 5 |-> ss[m]]
    BY <1>4
  <2> HIDE DEF T
  <2> QED BY ONLY <2>1, <2>2, ListOf
<1>9. Reads("ospf", g[0], FlattenSeq(ss), g[5]) /\ FlattenSeq(ss) \in Seq(A)
  <2>1. 5 \in Nat /\ \A i \in 1 .. 5 : Reads("ospf", g[i - 1], ss[i], g[i])
    BY <1>7
  <2> QED BY ONLY <1>8, <2>1, ReadsFlattened
<1>10. RowLines(row, OspfFiltered) = FlattenSeq(ss)
  BY DEF RowLines, ss
<1> QED BY ONLY <1>2, <1>6, <1>9, <1>10, Zenon

\* The lines read so far name P: pairs of a router-id and a state.
Names(s, P) ==
    /\ \E A : s.adjs \in Seq(A)
    /\ s = [adjs |-> s.adjs, current |-> s.current] /\ s.current \in BOOLEAN
    /\ s.current => Len(s.adjs) # 0
    /\ \A k \in DOMAIN s.adjs : /\ s.adjs[k] = [rid |-> s.adjs[k].rid, got |-> s.adjs[k].got]
                                /\ "state" \in DOMAIN s.adjs[k].got
    /\ {<<s.adjs[k].rid, s.adjs[k].got["state"]>> : k \in DOMAIN s.adjs} = P

\* The parser at an adjacency that has just been added.
Fresh(adjs, id, got) == [adjs |-> Append(adjs, [rid |-> id, got |-> got]), current |-> TRUE]

\* A list is a function.
LEMMA ListFunction == ASSUME NEW A, NEW s \in Seq(A) PROVE s = [i \in 1 .. Len(s) |-> s[i]]
  OBVIOUS

\* A list with one element more, written out.
With(s, x) == [i \in 1 .. Len(s) + 1 |-> IF i = Len(s) + 1 THEN x ELSE s[i]]

\* So is a list to which one is appended.
LEMMA Appended ==
    ASSUME NEW A, NEW s \in Seq(A), NEW x
    PROVE  /\ Append(s, x) = With(s, x)
           /\ Append(s, x) \in Seq(A \cup {x})
<1> DEFINE B == A \cup {x}
           t == Append(s, x)
<1>1. s \in Seq(B) /\ x \in B
  OBVIOUS
<1> HIDE DEF B
<1>2. t \in Seq(B) /\ Len(t) = Len(s) + 1 /\ t[Len(s) + 1] = x /\ \A i \in 1 .. Len(s) : t[i] = s[i]
  BY ONLY <1>1
<1>3. t = [i \in 1 .. Len(t) |-> t[i]]
  BY ONLY <1>2, ListFunction
<1>4. \A i \in 1 .. Len(s) + 1 : i = Len(s) + 1 \/ (i # Len(s) + 1 /\ i \in 1 .. Len(s))
  BY ONLY <1>1
<1> HIDE DEF t
<1>5. t = [i \in 1 .. Len(s) + 1 |-> IF i = Len(s) + 1 THEN x ELSE s[i]]
  BY ONLY <1>2, <1>3, <1>4
<1> QED BY <1>2, <1>5 DEF t, B, With

\* What an adjacency has got is set, written out.
LEMMA AdjacencyUpdate ==
    ASSUME NEW s, NEW list, NEW c, s = [adjs |-> list, current |-> c], NEW k, NEW v
    PROVE  [s EXCEPT !.adjs[k].got = v] = [adjs |-> [list EXCEPT ![k].got = v], current |-> c]
<1>1. [s EXCEPT !.adjs[k].got = v] =
        [x \in DOMAIN s |-> IF x = "adjs" THEN [s.adjs EXCEPT ![k].got = v] ELSE s[x]]
  OBVIOUS
<1>2. DOMAIN s = {"adjs", "current"} /\ s.adjs = list /\ s.current = c
  OBVIOUS
<1> DEFINE g == [list EXCEPT ![k].got = v]
<1> HIDE DEF g
<1> QED BY ONLY <1>1, <1>2 DEF g

\* A field the adjacency at the end has not got yet is added to it.
LEMMA FreshTakes ==
    ASSUME NEW A, NEW adjs \in Seq(A), NEW id, NEW got, NEW row, NEW field,
           field # "router-id", field \notin DOMAIN got
    PROVE  Take(Fresh(adjs, id, got), row, field) =
             Fresh(adjs, id, IF field \in DOMAIN row THEN got ++ Field(field, row[field]) ELSE got)
<1>1. CASE field \notin DOMAIN row
  BY <1>1 DEF Take
<1>2. CASE field \in DOMAIN row
  <2> DEFINE a == [rid |-> id, got |-> got]
             s == Fresh(adjs, id, got)
             list == Append(adjs, a)
             more == got ++ Field(field, row[field])
             line == <<field, row[field]>>
             n == Len(adjs)
  <2>1. n \in Nat
    OBVIOUS
  <2>2. Len(list) = n + 1 /\ list[n + 1] = a /\ DOMAIN list = 1 .. n + 1
    <3> HIDE DEF a
    <3> QED OBVIOUS
  <2>3. a.got = got /\ a.rid = id
    OBVIOUS
  <2>4. s.adjs = list /\ s.current = TRUE /\ s = [adjs |-> list, current |-> TRUE]
    BY DEF Fresh
  <2>5. line[1] = field /\ line[2] = row[field]
    OBVIOUS
  <2> HIDE DEF a, s, list, more, line
  <2>6. OspfReadLine(s, line) = [s EXCEPT !.adjs[n + 1].got = got ++ Field(field, row[field])]
    BY <2>2, <2>3, <2>4, <2>5 DEF OspfReadLine
  <2>7. [list EXCEPT ![n + 1].got = more] = Append(adjs, [rid |-> id, got |-> more])
    <3> DEFINE b == [rid |-> id, got |-> more]
    <3>1. [a EXCEPT !.got = more] = b
      BY DEF a
    <3>2. [list EXCEPT ![n + 1].got = more] = [list EXCEPT ![n + 1] = b]
      BY <2>2, <3>1
    <3> HIDE DEF b
    <3>3. [list EXCEPT ![n + 1] = b] = Append(adjs, b)
      <4>1. \A x : Append(adjs, x) = [i \in 1 .. n + 1 |-> IF i = n + 1 THEN x ELSE adjs[i]]
        <5> TAKE x
        <5>1. Append(adjs, x) = With(adjs, x)
          BY ONLY adjs \in Seq(A), Appended
        <5> QED BY ONLY <5>1, Zenon DEF With
      <4>2. list = [i \in 1 .. n + 1 |-> IF i = n + 1 THEN a ELSE adjs[i]]
        BY ONLY <4>1, Zenon DEF list
      <4>3. [list EXCEPT ![n + 1] = b] = [i \in 1 .. n + 1 |-> IF i = n + 1 THEN b ELSE adjs[i]]
        BY ONLY <2>1, <4>2
      <4> QED BY ONLY <4>1, <4>3, Zenon
    <3> QED BY <3>2, <3>3 DEF b
  <2>8. [s EXCEPT !.adjs[n + 1].got = more] =
          [adjs |-> [list EXCEPT ![n + 1].got = more], current |-> TRUE]
    <3> DEFINE c == s.current
    <3>1. s = [adjs |-> list, current |-> c]
      BY <2>4
    <3> HIDE DEF c
    <3>2. [s EXCEPT !.adjs[n + 1].got = more] =
            [adjs |-> [list EXCEPT ![n + 1].got = more], current |-> c]
      BY <3>1, AdjacencyUpdate
    <3>3. c = TRUE
      BY <2>4 DEF c
    <3> QED BY ONLY <3>2, <3>3
  <2> QED BY <1>2, <2>6, <2>7, <2>8 DEF Take, Fresh, line, s, more
<1> QED BY <1>1, <1>2

\* The adjacencies as pairs of a router-id and a state.
Pairs(adjs) == {<<adjs[k].rid, adjs[k].got["state"]>> : k \in DOMAIN adjs}

\* A new adjacency with a state adds one pair.
LEMMA FreshNames ==
    ASSUME NEW s, NEW P, Names(s, P), NEW id, NEW got, "state" \in DOMAIN got
    PROVE  Names(Fresh(s.adjs, id, got), P \cup {<<id, got["state"]>>})
<1> DEFINE adjs == s.adjs
           a == [rid |-> id, got |-> got]
           list == Append(adjs, a)
           n == Len(adjs)
           t == Fresh(adjs, id, got)
<1>1. PICK A : adjs \in Seq(A)
  BY DEF Names
<1>2. /\ \A k \in DOMAIN adjs : /\ adjs[k] = [rid |-> adjs[k].rid, got |-> adjs[k].got]
                                /\ "state" \in DOMAIN adjs[k].got
      /\ P = Pairs(adjs)
  BY DEF Names, Pairs
<1>3. t = [adjs |-> list, current |-> TRUE] /\ t.adjs = list /\ t.current
  BY DEF Fresh
<1>4. a.rid = id /\ a.got = got /\ a = [rid |-> a.rid, got |-> a.got]
  OBVIOUS
<1> HIDE DEF adjs, t, a
<1>5. list = With(adjs, a) /\ list \in Seq(A \cup {a})
  BY ONLY <1>1, Appended
<1> HIDE DEF list
<1>6. n \in Nat /\ DOMAIN adjs = 1 .. n
  BY <1>1
<1>7. DOMAIN list = 1 .. n + 1 /\ list[n + 1] = a /\ \A k \in 1 .. n : list[k] = adjs[k]
  BY <1>5, <1>6 DEF With
<1> HIDE DEF n
<1>8. \A k \in 1 .. n + 1 : k \in 1 .. n \/ k = n + 1
  BY ONLY <1>6
<1>9. n + 1 \in 1 .. n + 1 /\ \A k \in 1 .. n : k \in 1 .. n + 1
  BY ONLY <1>6
<1>10. \A k \in DOMAIN list : list[k] = [rid |-> list[k].rid, got |-> list[k].got]
        /\ "state" \in DOMAIN list[k].got
  <2> SUFFICES ASSUME NEW k \in DOMAIN list
               PROVE  list[k] = [rid |-> list[k].rid, got |-> list[k].got]
                /\ "state" \in DOMAIN list[k].got
    OBVIOUS
  <2>1. CASE k = n + 1
    <3>1. list[k] = a
      BY <1>7, <2>1
    <3> QED BY ONLY <1>4, <3>1, "state" \in DOMAIN got
  <2>2. CASE k \in 1 .. n
    <3>1. list[k] = adjs[k] /\ k \in DOMAIN adjs
      BY <1>6, <1>7, <2>2
    <3>2. adjs[k] = [rid |-> adjs[k].rid, got |-> adjs[k].got] /\ "state" \in DOMAIN adjs[k].got
      BY ONLY <1>2, <3>1, Zenon
    <3> QED BY ONLY <3>1, <3>2, Zenon
  <2> QED BY <1>7, <1>8, <2>1, <2>2
<1>11. Pairs(list) = P \cup {<<id, got["state"]>>}
  <2> DEFINE p(l, k) == <<l[k].rid, l[k].got["state"]>>
  <2>1. p(list, n + 1) = <<id, got["state"]>> /\ \A k \in 1 .. n : p(list, k) = p(adjs, k)
    BY <1>4, <1>7
  <2>2. P = {p(adjs, k) : k \in 1 .. n} /\ Pairs(list) = {p(list, k) : k \in 1 .. n + 1}
    BY <1>2, <1>6, <1>7 DEF Pairs
  <2> HIDE DEF p
  <2> QED BY ONLY <1>8, <1>9, <2>1, <2>2
<1>12. Len(list) # 0
  BY <1>5, <1>6, <1>7
<1>13. Names(t, P \cup {<<id, got["state"]>>})
  <2>1. \E B : t.adjs \in Seq(B)
    BY ONLY <1>3, <1>5, Zenon
  <2>2. t = [adjs |-> t.adjs, current |-> t.current] /\ t.current \in BOOLEAN
    BY <1>3
  <2>3. t.current => Len(t.adjs) # 0
    BY ONLY <1>3, <1>12, Zenon
  <2>4. \A k \in DOMAIN t.adjs : /\ t.adjs[k] = [rid |-> t.adjs[k].rid, got |-> t.adjs[k].got]
                                 /\ "state" \in DOMAIN t.adjs[k].got
    BY ONLY <1>3, <1>10, Zenon
  <2>5. {<<t.adjs[k].rid, t.adjs[k].got["state"]>> : k \in DOMAIN t.adjs} =
          P \cup {<<id, got["state"]>>}
    BY ONLY <1>3, <1>11, Zenon DEF Pairs
  <2> QED BY ONLY <2>1, <2>2, <2>3, <2>4, <2>5, Zenon DEF Names
<1> QED BY <1>13 DEF t, adjs

\* A row with a router-id and a state adds one pair.
LEMMA NewRowNames ==
    ASSUME NEW s, NEW P, Names(s, P), NEW row, "router-id" \in DOMAIN row, "state" \in DOMAIN row
    PROVE  Names(Took(s, row), P \cup {<<row["router-id"], row["state"]>>})
<1> DEFINE id == row["router-id"]
           adjs == s.adjs
           more(got, field) == IF field \in DOMAIN row THEN got ++ Field(field, row[field]) ELSE got
           g2 == more(NoFields, "instance")
           g3 == more(g2, "interface")
           g4 == more(g3, "address")
           g5 == more(g4, "state")
<1>1. PICK A : adjs \in Seq(A)
  BY DEF Names
<1>2. DOMAIN NoFields = {}
       /\ \A got, field : DOMAIN more(got, field) \subseteq DOMAIN got \cup {field}
  BY DEF Field, ++, NoFields
<1>3. Take(s, row, "router-id") = Fresh(adjs, id, NoFields)
  <2> DEFINE line == <<"router-id", id>>
  <2>1. line[1] = "router-id" /\ line[2] = id
    OBVIOUS
  <2>2. Take(s, row, "router-id") = OspfReadLine(s, line)
    BY DEF Take
  <2> HIDE DEF line
  <2> QED BY <2>1, <2>2 DEF OspfReadLine, Fresh, Adjacency
<1>4. \A got, field : field # "router-id" /\ field \notin DOMAIN got =>
         Take(Fresh(adjs, id, got), row, field) = Fresh(adjs, id, more(got, field))
  <2> HIDE DEF adjs, id
  <2> TAKE got, field
  <2> QED BY <1>1, FreshTakes
<1>5. "state" \in DOMAIN g5 /\ g5["state"] = row["state"]
  <2>1. "state" \notin DOMAIN g4
    <3>1. "state" # "instance" /\ "state" # "interface" /\ "state" # "address"
      OBVIOUS
    <3> HIDE DEF more
    <3> QED BY ONLY <1>2, <3>1
  <2> HIDE DEF g4
  <2> QED BY <2>1 DEF Field, ++
<1> HIDE DEF more
<1>6. /\ "instance" \notin DOMAIN NoFields /\ "interface" \notin DOMAIN g2
          /\ "address" \notin DOMAIN g3
      /\ "state" \notin DOMAIN g4
  <2>1. /\ "state" # "instance" /\ "state" # "interface" /\ "state" # "address"
        /\ "address" # "instance" /\ "address" # "interface" /\ "interface" # "instance"
    OBVIOUS
  <2> QED BY ONLY <1>2, <2>1
<1>7. "instance" # "router-id" /\ "interface" # "router-id" /\ "address" # "router-id"
       /\ "state" # "router-id"
  OBVIOUS
<1> HIDE DEF g2, g3, g4, g5, adjs, id
<1>8. Take(Fresh(adjs, id, NoFields), row, "instance") = Fresh(adjs, id, g2)
  BY ONLY <1>4, <1>6, <1>7 DEF g2
<1>9. Take(Fresh(adjs, id, g2), row, "interface") = Fresh(adjs, id, g3)
  BY ONLY <1>4, <1>6, <1>7 DEF g3
<1>10. Take(Fresh(adjs, id, g3), row, "address") = Fresh(adjs, id, g4)
  BY ONLY <1>4, <1>6, <1>7 DEF g4
<1>11. Take(Fresh(adjs, id, g4), row, "state") = Fresh(adjs, id, g5)
  BY ONLY <1>4, <1>6, <1>7 DEF g5
<1>12. Took(s, row) = Fresh(adjs, id, g5)
  BY ONLY <1>3, <1>8, <1>9, <1>10, <1>11, Zenon DEF Took
<1>13. Names(Fresh(s.adjs, id, g5), P \cup {<<id, g5["state"]>>})
  BY <1>5, FreshNames
<1> QED BY ONLY <1>5, <1>12, <1>13, Zenon DEF adjs, id

\* A field of a row without a router-id changes no pair: the adjacency before it has a
\* state, which is not overwritten.
LEMMA TakeKeeps ==
    ASSUME NEW s, NEW P, Names(s, P), NEW row, NEW field, field # "router-id"
    PROVE  Names(Take(s, row, field), P)
<1> DEFINE adjs == s.adjs
           n == Len(adjs)
           line == <<field, row[field]>>
           more == adjs[n].got ++ Field(field, row[field])
           list == [adjs EXCEPT ![n].got = more]
           b == [rid |-> adjs[n].rid, got |-> more]
<1>1. PICK A : adjs \in Seq(A)
  BY DEF Names
<1>2. /\ s = [adjs |-> adjs, current |-> s.current] /\ s.current \in BOOLEAN
      /\ s.current => n # 0
      /\ \A k \in DOMAIN adjs : /\ adjs[k] = [rid |-> adjs[k].rid, got |-> adjs[k].got]
                                /\ "state" \in DOMAIN adjs[k].got
      /\ P = Pairs(adjs)
  BY DEF Names, Pairs
<1>3. n \in Nat /\ DOMAIN adjs = 1 .. n
  BY <1>1
<1>4. line[1] = field /\ line[2] = row[field]
  OBVIOUS
<1>5. CASE field \notin DOMAIN row \/ ~s.current
  <2>1. Take(s, row, field) = IF field \in DOMAIN row THEN OspfReadLine(s, line) ELSE s
    BY DEF Take
  <2> HIDE DEF line
  <2>2. ~s.current => OspfReadLine(s, line) = s
    BY <1>4 DEF OspfReadLine
  <2>3. Take(s, row, field) = s
    BY <1>5, <2>1, <2>2
  <2> QED BY <2>3
<1>6. CASE field \in DOMAIN row /\ s.current /\ field \in DOMAIN adjs[n].got
  <2> DEFINE t == [s EXCEPT !.current = FALSE]
  <2>1. Take(s, row, field) = t
    <3>1. Take(s, row, field) = OspfReadLine(s, line)
      BY <1>6 DEF Take
    <3> HIDE DEF line
    <3> QED BY <1>4, <1>6, <3>1 DEF OspfReadLine
  <2>2. t.adjs = adjs /\ ~t.current /\ t = [adjs |-> t.adjs, current |-> t.current]
         /\ t.current \in BOOLEAN
    <3> DEFINE c == s.current
               no == FALSE
    <3>1. s = [adjs |-> adjs, current |-> c]
      BY <1>2
    <3> HIDE DEF adjs, c
    <3>2. DOMAIN s = {"adjs", "current"} /\ s.adjs = adjs
      BY ONLY <3>1
    <3>3. t = [x \in {"adjs", "current"} |-> IF x = "current" THEN no ELSE s[x]]
      BY ONLY <3>2
    <3>4. no \in BOOLEAN /\ ~no
      OBVIOUS
    <3> HIDE DEF no
    <3> HIDE DEF t
    <3>6. t["adjs"] = adjs /\ t["current"] = no /\ DOMAIN t = {"adjs", "current"}
      BY ONLY <3>2, <3>3
    <3>7. t = [x \in DOMAIN t |-> t[x]]
      BY ONLY <3>3
    <3>5. t.adjs = adjs /\ t.current = no /\ t = [adjs |-> adjs, current |-> no]
      BY ONLY <3>6, <3>7
    <3> QED BY ONLY <3>4, <3>5
  <2> HIDE DEF t, adjs
  <2>3. Names(t, P)
    BY <1>1, <1>2, <2>2 DEF Names, Pairs
  <2> QED BY <2>1, <2>3
<1>7. CASE field \in DOMAIN row /\ s.current /\ field \notin DOMAIN adjs[n].got
  <2> DEFINE t == [s EXCEPT !.adjs[n].got = more]
             c == s.current
  <2>0. n \in DOMAIN adjs
    BY <1>2, <1>3, <1>7
  <2>1. Take(s, row, field) = t
    <3>1. Take(s, row, field) = OspfReadLine(s, line)
      BY <1>7 DEF Take
    <3> HIDE DEF line
    <3>2. Field(line[1], line[2]) = Field(field, row[field])
      BY <1>4
    <3> QED BY <1>4, <1>7, <3>1, <3>2 DEF OspfReadLine
  <2>2. t = [adjs |-> list, current |-> c]
    <3>1. s = [adjs |-> adjs, current |-> c]
      BY <1>2
    <3> HIDE DEF adjs, c, more, n
    <3> QED BY ONLY <3>1, AdjacencyUpdate
  <2>3. t.adjs = list /\ t.current = c /\ c = TRUE
    <3> HIDE DEF t, list, c
    <3>1. t.adjs = list /\ t.current = c
      BY ONLY <2>2
    <3>2. c = TRUE
      BY <1>2, <1>7 DEF c
    <3> QED BY ONLY <3>1, <3>2
  <2>4. list = [k \in 1 .. n |-> IF k = n THEN b ELSE adjs[k]]
    <3> HIDE DEF adjs, more
    <3>1. adjs[n] = [rid |-> adjs[n].rid, got |-> adjs[n].got]
      BY ONLY <1>2, <2>0, Zenon
    <3>2. [adjs[n] EXCEPT !.got = more] = b
      BY ONLY <3>1
    <3>3. list = [adjs EXCEPT ![n] = b]
      <4>1. list = [adjs EXCEPT ![n] = [adjs[n] EXCEPT !.got = more]]
        BY ONLY <2>0
      <4> QED BY ONLY <3>2, <4>1, Zenon
    <3>4. adjs = [k \in 1 .. n |-> adjs[k]]
      BY ONLY <1>1, ListFunction
    <3> HIDE DEF b, list
    <3> QED BY ONLY <1>3, <3>3, <3>4
  <2>5. b.rid = adjs[n].rid /\ b.got["state"] = adjs[n].got["state"] /\ "state" \in DOMAIN b.got
        /\ b = [rid |-> b.rid, got |-> b.got]
    <3>1. b.got = more /\ b.rid = adjs[n].rid
      OBVIOUS
    <3>2. "state" \in DOMAIN adjs[n].got
      BY ONLY <1>2, <2>0, Zenon
    <3>3. "state" \in DOMAIN more /\ more["state"] = adjs[n].got["state"]
      BY ONLY <3>2 DEF ++
    <3> HIDE DEF more
    <3> QED BY <3>1, <3>3
  <2> HIDE DEF b, more, list, t, c
  <2>6. DOMAIN list = 1 .. n /\ \A k \in 1 .. n : list[k] = IF k = n THEN b ELSE adjs[k]
    BY <2>4
  <2>7. list \in Seq(A \cup {b})
    <3> DEFINE T == A \cup {b}
    <3>1. \A k \in 1 .. n : adjs[k] \in A
      BY ONLY <1>1
    <3>2. list = [k \in 1 .. n |-> list[k]] /\ \A k \in 1 .. n : list[k] \in T
      BY <2>4, <2>6, <3>1
    <3> HIDE DEF T
    <3>3. list \in Seq(T)
      BY ONLY <1>3, <3>2, ListOf
    <3> QED BY <3>3 DEF T
  <2>8. Len(list) = n
    BY ONLY <1>3, <2>6, <2>7
  <2>9. \A k \in DOMAIN list : list[k] = [rid |-> list[k].rid, got |-> list[k].got]
         /\ "state" \in DOMAIN list[k].got
    <3> SUFFICES ASSUME NEW k \in DOMAIN list
                 PROVE  list[k] = [rid |-> list[k].rid, got |-> list[k].got]
                  /\ "state" \in DOMAIN list[k].got
      OBVIOUS
    <3>1. CASE k = n
      <4>1. list[k] = b
        BY <2>6, <3>1
      <4> QED BY ONLY <2>5, <4>1, Zenon
    <3>2. CASE k # n
      <4>1. list[k] = adjs[k] /\ k \in DOMAIN adjs
        BY <1>3, <2>6, <3>2
      <4>2. adjs[k] = [rid |-> adjs[k].rid, got |-> adjs[k].got] /\ "state" \in DOMAIN adjs[k].got
        BY ONLY <1>2, <4>1, Zenon
      <4> QED BY ONLY <4>1, <4>2, Zenon
    <3> QED BY <3>1, <3>2
  <2>10. Pairs(list) = Pairs(adjs)
    <3> DEFINE p(l, k) == <<l[k].rid, l[k].got["state"]>>
    <3>1. ASSUME NEW k \in 1 .. n PROVE p(list, k) = p(adjs, k)
      <4>1. CASE k = n
        <5>1. list[k] = b
          BY <2>6, <4>1
        <5> QED BY ONLY <2>5, <4>1, <5>1, Zenon
      <4>2. CASE k # n
        <5>1. list[k] = adjs[k]
          BY <2>6, <4>2
        <5> QED BY ONLY <5>1, Zenon
      <4> QED BY <4>1, <4>2
    <3>2. Pairs(list) = {p(list, k) : k \in 1 .. n} /\ Pairs(adjs) = {p(adjs, k) : k \in 1 .. n}
      BY <1>3, <2>6 DEF Pairs
    <3> HIDE DEF p
    <3> QED BY ONLY <3>1, <3>2
  <2>11. Names(t, P)
    <3>1. \E B : t.adjs \in Seq(B)
      BY ONLY <2>3, <2>7, Zenon
    <3>2. t = [adjs |-> t.adjs, current |-> t.current] /\ t.current \in BOOLEAN
      BY ONLY <2>2, <2>3
    <3>3. t.current => Len(t.adjs) # 0
      BY ONLY <1>2, <1>7, <2>3, <2>8
    <3>4. \A k \in DOMAIN t.adjs : /\ t.adjs[k] = [rid |-> t.adjs[k].rid, got |-> t.adjs[k].got]
                                   /\ "state" \in DOMAIN t.adjs[k].got
      BY ONLY <2>3, <2>9, Zenon
    <3>5. {<<t.adjs[k].rid, t.adjs[k].got["state"]>> : k \in DOMAIN t.adjs} = P
      BY ONLY <1>2, <2>3, <2>10, Zenon DEF Pairs
    <3> QED BY ONLY <3>1, <3>2, <3>3, <3>4, <3>5, Zenon DEF Names
  <2> QED BY ONLY <2>1, <2>11, Zenon
<1> QED BY <1>2, <1>5, <1>6, <1>7

\* A row without a router-id adds nothing.
LEMMA OldRowNames ==
    ASSUME NEW s, NEW P, Names(s, P), NEW row, "router-id" \notin DOMAIN row
    PROVE  Names(Took(s, row), P)
<1>1. Take(s, row, "router-id") = s
  BY DEF Take
<1>2. "instance" # "router-id" /\ "interface" # "router-id" /\ "address" # "router-id"
       /\ "state" # "router-id"
  OBVIOUS
<1>3. \A t, field : Names(t, P) /\ field # "router-id" => Names(Take(t, row, field), P)
  BY TakeKeeps
<1> DEFINE s2 == Take(s, row, "instance")
           s3 == Take(s2, row, "interface")
           s4 == Take(s3, row, "address")
<1>4. Names(Take(s4, row, "state"), P)
  BY ONLY <1>2, <1>3, Names(s, P), Zenon
<1> QED BY ONLY <1>1, <1>4, Zenon DEF Took

\* Before the first line.
OspfStart == [adjs |-> <<>>, current |-> FALSE]

\* The section made of the adjacencies.
StatesOf(adjs) ==
    LET all == ToSet(adjs)
        kept == {a \in all : "state" \in DOMAIN a.got}
    IN [rid \in {a.rid : a \in kept} |-> {a.got["state"] : a \in {b \in kept : b.rid = rid}}]

\* The section of OSPF is made of what reading line after line leaves.
LEMMA OspfParsed ==
    ASSUME NEW lines, NEW t, Len(lines) \in Nat, DOMAIN lines = 1 .. Len(lines),
           Reads("ospf", OspfStart, lines, t)
    PROVE  OspfParse(lines) = StatesOf(t.adjs)
<1> DEFINE start == [adjs |-> <<>>, current |-> FALSE]
           n == Len(lines)
           G(k) == [s \in SUBSET (DOMAIN lines) |->
                      IF s = {} THEN start
                      ELSE LET x == Max(s) IN OspfReadLine(k[s \ {x}], lines[x])]
           it == CHOOSE k : k = G(k)
<1>1. OspfParse(lines) = StatesOf(it[DOMAIN lines].adjs)
  BY DEF OspfParse, FoldLeft, MapThenFoldSet, StatesOf
<1>2. \A k : Folded("ospf", start, lines, n, k) <=> k = G(k)
  BY DEF Folded, ReadOf, Max
<1>3. \E k : k = G(k)
  BY <1>2, FoldedExists
<1>4. it = G(it)
  <2> HIDE DEF G
  <2> QED BY <1>3
<1>5. it[1 .. n] = t
  <2> HIDE DEF G, it, start
  <2> QED BY <1>2, <1>4, FoldedReads DEF start, OspfStart
<1> QED BY <1>1, <1>5

\* Nothing is named at first.
LEMMA StartNames == Names(OspfStart, {})
<1> DEFINE list == <<>>
           no == FALSE
           s == [adjs |-> list, current |-> no]
<1>1. list \in Seq({}) /\ DOMAIN list = {} /\ no \in BOOLEAN /\ ~no
  OBVIOUS
<1> HIDE DEF list, no
<1>2. s.adjs = list /\ s.current = no /\ s = [adjs |-> s.adjs, current |-> s.current]
  OBVIOUS
<1> HIDE DEF s
<1>3. Names(s, {})
  BY ONLY <1>1, <1>2 DEF Names
<1> QED BY <1>3 DEF OspfStart, s, list, no

\* What a row tells of its neighbor.
Told(row) == IF "router-id" \in DOMAIN row THEN {<<row["router-id"], row["state"]>>} ELSE {}

\* A row adds what it tells of its neighbor.
LEMMA RowNames ==
    ASSUME NEW s, NEW P, Names(s, P), NEW row, "router-id" \in DOMAIN row => "state" \in DOMAIN row
    PROVE  Names(Took(s, row), P \cup Told(row))
<1>1. CASE "router-id" \in DOMAIN row
  <2>1. Told(row) = {<<row["router-id"], row["state"]>>}
    BY <1>1 DEF Told
  <2>2. Names(Took(s, row), P \cup {<<row["router-id"], row["state"]>>})
    BY <1>1, NewRowNames
  <2> QED BY ONLY <2>1, <2>2, Zenon
<1>2. CASE "router-id" \notin DOMAIN row
  <2>1. P \cup Told(row) = P
    BY <1>2 DEF Told
  <2>2. Names(Took(s, row), P)
    BY <1>2, OldRowNames
  <2> QED BY ONLY <2>1, <2>2, Zenon
<1> QED BY <1>1, <1>2

\* The lines of up to three rows name what the rows tell.
LEMMA OspfRowsRead ==
    ASSUME NEW n \in {0, 1, 2, 3}, NEW rows, DOMAIN rows = 1 .. n,
           \A k \in 1 .. n : "router-id" \in DOMAIN rows[k] => "state" \in DOMAIN rows[k]
    PROVE  LET lines == FieldLines(rows, OspfFiltered)
           IN /\ \E t : Reads("ospf", OspfStart, lines, t)
                  /\ Names(t, UNION {Told(rows[k]) : k \in 1 .. n})
              /\ Len(lines) \in Nat /\ DOMAIN lines = 1 .. Len(lines)
<1> DEFINE lines == FieldLines(rows, OspfFiltered)
           t1 == Took(OspfStart, rows[1])
           t2 == Took(t1, rows[2])
           t3 == Took(t2, rows[3])
           g == [i \in 0 .. 3 |-> IF i = 0 THEN OspfStart ELSE IF i = 1 THEN t1
                                                               ELSE IF i = 2 THEN t2 ELSE t3]
           ss == [k \in DOMAIN rows |-> RowLines(rows[k], OspfFiltered)]
           A == UNION {{<<x, rows[k][x]>> : x \in DOMAIN rows[k]} : k \in 1 .. n}
           P(i) == UNION {Told(rows[k]) : k \in 1 .. i}
<1>1. lines = FlattenSeq(ss)
  BY DEF FieldLines, RowLines, Piece
<1>2. \A k \in 1 .. n : \A x \in DOMAIN rows[k] : <<x, rows[k][x]>> \in A
  OBVIOUS
<1> HIDE DEF A
<1>3. \A k \in 1 .. n : \A s : /\ Reads("ospf", s,
                                        RowLines(rows[k], OspfFiltered), Took(s, rows[k]))
                               /\ RowLines(rows[k], OspfFiltered) \in Seq(A)
  <2> TAKE k \in 1 .. n
  <2> TAKE s
  <2>1. \A x \in DOMAIN rows[k] : <<x, rows[k][x]>> \in A
    BY ONLY <1>2, k \in 1 .. n, Zenon
  <2> DEFINE row == rows[k]
  <2> HIDE DEF row
  <2>2. \A x \in DOMAIN row : <<x, row[x]>> \in A
    BY <2>1 DEF row
  <2>3. Reads("ospf", s, RowLines(row, OspfFiltered), Took(s, row))
         /\ RowLines(row, OspfFiltered) \in Seq(A)
    BY <2>2, OspfRowRead
  <2> QED BY <2>3 DEF row
<1>4. \A k \in 1 .. n : ss[k] = RowLines(rows[k], OspfFiltered)
  OBVIOUS
<1>5. ss = [k \in 1 .. n |-> ss[k]]
  OBVIOUS
<1>6. n \in Nat /\ g[0] = OspfStart /\ g[1] = t1 /\ g[2] = t2 /\ g[3] = t3
  OBVIOUS
<1> HIDE DEF lines, ss, g, t1, t2, t3
<1>7. \A i \in 1 .. n : (i = 1 /\ i - 1 = 0) \/ (i = 2 /\ i - 1 = 1) \/ (i = 3 /\ i - 1 = 2)
  BY ONLY n \in {0, 1, 2, 3}
<1>8. \A i \in 1 .. n : g[i] = Took(g[i - 1], rows[i])
  BY ONLY <1>6, <1>7 DEF t1, t2, t3
<1>9. \A i \in 1 .. n : Reads("ospf", g[i - 1], ss[i], g[i])
  <2> TAKE i \in 1 .. n
  <2>1. Reads("ospf", g[i - 1], RowLines(rows[i], OspfFiltered), Took(g[i - 1], rows[i]))
    BY ONLY <1>3, i \in 1 .. n, Zenon
  <2>2. ss[i] = RowLines(rows[i], OspfFiltered) /\ g[i] = Took(g[i - 1], rows[i])
    BY ONLY <1>4, <1>8, i \in 1 .. n, Zenon
  <2> QED BY ONLY <2>1, <2>2, Zenon
<1>10. Reads("ospf", OspfStart, lines, g[n]) /\ lines \in Seq(A)
  <2> DEFINE T == Seq(A)
  <2>1. \A k \in 1 .. n : ss[k] \in T
    BY ONLY <1>3, <1>4, Zenon
  <2> HIDE DEF T
  <2>2. ss \in Seq(T) /\ Len(ss) = n
    BY ONLY <1>5, <1>6, <2>1, ListOf
  <2>3. Reads("ospf", g[0], FlattenSeq(ss), g[n]) /\ FlattenSeq(ss) \in Seq(A)
    BY ONLY <1>6, <1>9, <2>2, ReadsFlattened DEF T
  <2> QED BY ONLY <1>1, <1>6, <2>3, Zenon
<1>11. \A i \in 0 .. n : Names(g[i], P(i))
  <2>1. P(0) = {}
    OBVIOUS
  <2>2. Names(g[0], P(0))
    BY ONLY <1>6, <2>1, StartNames, Zenon
  <2>3. ASSUME NEW i \in 1 .. n, Names(g[i - 1], P(i - 1)) PROVE Names(g[i], P(i))
    <3>1. P(i) = P(i - 1) \cup Told(rows[i])
      <4>1. 1 .. i = (1 .. i - 1) \cup {i}
        BY ONLY <1>6, i \in 1 .. n
      <4> QED BY ONLY <4>1, Zenon
    <3> HIDE DEF P
    <3>2. Names(Took(g[i - 1], rows[i]), P(i - 1) \cup Told(rows[i]))
      BY <2>3, RowNames
    <3>3. g[i] = Took(g[i - 1], rows[i])
      BY ONLY <1>8, i \in 1 .. n, Zenon
    <3> QED BY ONLY <3>1, <3>2, <3>3, Zenon
  <2> DEFINE S == {m \in Nat : m <= n => Names(g[m], P(m))}
  <2>4. 0 \in S
    BY <2>2
  <2>5. ASSUME NEW m \in S PROVE m + 1 \in S
    <3> SUFFICES ASSUME m + 1 <= n PROVE Names(g[m + 1], P(m + 1))
      OBVIOUS
    <3> HIDE DEF P
    <3>1. m \in Nat /\ m + 1 \in 1 .. n /\ (m + 1) - 1 = m /\ Names(g[m], P(m))
      OBVIOUS
    <3>2. Names(g[(m + 1) - 1], P((m + 1) - 1))
      BY ONLY <3>1, Zenon
    <3> QED BY ONLY <2>3, <3>1, <3>2, Zenon
  <2>6. S = Nat
    <3> HIDE DEF S
    <3>1. S \in SUBSET Nat
      BY DEF S
    <3> QED BY <2>4, <2>5, <3>1, NumbersByInduction
  <2> HIDE DEF P
  <2> QED BY <2>6
<1>12. Names(g[n], P(n))
  <2>1. n \in 0 .. n
    OBVIOUS
  <2> QED BY ONLY <1>11, <2>1, Zenon
<1>13. Len(lines) \in Nat /\ DOMAIN lines = 1 .. Len(lines)
  BY ONLY <1>10
<1> QED BY ONLY <1>10, <1>12, <1>13, Zenon DEF lines

\* The states kept for a router-id are those of its pairs.
LEMMA StatesRead ==
    ASSUME NEW t, NEW P, Names(t, P), NEW id
    PROVE  /\ id \in DOMAIN StatesOf(t.adjs) <=> \E p \in P : p[1] = id
           /\ (\E p \in P : p[1] = id)
                => StatesOf(t.adjs)[id] = {p[2] : p \in {q \in P : q[1] = id}}
<1> DEFINE adjs == t.adjs
           all == ToSet(adjs)
           pair(a) == <<a.rid, a.got["state"]>>
<1>1. /\ \A k \in DOMAIN adjs : "state" \in DOMAIN adjs[k].got
      /\ P = Pairs(adjs)
  BY DEF Names, Pairs
<1>2. all = {adjs[k] : k \in DOMAIN adjs}
  BY DEF ToSet
<1>3. P = {pair(a) : a \in all}
  <2>1. P = {pair(adjs[k]) : k \in DOMAIN adjs}
    BY <1>1 DEF Pairs
  <2> HIDE DEF pair, adjs, all
  <2> QED BY ONLY <1>2, <2>1
<1>4. {a \in all : "state" \in DOMAIN a.got} = all
  <2> HIDE DEF adjs
  <2> QED BY ONLY <1>1, <1>2
<1>5. StatesOf(adjs) =
        [rid \in {a.rid : a \in all} |-> {a.got["state"] : a \in {b \in all : b.rid = rid}}]
  BY ONLY <1>4, Zenon DEF StatesOf
<1>6. \A a : pair(a)[1] = a.rid /\ pair(a)[2] = a.got["state"]
  <2>1. \A x, y : <<x, y>>[1] = x /\ <<x, y>>[2] = y
    OBVIOUS
  <2> QED BY ONLY <2>1, Zenon
<1> HIDE DEF adjs, all, pair
<1>7. id \in {a.rid : a \in all} <=> \E p \in P : p[1] = id
  BY ONLY <1>3, <1>6
<1>8. {a.got["state"] : a \in {b \in all : b.rid = id}} = {p[2] : p \in {q \in P : q[1] = id}}
  BY ONLY <1>3, <1>6
<1>9. id \in DOMAIN StatesOf(adjs) <=> id \in {a.rid : a \in all}
  BY ONLY <1>5
<1>10. id \in {a.rid : a \in all} =>
          StatesOf(adjs)[id] = {a.got["state"] : a \in {b \in all : b.rid = id}}
  BY ONLY <1>5, Zenon
<1> QED BY ONLY <1>7, <1>8, <1>9, <1>10, Zenon DEF adjs

\* A device lists up to three rows.
LEMMA OspfList ==
    ASSUME HInv, module = "ospf", Checked
    PROVE  LET rows == RowsOf(asked["print"]) IN \E n \in {0, 1, 2, 3} : DOMAIN rows = 1 .. n
<1> DEFINE R == OspfRows
           L == OspfLastRows
           M == {OspfRow("r1", "", "Full"), OspfRow("r2", "v2", "")}
<1>1. asked["print"] = Failed \/ asked["print"] \in OspfDevices
  BY OneCall DEF Checked, Devices
<1> DEFINE S == {"", "Down"}
           N(s) == OspfRow("", "v2", s)
           one == {<<a>> : a \in R}
           two == {<<a, b>> : a \in R, b \in L}
           three == {<<a, N(s), b>> : a \in M, s \in S, b \in L}
<1>2. OspfDevices = ({<<>>} \cup (one \cup two)) \cup three
  BY DEF OspfDevices, UpToTwo
<1> HIDE DEF R, L, M, N, S
<1>3. \A d \in OspfDevices : d = <<>> \/ (\E a : d = <<a>>) \/ (\E a, b : d = <<a, b>>)
       \/ \E a, b, c : d = <<a, b, c>>
  <2>1. \A d \in one : \E a : d = <<a>>
    OBVIOUS
  <2>2. \A d \in two : \E a, b : d = <<a, b>>
    OBVIOUS
  <2>3. \A d \in three : \E a, b, c : d = <<a, b, c>>
    OBVIOUS
  <2> HIDE DEF one, two, three
  <2>4. \A d \in OspfDevices : d = <<>> \/ d \in one \/ d \in two \/ d \in three
    BY <1>2
  <2> QED BY ONLY <2>1, <2>2, <2>3, <2>4, Zenon
<1>4. /\ DOMAIN <<>> = 1 .. 0 /\ (\A a : DOMAIN <<a>> = 1 .. 1)
          /\ (\A a, b : DOMAIN <<a, b>> = 1 .. 2)
      /\ \A a, b, c : DOMAIN <<a, b, c>> = 1 .. 3
  <2>1. DOMAIN <<>> = 1 .. 0
    OBVIOUS
  <2>2. \A a : DOMAIN <<a>> = 1 .. 1
    OBVIOUS
  <2>3. \A a, b : DOMAIN <<a, b>> = 1 .. 2
    OBVIOUS
  <2>4. \A a, b, c : DOMAIN <<a, b, c>> = 1 .. 3
    OBVIOUS
  <2> QED BY ONLY <2>1, <2>2, <2>3, <2>4, Zenon
<1> DEFINE rows == RowsOf(asked["print"])
<1>5. rows = <<>> \/ (\E a : rows = <<a>>) \/ (\E a, b : rows = <<a, b>>)
       \/ \E a, b, c : rows = <<a, b, c>>
  BY <1>1, <1>3 DEF RowsOf
<1> HIDE DEF rows
<1>6. DOMAIN rows = 1 .. 0 \/ DOMAIN rows = 1 .. 1 \/ DOMAIN rows = 1 .. 2 \/ DOMAIN rows = 1 .. 3
  BY ONLY <1>4, <1>5, Zenon
<1> QED BY <1>6 DEF rows

\* NeighboursJudgedByOwnRows follows from the invariant.
LEMMA NeighboursJudged == HInv => NeighboursJudgedByOwnRows
<1> DEFINE rows == RowsOf(asked["print"])
           known == {r \in ToSet(rows) : "router-id" \in DOMAIN r}
           own(id) == {r \in known : r["router-id"] = id}
           ok == Params(rule, OspfDefaults).ok_states
<1> SUFFICES ASSUME HInv, module = "ospf", Checked, \A r \in known : "state" \in DOMAIN r,
                    NEW id \in DOMAIN results
             PROVE  results[id] = IF own(id) = {} THEN "CRIT"
                                  ELSE Worst({Judgement(r.state, ok) : r \in own(id)})
  BY DEF NeighboursJudgedByOwnRows
<1> DEFINE sec == section[1]
           lines == FieldLines(rows, OspfFiltered)
<1>1. results[id] = IF id \notin DOMAIN sec THEN "CRIT"
                    ELSE Worst({Judgement(s, ok) : s \in sec[id]})
  <2>1. results[id] = OspfCheck(id, rule, sec)
    BY DEF HInv, ResultsOK, Checked, Outcome
  <2> QED BY <2>1 DEF OspfCheck
<1>2. PICK n \in {0, 1, 2, 3} : DOMAIN rows = 1 .. n
  BY OspfList
<1>3. \A k \in 1 .. n : "router-id" \in DOMAIN rows[k] => "state" \in DOMAIN rows[k]
  <2> HIDE DEF rows
  <2> QED BY <1>2 DEF ToSet
<1> DEFINE P == UNION {Told(rows[k]) : k \in 1 .. n}
<1>4. /\ \E t : Reads("ospf", OspfStart, lines, t) /\ Names(t, P)
      /\ Len(lines) \in Nat /\ DOMAIN lines = 1 .. Len(lines)
  <2> HIDE DEF rows
  <2> QED BY <1>2, <1>3, OspfRowsRead
<1>5. sec = OspfParse(lines)
  <2>1. section = OspfSection(asked) /\ section # <<>>
    BY DEF HInv, SectionOK, Checked, Sections
  <2> QED BY <2>1 DEF OspfSection, OspfLines, SectionOf
<1>6. P = {<<r["router-id"], r["state"]>> : r \in known}
  <2> HIDE DEF rows
  <2>1. ToSet(rows) = {rows[k] : k \in 1 .. n}
    BY <1>2 DEF ToSet
  <2>2. \A r : Told(r) = IF "router-id" \in DOMAIN r THEN {<<r["router-id"], r["state"]>>} ELSE {}
    BY DEF Told
  <2> QED BY ONLY <2>1, <2>2
<1> HIDE DEF sec, lines, P, known, ok, rows
<1>7. PICK t : Reads("ospf", OspfStart, lines, t) /\ Names(t, P)
  BY <1>4
<1>8. sec = StatesOf(t.adjs)
  <2>1. OspfParse(lines) = StatesOf(t.adjs)
    BY ONLY <1>4, <1>7, OspfParsed
  <2> QED BY ONLY <1>5, <2>1, Zenon
<1>9. /\ id \in DOMAIN sec <=> \E p \in P : p[1] = id
      /\ (\E p \in P : p[1] = id) => sec[id] = {p[2] : p \in {q \in P : q[1] = id}}
  <2>1. /\ id \in DOMAIN StatesOf(t.adjs) <=> \E p \in P : p[1] = id
        /\ (\E p \in P : p[1] = id) => StatesOf(t.adjs)[id] = {p[2] : p \in {q \in P : q[1] = id}}
    BY <1>7, StatesRead
  <2> QED BY ONLY <1>8, <2>1, Zenon
<1> DEFINE pair(r) == <<r["router-id"], r["state"]>>
<1>10. \A r : pair(r)[1] = r["router-id"] /\ pair(r)[2] = r["state"]
  <2>1. \A x, y : <<x, y>>[1] = x /\ <<x, y>>[2] = y
    OBVIOUS
  <2> QED BY ONLY <2>1, Zenon
<1>11. P = {pair(r) : r \in known}
  BY ONLY <1>6, Zenon
<1> HIDE DEF pair
<1>12. (\E p \in P : p[1] = id) <=> own(id) # {}
  BY ONLY <1>10, <1>11
<1>13. {p[2] : p \in {q \in P : q[1] = id}} = {r["state"] : r \in own(id)}
  BY ONLY <1>10, <1>11
<1>14. own(id) # {} => sec[id] = {r["state"] : r \in own(id)}
  BY ONLY <1>9, <1>12, <1>13, Zenon
<1>15. own(id) # {}
         => {Judgement(s, ok) : s \in sec[id]} = {Judgement(r["state"], ok) : r \in own(id)}
  <2> DEFINE O == own(id)
  <2> HIDE DEF own
  <2> SUFFICES ASSUME O # {}
      PROVE {Judgement(s, ok) : s \in sec[id]} = {Judgement(r["state"], ok) : r \in O}
    OBVIOUS
  <2>1. sec[id] = {r["state"] : r \in O}
    BY <1>14
  <2> HIDE DEF O
  <2> QED BY ONLY <2>1
<1> DEFINE J == {Judgement(r["state"], ok) : r \in own(id)}
<1>16. own(id) # {} => results[id] = Worst(J)
  BY ONLY <1>1, <1>9, <1>12, <1>15, Zenon
<1>17. own(id) = {} => results[id] = "CRIT"
  BY ONLY <1>1, <1>9, <1>12, Zenon
<1> QED BY ONLY <1>16, <1>17, Zenon

-----------------------------------------------------------------------------
(* Clients of WiFi.                                                        *)

\* The numbers in D that sid takes into s.
Having(sid, D, s) == {k \in D : sid[k] \in s}

\* The sum of the clients of a section.
Total(sec) == MapThenSumSet(LAMBDA ssid : sec[ssid].clients, DOMAIN sec)

\* One value more.
LEMMA HavingMore ==
    ASSUME NEW D, IsFiniteSet(D), NEW sid, NEW s, NEW x \in s
    PROVE  /\ Cardinality(Having(sid, D, s)) =
                 Cardinality({k \in D : sid[k] = x}) + Cardinality(Having(sid, D, s \ {x}))
           /\ Cardinality({k \in D : sid[k] = x}) \in Nat
<1> DEFINE A == {k \in D : sid[k] = x}
           B == Having(sid, D, s \ {x})
<1>1. /\ A \in SUBSET D /\ B \in SUBSET D
      /\ A \cap B = {} /\ A \cup B = Having(sid, D, s)
  BY DEF Having
<1> HIDE DEF A, B
<1>2. IsFiniteSet(A) /\ IsFiniteSet(B)
  BY <1>1, FS_Subset
<1>3. Cardinality(A) \in Nat /\ Cardinality(B) \in Nat
  BY <1>2, FS_CardinalityType
<1>4. Cardinality(A \cup B) = Cardinality(A) + Cardinality(B) - Cardinality(A \cap B)
  BY <1>2, FS_Union
<1>5. Cardinality(A \cap B) = 0
  BY <1>1, FS_EmptySet
<1>6. Cardinality(A \cup B) = Cardinality(A) + Cardinality(B)
  BY ONLY <1>3, <1>4, <1>5
<1> QED BY <1>1, <1>3, <1>6 DEF A, B

\* What is counted under each value adds up to what is counted at all: whichever value
\* the sum takes first, it is the number of those with the others and with this one.
LEMMA CountsSum ==
    ASSUME NEW D, IsFiniteSet(D), NEW sid, NEW sec, IsFiniteSet(DOMAIN sec),
           \A x \in DOMAIN sec : sec[x].clients = Cardinality({k \in D : sid[k] = x})
    PROVE  Total(sec) = Cardinality(Having(sid, D, DOMAIN sec))
<1> DEFINE T == DOMAIN sec
           G(f) == [s \in SUBSET T |->
                      IF s = {} THEN 0
                      ELSE LET x == CHOOSE y \in s : TRUE IN sec[x].clients + f[s \ {x}]]
           it == CHOOSE f : f = G(f)
           h == [s \in SUBSET T |-> Cardinality(Having(sid, D, s))]
<1>1. Total(sec) = it[T]
  BY DEF Total, MapThenSumSet, MapThenFoldSet
<1>2. ASSUME NEW s \in SUBSET T, s # {}, NEW x, x = CHOOSE y \in s : TRUE
      PROVE  x \in s /\ s \ {x} \in SUBSET T /\ h[s] = sec[x].clients + h[s \ {x}]
  <2>1. x \in s
    BY <1>2
  <2>2. s \ {x} \in SUBSET T /\ sec[x].clients = Cardinality({k \in D : sid[k] = x})
    BY <2>1
  <2> QED BY <2>1, <2>2, HavingMore
<1>3. h[{}] = 0
  <2>1. Having(sid, D, {}) = {}
    BY DEF Having
  <2> QED BY <2>1, FS_EmptySet
<1>4. h = G(h)
  <2> HIDE DEF h
  <2>1. h = [s \in SUBSET T |-> h[s]]
    BY DEF h
  <2>2. \A s \in SUBSET T : h[s] = IF s = {} THEN 0 ELSE LET x == CHOOSE y \in s : TRUE
                                                        IN sec[x].clients + h[s \ {x}]
    BY <1>2, <1>3
  <2> QED BY <2>1, <2>2
<1>5. it = G(it)
  <2> HIDE DEF G, h
  <2> QED BY <1>4
<1> DEFINE N == {n \in Nat : \A s \in SUBSET T : Cardinality(s) = n => it[s] = h[s]}
<1> HIDE DEF it, h
<1>6. \A s \in SUBSET T : IsFiniteSet(s)
  BY FS_Subset
<1>7. 0 \in N
  <2>1. \A s \in SUBSET T : Cardinality(s) = 0 => s = {}
    BY <1>6, FS_EmptySet
  <2>2. it[{}] = 0
    BY <1>5
  <2> QED BY <1>3, <2>1, <2>2
<1>8. ASSUME NEW n \in N PROVE n + 1 \in N
  <2> SUFFICES ASSUME NEW s \in SUBSET T, Cardinality(s) = n + 1 PROVE it[s] = h[s]
    OBVIOUS
  <2> DEFINE x == CHOOSE y \in s : TRUE
  <2>1. s # {}
    BY FS_EmptySet
  <2>2. x \in s /\ s \ {x} \in SUBSET T /\ h[s] = sec[x].clients + h[s \ {x}]
    BY <1>2, <2>1
  <2>3. it[s] = sec[x].clients + it[s \ {x}]
    BY <1>5, <2>1
  <2>4. Cardinality(s \ {x}) = n
    <3> HIDE DEF x
    <3>1. IsFiniteSet(s)
      BY <1>6
    <3>2. Cardinality(s \ {x}) = IF x \in s THEN Cardinality(s) - 1 ELSE Cardinality(s)
      BY ONLY <3>1, FS_RemoveElement
    <3> QED BY <2>2, <3>2
  <2>5. it[s \ {x}] = h[s \ {x}]
    BY <2>2, <2>4
  <2> QED BY <2>2, <2>3, <2>5
<1>9. N = Nat
  <2> HIDE DEF N
  <2>1. N \in SUBSET Nat
    BY DEF N
  <2> QED BY <1>7, <1>8, <2>1, NumbersByInduction
<1>10. Cardinality(T) \in Nat
  BY FS_CardinalityType
<1>11. it[T] = h[T]
  BY <1>9, <1>10
<1> QED BY <1>1, <1>11 DEF h

\* The elements of a list are finitely many.
LEMMA ImageFinite == ASSUME NEW n \in Nat, NEW f PROVE IsFiniteSet({f[i] : i \in 1 .. n})
<1> DEFINE S == 1 .. n
           T == {f[i] : i \in S}
           g == [i \in S |-> f[i]]
<1>1. IsFiniteSet(S)
  BY FS_Interval
<1>2. g \in Surjection(S, T)
  BY DEF Surjection
<1> QED BY <1>1, <1>2, FS_Surjection

\* The SSID of a client line is known if its row or a line of its radio names one: the
\* last such line is not the one that names none.
LEMMA ClientKnown ==
    ASSUME NEW S, NEW lines \in Seq(S), NEW client
    PROVE  ClientSsid(lines, client) # "" <=>
              \/ client.ssid # ""
              \/ \E r \in ToSet(lines) : r.name = client.radio /\ r.ssid # ""
<1> DEFINE named(r) == r.name = client.radio /\ r.ssid # ""
           n == Len(lines)
           I == {i \in 1 .. n : named(lines[i])}
           k == IF I # {} THEN Max(I) ELSE 0
<1>1. ClientSsid(lines, client) = IF client.ssid # "" \/ k = 0 THEN client.ssid ELSE lines[k].ssid
  BY DEF ClientSsid, SelectLastInSeq
<1>2. \A r : named(r) => r.ssid # ""
  OBVIOUS
<1>3. n \in Nat /\ DOMAIN lines = 1 .. n
  OBVIOUS
<1> HIDE DEF named, n
<1>4. I # {} <=> \E r \in ToSet(lines) : named(r)
  BY <1>3 DEF ToSet
<1>5. I # {} => Max(I) \in I
  <2>1. I \in SUBSET (1 .. n)
    OBVIOUS
  <2> HIDE DEF I
  <2> QED BY <1>3, <2>1, MaxIn
<1>6. I # {} => k # 0 /\ lines[k].ssid # ""
  <2>1. \A i \in I : i # 0
    BY <1>3
  <2>2. \A i \in I : lines[i].ssid # ""
    BY ONLY <1>2, Zenon
  <2> HIDE DEF I
  <2> QED BY <1>5, <2>1, <2>2
<1>7. I = {} => k = 0
  OBVIOUS
<1> HIDE DEF I, k
<1>8. ClientSsid(lines, client) # "" <=> client.ssid # "" \/ \E r \in ToSet(lines) : named(r)
  BY <1>1, <1>4, <1>6, <1>7
<1> QED BY <1>8 DEF named

\* The client rows of the own driver.
LEMMA ClientRows ==
    ASSUME HInv, module = "wifi"
    PROVE  RowsIn(asked, device.driver, "clients") \in Registrations
<1> DEFINE own == device.driver
           call == <<own, "clients">>
<1>1. Devices = WifiDevices /\ AskedOK
  BY DEF HInv, Devices
<1>2. <<>> \in Registrations
  BY DEF Registrations
<1>3. \A d \in WifiDevices : d.clients \in Registrations
  <2> SUFFICES ASSUME NEW d \in WifiDevices PROVE d.clients \in Registrations
    OBVIOUS
  <2>1. PICK driver \in Drivers : d \in DevicesOf(driver)
    BY DEF WifiDevices, Drivers
  <2> DEFINE scenes == Scenes(UpLink(driver), DownLink(driver))
             R == Registrations
  <2>2. d \in {Wifi(driver, radios[1], radios[2], clients) : radios \in scenes, clients \in R}
    BY <2>1 DEF DevicesOf
  <2> HIDE DEF scenes, R
  <2>3. PICK radios \in scenes, clients \in R : d = Wifi(driver, radios[1], radios[2], clients)
    BY <2>2
  <2>4. d.clients = clients
    BY <2>3 DEF Wifi
  <2> QED BY <2>4 DEF R
<1>4. CASE call \in DOMAIN asked /\ asked[call] # Failed
  <2>1. asked[call] \in Answers(call)
    BY <1>1, <1>4 DEF AskedOK
  <2>2. PICK d \in WifiDevices : asked[call] = WifiReply(call, d)
    BY <1>1, <1>4, <2>1 DEF Answers, Reply
  <2>3. WifiReply(call, d) = d.clients
    BY <1>4, <2>2 DEF WifiReply
  <2> QED BY <1>3, <1>4, <2>2, <2>3 DEF RowsIn, RowsOf
<1>5. CASE ~(call \in DOMAIN asked /\ asked[call] # Failed)
  BY <1>2, <1>5 DEF RowsIn, RowsOf
<1> QED BY <1>4, <1>5

\* They are up to three records.
LEMMA ClientRow ==
    ASSUME NEW rows \in Registrations
    PROVE  /\ \E n \in {0, 3} : rows = [k \in 1 .. n |-> rows[k]]
           /\ \A k \in DOMAIN rows :
                 rows[k] = [radio |-> rows[k].radio,
                            ssid |-> rows[k].ssid, signals |-> rows[k].signals]
<1>1. CASE rows = <<>>
  <2>1. rows = [k \in 1 .. 0 |-> rows[k]] /\ DOMAIN rows = {}
    BY <1>1
  <2> QED BY <2>1
<1>2. CASE rows # <<>>
  <2> DEFINE a == Client("r1", "", {-60})
             b == Client("r2", "", {-85})
             c == Client("r3", "guest", {})
  <2>1. rows = <<a, b, c>>
    BY <1>2 DEF Registrations
  <2>2. \A x \in {a, b, c} : x = [radio |-> x.radio, ssid |-> x.ssid, signals |-> x.signals]
    <3>1. \A r, s, g : /\ Client(r, s, g) = [radio |-> r, ssid |-> s, signals |-> g]
                       /\ Client(r, s, g).radio = r /\ Client(r, s, g).ssid = s
                       /\ Client(r, s, g).signals = g
      BY DEF Client
    <3>2. \E r, s, g : a = Client(r, s, g)
      OBVIOUS
    <3>3. (\E r, s, g : b = Client(r, s, g)) /\ \E r, s, g : c = Client(r, s, g)
      OBVIOUS
    <3> HIDE DEF a, b, c
    <3> QED BY <3>1, <3>2, <3>3
  <2> HIDE DEF a, b, c
  <2>3. rows = [k \in 1 .. 3 |-> rows[k]]
    BY <2>1
  <2>4. \A k \in DOMAIN rows : rows[k] \in {a, b, c}
    BY <2>1
  <2> QED BY <2>2, <2>3, <2>4
<1> QED BY <1>1, <1>2

\* A list of up to three.
LEMMA ShortList ==
    ASSUME NEW s, NEW n \in {0, 3}, s = [k \in 1 .. n |-> s[k]]
    PROVE  s \in Seq({s[k] : k \in 1 .. n}) /\ Len(s) = n /\ DOMAIN s = 1 .. n
<1> DEFINE T == {s[k] : k \in 1 .. n}
<1>1. n \in Nat /\ \A k \in 1 .. n : s[k] \in T
  OBVIOUS
<1> HIDE DEF T
<1>2. s \in Seq(T) /\ Len(s) = n
  BY <1>1, ListOf
<1>3. DOMAIN s = 1 .. n
  BY Zenon
<1> QED BY <1>2, <1>3 DEF T

\* The client lines and the rows listed are those of the own driver.
LEMMA OwnClients ==
    ASSUME HInv, module = "wifi"
    PROVE  /\ Listed("clients") = RowsIn(asked, device.driver, "clients")
           /\ FlattenSeq([k \in DOMAIN Sources |-> ClientLines(asked, Sources[k][1])])
                 = ClientLines(asked, device.driver)
<1> DEFINE own == device.driver
           rows == RowsIn(asked, own, "clients")
           lines == ClientLines(asked, own)
           rr == [k \in DOMAIN Sources |-> RowsIn(asked, Sources[k][1], "clients")]
           ll == [k \in DOMAIN Sources |-> ClientLines(asked, Sources[k][1])]
<1>1. own \in Drivers
  BY WifiRows
<1>2. PICK n \in {0, 3} : rows = [k \in 1 .. n |-> rows[k]]
  BY ClientRows, ClientRow
<1>3. DOMAIN rows = 1 .. n
  BY <1>2, Zenon
<1>4. \A k \in DOMAIN Sources : Sources[k][1] \in Drivers
  BY SourceNames DEF Drivers
<1>5. \A k \in DOMAIN Sources : rr[k] = IF Sources[k][1] = own THEN rows ELSE <<>>
  BY <1>4, WifiRows
<1>6. ASSUME NEW driver, RowsIn(asked, driver, "clients") = <<>>
      PROVE ClientLines(asked, driver) = <<>>
  <2> DEFINE f == ClientLines(asked, driver)
             of(k) == LET r == RowsIn(asked, driver, "clients")
                          radios(name) == {i \in ToSet(IfaceLines(asked, driver)) : i.name = name}
                      IN [r[k] EXCEPT !.ssid =
                             IF @ # "" \/ radios(r[k].radio) = {} THEN @
                             ELSE (CHOOSE i \in radios(r[k].radio) : TRUE).ssid]
  <2>1. f = [k \in DOMAIN RowsIn(asked, driver, "clients") |-> of(k)]
    BY Zenon DEF ClientLines
  <2> HIDE DEF f, of
  <2>2. f = [k \in DOMAIN <<>> |-> of(k)]
    BY <1>6, <2>1
  <2>3. f = <<>>
    BY ONLY <2>2
  <2> QED BY <2>3 DEF f
<1>7. \A k \in DOMAIN Sources : ll[k] = IF Sources[k][1] = own THEN lines ELSE <<>>
  BY <1>4, <1>6, WifiRows
<1>8. lines = [k \in 1 .. n |-> lines[k]]
  BY <1>3 DEF ClientLines
<1>9. rr = [k \in DOMAIN Sources |-> rr[k]] /\ ll = [k \in DOMAIN Sources |-> ll[k]]
  OBVIOUS
<1>10. Listed("clients") = FlattenSeq(rr)
  BY DEF Listed
<1> HIDE DEF rows, lines, rr, ll, own
<1>11. FlattenSeq(rr) = rows
  <2> DEFINE S == {rows[k] : k \in 1 .. n}
  <2>1. rows \in Seq(S)
    BY <1>2, ShortList
  <2> HIDE DEF S
  <2> QED BY <1>1, <1>5, <1>9, <2>1, OwnOnly
<1>12. FlattenSeq(ll) = lines
  <2> DEFINE S == {lines[k] : k \in 1 .. n}
  <2>1. lines \in Seq(S)
    BY <1>8, ShortList
  <2> HIDE DEF S
  <2> QED BY <1>1, <1>7, <1>9, <2>1, OwnOnly
<1> QED BY <1>10, <1>11, <1>12 DEF rows, lines, ll, own

\* The SSID of a client is known if its row or a line of its radio names one, whether it
\* is found by the agent or by the parser.
LEMMA ClientLineKnown ==
    ASSUME HInv, module = "wifi",
           NEW k \in DOMAIN RowsIn(asked, device.driver, "clients")
    PROVE  LET c == RowsIn(asked, device.driver, "clients")[k]
               lines == IfaceLines(asked, device.driver)
           IN ClientSsid(lines, ClientLines(asked, device.driver)[k]) # "" <=>
                 \/ c.ssid # ""
                 \/ \E r \in ToSet(lines) : r.name = c.radio /\ r.ssid # ""
<1> DEFINE own == device.driver
           c == RowsIn(asked, own, "clients")[k]
           lines == IfaceLines(asked, own)
           R == {r \in ToSet(lines) : r.name = c.radio}
           line == ClientLines(asked, own)[k]
           found == IF c.ssid # "" \/ R = {} THEN c.ssid ELSE (CHOOSE r \in R : TRUE).ssid
<1>1. line = [c EXCEPT !.ssid = found]
  BY DEF ClientLines
<1>2. c = [radio |-> c.radio, ssid |-> c.ssid, signals |-> c.signals]
  BY ClientRows, ClientRow
<1>3. PICK S : lines \in Seq(S)
  BY WifiLines
<1>4. R # {} => (CHOOSE r \in R : TRUE) \in R
  OBVIOUS
<1>5. found # "" => c.ssid # "" \/ \E r \in ToSet(lines) : r.name = c.radio /\ r.ssid # ""
  <2> HIDE DEF c, lines
  <2> QED BY <1>4
<1> HIDE DEF c, lines, found
<1>6. line.ssid = found /\ line.radio = c.radio
  BY <1>1, <1>2
<1> HIDE DEF line
<1>7. ClientSsid(lines, line) # "" <=>
         line.ssid # "" \/ \E r \in ToSet(lines) : r.name = line.radio /\ r.ssid # ""
  BY <1>3, ClientKnown
<1>8. c.ssid # "" => found # ""
  BY DEF found
<1>9. ClientSsid(lines, line) # "" <=>
         c.ssid # "" \/ \E r \in ToSet(lines) : r.name = c.radio /\ r.ssid # ""
  BY <1>5, <1>6, <1>7, <1>8
<1> QED BY <1>9 DEF line, lines, c

\* ClientsCountedOnce follows from the invariant: a client is under one SSID at most, and
\* under one if its row or a line of its radio names it.
LEMMA ClientsOfOneSsid == HInv => ClientsCountedOnce
<1> SUFFICES ASSUME HInv, module = "wifi", Checked PROVE ClientsCountedOnce
  BY DEF ClientsCountedOnce
<1> DEFINE own == device.driver
           rows == RowsIn(asked, own, "clients")
           ifaces == RowsIn(asked, own, "ifaces")
           profiles == RowsIn(asked, own, "config")
           lines == IfaceLines(asked, own)
           clients == ClientLines(asked, own)
           sec == section[1]
           D == DOMAIN rows
           sid == [k \in D |-> ClientSsid(lines, clients[k])]
           radios == {r \in ToSet(ifaces) : ~r.disabled /\ KnownSsid(r) # ""}
           known(c) == c.ssid # "" \/ \E r \in radios : r.name = c.radio
           K == {k \in D : known(rows[k])}
<1>1. Listed("clients") = rows /\ Listed("ifaces") = ifaces
  BY OwnClients, ListedOwn
<1>2. \A r : KnownSsid(r) = SsidOf(r, profiles)
  BY ListedOwn DEF KnownSsid
<1>3. sec = Grouped(lines, clients)
  BY WifiMadeOf, OwnClients
<1>4. DOMAIN clients = D
  BY Zenon DEF ClientLines
<1>5. PICK n \in {0, 3} : rows = [k \in 1 .. n |-> rows[k]]
  BY ClientRows, ClientRow
<1>6. D = 1 .. n
  BY <1>5, Zenon
<1>7. PICK S : lines \in Seq(S)
  BY WifiLines
<1>8. ToSet(lines) = {WifiLine(r, profiles) : r \in {u \in ToSet(ifaces) : ~u.disabled}}
  BY WifiLines
<1>9. \A k \in D : sid[k] # "" <=>
         rows[k].ssid # "" \/ \E r \in ToSet(lines) : r.name = rows[k].radio /\ r.ssid # ""
  BY ClientLineKnown
<1>10. \A name : (\E r \in ToSet(lines) : r.name = name /\ r.ssid # "") <=> \E r \in radios :
         r.name = name
  <2>1. \A r : WifiLine(r, profiles).name = r.name /\ WifiLine(r, profiles).ssid = KnownSsid(r)
    BY <1>2 DEF WifiLine
  <2> DEFINE given(s) == s # ""
             all == ToSet(lines)
             set == ToSet(ifaces)
             line(r) == WifiLine(r, profiles)
             ssid(r) == KnownSsid(r)
  <2>2. all = {line(r) : r \in {u \in set : ~u.disabled}}
    BY <1>8
  <2>3. radios = {r \in set : ~r.disabled /\ given(ssid(r))}
    OBVIOUS
  <2>4. \A r : line(r).name = r.name /\ line(r).ssid = ssid(r)
    BY <2>1
  <2> HIDE DEF given, all, set, line, ssid, radios
  <2>5. \A name : (\E r \in all : r.name = name /\ given(r.ssid)) <=> \E r \in radios :
          r.name = name
    BY ONLY <2>2, <2>3, <2>4
  <2> QED BY <2>5 DEF given, all
<1>11. \A k \in D : sid[k] # "" <=> known(rows[k])
  BY <1>9, <1>10
<1>12. DOMAIN sec = Ssids(lines, clients)
  BY <1>3 DEF Grouped
<1>13. \A x \in DOMAIN sec :
         sec[x].clients = Cardinality({k \in DOMAIN clients : ClientSsid(lines, clients[k]) = x})
  BY <1>3 DEF Grouped
<1> HIDE DEF rows, ifaces, profiles, lines, clients, own, sec, radios
<1>14. \A x \in DOMAIN sec : sec[x].clients = Cardinality({k \in D : sid[k] = x})
  <2>1. \A x : {k \in D : sid[k] = x} = {k \in DOMAIN clients : ClientSsid(lines, clients[k]) = x}
    BY <1>4
  <2> QED BY <1>13, <2>1
<1>15. IsFiniteSet(D) /\ n \in Nat
  BY <1>6, FS_Interval
<1> DEFINE A == {r.ssid : r \in ToSet(lines)}
           B == {ClientSsid(lines, c) : c \in ToSet(clients)}
<1>16. B = {sid[k] : k \in 1 .. n}
  BY <1>4, <1>6 DEF ToSet
<1>17. IsFiniteSet(B)
  BY <1>15, <1>16, ImageFinite
<1>18. IsFiniteSet(A)
  <2> DEFINE m == Len(lines)
             f == [i \in 1 .. m |-> lines[i].ssid]
  <2>1. m \in Nat /\ DOMAIN lines = 1 .. m
    BY <1>7
  <2>2. A = {f[i] : i \in 1 .. m}
    BY <2>1 DEF ToSet
  <2> HIDE DEF m, f, A
  <2> QED BY <2>1, <2>2, ImageFinite
<1>19. DOMAIN sec = (A \cup B) \ {""}
  BY <1>12 DEF Ssids
<1> HIDE DEF A, B
<1>20. IsFiniteSet(DOMAIN sec)
  <2>1. IsFiniteSet(A \cup B)
    BY <1>17, <1>18, FS_Union
  <2>2. DOMAIN sec \in SUBSET (A \cup B)
    BY <1>19
  <2> QED BY <2>1, <2>2, FS_Subset
<1>21. \A k \in D : sid[k] \in DOMAIN sec <=> sid[k] # ""
  <2>1. \A k \in D : sid[k] \in B
    BY <1>6, <1>16
  <2> HIDE DEF sid
  <2> QED BY <1>19, <2>1
<1>22. Having(sid, D, DOMAIN sec) = K
  <2> HIDE DEF sid, D, known
  <2> QED BY <1>11, <1>21 DEF Having
<1>23. Total(sec) = Cardinality(K)
  <2> HIDE DEF sid, D, K
  <2> QED BY <1>14, <1>15, <1>20, <1>22, CountsSum
<1> QED BY <1>1, <1>23 DEF ClientsCountedOnce, Total, sec, radios

-----------------------------------------------------------------------------
(* The theorems.                                                           *)

\* The inductive invariant.
LEMMA Invariance == Spec => [](HInv /\ CallsOK)
<1>1. Init => HInv /\ CallsOK
  <2>1. Init => CallsOK
    BY DEF Init, CallsOK, NoFields
  <2> QED BY <2>1, HInit
<1>2. HInv /\ CallsOK /\ [Next]_vars => (HInv /\ CallsOK)'
  BY HStep, CallsStep
<1> QED BY <1>1, <1>2, PTL DEF Spec

\* Every variable stays within its range, if every rule is one a form stores: the
\* agent never makes a call its replies do not ask for, and no result outlives its cycle.
THEOREM TypeCorrect == ASSUME AllAccepted PROVE Spec => []TypeOK
<1>1. HInv /\ CallsOK => TypeOK
  BY Typed
<1> QED BY <1>1, Invariance, PTL

\* A check fails on no answer but that of a VRRP row that does not say whether it is
\* disabled, if every rule is one a form stores; the rules for files are in the bare form
\* only (the run host_file_levels shows the other, MCHostVrrpCrash.cfg the row).
THEOREM CrashesExplained == ASSUME AllAccepted PROVE Spec => []CrashesOnlyWithoutDisabled
<1>1. HInv => CrashesOnlyWithoutDisabled
  BY Crashes
<1> QED BY <1>1, Invariance, PTL

\* A board, a clock or a license is OK only if what the calls that were answered say bears
\* it out; a board whose version could not be read may be OK (MCHostBoardVersion.cfg).
THEOREM InfoReal == ASSUME AllAccepted PROVE Spec => []InfoOkIsReal
<1>1. HInv => InfoOkIsReal
  BY InfoOk
<1> QED BY <1>1, Invariance, PTL

\* A fan that stands still is CRIT under any lower levels that a fan can undercut.
THEOREM StoppedFanReported == ASSUME FanLimits PROVE Spec => []StoppedFanIsReported
<1>1. HInv => StoppedFanIsReported
  BY StoppedFan
<1> QED BY <1>1, Invariance, PTL

\* A current from 100 mA on reaches the check as it was measured, under any rules.
THEOREM CurrentSurvives == Spec => []CurrentSurvivesUnits
  BY Current, Invariance, PTL

\* A pool is OK only while less than 80 % of it is in use, under any rules that leave
\* the levels alone.
THEOREM PoolReal == Spec => []PoolOkIsReal
  BY PoolOk, Invariance, PTL

\* A UPS is judged by its own monitor call and no other.
THEOREM UpsOwnMonitor == Spec => []UpsJudgedByOwnMonitor
  BY UpsOwn, Invariance, PTL

\* An enabled radio that is down keeps its SSID from being OK.
THEOREM DownRadioReported == Spec => []DownRadioIsReported
  BY DownRadio, Invariance, PTL

\* A peer without a recent handshake is never OK.
THEOREM DeadPeerReported == Spec => []DeadPeerIsNotOk
  BY DeadPeer, Invariance, PTL

\* A VRRP service is OK only if one row of its name is in its role as a whole, whatever
\* the rows before it left under that word, and is OK if all of them are.
THEOREM VrrpOwnRole == Spec => []VrrpOkIsOwnRole
  BY VrrpJudged, Invariance, PTL

\* A file is judged by one row of its name and no other, and the watchdog file, if the
\* list was read, by whether one is listed, under any rules.
THEOREM FilesOwnRow == Spec => []FilesJudgedByOwnRows
  BY FilesJudged, Invariance, PTL

\* A neighbor is judged by the states of its own rows, whatever rows without a
\* router-id stand between them; it is assumed that rows with one have a state.
THEOREM NeighboursOwnRows == Spec => []NeighboursJudgedByOwnRows
  BY NeighboursJudged, Invariance, PTL

\* Every client whose SSID can be told, from its row or from its radio, counts for
\* exactly one SSID.
THEOREM ClientsOnce == Spec => []ClientsCountedOnce
  BY ClientsOfOneSsid, Invariance, PTL

\* A counter that is written is that of a rule or peer with that item in this reply.
THEOREM CountersOwn == Spec => CountersCountTheirOwn
<1>1. HInv /\ [Next]_vars => [CounterOwn]_vars
  BY CountersStep
<1>2. Spec => [][CounterOwn]_vars
  BY <1>1, Invariance, PTL DEF Spec
<1> QED BY <1>2 DEF CountersCountTheirOwn, CounterOwn

\* A check that gives no result for want of a counter has stored one more.
THEOREM NoResultCounts == ASSUME AllAccepted PROVE Spec => NoResultStoresACounter
<1>1. HInv /\ [Next]_vars => [ResultOrCounter]_vars
  BY ResultStep
<1>2. Spec => [][ResultOrCounter]_vars
  BY <1>1, Invariance, PTL DEF Spec
<1> QED BY <1>2 DEF NoResultStoresACounter, ResultOrCounter
=============================================================================

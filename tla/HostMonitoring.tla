---------------------------- MODULE HostMonitoring --------------------------
(***************************************************************************)
(* One host over several check cycles, for one module of the agent at a    *)
(* time: the agent makes the calls of the module one after the other while *)
(* the device may change or fail to answer, prints a section, and Checkmk  *)
(* discovers services and checks them.  What a module asks, prints and     *)
(* makes of it is in a module of its own; the modules bgp and ipsec have   *)
(* state machines of their own.                                            *)
(***************************************************************************)
EXTENDS OspfNeighbours, VrrpInstances, FileAges, HealthSensors, SystemInfo,
    IpPools, UpsUnits, WifiNetworks, WireGuardPeers, FirewallRules

CONSTANTS
    Rulesets,  \* function from the modules monitored to the rules of their checks
    MaxCycles  \* function from the modules monitored to a bound on their check cycles

\* The modules with a section and checks of the form modelled here.
Modules ==
    {"ospf", "vrrp", "file", "health", "board", "license", "ntp", "pools", "ups", "wifi",
     "wireguard", "firewall"}

ASSUME ModulesMonitored ==
    /\ DOMAIN Rulesets \subseteq Modules
    /\ \A m \in DOMAIN Rulesets : MaxCycles[m] \in Nat \ {0}

\* A call that failed is told from every answer of a monitor call.
ASSUME FailedIsNoAnswer == Failed \notin UpsAnswers

VARIABLES
    module,   \* the module that is asked for
    rule,     \* the rule that applies to its check
    device,   \* what the device would answer now
    asked,    \* the agent: call -> reply, for the calls made in this cycle
    faulty,   \* a call failed that the device could have answered
    changed,  \* the device changed in this cycle
    section,  \* the agent: <<section>>, or <<>> if there is none
    results,  \* Checkmk: service -> result of this cycle
    store,    \* Checkmk: the value store, counter -> what it counted
    phase,    \* "asking", "section", "checked"
    cycle     \* number of the check cycle

vars == <<module, rule, device, asked, faulty, changed, section, results, store, phase, cycle>>

config == <<module, rule>>

-----------------------------------------------------------------------------
(* What the modules say.                                                   *)

Devices ==
    CASE module = "ospf" -> OspfDevices
      [] module = "vrrp" -> VrrpDevices
      [] module = "file" -> FileDevices
      [] module = "health" -> HealthDevices
      [] module = "board" -> Boards
      [] module = "license" -> Licenses
      [] module = "ntp" -> Clocks
      [] module = "pools" -> PoolDevices
      [] module = "ups" -> UpsDevices
      [] module = "wifi" -> WifiDevices
      [] module = "wireguard" -> WireguardDevices
      [] module = "firewall" -> FirewallDevices

\* The calls of a run, as far as the replies so far decide them.
Calls ==
    CASE module = "board" -> BoardCalls
      [] module = "pools" -> PoolCalls(asked)
      [] module = "ups" -> UpsCalls(asked)
      [] module = "wifi" -> WifiCalls(asked)
      [] OTHER -> <<"print">>

\* What a device dev answers.
Reply(call, dev) ==
    CASE module = "board" -> BoardReply(call, dev)
      [] module = "pools" -> PoolReply(call, dev)
      [] module = "ups" -> UpsReply(call, dev)
      [] module = "wifi" -> WifiReply(call, dev)
      [] OTHER -> dev

Sections ==
    CASE module = "ospf" -> {OspfSection(asked)}
      [] module = "vrrp" -> {VrrpSection(asked)}
      [] module = "file" -> {FileSection(asked)}
      [] module = "health" -> {HealthSection(asked)}
      [] module = "board" -> {BoardSection(asked)}
      [] module = "license" -> {LicenseSection(asked)}
      [] module = "ntp" -> {NtpSection(asked)}
      [] module = "pools" -> {PoolSection(asked)}
      [] module = "ups" -> {UpsSection(asked)}
      [] module = "wifi" -> {WifiSection(asked)}
      [] module = "wireguard" -> {WireguardSection(asked)}
      [] module = "firewall" -> FirewallSections(asked)

Discovered(sec) ==
    CASE module = "ospf" -> OspfDiscovered(sec)
      [] module = "vrrp" -> VrrpDiscovered(sec)
      [] module = "file" -> FileDiscovered(sec)
      [] module = "health" -> HealthDiscovered(sec)
      [] module = "board" -> BoardDiscovered(sec)
      [] module = "license" -> LicenseDiscovered(sec)
      [] module = "ntp" -> NtpDiscovered(sec)
      [] module = "pools" -> PoolDiscovered(sec)
      [] module = "ups" -> UpsDiscovered(sec)
      [] module = "wifi" -> WifiDiscovered(sec)
      [] module = "wireguard" -> WireguardDiscovered(sec)
      [] module = "firewall" -> FirewallDiscovered(sec)

Outcome(item, sec) ==
    CASE module = "ospf" -> OspfCheck(item, rule, sec)
      [] module = "vrrp" -> VrrpCheck(item, sec)
      [] module = "file" -> FileCheck(item, rule, sec)
      [] module = "health" -> HealthCheck(item, rule, sec)
      [] module = "board" -> BoardCheck(rule, sec)
      [] module = "license" -> LicenseCheck(rule, sec)
      [] module = "ntp" -> NtpCheck(rule, sec)
      [] module = "pools" -> PoolCheck(item, rule, sec)
      [] module = "ups" -> UpsCheck(item, rule, sec)
      [] module = "wifi" -> WifiCheck(item, rule, sec)
      [] module = "wireguard" -> WireguardCheck(item, rule, sec)
      [] module = "firewall" -> FirewallCheck(item, sec, store)

\* Counters written by the check of an item.
Stores(item, sec) ==
    CASE module = "wireguard" -> WireguardStores(item, sec)
      [] module = "firewall" -> FirewallStores(item, sec, store)
      [] OTHER -> NoFields

\* The counters all checks write; each counter names its item.
Written(sec) ==
    [c \in UNION {DOMAIN Stores(item, sec) : item \in DOMAIN results} |->
        Stores(c[1], sec)[c]]

-----------------------------------------------------------------------------
(* The device.                                                             *)

\* The calls still to be made, and the next of them.
Due == {k \in DOMAIN Calls : Calls[k] \notin DOMAIN asked}
NextCall == Calls[Min(Due)]

\* Bounds: one change in a cycle, none before the first call (Init has chosen) and
\* none after the last one of a cycle (the next cycle begins with one).  A device
\* keeps its wireless driver.
Change ==
    /\ phase = "asking" /\ ~changed
    /\ Due # {} /\ (cycle > 1 \/ DOMAIN asked # {})
    /\ device' \in Devices \ {device}
    /\ module = "wifi" => device'.driver = device.driver
    /\ changed' = TRUE
    /\ UNCHANGED <<config, asked, faulty, section, results, store, phase, cycle>>

-----------------------------------------------------------------------------
(* The agent.                                                              *)

\* The next call and its answer.
Ask ==
    /\ phase = "asking" /\ Due # {}
    /\ asked' = Field(NextCall, Reply(NextCall, device)) ++ asked
    /\ UNCHANGED <<config, device, faulty, changed, section, results, store, phase, cycle>>

\* Bound: one call in a cycle fails.
AskInVain ==
    /\ phase = "asking" /\ Due # {} /\ ~faulty
    /\ Reply(NextCall, device) # Failed
    /\ asked' = Field(NextCall, Failed) ++ asked
    /\ faulty' = TRUE
    /\ UNCHANGED <<config, device, changed, section, results, store, phase, cycle>>

PrintSection ==
    /\ phase = "asking" /\ Due = {}
    /\ section' \in Sections
    /\ phase' = "section"
    /\ UNCHANGED <<config, device, asked, faulty, changed, results, store, cycle>>

-----------------------------------------------------------------------------
(* Checkmk.                                                                *)

\* Discovery is run by hand or at times, and keeps the services there are.
Discover ==
    /\ phase = "section" /\ section # <<>>
    /\ ~(Discovered(section[1]) \subseteq DOMAIN results)
    /\ results' = results ++ [item \in Discovered(section[1]) |-> "pending"]
    /\ UNCHANGED <<config, device, asked, faulty, changed, section, store, phase, cycle>>

\* A check is not run when its section is missing.
CheckServices ==
    /\ phase = "section"
    /\ results' = [item \in DOMAIN results |->
                      IF section = <<>> THEN "stale" ELSE Outcome(item, section[1])]
    /\ store' = IF section = <<>> THEN store ELSE Written(section[1]) ++ store
    /\ phase' = "checked"
    /\ UNCHANGED <<config, device, asked, faulty, changed, section, cycle>>

\* Faulty variant: results stay until they are replaced.
NextCycleKeepsResults ==
    /\ phase = "checked" /\ cycle < MaxCycles[module]
    /\ cycle' = cycle + 1 /\ phase' = "asking"
    /\ asked' = NoFields /\ section' = <<>> /\ faulty' = FALSE /\ changed' = FALSE
    /\ UNCHANGED <<config, device, results, store>>

NextCycle ==
    /\ phase = "checked" /\ cycle < MaxCycles[module]
    /\ cycle' = cycle + 1 /\ phase' = "asking"
    /\ asked' = NoFields /\ section' = <<>> /\ faulty' = FALSE /\ changed' = FALSE
    /\ results' = [item \in DOMAIN results |-> "pending"]
    /\ UNCHANGED <<config, device, store>>

-----------------------------------------------------------------------------
Init ==
    /\ module \in DOMAIN Rulesets /\ rule \in Rulesets[module]
    /\ device \in Devices
    /\ asked = NoFields /\ section = <<>> /\ results = NoFields /\ store = NoFields
    /\ faulty = FALSE /\ changed = FALSE
    /\ phase = "asking" /\ cycle = 1

Next ==
    Change \/ Ask \/ AskInVain \/ PrintSection \/ Discover \/ CheckServices \/ NextCycle

Spec == Init /\ [][Next]_vars

-----------------------------------------------------------------------------
Checked == phase = "checked" /\ section # <<>>

\* What the checks can read of a rule: states, levels of the form the interface takes,
\* a fan's in any form and a file's only in the bare one, and a version that is a number.
StateKeys ==
    {"firmware_upgrade_pending", "free_state", "limited_upgrades_state", "no_handshake_state",
     "disabled_state", "not_synced_state", "on_battery_state", "low_battery_state",
     "replace_battery_state", "overload_state", "no_data_state", "interface_down_state"}

LevelKeys ==
    {"handshake_age", "offset_levels", "stratum_upper", "used_percent_upper", "free_lower",
     "battery_charge_lower", "runtime_lower", "load_upper", "temperature_upper", "clients_upper",
     "clients_lower", "signal_avg_lower", "signal_min_lower"}

Accepted(r) ==
    /\ \A key \in StateKeys \cap DOMAIN r : r[key] \in {"OK", "WARN", "CRIT", "UNKNOWN"}
    /\ \A key \in LevelKeys \cap DOMAIN r : r[key].shape \in {"fixed", "no_levels"}
    /\ "lower" \in DOMAIN r => r.lower.shape \in {"fixed", "no_levels", "tuple"}
    /\ "file_age" \in DOMAIN r => r.file_age.shape = "tuple"
    /\ "min_version" \in DOMAIN r => r.min_version \in Int

AllAccepted == \A m \in DOMAIN Rulesets : \A r \in Rulesets[m] : Accepted(r)

\* The lower levels of a fan: none, or a critical one that a fan can undercut.
Limits(levels) ==
    levels = NoLevels \/ (levels.shape \in {"fixed", "tuple"} /\ levels.crit \in Nat \ {0})

FanLimits ==
    "health" \in DOMAIN Rulesets =>
        \A r \in Rulesets["health"] : "lower" \in DOMAIN r => Limits(r.lower)

\* Every variable stays within its range, and no result outlives its cycle.
TypeOK ==
    /\ rule \in Rulesets[module]
    /\ device \in Devices
    /\ DOMAIN asked \subseteq ToSet(Calls)
    /\ Len(section) <= 1
    /\ \A item \in DOMAIN results :
          IF phase = "checked" THEN results[item] \in ToSet(Severity) \cup {"stale"}
          ELSE results[item] = "pending"
    /\ phase \in {"asking", "section", "checked"} /\ cycle \in 1 .. MaxCycles[module]

\* A neighbor is judged by the states of its own rows and CRIT without one: however
\* rows without a router-id lie between them, provided those with one have a state.
NeighboursJudgedByOwnRows ==
    (module = "ospf" /\ Checked) =>
        LET rows == {r \in ToSet(RowsOf(asked.print)) : "router-id" \in DOMAIN r}
            own(id) == {r \in rows : r["router-id"] = id}
            okStates == Params(rule, OspfDefaults).ok_states
        IN (\A r \in rows : "state" \in DOMAIN r) =>
              \A id \in DOMAIN results :
                 results[id] = IF own(id) = {} THEN "CRIT"
                               ELSE Worst({Judgement(r.state, okStates) : r \in own(id)})

\* The rows whose names begin with a word, which is all the agent's lines keep of a name.
OwnRows(word) == {r \in ToSet(RowsOf(asked.print)) : r.name[1] = word}

\* An enabled instance is in its role as a running master or a backup that does not run.
InRole(r) ==
    /\ "disabled" \in DOMAIN r /\ ~r.disabled
    /\ IF r.running THEN r.master ELSE r.backup

\* A VRRP service is OK only for an instance of its name that is in its role as a whole,
\* never for fields of several, and it is OK if every instance of that name is.
VrrpOkIsOwnRole ==
    (module = "vrrp" /\ Checked) =>
        \A item \in DOMAIN results :
            /\ results[item] = "OK" => \E r \in OwnRows(item) : InRole(r)
            /\ (OwnRows(item) # {} /\ \A r \in OwnRows(item) : InRole(r))
                  => results[item] = "OK"

\* A file is judged by the times of one row of its name and of no other, UNKNOWN without
\* one; if the list was read, the watchdog's file is CRIT if and only if the list has it.
FilesJudgedByOwnRows ==
    (module = "file" /\ Checked) =>
        \A item \in DOMAIN results :
            IF item = Watchdog
            THEN asked.print # Failed => (results[item] = "CRIT" <=> OwnRows(item) # {})
            ELSE \/ OwnRows(item) = {} /\ results[item] = "UNKNOWN"
                 \/ \E r \in OwnRows(item) :
                        results[item] = JudgedFile(r, Params(rule, FileDefaults))

\* A fan that had a service while it turned is CRIT once it stands still: the filter
\* of the discovery never hides it from the check.
StoppedFanIsReported ==
    (module = "health" /\ Checked /\ ("lower" \in DOMAIN rule => rule.lower # NoLevels)) =>
        \A item \in DOMAIN results \cap {<<"fan", "fan1">>} :
            (asked.print # Failed /\ "fan1-speed" \in DOMAIN asked.print.readings
               /\ asked.print.readings["fan1-speed"] = 0) => results[item] = "CRIT"

\* From 100 mA on a current reaches the check as the device measured it, whether the
\* agent multiplied it or not.
CurrentSurvivesUnits ==
    (module = "health" /\ Checked /\ asked.print # Failed) =>
        \A name \in Amperes \cap DOMAIN asked.print.readings :
            asked.print.readings[name] >= 100 =>
                section[1].power[Supply[name][1]]["current"] = asked.print.readings[name]

\* What the calls that were answered say bears an OK out: a board whose version was read
\* is not below the minimum, one whose firmware was read has none waiting; a clock is
\* synchronized and really off by less than 0.2 s, as far as it says; a license is one.
InfoOkIsReal ==
    (Checked /\ DOMAIN rule \subseteq {"min_version"}) =>
        \A item \in DOMAIN results : results[item] = "OK" =>
            CASE module = "board" ->
                    /\ (asked.print # Failed /\ "min_version" \in DOMAIN rule
                          /\ rule.min_version > 0) => asked.print.version >= rule.min_version
                    /\ (asked.routerboard \notin {Failed, NoFields}) =>
                          ~InfoBelow(asked.routerboard["rb-current-firmware"],
                                      asked.routerboard["rb-upgrade-firmware"])
              [] module = "ntp" ->
                    /\ asked.print # Failed /\ asked.print.enabled
                    /\ asked.print.status = "synchronized"
                    /\ asked.print.offset.unit = "other" \/ asked.print.offset.real < 200000000
              [] module = "license" ->
                    asked.print # Failed /\ "system-id" \in DOMAIN asked.print
                    /\ asked.print.level # "free"
              [] OTHER -> TRUE

\* A pool is OK only while less than 80 % of it is in use: whether the device reports
\* the number, the agent counts it or could not count it.
PoolOkIsReal ==
    (module = "pools" /\ Checked /\ ~changed /\ "used_percent_upper" \notin DOMAIN rule) =>
        \A pool \in ToSet(device) :
            (pool.name \in DOMAIN results /\ results[pool.name] = "OK") =>
                100 * pool.leases < 80 * pool.size

\* A UPS is judged by its own monitor call: CRIT on battery or without an answer, OK if
\* all is well, whatever the calls for other UPS returned.
UpsJudgedByOwnMonitor ==
    (module = "ups" /\ Checked /\ rule = NoFields) =>
        \A ups \in {u \in ToSet(asked.print) : ~u.disabled /\ u.name \in DOMAIN results} :
            LET answer == asked[ups.name] IN
            /\ (answer \in {Failed, NoFields, OnBattery, NotOnLine}) =>
                  results[ups.name] = "CRIT"
            /\ answer = OnLine => results[ups.name] = "OK"

\* The radios and the clients the device listed, under whatever driver.
Listed(menu) ==
    FlattenSeq([k \in DOMAIN Sources |-> RowsIn(asked, Sources[k][1], menu)])

\* The SSID of a radio as far as the profiles could be read.
KnownSsid(radio) == SsidOf(radio, Listed("config"))

\* An enabled radio that is down, under CAPsMAN or not, keeps its SSID from being OK,
\* even if other radios of that SSID are up.
DownRadioIsReported ==
    (module = "wifi" /\ Checked /\ "interface_down_state" \notin DOMAIN rule) =>
        \A radio \in {r \in ToSet(Listed("ifaces")) : ~r.disabled} :
            (/\ radio.link \in {Local(FALSE), Bound(TRUE, TRUE)}
             /\ KnownSsid(radio) \in DOMAIN results)
            => results[KnownSsid(radio)] # "OK"

\* Every client whose SSID can be told, from its row or from its radio, counts for
\* exactly one SSID.
ClientsCountedOnce ==
    (module = "wifi" /\ Checked) =>
        LET radios == {r \in ToSet(Listed("ifaces")) : ~r.disabled /\ KnownSsid(r) # ""}
            rows == Listed("clients")
            known(c) == c.ssid # "" \/ \E r \in radios : r.name = c.radio
        IN MapThenSumSet(LAMBDA ssid : section[1][ssid].clients, DOMAIN section[1])
              = Cardinality({k \in DOMAIN rows : known(rows[k])})

\* No rule a form stores, made new or migrated, and no answer of a device makes a
\* check fail.
NoCheckCrashes == \A item \in DOMAIN results : results[item] # "crash"

\* No rule and no answer makes a check fail, but for a VRRP instance whose row does not
\* say whether it is disabled.
CrashesOnlyWithoutDisabled ==
    \A item \in DOMAIN results : results[item] = "crash" =>
        /\ module = "vrrp"
        /\ \E r \in OwnRows(item) : "disabled" \notin DOMAIN r

\* An enabled peer with an item of its own is never OK, and never without a result,
\* when it had no handshake or an old one.
DeadPeerIsNotOk ==
    (module = "wireguard" /\ Checked /\ rule = NoFields) =>
        \A row \in ToSet(asked.print) :
            LET item == PeerItem(row) IN
            (/\ ~row.disabled
             /\ \A r \in ToSet(asked.print) : PeerItem(r) = item => r = row
             /\ row.handshake \notin {Recent}
             /\ item \in DOMAIN results)
            => results[item] \in {"WARN", "CRIT"}

\* A counter that is written is that of a rule or peer with that item in this very
\* reply, in whatever order the rules come out of the set.
CountersCountTheirOwn ==
    [][\A c \in DOMAIN store' :
          \/ c \in DOMAIN store /\ store'[c] = store[c]
          \/ IF module = "wireguard"
             THEN \E r \in ToSet(asked.print) : PeerItem(r) = c[1] /\ r.key = store'[c]
             ELSE \E r \in ToSet(asked.print.rows) :
                     RuleItem(r.comment) = c[1] /\ r.id = store'[c]]_vars

\* A check that gives no result for want of an earlier counter has stored one more of
\* its two counters: a service goes without a result at most twice in its life.
NoResultStoresACounter ==
    [][\A item \in DOMAIN results' : results'[item] = "ignored" =>
          \E c \in DOMAIN store' \ DOMAIN store : c[1] = item]_vars

-----------------------------------------------------------------------------
(* What the manual pages of the checks say, and the code does not do.      *)

\* Rows with different names.
DifferentNames(rows) == \A r, s \in rows : r.name = s.name => r = s

\* "One service per VRRP instance of the device": every enabled instance has one.
OneServicePerInstance ==
    (module = "vrrp" /\ section # <<>>) =>
        LET rows == ToSet(RowsOf(asked.print)) IN
        DifferentNames(rows) =>
            Cardinality(VrrpDiscovered(section[1]))
              = Cardinality({r \in rows : "disabled" \in DOMAIN r /\ ~r.disabled})

\* "One service per file", next to that of the watchdog's file.
OneServicePerFile ==
    (module = "file" /\ section # <<>>) =>
        LET rows == ToSet(RowsOf(asked.print)) IN
        DifferentNames(rows) =>
            Cardinality(FileDiscovered(section[1]) \ {Watchdog})
              = Cardinality({r \in rows : r.type # "directory" /\ r.name # <<Watchdog>>})

\* The watchdog's file "is OK if missing and CRIT on existing": a device that has it
\* during the whole cycle is reported.
WatchdogFileIsCrit ==
    (/\ module = "file" /\ Checked /\ ~changed /\ Watchdog \in DOMAIN results
     /\ \E r \in ToSet(device) : r.name = <<Watchdog>>)
    => results[Watchdog] = "CRIT"

\* "If a minimum RouterOS version is defined, the check goes WARN if the installed
\* version is below it": a device below it during the whole cycle is never OK.
OldVersionIsReported ==
    (module = "board" /\ Checked /\ ~changed /\ "min_version" \in DOMAIN rule) =>
        \A item \in DOMAIN results :
            (rule.min_version > 0 /\ InfoBelow(device.version, rule.min_version))
            => results[item] # "OK"
=============================================================================

----------------------------- MODULE WifiNetworks ---------------------------
(***************************************************************************)
(* "WiFi" services, one per SSID: the menus of three wireless drivers, of  *)
(* which the device knows those of its own, radios that name their SSID or *)
(* a profile, clients of the registration table, and the check of one SSID.*)
(***************************************************************************)
EXTENDS CheckApi

\* WIFI_SOURCES: driver and menus, in the order they are asked for.
Sources == << <<"wifi", {"caps", "config"}>>, <<"wireless", {}>>, <<"capsman", {"caps", "config"}>> >>

\* A radio under CAPsMAN is never "running" on the controller.
Local(running) == [running |-> running]
Bound(bound, inactive) == [running |-> FALSE, bound |-> bound, inactive |-> inactive]

Radio(name, ssid, profile, disabled, link) ==
    [name |-> name, ssid |-> ssid, profile |-> profile, disabled |-> disabled, link |-> link]
Client(radio, ssid, signals) == [radio |-> radio, ssid |-> ssid, signals |-> signals]

Wifi(driver, links, disabled, clients) ==
    [driver |-> driver,
     ifaces |-> <<Radio("r1", "guest", "", FALSE, links[1]),
                  Radio("r2", IF driver = "wireless" THEN "office" ELSE "", "cfg", disabled,
                        links[2]),
                  Radio("r3", "guest", "", FALSE, links[3])>>,
     config |-> <<[name |-> "cfg", ssid |-> "office"]>>,
     clients |-> clients,
     caps |-> IF driver = "capsman" THEN <<"ap1">> ELSE <<>>]

UpLink(driver) == IF driver = "wireless" THEN Local(TRUE) ELSE Bound(TRUE, FALSE)
DownLink(driver) == IF driver = "wireless" THEN Local(FALSE) ELSE Bound(TRUE, TRUE)

\* Clients whose row names the SSID, and clients found through their radio.
Registrations ==
    {<<>>, <<Client("r1", "", {-60}), Client("r2", "", {-85}), Client("r3", "guest", {})>>}

\* All radios up, one or the other down, and one down because it is disabled.
Scenes(up, down) ==
    {<<<<up, up, up>>, FALSE>>, <<<<down, up, up>>, FALSE>>, <<<<up, down, up>>, FALSE>>,
     <<<<up, down, up>>, TRUE>>}

DevicesOf(driver) ==
    {Wifi(driver, radios[1], radios[2], clients) :
        radios \in Scenes(UpLink(driver), DownLink(driver)), clients \in Registrations}

WifiDevices == UNION {DevicesOf(driver) : driver \in {"wifi", "wireless", "capsman"}}

\* The menus of other drivers answer with a trap.
WifiReply(call, device) ==
    IF call[1] # device.driver THEN Failed
    ELSE CASE call[2] = "caps" -> device.caps
           [] call[2] = "ifaces" -> device.ifaces
           [] call[2] = "config" -> device.config
           [] call[2] = "clients" -> device.clients

\* wifi_lines: a driver without interfaces is left at that.
CallsOf(source, asked) ==
    LET driver == source[1]
        asks(menu) == IF menu \in source[2] THEN <<<<driver, menu>>>> ELSE <<>>
        ifaces == <<driver, "ifaces">>
    IN asks("caps") \o <<ifaces>>
       \o IF ifaces \in DOMAIN asked /\ asked[ifaces] # Failed
          THEN asks("config") \o <<<<driver, "clients">>>> ELSE <<>>

WifiCalls(asked) == FlattenSeq([k \in DOMAIN Sources |-> CallsOf(Sources[k], asked)])

\* Faulty variant: a radio bound to the controller is up.
UpWhenBound(radio) ==
    IF "bound" \in DOMAIN radio.link THEN radio.link.bound ELSE radio.link.running

Up(radio) ==
    IF "bound" \in DOMAIN radio.link THEN radio.link.bound /\ ~radio.link.inactive
    ELSE radio.link.running

RowsIn(asked, driver, menu) ==
    IF <<driver, menu>> \in DOMAIN asked THEN RowsOf(asked[<<driver, menu>>]) ELSE <<>>

\* The SSID of a radio: its own, or that of its profile, or none.
SsidOf(radio, profiles) ==
    LET named == {p \in ToSet(profiles) : p.name = radio.profile}
    IN CASE radio.ssid # "" -> radio.ssid
         [] radio.ssid = "" /\ named # {} -> (CHOOSE p \in named : TRUE).ssid
         [] OTHER -> ""

\* The iface lines of a driver; disabled interfaces have none.
WifiLine(radio, profiles) ==
    [name |-> radio.name, up |-> Up(radio), ssid |-> SsidOf(radio, profiles)]

IfaceLines(asked, driver) ==
    LET rows == RowsIn(asked, driver, "ifaces")
        profiles == RowsIn(asked, driver, "config")
    IN FlattenSeq([k \in DOMAIN rows |->
           IF rows[k].disabled THEN <<>> ELSE <<WifiLine(rows[k], profiles)>>])

\* The client lines: a row without an SSID has that of its radio.
ClientLines(asked, driver) ==
    LET rows == RowsIn(asked, driver, "clients")
        radios(name) == {r \in ToSet(IfaceLines(asked, driver)) : r.name = name}
    IN [k \in DOMAIN rows |->
           [rows[k] EXCEPT !.ssid =
               IF @ # "" \/ radios(rows[k].radio) = {} THEN @
               ELSE (CHOOSE r \in radios(rows[k].radio) : TRUE).ssid]]

\* A client line without an SSID is tried once more with the radios of every driver.
ClientSsid(ifaces, client) ==
    LET k == SelectLastInSeq(ifaces, LAMBDA r : r.name = client.radio /\ r.ssid # "")
    IN IF client.ssid # "" \/ k = 0 THEN client.ssid ELSE ifaces[k].ssid

Ssids(ifaces, clients) ==
    ({r.ssid : r \in ToSet(ifaces)} \cup {ClientSsid(ifaces, c) : c \in ToSet(clients)}) \ {""}

\* Faulty variant: a client counts once its signal is read.
GroupedHeard(ifaces, clients) ==
    [ssid \in Ssids(ifaces, clients) |->
        LET heard == SelectSeq(clients,
                               LAMBDA c : ClientSsid(ifaces, c) = ssid /\ c.signals # {})
        IN [radios |-> {r \in ToSet(ifaces) : r.ssid = ssid}, clients |-> Len(heard),
            signals |-> [k \in DOMAIN heard |-> CHOOSE s \in heard[k].signals : TRUE]]]

\* parse_mikrotik_wifi: radios and clients grouped by SSID; lines without one are lost.
Grouped(ifaces, clients) ==
    [ssid \in Ssids(ifaces, clients) |->
        LET own == {k \in DOMAIN clients : ClientSsid(ifaces, clients[k]) = ssid}
            heard == SelectSeq(clients,
                               LAMBDA c : ClientSsid(ifaces, c) = ssid /\ c.signals # {})
        IN [radios |-> {r \in ToSet(ifaces) : r.ssid = ssid}, clients |-> Cardinality(own),
            signals |-> [k \in DOMAIN heard |-> CHOOSE s \in heard[k].signals : TRUE]]]

WifiSection(asked) ==
    LET over(Lines(_, _)) == FlattenSeq([k \in DOMAIN Sources |-> Lines(asked, Sources[k][1])])
        caps == FlattenSeq([k \in DOMAIN Sources |-> RowsIn(asked, Sources[k][1], "caps")])
    IN IF over(IfaceLines) \o over(ClientLines) = <<>> /\ caps = <<>> THEN <<>>
       ELSE <<Grouped(over(IfaceLines), over(ClientLines))>>

WifiDiscovered(section) == DOMAIN section

\* Of the levels only interface_down_state has a default.
WifiDefaults == [interface_down_state |-> "WARN"]

WifiAbove(value, p, key) == IF key \in DOMAIN p THEN Upper(value, p[key]) ELSE "OK"
WifiBelow(value, p, key) == IF key \in DOMAIN p THEN Lower(value, p[key]) ELSE "OK"

\* The levels of the average are whole numbers: the quotient may be rounded down.
Signals(signals, p) ==
    IF signals = <<>> THEN "OK"
    ELSE Worst({WifiBelow(FoldLeft(+, 0, signals) \div Len(signals), p, "signal_avg_lower"),
                WifiBelow(Min(ToSet(signals)), p, "signal_min_lower")})

\* An SSID that is gone yields nothing.
WifiCheck(item, rule, section) ==
    LET p == Params(rule, WifiDefaults)
        ssid == section[item]
    IN IF item \notin DOMAIN section THEN Worst({})
       ELSE Worst({WifiAbove(ssid.clients, p, "clients_upper"),
                   WifiBelow(ssid.clients, p, "clients_lower"),
                   Signals(ssid.signals, p),
                   IF \E r \in ssid.radios : ~r.up THEN p.interface_down_state ELSE "OK"})
=============================================================================

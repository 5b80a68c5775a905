------------------------------- MODULE UpsUnits -----------------------------
(***************************************************************************)
(* "UPS" services: one call for the list, one monitor call for every UPS   *)
(* in it that is not disabled, and the check of what the monitor said.     *)
(***************************************************************************)
EXTENDS CheckApi

Ups(name, disabled, monitor) == [name |-> name, disabled |-> disabled, monitor |-> monitor]

\* A runtime: numbers with units, and a clock h:m:s at the end or none.
Runtime(parts, clock) == [parts |-> parts, clock |-> clock]

OnLine == Field("on-line", TRUE) ++ Field("battery-charge", 100)
          ++ Field("runtime-left", Runtime(<<<<20, "m">>>>, <<>>))
OnBattery == Field("on-battery", TRUE) ++ Field("battery-charge", 80) ++ Field("load", 79)
NotOnLine == Field("on-line", FALSE) ++ Field("battery-charge", 50)
Weak == Field("on-line", TRUE) ++ Field("replace-battery", TRUE) ++ Field("temperature", 41)
LowRuntime == Field("on-line", TRUE) ++ Field("runtime-left", Runtime(<<>>, <<0, 4, 59>>))

UpsAnswers == {OnLine, OnBattery, NotOnLine, Weak, LowRuntime, NoFields}

\* A UPS that answers nothing has an empty monitor row.
UpsPair(disabled, m1, m2) == <<Ups("u1", disabled, m1), Ups("u2", FALSE, m2)>>
UpsDevices ==
    {UpsPair(disabled, m1, m2) : disabled \in BOOLEAN, m1 \in {OnLine, NotOnLine, Weak, NoFields},
                                 m2 \in {OnLine, OnBattery, LowRuntime}}

UpsReply(call, device) ==
    IF call = "print"
    THEN [k \in DOMAIN device |-> [name |-> device[k].name, disabled |-> device[k].disabled]]
    ELSE LET ups == CHOOSE u \in ToSet(device) : u.name = call
         IN IF ups.disabled THEN NoFields ELSE ups.monitor

Monitored(rows) ==
    FlattenSeq([k \in DOMAIN rows |-> IF rows[k].disabled THEN <<>> ELSE <<rows[k].name>>])

\* ups_lines: the calls in their order.
UpsCalls(asked) ==
    <<"print">> \o (IF "print" \in DOMAIN asked THEN Monitored(RowsOf(asked.print)) ELSE <<>>)

\* Faulty variant: the k-th answer belongs to the k-th UPS of the list.
MonitorByPosition(rows, name, asked) ==
    LET k == CHOOSE m \in DOMAIN rows : rows[m].name = name
    IN IF k > Len(Monitored(rows)) THEN NoFields
       ELSE LET reply == asked[Monitored(rows)[k]]
            IN IF reply = Failed THEN NoFields ELSE reply

\* The mon lines of a UPS; none if it is disabled or the call failed.
Monitor(rows, name, asked) ==
    IF name \notin ToSet(Monitored(rows)) \/ asked[name] = Failed THEN NoFields ELSE asked[name]

UpsSection(asked) ==
    LET rows == RowsOf(asked.print)
        row(name) == CHOOSE r \in ToSet(rows) : r.name = name
    IN IF rows = <<>> THEN <<>>
       ELSE <<[name \in {r.name : r \in ToSet(rows)} |->
                  [disabled |-> row(name).disabled, monitor |-> Monitor(rows, name, asked)]]>>

UpsDiscovered(section) == {name \in DOMAIN section : ~section[name].disabled}

UpsUnit == [w |-> 604800, d |-> 86400, h |-> 3600, m |-> 60, s |-> 1]

PartSeconds(part) == IF part[2] = "ms" THEN 0 ELSE part[1] * UpsUnit[part[2]]

UpsClockSeconds(clock) ==
    IF clock = <<>> THEN 0 ELSE 3600 * clock[1] + 60 * clock[2] + clock[3]

UpsInSeconds(parts, start) == FoldLeft(LAMBDA sum, part : sum + PartSeconds(part), start, parts)

\* runtime_seconds: the clock and the parts together, milliseconds left out.
RuntimeSeconds(text) == UpsInSeconds(text.parts, UpsClockSeconds(text.clock))

UpsDefaults ==
    [on_battery_state |-> "CRIT", low_battery_state |-> "CRIT", replace_battery_state |-> "WARN",
     overload_state |-> "WARN", no_data_state |-> "CRIT", battery_charge_lower |-> Fixed(50, 25),
     runtime_lower |-> Fixed(600, 300), load_upper |-> Fixed(80, 90)]

Flag(mon, key) == key \in DOMAIN mon /\ mon[key]

RunsOnBattery(mon) ==
    Flag(mon, "on-battery") \/ ("on-line" \in DOMAIN mon /\ ~Flag(mon, "on-line"))

Flags(mon, p) ==
    {IF RunsOnBattery(mon) THEN p.on_battery_state ELSE "OK",
     IF Flag(mon, "low-battery") THEN p.low_battery_state ELSE "OK",
     IF Flag(mon, "replace-battery") THEN p.replace_battery_state ELSE "OK",
     IF Flag(mon, "overload") \/ Flag(mon, "overloaded-output") THEN p.overload_state ELSE "OK"}

\* temperature has no default levels.
Measured(mon, p) ==
    {IF "battery-charge" \in DOMAIN mon
        THEN Lower(mon["battery-charge"], p.battery_charge_lower) ELSE "OK",
     IF "runtime-left" \in DOMAIN mon
        THEN Lower(RuntimeSeconds(mon["runtime-left"]), p.runtime_lower) ELSE "OK",
     IF "load" \in DOMAIN mon THEN Upper(mon["load"], p.load_upper) ELSE "OK",
     IF "temperature" \in DOMAIN mon /\ "temperature_upper" \in DOMAIN p
        THEN Upper(mon["temperature"], p.temperature_upper) ELSE "OK"}

\* A UPS that is gone yields nothing.
UpsCheck(item, rule, section) ==
    LET mon == section[item].monitor
        p == Params(rule, UpsDefaults)
    IN CASE item \notin DOMAIN section -> Worst({})
         [] item \in DOMAIN section /\ DOMAIN mon = {} -> p.no_data_state
         [] OTHER -> Worst(Flags(mon, p) \cup Measured(mon, p))
=============================================================================

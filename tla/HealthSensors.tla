---------------------------- MODULE HealthSensors ---------------------------
(***************************************************************************)
(* /system/health/print as four checks: the agent sorts the readings into  *)
(* sections by what their names contain, RouterOS 7 currents times 1000,   *)
(* and each parser takes the prefix of a name for the fan or power supply. *)
(* Currents and voltages are in thousandths, states are strings.           *)
(***************************************************************************)
EXTENDS CheckApi

\* The names a device may use, the words of interest they contain, and the part
\* before the first "-".
Words ==
    Field("fan1-speed", {"fan", "speed"}) ++ Field("fan-state", {"fan", "state"})
    ++ Field("psu1-state", {"psu", "state"}) ++ Field("psu1-current", {"psu", "current"})
    ++ Field("psu1-voltage", {"psu", "voltage"}) ++ Field("current", {"current"})
    ++ Field("voltage", {"voltage"}) ++ Field("power-consumption", {"power"})
    ++ Field("poe-out-consumption", {})

Prefix == Field("fan1-speed", "fan1") ++ Field("psu1-state", "psu1")
Supply ==
    Field("psu1-current", <<"PSU1", "current">>) ++ Field("psu1-voltage", <<"PSU1", "voltage">>)
    ++ Field("current", <<"PSU0", "current">>) ++ Field("voltage", <<"PSU0", "voltage">>)

Amperes == {"psu1-current", "current"}

Fans == {Field("fan1-speed", speed) ++ more :
            speed \in {0, 999, 1999, 2000},
            more \in {NoFields, Field("fan-state", "ok"), Field("fan-state", "fail")}}
Supplies ==
    {Field("psu1-state", state) ++ Field("psu1-current", c) ++ Field("psu1-voltage", v) :
        state \in {"ok", "fail"}, c \in {99, 100, 3000}, v \in {9999, 10000}}
    \cup {Field("current", c) ++ Field("voltage", v) ++ Field("power-consumption", 9000) :
            c \in {100, 800}, v \in {9999, 12000}}
    \cup {Field("poe-out-consumption", 7000), NoFields}

\* "whole" if every reading of RouterOS 7 comes with a type and a value.
HealthDevices ==
    [version : {6, 7}, readings : Fans \cup Supplies, whole : {TRUE}]
    \cup [version : {7}, readings : Supplies, whole : {FALSE}]

\* The agent makes milliamperes of the readings of type A that RouterOS 7 reports.
PrintedValue(reply, name) ==
    reply.readings[name] * (IF reply.version = 7 /\ name \in Amperes THEN 1000 ELSE 1)

\* The names printed in a section: those that contain its word; current and voltage
\* go to power in any case.
Named(reply, what) ==
    {name \in DOMAIN reply.readings :
        \/ what \in Words[name]
        \/ what = "power" /\ Words[name] \cap {"current", "voltage"} # {}}

ParseFan(reply) ==
    LET speeds == {n \in Named(reply, "fan") : "speed" \in Words[n]}
    IN [fan \in {Prefix[n] : n \in speeds} |->
           [speed |-> reply.readings[CHOOSE n \in speeds : Prefix[n] = fan]]]
       ++ (IF "fan-state" \in Named(reply, "fan")
           THEN Field("Status", [state |-> reply.readings["fan-state"]]) ELSE NoFields)

ParsePsu(reply) ==
    LET states == {n \in Named(reply, "psu") : "state" \in Words[n]}
    IN [psu \in {Prefix[n] : n \in states} |->
           reply.readings[CHOOSE n \in states : Prefix[n] = psu]]

\* _parse_psu_line: what looks like milliamperes is turned back into amperes.
Threshold == 100 * 1000

\* Faulty variant: 100 mA themselves are left as they are.
HealthValueAbove(name, printed) ==
    IF Supply[name][2] = "current" /\ printed > Threshold THEN printed \div 1000 ELSE printed

HealthValue(name, printed) ==
    IF Supply[name][2] = "current" /\ printed >= Threshold THEN printed \div 1000 ELSE printed

ParsePower(reply) ==
    LET metrics == Named(reply, "power") \cap DOMAIN Supply
    IN [psu \in {Supply[n][1] : n \in metrics} |->
           [metric \in {Supply[n][2] : n \in {m \in metrics : Supply[m][1] = psu}} |->
               LET name == CHOOSE n \in metrics : Supply[n] = <<psu, metric>>
               IN HealthValue(name, PrintedValue(reply, name))]]

ParsePoe(reply) == Field("consumption", reply.readings["poe-out-consumption"])

\* Only the sections of which there is a reading are printed; an error row has none.
\* A reading without a type or a value ends the agent's run with a KeyError.
HealthSection(asked) ==
    LET reply == asked.print
        printed == {what \in {"fan", "psu", "power"} : Named(reply, what) # {}}
    IN IF reply # Failed /\ ~reply.whole THEN <<>>
       ELSE IF reply = Failed \/ DOMAIN reply.readings = {} THEN <<NoFields>>
       ELSE <<[what \in printed |->
                  CASE what = "fan" -> ParseFan(reply) [] what = "psu" -> ParsePsu(reply)
                    [] what = "power" -> ParsePower(reply)]
              ++ (IF "poe-out-consumption" \in DOMAIN reply.readings
                  THEN Field("poe", ParsePoe(reply)) ELSE NoFields)>>

\* Items are pairs of the check and its item.
TurnsOrStates(fan) == "state" \in DOMAIN fan \/ fan.speed > 0
HealthDiscovered(section) ==
    UNION {{<<what, item>> : item \in {i \in DOMAIN section[what] :
               what = "fan" => TurnsOrStates(section[what][i])}} : what \in DOMAIN section}

HealthDefaults ==
    [lower |-> Fixed(2000, 1000), ok_states |-> {"ok"}, crit_voltage |-> 10]

\* Faulty variant: a speed of 0 is taken for a missing one.
CheckFanTurning(fan, p) ==
    CASE "state" \in DOMAIN fan -> IF fan.state = "ok" THEN "OK" ELSE "CRIT"
      [] "state" \notin DOMAIN fan /\ fan.speed = 0 -> "UNKNOWN"
      [] OTHER -> Lower(fan.speed, Fixed(2000, 1000))

\* Faulty variant: the levels are passed on as the rule stored them.
CheckFanAsStored(fan, p) ==
    IF "state" \in DOMAIN fan THEN IF fan.state = "ok" THEN "OK" ELSE "CRIT"
    ELSE Lower(fan.speed, p.lower)

\* check_mikrotik_fan accepts the bare pair of old rules, too.
CheckFan(fan, p) ==
    IF "state" \in DOMAIN fan THEN IF fan.state = "ok" THEN "OK" ELSE "CRIT"
    ELSE Lower(fan.speed, IF p.lower.shape = "tuple" THEN Fixed(p.lower.warn, p.lower.crit)
                          ELSE p.lower)

CheckPsu(state, p) == IF state \in p.ok_states THEN "OK" ELSE "CRIT"

\* A current has no levels; a supply without readings yields nothing.
CheckPower(psu, p) ==
    Worst((IF "voltage" \in DOMAIN psu
           THEN {IF psu.voltage < 1000 * p.crit_voltage THEN "CRIT" ELSE "OK"} ELSE {})
          \cup (IF "current" \in DOMAIN psu THEN {"OK"} ELSE {}))

\* A check without its section is not run.
HealthCheck(item, rule, section) ==
    LET p == Params(rule, HealthDefaults)
        what == item[1]
    IN CASE what \notin DOMAIN section -> "stale"
         [] what \in DOMAIN section /\ item[2] \notin DOMAIN section[what] -> "UNKNOWN"
         [] OTHER -> CASE what = "fan" -> CheckFan(section[what][item[2]], p)
                       [] what = "psu" -> CheckPsu(section[what][item[2]], p)
                       [] what = "power" -> CheckPower(section[what][item[2]], p)
                       [] what = "poe" -> "OK"
=============================================================================

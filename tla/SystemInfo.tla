------------------------------ MODULE SystemInfo ----------------------------
(***************************************************************************)
(* The services without an item that show what one print command returns:  *)
(* "RouterOS Info" (module board, with a second call for the firmware),    *)
(* "License" and "NTP Time".  A section is the fields of the one row.      *)
(***************************************************************************)
EXTENDS CheckApi

\* An error row is printed like any other: its text is a field of the section.
ErrorRow == [message |-> "no such command"]

Printed(reply) == IF reply = Failed THEN ErrorRow ELSE reply

-----------------------------------------------------------------------------
(* RouterOS Info.  Versions are numbers; 0 is "0.0", Odd cannot be parsed. *)

Odd == -1
InfoBelow(v, w) == v < w /\ Odd \notin {v, w}

\* Firmware 0: a device without a RouterBOARD.
Boards == [version : {1, 2, Odd}, current : {0, 1}, upgrade : {1, 2, Odd}]

BoardCalls == <<"print", "routerboard">>

BoardReply(call, device) ==
    CASE call = "print" -> [version |-> device.version]
      [] call = "routerboard" /\ device.current = 0 -> NoFields
      [] OTHER -> Field("rb-current-firmware", device.current)
                  ++ Field("rb-upgrade-firmware", device.upgrade)

\* An error row of /system/resource has no key that matters; a failed
\* /system/routerboard is an empty reply.
BoardFields(reply) == IF reply = Failed THEN NoFields ELSE reply

\* parse_mikrotik_board of the lines of both calls.
BoardSection(asked) == <<BoardFields(asked.print) ++ BoardFields(asked.routerboard)>>

BoardDiscovered(section) == IF "version" \in DOMAIN section THEN {"board"} ELSE {}

BoardDefaults == [min_version |-> 0, firmware_upgrade_pending |-> "WARN"]

\* The installed version is below the one asked for, or cannot be compared with it.
BelowMinimum(section, minimum) ==
    /\ "version" \in DOMAIN section /\ minimum # 0
    /\ Odd \in {section["version"], minimum} \/ InfoBelow(section["version"], minimum)

UpgradePending(section) ==
    /\ "rb-current-firmware" \in DOMAIN section
    /\ InfoBelow(section["rb-current-firmware"], section["rb-upgrade-firmware"])

BoardCheck(rule, section) ==
    LET p == Params(rule, BoardDefaults) IN
    IF DOMAIN section = {} THEN "UNKNOWN"
    ELSE Worst({IF BelowMinimum(section, p.min_version) THEN "WARN" ELSE "OK",
                IF UpgradePending(section) THEN p.firmware_upgrade_pending ELSE "OK"})

-----------------------------------------------------------------------------
(* License.  A RouterBOARD has neither system-id nor level.                *)

Licenses ==
    {[nlevel |-> 4]}
    \cup {Field("system-id", "s") ++ Field("level", level) ++ Field("limited-upgrades", limited) :
            level \in {"free", "p1"}, limited \in BOOLEAN}

LicenseSection(asked) == <<Printed(asked.print)>>

LicenseDiscovered(section) ==
    IF {"system-id", "level"} \subseteq DOMAIN section THEN {"license"} ELSE {}

LicenseDefaults == [free_state |-> "CRIT", limited_upgrades_state |-> "WARN"]

LicenseCheck(rule, section) ==
    LET p == Params(rule, LicenseDefaults) IN
    CASE "level" \notin DOMAIN section -> "UNKNOWN"
      [] "level" \in DOMAIN section /\ section.level = "free" -> p.free_state
      [] OTHER -> IF section["limited-upgrades"] THEN p.limited_upgrades_state ELSE "OK"

-----------------------------------------------------------------------------
(* NTP Time.  An offset is written as a number (in thousandths) and a unit;*)
(* "real" is the offset in nanoseconds that it stands for.  A stratum of   *)
(* -1 is one that is no number.                                            *)

Offset(number, unit, real) == [number |-> number, unit |-> unit, real |-> real]

Within == Offset(-199999, "", 199999000)
Edge == Offset(-200000, "", 200000000)
Whole == Offset(300, "s", 300000000)
Micro == Offset(200000000, "us", 200000000)
NoOffset == Offset(0, "other", 200000000)
Offsets == {Within, Edge, Whole, Micro, NoOffset}

Clocks == [enabled : BOOLEAN, status : {"synchronized", "waiting"},
           offset : Offsets, stratum : {-1, 9, 10}]

NtpSection(asked) == <<Printed(asked.print)>>

Enabled(section) == "enabled" \in DOMAIN section /\ section.enabled

NtpDiscovered(section) == IF Enabled(section) THEN {"ntp"} ELSE {}

\* Faulty variant: seconds are taken for milliseconds.
OffsetInMilliseconds(text) == text.number * (IF text.unit = "us" THEN 1 ELSE 1000)

\* offset_seconds, in nanoseconds; no unit means milliseconds, a text of another form
\* is no offset.
Scale(unit) == CASE unit \in {"", "ms"} -> 1000 [] unit = "us" -> 1 [] unit = "s" -> 1000000

OffsetSeconds(text) == text.number * Scale(text.unit)

NtpDefaults ==
    [not_synced_state |-> "WARN", disabled_state |-> "WARN",
     offset_levels |-> Fixed(200000000, 500000000), stratum_upper |-> Fixed(10, 15)]

NtpCheck(rule, section) ==
    LET p == Params(rule, NtpDefaults)
        ns == OffsetSeconds(section.offset)
    IN IF ~Enabled(section) THEN p.disabled_state
       ELSE Worst({IF section.status = "synchronized" THEN "OK" ELSE p.not_synced_state,
                   IF section.offset.unit = "other" THEN "OK"
                   ELSE Upper(IF ns < 0 THEN -ns ELSE ns, p.offset_levels),
                   IF section.stratum < 0 THEN "OK"
                   ELSE Upper(section.stratum, p.stratum_upper)})
=============================================================================

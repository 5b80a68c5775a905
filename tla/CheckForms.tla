------------------------------ MODULE CheckForms ----------------------------
(***************************************************************************)
(* rulesets/mikrotik_checks.py: what the rules of the checks may store.    *)
(* A form is a function from its keys, none of which is required, to the   *)
(* values the element of that key may store; numbers are samples around    *)
(* the prefilled ones.                                                     *)
(***************************************************************************)
EXTENDS CheckApi

\* SimpleLevels, ServiceState and List(String).
SimpleLevels(w, c) == {Fixed(w, c), NoLevels}
ServiceState == {"OK", "WARN", "CRIT", "UNKNOWN"}

FanForm == [lower |-> SimpleLevels(2000, 1000)]
BoardForm == [min_version |-> {0, 2, -1}, firmware_upgrade_pending |-> ServiceState]
FileForm == [file_age |-> SimpleLevels(90000, 176400), pattern |-> {"", "slash", "dash"}]
PowerForm == [crit_voltage |-> {9, 10}]
PsuForm == [ok_states |-> {{"ok"}, {"ok", "fail"}, {}}]
OspfForm == [ok_states |-> {{}, {"Full"}, {"Full", "Init", "Down"}}]
WifiForm ==
    [clients_upper |-> SimpleLevels(1, 2), clients_lower |-> SimpleLevels(1, 0),
     signal_avg_lower |-> SimpleLevels(-70, -80), signal_min_lower |-> SimpleLevels(-80, -90),
     interface_down_state |-> ServiceState]
LicenseForm == [free_state |-> ServiceState, limited_upgrades_state |-> ServiceState]
WireGuardForm ==
    [handshake_age |-> SimpleLevels(300, 900), no_handshake_state |-> ServiceState,
     disabled_state |-> ServiceState]
NtpForm ==
    [not_synced_state |-> ServiceState, disabled_state |-> ServiceState,
     offset_levels |-> SimpleLevels(200000000, 500000000), stratum_upper |-> SimpleLevels(10, 15)]
PoolForm == [used_percent_upper |-> SimpleLevels(80, 90), free_lower |-> SimpleLevels(10, 5)]
UpsForm ==
    [on_battery_state |-> ServiceState, low_battery_state |-> ServiceState,
     replace_battery_state |-> ServiceState, overload_state |-> ServiceState,
     no_data_state |-> ServiceState, battery_charge_lower |-> SimpleLevels(50, 25),
     runtime_lower |-> SimpleLevels(600, 300), load_upper |-> SimpleLevels(80, 90),
     temperature_upper |-> SimpleLevels(40, 50)]

\* Rules of a form: none set, or one key set.
Rules(form) == {NoFields} \cup UNION {{Field(key, value) : value \in form[key]} : key \in DOMAIN form}

-----------------------------------------------------------------------------
(* Rules of earlier versions, and what the forms make of them.             *)

Without(rule, keys) == [key \in DOMAIN rule \ keys |-> rule[key]]

\* migrate_to_..._simple_levels: a bare pair becomes ("fixed", pair).
MigrateLevels(rule, key) ==
    [k \in DOMAIN rule |-> IF k = key THEN Fixed(rule[k].warn, rule[k].crit) ELSE rule[k]]

\* _migrate_fan_params and the migration of its levels.
MigrateFan(rule) == MigrateLevels(Without(rule, {"output_metrics"}), "lower")
\* _migrate_power_params.
MigratePower(rule) == Without(rule, {"psu_count"})
MigrateFile(rule) == MigrateLevels(rule, "file_age")

OldFan == [lower |-> Legacy(3000, 2000), output_metrics |-> TRUE]
OldPower == [crit_voltage |-> 11, psu_count |-> 2]
OldFile == [file_age |-> Legacy(80000, 90000)]

\* Checks may meet an old rule before and after its migration.
HealthRules ==
    Rules(FanForm) \cup Rules(PsuForm) \cup Rules(PowerForm)
    \cup {OldFan, MigrateFan(OldFan), OldPower, MigratePower(OldPower)}
FileRules == Rules(FileForm) \cup {OldFile, MigrateFile(OldFile)}

\* File rules without the levels the check of files fails on.
FileRulesOfPairs ==
    {rule \in FileRules : "file_age" \in DOMAIN rule => rule.file_age.shape = "tuple"}
=============================================================================

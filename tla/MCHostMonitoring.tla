--------------------------- MODULE MCHostMonitoring -------------------------
(***************************************************************************)
(* The rules for HostMonitoring: what the forms of the checks store.  Two  *)
(* cycles show a change after the discovery; the checks with counters have *)
(* no result before the third.                                             *)
(***************************************************************************)
EXTENDS HostMonitoring

Forms == INSTANCE CheckForms

AllRulesets ==
    [ospf |-> Forms!Rules(Forms!OspfForm), vrrp |-> {NoFields}, file |-> Forms!FileRulesOfPairs,
     health |-> Forms!HealthRules, board |-> Forms!Rules(Forms!BoardForm),
     license |-> Forms!Rules(Forms!LicenseForm), ntp |-> Forms!Rules(Forms!NtpForm),
     pools |-> Forms!Rules(Forms!PoolForm), ups |-> Forms!Rules(Forms!UpsForm),
     wifi |-> Forms!Rules(Forms!WifiForm), wireguard |-> Forms!Rules(Forms!WireGuardForm),
     firewall |-> {NoFields}]

Cycles == [m \in DOMAIN AllRulesets |-> IF m \in {"wireguard", "firewall"} THEN 3 ELSE 2]

\* What the theorems about HostMonitoring take from the rules, the forms give.
ASSUME FormsAreAccepted ==
    /\ \A m \in DOMAIN AllRulesets : \A r \in AllRulesets[m] : Accepted(r)
    /\ \A r \in AllRulesets.health : "lower" \in DOMAIN r => Limits(r.lower)

\* One module at a time, for what its manual page or its form says of it.
FileRulesets == [file |-> Forms!FileRules]
FilePairRulesets == [file |-> Forms!FileRulesOfPairs]
VrrpRulesets == [vrrp |-> {NoFields}]
BoardRulesets == [board |-> Forms!Rules(Forms!BoardForm)]
=============================================================================

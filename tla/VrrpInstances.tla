---------------------------- MODULE VrrpInstances ---------------------------
(***************************************************************************)
(* "VRRP" services: a name line starts an instance, the first word of the  *)
(* name is the item, and a later instance with that word replaces it.      *)
(***************************************************************************)
EXTENDS CheckApi

VrrpFiltered == <<"name", "vrid", "invalid", "mac-address", "master", "backup", "interface",
                  "running", "disabled">>

\* Names are sequences of words.  A row may lack the field "disabled".
VrrpRow(name, running, master, backup, more) ==
    [f \in {"name", "running", "master", "backup"} |->
        CASE f = "name" -> name [] f = "running" -> running [] f = "master" -> master
          [] OTHER -> backup] ++ more

Roles == {<<TRUE, TRUE, FALSE>>, <<TRUE, FALSE, FALSE>>, <<FALSE, FALSE, TRUE>>,
          <<FALSE, FALSE, FALSE>>}
VrrpNames == {<<"lan">>, <<"wan">>, <<"lan", "guests">>}
VrrpRows ==
    {VrrpRow(name, role[1], role[2], role[3], Field("disabled", disabled)) :
        name \in VrrpNames, role \in Roles, disabled \in BOOLEAN}
    \cup {VrrpRow(name, TRUE, TRUE, FALSE, NoFields) : name \in VrrpNames}
VrrpDevices ==
    {<<>>} \cup UpToTwo(VrrpRows, {r \in VrrpRows : r.name # <<"wan">> /\ r.running = r.master})

VrrpLines(asked) == FieldLines(RowsOf(asked.print), VrrpFiltered)

\* Faulty variant: a name line does not forget what came before under that word.
VrrpReadLineKeeping(s, line) ==
    LET item == IF line[1] = "name" THEN line[2][1] ELSE s.item
        data == IF item \in DOMAIN s.data THEN s.data ELSE s.data ++ Field(item, NoFields)
    IN IF item = "" THEN s
       ELSE [item |-> item,
             data |-> [data EXCEPT ![item] = @ ++ Field(line[1], line[2])]]

\* parse_mikrotik_vrrp, one line.
VrrpReadLine(s, line) ==
    IF line[1] = "name"
    THEN [item |-> line[2][1],
          data |-> Field(line[2][1], Field("name", line[2])) ++ s.data]
    ELSE IF s.item = "" THEN s
    ELSE [s EXCEPT !.data[s.item] = Field(line[1], line[2]) ++ @]

VrrpParse(lines) == FoldLeft(VrrpReadLine, [item |-> "", data |-> NoFields], lines).data

VrrpSection(asked) == SectionOf(asked.print, VrrpParse(VrrpLines(asked)))

VrrpDiscovered(section) ==
    {item \in DOMAIN section :
        "disabled" \in DOMAIN section[item] /\ ~section[item]["disabled"]}

\* What is not known to be enabled counts as disabled, but the text of that result
\* reads the field there may not be.
VrrpState(data) ==
    CASE "disabled" \notin DOMAIN data -> "crash"
      [] "disabled" \in DOMAIN data /\ data["disabled"] -> "WARN"
      [] OTHER -> IF IF data["running"] THEN data["master"] ELSE data["backup"]
                  THEN "OK" ELSE "CRIT"

VrrpCheck(item, section) ==
    IF item \notin DOMAIN section THEN "UNKNOWN" ELSE VrrpState(section[item])
=============================================================================

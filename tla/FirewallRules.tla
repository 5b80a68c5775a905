---------------------------- MODULE FirewallRules ---------------------------
(***************************************************************************)
(* "Firewall Filter" services: the rows of /ip/firewall/filter/print go    *)
(* through a set and come out in any order; the item is the comment or     *)
(* what it names after "checkmk: ".  The value of a counter is reduced to  *)
(* the rule it belongs to.                                                 *)
(***************************************************************************)
EXTENDS CheckApi

\* A comment is its text and what stands in it after "checkmk: " up to a ")".
Plain(text) == [text |-> text, named |-> ""]
Naming(text, item) == [text |-> text, named |-> item]

\* "checkmk:" with no space after it: what follows "checkmk: " does not exist.
Unspaced == Plain("checkmk:ssh")

FirewallRule(id, comment, disabled) == [id |-> id, comment |-> comment, disabled |-> disabled]

\* Rule 1 may be reported twice, rules 2 and 3 may share their item.
Comment(id, shared) ==
    CASE id = 1 -> Plain("web")
      [] id = 2 -> Naming("drop all (checkmk: drop)", "drop")
      [] id = 3 -> IF shared THEN Plain("drop") ELSE Plain("None")

FirewallDevices ==
    {[rows |-> <<FirewallRule(1, Comment(1, FALSE), FALSE), FirewallRule(4, Unspaced, FALSE)>>,
      show |-> TRUE]}
    \cup
    {[rows |-> [k \in DOMAIN order |->
                    FirewallRule(order[k], Comment(order[k], shared), order[k] \in off)],
      show |-> show] :
        order \in {<<1, 1, 2>>, <<1, 2, 3>>, <<2>>, <<3, 2>>}, shared \in BOOLEAN,
        off \in SUBSET {1, 2}, show \in BOOLEAN}

\* The set comprehension over the rows, in any order of a set.
Orders(rows) == SetToSeqs(ToSet(rows))

RuleItem(comment) == IF comment.named # "" THEN comment.named ELSE comment.text

\* Faulty variant: the counters of a rule stand before its comment, and are taken
\* for those of the rule above.
ParseOrderShifted(rows) ==
    [item \in {RuleItem(r.comment) : r \in ToSet(rows)} |->
        LET last == Max({k \in DOMAIN rows : RuleItem(rows[k].comment) = item})
        IN [disabled |-> rows[last].disabled,
            counted |-> rows[IF last = Len(rows) THEN last ELSE last + 1].id]]

\* parse_mikrotik_firewall: of the rules with an item the last.
ParseOrder(rows) ==
    [item \in {RuleItem(r.comment) : r \in ToSet(rows)} |->
        LET last == Max({k \in DOMAIN rows : RuleItem(rows[k].comment) = item})
        IN [disabled |-> rows[last].disabled, counted |-> rows[last].id]]

\* An error row has no bytes: int("None") raises and there is no section, as with a
\* comment whose item cannot be told.
FirewallSections(asked) ==
    IF \/ asked.print = Failed \/ asked.print.rows = <<>>
       \/ \E r \in ToSet(asked.print.rows) : r.comment = Unspaced
    THEN {<<>>}
    ELSE {<<[rules |-> ParseOrder(order), show_disabled |-> asked.print.show]>> :
              order \in Orders(asked.print.rows)}

FirewallDiscovered(section) ==
    {item \in DOMAIN section.rules \ {"None"} :
        section.show_disabled \/ ~section.rules[item].disabled}

\* Faulty variant: the first value of a counter is not kept.
StoresKnown(item, section, store) ==
    IF item \notin DOMAIN section.rules THEN NoFields
    ELSE [c \in {<<item, "bytes">>, <<item, "packets">>} \cap DOMAIN store |->
             section.rules[item].counted]

\* The counters written for an item: bytes, and packets only once bytes had an
\* earlier value.
FirewallStores(item, section, store) ==
    IF item \notin DOMAIN section.rules THEN NoFields
    ELSE [c \in {<<item, "bytes">>}
                \cup (IF <<item, "bytes">> \in DOMAIN store THEN {<<item, "packets">>} ELSE {}) |->
             section.rules[item].counted]

\* get_rate raises for a counter without an earlier value, which discards the state.
FirewallCheck(item, section, store) ==
    CASE item \notin DOMAIN section.rules -> "UNKNOWN"
      [] item \in DOMAIN section.rules
           /\ ~({<<item, "bytes">>, <<item, "packets">>} \subseteq DOMAIN store) -> "ignored"
      [] OTHER -> IF section.rules[item].disabled THEN "CRIT" ELSE "OK"
=============================================================================

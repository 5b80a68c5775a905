---------------------------- MODULE OspfNeighbours --------------------------
(***************************************************************************)
(* "OSPF Neighbor" services: the rows of /routing/ospf/neighbor/print as   *)
(* lines, the parser that takes them apart again at the router-id lines,   *)
(* and the check of one neighbor.                                          *)
(***************************************************************************)
EXTENDS CheckApi

OspfFiltered == <<"router-id", "instance", "interface", "address", "state">>

\* Rows of two neighbors, of one that has no router-id yet, and without a state or
\* an instance.
OspfRow(rid, instance, state) ==
    (IF rid = "" THEN NoFields ELSE Field("router-id", rid))
    ++ (IF instance = "" THEN NoFields ELSE Field("instance", instance))
    ++ Field("address", "a1")
    ++ (IF state = "" THEN NoFields ELSE Field("state", state))

OspfRows == {OspfRow(rid, instance, state) :
                rid \in {"", "r1", "r2"}, instance \in {"", "v2"}, state \in {"", "Full", "Down"}}
OspfLastRows == {OspfRow("r1", "", "TwoWay"), OspfRow("r2", "v2", "Init"), OspfRow("", "v2", "odd")}
OspfDevices == {<<>>} \cup UpToTwo(OspfRows, OspfLastRows)
               \cup {<<a, OspfRow("", "v2", s), b>> :
                         a \in {OspfRow("r1", "", "Full"), OspfRow("r2", "v2", "")},
                         s \in {"", "Down"}, b \in OspfLastRows}

OspfLines(asked) == FieldLines(RowsOf(asked.print), OspfFiltered)

\* parse_mikrotik_ospf, one line: "current" is the last adjacency while its fields
\* may still come.
Adjacency(rid) == [rid |-> rid, got |-> NoFields]

\* Faulty variant: a field that repeats overwrites the adjacency's own.
OspfReadLineOverwriting(s, line) ==
    IF line[1] = "router-id"
    THEN [adjs |-> Append(s.adjs, Adjacency(line[2])), current |-> TRUE]
    ELSE IF s.current
    THEN [s EXCEPT !.adjs[Len(s.adjs)].got = Field(line[1], line[2]) ++ @]
    ELSE s

OspfReadLine(s, line) ==
    LET last == Len(s.adjs) IN
    CASE line[1] = "router-id" ->
            [adjs |-> Append(s.adjs, Adjacency(line[2])), current |-> TRUE]
      [] line[1] # "router-id" /\ s.current /\ line[1] \in DOMAIN s.adjs[last].got ->
            [s EXCEPT !.current = FALSE]
      [] line[1] # "router-id" /\ s.current /\ line[1] \notin DOMAIN s.adjs[last].got ->
            [s EXCEPT !.adjs[last].got = @ ++ Field(line[1], line[2])]
      [] OTHER -> s

\* The section: states of the adjacencies of each router-id that has any.
OspfParse(lines) ==
    LET adjs == ToSet(FoldLeft(OspfReadLine, [adjs |-> <<>>, current |-> FALSE], lines).adjs)
        kept == {a \in adjs : "state" \in DOMAIN a.got}
    IN [rid \in {a.rid : a \in kept} |-> {a.got["state"] : a \in {b \in kept : b.rid = rid}}]

OspfSection(asked) == SectionOf(asked.print, OspfParse(OspfLines(asked)))

OspfDiscovered(section) == DOMAIN section

WarnStates == {"Attempt", "Init", "ExStart", "Exchange", "Loading"}
OspfDefaults == [ok_states |-> {"Full", "TwoWay", "2-Way"}]

Judgement(state, okStates) ==
    CASE state \in okStates -> "OK"
      [] state \notin okStates /\ state = "Down" -> "CRIT"
      [] state \notin okStates /\ state \in WarnStates -> "WARN"
      [] OTHER -> "UNKNOWN"

OspfCheck(item, rule, section) ==
    IF item \notin DOMAIN section THEN "CRIT"
    ELSE Worst({Judgement(s, Params(rule, OspfDefaults).ok_states) : s \in section[item]})
=============================================================================

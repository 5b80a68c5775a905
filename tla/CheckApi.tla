------------------------------- MODULE CheckApi -----------------------------
(***************************************************************************)
(* What the checks under agent_based use of Checkmk's plug-in interface:   *)
(* states of a service, levels, stored counters, and how the lines of a    *)
(* section come from the rows of a reply.                                  *)
(***************************************************************************)
EXTENDS Integers, Sequences, FiniteSets, SequencesExt, FiniteSetsExt, TLC

CONSTANT Failed  \* reply of a call that failed: only an error row, or an exception

\* The state of a service is the worst of the results its check yields.  An
\* exception discards them all: GetRateError gives no state, any other a crash
\* report.  A check that yields nothing is UNKNOWN.
Severity == <<"crash", "ignored", "CRIT", "UNKNOWN", "WARN", "OK">>

Worst(states) ==
    LET k == SelectInSeq(Severity, LAMBDA s : s \in states)
    IN IF k = 0 THEN "UNKNOWN" ELSE Severity[k]

NoFields == [f \in {} |-> f]

\* A function with one argument, and f with what only g has (TLC's :> and @@, which
\* no proof can look into).
Field(name, value) == [f \in {name} |-> value]

f ++ g == [x \in DOMAIN f \cup DOMAIN g |-> IF x \in DOMAIN f THEN f[x] ELSE g[x]]

\* What a rule stores of a pair of levels: ("fixed", (warn, crit)), ("no_levels",
\* None), or the bare (warn, crit) of rules made before Checkmk 2.3.
Fixed(w, c) == [shape |-> "fixed", warn |-> w, crit |-> c]
NoLevels == [shape |-> "no_levels"]
Legacy(w, c) == [shape |-> "tuple", warn |-> w, crit |-> c]

\* check_levels: upper levels are reached, lower levels are undercut; a bare pair
\* is not accepted.
Upper(value, levels) ==
    CASE levels.shape = "no_levels" -> "OK"
      [] levels.shape = "fixed" ->
            IF value >= levels.crit THEN "CRIT" ELSE IF value >= levels.warn THEN "WARN" ELSE "OK"
      [] OTHER -> "crash"

Lower(value, levels) ==
    CASE levels.shape = "no_levels" -> "OK"
      [] levels.shape = "fixed" ->
            IF value < levels.crit THEN "CRIT" ELSE IF value < levels.warn THEN "WARN" ELSE "OK"
      [] OTHER -> "crash"

\* The parameters of a check: the stored rule over the defaults.
Params(rule, defaults) == rule ++ defaults

\* The lines "field value" of the given fields of every row, in that order.
FieldLines(rows, fields) ==
    FlattenSeq([k \in DOMAIN rows |-> FlattenSeq([m \in DOMAIN fields |->
        IF fields[m] \in DOMAIN rows[k] THEN <<<<fields[m], rows[k][fields[m]]>>>> ELSE <<>>])])

\* The rows of a reply; an error row has none of the fields the modules ask for.
RowsOf(reply) == IF reply = Failed THEN <<>> ELSE reply

\* No rows print no section, an error row prints an empty one.
SectionOf(reply, parsed) == IF reply = <<>> THEN <<>> ELSE <<parsed>>

\* All sequences of one or two elements, the second from a smaller set.
UpToTwo(first, second) == {<<a>> : a \in first} \cup {<<a, b>> : a \in first, b \in second}
=============================================================================

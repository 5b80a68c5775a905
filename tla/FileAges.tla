------------------------------- MODULE FileAges -----------------------------
(***************************************************************************)
(* "File" services: name lines start a file, directories have no service,  *)
(* and the watchdog's autosupout.rif has one although it should not exist. *)
(* A timestamp is its format and the age it stands for when it is checked, *)
(* in seconds.                                                             *)
(***************************************************************************)
EXTENDS CheckApi

\* Faulty variant: the fields in alphabetical order.
FileFilteredSorted == <<"creation-time", "last-modified", "name", "type">>

\* The order in which the fields of a file are printed.
FileFiltered == <<"name", "creation-time", "last-modified", "type">>


Watchdog == "autosupout.rif"

Stamp(format, age) == [format |-> format, age |-> age]

FileRow(name, type, times) == Field("name", name) ++ Field("type", type) ++ times

\* Ages on both sides of the default levels; without a time, of RouterOS 6, of
\* RouterOS 7, both, and in a format no pattern fits.
Times == {NoFields,
          Field("creation-time", Stamp("slash", 90000)),
          Field("last-modified", Stamp("dash", 90001)),
          Field("creation-time", Stamp("slash", 176401))
              ++ Field("last-modified", Stamp("dash", 90000)),
          Field("last-modified", Stamp("other", 90000))}
FileRows == {FileRow(name, type, times) :
                name \in {<<"backup">>, <<Watchdog>>, <<"backup", "old">>},
                type \in {"file", "directory"}, times \in Times}
FileDevices ==
    UpToTwo(FileRows, {r \in FileRows : r.type = "file" /\ "creation-time" \notin DOMAIN r})

FileLines(asked) == FieldLines(RowsOf(asked.print), FileFiltered)

\* parse_mikrotik_file, one line.
FileReadLine(s, line) ==
    CASE line[1] = "name" -> [item |-> line[2][1], data |-> Field(line[2][1], NoFields) ++ s.data]
      [] line[1] # "name" /\ s.item # "" ->
            [s EXCEPT !.data[s.item] = Field(line[1], line[2]) ++ @]
      [] OTHER -> s

\* The file the parser adds when the list has no watchdog file.
NoWatchdog == [type |-> "file", notfound |-> "True"]

FileParse(lines) ==
    FoldLeft(FileReadLine, [item |-> "", data |-> NoFields], lines).data
    ++ Field(Watchdog, NoWatchdog)

FileSection(asked) == SectionOf(asked.print, FileParse(FileLines(asked)))

\* Every row has a type.
FileDiscovered(section) == {item \in DOMAIN section : section[item].type # "directory"}

FileDefaults == [file_age |-> Legacy(90000, 176400), pattern |-> ""]

\* creation-time or else last-modified.
TimesOf(file) ==
    IF "creation-time" \in DOMAIN file THEN {file["creation-time"]}
    ELSE IF "last-modified" \in DOMAIN file THEN {file["last-modified"]} ELSE {}

\* strptime: the pattern of the rule, or the one chosen by the look of the string.
Readable(stamp, pattern) ==
    IF pattern = "" THEN stamp.format # "other" ELSE stamp.format = pattern

\* The code takes the levels for a bare pair: a rule stored as ("fixed", (w, c)) or
\* ("no_levels", None) ends in a TypeError when the age is compared.
JudgedAge(age, levels) ==
    CASE levels.shape # "tuple" -> "crash"
      [] levels.shape = "tuple" /\ age > levels.crit -> "CRIT"
      [] levels.shape = "tuple" /\ age <= levels.crit /\ age > levels.warn -> "WARN"
      [] OTHER -> "OK"

JudgedFile(file, p) ==
    LET times == TimesOf(file)
        stamp == CHOOSE t \in times : TRUE
    IN IF times = {} \/ ~Readable(stamp, p.pattern) THEN "UNKNOWN"
       ELSE JudgedAge(stamp.age, p.file_age)

FileCheck(item, rule, section) ==
    CASE item \notin DOMAIN section -> "UNKNOWN"
      [] item \in DOMAIN section /\ item = Watchdog ->
            IF "notfound" \in DOMAIN section[item] THEN "OK" ELSE "CRIT"
      [] OTHER -> JudgedFile(section[item], Params(rule, FileDefaults))
=============================================================================

------------------------------ MODULE AgentRun ------------------------------
(***************************************************************************)
(* One run of the special agent (src/libexec/agent_mikrotik): the agent    *)
(* logs in, asks for the firmware version, and then walks the requested    *)
(* modules, each of which sends one or more commands over one RouterOS API *)
(* connection (or one HTTP exchange per command in REST mode).             *)
(*                                                                         *)
(* The connection is a byte stream without request identifiers (the agent  *)
(* sends no .tag), so the only thing that ties a row to a command is the   *)
(* position at which the previous reply was left.  A sentence carries the  *)
(* position (req) of the command the device answered with it; the agent    *)
(* never sees that field, the properties do.                               *)
(*                                                                         *)
(* Reading one sentence is one action.  How a sentence is cut out of the   *)
(* byte stream, and where the alternatives ReadBytesWord and LoseFraming   *)
(* come from, is the subject of module ApiRead.                            *)
(***************************************************************************)
EXTENDS Naturals, Sequences

CONSTANTS
    Requested,    \* modules a rule may request (the runs keep this set small)
    Modes,        \* subset of {"api", "rest"}
    Fragmented    \* TRUE: rows hold non-ASCII text and TCP may split them

ASSUME ModesAssumption == Modes \subseteq {"api", "rest"}
ASSUME FragmentedAssumption == Fragmented \in BOOLEAN

VARIABLES
    mode,     \* "rest" (option -r) or "api"
    active,   \* the modules of this run
    fw,       \* major firmware version as reported, "?" before the answer
    pos,      \* index in Order of the command being executed
    st,       \* "send", "read", "ok" (exit 0), "failed" (exit 1)
    stream,   \* sentences on their way to the agent
    owed,     \* commands the device has received and not answered
    link,     \* "up" or "closed"
    rows,     \* req of the rows collected by the call in progress
    trap,     \* the call in progress has collected an error row
    sync      \* "clean", "behind" (a reply was left before its end), "lost"

vars == <<mode, active, fw, pos, st, stream, owed, link, rows, trap, sync>>

-----------------------------------------------------------------------------
(* The commands, in the order in which the module loop reaches them.       *)

Order == <<
    "login", "login.response", "version",
    "bgp", "bgp.session", "ospf", "health", "board", "routerboard", "vrrp",
    "ipsec", "ipsec.address", "ipsec.sa", "file", "firewall", "license",
    "wifi.cap", "wifi.iface", "wifi.config", "wifi.reg",
    "wireless.iface", "wireless.reg",
    "capsman.cap", "capsman.iface", "capsman.config", "capsman.reg",
    "pools", "pools.used", "ups", "ups.monitor", "ups.monitor",
    "wireguard", "ntp" >>

N == Len(Order)

LoginCommands == {"login", "login.response"}
WifiCommands ==
    {"wifi.cap", "wifi.iface", "wifi.config", "wifi.reg", "wireless.iface",
     "wireless.reg", "capsman.cap", "capsman.iface", "capsman.config",
     "capsman.reg"}

\* The module a command belongs to; the first three run for every module list.
ModuleOf(c) ==
    CASE c \in LoginCommands \cup {"version"} -> "agent"
      [] c \in {"bgp", "bgp.session"} -> "bgp"
      [] c \in {"board", "routerboard"} -> "board"
      [] c \in {"ipsec", "ipsec.address", "ipsec.sa"} -> "ipsec"
      [] c \in WifiCommands -> "wifi"
      [] c \in {"pools", "pools.used"} -> "pools"
      [] c \in {"ups", "ups.monitor"} -> "ups"
      [] OTHER -> c

\* Which handler surrounds the call: "none" (an exception ends the agent with
\* a traceback), "Exception" (except Exception), "bare" (except without a type).
Guard(c) ==
    CASE c \in {"ipsec.address", "ipsec.sa"} -> "bare"
      [] c \in WifiCommands \cup {"routerboard", "pools", "pools.used", "ups",
                                  "ups.monitor", "wireguard"} -> "Exception"
      [] OTHER -> "none"

\* The calls that go through wifi_rows: an error row makes the result None.
ThroughWifiRows(c) ==
    c \in WifiCommands \cup {"pools", "pools.used", "ups", "wireguard"}

\* bgp.session is asked on version 7 only (the string the device reported, not
\* the command set chosen for it); wireguard and ntp are not in command set 6.
KnownTo(c, f) ==
    CASE c = "bgp.session" -> f = "7"
      [] c \in {"wireguard", "ntp"} -> f # "6"
      [] OTHER -> TRUE

Wanted(c, f) == ModuleOf(c) \in active /\ KnownTo(c, f)

\* Where the loop sends its next command, k commands of the module being left
\* out: the next wanted command, or N + 1 when there is none.
Following(p, k, f) ==
    {q \in (p + k + 1) .. (N + 1) :
        /\ q = N + 1 \/ Wanted(Order[q], f)
        /\ \A r \in (p + k + 1) .. (q - 1) : ~Wanted(Order[r], f)}

\* How many of the commands behind c are left out, given the result of c: "rows",
\* "empty" (no row), "error" (an error row among the rows), "none" (None or a
\* caught exception), "ret" (a login challenge).  Where the content of the rows
\* decides, every count the code can reach.
Skips(c, result) ==
    CASE c = "login" -> IF result = "ret" THEN {0} ELSE {1}
      [] c \in {"bgp", "board"} -> IF result = "empty" THEN {1} ELSE {0}
      [] c = "ipsec" -> IF result = "rows" THEN {0, 2} ELSE {2}
      [] c = "ipsec.address" ->
            CASE result = "rows" -> {0, 1} [] result = "empty" -> {0} [] OTHER -> {1}
      [] c \in {"wifi.iface", "capsman.iface"} -> IF result = "none" THEN {2} ELSE {0}
      [] c = "wireless.iface" -> IF result = "none" THEN {1} ELSE {0}
      [] c = "pools" -> IF result = "rows" THEN {0, 1} ELSE {1}
      [] c = "ups" -> IF result = "rows" THEN {0, 1, 2} ELSE {2}
      [] OTHER -> {0}

-----------------------------------------------------------------------------
(* Leaving a call.  cmd is the command in progress.                        *)

cmd == Order[pos]

\* Faulty variant: the end of the module list is not noticed.
AdvanceNeverEnds(result, f) ==
    \E k \in Skips(cmd, result) : \E q \in Following(pos, k, f) :
        /\ pos' = q /\ st' = "send" /\ fw' = f
        /\ rows' = {} /\ trap' = FALSE

\* Step k commands further; behind the last one the agent ends with exit 0.
Advance(result, f) ==
    \E k \in Skips(cmd, result) : \E q \in Following(pos, k, f) :
        /\ pos' = q
        /\ st' = IF q = N + 1 THEN "ok" ELSE "send"
        /\ fw' = f
        /\ rows' = {}
        /\ trap' = FALSE

Fail == st' = "failed" /\ UNCHANGED <<pos, fw, rows, trap>>

\* The call returns.  A refused login is exit 1; myapi(...)[0]['version'] is a
\* traceback unless the reply begins with a proper row.
Return(result) ==
    CASE cmd \in LoginCommands /\ result = "error" -> Fail
      [] cmd = "version" ->
            IF result = "rows" THEN \E f \in {"6", "7", "8"} : Advance(result, f)
                               ELSE Fail
      [] OTHER -> Advance(result, fw)

\* Faulty variant: every call is inside a handler.
RaiseIsAlwaysCaught == Advance("none", fw)

\* The call raises an Exception.
Raise == IF Guard(cmd) = "none" THEN Fail ELSE Advance("none", fw)

\* The call raises SystemExit, which only the handler without a type catches.
Exit == IF Guard(cmd) = "bare" THEN Advance("none", fw) ELSE Fail

\* What the collected rows amount to: wifi_rows and api_call turn an error row
\* into None, a plain myapi call hands it on as a row.
Collected ==
    CASE trap -> IF ThroughWifiRows(cmd) \/ cmd = "ups.monitor" THEN "none" ELSE "error"
      [] ~trap /\ rows = {} -> "empty"
      [] OTHER -> "rows"

-----------------------------------------------------------------------------
(* The device.                                                             *)

Kinds == {"re", "trap", "empty", "done", "ret", "fatal"}
Sentence == [kind : Kinds, req : 1 .. N]

\* The replies to a command, as kinds of sentences: rows (at most two), no row
\* with or without !empty, an error, a !fatal that ends the session; for a
\* login nothing, an error, or the challenge of RouterOS before 6.43.
Replies(c) ==
    {<<"trap", "done">>, <<"fatal">>, <<"done">>} \cup
    CASE c = "login" -> {<<"ret">>}
      [] c = "login.response" -> {}
      [] OTHER -> {<<"empty", "done">>, <<"re", "done">>, <<"re", "re", "done">>}

Tagged(reply, r) == [i \in 1 .. Len(reply) |-> [kind |-> reply[i], req |-> r]]

DeviceAnswer ==
    /\ link = "up" /\ owed # <<>>
    /\ \E reply \in Replies(Order[Head(owed)]) :
        /\ stream' = stream \o Tagged(reply, Head(owed))
        /\ link' = IF reply = <<"fatal">> THEN "closed" ELSE "up"
        /\ owed' = IF reply = <<"fatal">> THEN <<>> ELSE Tail(owed)
    /\ UNCHANGED <<mode, active, fw, pos, st, rows, trap, sync>>

\* The connection ends; what was on its way may be cut off anywhere.
DeviceClose ==
    /\ mode = "api" /\ link = "up" /\ st \in {"send", "read"}
    /\ link' = "closed"
    /\ \E k \in 0 .. Len(stream) : stream' = SubSeq(stream, 1, k)
    /\ owed' = <<>>
    /\ UNCHANGED <<mode, active, fw, pos, st, rows, trap, sync>>

-----------------------------------------------------------------------------
(* The agent over the RouterOS API.                                        *)

\* writeSentence.  A write on a closed connection may still succeed; whether it
\* or the next read raises, the same handler is reached, by ReadEnd.
Send ==
    /\ mode = "api" /\ st = "send"
    /\ st' = "read"
    /\ owed' = IF link = "up" THEN Append(owed, pos) ELSE owed
    /\ UNCHANGED <<mode, active, fw, pos, stream, link, rows, trap, sync>>

Reading == st = "read" /\ stream # <<>> /\ sync # "lost"
Consume == stream' = Tail(stream) /\ UNCHANGED <<mode, active, owed, link>>

Collect(s) ==
    /\ rows' = rows \cup {s.req}
    /\ trap' = (trap \/ s.kind = "trap")
    /\ UNCHANGED <<pos, st, fw>>

\* Faulty variant: only a bare !done ends the loop.
TalkWantsBareDone ==
    /\ Reading /\ cmd \in LoginCommands
    /\ Consume /\ UNCHANGED sync
    /\ IF Head(stream).kind = "done" THEN Return(IF trap THEN "error" ELSE "rows")
                                    ELSE Collect(Head(stream))

\* ApiRos.talk, used by login: every sentence up to !done.
TalkSentence ==
    /\ Reading /\ cmd \in LoginCommands
    /\ Consume /\ UNCHANGED sync
    /\ LET s == Head(stream) IN
        CASE s.kind = "ret"  -> Return("ret")
          [] s.kind = "done" -> Return(IF trap THEN "error" ELSE "rows")
          [] OTHER -> Collect(s)

\* Faulty variant: an error is the end of the reply.
MyapiEndsAtTrap ==
    /\ Reading /\ cmd \notin LoginCommands \cup {"ups.monitor"}
    /\ Consume /\ UNCHANGED sync
    /\ LET s == Head(stream) IN
        CASE s.kind = "empty" -> UNCHANGED <<pos, st, fw, rows, trap>>
          [] s.kind \in {"done", "trap"} -> Return(Collected)
          [] OTHER -> Collect(s)

\* Faulty variant: an error stands before the reply, not in its place.
MyapiReadsOnAfterTrap ==
    /\ Reading /\ cmd \notin LoginCommands \cup {"ups.monitor"}
    /\ Consume /\ UNCHANGED sync
    /\ LET s == Head(stream) IN
        CASE s.kind = "empty" -> UNCHANGED <<pos, st, fw, rows, trap>>
          [] s.kind = "done" /\ ~trap -> Return(Collected)
          [] s.kind = "done" /\ trap  -> UNCHANGED <<pos, st, fw, rows, trap>>
          [] OTHER -> Collect(s)

\* myapi: !empty is passed over, a sentence of more than one word is a row
\* (!trap and !fatal too), a sentence of one word ends the call.
MyapiSentence ==
    /\ Reading /\ cmd \notin LoginCommands \cup {"ups.monitor"}
    /\ Consume /\ UNCHANGED sync
    /\ LET s == Head(stream) IN
        CASE s.kind = "empty" -> UNCHANGED <<pos, st, fw, rows, trap>>
          [] s.kind = "done"  -> Return(Collected)
          [] OTHER -> Collect(s)

\* Faulty variant: an error is the end of the reply.
ApiCallEndsAtTrap ==
    /\ Reading /\ cmd = "ups.monitor"
    /\ Consume /\ UNCHANGED sync
    /\ LET s == Head(stream) IN
        CASE s.kind = "empty" -> UNCHANGED <<pos, st, fw, rows, trap>>
          [] s.kind \in {"done", "fatal", "trap"} -> Return(Collected)
          [] OTHER -> Collect(s)

\* api_call: the kinds are told apart by the first word; !done and !fatal end it.
ApiCallSentence ==
    /\ Reading /\ cmd = "ups.monitor"
    /\ Consume /\ UNCHANGED sync
    /\ LET s == Head(stream) IN
        CASE s.kind = "empty" -> UNCHANGED <<pos, st, fw, rows, trap>>
          [] s.kind \in {"done", "fatal"} -> Return(Collected)
          [] OTHER -> Collect(s)

\* Faulty variant: the end of the connection passes for the end of the reply.
EndPassesForDone ==
    /\ st = "read" /\ stream = <<>> /\ link = "closed"
    /\ Return(Collected)
    /\ UNCHANGED <<mode, active, stream, owed, link, sync>>

\* recv returns b'': RuntimeError("connection closed by remote end").
ReadEnd ==
    /\ st = "read" /\ stream = <<>> /\ link = "closed"
    /\ Raise
    /\ UNCHANGED <<mode, active, stream, owed, link, sync>>

\* Rows of these commands hold names, comments or SSIDs chosen by the user.
UserText == {Order[p] : p \in 1 .. N} \ (LoginCommands \cup
    {"version", "health", "board", "routerboard", "license", "ntp"})

Tearable(s) == Fragmented /\ s.kind = "re" /\ Order[s.req] \in UserText

\* A piece of a row that begins with a non-ASCII byte is returned as bytes by
\* readStr.  When it is the last piece of its word the sentence is read to its
\* end, list2dict raises TypeError on it, and the rest of the reply stays unread.
ReadBytesWord ==
    /\ Reading /\ Tearable(Head(stream))
    /\ Consume /\ sync' = "behind"
    /\ Raise

\* When it is not the last piece, the next length is read from inside a word:
\* from here on the sentence boundaries are wherever the bytes put them.
LoseFraming ==
    /\ Reading /\ Tearable(Head(stream))
    /\ sync' = "lost"
    /\ UNCHANGED <<mode, active, fw, pos, st, stream, owed, link, rows, trap>>

\* Something is read that the device did not send as a sentence (req 0): a row,
\* the end of the call, or an exception.  It uses up any part of the stream.
ReadGarbled ==
    /\ st = "read" /\ stream # <<>> /\ sync = "lost"
    /\ \E k \in 1 .. Len(stream) : stream' = SubSeq(stream, k + 1, Len(stream))
    /\ \/ rows' = rows \cup {0} /\ UNCHANGED <<pos, st, fw, trap>>
       \/ Return(Collected)
       \/ Raise
    /\ UNCHANGED <<mode, active, owed, link, sync>>

-----------------------------------------------------------------------------
(* The agent over REST: every command is an HTTP exchange of its own.      *)

\* A list or an object wrapped into a list, an error object among them.
RestAnswer ==
    /\ mode = "rest" /\ st = "send"
    /\ \E answer \in {"rows", "empty", "error"} :
        Return(IF answer = "error" /\ (ThroughWifiRows(cmd) \/ cmd = "ups.monitor")
               THEN "none" ELSE answer)
    /\ UNCHANGED <<mode, active, stream, owed, link, sync>>

\* requests or response.json() raises; api_call does not let it out.
RestRaise ==
    /\ mode = "rest" /\ st = "send"
    /\ Raise
    /\ UNCHANGED <<mode, active, stream, owed, link, sync>>

\* The credentials request fails or the answer is 401: sys.exit(1).
RestRefused ==
    /\ mode = "rest" /\ st = "send" /\ cmd # "ups.monitor"
    /\ Exit
    /\ UNCHANGED <<mode, active, stream, owed, link, sync>>

-----------------------------------------------------------------------------
Init ==
    /\ mode \in Modes
    /\ active \in {{"agent"} \cup m : m \in SUBSET Requested}
    /\ fw = "?"
    /\ pos = IF mode = "rest" THEN 3 ELSE 1
    /\ st = "send"
    /\ stream = <<>> /\ owed = <<>> /\ link = "up"
    /\ rows = {} /\ trap = FALSE /\ sync = "clean"

Terminated == st \in {"ok", "failed"} /\ UNCHANGED vars

AgentStep ==
    \/ Send \/ TalkSentence \/ MyapiSentence \/ ApiCallSentence \/ ReadEnd
    \/ ReadBytesWord \/ LoseFraming \/ ReadGarbled
    \/ RestAnswer \/ RestRaise \/ RestRefused

Next == AgentStep \/ DeviceAnswer \/ DeviceClose \/ Terminated

Spec == Init /\ [][Next]_vars

\* The agent is one sequential loop; the device answers what it has received or
\* closes the connection.
FairSpec == Spec /\ WF_vars(AgentStep) /\ WF_vars(DeviceAnswer)

-----------------------------------------------------------------------------
(* Properties.                                                             *)

\* Every variable stays within its range; pos runs one past the last command.
TypeOK ==
    /\ mode \in {"api", "rest"}
    /\ active \subseteq {"agent"} \cup Requested
    /\ fw \in {"?", "6", "7", "8"}
    /\ pos \in 1 .. N + 1
    /\ st \in {"send", "read", "ok", "failed"}
    /\ (st # "ok") => pos \in 1 .. N
    /\ stream \in Seq(Sentence)
    /\ owed \in Seq(1 .. N)
    /\ link \in {"up", "closed"}
    /\ rows \subseteq 0 .. N
    /\ trap \in BOOLEAN
    /\ sync \in {"clean", "behind", "lost"}

\* Even out of step a call collects the rows of one reply only, its own or a left one,
\* until a sentence is read from inside a word: rows of two commands never mix.
RowsOfOneReply == sync # "lost" => \A r, q \in rows : r = q

\* As long as no row was torn apart, nothing is on the wire when the agent sends
\* a command or has ended: the loops of talk, myapi and api_call leave no rest.
QuietBetweenCalls ==
    (sync = "clean" /\ st # "read") => stream = <<>> /\ owed = <<>>

\* The agent ends with exit 0 or 1 whatever the device answers and wherever it
\* closes the connection (no call waits for a sentence that cannot come).
Termination == <>(st \in {"ok", "failed"})

\* Exit 0 on a connection that was lost means that only calls with a handler of
\* their own were left: an unhandled call never gets past a closed connection.
DeadLinkFailsRawCalls ==
    [][(mode = "api" /\ link = "closed" /\ stream = <<>> /\ pos' # pos)
            => Guard(cmd) # "none"]_vars

\* What is on the wire, still to be answered, or collected belongs to q or to a
\* command behind it.
NothingBefore(q) ==
    /\ \A r \in rows : r >= q
    /\ \A i \in 1 .. Len(stream) : stream[i].req >= q
    /\ \A i \in 1 .. Len(owed) : owed[i] >= q

\* A run goes on out of step only behind a handled call it has made, and what is then
\* misread is of that call or a later one.  Later calls, unhandled ones among them,
\* are made over the rest: each may be given the rows of the one before.
OnlyHandledCallsFallBehind ==
    (sync = "behind" /\ st # "failed") =>
        \E q \in 1 .. pos - 1 :
            /\ Guard(Order[q]) # "none" /\ Wanted(Order[q], fw)
            /\ NothingBefore(q)

\* The rows a call collects are the rows of its reply.
RowsAnswerTheirCommand == rows \subseteq {pos}

\* CHANGELOG.MD 2.5.2 lists multibyte characters in API calls as fixed: a row that is
\* read whole (req 0 is none) answers the command it is collected for.
WholeRowsAnswer == rows \subseteq {0, pos}
=============================================================================

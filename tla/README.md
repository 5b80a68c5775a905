# CMK_Mikrotik in TLA+

A model of the Checkmk plug-in for MikroTik devices: the special agent that asks a
RouterOS device for its state (`libexec/agent_mikrotik`), the rule that configures it
(`rulesets/`, `server_side_calls/`), and the checks that judge what it prints
(`agent_based/`). Paths below are relative to `src/`.

## The system

| component | state | operations | behaves badly when |
|---|---|---|---|
| agent run (`libexec/agent_mikrotik` 736-1041) | firmware version, active modules, position in the module loop | one to ten commands per module, each inside no handler, `except Exception`, or a bare `except` | a call fails in the middle of a run, the connection ends, replies and commands come apart |
| transport `ApiRos` (92-258) | partly read length, word, sentence; the socket | `writeSentence`, `readSentence`, `talk` | `recv` and `send` divide the bytes anywhere, text is not ASCII |
| command line (529-791) | configuration variables | getopt, option loop, argument checks | options in an unusual order, `-h`, `-r` |
| rule: migration and call (`rulesets/mikrotik_agent.py`, `server_side_calls/mikrotik.py`) | the stored rule | `_migrate_params`, `from_raw`, `_mikrotik_commands` | rules of older releases, migrated or not |
| BGP (agent 859-897, `agent_based/mikrotik_bgp.py`) | the rows of two calls, the section | match sessions to connections, print, parse, judge | sessions change between the calls, names begin alike, the list shrinks under the loop |
| IPsec (agent 956-990, `agent_based/mikrotik_ipsec.py`) | the rows of three calls, the section, two stored counters per service | print, parse, rate, judge | a failover between the calls, a failed call, shared addresses, no earlier counter |
| OSPF, VRRP, files (agent 794-813 and the command tables, `mikrotik_ospf`, `_vrrp`, `_file`) | the section | print the fields a row has, take the lines apart again at the key that starts an item, judge | rows lack a field, items repeat or share a first word, the list fails |
| IP pools (`mikrotik_pool`) | the rows of two calls | use the reported count or count the leases, size of ranges, judge | the count fails, ranges run backwards, the numbers are missing |
| UPS (`mikrotik_ups`) | the rows of one call per UPS | monitor every enabled UPS, judge | one monitor call fails or is empty, a UPS is disabled |
| WiFi (`mikrotik_wifi`) | the rows of up to ten calls of three drivers | ask the menus of every driver, name the SSID of radios and clients, group, judge | a menu does not exist, a radio is under CAPsMAN, an SSID is known through another call only |
| WireGuard (`mikrotik_wireguard`) | the section, two stored counters per service | name the item, read durations, judge | items coincide, no handshake, no earlier counter |
| firewall (`mikrotik_firewall`) | the section, two stored counters per service | rules through a set, name the item, rate, judge | the order changes from cycle to cycle, items coincide, no earlier counter |
| health (`mikrotik_fan`, `_psu`, `_power`, `_poe`) | four sections of one reply | split by name, convert units, judge | a sensor stops or changes its type, old rules |
| board, license, NTP | one section each | print a row, judge | an error row is printed like any other, a number is none |
| forms of the checks (`rulesets/mikrotik_checks.py`) | the stored rules | what can be stored, migrations | a check gets a shape it does not expect |
| graphs, manuals, package builder, legacy call | none | declarations, a build script | not modelled |

How they interact: Checkmk migrates and parses the rule and starts the agent with a
command line, once per check cycle. The agent opens one connection (or one HTTP exchange
per command with `--rest`), sends one command after the other and prints sections. The
checks parse a section and keep counters in Checkmk's value store from one cycle to the
next. Nothing in the agent runs concurrently with itself; what it meets is a device and a
network that go on while it asks.

What makes each component correct: the rows of a reply belong to the command they are
collected for, and a run ends (agent run); sentences arrive whole (transport); a run does
what the stored rule asks for (rule, command line); a service is OK exactly if what it
stands for is up (BGP, IPsec). For the other checks: what a service says is what the
device answered for that very item in this cycle, under every rule its form can store; a stored
counter belongs to the service that reads it. A missing answer should never be taken for a
good one and a check never end in an exception: both hold but for the cases that "What the
violations show" names (the watchdog file, the version of a board, VRRP, levels of files).

## Modules

| module | models |
|---|---|
| `AgentRun` | the agent run, one sentence per action |
| `AgentRunProofs` | theorems about it |
| `LengthCodec`, `LengthCodecProofs` | `writeLen`, `readLen`; `readLen` inverts `writeLen`; what joining sequences gives, by induction |
| `SentenceChannel` | abstract: the sentences of a reply, whole and in order |
| `ApiRead`, `MCApiRead`, `ApiReadProofs` | `readSentence` byte by byte; implements `SentenceChannel`; theorems |
| `ApiWrite`, `MCApiWrite`, `ApiWriteProofs` | `writeSentence` byte by byte; theorems |
| `BgpSessions`, `MCBgpSessions`, `BgpSessionsProofs` | BGP from the device to the check; theorems |
| `IpsecTunnels`, `MCIpsecTunnels`, `IpsecTunnelsProofs` | IPsec from the gateway to the check, over several cycles; theorems |
| `RuleConfig`, `MCRuleConfig`, `RuleConfigProofs` | from the stored rule, or a typed command line, to the configuration of a run; theorems |
| `HostMonitoring`, `MCHostMonitoring`, `HostMonitoringProofs` | one host over several check cycles, for each of the modules below and each rule; theorems |
| `CheckApi` | what the checks use of Checkmk: states, levels, sections |
| `OspfNeighbours`, `VrrpInstances`, `FileAges` | the three parsers that start an item at a key, and their checks |
| `HealthSensors`, `SystemInfo` | health readings; board, license, NTP |
| `IpPools`, `UpsUnits`, `WifiNetworks` | the modules with calls that depend on earlier replies |
| `WireGuardPeers`, `FirewallRules` | the checks with stored counters |
| `CheckForms` | what the forms of the checks store, before and after migration |

`AgentRun` abstracts `ApiRead`: a sentence is read in one step, and the two ways in which
`ApiRead` tears a word appear as `ReadBytesWord` (the piece is the last one of its word:
`list2dict` raises on it) and `LoseFraming` (it is not: the next length is read from
inside the word). `BgpSessions` and `IpsecTunnels` look at what one module of the run does
with its rows; their failing calls (`ErrorRow`, `Abort`) are the handlers of `AgentRun`.

### AgentRun
`Order` lists all commands in the order of the loop; `pos` is the position in it, `st` says
whether the agent is about to send, reads, or has ended. `Skips` says how many of the
commands behind a command its result leaves out: where the code looks into rows, every
count it can reach. `Guard` is the handler around a call; `Raise` and `Exit` (a
`sys.exit(1)`, which only a bare `except` catches) leave a call through it. `TalkSentence`,
`MyapiSentence` and `ApiCallSentence` are the three loops that read a reply, which end at
different sentences. In a sentence, `req` is the position of the command it answers: the
agent does not see it. `sync` records whether a row has been torn, and is not read either.
The device answers each command with any reply in `Replies` (at most two rows; with more
the loops do the same again), or the connection ends and cuts off any part of what was on
its way.

### ApiRead, ApiWrite, LengthCodec
`data` are the bytes that have not been received; each `recv` takes one or more of them.
`torn` records that a piece from inside a word was returned as a word; `whole` are the
sentences returned before that. What the device sends is `IsReply`: no empty word, none
longer than a length can tell, and none that begins with a byte of 128 or more, since words
begin with `!`, `=` or `.`. Characters are sequences of bytes in `ApiWrite`, where
`n` counts as the code does: bytes sent, used as an index of characters. The codes 248 to
255 are accepted as lengths by `readLen`, and no `writeLen` sends them.

### BgpSessions
The device owns `conns` and `sess`; a session's name is its connection's with a suffix.
The sessions change until the second call; `MaxConns` and `MaxSessions` bound the lists.
Either call may be answered by an error, which is one more row (`ErrorRow`), without a name.
`Inject` is one round of the inner loop, positions, removal and the KeyError of a nameless
row (`NameMissing`) included; `Publish` is `print_filtered` with the parser behind it, which
drops what stands before the first name.

### IpsecTunnels
Associations and the validity of local addresses change between the calls. The parser's
dict by remote address is `Entry`, in the order of `Place`. Any of the three calls may be
answered by an error, and a peer row may lack its local address: `aborted` says which of it
led to the handler. `Stores` and `Outcome` model `get_rate`: without an earlier value it
keeps the new one and raises, so a service without history gets its first result in the
third cycle that has a section; `without` counts the checks that gave none.

### RuleConfig
A rule is a record whose missing keys are `"absent"`, in every spelling and shape the code
accepts. A call by hand starts at `getopt`. `"h:"` and `"r:"` in the short options give
`-h` and `-r` an argument; the handler of getopt's errors names an undefined `err`, so a
missing argument is a traceback and not a usage message.

### HostMonitoring and the modules of the checks
`HostMonitoring` is the state machine that twelve modules of the agent share; what a
module asks, prints and makes of it are operators of a module of its own, named for it where
several have one of the kind (`VrrpCheck`, `PoolReply`). In a cycle the agent makes the
calls in `Calls`, which may grow with the replies (`Ask`), a call may fail (`AskInVain`),
and the device may become any other of `Devices` between the calls (`Change`), so the
replies of one cycle need not fit together. `PrintSection` is the end of the run, `Discover`
a service discovery, which may come in any cycle and keeps the services there are,
`CheckServices` the check of all services and `NextCycle` the next run. The value store
outlives the cycles.

| operator, behind its prefix | stands for |
|---|---|
| `Devices`, `Reply` | external: what the device may hold, and its answer to a call |
| `Calls` | the commands of the module, in the order and under the conditions of the agent |
| `Section`, `Sections` | the lines the agent prints and the `parse_` function; a set where the order is open |
| `Discovered` | the `discover_` function |
| `Check`, `Stores` | the state of the `check_` function, and the counters it writes |

Conventions: a reply is a sequence of rows, a row a function from the fields it has;
`Failed` is an error row or an exception, as the handler of the call leaves it. The three
parsers at a key read the lines (field, value) the agent makes of the rows; the others
take rows, because each of their lines names its item. Names are sequences of words where
the code splits them, texts of durations, ranges, offsets and timestamps are their parts,
and amounts are integers in the smallest unit (thousandths, nanoseconds). A timestamp is
the age it stands for. `FirewallRules` takes a Python set in every order. A counter is
reduced to the rule or peer that counted it: rates do not matter, whose they are does.
`"crash"` is an exception other than the one `get_rate` raises for want of an earlier
value, which is `"ignored"`; `"stale"` is a check that is not run because its section is
missing.

`CheckForms` gives the rules: none, or one key set, to every shape its form element
stores. A check judges each of its keys apart and takes the worst. To these come one rule
of an earlier release for fan, power and files, before and after its migration.

## Runs

| run | shows | bounds |
|---|---|---|
| `agent_run_ascii` | replies and commands never come apart, nothing is left on the wire between calls, every run ends, an unhandled call never gets past a dead connection | eight modules, which are all with more than one call, and every subset of them; both transports; versions 6, 7, 8; 285184 states |
| `agent_run_multibyte` | when rows can be torn: a call still collects rows of one reply only, its own or a left one, and what is misread was left behind by a handled call | four modules: one with a bare handler, three without a handler; every subset of them |
| `api_read` | the reader implements `SentenceChannel` until a word is torn, whatever `recv` returns and wherever the connection ends | six replies with words of 1 to 128 bytes, so lengths of one and two bytes, with and without non-ASCII text |
| `api_write` | the device reads back the sentence written, whatever `send` takes; writing ends | words of up to 4 and of 127 and 128 characters: both sides of the first boundary |
| `api_write_multibyte` | violation: the length announced for non-ASCII text is too small | one login |
| `bgp` | OK stands for an established session and established sessions make OK once the connections were read, with rows removed under the loop; an error row of either call never makes OK | two connections, three sessions, versions 6, 7, 8. Skipping needs two matching rows next to each other, a second connection, and a third row |
| `bgp_prefix` | violation: a connection without a session is OK | two names of which one begins the other |
| `ipsec` | no false alarm in undisturbed cycles, bad states of either direction are CRIT, a failed call takes no service away, no service is without a result more than twice | two peers, with and without a local address; four cycles (two fill the value store, one may be without a section) |
| `ipsec_shared` | violation: standby is seen for one peer only | two peers with one local address |
| `rule_config` | the run follows the stored rule whether migrated or not; a migrated rule is accepted; migrating again changes nothing; the order of typed options decides only the port and which of several lists is taken | one ordinary and one opt-in module and the firewall, which the code treats differently; all 18162 shapes; up to three options around the credentials, in every order |
| `host` | twelve modules: every service shows its own item as of this cycle, an OK is borne out by what was answered, no check but that of VRRP crashes, counters stay with their service | one to three rows, three where a row has to lie between two others; every rule of `CheckForms` except the file levels of `host_file_levels`; two cycles (a change after the discovery), three for checks with counters (both counters have to be stored before a result); one change and one failed call per cycle; about a million states |
| `host_file_levels` | violation: a rule for the age of files ends in an exception | the file rules of `CheckForms` |

Every property of a passing run fails for a faulty variant of the code; the variants stand
in front of the definitions they vary. Runs that say `CHECK_DEADLOCK FALSE` model systems
that stop: the sentence is read, the section is published, the last cycle is over (the
bounds `MaxCycles`), the agent starts. `AgentRun` has an explicit `Terminated` step
instead; in its multibyte run the agent may wait for ever inside a word.

**Fairness.** The agent is one sequential loop: `WF(AgentStep)`, `WF(Read)`, `WF(Write)`.
In `FairSpec` the device answers what it has received unless the connection
ends, `WF(DeviceAnswer)`; the code has no socket timeout, so without that `Termination`
cannot hold. No fairness is assumed for the connection ending or for a gateway changing.
`BgpSessions`, `IpsecTunnels`, `RuleConfig` and `HostMonitoring` state none: they have no
liveness property, and nothing in their loops waits but for a call; that a run ends is
`Termination` of `AgentRun`.

**Why the bounds of `host` suffice.** A parser keeps the item it is in and the fields that
item has, so what a row does to another shows with two rows, and with a third one for
OSPF, whose rows may lack the key. One failed call shows what each failure alone does;
every handler encloses one call, so two failures do the same side by side. Values lie on
both sides of each level and threshold, and on it.

**What the properties of `host` leave out.** `NeighboursJudgedByOwnRows` has the assumption
that rows with a router-id have a state: one without a state is dropped, and a neighbor of
which all rows are dropped shows as gone. `PoolOkIsReal` has it that nothing changed in
this cycle: the list and the count are two calls. `VrrpOkIsOwnRole` and
`FilesJudgedByOwnRows` speak of the rows whose names begin with the word that names the
service: which of several is shown is left open, and that they have one service at all is
the subject of `MCHostVrrpNames.cfg` and `MCHostFileNames.cfg`. Of the watchdog's file the
property speaks only if the list was read (`MCHostWatchdog.cfg`). `InfoOkIsReal` says what
an answered call bears out; a board without an answer to the first one is
`MCHostBoardVersion.cfg`. `CrashesOnlyWithoutDisabled` allows the exception of
`MCHostVrrpCrash.cfg` and no other. `DownRadioIsReported` and `ClientsCountedOnce` are
about the SSIDs that can be told from the profiles that were read. `DeadPeerIsNotOk` is
about peers with an item of their own, since of several with one item only the first has a
service. `CurrentSurvivesUnits` begins at 100 mA, below which the guess of the unit fails.
`StoppedFanIsReported` leaves out rules that switch the levels off.

## What is proved

A theorem holds for every value of the constants its module's assumptions admit; these only
say of which kind a constant is. Where a property needs more, the theorem has a hypothesis,
and the run of the property shows that some instance meets it. The proofs never rest on a
bound that a configuration gives: replies, lists of peers, cycles, sessions, modules and
rules are any. What a module itself defines stays as it is: the devices of
`HostMonitoring` are those the modules of the checks list.

**AgentRun** (`AgentRunProofs`; assumptions: the transports are among the two modelled,
`Fragmented` is a Boolean)

- `TypeCorrect`: `TypeOK`. One step per action; leaving a call (`Left`), taking a
  sentence (`Consume`) and the replies of the device have lemmas of their own.
- `NothingLeftBehind`: `QuietBetweenCalls`. It is not inductive: that a call ends with an
  empty wire needs to be known of what is on the wire while it reads. The invariant `IInv`
  is `TypeOK` and, while no row is torn, `Framed`: between calls nothing is on the wire;
  while reading, either the command is still to be answered and nothing is on the wire, or
  the wire holds the rest of one reply to this command, in which a sentence that ends a
  call can only be the last one.
- `AsciiRowsAnswer`: without non-ASCII text `sync` stays clean, so the rows of a call
  always answer its command.
- `HandledCallsFallBehind`: `OnlyHandledCallsFallBehind`. `BInv` adds that the
  command in progress is one this run wants (`InCommand`): only then has the handled call
  that left a reply behind really been made; and of what is collected, on the wire or owed,
  nothing is older than that call. It does not say that later calls are right: an unhandled
  one reads what was left as its own reply, which `AgentRunTorn.cfg` shows.
- `RowsNeverMix`: `RowsOfOneReply`, in and out of step, up to the first sentence that is read
  from inside a word. `CInv` adds what a wire may hold whichever replies were left on it
  (`Wire`: a reply goes on up to its end, an open link holds whole replies, a closed one may
  end in `!fatal`) and that the rows collected so far are of the reply whose rest comes next.
- `DeadLinkIsFatal`: `DeadLinkFailsRawCalls`, an action property that every step has.

**Lengths and joined sequences** (`LengthCodecProofs`)

- `LengthRoundTrip`: `readLen` inverts `writeLen` for every length below 2^32.
- `FlattenSeq` joins the words of a sentence and the sentences of a reply. What it gives
  for one more element, for an appended one, behind the first k (`FlattenLonger`,
  `FlattenAppend`, `FlattenBehind`) is proved by induction on the length, which
  `NumbersByInduction` states for a set of numbers: the library's induction over an
  operator cannot be instantiated, a set can.

**ApiRead** (`ApiReadProofs`; assumption `IsReply`)

- `TypeCorrect`, and `RepliesArriveWhole`: with no word torn, once the last byte has been
  read the callers have the reply word for word.
- `ReaderIsChannel`: the reader implements the safety part of `SentenceChannel`, however
  `recv` divides the bytes and wherever the connection ends. A step that ends a sentence is
  `Deliver`, the first torn word or exception is `Break`, any other step is a stutter.
- The refinement is no induction by itself: that a delivered sentence is the next one needs
  to be known of the bytes still to come. `RInv` says, while no word is torn: what has been
  returned and read are the first sentences and words (`GotIsSent`, `SentenceIsSent`), and
  the bytes to come, behind what is read of a length (`AtLength`, `InLength`) or a word
  (`InWord`), are the rest of the coding, or a beginning of that rest when the connection
  has ended.

**ApiWrite** (`ApiWriteProofs`; hypothesis `SingleBytes`: every character is one byte)

- `DeviceGetsSentence`: `WellFormed`. `WInv`: what is on the wire joined with the rest of
  the word, as `n` counts it, and with the codes of the later words is the coding of the
  sentence. The hypothesis is where the counting of `writeStr` is right;
  `api_write_multibyte` violates the same property without it.
- `DeviceReadsSentence`: `DeviceReadsBack`, if also every word is below 2^32
  (`ShortWords`). By induction on the words: what the device has before it at each
  position is the code of the next word, its bytes and the rest, and a length can be read
  with other bytes behind it (`LengthAhead`).

**BgpSessions** (`BgpSessionsProofs`; hypotheses `Unrelated`: no connection's name begins
another's session, and `OwnItems`: no two share the first word, which names the service)

- `TypeCorrect`, without the hypotheses.
- `OkMeansEstablished`: `OkIsEstablished`, whichever call is answered by an error. `IInv`
  follows the rows from the two calls into the section: rows of the second call are those
  of sessions seen (`RowsAreSeen`), a flag was set by such a row that matches
  (`FlagsEarned`), the section is the parser's dict of the flags (`SectionIsOut`).
- `EstablishedMeansOk`: `EstablishedIsOk`, of cycles whose first call gave the connections
  (`ConnectionsRead`): behind its error nothing that has a name is printed. It needs the
  loop's side of it: `FlagsSet` says that a connection with all sessions established has
  its flag or a row of its own not behind the position. Removing a row moves the next one
  under the position the loop has just left; the proof shows that the row skipped this way
  was never the only chance of another connection, since no row matches two of them. Names
  that begin alike take this away: `bgp_prefix`.

**IpsecTunnels** (`IpsecTunnelsProofs`; hypotheses are chosen from: `Complete`, every peer
row has its local address; `OwnRemotes`, `OwnNames`, `OwnLocals`, no two peers share one;
`Apart`, no peer's remote is another's local address. `MCIpsecTunnels` checks the same
properties under `OwnAddresses`)

- `TypeCorrect` and `ResultsCome` (`MissingAtMostTwice`), without hypotheses.
- `PeersKeepTheirService` (`OneServicePerPeer`), `BadStatesAreReported`
  (`BadStateIsReported`), `DownMeansDown` (`DownIsReal`), each under those it needs.
- `InvalidAddressIsStandby`: with addresses of its own, a peer on an invalid local address
  is standby. So two peers on one address are the only reason for the violation of
  `ipsec_shared`.
- `IInv`: which peers are printed (`PeersPrinted`), what an undisturbed agent knows of the
  gateway after each call (`SnapshotKept`), associations belong to configured tunnels
  (`SasOfTunnels`), how many checks without a result go with which counters
  (`CountersKept`), and results are those of the present section (`ResultsFresh`).

**RuleConfig** (`RuleConfigProofs`; no hypotheses: any modules without the firewall, any
ports, any stored rules of the modelled shapes, any typed command lines)

- `MigratingIsIdempotent` (`MigrateOnce`), `MigratedRulesAreAccepted`
  (`MigratedIsAccepted`).
- `RunFollowsRule`: `AgentFollowsRule`, which speaks of the port only if the rule names
  one; the defaults contradict the forms (`MCRuleConfigRuleDefault.cfg`). `IInv`: the rule
  asks for what was stored and is what its stage needs (`RuleKept`); the command line still
  to be read and the configuration so far are together those of the rule (`LineRead`); a
  typed line never reaches the stages of a rule (`TypedStages`). The lemmas take a rule through
  each of its shapes, `getopt` through the line item by item, and the option loop through
  the options.

**HostMonitoring** (`HostMonitoringProofs`; assumptions: `ModulesMonitored`, the modules
are among the twelve and each has a bound on its cycles, and `FailedIsNoAnswer`, a failed
call is told from the answers of a UPS. Any rules, any number of cycles, changes and failed
calls wherever they fall; the devices are those of the modules)

- `HInv` is the inductive invariant. No property here is inductive: each speaks of a
  result, which was computed from a section, which was made of replies that came from a
  device that may have changed since. `AskedOK` says of every reply that some device of
  the module gives it (this one, as long as nothing changed; under WiFi none of another
  driver); `SectionOK` that a section is made of these replies once no call is due;
  `ResultsOK` that results are what the checks make of this section, and none outlives its
  cycle. It is proved action by action (`HStep`) without looking into any check.
- `TypeCorrect` (`TypeOK`) also needs `CallsOK`, that no call was made which the replies do
  not ask for. Pools, UPS and WiFi have calls that depend on replies: it holds because
  another reply never takes back a call that was made (`CallsStep`).
- From `HInv` the rest follows module by module, from what its parser and its check do with
  a reply: `InfoReal` (`InfoOkIsReal`), `StoppedFanReported` (`StoppedFanIsReported`),
  `CurrentSurvives` (`CurrentSurvivesUnits`), `PoolReal` (`PoolOkIsReal`), `UpsOwnMonitor`
  (`UpsJudgedByOwnMonitor`), `DownRadioReported` (`DownRadioIsReported`),
  `DeadPeerReported` (`DeadPeerIsNotOk`), and over all checks
  `CrashesExplained` (`CrashesOnlyWithoutDisabled`).
- The parsers of VRRP, files and OSPF take the lines of all rows in one fold, so a line may
  end up with a row it does not belong to: `VrrpOwnRole` (`VrrpOkIsOwnRole`), `FilesOwnRow`
  (`FilesJudgedByOwnRows`) and `NeighboursOwnRows` (`NeighboursJudgedByOwnRows`). `Reads`
  says that the parser comes from one state to another over given lines; the fold ends
  where reading line after line ends (`FoldedReads`, by induction on the number of lines,
  for any lines), and lines can be read row by row and field by field (`ReadsFlattened`).
  For VRRP and files a row leaves its word with its own fields and nothing else
  (`PiecesRead`), so each word has what one row of that name says (`Kept`). OSPF may
  go on with an adjacency that is complete: `Names` says that every adjacency so far has a
  state and which states go with which router-id, and a row without a router-id changes
  nothing of it (`TakeKeeps`), because a state is never overwritten.
- `ClientsOnce` (`ClientsCountedOnce`) sets a sum over the SSIDs of the section against a
  number of rows. `CountsSum` says that what is counted under each value of a function adds
  up to what has one of these values, over any finite sets and in whatever order the values
  are taken; `ClientLineKnown` that the SSID of a client is known to the parser if its row
  or an enabled radio names one, wherever the agent or the parser found it.
- The two action properties: `CountersOwn` (`CountersCountTheirOwn`) and `NoResultCounts`
  (`NoResultStoresACounter`). `CheckServices` is the only step that writes a counter, and
  what it writes is from the rows of this cycle.
- Hypotheses. `TypeCorrect`, `CrashesExplained`, `InfoReal` and `NoResultCounts` have
  `AllAccepted`: every rule is one its check can read. `StoppedFanReported` has
  `FanLimits`: a fan's lower levels are switched off or are numbers whose critical one is
  above zero. TLC evaluates both on the rules of the forms (`FormsAreAccepted` in
  `MCHostMonitoring`; the rules for files in their bare form, as in the run). The other
  theorems hold for any rule at all.
- `Worst`, `FlattenSeq` and the folds over fields are written with a function
  chosen by its recursive equations; `MaxIn`, `FlattenIsJoined` and the lemmas of
  the parsers give that function for the sets and lengths of the model.

Only model-checked:

- liveness, which is out of the prover's reach: `Termination`, `Returns` and the
  fairness in `ImplementsChannel`;
- `OrderDoesNotMatter` of `RuleConfig`: it is about the command lines of the run, and not
  true of any, since an argument may look like an option.

No module uses a RECURSIVE operator: parsers are folds.

## What the violations show

- `api_write_multibyte`: the changelog lists multibyte characters in API calls as fixed in
  2.5.2. A word with one is announced too short. Reading has a limit of its own, a condition
  of `ImplementsChannel`: a row is torn when TCP divides it inside a non-ASCII character.
- `bgp_prefix`: `startswith` counts the sessions of `peer2` for `peer`.
- `ipsec_shared`: the `break` behind the first peer of a local address.
- `host_file_levels`: the check takes its levels for a bare pair, which is what its
  defaults are; the form stores `("fixed", pair)` or `("no_levels", None)`.

Apart from the runs stand configurations for smaller disagreements between the code and what
the repository says of it; TLC finds the one property of each violated
(`tlc -config MCIpsecWarn.cfg MCIpsecTunnels`). The properties of the
passing runs leave these cases open, but for `BadStateIsReported`, which follows the manual
page against the form.

| configuration | property | the repository says | the code does |
|---|---|---|---|
| `AgentRunTorn.cfg` (`AgentRun`) | `WholeRowsAnswer` | `CHANGELOG.MD`:369, "Bug with multibyte characters in API call.", fixed | the exception of a torn row is caught (`ipsec.address`), the rest of its reply stays on the wire, and the next call, which has no handler (`license`), takes a whole row of it for its own |
| `MCBgpSessionsDisabled.cfg` (`MCBgpSessions`) | `DisabledIsWarn` | `checkman/mikrotik_bgp`:9, "{WARN} if disabled" | `agent_based/mikrotik_bgp.py`:66, CRIT for whatever is not established |
| `MCIpsecWarn.cfg` (`MCIpsecTunnels`) | `BadStateIsWarn` | `rulesets/mikrotik_checks.py`:260, "Any SA state not in this list will result in a WARN." | `agent_based/mikrotik_ipsec.py`:131, CRIT, which is what `checkman/mikrotik_ipsec`:10 says and `BadStateIsReported` checks |
| `MCRuleConfigRuleDefault.cfg` (`MCRuleConfig`) | `RuleDefaultPort` | `rulesets/mikrotik_agent.py`:161, "Default is 8729 (SSL) or 8728 (no SSL)." | `server_side_calls/mikrotik.py`:103, 8729 in either case |
| `MCRuleConfigCallDefault.cfg` (`MCRuleConfig`) | `CallDefaultPort` | `libexec/agent_mikrotik`:71, "443 (REST API, 80 with --no-ssl)" | 705-712, `-n` sets 8728 and `--rest` 443, whichever comes later |
| `MCHostVrrpNames.cfg` (`MCHostMonitoring`) | `OneServicePerInstance` | `checkman/mikrotik_vrrp`:23, "One service per VRRP instance of the device." | `agent_based/mikrotik_vrrp.py`:26, the item is the first word of a name, the later row wins |
| `MCHostVrrpCrash.cfg` (`MCHostMonitoring`) | `NoCheckCrashes` | `agent_based/mikrotik_vrrp.py`:51-52, the field may be missing | line 55 reads it without a default: KeyError |
| `MCHostFileNames.cfg` (`MCHostMonitoring`) | `OneServicePerFile` | `checkman/mikrotik_file`:28, "one service per file" | `agent_based/mikrotik_file.py`:32, as for VRRP |
| `MCHostWatchdog.cfg` (`MCHostMonitoring`) | `WatchdogFileIsCrit` | `checkman/mikrotik_file`:15, "{OK} if missing and {CRIT} on existing" | `agent_based/mikrotik_file.py`:42, a list that fails looks like one without the file |
| `MCHostBoardVersion.cfg` (`MCHostMonitoring`) | `OldVersionIsReported` | `checkman/mikrotik_board`:12-13, "the check goes {WARN} if the installed version is below it" | `agent_based/mikrotik_board.py`:63, no version, no comparison: OK if `/system/resource` fails and `/system/routerboard` is answered |

`OrderDoesNotMatter` in `rule_config` leaves the port out: `-n` and `-r` bring a default
port and overwrite one that was given before them.

## Plan

An abstract request-response specification that `AgentRun` implements.

## Not modelled

- ssl, opening sockets and HTTP, the lookup of stored passwords: calls of a library.
- The inventories of board, UPS and WiFi, metrics and summaries, and health temperatures,
  which go to a check of Checkmk: no state depends on them.
- `graphing/`, `checkman/`, titles, help and layout of the forms: declarations.
- `build_mkp.py`: packs files where the package is made, never where it runs.
- `special_agents/mikrotik.py`: an earlier way to build the command line, superseded by
  `server_side_calls/mikrotik.py`.

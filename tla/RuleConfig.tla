----------------------------- MODULE RuleConfig -----------------------------
(***************************************************************************)
(* The way of a stored rule to the configuration of an agent run: the rule *)
(* is migrated (rulesets/mikrotik_agent.py, any number of times), parsed   *)
(* and turned into a command line (server_side_calls/mikrotik.py), and the *)
(* agent reads that command line option by option and picks its modules.   *)
(* A user may also call the agent with a command line of his own.          *)
(*                                                                         *)
(* A key of a rule that may be missing has the value "absent".  A token of *)
(* a command line has a text, and mods if it is a list of modules.         *)
(***************************************************************************)
EXTENDS Naturals, SequencesExt

CONSTANTS
    Modules,       \* modules with a tick box (the firewall has its own)
    Ports,         \* ports a rule or a user may name
    StoredRules,   \* rules in the configuration, a subset of Rules
    CommandLines   \* what users type behind agent_mikrotik

VARIABLES
    stage,    \* "stored", "migrated", "parsed", "getopt", "options", "run", "usage", "error"
    stored,   \* <<the rule as it was stored>>, or <<>>: the agent is called by hand
    rule,     \* the same as it is now
    line,     \* the command line
    argv,     \* tokens getopt has not looked at
    opts,     \* options the agent has not looked at: [opt, arg]
    cfg,      \* the agent's configuration
    active    \* the agent's active modules

vars == <<stage, stored, rule, line, argv, opts, cfg, active>>

OptInModules == {"wifi", "wireguard", "ntp", "pools", "ups"}
CommandSet ==
    {"bgp", "ospf", "health", "board", "vrrp", "ipsec", "file", "firewall", "license",
     "wifi", "pools", "ups", "wireguard", "ntp"}

Option == {"absent", "yes", "no"}
Given(a, b) == IF a # "absent" THEN a ELSE b

\* A rule.  infos was a list of names (on) once, then a dict; firewall was a name of
\* that list, a plain True, or a dict with its keys in two spellings.
NoFirewall == [form |-> "absent", enabled |-> "absent", hyphened |-> "absent",
               show |-> "absent"]
Firewalls ==
    {NoFirewall, [NoFirewall EXCEPT !.form = "true"]} \cup
    {f \in [form : {"dict"}, enabled : Option, hyphened : Option, show : Option] :
        f.hyphened = "absent" \/ f.show = "absent"}
Infos ==
    {[form |-> "absent", on |-> {}, off |-> {}, firewall |-> NoFirewall]} \cup
    [form : {"list"}, on : SUBSET (Modules \cup {"firewall"}), off : {{}},
     firewall : {NoFirewall}] \cup
    {i \in [form : {"dict"}, on : SUBSET Modules, off : SUBSET Modules,
            firewall : Firewalls] : i.on \cap i.off = {}}
\* The two ssl flags in either spelling, or the newer choice instead of them.
Rules ==
    {r \in [no_ssl_hyphened : Option, no_ssl : Option, skip_hyphened : Option,
            skip : Option, ssl_mode : {"absent", "ssl", "ssl_skip", "no_ssl"},
            rest : {"absent", "yes"}, connect : {"absent"} \cup Ports, infos : Infos] :
        /\ r.no_ssl_hyphened = "absent" \/ r.no_ssl = "absent"
        /\ r.skip_hyphened = "absent" \/ r.skip = "absent"
        /\ r.ssl_mode # "absent" =>
              {r.no_ssl_hyphened, r.no_ssl, r.skip_hyphened, r.skip} = {"absent"}}

ASSUME ModulesAssumption == Modules \subseteq CommandSet \ {"firewall"}
ASSUME PortsAssumption == "absent" \notin Ports
ASSUME StoredRulesAssumption == StoredRules \subseteq Rules

-----------------------------------------------------------------------------
(* rulesets/mikrotik_agent.py                                              *)

SslMode(no_ssl, skip) ==
    CASE no_ssl = "yes" -> "no_ssl"
      [] no_ssl # "yes" /\ skip = "yes" -> "ssl_skip"
      [] OTHER -> "ssl"

\* Faulty variant: the plain True of a list is left as it is.
MigrateFirewallKeepsTrue(f) == f

MigrateFirewall(f) ==
    CASE f.form = "true" -> [NoFirewall EXCEPT !.form = "dict", !.enabled = "yes", !.show = "no"]
      [] f.form = "dict" -> [NoFirewall EXCEPT !.form = "dict",
                              !.enabled = IF f.enabled = "absent" THEN "no" ELSE f.enabled,
                              !.show = IF Given(f.hyphened, f.show) = "absent" THEN "no"
                                       ELSE Given(f.hyphened, f.show)]
      [] OTHER -> f

\* Faulty variant: the opt-in modules are set to off, ticked or not.
MigrateInfosResets(i) ==
    IF i.form = "absent" THEN i
    ELSE [form |-> "dict", on |-> i.on \ (OptInModules \cup {"firewall"}),
          off |-> i.off \cup OptInModules,
          firewall |-> MigrateFirewall(
              IF "firewall" \in i.on THEN [NoFirewall EXCEPT !.form = "true"] ELSE i.firewall)]

\* A list becomes a dict of ticked boxes; opt-in modules a rule does not know are off.
MigrateInfos(i) ==
    IF i.form = "absent" THEN i
    ELSE [form |-> "dict", on |-> i.on \ {"firewall"},
          off |-> i.off \cup (OptInModules \ i.on),
          firewall |-> MigrateFirewall(
              IF "firewall" \in i.on THEN [NoFirewall EXCEPT !.form = "true"] ELSE i.firewall)]

\* Faulty variant: the ssl mode is derived from the old flags every time.
MigrateParamsAgain(r) ==
    [r EXCEPT
        !.ssl_mode = SslMode(Given(r.no_ssl_hyphened, r.no_ssl),
                             Given(r.skip_hyphened, r.skip)),
        !.no_ssl_hyphened = "absent", !.no_ssl = "absent",
        !.skip_hyphened = "absent", !.skip = "absent",
        !.infos = MigrateInfos(r.infos)]

MigrateParams(r) ==
    [r EXCEPT
        !.ssl_mode = IF r.ssl_mode # "absent" THEN r.ssl_mode
                     ELSE SslMode(Given(r.no_ssl_hyphened, r.no_ssl),
                                  Given(r.skip_hyphened, r.skip)),
        !.no_ssl_hyphened = "absent", !.no_ssl = "absent",
        !.skip_hyphened = "absent", !.skip = "absent",
        !.infos = MigrateInfos(r.infos)]

-----------------------------------------------------------------------------
(* server_side_calls/mikrotik.py                                           *)

\* from_raw works on a dict only; anything else in these places is an exception.
Parsable(r) == r.infos.form # "list" /\ r.infos.firewall.form # "true"

FromRaw(r) ==
    [rest    |-> r.rest = "yes",
     ssl     |-> IF r.ssl_mode # "absent" THEN r.ssl_mode
                 ELSE SslMode(Given(r.no_ssl_hyphened, r.no_ssl),
                              Given(r.skip_hyphened, r.skip)),
     connect |-> Given(r.connect, "8729"),
     mods    |-> r.infos.on,
     enabled |-> r.infos.firewall.enabled = "yes",
     show    |-> Given(r.infos.firewall.hyphened, r.infos.firewall.show) = "yes"]

Tok(t) == [text |-> t, mods |-> {}]
ModList(mods) == [text |-> "list", mods |-> mods]

ModulesOf(p) ==
    p.mods \cup (IF ~p.enabled THEN {}
                 ELSE IF p.show THEN {"firewall:show-disabled"} ELSE {"firewall"})

Commands(p) ==
    <<Tok("--user"), Tok("admin"), Tok("--pass"), Tok("secret")>> \o
    (CASE p.ssl = "no_ssl" -> <<Tok("--no-ssl")>>
       [] p.ssl = "ssl_skip" -> <<Tok("--skip-cert-check")>>
       [] OTHER -> <<>>) \o
    (IF p.rest THEN <<Tok("--rest")>> ELSE <<>>) \o
    <<Tok("--connect"), Tok(p.connect)>> \o
    (IF ModulesOf(p) = {} THEN <<>> ELSE <<Tok("--modules"), ModList(ModulesOf(p))>>) \o
    <<Tok("host")>>

-----------------------------------------------------------------------------
(* The agent's options.  'h:u:p:nc:c:i:r:t' gives -h and -r an argument.   *)

Flag == {"--help", "--debug", "-n", "--no-ssl", "-t", "--skip-cert-check", "--rest"}
Taking == {"-u", "--user", "-p", "--pass", "-c", "--connect", "-i", "--modules", "-h", "-r"}
Options == Flag \cup Taking

Defaults ==
    [secure |-> TRUE, port |-> "8729", restful |-> FALSE, certcheck |-> TRUE,
     user |-> FALSE, password |-> FALSE, mortypes |-> {"all"}, show |-> FALSE]

\* Faulty variant: the second list of modules is added to the first.
ApplyAddsLists(c, o, a) ==
    CASE o \in {"-u", "--user"} -> [c EXCEPT !.user = TRUE]
      [] o \in {"-p", "--pass"} -> [c EXCEPT !.password = TRUE]
      [] o \in {"-n", "--no-ssl"} -> [c EXCEPT !.secure = FALSE, !.port = "8728"]
      [] o \in {"-t", "--skip-cert-check"} -> [c EXCEPT !.certcheck = FALSE]
      [] o \in {"-r", "--rest"} -> [c EXCEPT !.restful = TRUE, !.port = "443"]
      [] o \in {"-c", "--connect"} -> [c EXCEPT !.port = a.text]
      [] o \in {"-i", "--modules"} -> [c EXCEPT !.mortypes = @ \cup a.mods]
      [] OTHER -> c

\* The effect of option o with argument a.
Apply(c, o, a) ==
    CASE o \in {"-u", "--user"} -> [c EXCEPT !.user = TRUE]
      [] o \in {"-p", "--pass"} -> [c EXCEPT !.password = TRUE]
      [] o \in {"-n", "--no-ssl"} -> [c EXCEPT !.secure = FALSE, !.port = "8728"]
      [] o \in {"-t", "--skip-cert-check"} -> [c EXCEPT !.certcheck = FALSE]
      [] o \in {"-r", "--rest"} -> [c EXCEPT !.restful = TRUE, !.port = "443"]
      [] o \in {"-c", "--connect"} -> [c EXCEPT !.port = a.text]
      [] o \in {"-i", "--modules"} ->
            [c EXCEPT !.mortypes = (a.mods \ {"firewall:show-disabled"}) \cup
                        (IF "firewall:show-disabled" \in a.mods THEN {"firewall"} ELSE {}),
                      !.show = c.show \/ "firewall:show-disabled" \in a.mods]
      [] OTHER -> c

\* The modules made active (of the command set of RouterOS 7).
Activated(mortypes) ==
    {m \in CommandSet : m \in mortypes \/ ("all" \in mortypes /\ m \notin OptInModules)}

-----------------------------------------------------------------------------
(* The steps.                                                              *)

\* Checkmk migrates a rule whenever the rule is edited, again and again.
Migrate ==
    /\ stage \in {"stored", "migrated"}
    /\ rule' = <<MigrateParams(rule[1])>> /\ stage' = "migrated"
    /\ UNCHANGED <<stored, line, argv, opts, cfg, active>>

\* The rule is used for a host: from_raw, then the command line.
CallAgent ==
    /\ stage \in {"stored", "migrated"}
    /\ IF Parsable(rule[1])
       THEN stage' = "getopt" /\ line' = Commands(FromRaw(rule[1])) /\ argv' = line'
       ELSE stage' = "error" /\ UNCHANGED <<line, argv>>
    /\ UNCHANGED <<stored, rule, opts, cfg, active>>

\* getopt takes an option and its argument.  When the argument is missing the
\* handler names an undefined err, and the agent ends with that traceback.
GetOption ==
    /\ stage = "getopt" /\ argv # <<>> /\ Head(argv).text \in Options
    /\ LET o == Head(argv).text IN
        IF o \in Flag
        THEN /\ opts' = Append(opts, [opt |-> o, arg |-> Tok("")])
             /\ argv' = Tail(argv) /\ UNCHANGED stage
        ELSE IF Len(argv) = 1
        THEN stage' = "error" /\ UNCHANGED <<argv, opts>>
        ELSE /\ opts' = Append(opts, [opt |-> o, arg |-> argv[2]])
             /\ argv' = Tail(Tail(argv)) /\ UNCHANGED stage
    /\ UNCHANGED <<stored, rule, line, cfg, active>>

\* The first token that is no option ends getopt: the rest is args.
GetArguments ==
    /\ stage = "getopt" /\ (argv # <<>> => Head(argv).text \notin Options)
    /\ stage' = "options"
    /\ UNCHANGED <<stored, rule, line, argv, opts, cfg, active>>

\* The loop over the options.
ApplyOption ==
    /\ stage = "options" /\ opts # <<>>
    /\ IF Head(opts).opt \in {"-h", "--help"}
       THEN stage' = "usage" /\ UNCHANGED cfg
       ELSE cfg' = Apply(cfg, Head(opts).opt, Head(opts).arg) /\ UNCHANGED stage
    /\ opts' = Tail(opts)
    /\ UNCHANGED <<stored, rule, line, argv, active>>

\* One argument, the host, and user and password must be there.
Start ==
    /\ stage = "options" /\ opts = <<>>
    /\ IF Len(argv) = 1 /\ cfg.user /\ cfg.password
       THEN stage' = "run" /\ active' = Activated(cfg.mortypes)
       ELSE stage' = "error" /\ UNCHANGED active
    /\ UNCHANGED <<stored, rule, line, argv, opts, cfg>>

Init ==
    /\ \/ \E r \in StoredRules : stored = <<r>> /\ stage = "stored" /\ line = <<>>
       \/ stored = <<>> /\ stage = "getopt" /\ line \in CommandLines
    /\ argv = line /\ rule = stored /\ opts = <<>> /\ cfg = Defaults /\ active = {}

Next == Migrate \/ CallAgent \/ GetOption \/ GetArguments \/ ApplyOption \/ Start

Spec == Init /\ [][Next]_vars

-----------------------------------------------------------------------------
(* What a stored rule asks for, whichever of its shapes it is stored in.   *)

Says(r, key) == r[key] = "yes"
AskedMode(r) ==
    IF r.ssl_mode # "absent" THEN r.ssl_mode
    ELSE IF Says(r, "no_ssl") \/ Says(r, "no_ssl_hyphened") THEN "no_ssl"
    ELSE IF Says(r, "skip") \/ Says(r, "skip_hyphened") THEN "ssl_skip"
    ELSE "ssl"
FirewallAsked(r) ==
    \/ "firewall" \in r.infos.on
    \/ r.infos.firewall.form = "true" \/ Says(r.infos.firewall, "enabled")
AskedModules(r) ==
    (r.infos.on \ {"firewall"}) \cup (IF FirewallAsked(r) THEN {"firewall"} ELSE {})
DisabledAsked(r) ==
    FirewallAsked(r) /\ (Says(r.infos.firewall, "show") \/ Says(r.infos.firewall, "hyphened"))

ByRule == stage = "run" /\ stored # <<>>

\* CHANGELOG.MD:186: "the agent default all (a rule with no module ticked) does not
\* include it".  The run does what the stored rule asks for, through every number
\* of migrations (none included) and both spellings: connection security,
\* certificate check, the port if the rule names one, and exactly the modules ticked,
\* or all but the opt-in modules when none is.
AgentFollowsRule ==
    ByRule =>
        LET r == stored[1] IN
        /\ cfg.secure = (AskedMode(r) # "no_ssl")
        /\ cfg.certcheck = (AskedMode(r) # "ssl_skip")
        /\ cfg.restful = Says(r, "rest")
        /\ r.connect # "absent" => cfg.port = r.connect
        /\ active = IF AskedModules(r) = {} THEN CommandSet \ OptInModules
                                            ELSE AskedModules(r)
        /\ cfg.show = DisabledAsked(r)

\* rulesets/mikrotik_agent.py:161: "Default is 8729 (SSL) or 8728 (no SSL)", for a rule
\* that names no port and uses the API.
RuleDefaultPort ==
    (ByRule /\ stored[1].connect = "absent" /\ ~cfg.restful) =>
        cfg.port = IF cfg.secure THEN "8729" ELSE "8728"

\* A rule that was migrated is never refused by the parser behind it: only a rule
\* in its oldest shapes, used without having been migrated, ends in an exception.
MigratedIsAccepted ==
    (stored # <<>> /\ stage = "error") => rule = stored /\ ~Parsable(stored[1])

\* Migrating a migrated rule again leaves it as it is.
MigrateOnce == [][stage = "migrated" /\ stage' = "migrated" => rule' = rule]_vars

\* A call by hand: whatever the order of the options, connection security, certificate
\* check and API are those that were asked for, and an opt-in module runs only if the
\* last list names it.  (The port and the choice among several lists do depend on the
\* order.  -r takes the next token away, so calls with -r are left out.)
Typed == {line[k].text : k \in DOMAIN line}
LastList == LET k == SelectLastInSeq(line, LAMBDA t : t.text = "list")
            IN  IF k = 0 THEN {} ELSE line[k].mods
ByHand == stage = "run" /\ stored = <<>> /\ "-r" \notin Typed
OrderDoesNotMatter ==
    ByHand =>
        /\ cfg.secure = (Typed \cap {"-n", "--no-ssl"} = {})
        /\ cfg.certcheck = (Typed \cap {"-t", "--skip-cert-check"} = {})
        /\ cfg.restful = ("--rest" \in Typed)
        /\ active \cap OptInModules \subseteq LastList

\* agent_mikrotik:69-71, the usage: "8728 (RouterOS API no SSL)", "8729 (RouterOS API
\* SSL)", "443 (REST API, 80 with --no-ssl)", for a call that names no port.
CallDefaultPort ==
    (ByHand /\ Typed \cap {"-c", "--connect"} = {}) =>
        cfg.port = CASE cfg.restful /\ cfg.secure  -> "443"
                     [] cfg.restful /\ ~cfg.secure -> "80"
                     [] ~cfg.restful /\ cfg.secure -> "8729"
                     [] OTHER                      -> "8728"
=============================================================================

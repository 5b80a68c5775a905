-------------------------- MODULE RuleConfigProofs --------------------------
(***************************************************************************)
(* Proofs about RuleConfig, for any set of modules, ports and stored       *)
(* rules: migrating is idempotent, keeps what a rule asks for and makes it *)
(* acceptable; and the loop over the command line a rule is turned into    *)
(* ends with the configuration the rule asks for.  The modules of a rule   *)
(* and its firewall are lifted through every shape they are stored in.     *)
(***************************************************************************)
EXTENDS RuleConfig, SequenceTheorems, TLAPS

FirewallType ==
    [form : {"absent", "true", "dict"}, enabled : Option, hyphened : Option, show : Option]
InfosType ==
    [form : {"absent", "list", "dict"}, on : SUBSET (Modules \cup {"firewall"}),
     off : SUBSET CommandSet, firewall : FirewallType]
RuleType ==
    [no_ssl_hyphened : Option, no_ssl : Option, skip_hyphened : Option, skip : Option,
     ssl_mode : {"absent", "ssl", "ssl_skip", "no_ssl"}, rest : {"absent", "yes"},
     connect : {"absent"} \cup Ports, infos : InfosType]

\* A rule says each thing in one place.
OneSpelling(r) ==
    /\ r.no_ssl_hyphened = "absent" \/ r.no_ssl = "absent"
    /\ r.skip_hyphened = "absent" \/ r.skip = "absent"
    /\ r.ssl_mode # "absent" =>
          /\ r.no_ssl_hyphened = "absent" /\ r.no_ssl = "absent"
          /\ r.skip_hyphened = "absent" /\ r.skip = "absent"
FirewallInOnePlace(i) ==
    /\ i.firewall.hyphened = "absent" \/ i.firewall.show = "absent"
    /\ i.form # "list" => "firewall" \notin i.on
    /\ i.form # "dict" => i.firewall = NoFirewall
    /\ i.firewall.form # "dict" =>
          /\ i.firewall.enabled = "absent" /\ i.firewall.hyphened = "absent"
          /\ i.firewall.show = "absent"
    /\ i.form = "absent" => i.on = {}
Sound(r) == r \in RuleType /\ OneSpelling(r) /\ FirewallInOnePlace(r.infos)

\* A rule that needs no migration.
MigratedInfos(i) ==
    /\ i.form # "list" /\ i.firewall.form # "true"
    /\ i.form = "dict" => OptInModules \subseteq i.on \cup i.off
    /\ i.firewall.form = "dict" =>
          /\ i.firewall.enabled # "absent" /\ i.firewall.hyphened = "absent"
          /\ i.firewall.show # "absent"
Migrated(r) == r.ssl_mode # "absent" /\ MigratedInfos(r.infos)

\* Two rules that ask for the same run.
SameRequest(r, s) ==
    /\ AskedMode(r) = AskedMode(s) /\ r.rest = s.rest /\ r.connect = s.connect
    /\ AskedModules(r) = AskedModules(s) /\ DisabledAsked(r) = DisabledAsked(s)

-----------------------------------------------------------------------------
\* The rules that are stored say each thing in one place.
LEMMA StoredIsSound == \A r \in StoredRules : Sound(r)
<1> SUFFICES ASSUME NEW r \in Rules PROVE Sound(r)
  BY StoredRulesAssumption
<1>1. /\ r \in [no_ssl_hyphened : Option, no_ssl : Option, skip_hyphened : Option,
                skip : Option, ssl_mode : {"absent", "ssl", "ssl_skip", "no_ssl"},
                rest : {"absent", "yes"}, connect : {"absent"} \cup Ports, infos : Infos]
      /\ OneSpelling(r)
  BY DEF Rules, OneSpelling
<1>2. \A f \in Firewalls :
          /\ f \in FirewallType
          /\ f.hyphened = "absent" \/ f.show = "absent"
          /\ f.form # "dict" =>
                /\ f.enabled = "absent" /\ f.hyphened = "absent" /\ f.show = "absent"
  BY DEF Firewalls, NoFirewall, FirewallType, Option
<1>3. /\ NoFirewall \in FirewallType /\ NoFirewall.form = "absent"
      /\ NoFirewall.enabled = "absent" /\ NoFirewall.hyphened = "absent"
      /\ NoFirewall.show = "absent"
  BY DEF NoFirewall, FirewallType, Option
<1>4. \A i \in Infos : i \in InfosType /\ FirewallInOnePlace(i)
  <2> SUFFICES ASSUME NEW i \in Infos PROVE i \in InfosType /\ FirewallInOnePlace(i)
    OBVIOUS
  <2>1. CASE i = [form |-> "absent", on |-> {}, off |-> {}, firewall |-> NoFirewall]
    BY <2>1, <1>3 DEF InfosType, FirewallInOnePlace
  <2>2. CASE i \in [form : {"list"}, on : SUBSET (Modules \cup {"firewall"}), off : {{}},
                    firewall : {NoFirewall}]
    <3>1. /\ i.form = "list" /\ i.on \subseteq Modules \cup {"firewall"} /\ i.off = {}
          /\ i.firewall = NoFirewall
          /\ i = [form |-> i.form, on |-> i.on, off |-> i.off, firewall |-> i.firewall]
      BY <2>2
    <3> QED
      BY <3>1, <1>3 DEF InfosType, FirewallInOnePlace
  <2>3. CASE i \in [form : {"dict"}, on : SUBSET Modules, off : SUBSET Modules,
                    firewall : Firewalls]
    <3>1. /\ i.form = "dict" /\ i.on \subseteq Modules /\ i.off \subseteq Modules
          /\ i.firewall \in Firewalls
          /\ i = [form |-> i.form, on |-> i.on, off |-> i.off, firewall |-> i.firewall]
      BY <2>3
    <3> QED
      BY <3>1, <1>2, ModulesAssumption DEF InfosType, FirewallInOnePlace
  <2> QED
    BY <2>1, <2>2, <2>3 DEF Infos
<1> QED
  BY <1>1, <1>4 DEF Sound, RuleType

\* Migrating a firewall keeps what it asks for.
LEMMA FirewallMigration ==
    ASSUME NEW f \in FirewallType
    PROVE  LET m == MigrateFirewall(f) IN
           /\ m \in FirewallType
           /\ m.form # "true"
           /\ f.form = "absent" => m = f
           /\ f.form # "absent" => /\ m.form = "dict" /\ m.enabled # "absent"
                                   /\ m.hyphened = "absent" /\ m.show # "absent"
           /\ f.form = "dict" => /\ (m.enabled = "yes") <=> (f.enabled = "yes")
                                 /\ (m.show = "yes") <=> (Given(f.hyphened, f.show) = "yes")
           /\ f.form = "true" => m.enabled = "yes" /\ m.show = "no"
           /\ (/\ f.form = "dict" /\ f.enabled # "absent"
               /\ f.hyphened = "absent" /\ f.show # "absent") => m = f
<1>1. CASE f.form = "absent"
  BY <1>1 DEF MigrateFirewall, FirewallType
<1>2. CASE f.form = "true"
  BY <1>2 DEF MigrateFirewall, FirewallType, NoFirewall, Option
<1>3. CASE f.form = "dict"
  <2> DEFINE shown == Given(f.hyphened, f.show)
             enabled == IF f.enabled = "absent" THEN "no" ELSE f.enabled
             show == IF shown = "absent" THEN "no" ELSE shown
  <2>1. MigrateFirewall(f) = [form |-> "dict", enabled |-> enabled, hyphened |-> "absent",
                              show |-> show]
    BY <1>3 DEF MigrateFirewall, NoFirewall
  <2>2. /\ f.enabled \in Option /\ f.hyphened \in Option /\ f.show \in Option
        /\ f = [form |-> f.form, enabled |-> f.enabled, hyphened |-> f.hyphened,
                show |-> f.show]
    BY DEF FirewallType
  <2>3. shown \in Option /\ (f.hyphened = "absent" => shown = f.show)
    BY <2>2 DEF Given
  <2>4. enabled \in Option \ {"absent"} /\ show \in Option \ {"absent"}
        /\ (f.enabled # "absent" => enabled = f.enabled)
        /\ ((enabled = "yes") <=> (f.enabled = "yes")) /\ ((show = "yes") <=> (shown = "yes"))
        /\ ((f.hyphened = "absent" /\ f.show # "absent") => show = f.show)
    BY <2>2, <2>3 DEF Option
  <2> HIDE DEF shown, enabled, show
  <2> DEFINE m == MigrateFirewall(f)
  <2>5. m.form = "dict" /\ m.enabled = enabled /\ m.hyphened = "absent" /\ m.show = show
        /\ m \in FirewallType
    BY <2>1, <2>4 DEF FirewallType, Option
  <2>6. (f.enabled # "absent" /\ f.hyphened = "absent" /\ f.show # "absent") => m = f
    BY <1>3, <2>1, <2>2, <2>4
  <2> HIDE DEF m
  <2>7. (m.show = "yes") <=> (Given(f.hyphened, f.show) = "yes")
    BY <2>4, <2>5 DEF shown
  <2> QED
    BY <1>3, <2>4, <2>5, <2>6, <2>7 DEF m
<1> QED
  BY <1>1, <1>2, <1>3 DEF FirewallType

\* Migrating the modules keeps what they ask for and puts it in one place.
LEMMA InfosMigration ==
    ASSUME NEW i \in InfosType, FirewallInOnePlace(i)
    PROVE  LET m == MigrateInfos(i) IN
           /\ m \in InfosType /\ FirewallInOnePlace(m) /\ MigratedInfos(m)
           /\ MigratedInfos(i) => m = i
           /\ m.on = i.on \ {"firewall"}
           /\ (m.firewall.enabled = "yes") <=>
                 (\/ "firewall" \in i.on \/ i.firewall.form = "true"
                  \/ i.firewall.enabled = "yes")
           /\ (m.firewall.enabled = "yes" /\ m.firewall.show = "yes") <=>
                 (/\ \/ "firewall" \in i.on \/ i.firewall.form = "true"
                     \/ i.firewall.enabled = "yes"
                  /\ \/ i.firewall.show = "yes" \/ i.firewall.hyphened = "yes")
<1> DEFINE f == IF "firewall" \in i.on THEN [NoFirewall EXCEPT !.form = "true"] ELSE i.firewall
           m == MigrateInfos(i)
<1>1. /\ i.form \in {"absent", "list", "dict"} /\ i.on \subseteq Modules \cup {"firewall"}
      /\ i.off \subseteq CommandSet /\ i.firewall \in FirewallType
      /\ i = [form |-> i.form, on |-> i.on, off |-> i.off, firewall |-> i.firewall]
  BY DEF InfosType
<1>2. i.firewall.enabled \in Option /\ i.firewall.hyphened \in Option
      /\ i.firewall.show \in Option /\ i.firewall.form \in {"absent", "true", "dict"}
  BY <1>1 DEF FirewallType
<1>3. CASE i.form = "absent"
  <2>1. m = i /\ i.on = {} /\ i.firewall = NoFirewall
    BY <1>3 DEF MigrateInfos, FirewallInOnePlace
  <2>2. /\ i.firewall.form = "absent" /\ i.firewall.enabled = "absent"
        /\ i.firewall.show = "absent" /\ i.firewall.hyphened = "absent"
    BY <2>1 DEF NoFirewall
  <2> QED
    BY <1>3, <2>1, <2>2 DEF MigratedInfos
<1>4. CASE i.form # "absent"
  <2>1. f \in FirewallType
    BY <1>1 DEF NoFirewall, FirewallType, Option
  <2>2. /\ m = [form |-> "dict", on |-> i.on \ {"firewall"},
                off |-> i.off \cup (OptInModules \ i.on), firewall |-> MigrateFirewall(f)]
    BY <1>4 DEF MigrateInfos
  <2> DEFINE g == MigrateFirewall(f)
  <2> HIDE DEF f
  <2>3. /\ g \in FirewallType /\ g.form # "true"
        /\ f.form = "absent" => g = f
        /\ f.form # "absent" => /\ g.form = "dict" /\ g.enabled # "absent"
                                /\ g.hyphened = "absent" /\ g.show # "absent"
        /\ f.form = "dict" => /\ (g.enabled = "yes") <=> (f.enabled = "yes")
                              /\ (g.show = "yes") <=> (Given(f.hyphened, f.show) = "yes")
        /\ f.form = "true" => g.enabled = "yes" /\ g.show = "no"
        /\ (/\ f.form = "dict" /\ f.enabled # "absent"
            /\ f.hyphened = "absent" /\ f.show # "absent") => g = f
    BY <2>1, FirewallMigration
  <2> HIDE DEF g, m
  <2>4. OptInModules \subseteq CommandSet
    BY DEF OptInModules, CommandSet
  <2>5. /\ m.form = "dict" /\ m.on = i.on \ {"firewall"} /\ m.firewall = g
        /\ m.off = i.off \cup (OptInModules \ i.on) /\ m \in InfosType
    BY <1>1, <2>2, <2>3, <2>4 DEF InfosType, g
  <2>6. "firewall" \notin OptInModules
    BY DEF OptInModules
  <2>7. CASE "firewall" \in i.on
    <3>1. f.form = "true" /\ i.form = "list" /\ i.firewall = NoFirewall
      BY <1>4, <2>7, <1>1 DEF FirewallInOnePlace, NoFirewall, f
    <3>2. i.firewall.enabled = "absent" /\ i.firewall.show = "absent"
          /\ i.firewall.hyphened = "absent"
      BY <3>1 DEF NoFirewall
    <3> QED
      BY <2>3, <2>5, <2>6, <2>7, <3>1, <3>2 DEF FirewallInOnePlace, MigratedInfos, m
  <2>8. CASE "firewall" \notin i.on
    <3>1. f = i.firewall
      BY <2>8 DEF f
    <3>2. /\ i.firewall.hyphened = "absent" \/ i.firewall.show = "absent"
          /\ i.firewall.form # "dict" =>
                /\ i.firewall.enabled = "absent" /\ i.firewall.hyphened = "absent"
                /\ i.firewall.show = "absent"
      BY DEF FirewallInOnePlace
    <3>3. FirewallInOnePlace(m) /\ MigratedInfos(m)
      BY <2>3, <2>5, <2>6, <2>8, <3>1, <3>2 DEF FirewallInOnePlace, MigratedInfos
    <3>4. MigratedInfos(i) => m = i
      <4> SUFFICES ASSUME MigratedInfos(i) PROVE m = i
        OBVIOUS
      <4>1. i.form = "dict" /\ OptInModules \subseteq i.on \cup i.off
        BY <1>1, <1>4 DEF MigratedInfos
      <4>2. i.on \ {"firewall"} = i.on /\ i.off \cup (OptInModules \ i.on) = i.off
        BY <2>8, <4>1
      <4>3. g = i.firewall
        BY <1>2, <2>3, <3>1 DEF MigratedInfos
      <4> QED
        BY <1>1, <2>2, <4>1, <4>2, <4>3 DEF g
    <3>5. (g.enabled = "yes") <=> (i.firewall.form = "true" \/ i.firewall.enabled = "yes")
      BY <1>2, <2>3, <3>1, <3>2
    <3>6. (g.enabled = "yes" /\ g.show = "yes") <=>
             (/\ i.firewall.form = "true" \/ i.firewall.enabled = "yes"
              /\ i.firewall.show = "yes" \/ i.firewall.hyphened = "yes")
      BY <1>2, <2>3, <3>1, <3>2 DEF Given
    <3> QED
      BY <2>5, <2>8, <3>3, <3>4, <3>5, <3>6 DEF m
  <2> QED
    BY <2>7, <2>8 DEF m
<1> QED
  BY <1>3, <1>4

\* Migrating a rule keeps what it asks for, and migrating it again changes nothing.
LEMMA RuleMigration ==
    ASSUME NEW r, Sound(r)
    PROVE  /\ Sound(MigrateParams(r)) /\ Migrated(MigrateParams(r))
           /\ SameRequest(MigrateParams(r), r)
           /\ Migrated(r) => MigrateParams(r) = r
<1> DEFINE m == MigrateParams(r)
           i == MigrateInfos(r.infos)
           mode == IF r.ssl_mode # "absent" THEN r.ssl_mode
                   ELSE SslMode(Given(r.no_ssl_hyphened, r.no_ssl),
                                Given(r.skip_hyphened, r.skip))
<1>1. /\ r.no_ssl_hyphened \in Option /\ r.no_ssl \in Option
      /\ r.skip_hyphened \in Option /\ r.skip \in Option
      /\ r.ssl_mode \in {"absent", "ssl", "ssl_skip", "no_ssl"} /\ r.rest \in {"absent", "yes"}
      /\ r.connect \in {"absent"} \cup Ports /\ r.infos \in InfosType
      /\ r = [no_ssl_hyphened |-> r.no_ssl_hyphened, no_ssl |-> r.no_ssl,
              skip_hyphened |-> r.skip_hyphened, skip |-> r.skip, ssl_mode |-> r.ssl_mode,
              rest |-> r.rest, connect |-> r.connect, infos |-> r.infos]
  BY DEF Sound, RuleType
<1>2. m = [no_ssl_hyphened |-> "absent", no_ssl |-> "absent", skip_hyphened |-> "absent",
           skip |-> "absent", ssl_mode |-> mode, rest |-> r.rest, connect |-> r.connect,
           infos |-> i]
  <2>1. m = [r EXCEPT !.ssl_mode = mode, !.no_ssl_hyphened = "absent", !.no_ssl = "absent",
                      !.skip_hyphened = "absent", !.skip = "absent", !.infos = i]
    BY DEF MigrateParams
  <2> HIDE DEF m, i, mode
  <2> QED
    BY <1>1, <2>1
<1>3. mode \in {"ssl", "ssl_skip", "no_ssl"} /\ mode = AskedMode(r)
  BY <1>1 DEF Sound, OneSpelling, SslMode, Given, AskedMode, Says, Option
<1>4. /\ i \in InfosType /\ FirewallInOnePlace(i) /\ MigratedInfos(i)
      /\ MigratedInfos(r.infos) => i = r.infos
      /\ i.on = r.infos.on \ {"firewall"}
      /\ (i.firewall.enabled = "yes") <=>
            (\/ "firewall" \in r.infos.on \/ r.infos.firewall.form = "true"
             \/ r.infos.firewall.enabled = "yes")
      /\ (i.firewall.enabled = "yes" /\ i.firewall.show = "yes") <=>
            (/\ \/ "firewall" \in r.infos.on \/ r.infos.firewall.form = "true"
                \/ r.infos.firewall.enabled = "yes"
             /\ \/ r.infos.firewall.show = "yes" \/ r.infos.firewall.hyphened = "yes")
  BY <1>1, InfosMigration DEF Sound
<1> HIDE DEF m, i, mode
<1>5. Sound(m) /\ Migrated(m)
  BY <1>1, <1>2, <1>3, <1>4 DEF Sound, RuleType, OneSpelling, Migrated, Option
<1>6. AskedMode(m) = AskedMode(r) /\ m.rest = r.rest /\ m.connect = r.connect
  BY <1>2, <1>3 DEF AskedMode
<1>7. m.infos = i /\ i.firewall.form # "true" /\ "firewall" \notin i.on
      /\ i.firewall.hyphened # "yes"
  <2>1. i.firewall \in FirewallType
    BY <1>4 DEF InfosType
  <2> QED
    BY <1>2, <1>4, <2>1 DEF MigratedInfos, FirewallInOnePlace, FirewallType
<1>8. FirewallAsked(m) <=> FirewallAsked(r)
  BY <1>4, <1>7 DEF FirewallAsked, Says
<1>9. AskedModules(m) = AskedModules(r)
  BY <1>4, <1>7, <1>8 DEF AskedModules
<1>10. DisabledAsked(m) = DisabledAsked(r)
  BY <1>4, <1>7, <1>8 DEF DisabledAsked, FirewallAsked, Says
<1>11. ASSUME Migrated(r) PROVE m = r
  BY <1>1, <1>2, <1>4, <1>11 DEF Sound, OneSpelling, Migrated, mode
<1> QED
  BY <1>5, <1>6, <1>9, <1>10, <1>11 DEF SameRequest, m

\* What from_raw makes of a rule it accepts.
ParamsType ==
    [rest : BOOLEAN, ssl : {"ssl", "ssl_skip", "no_ssl"}, connect : {"8729"} \cup Ports,
     mods : SUBSET (CommandSet \ {"firewall"}), enabled : BOOLEAN, show : BOOLEAN]

\* from_raw makes of a rule what the rule asks for.
LEMMA FromRawFollows ==
    ASSUME NEW r, Sound(r), Parsable(r)
    PROVE  LET p == FromRaw(r) IN
           /\ p \in ParamsType
           /\ p.ssl = AskedMode(r) /\ p.rest = Says(r, "rest")
           /\ p.connect = Given(r.connect, "8729")
           /\ p.mods \cup (IF p.enabled THEN {"firewall"} ELSE {}) = AskedModules(r)
           /\ (p.enabled /\ p.show) = DisabledAsked(r)
<1> DEFINE p == FromRaw(r)
<1>1. /\ r.no_ssl_hyphened \in Option /\ r.no_ssl \in Option
      /\ r.skip_hyphened \in Option /\ r.skip \in Option
      /\ r.ssl_mode \in {"absent", "ssl", "ssl_skip", "no_ssl"} /\ r.rest \in {"absent", "yes"}
      /\ r.connect \in {"absent"} \cup Ports /\ r.infos \in InfosType
  BY DEF Sound, RuleType
<1>2. /\ r.infos.on \subseteq Modules \cup {"firewall"} /\ "firewall" \notin r.infos.on
      /\ r.infos.firewall.form # "true" /\ r.infos.firewall \in FirewallType
      /\ r.infos.firewall.hyphened = "absent" \/ r.infos.firewall.show = "absent"
  BY <1>1 DEF Sound, FirewallInOnePlace, Parsable, InfosType
<1>3. p.ssl \in {"ssl", "ssl_skip", "no_ssl"} /\ p.ssl = AskedMode(r)
  BY <1>1 DEF FromRaw, Sound, OneSpelling, SslMode, Given, AskedMode, Says, Option
<1>4. p.connect = Given(r.connect, "8729") /\ p.connect \in {"8729"} \cup Ports
  <2>1. p.connect = Given(r.connect, "8729")
    BY DEF FromRaw
  <2>2. Given(r.connect, "8729") \in {"8729"} \cup Ports
    BY <1>1 DEF Given
  <2> QED
    BY <2>1, <2>2
<1>5. /\ p.mods = r.infos.on /\ p.rest = (r.rest = "yes")
      /\ p.enabled = (r.infos.firewall.enabled = "yes")
      /\ p.show = (Given(r.infos.firewall.hyphened, r.infos.firewall.show) = "yes")
  BY DEF FromRaw
<1>6. p.mods \subseteq CommandSet \ {"firewall"}
  BY <1>2, <1>5, ModulesAssumption
<1>7. p \in ParamsType
  <2>1. p = [rest |-> p.rest, ssl |-> p.ssl, connect |-> p.connect, mods |-> p.mods,
             enabled |-> p.enabled, show |-> p.show]
    BY DEF FromRaw
  <2> HIDE DEF p
  <2> QED
    BY <1>3, <1>4, <1>5, <1>6, <2>1 DEF ParamsType
<1>8. FirewallAsked(r) = p.enabled
  BY <1>2, <1>5 DEF FirewallAsked, Says
<1>9. p.mods \cup (IF p.enabled THEN {"firewall"} ELSE {}) = AskedModules(r)
  BY <1>2, <1>5, <1>8 DEF AskedModules
<1>10. (p.enabled /\ p.show) = DisabledAsked(r)
  <2>1. p.show <=> (r.infos.firewall.show = "yes" \/ r.infos.firewall.hyphened = "yes")
    BY <1>2, <1>5 DEF Given, FirewallType, Option
  <2> QED
    BY <1>8, <2>1 DEF DisabledAsked, Says
<1> QED
  BY <1>3, <1>4, <1>5, <1>7, <1>9, <1>10 DEF Says
-----------------------------------------------------------------------------
(* The command line of a rule has six items, k = 1 .. 6, some of them      *)
(* present; the host stands behind them.  From item k on it is             *)
(* TokensFrom(p, k), and OptionsFrom(p, k) is what getopt makes of it.     *)

Present(p, k) ==
    IF k = 3 THEN p.ssl # "ssl"
    ELSE IF k = 4 THEN p.rest
    ELSE IF k = 6 THEN ModulesOf(p) # {}
    ELSE TRUE

OptionAt(p, k) ==
    IF k = 1 THEN "--user"
    ELSE IF k = 2 THEN "--pass"
    ELSE IF k = 3 THEN IF p.ssl = "no_ssl" THEN "--no-ssl" ELSE "--skip-cert-check"
    ELSE IF k = 4 THEN "--rest"
    ELSE IF k = 5 THEN "--connect"
    ELSE "--modules"

ArgumentAt(p, k) ==
    IF k = 1 THEN Tok("admin")
    ELSE IF k = 2 THEN Tok("secret")
    ELSE IF k = 5 THEN Tok(p.connect)
    ELSE IF k = 6 THEN ModList(ModulesOf(p))
    ELSE Tok("")

Item(p, k) == [opt |-> OptionAt(p, k), arg |-> ArgumentAt(p, k)]

TokensAt(p, k) ==
    IF ~Present(p, k) THEN <<>>
    ELSE IF k \in {3, 4} THEN <<Tok(OptionAt(p, k))>>
    ELSE <<Tok(OptionAt(p, k)), ArgumentAt(p, k)>>
ItemsAt(p, k) == IF Present(p, k) THEN <<Item(p, k)>> ELSE <<>>

Host == <<Tok("host")>>
Tokens6(p) == TokensAt(p, 6) \o Host
Tokens5(p) == TokensAt(p, 5) \o Tokens6(p)
Tokens4(p) == TokensAt(p, 4) \o Tokens5(p)
Tokens3(p) == TokensAt(p, 3) \o Tokens4(p)
Tokens2(p) == TokensAt(p, 2) \o Tokens3(p)
TokensFrom(p, k) ==
    IF k = 1 THEN TokensAt(p, 1) \o Tokens2(p)
    ELSE IF k = 2 THEN Tokens2(p)
    ELSE IF k = 3 THEN Tokens3(p)
    ELSE IF k = 4 THEN Tokens4(p)
    ELSE IF k = 5 THEN Tokens5(p)
    ELSE IF k = 6 THEN Tokens6(p)
    ELSE Host

Items5(p) == ItemsAt(p, 5) \o ItemsAt(p, 6)
Items4(p) == ItemsAt(p, 4) \o Items5(p)
Items3(p) == ItemsAt(p, 3) \o Items4(p)
Items2(p) == ItemsAt(p, 2) \o Items3(p)
OptionsFrom(p, k) ==
    IF k = 1 THEN ItemsAt(p, 1) \o Items2(p)
    ELSE IF k = 2 THEN Items2(p)
    ELSE IF k = 3 THEN Items3(p)
    ELSE IF k = 4 THEN Items4(p)
    ELSE IF k = 5 THEN Items5(p)
    ELSE IF k = 6 THEN ItemsAt(p, 6)
    ELSE <<>>

ConfigType ==
    [secure : BOOLEAN, port : {"443", "8728", "8729"} \cup Ports, restful : BOOLEAN,
     certcheck : BOOLEAN, user : BOOLEAN, password : BOOLEAN,
     mortypes : SUBSET (CommandSet \cup {"all"}), show : BOOLEAN]

\* c is the configuration when the options before item k have been applied.
Reads(c, p, k) ==
    /\ c \in ConfigType
    /\ c.secure <=> ~(k > 3 /\ p.ssl = "no_ssl")
    /\ k > 5 => c.port = p.connect
    /\ c.restful <=> k > 4 /\ p.rest
    /\ c.certcheck <=> ~(k > 3 /\ p.ssl = "ssl_skip")
    /\ c.user <=> k > 1
    /\ c.password <=> k > 2
    /\ c.mortypes = IF k > 6 /\ ModulesOf(p) # {}
                    THEN p.mods \cup (IF p.enabled THEN {"firewall"} ELSE {}) ELSE {"all"}
    /\ c.show <=> k > 6 /\ p.enabled /\ p.show

Texts == Options \cup Ports \cup {"", "admin", "secret", "8729", "host", "list"}
TokenType == [text : Texts, mods : SUBSET (CommandSet \cup {"firewall:show-disabled"})]
ItemType == [opt : Options, arg : TokenType]

\* Tuples of one and two elements are sequences.
LEMMA Tuples ==
    ASSUME NEW T, NEW a \in T, NEW b \in T
    PROVE  <<a>> \in Seq(T) /\ <<a, b>> \in Seq(T)
OBVIOUS

\* An item of the command line is an option of getopt and its argument, if it takes one.
LEMMA ItemTypes ==
    ASSUME NEW p \in ParamsType, NEW k \in 1 .. 6
    PROVE  /\ Tok(OptionAt(p, k)) \in TokenType /\ ArgumentAt(p, k) \in TokenType
           /\ Item(p, k) \in ItemType /\ Tok("host") \in TokenType
           /\ OptionAt(p, k) \in (IF k \in {3, 4} THEN Flag ELSE Taking)
           /\ OptionAt(p, k) \notin {"-h", "--help"} /\ OptionAt(p, k) \in Options
           /\ k \in {3, 4} => ArgumentAt(p, k) = Tok("")
<1>1. OptionAt(p, k) \in (IF k \in {3, 4} THEN Flag ELSE Taking) \ {"-h", "--help"}
  BY DEF OptionAt, Flag, Taking
<1>2. Tok(OptionAt(p, k)) \in TokenType /\ Tok("host") \in TokenType
      /\ OptionAt(p, k) \in Options
  BY <1>1 DEF Tok, TokenType, Texts, Options
<1>3. ModulesOf(p) \subseteq CommandSet \cup {"firewall:show-disabled"}
  BY DEF ModulesOf, ParamsType, CommandSet
<1>4. ArgumentAt(p, k) \in TokenType /\ (k \in {3, 4} => ArgumentAt(p, k) = Tok(""))
  <2>1. p.connect \in Texts
    BY DEF ParamsType, Texts
  <2>2. Tok(p.connect) \in TokenType /\ ModList(ModulesOf(p)) \in TokenType
    BY <1>3, <2>1 DEF Tok, ModList, TokenType, Texts
  <2>3. Tok("admin") \in TokenType /\ Tok("secret") \in TokenType /\ Tok("") \in TokenType
    BY DEF Tok, TokenType, Texts
  <2>4. ArgumentAt(p, k) \in {Tok("admin"), Tok("secret"), Tok(p.connect),
                               ModList(ModulesOf(p)), Tok("")}
    BY Zenon DEF ArgumentAt
  <2>5. k \in {3, 4} => ArgumentAt(p, k) = Tok("")
    <3> SUFFICES ASSUME k \in {3, 4} PROVE ArgumentAt(p, k) = Tok("")
      OBVIOUS
    <3>1. k # 1 /\ k # 2 /\ k # 5 /\ k # 6
      OBVIOUS
    <3> QED
      BY <3>1, Zenon DEF ArgumentAt
  <2> QED
    BY <2>2, <2>3, <2>4, <2>5
<1> QED
  BY <1>1, <1>2, <1>4 DEF Item, ItemType

\* One item less.
LEMMA FromNext ==
    ASSUME NEW p \in ParamsType, NEW k \in 1 .. 6
    PROVE  /\ TokensFrom(p, k) = TokensAt(p, k) \o TokensFrom(p, k + 1)
           /\ OptionsFrom(p, k) = ItemsAt(p, k) \o OptionsFrom(p, k + 1)
           /\ TokensAt(p, k) \in Seq(TokenType) /\ ItemsAt(p, k) \in Seq(ItemType)
           /\ TokensFrom(p, k) \in Seq(TokenType) /\ TokensFrom(p, k + 1) \in Seq(TokenType)
           /\ OptionsFrom(p, k) \in Seq(ItemType) /\ OptionsFrom(p, k + 1) \in Seq(ItemType)
<1>1. \A j \in 1 .. 6 : TokensAt(p, j) \in Seq(TokenType) /\ ItemsAt(p, j) \in Seq(ItemType)
  <2> SUFFICES ASSUME NEW j \in 1 .. 6
               PROVE  TokensAt(p, j) \in Seq(TokenType) /\ ItemsAt(p, j) \in Seq(ItemType)
    OBVIOUS
  <2>1. /\ Tok(OptionAt(p, j)) \in TokenType /\ ArgumentAt(p, j) \in TokenType
        /\ Item(p, j) \in ItemType
    BY ItemTypes
  <2>2. /\ <<Tok(OptionAt(p, j))>> \in Seq(TokenType)
        /\ <<Tok(OptionAt(p, j)), ArgumentAt(p, j)>> \in Seq(TokenType)
        /\ <<Item(p, j)>> \in Seq(ItemType)
        /\ <<>> \in Seq(TokenType) /\ <<>> \in Seq(ItemType)
    BY <2>1, Tuples, EmptySeq
  <2> QED
    BY <2>2 DEF TokensAt, ItemsAt
<1>2. Host \in Seq(TokenType)
  BY ItemTypes, Tuples DEF Host
<1>3. /\ Tokens6(p) \in Seq(TokenType) /\ Items5(p) \in Seq(ItemType)
  BY <1>1, <1>2, ConcatProperties DEF Tokens6, Items5
<1>4. /\ Tokens5(p) \in Seq(TokenType) /\ Items4(p) \in Seq(ItemType)
  BY <1>1, <1>3, ConcatProperties DEF Tokens5, Items4
<1>5. /\ Tokens4(p) \in Seq(TokenType) /\ Items3(p) \in Seq(ItemType)
  BY <1>1, <1>4, ConcatProperties DEF Tokens4, Items3
<1>6. /\ Tokens3(p) \in Seq(TokenType) /\ Items2(p) \in Seq(ItemType)
  BY <1>1, <1>5, ConcatProperties DEF Tokens3, Items2
<1>7. Tokens2(p) \in Seq(TokenType)
  BY <1>1, <1>6, ConcatProperties DEF Tokens2
<1>8. \A s \in Seq(ItemType) : s \o <<>> = s
  BY ConcatEmptySeq
<1>9. /\ TokensFrom(p, 1) = TokensAt(p, 1) \o TokensFrom(p, 2)
      /\ TokensFrom(p, 2) = TokensAt(p, 2) \o TokensFrom(p, 3)
      /\ TokensFrom(p, 3) = TokensAt(p, 3) \o TokensFrom(p, 4)
      /\ TokensFrom(p, 4) = TokensAt(p, 4) \o TokensFrom(p, 5)
      /\ TokensFrom(p, 5) = TokensAt(p, 5) \o TokensFrom(p, 6)
      /\ TokensFrom(p, 6) = TokensAt(p, 6) \o TokensFrom(p, 7)
  BY DEF TokensFrom, Tokens6, Tokens5, Tokens4, Tokens3, Tokens2
<1>10. \A j \in 2 .. 7 : TokensFrom(p, j) \in Seq(TokenType)
  BY <1>2, <1>3, <1>4, <1>5, <1>6, <1>7 DEF TokensFrom
<1>11. OptionsFrom(p, 6) = ItemsAt(p, 6) \o OptionsFrom(p, 7)
  BY <1>1, <1>8 DEF OptionsFrom
<1>12. /\ OptionsFrom(p, 1) = ItemsAt(p, 1) \o OptionsFrom(p, 2)
       /\ OptionsFrom(p, 2) = ItemsAt(p, 2) \o OptionsFrom(p, 3)
       /\ OptionsFrom(p, 3) = ItemsAt(p, 3) \o OptionsFrom(p, 4)
       /\ OptionsFrom(p, 4) = ItemsAt(p, 4) \o OptionsFrom(p, 5)
       /\ OptionsFrom(p, 5) = ItemsAt(p, 5) \o OptionsFrom(p, 6)
  BY DEF OptionsFrom, Items5, Items4, Items3, Items2
<1>13. \A j \in 2 .. 7 : OptionsFrom(p, j) \in Seq(ItemType)
  <2>1. <<>> \in Seq(ItemType)
    BY EmptySeq
  <2> QED
    BY <1>1, <1>3, <1>4, <1>5, <1>6, <2>1 DEF OptionsFrom
<1>14. /\ k + 1 \in 2 .. 7
       /\ TokensFrom(p, k) = TokensAt(p, k) \o TokensFrom(p, k + 1)
       /\ OptionsFrom(p, k) = ItemsAt(p, k) \o OptionsFrom(p, k + 1)
  <2>1. k = 1 \/ k = 2 \/ k = 3 \/ k = 4 \/ k = 5 \/ k = 6
    OBVIOUS
  <2>2. 1 + 1 = 2 /\ 2 + 1 = 3 /\ 3 + 1 = 4 /\ 4 + 1 = 5 /\ 5 + 1 = 6 /\ 6 + 1 = 7
    OBVIOUS
  <2>3. k + 1 \in 2 .. 7
    OBVIOUS
  <2> QED
    BY <1>9, <1>11, <1>12, <2>1, <2>2, <2>3, Zenon
<1>15. /\ TokensFrom(p, k + 1) \in Seq(TokenType) /\ OptionsFrom(p, k + 1) \in Seq(ItemType)
       /\ TokensAt(p, k) \in Seq(TokenType) /\ ItemsAt(p, k) \in Seq(ItemType)
  BY <1>1, <1>10, <1>13, <1>14
<1>16. TokensFrom(p, k) \in Seq(TokenType) /\ OptionsFrom(p, k) \in Seq(ItemType)
  BY <1>14, <1>15, ConcatProperties
<1> QED
  BY <1>14, <1>15, <1>16

\* Two pairs joined are four elements.
LEMMA TwoAndTwo ==
    ASSUME NEW T, NEW u \in Seq(T), NEW v \in Seq(T), Len(u) = 2, Len(v) = 2
    PROVE  /\ u \o v \in Seq(T) /\ Len(u \o v) = 4
           /\ (u \o v)[1] = u[1] /\ (u \o v)[2] = u[2]
           /\ (u \o v)[3] = v[1] /\ (u \o v)[4] = v[2]
<1>1. /\ u \o v \in Seq(T) /\ Len(u \o v) = 4
      /\ \A i \in 1 .. 4 : (u \o v)[i] = IF i <= 2 THEN u[i] ELSE v[i - 2]
  <2>1. /\ u \o v \in Seq(T) /\ Len(u \o v) = Len(u) + Len(v)
        /\ \A i \in 1 .. Len(u) + Len(v) :
               (u \o v)[i] = IF i <= Len(u) THEN u[i] ELSE v[i - Len(u)]
    BY ConcatProperties
  <2>2. Len(u) + Len(v) = 4
    OBVIOUS
  <2> QED
    BY <2>1, <2>2
<1> QED
  BY <1>1

\* A command line of four tokens is two pairs joined.
LEMMA FourTokens ==
    ASSUME NEW T, NEW a \in T, NEW b \in T, NEW c \in T, NEW d \in T,
           NEW v \in Seq(T), Len(v) = 2, v[1] = c, v[2] = d
    PROVE  <<a, b, c, d>> = <<a, b>> \o v
<1> DEFINE t == <<a, b, c, d>>
           u == <<a, b>>
<1>1. t \in Seq(T) /\ Len(t) = 4 /\ t[1] = a /\ t[2] = b /\ t[3] = c /\ t[4] = d
  OBVIOUS
<1>2. u \in Seq(T) /\ Len(u) = 2 /\ u[1] = a /\ u[2] = b
  BY Tuples
<1> HIDE DEF u, t
<1>3. /\ u \o v \in Seq(T) /\ Len(u \o v) = 4
      /\ (u \o v)[1] = u[1] /\ (u \o v)[2] = u[2]
      /\ (u \o v)[3] = v[1] /\ (u \o v)[4] = v[2]
  BY <1>2, TwoAndTwo
<1>4. (u \o v)[1] = a /\ (u \o v)[2] = b /\ (u \o v)[3] = c /\ (u \o v)[4] = d
  BY <1>2, <1>3
<1>5. \A i \in 1 .. 4 : t[i] = (u \o v)[i]
  <2>1. \A i \in 1 .. 4 : i = 1 \/ i = 2 \/ i = 3 \/ i = 4
    OBVIOUS
  <2>2. t[1] = a /\ t[2] = b /\ t[3] = c /\ t[4] = d
    BY <1>1
  <2> QED
    BY <1>4, <2>1, <2>2, Zenon
<1>6. t = u \o v
  BY <1>1, <1>3, <1>5, SeqEqual
<1> QED
  BY <1>6 DEF t, u

\* The command line is the items of the rule, one behind the other, and the host.
LEMMA CommandsAreItems ==
    ASSUME NEW p \in ParamsType
    PROVE  Commands(p) = TokensFrom(p, 1)
<1> DEFINE S == Seq(TokenType)
           a == TokensAt(p, 1)
           b == TokensAt(p, 2)
           c == TokensAt(p, 3)
           d == TokensAt(p, 4)
           e == TokensAt(p, 5)
           f == TokensAt(p, 6)
<1>1. a \in S /\ b \in S /\ c \in S /\ d \in S /\ e \in S /\ f \in S
  BY FromNext
<1>2. Host \in S
  <2>1. Tok("host") \in TokenType
    BY DEF Tok, TokenType, Texts
  <2> QED
    BY <2>1, Tuples DEF Host
<1>3. <<Tok("--user"), Tok("admin"), Tok("--pass"), Tok("secret")>> = a \o b
  <2>1. a = <<Tok("--user"), Tok("admin")>> /\ b = <<Tok("--pass"), Tok("secret")>>
    BY DEF TokensAt, Present, OptionAt, ArgumentAt
  <2>2. /\ Tok("--user") \in TokenType /\ Tok("admin") \in TokenType
        /\ Tok("--pass") \in TokenType /\ Tok("secret") \in TokenType
    BY DEF Tok, TokenType, Texts, Options, Flag, Taking
  <2>3. Len(b) = 2 /\ b[1] = Tok("--pass") /\ b[2] = Tok("secret")
    BY <2>1
  <2>4. \A v \in S :
           (Len(v) = 2 /\ v[1] = Tok("--pass") /\ v[2] = Tok("secret")) =>
           <<Tok("--user"), Tok("admin"), Tok("--pass"), Tok("secret")>>
              = <<Tok("--user"), Tok("admin")>> \o v
    BY <2>2, FourTokens
  <2> HIDE DEF a, b, S
  <2> QED
    BY <1>1, <2>1, <2>3, <2>4, Zenon
<1>4. (CASE p.ssl = "no_ssl" -> <<Tok("--no-ssl")>>
         [] p.ssl = "ssl_skip" -> <<Tok("--skip-cert-check")>>
         [] OTHER -> <<>>) = c
  BY DEF TokensAt, Present, OptionAt, ParamsType
<1>5. (IF p.rest THEN <<Tok("--rest")>> ELSE <<>>) = d
  BY DEF TokensAt, Present, OptionAt
<1>6. <<Tok("--connect"), Tok(p.connect)>> = e
  BY DEF TokensAt, Present, OptionAt, ArgumentAt
<1>7. (IF ModulesOf(p) = {} THEN <<>> ELSE <<Tok("--modules"), ModList(ModulesOf(p))>>) = f
  BY DEF TokensAt, Present, OptionAt, ArgumentAt
<1>8. Commands(p) = (((((a \o b) \o c) \o d) \o e) \o f) \o Host
  BY <1>3, <1>4, <1>5, <1>6, <1>7 DEF Commands, Host
<1>9. TokensFrom(p, 1) = a \o (b \o (c \o (d \o (e \o (f \o Host)))))
  BY DEF TokensFrom, Tokens2, Tokens3, Tokens4, Tokens5, Tokens6
<1> HIDE DEF a, b, c, d, e, f, S
<1>10. \A s, t \in S : s \o t \in S
  BY ConcatProperties DEF S
<1>11. \A s, t, u \in S : (s \o t) \o u = s \o (t \o u)
  BY ConcatAssociative DEF S
<1>12. a \o b \in S
  BY <1>1, <1>10
<1>13. (a \o b) \o c \in S
  BY <1>1, <1>10, <1>12
<1>14. ((a \o b) \o c) \o d \in S
  BY <1>1, <1>10, <1>13
<1>15. (((a \o b) \o c) \o d) \o e \in S
  BY <1>1, <1>10, <1>14
<1>16. f \o Host \in S
  BY <1>1, <1>2, <1>10
<1>17. e \o (f \o Host) \in S
  BY <1>1, <1>10, <1>16
<1>18. d \o (e \o (f \o Host)) \in S
  BY <1>1, <1>10, <1>17
<1>19. c \o (d \o (e \o (f \o Host))) \in S
  BY <1>1, <1>10, <1>18
<1>20. ((((((a \o b) \o c) \o d) \o e) \o f) \o Host)
          = (((((a \o b) \o c) \o d) \o e) \o (f \o Host))
  <2> DEFINE x == (((a \o b) \o c) \o d) \o e
  <2>1. x \in S
    BY <1>15
  <2> HIDE DEF x
  <2>2. (x \o f) \o Host = x \o (f \o Host)
    BY <1>1, <1>2, <1>11, <2>1, Zenon
  <2> QED
    BY <2>2 DEF x
<1>21. @ = (((a \o b) \o c) \o d) \o (e \o (f \o Host))
  BY <1>1, <1>11, <1>14, <1>16, Zenon
<1>22. @ = ((a \o b) \o c) \o (d \o (e \o (f \o Host)))
  BY <1>1, <1>11, <1>13, <1>17, Zenon
<1>23. @ = (a \o b) \o (c \o (d \o (e \o (f \o Host))))
  BY <1>1, <1>11, <1>12, <1>18, Zenon
<1>24. @ = a \o (b \o (c \o (d \o (e \o (f \o Host)))))
  <2>1. \A u \in S : (a \o b) \o u = a \o (b \o u)
    BY <1>1, <1>11
  <2> QED
    BY <1>19, <2>1, Zenon
<1> QED
  BY <1>8, <1>9, <1>20, <1>21, <1>22, <1>23, <1>24, Zenon
\* What the agent takes from a sequence when an item begins it.
LEMMA Peel ==
    ASSUME NEW T, NEW a \in T, NEW s \in Seq(T)
    PROVE  /\ <<a>> \o s # <<>> /\ Head(<<a>> \o s) = a /\ Tail(<<a>> \o s) = s
OBVIOUS

\* Taking an option with its argument off a line leaves the rest.
LEMMA PeelPair ==
    ASSUME NEW T, NEW a \in T, NEW b \in T, NEW s \in Seq(T), NEW t, t = <<a, b>> \o s
    PROVE  t # <<>> /\ Len(t) # 1 /\ Head(t) = a /\ t[2] = b /\ Tail(Tail(t)) = s
OBVIOUS

\* The head of what is left of a line or of its options is the item it is at, if present,
\* and what is left behind it is the next.
LEMMA TakeItem ==
    ASSUME NEW p \in ParamsType, NEW k \in 1 .. 6
    PROVE  LET t == TokensFrom(p, k)
               o == OptionsFrom(p, k)
           IN
           /\ Present(p, k) =>
                 /\ t # <<>> /\ Head(t).text = OptionAt(p, k)
                 /\ k \in {3, 4} => Tail(t) = TokensFrom(p, k + 1)
                 /\ k \notin {3, 4} => /\ Len(t) # 1 /\ t[2] = ArgumentAt(p, k)
                                       /\ Tail(Tail(t)) = TokensFrom(p, k + 1)
                 /\ o # <<>> /\ Head(o) = Item(p, k) /\ Tail(o) = OptionsFrom(p, k + 1)
                 /\ o = <<Item(p, k)>> \o OptionsFrom(p, k + 1)
           /\ ~Present(p, k) => /\ t = TokensFrom(p, k + 1) /\ o = OptionsFrom(p, k + 1)
<1> DEFINE t == TokensFrom(p, k)
           o == OptionsFrom(p, k)
           u == TokensFrom(p, k + 1)
           v == OptionsFrom(p, k + 1)
           a == Tok(OptionAt(p, k))
           b == ArgumentAt(p, k)
           i == Item(p, k)
<1>1. /\ a \in TokenType /\ b \in TokenType /\ i \in ItemType
      /\ u \in Seq(TokenType) /\ v \in Seq(ItemType)
      /\ t = TokensAt(p, k) \o u /\ o = ItemsAt(p, k) \o v
  BY ItemTypes, FromNext
<1>2. a.text = OptionAt(p, k)
  BY DEF Tok
<1>3. ASSUME ~Present(p, k) PROVE t = u /\ o = v
  <2>1. TokensAt(p, k) = <<>> /\ ItemsAt(p, k) = <<>>
    BY <1>3 DEF TokensAt, ItemsAt
  <2> HIDE DEF t, o, u, v
  <2>2. <<>> \o u = u /\ <<>> \o v = v
    BY <1>1, ConcatEmptySeq
  <2> QED
    BY <1>1, <2>1, <2>2
<1>4. ASSUME Present(p, k)
      PROVE  o = <<i>> \o v /\ t = (IF k \in {3, 4} THEN <<a>> ELSE <<a, b>>) \o u
  BY <1>1, <1>4 DEF TokensAt, ItemsAt
<1> HIDE DEF t, o, u, v, a, b, i
<1>5. ASSUME Present(p, k) PROVE o # <<>> /\ Head(o) = i /\ Tail(o) = v
  BY <1>1, <1>4, <1>5, Peel
<1>6. ASSUME Present(p, k), k \in {3, 4} PROVE t # <<>> /\ Head(t) = a /\ Tail(t) = u
  BY <1>1, <1>4, <1>6, Peel
<1>7. ASSUME Present(p, k), k \notin {3, 4}
      PROVE  t # <<>> /\ Len(t) # 1 /\ Head(t) = a /\ t[2] = b /\ Tail(Tail(t)) = u
  <2>1. t = <<a, b>> \o u
    BY <1>4, <1>7
  <2>2. a \in TokenType /\ b \in TokenType /\ u \in Seq(TokenType)
    BY <1>1
  <2> QED
    BY ONLY <2>1, <2>2, PeelPair
<1> QED
  BY <1>2, <1>3, <1>4, <1>5, <1>6, <1>7 DEF t, o, u, v, a, b, i

\* What the loop over the options does for each option but the modules.
LEMMA Effects ==
    \A c, a :
        /\ Apply(c, "--user", a) = [c EXCEPT !.user = TRUE]
        /\ Apply(c, "--pass", a) = [c EXCEPT !.password = TRUE]
        /\ Apply(c, "--no-ssl", a) = [c EXCEPT !.secure = FALSE, !.port = "8728"]
        /\ Apply(c, "--skip-cert-check", a) = [c EXCEPT !.certcheck = FALSE]
        /\ Apply(c, "--rest", a) = [c EXCEPT !.restful = TRUE, !.port = "443"]
        /\ Apply(c, "--connect", a) = [c EXCEPT !.port = a.text]
BY DEF Apply

\* What it does for the modules: the firewall may ask for its disabled rules.
LEMMA ModulesEffect ==
    \A c, a :
        Apply(c, "--modules", a) =
            [c EXCEPT
                !.mortypes = (a.mods \ {"firewall:show-disabled"}) \cup
                    (IF "firewall:show-disabled" \in a.mods THEN {"firewall"} ELSE {}),
                !.show = c.show \/ "firewall:show-disabled" \in a.mods]
BY DEF Apply

\* Applying an item that is present, or passing over one that is not, is one item more.
LEMMA ApplyItem ==
    ASSUME NEW p \in ParamsType, NEW k \in 1 .. 6, NEW n, n = k + 1, NEW c, Reads(c, p, k)
    PROVE  /\ Present(p, k) => Reads(Apply(c, OptionAt(p, k), ArgumentAt(p, k)), p, n)
           /\ ~Present(p, k) => Reads(c, p, n)
<1> DEFINE a == ArgumentAt(p, k)
           d == Apply(c, OptionAt(p, k), a)
<1>1. /\ p.rest \in BOOLEAN /\ p.enabled \in BOOLEAN /\ p.show \in BOOLEAN
      /\ p.ssl \in {"ssl", "ssl_skip", "no_ssl"} /\ p.mods \subseteq CommandSet \ {"firewall"}
      /\ p.connect \in {"8729"} \cup Ports
  BY DEF ParamsType
<1>2. /\ c \in ConfigType /\ c.secure \in BOOLEAN
      /\ c.port \in {"443", "8728", "8729"} \cup Ports
      /\ c.restful \in BOOLEAN /\ c.certcheck \in BOOLEAN /\ c.user \in BOOLEAN
      /\ c.password \in BOOLEAN /\ c.mortypes \in SUBSET (CommandSet \cup {"all"})
      /\ c.show \in BOOLEAN
  BY DEF Reads, ConfigType
<1>3. CASE k = 1
  <2>1. n = 2 /\ Present(p, k) /\ OptionAt(p, k) = "--user"
    BY <1>3 DEF Present, OptionAt
  <2>2. d = [c EXCEPT !.user = TRUE]
    BY <2>1, Effects, Zenon
  <2> HIDE DEF d, a
  <2>3. /\ d \in ConfigType /\ d.user
        /\ d.secure = c.secure /\ d.port = c.port /\ d.restful = c.restful /\ d.certcheck = c.certcheck
        /\ d.password = c.password /\ d.mortypes = c.mortypes /\ d.show = c.show
    BY <1>2, <2>2 DEF ConfigType
  <2>4. Reads(d, p, n)
    BY <1>1, <1>2, <1>3, <2>1, <2>3 DEF Reads
  <2> QED
    BY <2>1, <2>4 DEF d, a
<1>4. CASE k = 2
  <2>1. n = 3 /\ Present(p, k) /\ OptionAt(p, k) = "--pass"
    BY <1>4 DEF Present, OptionAt
  <2>2. d = [c EXCEPT !.password = TRUE]
    BY <2>1, Effects, Zenon
  <2> HIDE DEF d, a
  <2>3. /\ d \in ConfigType /\ d.password
        /\ d.secure = c.secure /\ d.port = c.port /\ d.restful = c.restful /\ d.certcheck = c.certcheck
        /\ d.user = c.user /\ d.mortypes = c.mortypes /\ d.show = c.show
    BY <1>2, <2>2 DEF ConfigType
  <2>4. Reads(d, p, n)
    BY <1>1, <1>2, <1>4, <2>1, <2>3 DEF Reads
  <2> QED
    BY <2>1, <2>4 DEF d, a
<1>5. CASE k = 3 /\ p.ssl = "no_ssl"
  <2>1. n = 4 /\ Present(p, k) /\ OptionAt(p, k) = "--no-ssl"
    BY <1>5 DEF Present, OptionAt
  <2>2. d = [c EXCEPT !.secure = FALSE, !.port = "8728"]
    BY <2>1, Effects, Zenon
  <2> HIDE DEF d, a
  <2>3. /\ d \in ConfigType /\ ~d.secure
        /\ d.restful = c.restful /\ d.certcheck = c.certcheck /\ d.user = c.user /\ d.password = c.password
        /\ d.mortypes = c.mortypes /\ d.show = c.show
    BY <1>2, <2>2 DEF ConfigType
  <2>4. Reads(d, p, n)
    BY <1>1, <1>2, <1>5, <2>1, <2>3 DEF Reads
  <2> QED
    BY <2>1, <2>4 DEF d, a
<1>6. CASE k = 3 /\ p.ssl = "ssl_skip"
  <2>1. n = 4 /\ Present(p, k) /\ OptionAt(p, k) = "--skip-cert-check"
    BY <1>6 DEF Present, OptionAt
  <2>2. d = [c EXCEPT !.certcheck = FALSE]
    BY <2>1, Effects, Zenon
  <2> HIDE DEF d, a
  <2>3. /\ d \in ConfigType /\ ~d.certcheck
        /\ d.secure = c.secure /\ d.port = c.port /\ d.restful = c.restful /\ d.user = c.user
        /\ d.password = c.password /\ d.mortypes = c.mortypes /\ d.show = c.show
    BY <1>2, <2>2 DEF ConfigType
  <2>4. Reads(d, p, n)
    BY <1>1, <1>2, <1>6, <2>1, <2>3 DEF Reads
  <2> QED
    BY <2>1, <2>4 DEF d, a
<1>7. CASE k = 3 /\ p.ssl = "ssl"
  <2>1. n = 4 /\ ~Present(p, k)
    BY <1>7 DEF Present
  <2>2. Reads(c, p, n)
    BY <1>7, <2>1 DEF Reads
  <2> QED
    BY <2>1, <2>2
<1>8. CASE k = 4 /\ p.rest
  <2>1. n = 5 /\ Present(p, k) /\ OptionAt(p, k) = "--rest"
    BY <1>8 DEF Present, OptionAt
  <2>2. d = [c EXCEPT !.restful = TRUE, !.port = "443"]
    BY <2>1, Effects, Zenon
  <2> HIDE DEF d, a
  <2>3. /\ d \in ConfigType /\ d.restful
        /\ d.secure = c.secure /\ d.certcheck = c.certcheck /\ d.user = c.user /\ d.password = c.password
        /\ d.mortypes = c.mortypes /\ d.show = c.show
    BY <1>2, <2>2 DEF ConfigType
  <2>4. Reads(d, p, n)
    BY <1>1, <1>2, <1>8, <2>1, <2>3 DEF Reads
  <2> QED
    BY <2>1, <2>4 DEF d, a
<1>9. CASE k = 4 /\ ~p.rest
  <2>1. n = 5 /\ ~Present(p, k)
    BY <1>9 DEF Present
  <2>2. Reads(c, p, n)
    BY <1>9, <2>1 DEF Reads
  <2> QED
    BY <2>1, <2>2
<1>10. CASE k = 5
  <2>1. n = 6 /\ Present(p, k) /\ OptionAt(p, k) = "--connect" /\ a.text = p.connect
    BY <1>10 DEF Present, OptionAt, ArgumentAt, Tok
  <2>2. d = [c EXCEPT !.port = p.connect]
    <3>1. d = Apply(c, "--connect", a)
      BY <2>1
    <3> HIDE DEF d, a
    <3>2. Apply(c, "--connect", a) = [c EXCEPT !.port = a.text]
      BY Effects
    <3> QED
      BY <2>1, <3>1, <3>2
  <2> HIDE DEF d, a
  <2>3. /\ d \in ConfigType /\ d.port = p.connect
        /\ d.secure = c.secure /\ d.restful = c.restful /\ d.certcheck = c.certcheck /\ d.user = c.user
        /\ d.password = c.password /\ d.mortypes = c.mortypes /\ d.show = c.show
    BY <1>1, <1>2, <2>2 DEF ConfigType
  <2>4. Reads(d, p, n)
    BY <1>1, <1>2, <1>10, <2>1, <2>3 DEF Reads
  <2> QED
    BY <2>1, <2>4 DEF d, a
<1>11. CASE k = 6
  <2> DEFINE mods == ModulesOf(p)
             disabled == "firewall:show-disabled"
             named == (mods \ {disabled}) \cup (IF disabled \in mods THEN {"firewall"} ELSE {})
  <2>1. /\ n = 7 /\ (Present(p, k) <=> mods # {})
        /\ OptionAt(p, k) = "--modules" /\ a.mods = mods
    BY <1>11 DEF Present, OptionAt, ArgumentAt, ModList
  <2>2. disabled \notin p.mods
    BY <1>1 DEF CommandSet
  <2>3. /\ named = p.mods \cup (IF p.enabled THEN {"firewall"} ELSE {})
        /\ (disabled \in mods) <=> (p.enabled /\ p.show)
        /\ mods = {} => p.mods = {} /\ ~p.enabled
    BY <1>1, <2>2 DEF ModulesOf
  <2>4. named \subseteq CommandSet \cup {"all"}
    BY <1>1, <2>3 DEF CommandSet
  <2>5. ~c.show
    BY <1>11 DEF Reads
  <2>6. d = [c EXCEPT !.mortypes = (a.mods \ {disabled}) \cup
                          (IF disabled \in a.mods THEN {"firewall"} ELSE {}),
                      !.show = c.show \/ disabled \in a.mods]
    <3>1. d = Apply(c, "--modules", a)
      BY <2>1
    <3> HIDE DEF d, a
    <3> QED
      BY <3>1, ModulesEffect, Zenon
  <2> HIDE DEF d, a, mods
  <2>7. d = [c EXCEPT !.mortypes = named, !.show = c.show \/ disabled \in mods]
    BY <2>1, <2>6
  <2> DEFINE v == c.show \/ disabled \in mods
  <2>8. v \in BOOLEAN /\ (v <=> p.enabled /\ p.show)
    BY <2>3, <2>5
  <2> HIDE DEF named, v
  <2>9. CASE mods # {}
    <3>1. d = [c EXCEPT !.mortypes = named, !.show = v]
      BY <2>7 DEF v
    <3>2. /\ d \in ConfigType /\ d.secure = c.secure /\ d.port = c.port
          /\ d.restful = c.restful /\ d.certcheck = c.certcheck /\ d.user = c.user
          /\ d.password = c.password /\ d.mortypes = named /\ d.show = v
      BY <1>2, <2>4, <2>8, <3>1 DEF ConfigType
    <3>3. Reads(d, p, n)
      BY <1>11, <2>1, <2>3, <2>8, <2>9, <3>2 DEF Reads, mods
    <3> QED
      BY <2>1, <2>9, <3>3 DEF d, a
  <2>10. CASE mods = {}
    <3>1. Reads(c, p, n)
      BY <1>1, <1>11, <2>1, <2>3, <2>10 DEF Reads, mods
    <3> QED
      BY <2>1, <2>10, <3>1
  <2> QED
    BY <2>9, <2>10
<1>12. k = 1 \/ k = 2 \/ k = 3 \/ k = 4 \/ k = 5 \/ k = 6
  OBVIOUS
<1> QED
  BY <1>1, <1>3, <1>4, <1>5, <1>6, <1>7, <1>8, <1>9, <1>10, <1>11, <1>12

\* The items that are missing do not count: item k may be taken to be there, or the last.
LEMMA NextPresent ==
    ASSUME NEW p \in ParamsType, NEW k \in 1 .. 7
    PROVE  \E j \in 1 .. 7 :
              /\ TokensFrom(p, j) = TokensFrom(p, k) /\ OptionsFrom(p, j) = OptionsFrom(p, k)
              /\ \A c : Reads(c, p, k) => Reads(c, p, j)
              /\ j = 7 \/ Present(p, j)
<1> DEFINE Same(i, j) == /\ TokensFrom(p, j) = TokensFrom(p, i)
                         /\ OptionsFrom(p, j) = OptionsFrom(p, i)
                         /\ \A c : Reads(c, p, i) => Reads(c, p, j)
<1>1. \A i \in 1 .. 6 : ~Present(p, i) => Same(i, i + 1)
  BY TakeItem, ApplyItem
<1>2. /\ ~Present(p, 3) => Same(3, 4)
      /\ ~Present(p, 4) => Same(4, 5)
      /\ ~Present(p, 6) => Same(6, 7)
  <2>1. 3 + 1 = 4 /\ 4 + 1 = 5 /\ 6 + 1 = 7 /\ 3 \in 1 .. 6 /\ 4 \in 1 .. 6 /\ 6 \in 1 .. 6
    OBVIOUS
  <2> HIDE DEF Same
  <2> QED
    BY <1>1, <2>1
<1>3. Present(p, 1) /\ Present(p, 2) /\ Present(p, 5)
  BY DEF Present
<1>4. /\ \A i, j, l : Same(i, j) /\ Same(j, l) => Same(i, l)
      /\ \A i : Same(i, i)
  OBVIOUS
<1>5. /\ k = 1 \/ k = 2 \/ k = 3 \/ k = 4 \/ k = 5 \/ k = 6 \/ k = 7
      /\ 1 \in 1 .. 7 /\ 2 \in 1 .. 7 /\ 3 \in 1 .. 7 /\ 4 \in 1 .. 7 /\ 5 \in 1 .. 7
      /\ 6 \in 1 .. 7 /\ 7 \in 1 .. 7
  OBVIOUS
<1> HIDE DEF Same
<1>6. \E j \in 1 .. 7 : Same(k, j) /\ (j = 7 \/ Present(p, j))
  BY <1>2, <1>3, <1>4, <1>5
<1> QED
  BY <1>6 DEF Same

-----------------------------------------------------------------------------
(* The inductive invariant: what the rule has become, and how far getopt   *)
(* and the loop over the options are in the rule's items.                  *)

Getopt(p, a, o) ==
    /\ o \in Seq(ItemType)
    /\ \E k \in 1 .. 7 : a = TokensFrom(p, k) /\ o \o OptionsFrom(p, k) = OptionsFrom(p, 1)
Reading(p, o, c) == \E k \in 1 .. 7 : o = OptionsFrom(p, k) /\ Reads(c, p, k)

\* The rule asks for what was stored, in the shape its stage needs.
RuleKept ==
    stored # <<>> =>
        /\ stored = <<stored[1]>> /\ rule = <<rule[1]>> /\ stored[1] \in StoredRules
        /\ Sound(rule[1]) /\ SameRequest(rule[1], stored[1])
        /\ rule = stored \/ Migrated(rule[1])
        /\ stage = "migrated" => Migrated(rule[1])
        /\ stage \in {"getopt", "options", "run"} => Parsable(rule[1])
        /\ stage = "error" => rule = stored /\ ~Parsable(rule[1])

\* The options read and the line still to be read are together those of the rule.
LineRead ==
    stored # <<>> =>
        /\ stage \in {"stored", "migrated"} => opts = <<>> /\ cfg = Defaults
        /\ stage = "getopt" => cfg = Defaults /\ Getopt(FromRaw(rule[1]), argv, opts)
        /\ stage = "options" => argv = Host /\ Reading(FromRaw(rule[1]), opts, cfg)
        /\ stage = "run" => /\ Reads(cfg, FromRaw(rule[1]), 7)
                            /\ active = Activated(cfg.mortypes)

\* A line typed by hand has no rule to migrate.
TypedStages == stored = <<>> => stage \notin {"stored", "migrated"}

IInv == RuleKept /\ LineRead /\ TypedStages

\* A migrated rule has the shapes the parser of the call takes.
LEMMA MigratedIsParsable == \A r : Migrated(r) => Parsable(r)
BY DEF Migrated, MigratedInfos, Parsable

\* Before the first option the defaults are set; behind the last only the host is left.
LEMMA EmptyOptions ==
    ASSUME NEW p \in ParamsType
    PROVE  Reads(Defaults, p, 1) /\ OptionsFrom(p, 7) = <<>> /\ TokensFrom(p, 7) = Host
<1>1. Reads(Defaults, p, 1)
  BY DEF Defaults, Reads, ConfigType
<1> QED
  BY <1>1 DEF OptionsFrom, TokensFrom

\* The head of the line tells which item getopt is at.
LEMMA GetoptAt ==
    ASSUME NEW p \in ParamsType, NEW a, NEW o, Getopt(p, a, o)
    PROVE  /\ o \in Seq(ItemType) /\ a # <<>>
           /\ \/ a = Host /\ o = OptionsFrom(p, 1) /\ Head(a).text \notin Options
              \/ \E k \in 1 .. 6 :
                    /\ Present(p, k) /\ a = TokensFrom(p, k) /\ Head(a).text = OptionAt(p, k)
                    /\ o \o OptionsFrom(p, k) = OptionsFrom(p, 1)
<1>1. o \in Seq(ItemType)
  BY DEF Getopt
<1>2. PICK k \in 1 .. 7 : a = TokensFrom(p, k) /\ o \o OptionsFrom(p, k) = OptionsFrom(p, 1)
  BY DEF Getopt
<1>3. PICK j \in 1 .. 7 :
          /\ TokensFrom(p, j) = TokensFrom(p, k) /\ OptionsFrom(p, j) = OptionsFrom(p, k)
          /\ j = 7 \/ Present(p, j)
  BY NextPresent
<1>4. a = TokensFrom(p, j) /\ o \o OptionsFrom(p, j) = OptionsFrom(p, 1)
  BY <1>2, <1>3
<1>5. CASE j = 7
  <2>1. a = Host /\ o \o <<>> = OptionsFrom(p, 1)
    BY <1>4, <1>5, EmptyOptions
  <2>2. o \o <<>> = o
    BY <1>1, ConcatEmptySeq
  <2>3. Host # <<>> /\ Head(Host).text = "host"
    BY DEF Host, Tok
  <2>4. "host" \notin Options
    BY DEF Options, Flag, Taking
  <2> QED
    BY <1>1, <2>1, <2>2, <2>3, <2>4
<1>6. CASE j # 7
  <2>1. j \in 1 .. 6 /\ Present(p, j)
    BY <1>3, <1>6
  <2>2. a # <<>> /\ Head(a).text = OptionAt(p, j)
    BY <1>4, <2>1, TakeItem
  <2> QED
    BY <1>1, <1>4, <2>1, <2>2
<1> QED
  BY <1>5, <1>6

\* The same for the loop over the options.
LEMMA ReadingAt ==
    ASSUME NEW p \in ParamsType, NEW o, NEW c, Reading(p, o, c)
    PROVE  \/ o = <<>> /\ Reads(c, p, 7)
           \/ \E k \in 1 .. 6 : Present(p, k) /\ o = OptionsFrom(p, k) /\ Reads(c, p, k)
<1>1. PICK k \in 1 .. 7 : o = OptionsFrom(p, k) /\ Reads(c, p, k)
  BY DEF Reading
<1>2. PICK j \in 1 .. 7 :
          /\ OptionsFrom(p, j) = OptionsFrom(p, k) /\ (Reads(c, p, k) => Reads(c, p, j))
          /\ j = 7 \/ Present(p, j)
  BY NextPresent
<1>3. CASE j = 7
  BY <1>1, <1>2, <1>3, EmptyOptions
<1>4. CASE j # 7
  <2>1. j \in 1 .. 6
    BY <1>4
  <2> QED
    BY <1>1, <1>2, <1>4, <2>1
<1> QED
  BY <1>3, <1>4

\* One step of getopt, on a line that is a rule's.
LEMMA GetoptStep ==
    ASSUME NEW p \in ParamsType, NEW a, NEW o, Getopt(p, a, o),
           a # <<>>, Head(a).text \in Options
    PROVE  LET t == Head(a).text IN
           /\ t \in Flag =>
                 Getopt(p, Tail(a), Append(o, [opt |-> t, arg |-> Tok("")]))
           /\ t \notin Flag => /\ Len(a) # 1
                               /\ Getopt(p, Tail(Tail(a)), Append(o, [opt |-> t, arg |-> a[2]]))
<1>1. o \in Seq(ItemType)
  BY GetoptAt
<1>2. PICK k \in 1 .. 6 :
          /\ Present(p, k) /\ a = TokensFrom(p, k) /\ Head(a).text = OptionAt(p, k)
          /\ o \o OptionsFrom(p, k) = OptionsFrom(p, 1)
  BY GetoptAt
<1> DEFINE t == Head(a).text
           u == TokensFrom(p, k + 1)
           v == OptionsFrom(p, k + 1)
           i == Item(p, k)
<1>3. /\ k \in {3, 4} => Tail(a) = u
      /\ k \notin {3, 4} => Len(a) # 1 /\ a[2] = ArgumentAt(p, k) /\ Tail(Tail(a)) = u
      /\ OptionsFrom(p, k) = <<i>> \o v
  BY <1>2, TakeItem
<1>4. /\ i \in ItemType /\ (k \in {3, 4} => ArgumentAt(p, k) = Tok(""))
      /\ t \in (IF k \in {3, 4} THEN Flag ELSE Taking)
  BY <1>2, ItemTypes
<1>5. t \in Flag <=> k \in {3, 4}
  BY <1>4 DEF Flag, Taking
<1>6. v \in Seq(ItemType) /\ k + 1 \in 1 .. 7
  <2>1. k + 1 \in 1 .. 7
    OBVIOUS
  <2>2. v \in Seq(ItemType)
    BY FromNext
  <2> QED
    BY <2>1, <2>2
<1>7. Append(o, i) \in Seq(ItemType) /\ Append(o, i) \o v = OptionsFrom(p, 1)
  <2>1. <<i>> \in Seq(ItemType)
    BY <1>4, Tuples
  <2> HIDE DEF i, v
  <2>2. Append(o, i) \in Seq(ItemType) /\ Append(o, i) = o \o <<i>>
    BY <1>1, <1>4, AppendProperties, AppendIsConcat
  <2>3. (o \o <<i>>) \o v = o \o (<<i>> \o v)
    BY <1>1, <1>6, <2>1, ConcatAssociative
  <2> QED
    BY <1>2, <1>3, <2>2, <2>3, Zenon
<1>8. Getopt(p, u, Append(o, i))
  BY <1>6, <1>7 DEF Getopt
<1>9. ASSUME t \in Flag PROVE [opt |-> t, arg |-> Tok("")] = i /\ Tail(a) = u
  BY <1>2, <1>3, <1>4, <1>5, <1>9 DEF Item
<1>10. ASSUME t \notin Flag
       PROVE  Len(a) # 1 /\ [opt |-> t, arg |-> a[2]] = i /\ Tail(Tail(a)) = u
  BY <1>2, <1>3, <1>5, <1>10 DEF Item
<1> QED
  BY <1>8, <1>9, <1>10

\* One step of the loop over the options.
LEMMA ReadingStep ==
    ASSUME NEW p \in ParamsType, NEW o, NEW c, Reading(p, o, c), o # <<>>
    PROVE  /\ Head(o).opt \notin {"-h", "--help"}
           /\ Reading(p, Tail(o), Apply(c, Head(o).opt, Head(o).arg))
<1>1. PICK k \in 1 .. 6 : Present(p, k) /\ o = OptionsFrom(p, k) /\ Reads(c, p, k)
  BY ReadingAt
<1>2. Head(o) = Item(p, k) /\ Tail(o) = OptionsFrom(p, k + 1)
  BY <1>1, TakeItem
<1>3. Head(o).opt = OptionAt(p, k) /\ Head(o).arg = ArgumentAt(p, k)
  BY <1>2 DEF Item
<1>4. OptionAt(p, k) \notin {"-h", "--help"}
  BY ItemTypes
<1>5. Reads(Apply(c, OptionAt(p, k), ArgumentAt(p, k)), p, k + 1)
  BY <1>1, ApplyItem
<1>6. k + 1 \in 1 .. 7
  OBVIOUS
<1> QED
  BY <1>2, <1>3, <1>4, <1>5, <1>6 DEF Reading
\* A command line of a rule: getopt is at its first item.
LEMMA GetoptStarts ==
    ASSUME NEW p \in ParamsType
    PROVE  Getopt(p, Commands(p), <<>>)
<1>1. OptionsFrom(p, 1) \in Seq(ItemType)
  BY FromNext
<1>2. <<>> \o OptionsFrom(p, 1) = OptionsFrom(p, 1)
  BY <1>1, ConcatEmptySeq
<1>3. <<>> \in Seq(ItemType)
  BY EmptySeq
<1>4. Commands(p) = TokensFrom(p, 1) /\ 1 \in 1 .. 7
  BY CommandsAreItems
<1> QED
  BY <1>2, <1>3, <1>4 DEF Getopt

\* A stored rule, or a command line by hand, satisfies the invariant.
LEMMA InitIInv == Init => IInv
<1> SUFFICES ASSUME Init PROVE IInv
  OBVIOUS
<1>1. CASE \E r \in StoredRules : stored = <<r>> /\ stage = "stored" /\ line = <<>>
  <2>1. PICK r \in StoredRules : stored = <<r>> /\ stage = "stored"
    BY <1>1
  <2>2. rule = <<r>> /\ opts = <<>> /\ cfg = Defaults
    BY <2>1 DEF Init
  <2>3. stored # <<>> /\ stored[1] = r /\ rule[1] = r
    BY <2>1, <2>2
  <2>4. Sound(r) /\ SameRequest(r, r)
    BY StoredIsSound DEF SameRequest
  <2> QED
    BY <2>1, <2>2, <2>3, <2>4 DEF IInv, RuleKept, LineRead, TypedStages
<1>2. CASE stored = <<>> /\ stage = "getopt"
  BY <1>2 DEF IInv, RuleKept, LineRead, TypedStages
<1> QED
  BY <1>1, <1>2 DEF Init

\* Every step from the migration to the start of the agent keeps it.
LEMMA NextIInv == IInv /\ [Next]_vars => IInv'
<1> SUFFICES ASSUME IInv, [Next]_vars PROVE IInv'
  OBVIOUS
<1>1. stored' = stored
  BY DEF Next, vars, Migrate, CallAgent, GetOption, GetArguments, ApplyOption, Start
<1>2. CASE stored = <<>>
  <2>1. stage' \notin {"stored", "migrated"}
    BY <1>2 DEF IInv, TypedStages, Next, vars, Migrate, CallAgent, GetOption, GetArguments,
                ApplyOption, Start
  <2> QED
    BY <1>1, <1>2, <2>1 DEF IInv, RuleKept, LineRead, TypedStages
<1>3. CASE stored # <<>>
  <2> DEFINE x == rule[1]
             p == FromRaw(rule[1])
  <2>1. /\ stored = <<stored[1]>> /\ rule = <<x>> /\ stored[1] \in StoredRules
        /\ Sound(x) /\ SameRequest(x, stored[1])
        /\ rule = stored \/ Migrated(x)
        /\ stage = "migrated" => Migrated(x)
        /\ stage \in {"getopt", "options", "run"} => Parsable(x)
        /\ stage = "error" => rule = stored /\ ~Parsable(x)
    BY <1>3 DEF IInv, RuleKept
  <2>2. /\ stage \in {"stored", "migrated"} => opts = <<>> /\ cfg = Defaults
        /\ stage = "getopt" => cfg = Defaults /\ Getopt(p, argv, opts)
        /\ stage = "options" => argv = Host /\ Reading(p, opts, cfg)
        /\ stage = "run" => Reads(cfg, p, 7) /\ active = Activated(cfg.mortypes)
    BY <1>3 DEF IInv, LineRead
  <2>3. Parsable(x) => p \in ParamsType
    BY <2>1, FromRawFollows
  <2>4. TypedStages'
    BY <1>1, <1>3 DEF TypedStages
  <2> HIDE DEF x, p
  <2>5. ASSUME Migrate PROVE RuleKept' /\ LineRead'
    <3> DEFINE m == MigrateParams(x)
    <3>1. rule' = <<m>> /\ stage' = "migrated" /\ opts' = <<>> /\ cfg' = Defaults
      BY <2>2, <2>5 DEF Migrate, x
    <3>2. Sound(m) /\ Migrated(m) /\ SameRequest(m, x)
      BY <2>1, RuleMigration
    <3> HIDE DEF m
    <3>3. SameRequest(m, stored[1])
      BY <2>1, <3>2 DEF SameRequest
    <3>4. rule'[1] = m
      BY <3>1
    <3> QED
      BY <1>1, <2>1, <3>1, <3>2, <3>3, <3>4 DEF RuleKept, LineRead
  <2>6. ASSUME CallAgent PROVE RuleKept' /\ LineRead'
    <3>1. rule' = rule /\ opts' = <<>> /\ cfg' = Defaults
      BY <2>2, <2>6 DEF CallAgent
    <3>2. CASE Parsable(x)
      <4>1. stage' = "getopt" /\ argv' = Commands(p)
        BY <2>6, <3>2 DEF CallAgent, x, p
      <4>2. Getopt(p, argv', opts')
        BY <2>3, <3>1, <3>2, <4>1, GetoptStarts
      <4> QED
        BY <1>1, <2>1, <3>1, <3>2, <4>1, <4>2 DEF RuleKept, LineRead, x, p
    <3>3. CASE ~Parsable(x)
      <4>1. stage' = "error"
        BY <2>6, <3>3 DEF CallAgent, x
      <4>2. rule = stored
        BY <2>1, <3>3, MigratedIsParsable
      <4> QED
        BY <1>1, <2>1, <3>1, <3>3, <4>1, <4>2 DEF RuleKept, LineRead, x
    <3> QED
      BY <3>2, <3>3
  <2>7. ASSUME stage \in {"getopt", "options"}, rule' = rule,
               stage' \in {"getopt", "options", "run"}
        PROVE  RuleKept'
    BY <1>1, <2>1, <2>7 DEF RuleKept, x
  <2>8. ASSUME GetOption PROVE RuleKept' /\ LineRead'
    <3>1. /\ stage = "getopt" /\ rule' = rule /\ cfg' = Defaults /\ Getopt(p, argv, opts)
          /\ argv # <<>> /\ Head(argv).text \in Options /\ p \in ParamsType
      BY <2>1, <2>2, <2>3, <2>8 DEF GetOption
    <3>2. stage' = "getopt" /\ Getopt(p, argv', opts')
      BY <2>8, <3>1, GetoptStep DEF GetOption
    <3> QED
      BY <1>1, <2>7, <3>1, <3>2 DEF LineRead, p
  <2>9. ASSUME GetArguments PROVE RuleKept' /\ LineRead'
    <3>1. /\ stage = "getopt" /\ stage' = "options" /\ rule' = rule /\ cfg' = Defaults
          /\ argv' = argv /\ opts' = opts /\ Getopt(p, argv, opts) /\ p \in ParamsType
          /\ argv # <<>> => Head(argv).text \notin Options
      BY <2>1, <2>2, <2>3, <2>9 DEF GetArguments
    <3>2. argv = Host /\ opts = OptionsFrom(p, 1)
      <4>1. \A k \in 1 .. 6 : OptionAt(p, k) \in Options
        BY <3>1, ItemTypes
      <4>2. argv # <<>> /\ Head(argv).text \notin Options
        BY <3>1, GetoptAt
      <4> QED
        BY <3>1, <4>1, <4>2, GetoptAt
    <3>3. Reading(p, opts', cfg')
      BY <3>1, <3>2, EmptyOptions DEF Reading
    <3> QED
      BY <1>1, <2>7, <3>1, <3>2, <3>3 DEF LineRead, p
  <2>10. ASSUME ApplyOption PROVE RuleKept' /\ LineRead'
    <3>1. /\ stage = "options" /\ rule' = rule /\ argv' = Host /\ Reading(p, opts, cfg)
          /\ opts # <<>> /\ opts' = Tail(opts) /\ p \in ParamsType
      BY <2>1, <2>2, <2>3, <2>10 DEF ApplyOption
    <3>2. /\ Head(opts).opt \notin {"-h", "--help"}
          /\ Reading(p, Tail(opts), Apply(cfg, Head(opts).opt, Head(opts).arg))
      BY <3>1, ReadingStep
    <3>3. stage' = "options" /\ Reading(p, opts', cfg')
      BY <2>10, <3>1, <3>2 DEF ApplyOption
    <3> QED
      BY <1>1, <2>7, <3>1, <3>3 DEF LineRead, p
  <2>11. ASSUME Start PROVE RuleKept' /\ LineRead'
    <3>1. /\ stage = "options" /\ rule' = rule /\ argv = Host /\ Reading(p, opts, cfg)
          /\ opts = <<>> /\ cfg' = cfg /\ p \in ParamsType
      BY <2>1, <2>2, <2>3, <2>11 DEF Start
    <3>2. Reads(cfg, p, 7)
      <4>1. \A k \in 1 .. 6 : Present(p, k) => OptionsFrom(p, k) # <<>>
        BY <3>1, TakeItem, Zenon
      <4> QED
        BY <3>1, <4>1, ReadingAt, Zenon
    <3>3. cfg.user /\ cfg.password
      BY <3>2 DEF Reads
    <3>4. Len(Host) = 1
      BY DEF Host
    <3>5. stage' = "run" /\ active' = Activated(cfg.mortypes)
      BY <2>11, <3>1, <3>3, <3>4 DEF Start
    <3> QED
      BY <1>1, <2>7, <3>1, <3>2, <3>5 DEF LineRead, p
  <2>12. ASSUME UNCHANGED vars PROVE RuleKept' /\ LineRead'
    BY <2>12 DEF IInv, RuleKept, LineRead, vars
  <2> QED
    BY <2>4, <2>5, <2>6, <2>8, <2>9, <2>10, <2>11, <2>12 DEF Next, IInv
<1> QED
  BY <1>2, <1>3

\* So it holds in every state.
LEMMA Invariant == Spec => []IInv
BY InitIInv, NextIInv, PTL DEF Spec

-----------------------------------------------------------------------------
\* Migrating a migrated rule again leaves it as it is: the saves of an edited rule
\* (migrate_params) do not change what it says, for any rule of any shape.
THEOREM MigratingIsIdempotent == Spec => MigrateOnce
<1>1. ASSUME IInv, [Next]_vars, stage = "migrated", stage' = "migrated" PROVE rule' = rule
  <2>1. CASE Migrate
    <3>1. stored # <<>>
      BY <1>1 DEF IInv, TypedStages
    <3>2. rule = <<rule[1]>> /\ Sound(rule[1]) /\ Migrated(rule[1])
      BY <1>1, <3>1 DEF IInv, RuleKept
    <3>3. MigrateParams(rule[1]) = rule[1]
      BY <3>2, RuleMigration
    <3>4. rule' = <<MigrateParams(rule[1])>>
      BY <2>1 DEF Migrate
    <3> QED
      BY <3>2, <3>3, <3>4, Zenon
  <2>2. CASE ~Migrate
    BY <1>1, <2>2 DEF Next, vars, CallAgent, GetOption, GetArguments, ApplyOption, Start
  <2> QED
    BY <2>1, <2>2
<1> QED
  BY <1>1, Invariant, PTL DEF Spec, MigrateOnce

\* Only a rule in one of its oldest shapes, used as it was stored, is refused: once
\* migrated, every rule is accepted by from_raw and its command line by the agent.
THEOREM MigratedRulesAreAccepted == Spec => []MigratedIsAccepted
<1>1. IInv => MigratedIsAccepted
  BY DEF IInv, RuleKept, MigratedIsAccepted
<1> QED
  BY <1>1, Invariant, PTL

\* The run does what the stored rule asks for: migrate_params, from_raw, the command
\* line, getopt and the loop over the options put together lose and add nothing.  The
\* port is the rule's if it names one.
THEOREM RunFollowsRule == Spec => []AgentFollowsRule
<1>1. IInv => AgentFollowsRule
  <2> SUFFICES ASSUME IInv, stage = "run", stored # <<>> PROVE AgentFollowsRule
    BY DEF AgentFollowsRule, ByRule
  <2> DEFINE r == stored[1]
             x == rule[1]
             p == FromRaw(rule[1])
  <2>1. Sound(x) /\ SameRequest(x, r) /\ Parsable(x) /\ r \in StoredRules
    BY DEF IInv, RuleKept
  <2>2. Reads(cfg, p, 7) /\ active = Activated(cfg.mortypes)
    BY DEF IInv, LineRead
  <2>3. /\ p \in ParamsType
        /\ p.ssl = AskedMode(x) /\ p.rest = Says(x, "rest")
        /\ p.connect = Given(x.connect, "8729")
        /\ p.mods \cup (IF p.enabled THEN {"firewall"} ELSE {}) = AskedModules(x)
        /\ (p.enabled /\ p.show) = DisabledAsked(x)
    BY <2>1, FromRawFollows
  <2> HIDE DEF r, x, p
  <2>4. /\ AskedMode(x) = AskedMode(r) /\ x.rest = r.rest /\ x.connect = r.connect
        /\ AskedModules(x) = AskedModules(r) /\ DisabledAsked(x) = DisabledAsked(r)
    BY <2>1 DEF SameRequest
  <2>5. cfg \in ConfigType /\ p.rest \in BOOLEAN /\ p.enabled \in BOOLEAN /\ p.show \in BOOLEAN
        /\ p.mods \subseteq CommandSet \ {"firewall"}
    BY <2>2, <2>3 DEF Reads, ParamsType
  <2>6. cfg.secure \in BOOLEAN /\ cfg.restful \in BOOLEAN /\ cfg.certcheck \in BOOLEAN
        /\ cfg.show \in BOOLEAN
    BY <2>5 DEF ConfigType
  <2>7. cfg.secure = (AskedMode(r) # "no_ssl") /\ cfg.certcheck = (AskedMode(r) # "ssl_skip")
    BY <2>2, <2>3, <2>4, <2>6 DEF Reads
  <2>8. cfg.restful = Says(r, "rest")
    <3>1. cfg.restful <=> p.rest
      BY <2>2, <2>5, <2>6 DEF Reads
    <3>2. p.rest = (x.rest = "yes") /\ Says(r, "rest") = (r.rest = "yes")
      BY <2>3 DEF Says
    <3> QED
      BY <2>4, <2>6, <3>1, <3>2
  <2>9. r.connect # "absent" => cfg.port = r.connect
    BY <2>2, <2>3, <2>4 DEF Reads, Given
  <2>10. cfg.show = DisabledAsked(r)
    BY <2>2, <2>3, <2>4, <2>5, <2>6 DEF Reads
  <2>11. active = IF AskedModules(r) = {} THEN CommandSet \ OptInModules ELSE AskedModules(r)
    <3> DEFINE wanted == p.mods \cup (IF p.enabled THEN {"firewall"} ELSE {})
    <3>1. wanted = AskedModules(r) /\ wanted \subseteq CommandSet
      BY <2>3, <2>4, <2>5 DEF CommandSet
    <3>2. ModulesOf(p) = {} <=> wanted = {}
      BY <2>5 DEF ModulesOf
    <3>3. cfg.mortypes = IF ModulesOf(p) # {} THEN wanted ELSE {"all"}
      BY <2>2 DEF Reads
    <3>4. "all" \notin CommandSet
      BY DEF CommandSet
    <3> HIDE DEF wanted
    <3>5. CASE wanted = {}
      <4>1. cfg.mortypes = {"all"}
        BY <3>2, <3>3, <3>5
      <4> QED
        BY <2>2, <3>1, <3>4, <3>5, <4>1 DEF Activated
    <3>6. CASE wanted # {}
      <4>1. cfg.mortypes = wanted
        BY <3>2, <3>3, <3>6
      <4> QED
        BY <2>2, <3>1, <3>4, <3>6, <4>1 DEF Activated
    <3> QED
      BY <3>5, <3>6
  <2> QED
    BY <2>7, <2>8, <2>9, <2>10, <2>11 DEF AgentFollowsRule, r
<1> QED
  BY <1>1, Invariant, PTL

=============================================================================

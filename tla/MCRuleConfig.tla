---------------------------- MODULE MCRuleConfig ----------------------------
(***************************************************************************)
(* RuleConfig with one ordinary and one opt-in module beside the firewall, *)
(* every shape a rule over them can have, and every order of up to three   *)
(* options behind (or before) user and password.                           *)
(***************************************************************************)
EXTENDS RuleConfig

TickBoxes == {"bgp", "wifi"}
NamedPorts == {"9000"}

Credentials == <<Tok("-u"), Tok("admin"), Tok("--pass"), Tok("secret")>>
Groups ==
    { <<Tok("-c"), Tok("9000")>>, <<Tok("-n")>>, <<Tok("--rest")>>, <<Tok("-t")>>,
      <<Tok("-i"), ModList({"wifi"})>>, <<Tok("--modules"), ModList({"all", "ups"})>>,
      <<Tok("-i"), ModList({"bgp", "firewall:show-disabled"})>> }
Orders == UNION {{f \in [1 .. k -> Groups] : IsInjective(f)} : k \in 0 .. 3}

UserLines ==
    UNION {{Credentials \o FlattenSeq(f) \o <<Tok("host")>>,
            FlattenSeq(f) \o Credentials \o <<Tok("host")>>} : f \in Orders}
    \cup {<<>>, <<Tok("-h")>>, <<Tok("--help")>>, <<Tok("-h"), Tok("host")>>,
          <<Tok("host")>>, Credentials, Credentials \o <<Tok("host"), Tok("-n")>>,
          Credentials \o <<Tok("-r"), Tok("-n"), Tok("host")>>}

\* One of the two ways alone.
NoRules == {}
NoLines == {}
=============================================================================

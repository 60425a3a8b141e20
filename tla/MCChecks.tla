------------------------------ MODULE MCChecks ------------------------------
(* Small instances of Checks for TLC.                                        *)
EXTENDS Checks

NoTools == [nuclei |-> {}, testssl |-> {}, lynis |-> {}, nmap |-> {}]
NoZone  == [mx |-> FALSE, spf |-> "absent", notxt |-> TRUE, flaws |-> {}, dmarc |-> "absent",
            dkim |-> FALSE, mtasts |-> FALSE]

\* A domain with an old web server on the two usual ports, SSH, mail over TLS,
\* and a zone with a weak policy.
Shop ==
    [raw |-> "shop", isName |-> TRUE, dash |-> FALSE, url |-> <<>>,
     names |-> {"www.shop", "dev.shop"}, telling |-> {"dev.shop"}, wildcard |-> FALSE,
     spells |-> {},
     open |-> {22, 80, 443, 993},
     greets |-> 22 :> [reads |-> {<<"ssh", <<2, 0>>>>, <<"openssh", <<9, 6>>>>},
                       runs |-> {<<"openssh", <<9, 6>>>>}, plain |-> FALSE]
                @@ 993 :> [reads |-> {<<"dovecot", <<2, 3>>>>},
                           runs |-> {<<"dovecot", <<2, 3>>>>}, plain |-> TRUE],
     web |-> 80 :> [lacks |-> {<<"hsts", {}>>, <<"csp", {}>>},
                    names |-> {<<"nginx", <<1, 18, 0>>>>}, title |-> {},
                    marks |-> {"wordpress"}, listing |-> TRUE]
             @@ 443 :> [lacks |-> {<<"hsts", {}>>, <<"frame", {}>>,
                                   <<"secure-cookie", {<<"php", <<5, 6>>>>}>>},
                        names |-> {<<"php", <<8>>>>}, title |-> {<<"httpd", <<2, 4, 63>>>>},
                        marks |-> {}, listing |-> FALSE],
     tls |-> 443 :> [versions |-> {"1.0", "1.2"}, weak |-> TRUE,
                     cert |-> {"expired", "expiring", "self_signed", "untrusted"}]
             @@ 993 :> [versions |-> {"1.2", "1.3"}, weak |-> FALSE,
                        cert |-> {"wrong_name", "weak_key"}],
     zone |-> [mx |-> TRUE, spf |-> "noall", notxt |-> FALSE, flaws |-> {"dmarc-norua"},
               dmarc |-> "none", dkim |-> TRUE, mtasts |-> TRUE],
     tools |-> [nuclei |-> {<<0, "high", {}>>, <<0, "unknown", {}>>},
                testssl |-> {<<0, "low", {}>>, <<0, "ok", {}>>},
                lynis |-> {<<0, "warning", {}>>, <<0, "other", {}>>},
                nmap |-> {<<22, "", {<<"openssh", <<9, 6>>>>}>>}]]

\* An address: a database in the open, and a web server on a port that no
\* scan covers.
Box ==
    [raw |-> "box", isName |-> FALSE, dash |-> FALSE, url |-> <<>>,
     names |-> {}, telling |-> {}, wildcard |-> FALSE, spells |-> {},
     open |-> {3306, 8444},
     greets |-> 3306 :> [reads |-> {<<"mariadb", <<5, 6>>>>}, runs |-> {<<"mysql", <<5, 6>>>>},
                         plain |-> TRUE],
     web |-> 8444 :> [lacks |-> {<<"csp", {}>>}, names |-> {}, title |-> {}, marks |-> {},
                      listing |-> FALSE],
     tls |-> 8444 :> [versions |-> {"1.2"}, weak |-> FALSE, cert |-> {}],
     zone |-> NoZone, tools |-> NoTools]

\* A site by an address that spells a version, in a domain that answers for
\* every name.
Page ==
    [raw |-> "page", isName |-> TRUE, dash |-> TRUE, url |-> <<"http", 8080>>,
     names |-> {"www.page"}, telling |-> {}, wildcard |-> TRUE,
     spells |-> {<<"nginx", <<1, 19>>>>},
     open |-> {443, 8080},
     greets |-> <<>>,
     web |-> 8080 :> [lacks |-> {<<"nosniff", {}>>, <<"hsts", {}>>}, names |-> {<<"nginx", <<>>>>},
                      title |-> {}, marks |-> {}, listing |-> TRUE],
     tls |-> 443 :> [versions |-> {"1.3"}, weak |-> FALSE,
                     cert |-> {"long_validity", "untrusted"}],
     zone |-> [NoZone EXCEPT !.spf = "plus", !.notxt = FALSE, !.dmarc = "other"],
     tools |-> [NoTools EXCEPT !.nuclei = {<<0, "low", {}>>}]]

MCSites == {Shop, Box, Page}

\* More files than the limit, one that is passed over and one that breaks off.
MCTree == <<[kind |-> "long", secrets |-> {<<"aws", "critical">>}],
            [kind |-> "binary", secrets |-> {<<"aws", "critical">>}],
            [kind |-> "text", secrets |-> {<<"jwt", "medium">>, <<"token", "critical">>}],
            [kind |-> "text", secrets |-> {<<"password", "medium">>}],
            [kind |-> "text", secrets |-> {<<"token", "critical">>}]>>

MCScan(profile, targets, paid, tree) ==
    [profile |-> profile, targets |-> targets, paid |-> paid, tree |-> tree]
MCScans == {MCScan("full", <<Shop, Box>>, TRUE, <<MCTree>>),
            MCScan("full", <<Page, Shop>>, TRUE, <<>>),
            MCScan("perimeter", <<Box, Page>>, FALSE, <<>>),
            MCScan("web", <<Page>>, FALSE, <<>>),
            MCScan("tls_email", <<Shop, Page>>, TRUE, <<>>),
            MCScan("hardening", <<Box>>, TRUE, <<MCTree>>)}
=============================================================================

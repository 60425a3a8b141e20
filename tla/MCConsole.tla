----------------------------- MODULE MCConsole -----------------------------
(* Small instances of Console for TLC.                                       *)
EXTENDS Console, TLC

CONSTANTS tls, net

\* One registered name and a name under it are declared; further names are
\* found under the first, and one host is outside of both.
MCHosts    == <<<<"ex">>, <<"ex", "ftp">>, <<"ex", "mail">>, <<"ex", "www">>, <<"other">>>>
MCDeclared == {<<"ex">>, <<"ex", "www">>}
MCOutside  == <<"outside", "the", "declared">>

\* ex has a service and two hosts under it, www something of its own too.
MCHostOf == <<MCHosts[4], MCHosts[4], MCHosts[1], MCHosts[3], MCHosts[2], MCHosts[5]>>
MCPortOf == <<0, 443, 22, 25, 21, 0>>

By(sev, tools) == [sev |-> sev, conf |-> "likely", tools |-> tools, status |-> "open"]
MCSeen == <<By("info", {net}), By("high", {tls}), By("medium", {tls, net}),
            By("low", {tls}), By("low", {net}), By("info", {net})>>

MCConfigs  == {<<"free", "local">>, <<"free", "keyed">>, <<"pro", "keyed">>}
MCShownCap == [free |-> 3, pro |-> 0]
=============================================================================

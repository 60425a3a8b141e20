----------------------------- MODULE MCAuthzLog -----------------------------
(* Small instances of AuthzLog for TLC.                                      *)
EXTENDS AuthzLog, TLC

MCTexts == {"", " ", "EX", "ex", "https://ex/p", "www.ex", "10.0.0.7", "10.0.0.0/24",
            "224.0.0.1", "https://", "nizar", "rima"}
MCNorm == [t \in MCTexts |-> CASE t = " " -> "" [] t = "EX" -> "ex" [] OTHER -> t]
MCHostOf ==
    [t \in MCTexts |->
        CASE t \in {"EX", "ex", "https://ex/p"} -> <<"ex">>
          [] t = "www.ex" -> <<"ex", "www">>
          [] t = "10.0.0.0/24" -> <<"10.0.0.0">>
          [] t \in {"", " ", "https://"} -> <<>>
          [] OTHER -> <<t>>]
MCNetworkOf == ("10.0.0.0/24" :> {<<"10.0.0.0">>, <<"10.0.0.7">>})
MCNoHost == <<>>
MCAssessable == {<<"ex">>, <<"ex", "www">>, <<"10.0.0.0">>, <<"10.0.0.7">>}

Asks(targets, confirm, scope, operator, confirmed) ==
    [targets |-> targets, confirm |-> confirm, scope |-> scope,
     operator |-> operator, confirmed |-> confirmed]

\* Well formed with and without a scope, partly outside it, nothing left,
\* typed differently, not confirmed, nobody's.
MCRequests ==
    {Asks({"EX", " ", "www.ex"}, {"ex", "www.ex"}, {}, "nizar", TRUE),
     Asks({"www.ex", "10.0.0.7", "224.0.0.1"}, {"www.ex", "10.0.0.7", "224.0.0.1"},
          {"https://ex/p", "10.0.0.0/24", "https://"}, "rima", TRUE),
     Asks({"ex", "10.0.0.7"}, {"ex", "10.0.0.7"}, {"www.ex", "10.0.0.0/24"}, "rima", TRUE),
     Asks({"ex", "https://"}, {"ex", "https://"}, {"10.0.0.0/24"}, "nizar", TRUE),
     Asks({"ex", "www.ex"}, {"ex"}, {}, "nizar", TRUE),
     Asks({"ex"}, {"ex"}, {}, "nizar", FALSE),
     Asks({"ex"}, {"ex"}, {}, " ", TRUE),
     Asks({" "}, {" "}, {}, "nizar", TRUE)}
MCTwoRequests ==
    {Asks({"ex"}, {"ex"}, {}, "nizar", TRUE), Asks({"www.ex"}, {"www.ex"}, {}, "rima", TRUE)}
=============================================================================

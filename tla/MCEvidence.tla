----------------------------- MODULE MCEvidence -----------------------------
(* Small instances of Evidence for TLC.                                      *)
EXTENDS Evidence, TLC

CONSTANTS f1, f2, x, y

\* One condition two checks may see, one of them twice, and one seen by one.
Says(id, tool, sev, conf, status) ==
    [id |-> id, finding |-> [sev |-> sev, conf |-> conf, tools |-> {tool},
                             status |-> status]]
MCReports ==
    {Says(f1, x, "high", "potential", "open"),
     Says(f1, x, "low", "likely", "open"),
     Says(f1, y, "low", "potential", "manual_review"),
     Says(f2, y, "medium", "confirmed", "open")}
=============================================================================

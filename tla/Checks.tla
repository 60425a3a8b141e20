------------------------------- MODULE Checks -------------------------------
(* The checks of an assessment and what they report: a profile's checks run  *)
(* stage by stage, each on every target, and a later one reads the findings  *)
(* of the earlier ones.  What a target is like is a record of Sites; a probe *)
(* of it may fail, and a check may be stopped by the end of its time.        *)
(*                                                                           *)
(* A finding keeps what sets it apart (kind and port), how sure and severe   *)
(* it is, what it saw, and the versions its evidence spells for a later      *)
(* check to read (text).  A word and its version are a pair.                 *)
EXTENDS Integers, Sequences, FiniteSets, SequencesExt

CONSTANTS
    Sites,      \* what a target may be like
    Scans,      \* [profile, targets, paid, tree]: tree is <<>> or <<its files in order>>
    Installed,  \* external tools on this host
    Ports,      \* the ports the policy lets a scan touch
    MaxFiles,   \* the secret scan's limit
    MaxLost,    \* bound: a check loses answers only while fewer are lost than this
    MaxAnswers  \* bound: answers one check of a target loses

\* The profiles' checks in the order they are listed.
Profile ==
    [perimeter |-> <<"subdomain", "portscan", "banner", "httpprobe", "headers",
                     "tlsaudit", "vulnsig">>,
     web       |-> <<"httpprobe", "headers", "tlsaudit", "vulnsig">>,
     tls_email |-> <<"tlsaudit", "dnsemail", "testssl">>,
     hardening |-> <<"secrets", "lynis">>,
     full      |-> <<"subdomain", "portscan", "banner", "httpprobe", "headers", "tlsaudit",
                     "dnsemail", "secrets", "vulnsig", "nuclei", "testssl", "lynis", "nmap">>]

External == {"nuclei", "testssl", "lynis", "nmap"}

\* Mutant: open ports are concluded at the end.
StagePortsLast(c) ==
    CASE c = "subdomain" -> 0
      [] c \in {"banner", "httpprobe", "tlsaudit", "dnsemail", "secrets", "lynis"} -> 2
      [] OTHER -> 3

Stage(c) ==
    CASE c = "subdomain" -> 0
      [] c = "portscan" -> 1
      [] c \in {"banner", "httpprobe", "tlsaudit", "dnsemail", "secrets", "lynis"} -> 2
      [] OTHER -> 3

HTTPPorts == {80, 3000, 8000, 8080, 8081, 8888, 9000, 9090, 5601}
HTTPSPorts == {443, 8443}
MailTLSPorts == {465, 636, 993, 995}

PortNumbers == 0..65535
Severities  == {"critical", "high", "medium", "low", "info"}

\* The headers a response may lack; a cookie set without HttpOnly or SameSite,
\* and one that lacks but Secure.
HeaderFaults == {"hsts", "csp", "nosniff", "frame", "referrer", "cookie", "secure-cookie"}

\* A finding about target t, with evidence that spells versions and without.
G(t, kind, port, sev, conf, saw, text) ==
    [on |-> t, kind |-> kind, port |-> port, sev |-> sev, conf |-> conf,
     saw |-> saw, text |-> text]
F(t, kind, port, sev, conf, saw) == G(t, kind, port, sev, conf, saw, {})
Words(S) == {<<w, <<>>>> : w \in S}

\* The embedded signatures of versions with known issues.
Signature(product, atLeast, below, sev) ==
    [product |-> product, atLeast |-> atLeast, below |-> below, sev |-> sev]

Signatures ==
    {Signature("openssh", <<>>, <<7, 4>>, "medium"),
     Signature("openssh", <<8, 5>>, <<9, 3>>, "high"),
     Signature("apache", <<>>, <<2, 4, 52>>, "high"),
     Signature("nginx", <<>>, <<1, 20, 1>>, "medium"),
     Signature("php", <<>>, <<7, 4>>, "high"),
     Signature("php", <<8, 0>>, <<8, 1, 28>>, "critical"),
     Signature("exim", <<>>, <<4, 94, 2>>, "critical"),
     Signature("proftpd", <<>>, <<1, 3, 6>>, "high"),
     Signature("vsftpd", <<>>, <<3, 0, 3>>, "medium"),
     Signature("mysql", <<>>, <<5, 7>>, "medium"),
     Signature("postgresql", <<>>, <<12>>, "medium"),
     Signature("iis", <<>>, <<8, 0>>, "medium")}

\* What banners say, to the words signatures use; others are nobody's.
ProductOf(word) ==
    CASE word = "httpd" -> "apache"
      [] word = "ssh" -> "openssh"
      [] word = "php-fpm" -> "php"
      [] word = "mariadb" -> "mysql"
      [] word = "postgres" -> "postgresql"
      [] word = "microsoft-iis" -> "iis"
      [] word \in {s.product : s \in Signatures} -> word
      [] OTHER -> "nobody"

\* A version of software that signatures know.
Known(w) == ProductOf(w[1]) # "nobody" /\ w[2] # <<>>

\* Ports are ports, and headers those that are looked for.  What a greeting
\* spells is the software that sends it, but for the version of the SSH protocol
\* and what the target's own name (or address) spells.
IsSite(t) ==
    /\ t.open \subseteq PortNumbers
    /\ \A p \in DOMAIN t.web : \A w \in t.web[p].lacks : w[1] \in HeaderFaults
    /\ \A tool \in External : \A r \in t.tools[tool] : r[1] \in PortNumbers
    /\ \A p \in DOMAIN t.greets : \A w \in t.greets[p].reads :
          Known(w) => \/ w[1] = "ssh" \/ w \in t.spells
                      \/ <<ProductOf(w[1]), w[2]>> \in t.greets[p].runs

\* What the secret scan finds in a file is a pair of its name and its severity.
Files == [kind : STRING, secrets : SUBSET (STRING \X Severities)]

ASSUME SiteAssumption == \A t \in Sites : IsSite(t)

\* A scan has a target, and no two alike: the gate sees to both.
ASSUME ScanAssumption ==
    /\ {MaxFiles, MaxLost, MaxAnswers} \subseteq Nat /\ Ports \subseteq PortNumbers
    /\ \A s \in Scans :
          /\ s.profile \in DOMAIN Profile
          /\ s.targets \in Seq(Sites) /\ s.targets # <<>>
          /\ \A i, j \in DOMAIN s.targets : i # j => s.targets[i].raw # s.targets[j].raw
          /\ s.tree # <<>> => s.tree[1] \in Seq(Files)

VARIABLES
    scan,       \* what is being assessed
    left,       \* the checks that are not through with every target
    turn,       \* the target that comes next
    collected,  \* the findings so far
    records,    \* what the job records of each check
    lost        \* the answers that were lost: of which check, target and probe

vars == <<scan, left, turn, collected, records, lost>>

Checklist == {Profile[scan.profile][i] : i \in DOMAIN Profile[scan.profile]}

\* Sorted by stage, and otherwise as listed.
Before(c, d) ==
    LET listed == Profile[scan.profile] IN
    \/ Stage(c) < Stage(d)
    \/ Stage(c) = Stage(d) /\ \E i, j \in DOMAIN listed : i < j /\ listed[i] = c /\ listed[j] = d

IsNext(c) == c \in left /\ \A d \in left \ {c} : Before(c, d)
Done     == left = {}
Targets == {scan.targets[i] : i \in DOMAIN scan.targets}

-----------------------------------------------------------------------------
(* What each check makes of a target.  L is the set of its probes that fail  *)
(* and, if it ran out of time, of those it never came to; late says that it  *)
(* did.  A result is its findings and its notes.                             *)

Result(fs, notes) == [findings |-> fs, notes |-> notes, ok |-> TRUE]
Error(why)        == [findings |-> {}, notes |-> {why}, ok |-> FALSE]
NoteIf(p, note)   == IF p THEN {note} ELSE {}

\* openPortsFrom: the ports an earlier check found open on this target.
KnownOpen(t, prior) == {f.port : f \in {g \in prior : g.on = t.raw /\ g.kind = "open-port"}}

Subdomain(t, L, late) ==
    LET hits == t.names \ L IN
    IF ~t.isName THEN Result({}, {"needs a name"})
    ELSE IF t.wildcard /\ "wildcard" \notin L
    THEN Result({F(t.raw, "dns-wildcard", 0, "info", "confirmed", {})}, {"wildcard"})
    ELSE IF late THEN Result({}, {"limited", "stopped early"})
    ELSE Result({F(h, "subdomain", 0, IF h \in t.telling THEN "low" ELSE "info",
                   "confirmed", {}) : h \in hits},
                {"limited"} \cup NoteIf(hits = {}, "nothing found"))

\* Mutant: a port that is nothing special has no severity.
ExposureRiskBare(port) == IF port \in {2375, 6379, 3306} THEN "high" ELSE ""

ExposureRisk(port) ==
    CASE port = 2375 -> "critical"
      [] port \in {6379, 11211, 27017, 9200, 2376, 23, 445, 139} -> "high"
      [] port \in {3306, 5432, 1433, 1521, 3389, 5900, 161, 2049} -> "medium"
      [] OTHER -> "info"

\* Stopped early, the scan returns its note and none of the ports it found.
PortScan(t, L, late) ==
    LET open == (t.open \cap Ports) \ L IN
    IF late THEN Result({}, {"stopped early"})
    ELSE Result({F(t.raw, "open-port", p, ExposureRisk(p), "confirmed", {}) : p \in open},
                NoteIf(open = {}, "nothing found"))

\* A port that does not answer is passed over without a note, and so is one
\* that says nothing.
Banner(t, prior, L, late) ==
    LET ports == KnownOpen(t, prior)
        read  == {p \in (ports \cap DOMAIN t.greets) \ (L \cup HTTPPorts \cup HTTPSPorts) :
                    p \in t.open}
    IN
    Result({G(t.raw, "banner", p, IF t.greets[p].plain THEN "low" ELSE "info",
              "confirmed", {}, t.greets[p].reads) : p \in read},
           NoteIf(ports = {}, "no open port was known")
               \cup NoteIf(ports # {} /\ late, "stopped early"))

\* An endpoint: where the request goes, and the port it is filed under.
Endpoints(t, prior) ==
    LET known == KnownOpen(t, prior)
        http  == known \cap (HTTPPorts \cup HTTPSPorts)
    IN
    IF t.url # <<>>
    THEN {[to |-> t.url[2], port |-> IF t.url[1] = "https" THEN 443 ELSE 80,
           tls |-> t.url[1] = "https"]}
    ELSE IF known = {} THEN {[to |-> 443, port |-> 443, tls |-> TRUE],
                             [to |-> 80, port |-> 80, tls |-> FALSE]}
    ELSE {[to |-> p, port |-> p, tls |-> p \in HTTPSPorts] : p \in http}

\* A response: its bare fact with what it lacks, its address and its title; the
\* software its own headers name, the marks of a technology, which are names
\* without a version, and a listing of files.
Response(t, e) ==
    LET web == t.web[e.to] IN
    {G(t.raw, "http-service", e.port, "info", "confirmed", web.lacks, t.spells \cup web.title)}
    \cup {G(t.raw, "header-disclosure", e.port, IF Len(s[2]) > 1 THEN "low" ELSE "info",
            "confirmed", {}, {s}) : s \in web.names}
    \cup (IF web.marks # {} THEN {F(t.raw, "tech", e.port, "info", "likely", Words(web.marks))}
          ELSE {})
    \cup (IF web.listing THEN {G(t.raw, "dirlist", e.port, "medium", "likely", {}, t.spells)}
          ELSE {})

Answers(t, e) == /\ e.to \in t.open \cap DOMAIN t.web
                 /\ e.tls <=> e.to \in DOMAIN t.tls

HTTPProbe(t, prior, L, late) ==
    LET eps == Endpoints(t, prior)
        up  == {e \in eps : Answers(t, e) /\ e.to \notin L}
    IN
    Result(UNION {Response(t, e) : e \in up},
           NoteIf(eps \ up # {}, "no answer") \cup NoteIf(late, "stopped early")
               \cup NoteIf(eps = {}, "no service"))

HeaderSeverity(h) == IF h \in {"hsts", "csp"} THEN "medium" ELSE "low"

\* Mutant: nothing is said when there was nothing to evaluate.
HeadersSilent(t, prior) ==
    LET captured == {f \in prior : f.on = t.raw /\ f.kind = "http-service"} IN
    Result(UNION {{G(t.raw, w[1], f.port, HeaderSeverity(w[1]), "confirmed", {}, w[2]) : w \in f.saw}
                    : f \in captured}, {})

\* Mutant: only responses over TLS count.
HeadersSecure(t, prior) ==
    LET captured == {f \in prior : f.on = t.raw /\ f.kind = "http-service" /\ f.port \in HTTPSPorts}
    IN Result(UNION {{G(t.raw, w[1], f.port, HeaderSeverity(w[1]), "confirmed", {}, w[2])
                        : w \in f.saw} : f \in captured}, NoteIf(captured = {}, "nothing captured"))

\* HSTS and a cookie's Secure flag mean nothing without TLS.
Counts(w, port) == w[1] \in {"hsts", "secure-cookie"} => port \in HTTPSPorts

\* Read off the responses the probe captured: each fault with the text of the
\* cookie that shows it.
Headers(t, prior) ==
    LET captured == {f \in prior : f.on = t.raw /\ f.kind = "http-service"} IN
    Result(UNION {{G(t.raw, w[1], f.port, HeaderSeverity(w[1]), "confirmed", {}, w[2])
                     : w \in {v \in f.saw : Counts(v, f.port)}} : f \in captured},
           NoteIf(captured = {}, "nothing captured"))

TLSPorts(t, prior) ==
    LET known == KnownOpen(t, prior) \cap (HTTPSPorts \cup MailTLSPorts) IN
    IF known # {} THEN known
    ELSE IF t.url # <<>> /\ t.url[1] # "https" THEN {} ELSE {443}

CertSeverity ==
    [expired |-> "high", not_yet_valid |-> "high", expiring |-> "medium",
     self_signed |-> "medium", wrong_name |-> "medium", chain |-> "medium",
     weak_sig |-> "high", weak_key |-> "high", long_validity |-> "low"]

\* What makes the library refuse a chain: no root it leads to, and as much a
\* date or name that is wrong, or a signature it takes for insecure.
Unverified == {"untrusted", "expired", "not_yet_valid", "wrong_name", "weak_sig"}

\* The first of the dates that is wrong; name and chain only if there is a
\* name to ask for, and the chain of a self-signed certificate not again.
CertFindings(cert, isName) ==
    LET dates == IF "expired" \in cert THEN {"expired"}
                 ELSE IF "not_yet_valid" \in cert THEN {"not_yet_valid"}
                 ELSE cert \cap {"expiring"}
        chain == IF cert \cap Unverified # {} /\ "self_signed" \notin cert THEN {"chain"} ELSE {}
    IN dates \cup (IF isName THEN (cert \cap {"wrong_name"}) \cup chain ELSE {})
         \cup (cert \cap {"self_signed", "weak_sig", "weak_key", "long_validity"})

OldTLS == [v \in {"1.0", "1.1"} |-> IF v = "1.0" THEN "tls-1.0" ELSE "tls-1.1"]

\* Versions are tried one by one, and one that fails is one not accepted; weak
\* suites too, and when time runs out on them those found are let go.
AuditPort(t, p, L) ==
    LET tls == t.tls[p]
        accepted == {v \in tls.versions : <<p, v>> \notin L}
    IN
    {F(t.raw, OldTLS[v], p, "medium", "confirmed", {}) : v \in accepted \cap DOMAIN OldTLS}
    \cup (IF "1.2" \in accepted /\ "1.3" \notin accepted
          THEN {F(t.raw, "tls-no13", p, "low", "confirmed", {})} ELSE {})
    \cup (IF accepted = {} THEN {}
          ELSE {F(t.raw, "tls-versions", p, "info", "confirmed", Words(accepted))})
    \cup (IF tls.weak /\ <<p, "suites">> \notin L
          THEN {F(t.raw, "tls-weak-cipher", p, "medium", "confirmed", {})} ELSE {})
    \cup {F(t.raw, d, p, CertSeverity[d], "confirmed", {}) : d \in CertFindings(tls.cert, t.isName)}
    \cup {F(t.raw, "tls-connection", p, "info", "confirmed", {})}

\* Mutant: a port that was not reached is audited as one that accepts nothing.
TLSAuditEager(t, prior, L, late) ==
    Result({F(t.raw, "tls-no13", p, "low", "confirmed", {}) : p \in TLSPorts(t, prior)},
           {"audited"})

\* A port whose first handshake fails is noted.  Out of time on the last port
\* there is nothing more to note.
TLSAudit(t, prior, L, late) ==
    LET ports == TLSPorts(t, prior)
        up    == {p \in ports : p \in t.open \cap DOMAIN t.tls /\ <<p, "first">> \notin L}
    IN
    Result(UNION {AuditPort(t, p, L) : p \in up},
           NoteIf(ports \ up # {}, IF late THEN "stopped early" ELSE "handshake failed")
               \cup NoteIf(ports = {}, "no service"))

SPFWeakness == [plus |-> "high", neutral |-> "medium", noall |-> "low"]
SPFKind     == [plus |-> "spf-plusall", neutral |-> "spf-neutral", noall |-> "spf-noall"]

\* A lookup that fails and a name that does not exist are the same error.
DNSEmail(t, L) ==
    LET zone == t.zone
        mail == zone.mx /\ "mx" \notin L
        spf  == IF "txt" \in L THEN "absent" ELSE zone.spf
        dmarc == IF "dmarc" \in L THEN "absent" ELSE zone.dmarc
        mailSev == IF mail THEN "medium" ELSE "low"
        D(kind, sev, conf) == F(t.raw, kind, 0, sev, conf, {})
        SPF == IF spf = "absent" THEN {D("spf-missing", mailSev, "confirmed")}
               ELSE {D("spf-present", "info", "confirmed")}
                    \cup {D(SPFKind[w], SPFWeakness[w],
                            IF w = "noall" THEN "likely" ELSE "confirmed")
                            : w \in {spf} \cap DOMAIN SPFWeakness}
                    \cup {D(w, "low", "likely") : w \in zone.flaws \cap {"spf-lookups"}}
        DMARC == CASE dmarc = "absent" -> {D("dmarc-missing", mailSev, "confirmed")}
                   [] dmarc = "other" -> {}
                   [] OTHER ->
                        {D("dmarc-present", "info", "confirmed")}
                        \cup (IF dmarc = "none" THEN {D("dmarc-none", "medium", "confirmed")}
                              ELSE {})
                        \cup {D(w, "low", "confirmed") : w \in zone.flaws \cap {"dmarc-norua"}}
        Mail == {IF zone.dkim /\ "dkim" \notin L THEN D("dkim-present", "info", "confirmed")
                 ELSE D("dkim-none-common", "low", "potential")}
                \cup (IF zone.mtasts /\ "mta-sts" \notin L THEN {}
                      ELSE {D("mta-sts-missing", "low", "confirmed")})
                \cup {D("mx-inventory", "info", "confirmed")}
    IN
    IF ~t.isName THEN Result({}, {"needs a name"})
    ELSE Result(SPF \cup DMARC \cup (IF mail THEN Mail ELSE {})
                    \cup (IF "ns" \in L THEN {} ELSE {D("ns-inventory", "info", "confirmed")}),
                NoteIf("txt" \in L \/ (spf = "absent" /\ zone.notxt), "TXT lookup failed")
                    \cup NoteIf(~mail, "no MX record"))

\* The files of the tree in the order of the walk.  Reading stops at the limit;
\* one with a line too long for the reader counts as scanned and what was found
\* in it is dropped.
Secrets(t, L, late) ==
    LET file == scan.tree[1]
        scanned(i) == file[i].kind \in {"text", "long"}
        before(i)  == Cardinality({j \in 1..(i - 1) : scanned(j)})
        walked == {i \in DOMAIN file : /\ before(i) < MaxFiles
                                       /\ late => \A j \in L : i < j}
        read   == {i \in walked : file[i].kind = "text" /\ i \notin L}
    IN
    IF scan.tree = <<>> THEN Result({}, {"no path"})
    ELSE Result(UNION {{F(t.raw, "secret", 0, s[2], "likely", {<<s[1], <<i>>>>})
                          : s \in file[i].secrets} : i \in read},
                {"scanned"} \cup NoteIf(late, "stopped early")
                    \cup NoteIf(Cardinality({i \in walked : scanned(i)}) >= MaxFiles, "limit"))

-----------------------------------------------------------------------------
(* Versions that were seen, against the embedded signatures.                 *)

\* compareVersions(v, w) < 0: missing components count as zero.
Older(v, w) ==
    LET part(u, i) == IF i \in DOMAIN u THEN u[i] ELSE 0
    IN \E i \in 1..4 : /\ part(v, i) < part(w, i)
                       /\ \A j \in 1..(i - 1) : part(v, j) = part(w, j)

Matches(s, product, version) == /\ s.product = product
                                /\ Older(version, s.below)
                                /\ ~Older(version, s.atLeast)

\* The versions earlier findings about this target spell, whatever they are
\* about: greetings and headers, but titles, addresses and cookies as well.
Software(t, prior) ==
    UNION {{<<ProductOf(w[1]), w[2], f.port>> : w \in {v \in f.text : Known(v)}}
             : f \in {g \in prior : g.on = t.raw}}

VulnSig(t, prior) ==
    LET seen == Software(t, prior)
        hits(o) == {s \in Signatures : Matches(s, o[1], o[2])}
    IN
    Result(UNION {IF hits(o) = {}
                  THEN {F(t.raw, "version-observed", o[3], "info", "confirmed", {<<o[1], o[2]>>})}
                  ELSE {F(t.raw, "vulnsig", o[3], s.sev, "likely", {<<o[1], o[2]>>})
                          : s \in hits(o)} : o \in seen},
           NoteIf(seen = {}, "no version seen"))

\* How an external tool's own grade is taken; "" drops the row.
Grade(tool, word) ==
    CASE tool = "nuclei" -> IF word \in {"critical", "high", "medium", "low"} THEN word ELSE "info"
      [] tool = "testssl" -> IF word \in {"critical", "high", "medium", "low"} THEN word ELSE ""
      [] tool = "lynis" -> CASE word = "warning" -> "medium" [] word = "suggestion" -> "low"
                             [] OTHER -> ""
      [] tool = "nmap" -> "info"

\* Output is read whether or not the tool failed; it failed if nothing came.
Tool(tool, t, L) ==
    LET rows == IF "output" \in L THEN {} ELSE {r \in t.tools[tool] : Grade(tool, r[2]) # ""}
        kind == IF tool = "nmap" THEN "nmap-service" ELSE tool
    IN
    IF t.dash \/ ("exit" \in L /\ rows = {}) THEN Error("failed")
    ELSE Result({G(t.raw, kind, r[1], Grade(tool, r[2]),
                   IF tool = "nuclei" THEN "likely" ELSE "confirmed", {},
                   IF tool = "nmap" THEN r[3] ELSE {}) : r \in rows},
                {"count"} \cup NoteIf("output" \in L /\ tool # "nuclei", "not parsed"))

-----------------------------------------------------------------------------
(* What a check asks of a target, and what it makes of the answers.          *)

Probes(c, t, prior) ==
    CASE c = "subdomain" -> t.names \cup {"wildcard"}
      [] c = "portscan"  -> t.open \cap Ports
      [] c = "banner"    -> KnownOpen(t, prior)
      [] c = "httpprobe" -> {e.to : e \in Endpoints(t, prior)}
      [] c = "tlsaudit"  -> TLSPorts(t, prior) \X {"first", "1.0", "1.1", "1.2", "1.3", "suites"}
      [] c = "dnsemail"  -> {"mx", "txt", "dmarc", "dkim", "mta-sts", "ns"}
      [] c = "secrets"   -> IF scan.tree = <<>> THEN {} ELSE DOMAIN scan.tree[1]
      [] c \in External  -> {"exit", "output"}
      [] OTHER -> {}

Check(c, t, prior, L, late) ==
    CASE c = "subdomain" -> Subdomain(t, L, late)
      [] c = "portscan"  -> PortScan(t, L, late)
      [] c = "banner"    -> Banner(t, prior, L, late)
      [] c = "httpprobe" -> HTTPProbe(t, prior, L, late)
      [] c = "headers"   -> Headers(t, prior)
      [] c = "tlsaudit"  -> TLSAudit(t, prior, L, late)
      [] c = "dnsemail"  -> DNSEmail(t, L)
      [] c = "secrets"   -> Secrets(t, L, late)
      [] c = "vulnsig"   -> VulnSig(t, prior)
      [] c \in External  -> Tool(c, t, L)

Init ==
    /\ scan \in Scans
    /\ left = Checklist /\ turn = 1
    /\ collected = {} /\ records = <<>> /\ lost = {}

\* A tool that is not installed, or not licensed, is passed over for every target.
Unavailable(c) == c \in External /\ (c \notin Installed \/ ~scan.paid)

Skip ==
    \E c \in left :
        /\ IsNext(c) /\ Unavailable(c)
        /\ left' = left \ {c}
        /\ records' = Append(records, [check |-> c, on |-> "", skipped |-> TRUE,
                                       ok |-> FALSE, found |-> FALSE, reason |-> {"unavailable"}])
        /\ UNCHANGED <<scan, turn, collected, lost>>

\* What is left after check c of the target whose turn it is.
Onward(c) ==
    IF turn < Len(scan.targets) THEN turn' = turn + 1 /\ UNCHANGED left
    ELSE turn' = 1 /\ left' = left \ {c}

\* Check c of the target whose turn it is: L are the probes that fail.
Apply(c, L, late) ==
    LET t == scan.targets[turn]
        res == Check(c, t, collected, L, late)
    IN
    /\ collected' = collected \cup res.findings
    /\ records' = Append(records,
           [check |-> c, on |-> t.raw, skipped |-> FALSE, ok |-> res.ok,
            found |-> res.findings # {}, reason |-> res.notes])
    /\ lost' = lost \cup {<<c, t.raw, x>> : x \in L}

Run ==
    \E c \in left :
        /\ IsNext(c) /\ ~Unavailable(c)
        /\ \E L \in UNION {kSubset(n, Probes(c, scan.targets[turn], collected)) : n \in 0..MaxAnswers},
              late \in BOOLEAN :
              /\ L # {} => Cardinality(lost) < MaxLost
              /\ late => L # {}
              /\ Apply(c, L, late)
        /\ Onward(c)
        /\ UNCHANGED scan

Next == Skip \/ Run
Spec == Init /\ [][Next]_vars

-----------------------------------------------------------------------------
(* Properties.                                                               *)

\* Every finding is one that Validate lets through, so that Run drops none, and
\* every check has one record for each target or one for all of them (the loop
\* of Runner.run).
TypeOK ==
    /\ scan \in Scans /\ left \subseteq Checklist /\ turn \in 1..Len(scan.targets)
    /\ \A f \in collected : /\ f.sev \in Severities
                            /\ f.conf \in {"confirmed", "likely", "potential"}
                            /\ f.port \in PortNumbers
    /\ \A c \in Checklist \ left :
          Cardinality({j \in DOMAIN records : records[j].check = c})
              = IF Unavailable(c) THEN 1 ELSE Len(scan.targets)

\* Where the response was from that is filed under a port.
From(t, port) == IF t.url # <<>> THEN t.url[2] ELSE port

\* Whether what a finding says of a target is so.
Holds(t, f) ==
    LET k == f.kind
        from == From(t, f.port)
        page == t.web[from]
        greeted == f.port \in DOMAIN t.greets
        spoken == f.port \in DOMAIN t.tls
        tls == t.tls[f.port]
        row(tool) == \E r \in t.tools[tool] : r[1] = f.port /\ f.sev = Grade(tool, r[2])
    IN
    CASE k = "open-port" -> f.port \in t.open
      [] k = "subdomain" -> f.on \in t.names
      [] k = "dns-wildcard" -> t.wildcard
      [] k = "banner" -> greeted /\ f.text = t.greets[f.port].reads
      [] k = "http-service" ->
            from \in DOMAIN t.web /\ f.saw = page.lacks /\ f.text = t.spells \cup page.title
      [] k = "header-disclosure" -> from \in DOMAIN t.web /\ f.text \subseteq page.names
      [] k = "tech" -> from \in DOMAIN t.web /\ f.saw = Words(page.marks)
      [] k = "dirlist" -> from \in DOMAIN t.web /\ page.listing /\ f.text = t.spells
      [] k \in HeaderFaults -> from \in DOMAIN t.web /\ \E w \in page.lacks : w[1] = k /\ w[2] = f.text
      [] k = "tls-1.0" -> spoken /\ "1.0" \in tls.versions
      [] k = "tls-1.1" -> spoken /\ "1.1" \in tls.versions
      [] k = "tls-no13" -> spoken /\ "1.3" \notin tls.versions
      [] k = "tls-versions" -> spoken /\ f.saw \subseteq Words(tls.versions)
      [] k = "tls-weak-cipher" -> spoken /\ tls.weak
      [] k = "tls-connection" -> spoken
      [] k = "chain" -> spoken /\ "untrusted" \in tls.cert
      [] k \in DOMAIN CertSeverity \ {"chain"} -> spoken /\ k \in tls.cert
      [] k = "spf-missing" -> t.zone.spf = "absent"
      [] k = "spf-present" -> t.zone.spf # "absent"
      [] k = "spf-plusall" -> t.zone.spf = "plus"
      [] k = "spf-neutral" -> t.zone.spf = "neutral"
      [] k = "spf-noall" -> t.zone.spf = "noall"
      [] k = "dmarc-missing" -> t.zone.dmarc = "absent"
      [] k = "dmarc-present" -> t.zone.dmarc \notin {"absent", "other"}
      [] k = "dmarc-none" -> t.zone.dmarc = "none"
      [] k \in {"spf-lookups", "dmarc-norua"} -> k \in t.zone.flaws
      [] k = "dkim-none-common" -> ~t.zone.dkim
      [] k = "dkim-present" -> t.zone.dkim
      [] k = "mta-sts-missing" -> ~t.zone.mtasts
      [] k = "mx-inventory" -> t.zone.mx
      [] k = "ns-inventory" -> TRUE
      [] k = "secret" -> \E s \in f.saw : \E r \in scan.tree[1][s[2][1]].secrets : r[1] = s[1]
      [] k \in {"vulnsig", "version-observed"} ->
            \/ greeted /\ f.saw \subseteq t.greets[f.port].runs
            \/ from \in DOMAIN t.web /\ \E w \in page.names : f.saw = {<<ProductOf(w[1]), w[2]>>}
      [] k = "nmap-service" -> row("nmap")
      [] k \in External -> row(k)

\* A version that a greeting, a page or the target's name spells, and that is
\* not one of the software there.
Hearsay(t, port) ==
    t.spells
    \cup (IF port \in DOMAIN t.greets THEN {w \in t.greets[port].reads : w[1] = "ssh"} ELSE {})
    \cup (IF From(t, port) \notin DOMAIN t.web THEN {}
          ELSE LET page == t.web[From(t, port)]
               IN page.title \cup UNION {w[2] : w \in page.lacks})

\* Where what is reported of a target may not be so of it.  A version that was
\* read off a text that is not about the software,
Misread(t, f) ==
    /\ f.kind \in {"vulnsig", "version-observed"}
    /\ \E w \in Hearsay(t, f.port) : f.saw = {<<ProductOf(w[1]), w[2]>>}

\* a chain that is refused for the date, name or signature of the certificate,
Misblamed(t, f) ==
    /\ f.kind = "chain" /\ f.port \in DOMAIN t.tls
    /\ t.tls[f.port].cert \cap Unverified # {}

\* and something taken for missing because the answer about it was lost.
Unheard(t, f) ==
    LET was(c, x) == <<c, t.raw, x>> \in lost IN
    CASE f.kind = "spf-missing" -> was("dnsemail", "txt")
      [] f.kind = "dmarc-missing" -> was("dnsemail", "dmarc")
      [] f.kind = "dkim-none-common" -> was("dnsemail", "dkim")
      [] f.kind = "mta-sts-missing" -> was("dnsemail", "mta-sts")
      [] f.kind = "tls-no13" -> was("tlsaudit", <<f.port, "1.3">>)
      [] OTHER -> FALSE

About(f) == {t \in Targets : f.on = t.raw \/ (f.kind = "subdomain" /\ f.on \in t.names)}

\* What is reported of a target is so of that very target and port, whatever was
\* scanned with it and whatever answers were lost (the guards of every Run, and
\* openPortsFrom's and Headers' test of the target), with three exceptions and
\* no other.  They are the code's: it reports all three, the absences and chains
\* even as confirmed, which finding.go:86-88 keeps for what was observed.
ReportJust ==
    \A f \in collected : \E t \in About(f) :
        Holds(t, f) \/ Misread(t, f) \/ Misblamed(t, f) \/ Unheard(t, f)

\* What the checks of a target make of it when each is given what it is told by
\* the stages before it, and by the check of headers before versions are
\* matched, and nothing of any other target.
Alone(t) ==
    LET cs == {c \in Checklist : ~Unavailable(c)}
        F1 == UNION {Check(c, t, {}, {}, FALSE).findings : c \in cs \cap {"portscan"}}
        F2 == F1 \cup UNION {Check(c, t, F1, {}, FALSE).findings
                               : c \in cs \cap {"banner", "httpprobe"}}
        F3 == F2 \cup UNION {Check(c, t, F2, {}, FALSE).findings : c \in cs \cap {"headers"}}
    IN F3 \cup UNION {Check(c, t, F3, {}, FALSE).findings : c \in cs}

\* An assessment in which no answer is lost finds of several targets exactly
\* what it would find of each alone, and a later check misses nothing an
\* earlier one could tell it ("Later stages can read the findings produced by
\* earlier ones", adapter.go:33).
NothingOverlooked ==
    Done /\ lost = {} => collected = UNION {Alone(t) : t \in Targets}

\* However much was lost, the derived checks make something of all that was
\* seen: every captured response has been evaluated, and every version that some
\* evidence spells is matched or on record (but nmap's, which comes too late).
DerivedWhole ==
    Done => \A t \in Targets : \A f \in {g \in collected : g.on = t.raw} :
        /\ f.kind = "http-service" =>
              \A w \in {v \in f.saw : Counts(v, f.port)} :
                  \E g \in collected : /\ g.on = t.raw /\ g.port = f.port
                                       /\ g.kind = w[1] /\ g.text = w[2]
        /\ f.kind # "nmap-service" =>
              \A w \in {v \in f.text : Known(v)} :
                  \E g \in collected : /\ g.on = t.raw /\ g.port = f.port
                                       /\ g.kind \in {"vulnsig", "version-observed"}
                                       /\ g.saw = {<<ProductOf(w[1]), w[2]>>}

\* A check that found nothing at a target says why, so that no gap reads as a
\* clean bill of health (adapter.go:180-181): except a banner grab no one
\* answered, and headers none of which is missing.
SilenceIsExplained ==
    \A i \in DOMAIN records : LET r == records[i] IN
        ~r.found /\ r.reason = {} =>
            \/ r.check = "banner" /\ \E f \in collected : f.on = r.on /\ f.kind = "open-port"
            \/ r.check = "headers" /\ \E f \in collected : f.on = r.on /\ f.kind = "http-service"

\* Not so: vulnsig.go:201 says of a match that it "is based on the version the
\* service advertises"; that of the protocol in an SSH greeting is taken for one.
MatchesAdvertised ==
    \A f \in collected : \A t \in About(f) :
        f.kind = "vulnsig" /\ f.port \in DOMAIN t.greets => f.saw \subseteq t.greets[f.port].runs
=============================================================================

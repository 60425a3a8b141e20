---------------------------- MODULE Checks_proofs ----------------------------
(* What the checks of an assessment report, for any profile, any sites and    *)
(* any loss of answers.                                                       *)
EXTENDS Checks, FiniteSetTheorems, TLAPS

-----------------------------------------------------------------------------
(* One check of one target                                                   *)

\* The kinds of findings whose evidence spells versions,
Texts == {"banner", "http-service", "header-disclosure", "dirlist", "nmap-service"}
             \cup HeaderFaults

\* ... and those that later checks read, with the check they come from.
Source == [k \in {"open-port"} \cup Texts |->
             IF k = "open-port" THEN "portscan"
             ELSE IF k = "banner" THEN "banner"
             ELSE IF k = "nmap-service" THEN "nmap"
             ELSE IF k \in HeaderFaults THEN "headers"
             ELSE "httpprobe"]

\* A finding Validate lets through.
Sound(f) ==
    /\ f.sev \in Severities
    /\ f.conf \in {"confirmed", "likely", "potential"}
    /\ f.port \in PortNumbers

\* That finding f is about target t.
Of(f, t) == f.on = t.raw \/ (f.kind = "subdomain" /\ f.on \in t.names)

\* That check c takes something for missing as the probe for it is among those
\* that failed.
Missed(c, L, f) ==
    CASE f.kind = "spf-missing" -> c = "dnsemail" /\ "txt" \in L
      [] f.kind = "dmarc-missing" -> c = "dnsemail" /\ "dmarc" \in L
      [] f.kind = "dkim-none-common" -> c = "dnsemail" /\ "dkim" \in L
      [] f.kind = "mta-sts-missing" -> c = "dnsemail" /\ "mta-sts" \in L
      [] f.kind = "tls-no13" -> c = "tlsaudit" /\ <<f.port, "1.3">> \in L
      [] OTHER -> FALSE

\* What check c may report of target t when the probes L failed.
Just(c, t, L, f) ==
    /\ Sound(f) /\ Of(f, t)
    /\ Holds(t, f) \/ Misread(t, f) \/ Misblamed(t, f) \/ Missed(c, L, f)
    /\ f.kind \in DOMAIN Source => c = Source[f.kind]
    /\ f.text # {} => f.kind \in Texts

\* What is known of a target when a check of it begins.
Told(t, prior) ==
    \A f \in prior : f.on = t.raw =>
        /\ f.kind \in DOMAIN Source => Sound(f) /\ Holds(t, f)
        /\ f.text # {} => f.kind \in Texts

\* Why a check may have nothing to say, and no reason for it.
Excused(c, t, prior) ==
    \/ c = "banner" /\ \E f \in prior : f.on = t.raw /\ f.kind = "open-port"
    \/ c = "headers" /\ \E f \in prior : f.on = t.raw /\ f.kind = "http-service"

\* What a check may report, and when it may say nothing.
Reports(c, t, prior, L, res) ==
    /\ \A f \in res.findings : Just(c, t, L, f)
    /\ res.findings = {} /\ res.notes = {} => Excused(c, t, prior)

\* What a finding about something that is open, greets or answers must say.
LEMMA HoldsSeen ==
    ASSUME NEW t, NEW f
    PROVE  /\ f.kind = "open-port" => (Holds(t, f) <=> f.port \in t.open)
           /\ f.kind = "banner" =>
                (Holds(t, f) <=> f.port \in DOMAIN t.greets /\ f.text = t.greets[f.port].reads)
  BY Zenon DEF Holds, HeaderFaults, CertSeverity, External

\* ... what the findings about a page must,
LEMMA HoldsWeb ==
    ASSUME NEW t, NEW f, NEW page, page = t.web[From(t, f.port)]
    PROVE  LET there == From(t, f.port) \in DOMAIN t.web IN
           /\ f.kind = "http-service" =>
                (Holds(t, f) <=> there /\ f.saw = page.lacks /\ f.text = t.spells \cup page.title)
           /\ f.kind = "header-disclosure" => (Holds(t, f) <=> there /\ f.text \subseteq page.names)
           /\ f.kind = "dirlist" => (Holds(t, f) <=> there /\ page.listing /\ f.text = t.spells)
           /\ f.kind = "tech" => (Holds(t, f) <=> there /\ f.saw = Words(page.marks))
           /\ f.kind \in HeaderFaults =>
                (Holds(t, f) <=> there /\ \E w \in page.lacks : w[1] = f.kind /\ w[2] = f.text)
  BY Zenon DEF Holds, HeaderFaults, CertSeverity, External

\* ... those about a port that speaks TLS,
LEMMA HoldsTLS ==
    ASSUME NEW t, NEW f, f.port \in DOMAIN t.tls
    PROVE  /\ f.kind = "tls-1.0" /\ "1.0" \in t.tls[f.port].versions => Holds(t, f)
           /\ f.kind = "tls-1.1" /\ "1.1" \in t.tls[f.port].versions => Holds(t, f)
           /\ f.kind = "tls-no13" /\ "1.3" \notin t.tls[f.port].versions => Holds(t, f)
           /\ f.kind = "tls-versions" /\ f.saw \subseteq Words(t.tls[f.port].versions) => Holds(t, f)
           /\ f.kind = "tls-weak-cipher" /\ t.tls[f.port].weak => Holds(t, f)
           /\ f.kind = "tls-connection" => Holds(t, f)
           /\ f.kind \in DOMAIN CertSeverity \ {"chain"} /\ f.kind \in t.tls[f.port].cert => Holds(t, f)
  BY Zenon DEF Holds, HeaderFaults, CertSeverity, External

\* ... those about a zone,
LEMMA HoldsZone ==
    ASSUME NEW t, NEW f
    PROVE  /\ f.kind = "spf-missing" /\ t.zone.spf = "absent" => Holds(t, f)
           /\ f.kind = "spf-present" /\ t.zone.spf # "absent" => Holds(t, f)
           /\ f.kind = "spf-plusall" /\ t.zone.spf = "plus" => Holds(t, f)
           /\ f.kind = "spf-neutral" /\ t.zone.spf = "neutral" => Holds(t, f)
           /\ f.kind = "spf-noall" /\ t.zone.spf = "noall" => Holds(t, f)
           /\ f.kind \in {"spf-lookups", "dmarc-norua"} /\ f.kind \in t.zone.flaws => Holds(t, f)
           /\ f.kind = "dmarc-missing" /\ t.zone.dmarc = "absent" => Holds(t, f)
           /\ f.kind = "dmarc-present" /\ t.zone.dmarc \notin {"absent", "other"} => Holds(t, f)
           /\ f.kind = "dmarc-none" /\ t.zone.dmarc = "none" => Holds(t, f)
           /\ f.kind = "dkim-none-common" /\ ~t.zone.dkim => Holds(t, f)
           /\ f.kind = "dkim-present" /\ t.zone.dkim => Holds(t, f)
           /\ f.kind = "mta-sts-missing" /\ ~t.zone.mtasts => Holds(t, f)
           /\ f.kind = "mx-inventory" /\ t.zone.mx => Holds(t, f)
           /\ f.kind = "ns-inventory" => Holds(t, f)
  BY Zenon DEF Holds, HeaderFaults, CertSeverity, External

\* ... those about names, files and those of external tools,
LEMMA HoldsOther ==
    ASSUME NEW t, NEW f
    PROVE  /\ f.kind = "subdomain" /\ f.on \in t.names => Holds(t, f)
           /\ f.kind = "dns-wildcard" /\ t.wildcard => Holds(t, f)
           /\ f.kind = "secret" /\ (\E s \in f.saw : \E r \in scan.tree[1][s[2][1]].secrets : r[1] = s[1])
                => Holds(t, f)
           /\ f.kind = "nmap-service" /\ (\E r \in t.tools["nmap"] : r[1] = f.port /\ f.sev = Grade("nmap", r[2]))
                => Holds(t, f)
           /\ f.kind \in External /\ (\E r \in t.tools[f.kind] : r[1] = f.port /\ f.sev = Grade(f.kind, r[2]))
                => Holds(t, f)
  BY Zenon DEF Holds, HeaderFaults, CertSeverity, External

\* ... and those about versions.
LEMMA HoldsVersion ==
    ASSUME NEW t, NEW f, f.kind \in {"vulnsig", "version-observed"},
           \/ f.port \in DOMAIN t.greets /\ f.saw \subseteq t.greets[f.port].runs
           \/ /\ From(t, f.port) \in DOMAIN t.web
              /\ \E w \in t.web[From(t, f.port)].names : f.saw = {<<ProductOf(w[1]), w[2]>>}
    PROVE  Holds(t, f)
  BY Zenon DEF Holds, HeaderFaults, CertSeverity, External

\* The ports that are filed under by default are ports.
LEMMA PortFacts == {0, 80, 443} \subseteq PortNumbers
  BY DEF PortNumbers

\* What G files, field by field,
LEMMA Spelled ==
    ASSUME NEW on, NEW kind, NEW port, NEW sev, NEW conf, NEW saw, NEW text
    PROVE  LET f == G(on, kind, port, sev, conf, saw, text) IN
           /\ f.on = on /\ f.kind = kind /\ f.port = port
           /\ f.sev = sev /\ f.conf = conf /\ f.saw = saw /\ f.text = text
  BY DEF G

\* ... and what F does.
LEMMA Fields ==
    ASSUME NEW on, NEW kind, NEW port, NEW sev, NEW conf, NEW saw
    PROVE  LET f == F(on, kind, port, sev, conf, saw) IN
           /\ f.on = on /\ f.kind = kind /\ f.port = port
           /\ f.sev = sev /\ f.conf = conf /\ f.saw = saw /\ f.text = {}
  BY DEF F, G

\* What makes a report about a target just, be it one that spells a version
LEMMA Spoken ==
    ASSUME NEW c, NEW t, NEW L, NEW f, NEW kind \in Texts, NEW port \in PortNumbers,
           NEW sev \in Severities, NEW conf \in {"confirmed", "likely", "potential"},
           NEW saw, NEW text, f = G(t.raw, kind, port, sev, conf, saw, text),
           Holds(t, f), c = Source[kind]
    PROVE  Just(c, t, L, f)
<1>1. /\ f.on = t.raw /\ f.kind = kind /\ f.port = port
      /\ f.sev = sev /\ f.conf = conf /\ f.text = text
  BY Spelled
<1> QED BY <1>1, Zenon DEF Just, Sound, Of

\* ... or one that does not.
LEMMA Judged ==
    ASSUME NEW c, NEW t, NEW L, NEW f, NEW kind, NEW port \in PortNumbers, NEW sev \in Severities,
           NEW conf \in {"confirmed", "likely", "potential"}, NEW saw,
           f = F(t.raw, kind, port, sev, conf, saw),
           Holds(t, f) \/ Misread(t, f) \/ Misblamed(t, f) \/ Missed(c, L, f),
           kind \in DOMAIN Source => c = Source[kind]
    PROVE  Just(c, t, L, f)
<1>1. /\ f.on = t.raw /\ f.kind = kind /\ f.port = port
      /\ f.sev = sev /\ f.conf = conf /\ f.text = {}
  BY Fields
<1> QED BY <1>1, Zenon DEF Just, Sound, Of

\* What later checks read is so.
LEMMA ReadIsSo ==
    ASSUME NEW c, NEW t, NEW L, NEW f, Just(c, t, L, f), f.kind \in DOMAIN Source
    PROVE  Holds(t, f)
<1>1. f.kind \notin {"vulnsig", "version-observed", "chain", "spf-missing", "dmarc-missing",
                     "dkim-none-common", "mta-sts-missing", "tls-no13"}
  BY DEF Source, Texts, HeaderFaults
<1>2. ~Misread(t, f) /\ ~Misblamed(t, f)
  BY <1>1 DEF Misread, Misblamed
<1>3. ~Missed(c, L, f)
  BY <1>1 DEF Missed
<1> QED BY <1>2, <1>3 DEF Just

\* Which check the kinds are from.
LEMMA SourceIs ==
    /\ DOMAIN Source = {"open-port"} \cup Texts
    /\ Source["open-port"] = "portscan" /\ Source["banner"] = "banner"
    /\ Source["nmap-service"] = "nmap"
    /\ \A k \in {"http-service", "header-disclosure", "dirlist"} : Source[k] = "httpprobe"
    /\ \A k \in HeaderFaults : Source[k] = "headers"
  BY DEF Source, Texts, HeaderFaults

\* The search for names reports names of the target, or that there are too many.
LEMMA SubdomainReports ==
    ASSUME NEW t, NEW prior, NEW L, NEW late
    PROVE  Reports("subdomain", t, prior, L, Subdomain(t, L, late))
<1> DEFINE res == Subdomain(t, L, late)
<1>1. ASSUME NEW f \in res.findings PROVE Just("subdomain", t, L, f)
  <2>1. CASE f = F(t.raw, "dns-wildcard", 0, "info", "confirmed", {}) /\ t.wildcard
    <3>1. Holds(t, f)
      BY <2>1, Fields, HoldsOther
    <3>2. "info" \in Severities /\ "dns-wildcard" \notin DOMAIN Source
      BY DEF Severities, Source, Texts, HeaderFaults
    <3> QED BY <2>1, <3>1, <3>2, Judged, PortFacts
  <2>2. CASE \E h \in t.names :
               f = F(h, "subdomain", 0, IF h \in t.telling THEN "low" ELSE "info", "confirmed", {})
    <3>1. PICK h \in t.names :
               f = F(h, "subdomain", 0, IF h \in t.telling THEN "low" ELSE "info", "confirmed", {})
      BY <2>2
    <3>2. /\ f.on = h /\ f.kind = "subdomain" /\ f.port = 0 /\ f.sev \in {"low", "info"}
          /\ f.conf = "confirmed" /\ f.text = {} /\ f.on \in t.names
      BY <3>1, Fields
    <3>3. "subdomain" \notin DOMAIN Source
      BY DEF Source, Texts, HeaderFaults
    <3>4. Holds(t, f)
      BY <3>2, HoldsOther
    <3> QED BY <3>2, <3>3, <3>4, PortFacts DEF Just, Sound, Of, Severities
  <2> QED BY <1>1, <2>1, <2>2 DEF Subdomain, Result
<1>2. res.notes # {}
  BY DEF Subdomain, Result
<1> QED BY <1>1, <1>2 DEF Reports

\* The port scan reports open ports, or says that there are none.
LEMMA PortScanReports ==
    ASSUME NEW t, IsSite(t), NEW prior, NEW L, NEW late
    PROVE  Reports("portscan", t, prior, L, PortScan(t, L, late))
<1> DEFINE res == PortScan(t, L, late)
<1>1. ASSUME NEW f \in res.findings PROVE Just("portscan", t, L, f)
  <2>1. PICK p \in t.open : f = F(t.raw, "open-port", p, ExposureRisk(p), "confirmed", {})
    BY <1>1 DEF PortScan, Result
  <2>2. ExposureRisk(p) \in Severities
    BY DEF ExposureRisk, Severities
  <2>3. p \in PortNumbers
    BY <2>1 DEF IsSite
  <2>4. Holds(t, f)
    BY <2>1, Fields, HoldsSeen
  <2> QED BY <2>1, <2>2, <2>3, <2>4, Judged, SourceIs
<1>2. res.findings # {} \/ res.notes # {}
  BY DEF PortScan, Result, NoteIf
<1> QED BY <1>1, <1>2 DEF Reports

\* A port known to be open is one, on the target.
LEMMA KnownPorts ==
    ASSUME NEW t, NEW prior, Told(t, prior), NEW p \in KnownOpen(t, prior)
    PROVE  p \in PortNumbers /\ p \in t.open
<1>1. PICK g \in prior : g.on = t.raw /\ g.kind = "open-port" /\ p = g.port
  BY DEF KnownOpen
<1>2. Sound(g) /\ Holds(t, g)
  BY <1>1, SourceIs DEF Told
<1> QED BY <1>1, <1>2, HoldsSeen DEF Sound

\* A grab reports what a known port greets with; it is silent if no port answers.
LEMMA BannerReports ==
    ASSUME NEW t, NEW prior, Told(t, prior), NEW L, NEW late
    PROVE  Reports("banner", t, prior, L, Banner(t, prior, L, late))
<1> DEFINE res == Banner(t, prior, L, late)
           sev(p) == IF t.greets[p].plain THEN "low" ELSE "info"
<1>1. ASSUME NEW f \in res.findings PROVE Just("banner", t, L, f)
  <2>1. PICK p \in KnownOpen(t, prior) :
           /\ p \in DOMAIN t.greets
           /\ f = G(t.raw, "banner", p, sev(p), "confirmed", {}, t.greets[p].reads)
    BY <1>1 DEF Banner, Result
  <2>2. sev(p) \in Severities
    BY DEF Severities
  <2>3. p \in PortNumbers
    BY <2>1, KnownPorts
  <2>4. Holds(t, f)
    BY <2>1, Spelled, HoldsSeen
  <2>5. "banner" \in Texts
    BY DEF Texts
  <2> HIDE DEF sev
  <2> QED BY <2>1, <2>2, <2>3, <2>4, <2>5, Spoken, SourceIs
<1>2. ASSUME res.notes = {} PROVE Excused("banner", t, prior)
  <2>1. KnownOpen(t, prior) # {}
    BY <1>2 DEF Banner, Result, NoteIf
  <2> QED BY <2>1 DEF KnownOpen, Excused
<1> QED BY <1>1, <1>2 DEF Reports

\* Whatever endpoint is asked, it is filed under a port that leads back to it.
LEMMA EndpointPorts ==
    ASSUME NEW t, NEW prior, Told(t, prior), NEW e \in Endpoints(t, prior)
    PROVE  e.port \in PortNumbers /\ e.to = From(t, e.port)
<1>1. CASE t.url # <<>>
  BY <1>1, PortFacts DEF Endpoints, From
<1>2. CASE t.url = <<>> /\ KnownOpen(t, prior) = {}
  BY <1>2, PortFacts DEF Endpoints, From
<1>3. CASE t.url = <<>> /\ KnownOpen(t, prior) # {}
  <2>1. PICK p \in KnownOpen(t, prior) : e = [to |-> p, port |-> p, tls |-> p \in HTTPSPorts]
    BY <1>3 DEF Endpoints
  <2> QED BY <1>3, <2>1, KnownPorts DEF From
<1> QED BY <1>1, <1>2, <1>3

\* The probe reports of each page what is so of it.
LEMMA ResponseJust ==
    ASSUME NEW t, NEW L, NEW e, e.to \in DOMAIN t.web, e.port \in PortNumbers,
           e.to = From(t, e.port), NEW f \in Response(t, e)
    PROVE  Just("httpprobe", t, L, f)
<1> DEFINE web == t.web[e.to]
           grade(s) == IF Len(s[2]) > 1 THEN "low" ELSE "info"
<1>0. /\ {"info", "low", "medium"} \subseteq Severities
      /\ {"http-service", "header-disclosure", "dirlist"} \subseteq Texts
      /\ "tech" \notin DOMAIN Source
  BY DEF Severities, Source, Texts, HeaderFaults
<1>1. CASE f = G(t.raw, "http-service", e.port, "info", "confirmed", web.lacks,
                 t.spells \cup web.title)
  <2>1. /\ f.kind = "http-service" /\ f.port = e.port
        /\ f.saw = web.lacks /\ f.text = t.spells \cup web.title
    BY <1>1, Spelled
  <2>2. Holds(t, f)
    BY <2>1, HoldsWeb
  <2> QED BY <1>0, <1>1, <2>2, Spoken, SourceIs
<1>2. CASE \E s \in web.names :
             f = G(t.raw, "header-disclosure", e.port, grade(s), "confirmed", {}, {s})
  <2>1. PICK s \in web.names :
             f = G(t.raw, "header-disclosure", e.port, grade(s), "confirmed", {}, {s})
    BY <1>2
  <2>2. grade(s) \in Severities
    BY <1>0
  <2> HIDE DEF grade
  <2>3. f.kind = "header-disclosure" /\ f.port = e.port /\ f.text \subseteq web.names
    BY <2>1, Spelled
  <2>4. Holds(t, f)
    BY <2>3, HoldsWeb
  <2> QED BY <1>0, <2>1, <2>2, <2>4, Spoken, SourceIs
<1>3. CASE f = F(t.raw, "tech", e.port, "info", "likely", Words(web.marks))
  <2>1. f.kind = "tech" /\ f.port = e.port /\ f.saw = Words(web.marks)
    BY <1>3, Fields
  <2>2. Holds(t, f)
    BY <2>1, HoldsWeb
  <2> QED BY <1>0, <1>3, <2>2, Judged
<1>4. CASE web.listing /\ f = G(t.raw, "dirlist", e.port, "medium", "likely", {}, t.spells)
  <2>1. f.kind = "dirlist" /\ f.port = e.port /\ f.text = t.spells
    BY <1>4, Spelled
  <2>2. Holds(t, f)
    BY <1>4, <2>1, HoldsWeb
  <2> QED BY <1>0, <1>4, <2>2, Spoken, SourceIs
<1> QED BY <1>1, <1>2, <1>3, <1>4 DEF Response

\* The probe: every endpoint is either reported or noted.
LEMMA HTTPProbeReports ==
    ASSUME NEW t, NEW prior, Told(t, prior), NEW L, NEW late
    PROVE  Reports("httpprobe", t, prior, L, HTTPProbe(t, prior, L, late))
<1> DEFINE res == HTTPProbe(t, prior, L, late)
           up == {e \in Endpoints(t, prior) : Answers(t, e) /\ e.to \notin L}
<1>1. ASSUME NEW f \in res.findings PROVE Just("httpprobe", t, L, f)
  <2>1. PICK e \in up : f \in Response(t, e)
    BY <1>1 DEF HTTPProbe, Result
  <2>2. e.to \in DOMAIN t.web
    BY <2>1 DEF Answers
  <2> QED BY <2>1, <2>2, EndpointPorts, ResponseJust
<1>2. ASSUME res.notes = {} PROVE res.findings # {}
  <2>1. PICK e \in up : TRUE
    BY <1>2 DEF HTTPProbe, Result, NoteIf
  <2>2. \E f : f \in Response(t, e)
    BY DEF Response
  <2> QED BY <2>1, <2>2 DEF HTTPProbe, Result
<1> QED BY <1>1, <1>2 DEF Reports

\* The headers check reports what a captured response lacked.
LEMMA HeadersReports ==
    ASSUME NEW t, IsSite(t), NEW prior, Told(t, prior), NEW L
    PROVE  Reports("headers", t, prior, L, Headers(t, prior))
<1> DEFINE res == Headers(t, prior)
           captured == {f \in prior : f.on = t.raw /\ f.kind = "http-service"}
<1>1. ASSUME NEW f \in res.findings PROVE Just("headers", t, L, f)
  <2>1. PICK g \in captured : \E w \in g.saw :
           f = G(t.raw, w[1], g.port, HeaderSeverity(w[1]), "confirmed", {}, w[2])
    BY <1>1 DEF Headers, Result
  <2>2. PICK w \in g.saw : f = G(t.raw, w[1], g.port, HeaderSeverity(w[1]), "confirmed", {}, w[2])
    BY <2>1
  <2>3. Sound(g) /\ Holds(t, g)
    BY <2>1, SourceIs DEF Told, Texts
  <2>4. PICK page : page = t.web[From(t, g.port)]
    OBVIOUS
  <2>5. From(t, g.port) \in DOMAIN t.web /\ g.saw = page.lacks
    BY <2>1, <2>3, <2>4, HoldsWeb
  <2>6. w[1] \in HeaderFaults
    BY <2>2, <2>4, <2>5 DEF IsSite
  <2>7. f.kind = w[1] /\ f.port = g.port /\ f.text = w[2]
    BY <2>2, Spelled
  <2>8. Holds(t, f)
    BY <2>2, <2>4, <2>5, <2>6, <2>7, HoldsWeb
  <2>9. HeaderSeverity(w[1]) \in Severities /\ w[1] \in Texts
    BY <2>6 DEF HeaderSeverity, Severities, Texts
  <2>10. g.port \in PortNumbers
    BY <2>3 DEF Sound
  <2> QED BY <2>2, <2>6, <2>8, <2>9, <2>10, Spoken, SourceIs
<1>2. ASSUME res.notes = {} PROVE Excused("headers", t, prior)
  <2>1. captured # {}
    BY <1>2 DEF Headers, Result, NoteIf
  <2> QED BY <2>1 DEF Excused
<1> QED BY <1>1, <1>2 DEF Reports

\* The audit asks at ports.
LEMMA TLSPortNumbers ==
    ASSUME NEW t, NEW prior, Told(t, prior), NEW p \in TLSPorts(t, prior)
    PROVE  p \in PortNumbers
<1>1. p \in KnownOpen(t, prior) \/ p = 443
  BY DEF TLSPorts
<1> QED BY <1>1, KnownPorts, PortFacts

\* The audit of a port that answered reports what is so of it; that the newest
\* version is not spoken it may say because it was not answered.
LEMMA AuditPortJust ==
    ASSUME NEW t, NEW p \in PortNumbers, p \in DOMAIN t.tls, NEW L, NEW f \in AuditPort(t, p, L)
    PROVE  Just("tlsaudit", t, L, f)
<1> DEFINE tls == t.tls[p]
           accepted == {v \in tls.versions : <<p, v>> \notin L}
<1>0. /\ {"info", "low", "medium"} \subseteq Severities
      /\ DOMAIN Source \cap {"tls-1.0", "tls-1.1", "tls-no13", "tls-versions", "tls-weak-cipher",
                             "tls-connection"} = {}
      /\ DOMAIN Source \cap DOMAIN CertSeverity = {}
  BY DEF Severities, Source, Texts, HeaderFaults, CertSeverity
<1>1. CASE \E v \in accepted \cap DOMAIN OldTLS : f = F(t.raw, OldTLS[v], p, "medium", "confirmed", {})
  <2>1. PICK v \in accepted \cap DOMAIN OldTLS : f = F(t.raw, OldTLS[v], p, "medium", "confirmed", {})
    BY <1>1
  <2>2. \/ v = "1.0" /\ OldTLS[v] = "tls-1.0"
        \/ v = "1.1" /\ OldTLS[v] = "tls-1.1"
    BY <2>1 DEF OldTLS
  <2>3. f.kind = OldTLS[v] /\ f.port = p
    BY <2>1, Fields
  <2>4. Holds(t, f)
    BY <2>1, <2>2, <2>3, HoldsTLS
  <2> QED BY <1>0, <2>1, <2>2, <2>4, Judged
<1>2. CASE "1.3" \notin accepted /\ f = F(t.raw, "tls-no13", p, "low", "confirmed", {})
  <2>1. f.kind = "tls-no13" /\ f.port = p
    BY <1>2, Fields
  <2>2. CASE "1.3" \notin tls.versions
    <3>1. Holds(t, f)
      BY <2>1, <2>2, HoldsTLS
    <3> QED BY <1>0, <1>2, <3>1, Judged
  <2>3. CASE "1.3" \in tls.versions
    <3>1. <<p, "1.3">> \in L
      BY <1>2, <2>3
    <3>2. Missed("tlsaudit", L, f)
      BY <2>1, <3>1 DEF Missed
    <3> QED BY <1>0, <1>2, <3>2, Judged
  <2> QED BY <2>2, <2>3
<1>3. CASE f = F(t.raw, "tls-versions", p, "info", "confirmed", Words(accepted))
  <2>1. f.kind = "tls-versions" /\ f.port = p /\ f.saw = Words(accepted)
    BY <1>3, Fields
  <2>2. Words(accepted) \subseteq Words(tls.versions)
    BY DEF Words
  <2>3. Holds(t, f)
    BY <2>1, <2>2, HoldsTLS
  <2> HIDE DEF accepted
  <2> QED BY <1>0, <1>3, <2>3, Judged
<1>4. CASE tls.weak /\ f = F(t.raw, "tls-weak-cipher", p, "medium", "confirmed", {})
  <2>1. Holds(t, f)
    BY <1>4, Fields, HoldsTLS
  <2> QED BY <1>0, <1>4, <2>1, Judged
<1>5. CASE \E d \in CertFindings(tls.cert, t.isName) :
             f = F(t.raw, d, p, CertSeverity[d], "confirmed", {})
  <2>1. PICK d \in CertFindings(tls.cert, t.isName) :
             f = F(t.raw, d, p, CertSeverity[d], "confirmed", {})
    BY <1>5
  <2>2. /\ d \in DOMAIN CertSeverity
        /\ (d \in tls.cert /\ d # "chain") \/ (d = "chain" /\ tls.cert \cap Unverified # {})
    BY DEF CertFindings, CertSeverity
  <2>3. CertSeverity[d] \in Severities
    BY <2>2 DEF CertSeverity, Severities
  <2>4. f.kind = d /\ f.port = p
    BY <2>1, Fields
  <2>5. Holds(t, f) \/ Misblamed(t, f)
    BY <2>2, <2>4, HoldsTLS DEF Misblamed
  <2> QED BY <1>0, <2>1, <2>2, <2>3, <2>5, Judged
<1>6. CASE f = F(t.raw, "tls-connection", p, "info", "confirmed", {})
  <2>1. Holds(t, f)
    BY <1>6, Fields, HoldsTLS
  <2> QED BY <1>0, <1>6, <2>1, Judged
<1> QED BY <1>1, <1>2, <1>3, <1>4, <1>5, <1>6 DEF AuditPort

\* The audit: every port is either reported or noted.
LEMMA TLSAuditReports ==
    ASSUME NEW t, NEW prior, Told(t, prior), NEW L, NEW late
    PROVE  Reports("tlsaudit", t, prior, L, TLSAudit(t, prior, L, late))
<1> DEFINE res == TLSAudit(t, prior, L, late)
           up == {p \in TLSPorts(t, prior) : p \in t.open \cap DOMAIN t.tls /\ <<p, "first">> \notin L}
<1>1. ASSUME NEW f \in res.findings PROVE Just("tlsaudit", t, L, f)
  <2>1. PICK p \in up : f \in AuditPort(t, p, L)
    BY <1>1 DEF TLSAudit, Result
  <2> QED BY <2>1, TLSPortNumbers, AuditPortJust
<1>2. ASSUME res.notes = {} PROVE res.findings # {}
  <2>1. PICK p \in up : TRUE
    BY <1>2 DEF TLSAudit, Result, NoteIf
  <2>2. \E f : f \in AuditPort(t, p, L)
    BY DEF AuditPort
  <2> QED BY <2>1, <2>2 DEF TLSAudit, Result
<1> QED BY <1>1, <1>2 DEF Reports

\* What the look at a zone may say: of what is there, that it is so; of what is
\* not, that it is not or was not answered.
LEMMA ZoneJust ==
    ASSUME NEW t, NEW L, NEW f, NEW kind, NEW sev \in Severities,
           NEW conf \in {"confirmed", "likely", "potential"},
           f = F(t.raw, kind, 0, sev, conf, {}),
           \/ kind = "spf-missing" /\ (t.zone.spf = "absent" \/ "txt" \in L)
           \/ kind = "spf-present" /\ t.zone.spf # "absent"
           \/ kind = "spf-plusall" /\ t.zone.spf = "plus"
           \/ kind = "spf-neutral" /\ t.zone.spf = "neutral"
           \/ kind = "spf-noall" /\ t.zone.spf = "noall"
           \/ kind \in {"spf-lookups", "dmarc-norua"} /\ kind \in t.zone.flaws
           \/ kind = "dmarc-missing" /\ (t.zone.dmarc = "absent" \/ "dmarc" \in L)
           \/ kind = "dmarc-present" /\ t.zone.dmarc \notin {"absent", "other"}
           \/ kind = "dmarc-none" /\ t.zone.dmarc = "none"
           \/ kind = "dkim-none-common" /\ (~t.zone.dkim \/ "dkim" \in L)
           \/ kind = "dkim-present" /\ t.zone.dkim
           \/ kind = "mta-sts-missing" /\ (~t.zone.mtasts \/ "mta-sts" \in L)
           \/ kind = "mx-inventory" /\ t.zone.mx
           \/ kind = "ns-inventory"
    PROVE  Just("dnsemail", t, L, f)
<1>1. f.kind = kind
  BY Fields
<1>2. kind \notin DOMAIN Source
  BY DEF Source, Texts, HeaderFaults
<1>3. \/ Holds(t, f)
      \/ kind = "spf-missing" /\ "txt" \in L
      \/ kind = "dmarc-missing" /\ "dmarc" \in L
      \/ kind = "dkim-none-common" /\ "dkim" \in L
      \/ kind = "mta-sts-missing" /\ "mta-sts" \in L
  BY <1>1, HoldsZone
<1>4. Holds(t, f) \/ Missed("dnsemail", L, f)
  BY <1>1, <1>3 DEF Missed
<1>5. 0 \in PortNumbers
  BY PortFacts
<1> QED BY <1>2, <1>4, <1>5, Judged

\* The look at a zone: of a name it always has something to say.
LEMMA DNSEmailReports ==
    ASSUME NEW t, NEW prior, NEW L
    PROVE  Reports("dnsemail", t, prior, L, DNSEmail(t, L))
<1> DEFINE res == DNSEmail(t, L)
           zone == t.zone
           mail == zone.mx /\ "mx" \notin L
           spf  == IF "txt" \in L THEN "absent" ELSE zone.spf
           dmarc == IF "dmarc" \in L THEN "absent" ELSE zone.dmarc
           mailSev == IF mail THEN "medium" ELSE "low"
           D(kind, sev, conf) == F(t.raw, kind, 0, sev, conf, {})
<1>0. {"info", "low", "medium", mailSev} \subseteq Severities
  BY DEF Severities
<1>1. ASSUME NEW f \in res.findings PROVE Just("dnsemail", t, L, f)
  <2>1. CASE f = D("spf-missing", mailSev, "confirmed") /\ spf = "absent"
    <3> HIDE DEF mailSev
    <3> QED BY <1>0, <2>1, ZoneJust
  <2>2. CASE f = D("spf-present", "info", "confirmed") /\ spf # "absent"
    BY <1>0, <2>2, ZoneJust
  <2>3. CASE \E w \in {spf} \cap DOMAIN SPFWeakness :
                f = D(SPFKind[w], SPFWeakness[w], IF w = "noall" THEN "likely" ELSE "confirmed")
    <3>1. PICK w \in DOMAIN SPFWeakness :
                /\ w = spf
                /\ f = D(SPFKind[w], SPFWeakness[w], IF w = "noall" THEN "likely" ELSE "confirmed")
      BY <2>3
    <3>2. /\ SPFWeakness[w] \in Severities
          /\ \/ SPFKind[w] = "spf-plusall" /\ w = "plus"
             \/ SPFKind[w] = "spf-neutral" /\ w = "neutral"
             \/ SPFKind[w] = "spf-noall" /\ w = "noall"
      BY DEF SPFWeakness, SPFKind, Severities
    <3>3. w = zone.spf
      BY <3>1, <3>2
    <3> QED BY <3>1, <3>2, <3>3, ZoneJust
  <2>4. CASE f = D("spf-lookups", "low", "likely") /\ "spf-lookups" \in zone.flaws
    BY <1>0, <2>4, ZoneJust
  <2>5. CASE f = D("dmarc-missing", mailSev, "confirmed") /\ dmarc = "absent"
    <3> HIDE DEF mailSev
    <3> QED BY <1>0, <2>5, ZoneJust
  <2>6. CASE f = D("dmarc-present", "info", "confirmed") /\ dmarc \notin {"absent", "other"}
    BY <1>0, <2>6, ZoneJust
  <2>7. CASE f = D("dmarc-none", "medium", "confirmed") /\ dmarc = "none"
    BY <1>0, <2>7, ZoneJust
  <2>8. CASE f = D("dmarc-norua", "low", "confirmed") /\ "dmarc-norua" \in zone.flaws
    BY <1>0, <2>8, ZoneJust
  <2>9. CASE f = D("dkim-present", "info", "confirmed") /\ zone.dkim
    BY <1>0, <2>9, ZoneJust
  <2>10. CASE f = D("dkim-none-common", "low", "potential") /\ (~zone.dkim \/ "dkim" \in L)
    BY <1>0, <2>10, ZoneJust
  <2>11. CASE f = D("mta-sts-missing", "low", "confirmed") /\ (~zone.mtasts \/ "mta-sts" \in L)
    BY <1>0, <2>11, ZoneJust
  <2>12. CASE f = D("mx-inventory", "info", "confirmed") /\ mail
    BY <1>0, <2>12, ZoneJust
  <2>13. CASE f = D("ns-inventory", "info", "confirmed")
    BY <1>0, <2>13, ZoneJust
  <2> QED BY <1>1, <2>1, <2>2, <2>3, <2>4, <2>5, <2>6, <2>7, <2>8, <2>9, <2>10, <2>11, <2>12, <2>13
          DEF DNSEmail, Result
<1>2. ASSUME res.notes = {} PROVE res.findings # {}
  <2>1. t.isName /\ mail
    BY <1>2 DEF DNSEmail, Result, NoteIf
  <2>2. D("mx-inventory", "info", "confirmed") \in res.findings
    BY <2>1 DEF DNSEmail, Result
  <2> QED BY <2>2
<1> QED BY <1>1, <1>2 DEF Reports

\* The secret scan reports what is in a file of the tree, and always how far it got.
LEMMA SecretsReports ==
    ASSUME NEW t, scan.tree # <<>> => scan.tree[1] \in Seq(Files), NEW prior, NEW L, NEW late
    PROVE  Reports("secrets", t, prior, L, Secrets(t, L, late))
<1> DEFINE res == Secrets(t, L, late)
           file == scan.tree[1]
<1>1. ASSUME NEW f \in res.findings PROVE Just("secrets", t, L, f)
  <2>1. PICK i \in DOMAIN file : \E s \in file[i].secrets :
           f = F(t.raw, "secret", 0, s[2], "likely", {<<s[1], <<i>>>>})
    BY <1>1 DEF Secrets, Result
  <2>2. PICK s \in file[i].secrets : f = F(t.raw, "secret", 0, s[2], "likely", {<<s[1], <<i>>>>})
    BY <2>1
  <2>3. scan.tree # <<>>
    BY <1>1 DEF Secrets, Result
  <2>4. file[i] \in Files
    BY <2>1, <2>3
  <2>5. s[2] \in Severities
    BY <2>2, <2>4 DEF Files
  <2>6. f.kind = "secret" /\ f.saw = {<<s[1], <<i>>>>}
    BY <2>2, Fields
  <2>7. \E x \in f.saw : \E r \in scan.tree[1][x[2][1]].secrets : r[1] = x[1]
    BY <2>2, <2>6
  <2>8. Holds(t, f)
    BY <2>6, <2>7, HoldsOther
  <2>9. 0 \in PortNumbers /\ "secret" \notin DOMAIN Source
    BY PortFacts DEF Source, Texts, HeaderFaults
  <2> DEFINE saw == {<<s[1], <<i>>>>}
  <2>10. f = F(t.raw, "secret", 0, s[2], "likely", saw)
    BY <2>2
  <2> HIDE DEF saw
  <2> QED BY <2>5, <2>8, <2>9, <2>10, Judged
<1>2. res.notes # {}
  BY DEF Secrets, Result, Error
<1> QED BY <1>1, <1>2 DEF Reports

\* Software that was seen is there, or was read off a text that is about something
\* else.
LEMMA SoftwareSeen ==
    ASSUME NEW t, IsSite(t), NEW prior, Told(t, prior),
           \A g \in prior : g.on = t.raw => g.kind # "nmap-service",
           NEW o \in Software(t, prior)
    PROVE  /\ o[3] \in PortNumbers
           /\ \A f : f.kind \in {"vulnsig", "version-observed"} /\ f.port = o[3]
                       /\ f.saw = {<<o[1], o[2]>>} => Holds(t, f) \/ Misread(t, f)
<1>1. PICK g \in prior : g.on = t.raw /\ \E w \in g.text : Known(w) /\ o = <<ProductOf(w[1]), w[2], g.port>>
  BY DEF Software
<1>2. PICK w \in g.text : Known(w) /\ o = <<ProductOf(w[1]), w[2], g.port>>
  BY <1>1
<1>3. o[1] = ProductOf(w[1]) /\ o[2] = w[2] /\ o[3] = g.port
  BY <1>2
<1>4. g.kind \in Texts /\ g.kind # "nmap-service"
  BY <1>1, <1>2 DEF Told
<1>5. Sound(g) /\ Holds(t, g)
  BY <1>1, <1>4, SourceIs DEF Told
<1>6. g.port \in PortNumbers
  BY <1>5 DEF Sound
<1> SUFFICES ASSUME NEW f, f.kind \in {"vulnsig", "version-observed"}, f.port = g.port,
                    f.saw = {<<ProductOf(w[1]), w[2]>>}
             PROVE  Holds(t, f) \/ Misread(t, f)
  BY <1>3, <1>6
<1>7. ASSUME w \in Hearsay(t, g.port) PROVE Misread(t, f)
  BY <1>7 DEF Misread
<1> DEFINE page == t.web[From(t, g.port)]
           there == From(t, g.port) \in DOMAIN t.web
<1>8. /\ w \in t.spells => w \in Hearsay(t, g.port)
      /\ there /\ w \in page.title => w \in Hearsay(t, g.port)
      /\ there /\ (\E v \in page.lacks : w \in v[2]) => w \in Hearsay(t, g.port)
      /\ g.port \in DOMAIN t.greets /\ w \in t.greets[g.port].reads /\ w[1] = "ssh"
           => w \in Hearsay(t, g.port)
  BY DEF Hearsay
<1>9. CASE g.kind = "banner"
  <2>1. g.port \in DOMAIN t.greets /\ w \in t.greets[g.port].reads
    BY <1>5, <1>9, HoldsSeen
  <2>2. \/ w[1] = "ssh" \/ w \in t.spells
        \/ <<ProductOf(w[1]), w[2]>> \in t.greets[g.port].runs
    BY <1>2, <2>1 DEF IsSite
  <2>3. <<ProductOf(w[1]), w[2]>> \in t.greets[g.port].runs => Holds(t, f)
    BY <2>1, HoldsVersion
  <2> QED BY <1>7, <1>8, <2>1, <2>2, <2>3
<1>10. CASE g.kind = "http-service"
  <2>1. there /\ w \in t.spells \cup page.title
    BY <1>5, <1>10, HoldsWeb
  <2> QED BY <1>7, <1>8, <2>1
<1>11. CASE g.kind = "header-disclosure"
  <2>1. there /\ w \in page.names
    BY <1>5, <1>11, HoldsWeb
  <2> QED BY <2>1, HoldsVersion
<1>12. CASE g.kind = "dirlist"
  <2>1. w \in t.spells
    BY <1>5, <1>12, HoldsWeb
  <2> QED BY <1>7, <1>8, <2>1
<1>13. CASE g.kind \in HeaderFaults
  <2>1. there /\ \E v \in page.lacks : v[2] = g.text
    BY <1>5, <1>13, HoldsWeb
  <2> QED BY <1>7, <1>8, <2>1
<1> QED BY <1>4, <1>9, <1>10, <1>11, <1>12, <1>13 DEF Texts

\* Versions that were read are matched or put on record.
LEMMA VulnSigReports ==
    ASSUME NEW t, IsSite(t), NEW prior, Told(t, prior),
           \A g \in prior : g.on = t.raw => g.kind # "nmap-service", NEW L
    PROVE  Reports("vulnsig", t, prior, L, VulnSig(t, prior))
<1> DEFINE res == VulnSig(t, prior)
           seen == Software(t, prior)
           hits(o) == {s \in Signatures : Matches(s, o[1], o[2])}
<1>1. ASSUME NEW f \in res.findings PROVE Just("vulnsig", t, L, f)
  <2>1. PICK o \in seen :
           \/ f = F(t.raw, "version-observed", o[3], "info", "confirmed", {<<o[1], o[2]>>})
           \/ \E s \in Signatures : f = F(t.raw, "vulnsig", o[3], s.sev, "likely", {<<o[1], o[2]>>})
    BY <1>1 DEF VulnSig, Result
  <2>2. f.kind \in {"vulnsig", "version-observed"} /\ f.port = o[3] /\ f.saw = {<<o[1], o[2]>>}
    BY <2>1, Fields
  <2>3. Holds(t, f) \/ Misread(t, f)
    BY <2>2, SoftwareSeen
  <2>4. o[3] \in PortNumbers
    BY SoftwareSeen
  <2>5. \A s \in Signatures : s.sev \in Severities
    BY DEF Signatures, Signature, Severities
  <2>6. "info" \in Severities /\ {"vulnsig", "version-observed"} \cap DOMAIN Source = {}
    BY DEF Severities, Source, Texts, HeaderFaults
  <2> DEFINE saw == {<<o[1], o[2]>>}
  <2>7. \/ f = F(t.raw, "version-observed", o[3], "info", "confirmed", saw)
        \/ \E s \in Signatures : f = F(t.raw, "vulnsig", o[3], s.sev, "likely", saw)
    BY <2>1
  <2> HIDE DEF saw
  <2> QED BY <2>3, <2>4, <2>5, <2>6, <2>7, Judged
<1>2. ASSUME res.notes = {} PROVE res.findings # {}
  <2>1. PICK o \in seen : TRUE
    BY <1>2 DEF VulnSig, Result, NoteIf
  <2> DEFINE made == IF hits(o) = {}
                     THEN {F(t.raw, "version-observed", o[3], "info", "confirmed", {<<o[1], o[2]>>})}
                     ELSE {F(t.raw, "vulnsig", o[3], s.sev, "likely", {<<o[1], o[2]>>}) : s \in hits(o)}
  <2>2. made # {}
    OBVIOUS
  <2>3. made \subseteq res.findings
    BY DEF VulnSig, Result
  <2> QED BY <2>2, <2>3
<1> QED BY <1>1, <1>2 DEF Reports

\* An external tool's rows are reported as it graded them; it says how many.
LEMMA ToolReports ==
    ASSUME NEW tool \in External, NEW t, IsSite(t), NEW prior, NEW L
    PROVE  Reports(tool, t, prior, L, Tool(tool, t, L))
<1> DEFINE res == Tool(tool, t, L)
           kind == IF tool = "nmap" THEN "nmap-service" ELSE tool
           conf == IF tool = "nuclei" THEN "likely" ELSE "confirmed"
<1>1. ASSUME NEW f \in res.findings PROVE Just(tool, t, L, f)
  <2> DEFINE text(r) == IF tool = "nmap" THEN r[3] ELSE {}
  <2>1. PICK r \in t.tools[tool] : /\ Grade(tool, r[2]) # ""
                                   /\ f = G(t.raw, kind, r[1], Grade(tool, r[2]), conf, {}, text(r))
    BY <1>1 DEF Tool, Result, Error
  <2>2. Grade(tool, r[2]) \in Severities
    BY <2>1 DEF Grade, Severities, External
  <2>3. r[1] \in PortNumbers
    BY <2>1 DEF IsSite
  <2>4. /\ f.on = t.raw /\ f.kind = kind /\ f.port = r[1] /\ f.sev = Grade(tool, r[2])
        /\ f.conf = conf /\ f.text = text(r)
    BY <2>1 DEF G
  <2>5. conf \in {"confirmed", "likely", "potential"}
    OBVIOUS
  <2>6. /\ kind \in DOMAIN Source => tool = Source[kind]
        /\ text(r) # {} => kind \in Texts
    BY SourceIs DEF Texts, External, HeaderFaults
  <2>7. Holds(t, f)
    <3>1. CASE tool = "nmap"
      BY <2>1, <2>4, <3>1, HoldsOther
    <3>2. CASE tool # "nmap"
      <4>1. kind = tool
        BY <3>2
      <4> QED BY <2>1, <2>4, <4>1, HoldsOther
    <3> QED BY <3>1, <3>2
  <2> HIDE DEF kind, conf, text
  <2> QED BY <2>2, <2>3, <2>4, <2>5, <2>6, <2>7 DEF Just, Sound, Of
<1>2. res.notes # {}
  BY DEF Tool, Result, Error
<1> QED BY <1>1, <1>2 DEF Reports

\* The checks there are.
AllChecks == {"subdomain", "portscan", "banner", "httpprobe", "headers", "tlsaudit",
              "dnsemail", "secrets", "vulnsig"} \cup External

\* Which check is which.
LEMMA CheckIs ==
    ASSUME NEW t, NEW prior, NEW L, NEW late
    PROVE  /\ Check("subdomain", t, prior, L, late) = Subdomain(t, L, late)
           /\ Check("portscan", t, prior, L, late) = PortScan(t, L, late)
           /\ Check("banner", t, prior, L, late) = Banner(t, prior, L, late)
           /\ Check("httpprobe", t, prior, L, late) = HTTPProbe(t, prior, L, late)
           /\ Check("headers", t, prior, L, late) = Headers(t, prior)
           /\ Check("tlsaudit", t, prior, L, late) = TLSAudit(t, prior, L, late)
           /\ Check("dnsemail", t, prior, L, late) = DNSEmail(t, L)
           /\ Check("secrets", t, prior, L, late) = Secrets(t, L, late)
           /\ Check("vulnsig", t, prior, L, late) = VulnSig(t, prior)
  BY DEF Check, External

\* ... external tools are one.
LEMMA CheckIsTool ==
    ASSUME NEW tool \in External, NEW t, NEW prior, NEW L, NEW late
    PROVE  Check(tool, t, prior, L, late) = Tool(tool, t, L)
  BY DEF Check, External

\* Every check, given what is so of its target, reports what is so of it, and
\* does not keep silent without a reason.
LEMMA CheckReports ==
    ASSUME NEW c \in AllChecks,
           NEW t, IsSite(t), scan.tree # <<>> => scan.tree[1] \in Seq(Files),
           NEW prior, Told(t, prior),
           c = "vulnsig" => \A g \in prior : g.on = t.raw => g.kind # "nmap-service",
           NEW L, NEW late
    PROVE  Reports(c, t, prior, L, Check(c, t, prior, L, late))
<1>1. CASE c = "subdomain"
  BY <1>1, CheckIs, SubdomainReports
<1>2. CASE c = "portscan"
  BY <1>2, CheckIs, PortScanReports
<1>3. CASE c = "banner"
  BY <1>3, CheckIs, BannerReports
<1>4. CASE c = "httpprobe"
  BY <1>4, CheckIs, HTTPProbeReports
<1>5. CASE c = "headers"
  BY <1>5, CheckIs, HeadersReports
<1>6. CASE c = "tlsaudit"
  BY <1>6, CheckIs, TLSAuditReports
<1>7. CASE c = "dnsemail"
  BY <1>7, CheckIs, DNSEmailReports
<1>8. CASE c = "secrets"
  BY <1>8, CheckIs, SecretsReports
<1>9. CASE c = "vulnsig"
  BY <1>9, CheckIs, VulnSigReports
<1>10. CASE c \in External
  <2>1. Check(c, t, prior, L, late) = Tool(c, t, L)
    BY <1>10, CheckIsTool
  <2> QED BY <1>10, <2>1, ToolReports
<1> QED BY <1>1, <1>2, <1>3, <1>4, <1>5, <1>6, <1>7, <1>8, <1>9, <1>10 DEF AllChecks

-----------------------------------------------------------------------------
(* The order of the checks                                                   *)

\* A profile lists checks there are, each once.
LEMMA ListedOnce ==
    ASSUME NEW p \in DOMAIN Profile
    PROVE  /\ \A i \in DOMAIN Profile[p] : i \in Int /\ Profile[p][i] \in AllChecks
           /\ \A i, j \in DOMAIN Profile[p] : Profile[p][i] = Profile[p][j] => i = j
<1>1. CASE p = "perimeter"
  BY <1>1 DEF Profile, AllChecks, External
<1>2. CASE p = "web"
  BY <1>2 DEF Profile, AllChecks, External
<1>3. CASE p = "tls_email"
  BY <1>3 DEF Profile, AllChecks, External
<1>4. CASE p = "hardening"
  BY <1>4 DEF Profile, AllChecks, External
<1>5. CASE p = "full"
  BY <1>5 DEF Profile, AllChecks, External
<1> QED BY <1>1, <1>2, <1>3, <1>4, <1>5 DEF Profile

\* Whoever lists a check that others read lists those, headers come before
\* versions are matched, and nmap comes last.
LEMMA ListedReaders ==
    ASSUME scan.profile \in DOMAIN Profile
    PROVE  /\ "httpprobe" \in Checklist => {"headers", "vulnsig"} \subseteq Checklist
           /\ "banner" \in Checklist => "vulnsig" \in Checklist
           /\ "headers" \in Checklist =>
                 /\ "vulnsig" \in Checklist
                 /\ \E i, j \in DOMAIN Profile[scan.profile] :
                       i < j /\ Profile[scan.profile][i] = "headers" /\ Profile[scan.profile][j] = "vulnsig"
           /\ \A i, j \in DOMAIN Profile[scan.profile] :
                 i < j /\ Profile[scan.profile][i] = "nmap" => Profile[scan.profile][j] # "vulnsig"
<1>1. CASE scan.profile = "perimeter"
  BY <1>1 DEF Profile, Checklist
<1>2. CASE scan.profile = "web"
  BY <1>2 DEF Profile, Checklist
<1>3. CASE scan.profile = "tls_email"
  BY <1>3 DEF Profile, Checklist
<1>4. CASE scan.profile = "hardening"
  BY <1>4 DEF Profile, Checklist
<1>5. CASE scan.profile = "full"
  BY <1>5 DEF Profile, Checklist
<1> QED BY <1>1, <1>2, <1>3, <1>4, <1>5 DEF Profile

\* Stages are numbers.
LEMMA StageInt == ASSUME NEW c PROVE Stage(c) \in Int
  BY DEF Stage

\* Of two checks one comes first.
LEMMA BeforeOneWay ==
    ASSUME scan.profile \in DOMAIN Profile, NEW c, NEW d, Before(c, d), Before(d, c)
    PROVE  FALSE
<1> DEFINE listed == Profile[scan.profile]
<1>2. Stage(c) = Stage(d)
  BY StageInt DEF Before
<1>3. PICK i, j \in DOMAIN listed : i < j /\ listed[i] = c /\ listed[j] = d
  BY <1>2, StageInt DEF Before
<1>4. PICK k, l \in DOMAIN listed : k < l /\ listed[k] = d /\ listed[l] = c
  BY <1>2, StageInt DEF Before
<1>5. k = j /\ l = i /\ i \in Int /\ j \in Int
  BY <1>3, <1>4, ListedOnce
<1> QED BY <1>3, <1>4, <1>5

\* At most one check is next.
LEMMA OneNext ==
    ASSUME scan.profile \in DOMAIN Profile, NEW c, NEW d, IsNext(c), IsNext(d)
    PROVE  c = d
<1> SUFFICES ASSUME c # d PROVE FALSE
  OBVIOUS
<1>1. Before(c, d) /\ Before(d, c)
  BY DEF IsNext
<1> QED BY <1>1, BeforeOneWay

\* The checks that later ones read come before those.
LEMMA ReadersLater ==
    ASSUME scan.profile \in DOMAIN Profile
    PROVE  /\ Before("httpprobe", "headers") /\ Before("httpprobe", "vulnsig")
           /\ Before("banner", "vulnsig") /\ Before("portscan", "vulnsig")
           /\ Before("portscan", "banner") /\ Before("portscan", "httpprobe")
           /\ Before("portscan", "tlsaudit")
           /\ "headers" \in Checklist => Before("headers", "vulnsig")
<1>1. "headers" \in Checklist => Before("headers", "vulnsig")
  BY ListedReaders DEF Before, Stage
<1> QED BY <1>1 DEF Before, Stage

-----------------------------------------------------------------------------
(* What holds of a scan under way                                            *)

\* Check c is through with the i-th target.
Passed(c, i) == c \in Checklist /\ (c \notin left \/ (IsNext(c) /\ i < turn))

\* Checks come one after the other.
ChecksInOrder == \A c \in left, d \in Checklist : Before(c, d) => d \in left

\* Only a check that can be run is ever under way.
TurnTaken == turn > 1 => \E c \in left : IsNext(c) /\ ~Unavailable(c)

\* The records of check c.
RecordsOf(c) == {j \in DOMAIN records : records[j].check = c}

\* A check under way has a record of each target it is through with.
RecordsCounted ==
    \A c \in Checklist :
        /\ IsFiniteSet(RecordsOf(c))
        /\ c \notin left => Cardinality(RecordsOf(c)) = IF Unavailable(c) THEN 1 ELSE Len(scan.targets)
        /\ c \in left => Cardinality(RecordsOf(c)) = IF IsNext(c) THEN turn - 1 ELSE 0

\* What is read later comes from the check it is meant to come from.
SourcesListed ==
    \A f \in collected : /\ Sound(f)
                         /\ f.kind \in DOMAIN Source => Source[f.kind] \in Checklist
                         /\ f.text # {} => f.kind \in Texts
                         /\ f.kind = "nmap-service" => "vulnsig" \notin left

\* Every fault a captured response shows is reported.
HeadersRead(t) ==
    \A f \in collected : f.on = t.raw /\ f.kind = "http-service" =>
        \A w \in f.saw : Counts(w, f.port) =>
            \E g \in collected : g.on = t.raw /\ g.port = f.port /\ g.kind = w[1] /\ g.text = w[2]

\* Every version that was read is matched or on record.
VersionsRead(t) ==
    \A f \in collected : f.on = t.raw /\ f.kind # "nmap-service" =>
        \A w \in f.text : Known(w) =>
            \E g \in collected : /\ g.on = t.raw /\ g.port = f.port
                                 /\ g.kind \in {"vulnsig", "version-observed"}
                                 /\ g.saw = {<<ProductOf(w[1]), w[2]>>}

\* Each derived check that is through with a target has read all there was.
DerivedSoFar ==
    \A i \in DOMAIN scan.targets :
        /\ Passed("headers", i) => HeadersRead(scan.targets[i])
        /\ Passed("vulnsig", i) => VersionsRead(scan.targets[i])

\* How far the scan is.
Order ==
    /\ scan \in Scans /\ left \subseteq Checklist /\ turn \in 1..Len(scan.targets)
    /\ ChecksInOrder /\ TurnTaken

\* What the job records of it.
RecordsKept == (\E S : records \in Seq(S)) /\ RecordsCounted /\ SilenceIsExplained

\* The inductive invariant.
ChecksInv == Order /\ RecordsKept /\ SourcesListed /\ ReportJust /\ DerivedSoFar

\* A check runs on the target whose turn it is.
Runs(c, L, late) ==
    /\ c \in left /\ IsNext(c) /\ ~Unavailable(c)
    /\ late \in BOOLEAN /\ (late => L # {})
    /\ Apply(c, L, late) /\ Onward(c) /\ UNCHANGED scan

\* A tool that is not there is passed over.
PassesOver(c) ==
    /\ c \in left /\ IsNext(c) /\ Unavailable(c)
    /\ left' = left \ {c}
    /\ records' = Append(records, [check |-> c, on |-> "", skipped |-> TRUE,
                                   ok |-> FALSE, found |-> FALSE, reason |-> {"unavailable"}])
    /\ UNCHANGED <<scan, turn, collected, lost>>

\* Every step of a scan is one or the other.
LEMMA Steps ==
    ASSUME [Next]_vars
    PROVE  \/ \E c \in left : PassesOver(c)
           \/ \E c \in left : \E L, late : Runs(c, L, late)
           \/ UNCHANGED vars
<1>1. CASE Skip
  BY <1>1 DEF Skip, PassesOver
<1>2. CASE Run
  <2>1. PICK c \in left :
           /\ IsNext(c) /\ ~Unavailable(c)
           /\ \E L \in UNION {kSubset(n, Probes(c, scan.targets[turn], collected)) : n \in 0..MaxAnswers},
                 late \in BOOLEAN :
                 /\ L # {} => Cardinality(lost) < MaxLost
                 /\ late => L # {}
                 /\ Apply(c, L, late)
           /\ Onward(c)
           /\ UNCHANGED scan
    BY <1>2 DEF Run
  <2>2. \E L, late : late \in BOOLEAN /\ (late => L # {}) /\ Apply(c, L, late)
    BY <2>1, Zenon
  <2> QED BY <2>1, <2>2 DEF Runs
<1> QED BY <1>1, <1>2 DEF Next

\* A scan is of a known profile, of targets that differ by name.
LEMMA ScanFacts ==
    ASSUME scan \in Scans
    PROVE  /\ scan.profile \in DOMAIN Profile
           /\ Len(scan.targets) \in Nat \ {0} /\ DOMAIN scan.targets = 1..Len(scan.targets)
           /\ \A i \in DOMAIN scan.targets : IsSite(scan.targets[i])
           /\ \A i, j \in DOMAIN scan.targets :
                 scan.targets[i].raw = scan.targets[j].raw => i = j
           /\ scan.tree # <<>> => scan.tree[1] \in Seq(Files)
           /\ Checklist \subseteq AllChecks
<1>1. /\ scan.profile \in DOMAIN Profile
      /\ scan.targets \in Seq(Sites) /\ scan.targets # <<>>
      /\ \A i, j \in DOMAIN scan.targets : i # j => scan.targets[i].raw # scan.targets[j].raw
      /\ scan.tree # <<>> => scan.tree[1] \in Seq(Files)
  BY ScanAssumption
<1>2. Len(scan.targets) \in Nat \ {0} /\ DOMAIN scan.targets = 1..Len(scan.targets)
  BY <1>1
<1>3. \A i \in DOMAIN scan.targets : IsSite(scan.targets[i])
  BY <1>1, SiteAssumption
<1>4. Checklist \subseteq AllChecks
  BY <1>1, ListedOnce DEF Checklist
<1> QED BY <1>1, <1>2, <1>3, <1>4

\* What depends on the scan alone.
LEMMA ScanStays ==
    ASSUME UNCHANGED scan
    PROVE  /\ Checklist' = Checklist /\ Targets' = Targets
           /\ \A c, d : Before(c, d)' <=> Before(c, d)
           /\ \A c : Unavailable(c)' <=> Unavailable(c)
  BY DEF Checklist, Targets, Before, Unavailable

\* Whether a finding holds depends on the scan alone.
LEMMA HoldsStays ==
    ASSUME UNCHANGED scan, NEW t, NEW f
    PROVE  Holds(t, f)' <=> Holds(t, f)
  BY Zenon DEF Holds, From

\* What is reported with reason: it is so, or one of the exceptions.
Reasoned(t, f) == Holds(t, f) \/ Misread(t, f) \/ Misblamed(t, f) \/ Unheard(t, f)

\* And so does the reason, for no answer that was lost is found again.
LEMMA ReasonStays ==
    ASSUME UNCHANGED scan, lost \subseteq lost', NEW t, NEW f, Reasoned(t, f)
    PROVE  Reasoned(t, f)'
<1>1. Holds(t, f) => Holds(t, f)'
  BY HoldsStays
<1>2. /\ Misread(t, f)' <=> Misread(t, f)
      /\ Misblamed(t, f)' <=> Misblamed(t, f)
  BY DEF Misread, Hearsay, From, Misblamed
<1>3. Unheard(t, f) => Unheard(t, f)'
  BY DEF Unheard
<1> QED BY <1>1, <1>2, <1>3 DEF Reasoned

\* A check that is through with a target was so before, or has just got there.
LEMMA PassedStep ==
    ASSUME Order, NEW c, NEW L, NEW late, Runs(c, L, late), NEW d, NEW i \in DOMAIN scan.targets,
           Passed(d, i)'
    PROVE  Passed(d, i) \/ (d = c /\ i = turn)
<1>1. /\ Len(scan.targets) \in Nat \ {0} /\ DOMAIN scan.targets = 1..Len(scan.targets)
      /\ scan.profile \in DOMAIN Profile
  BY ScanFacts DEF Order
<1>2. Checklist' = Checklist /\ \A x, y : Before(x, y)' <=> Before(x, y)
  BY ScanStays DEF Runs
<1>3. d \in Checklist /\ (d \notin left' \/ (IsNext(d)' /\ i < turn'))
  BY <1>2 DEF Passed
<1>4. turn \in 1..Len(scan.targets) /\ i \in 1..Len(scan.targets)
  BY <1>1 DEF Order
<1>5. CASE turn < Len(scan.targets)
  <2>1. turn' = turn + 1 /\ left' = left
    BY <1>5 DEF Runs, Onward
  <2>2. CASE d \notin left'
    BY <1>3, <2>1, <2>2 DEF Passed
  <2>3. CASE IsNext(d)' /\ i < turn'
    <3>1. IsNext(d)
      BY <1>2, <2>1, <2>3 DEF IsNext
    <3>2. d = c
      BY <1>1, <3>1, OneNext DEF Runs
    <3>3. i < turn \/ i = turn
      BY <1>4, <2>1, <2>3
    <3> QED BY <1>3, <3>1, <3>2, <3>3 DEF Passed
  <2> QED BY <1>3, <2>2, <2>3
<1>6. CASE ~(turn < Len(scan.targets))
  <2>1. turn' = 1 /\ left' = left \ {c} /\ turn = Len(scan.targets)
    BY <1>1, <1>4, <1>6 DEF Runs, Onward
  <2>2. d \notin left'
    BY <1>3, <1>4, <2>1
  <2>3. CASE d = c
    BY <1>3, <1>4, <2>1, <2>3 DEF Passed, Runs
  <2> QED BY <1>3, <2>1, <2>2, <2>3 DEF Passed
<1> QED BY <1>5, <1>6

\* A check that is passed over was not one of those that are never.
LEMMA PassedOver ==
    ASSUME Order, NEW c, PassesOver(c), NEW d, NEW i \in DOMAIN scan.targets, Passed(d, i)'
    PROVE  Passed(d, i) \/ d = c
<1>1. /\ Len(scan.targets) \in Nat \ {0} /\ scan.profile \in DOMAIN Profile
  BY ScanFacts DEF Order
<1>2. Checklist' = Checklist /\ turn' = turn /\ left' = left \ {c}
  BY ScanStays DEF PassesOver
<1>3. turn = 1
  <2>1. turn > 1 => FALSE
    BY <1>1, OneNext DEF Order, TurnTaken, PassesOver
  <2> QED BY <1>1, <2>1 DEF Order
<1>4. i \in 1..Len(scan.targets)
  BY ScanFacts DEF Order
<1> QED BY <1>1, <1>2, <1>3, <1>4 DEF Passed

\* The order is kept.
LEMMA OrderStep ==
    ASSUME Order, [Next]_vars
    PROVE  Order'
<1>1. /\ Len(scan.targets) \in Nat \ {0} /\ scan.profile \in DOMAIN Profile
      /\ turn \in 1..Len(scan.targets)
  BY ScanFacts DEF Order
<1>2. ASSUME NEW c \in left, IsNext(c), UNCHANGED scan, left' = left \ {c}, turn' = 1
      PROVE  Order'
  <2>1. Checklist' = Checklist
    BY <1>2, ScanStays
  <2>2. ChecksInOrder'
    <3> SUFFICES ASSUME NEW x \in left', NEW y \in Checklist, Before(x, y)
                 PROVE  y \in left'
      BY <1>2, <2>1, ScanStays DEF ChecksInOrder
    <3>1. x \in left /\ x # c /\ y \in left
      BY <1>2 DEF Order, ChecksInOrder
    <3>2. Before(c, x)
      BY <1>2, <3>1 DEF IsNext
    <3>3. y # c
      BY <1>1, <3>2, BeforeOneWay
    <3> QED BY <1>2, <3>1, <3>3
  <2>3. TurnTaken'
    BY <1>2 DEF TurnTaken
  <2>4. scan' \in Scans /\ left' \subseteq Checklist' /\ turn' \in 1..Len(scan'.targets)
    BY <1>1, <1>2, <2>1 DEF Order
  <2> QED BY <2>2, <2>3, <2>4 DEF Order
<1>3. ASSUME NEW c \in left, PassesOver(c) PROVE Order'
  <2>1. turn > 1 => FALSE
    BY <1>1, <1>3, OneNext DEF Order, TurnTaken, PassesOver
  <2>2. turn' = 1
    <3>1. turn = 1
      BY <1>1, <2>1
    <3> QED BY <1>3, <3>1 DEF PassesOver
  <2> QED BY <1>2, <1>3, <2>2 DEF PassesOver
<1>4. ASSUME NEW c \in left, NEW L, NEW late, Runs(c, L, late) PROVE Order'
  <2>1. CASE turn < Len(scan.targets)
    <3>1. turn' = turn + 1 /\ left' = left /\ scan' = scan
      BY <1>4, <2>1 DEF Runs, Onward
    <3>2. /\ Checklist' = Checklist /\ \A x, y : Before(x, y)' <=> Before(x, y)
          /\ \A x : Unavailable(x)' <=> Unavailable(x)
      BY <3>1, ScanStays
    <3>3. TurnTaken'
      <4>1. c \in left' /\ IsNext(c)' /\ ~Unavailable(c)'
        BY <1>4, <3>1, <3>2 DEF Runs, IsNext
      <4> QED BY <4>1 DEF TurnTaken
    <3>4. ChecksInOrder'
      BY <3>1, <3>2 DEF Order, ChecksInOrder
    <3> QED BY <1>1, <2>1, <3>1, <3>2, <3>3, <3>4 DEF Order
  <2>2. CASE ~(turn < Len(scan.targets))
    <3>1. turn' = 1 /\ left' = left \ {c} /\ scan' = scan /\ IsNext(c)
      BY <1>4, <2>2 DEF Runs, Onward
    <3> QED BY <1>2, <3>1
  <2> QED BY <2>1, <2>2
<1>5. CASE UNCHANGED vars
  BY <1>5 DEF vars, Order, ChecksInOrder, TurnTaken, IsNext, Before, Unavailable, Checklist
<1> QED BY <1>3, <1>4, <1>5, Steps

-----------------------------------------------------------------------------
(* What is reported                                                          *)

\* What has been found of a target is so of it.
LEMMA ToldNow ==
    ASSUME Order, SourcesListed, ReportJust, NEW i \in DOMAIN scan.targets
    PROVE  Told(scan.targets[i], collected)
<1> DEFINE t == scan.targets[i]
<1> SUFFICES ASSUME NEW f \in collected, f.on = t.raw, f.kind \in DOMAIN Source
             PROVE  Holds(t, f)
  BY DEF Told, SourcesListed
<1>1. f.kind \notin {"subdomain", "vulnsig", "version-observed", "chain", "spf-missing",
                     "dmarc-missing", "dkim-none-common", "mta-sts-missing", "tls-no13"}
  BY DEF Source, Texts, HeaderFaults
<1>2. PICK u \in About(f) : Holds(u, f)
  <2>1. PICK u \in About(f) : Holds(u, f) \/ Misread(u, f) \/ Misblamed(u, f) \/ Unheard(u, f)
    BY DEF ReportJust
  <2>2. ~Misread(u, f) /\ ~Misblamed(u, f)
    BY <1>1 DEF Misread, Misblamed
  <2>3. ~Unheard(u, f)
    BY <1>1 DEF Unheard
  <2> QED BY <2>1, <2>2, <2>3
<1>3. u \in Targets /\ u.raw = t.raw
  BY <1>1, <1>2 DEF About
<1>4. PICK j \in DOMAIN scan.targets : u = scan.targets[j]
  BY <1>3 DEF Targets
<1>5. j = i
  BY <1>3, <1>4, ScanFacts DEF Order
<1> QED BY <1>2, <1>4, <1>5

\* So what a check reports now is just.
LEMMA ReportsNow ==
    ASSUME Order, SourcesListed, ReportJust, NEW c, NEW L, NEW late, Runs(c, L, late)
    PROVE  Reports(c, scan.targets[turn], collected, L,
                   Check(c, scan.targets[turn], collected, L, late))
<1> DEFINE t == scan.targets[turn]
<1>1. /\ turn \in DOMAIN scan.targets /\ Checklist \subseteq AllChecks
      /\ scan.tree # <<>> => scan.tree[1] \in Seq(Files)
  BY ScanFacts DEF Order
<1>2. IsSite(t) /\ Told(t, collected)
  BY <1>1, ToldNow, ScanFacts DEF Order
<1>3. c \in AllChecks /\ c \in left
  BY <1>1 DEF Order, Runs
<1>4. c = "vulnsig" => \A g \in collected : g.on = t.raw => g.kind # "nmap-service"
  BY <1>3 DEF SourcesListed
<1> QED BY <1>1, <1>2, <1>3, <1>4, CheckReports

\* What a step that runs a check does to what was found.
LEMMA RunFinds ==
    ASSUME Order, SourcesListed, ReportJust, NEW c, NEW L, NEW late, Runs(c, L, late)
    PROVE  /\ turn \in DOMAIN scan.targets /\ scan' = scan /\ left' \subseteq left
           /\ collected \subseteq collected' /\ lost \subseteq lost'
           /\ \A x \in L : <<c, scan.targets[turn].raw, x>> \in lost'
           /\ \A f \in collected' \ collected : Just(c, scan.targets[turn], L, f)
<1>1. turn \in DOMAIN scan.targets
  BY ScanFacts DEF Order
<1>2. left' \subseteq left /\ scan' = scan
  BY DEF Runs, Onward
<1>3. /\ collected' = collected \cup Check(c, scan.targets[turn], collected, L, late).findings
      /\ lost' = lost \cup {<<c, scan.targets[turn].raw, x>> : x \in L}
  BY DEF Runs, Apply
<1> QED BY <1>1, <1>2, <1>3, ReportsNow DEF Reports

\* Findings stay sound, and from the checks they are meant to be from.
LEMMA SourcesListedStep ==
    ASSUME Order, SourcesListed, ReportJust, [Next]_vars
    PROVE  SourcesListed'
<1>1. ASSUME NEW c \in left, PassesOver(c) PROVE SourcesListed'
  <2>1. Checklist' = Checklist /\ collected' = collected /\ left' \subseteq left
    BY <1>1, ScanStays DEF PassesOver
  <2> QED BY <2>1 DEF SourcesListed, Sound
<1>2. ASSUME NEW c \in left, NEW L, NEW late, Runs(c, L, late) PROVE SourcesListed'
  <2>1. /\ Checklist' = Checklist /\ left' \subseteq left
        /\ \A f \in collected' \ collected : Just(c, scan.targets[turn], L, f)
    BY <1>2, RunFinds, ScanStays
  <2>2. c = "nmap" => "vulnsig" \notin left
    <3> SUFFICES ASSUME c = "nmap", "vulnsig" \in left PROVE FALSE
      OBVIOUS
    <3>1. Before("nmap", "vulnsig")
      BY <1>2 DEF Runs, IsNext
    <3> QED BY <3>1, ListedReaders, ScanFacts DEF Before, Stage, Order
  <2> SUFFICES ASSUME NEW f \in collected'
               PROVE  /\ Sound(f)
                      /\ f.kind \in DOMAIN Source => Source[f.kind] \in Checklist
                      /\ f.text # {} => f.kind \in Texts
                      /\ f.kind = "nmap-service" => "vulnsig" \notin left'
    BY <2>1 DEF SourcesListed, Sound
  <2>3. CASE f \in collected
    BY <2>1, <2>3 DEF SourcesListed
  <2>4. CASE f \notin collected
    <3>1. Just(c, scan.targets[turn], L, f)
      BY <2>1, <2>4
    <3>2. c \in Checklist
      BY <1>2 DEF Order
    <3>3. f.kind = "nmap-service" => c = "nmap"
      BY <3>1, SourceIs DEF Just, Texts
    <3> QED BY <2>1, <2>2, <3>1, <3>2, <3>3 DEF Just
  <2> QED BY <2>3, <2>4
<1>3. CASE UNCHANGED vars
  BY <1>3 DEF vars, SourcesListed, Sound, Checklist
<1> QED BY <1>1, <1>2, <1>3, Steps

\* What is reported stays just.
LEMMA ReportJustStep ==
    ASSUME Order, SourcesListed, ReportJust, [Next]_vars
    PROVE  ReportJust'
<1>1. ASSUME UNCHANGED scan, lost \subseteq lost', NEW f \in collected
      PROVE  \E t \in About(f)' : Reasoned(t, f)'
  <2>1. PICK t \in About(f) : Reasoned(t, f)
    BY DEF ReportJust, Reasoned
  <2>2. About(f)' = About(f)
    BY <1>1, ScanStays DEF About
  <2> QED BY <1>1, <2>1, <2>2, ReasonStays
<1>2. ASSUME NEW c \in left, NEW L, NEW late, Runs(c, L, late), NEW f \in collected' \ collected
      PROVE  \E t \in About(f)' : Reasoned(t, f)'
  <2>0. PICK t : t = scan.targets[turn]
    OBVIOUS
  <2>1. /\ turn \in DOMAIN scan.targets /\ scan' = scan
        /\ \A x \in L : <<c, t.raw, x>> \in lost'
        /\ Just(c, t, L, f)
    BY <1>2, <2>0, RunFinds
  <2>2. t \in About(f)
    BY <2>0, <2>1 DEF About, Targets, Just, Of
  <2>3. About(f)' = About(f)
    BY <2>1, ScanStays DEF About
  <2>4. /\ Holds(t, f)' <=> Holds(t, f)
        /\ Misread(t, f)' <=> Misread(t, f)
        /\ Misblamed(t, f)' <=> Misblamed(t, f)
    BY <2>1, HoldsStays DEF Misread, Hearsay, From, Misblamed
  <2>5. Missed(c, L, f) => Unheard(t, f)'
    BY <2>1 DEF Missed, Unheard
  <2>6. Reasoned(t, f)'
    BY <2>1, <2>4, <2>5 DEF Just, Reasoned
  <2> QED BY <2>2, <2>3, <2>6
<1>3. ASSUME NEW c \in left, PassesOver(c) PROVE ReportJust'
  <2>1. UNCHANGED scan /\ lost \subseteq lost' /\ collected' = collected
    BY <1>3 DEF PassesOver
  <2> QED BY <1>1, <2>1 DEF ReportJust, Reasoned
<1>4. ASSUME NEW c \in left, NEW L, NEW late, Runs(c, L, late) PROVE ReportJust'
  <2>1. UNCHANGED scan /\ lost \subseteq lost'
    BY <1>4, RunFinds
  <2> QED BY <1>1, <1>2, <1>4, <2>1 DEF ReportJust, Reasoned
<1>5. CASE UNCHANGED vars
  <2>1. UNCHANGED scan /\ lost \subseteq lost' /\ collected' = collected
    BY <1>5 DEF vars
  <2> QED BY <1>1, <2>1 DEF ReportJust, Reasoned
<1> QED BY <1>3, <1>4, <1>5, Steps

-----------------------------------------------------------------------------
(* What is recorded                                                          *)

\* A record more.
LEMMA Appended ==
    ASSUME NEW S, records \in Seq(S), NEW r, records' = Append(records, r)
    PROVE  /\ \E T : records' \in Seq(T)
           /\ Len(records) \in Nat /\ Len(records) + 1 \notin DOMAIN records
           /\ DOMAIN records' = DOMAIN records \cup {Len(records) + 1}
           /\ \A j \in DOMAIN records : records'[j] = records[j]
           /\ records'[Len(records) + 1] = r
<1>1. records \in Seq(S \cup {r})
  OBVIOUS
<1>2. records' \in Seq(S \cup {r})
  BY <1>1
<1> QED BY <1>1, <1>2

\* A record appended is one more of its check, and no more of any other.
LEMMA CountAppended ==
    ASSUME NEW S, records \in Seq(S), NEW r, records' = Append(records, r),
           NEW d, IsFiniteSet(RecordsOf(d))
    PROVE  /\ IsFiniteSet(RecordsOf(d)')
           /\ r.check = d => Cardinality(RecordsOf(d)') = Cardinality(RecordsOf(d)) + 1
           /\ r.check # d => Cardinality(RecordsOf(d)') = Cardinality(RecordsOf(d))
<1> DEFINE n == Len(records) + 1
<1>1. /\ n \notin DOMAIN records /\ DOMAIN records' = DOMAIN records \cup {n}
      /\ \A j \in DOMAIN records : records'[j] = records[j]
      /\ records'[n] = r
  BY Appended
<1> HIDE DEF n
<1>2. RecordsOf(d)' = IF r.check = d THEN RecordsOf(d) \cup {n} ELSE RecordsOf(d)
  BY <1>1 DEF RecordsOf
<1>3. n \notin RecordsOf(d)
  BY <1>1 DEF RecordsOf
<1> QED BY <1>2, <1>3, FS_AddElement

\* The records stay counted.
LEMMA RecordsCountedStep ==
    ASSUME Order, RecordsCounted, NEW S, records \in Seq(S), [Next]_vars
    PROVE  RecordsCounted'
<1>0. /\ Len(scan.targets) \in Nat \ {0} /\ scan.profile \in DOMAIN Profile
      /\ turn \in 1..Len(scan.targets)
  BY ScanFacts DEF Order
<1>1. ASSUME NEW c \in left, PassesOver(c) PROVE RecordsCounted'
  <2>1. PICK r : r.check = c /\ records' = Append(records, r)
    BY <1>1 DEF PassesOver
  <2>2. /\ Checklist' = Checklist /\ left' = left \ {c} /\ turn' = turn /\ scan' = scan
        /\ \A d : Unavailable(d)' <=> Unavailable(d)
    BY <1>1, ScanStays DEF PassesOver
  <2>3. turn = 1
    <3>1. turn > 1 => FALSE
      BY <1>0, <1>1, OneNext DEF Order, TurnTaken, PassesOver
    <3> QED BY <1>0, <3>1
  <2> SUFFICES ASSUME NEW d \in Checklist
               PROVE  /\ IsFiniteSet(RecordsOf(d)')
                      /\ d \notin left' => Cardinality(RecordsOf(d)')
                                             = IF Unavailable(d) THEN 1 ELSE Len(scan.targets)
                      /\ d \in left' => Cardinality(RecordsOf(d)') = 0
    BY <2>2, <2>3 DEF RecordsCounted
  <2>4. /\ IsFiniteSet(RecordsOf(d)')
        /\ c = d => Cardinality(RecordsOf(d)') = Cardinality(RecordsOf(d)) + 1
        /\ c # d => Cardinality(RecordsOf(d)') = Cardinality(RecordsOf(d))
    BY <2>1, CountAppended DEF RecordsCounted
  <2>5. d \in left => Cardinality(RecordsOf(d)) = 0
    BY <2>3 DEF RecordsCounted
  <2>6. d = c \/ (d \in left' <=> d \in left)
    BY <2>2
  <2>7. CASE d = c
    <3>1. d \in left /\ d \notin left' /\ Unavailable(d)
      BY <1>1, <2>2, <2>7 DEF PassesOver
    <3>2. Cardinality(RecordsOf(d)') = 1
      BY <2>4, <2>5, <2>7, <3>1
    <3> QED BY <2>4, <3>1, <3>2
  <2>8. CASE d # c
    BY <2>2, <2>4, <2>5, <2>8 DEF RecordsCounted
  <2> QED BY <2>7, <2>8
<1>2. ASSUME NEW c \in left, NEW L, NEW late, Runs(c, L, late) PROVE RecordsCounted'
  <2>1. PICK r : r.check = c /\ records' = Append(records, r)
    BY <1>2 DEF Runs, Apply
  <2>2. /\ Checklist' = Checklist /\ scan' = scan
        /\ \A d : Unavailable(d)' <=> Unavailable(d)
        /\ \A x, y : Before(x, y)' <=> Before(x, y)
    BY <1>2, ScanStays DEF Runs
  <2>3. ASSUME NEW d \in Checklist
        PROVE  /\ IsFiniteSet(RecordsOf(d)')
               /\ c = d => Cardinality(RecordsOf(d)') = Cardinality(RecordsOf(d)) + 1
               /\ c # d => Cardinality(RecordsOf(d)') = Cardinality(RecordsOf(d))
    BY <2>1, CountAppended DEF RecordsCounted
  <2>4. ASSUME NEW d \in left, d # c PROVE ~IsNext(d)
    BY <1>0, <1>2, <2>4, OneNext DEF Runs
  <2>5. c \in Checklist /\ Cardinality(RecordsOf(c)) = turn - 1 /\ ~Unavailable(c) /\ IsNext(c)
    BY <1>2 DEF Order, Runs, RecordsCounted
  <2>6. CASE turn < Len(scan.targets)
    <3>1. turn' = turn + 1 /\ left' = left
      BY <1>2, <2>6 DEF Runs, Onward
    <3>2. \A d : IsNext(d)' <=> IsNext(d)
      BY <2>2, <3>1 DEF IsNext
    <3> SUFFICES ASSUME NEW d \in Checklist
                 PROVE  /\ IsFiniteSet(RecordsOf(d)')
                        /\ d \notin left => Cardinality(RecordsOf(d)')
                                             = IF Unavailable(d) THEN 1 ELSE Len(scan.targets)
                        /\ d \in left => Cardinality(RecordsOf(d)') = IF IsNext(d) THEN turn ELSE 0
      <4>1. turn' - 1 = turn
        BY <1>0, <3>1
      <4> QED BY <2>2, <3>1, <3>2, <4>1 DEF RecordsCounted
    <3>3. CASE d = c
      BY <1>0, <1>2, <2>3, <2>5, <3>3
    <3>4. CASE d # c
      BY <2>3, <2>4, <3>4 DEF RecordsCounted
    <3> QED BY <3>3, <3>4
  <2>7. CASE ~(turn < Len(scan.targets))
    <3>1. turn' = 1 /\ left' = left \ {c} /\ turn = Len(scan.targets)
      BY <1>0, <1>2, <2>7 DEF Runs, Onward
    <3> SUFFICES ASSUME NEW d \in Checklist
                 PROVE  /\ IsFiniteSet(RecordsOf(d)')
                        /\ d \notin left' => Cardinality(RecordsOf(d)')
                                             = IF Unavailable(d) THEN 1 ELSE Len(scan.targets)
                        /\ d \in left' => Cardinality(RecordsOf(d)') = 0
      BY <2>2, <3>1 DEF RecordsCounted
    <3>3. CASE d = c
      BY <1>0, <2>3, <2>5, <3>1, <3>3
    <3>4. CASE d # c
      BY <2>3, <2>4, <3>1, <3>4 DEF RecordsCounted
    <3> QED BY <3>3, <3>4
  <2> QED BY <2>6, <2>7
<1>3. CASE UNCHANGED vars
  <2>1. /\ scan' = scan /\ left' = left /\ turn' = turn /\ records' = records
        /\ Checklist' = Checklist
        /\ \A d : Unavailable(d)' <=> Unavailable(d)
        /\ \A x, y : Before(x, y)' <=> Before(x, y)
    BY <1>3, ScanStays DEF vars
  <2>2. /\ \A d : RecordsOf(d)' = RecordsOf(d)
        /\ \A d : IsNext(d)' <=> IsNext(d)
    BY <2>1 DEF RecordsOf, IsNext
  <2> QED BY <2>1, <2>2 DEF RecordsCounted
<1> QED BY <1>1, <1>2, <1>3, Steps

\* A check that found nothing said why, or need not.
LEMMA SilenceStep ==
    ASSUME Order, SourcesListed, ReportJust, SilenceIsExplained,
           NEW S, records \in Seq(S), [Next]_vars
    PROVE  SilenceIsExplained'
<1> DEFINE Fine(r, fs) == ~r.found /\ r.reason = {} =>
               \/ r.check = "banner" /\ \E f \in fs : f.on = r.on /\ f.kind = "open-port"
               \/ r.check = "headers" /\ \E f \in fs : f.on = r.on /\ f.kind = "http-service"
<1>1. \A i \in DOMAIN records : Fine(records[i], collected)
  BY DEF SilenceIsExplained
<1>2. ASSUME NEW r, records' = Append(records, r), collected \subseteq collected', Fine(r, collected')
      PROVE  SilenceIsExplained'
  <2>1. \A i \in DOMAIN records' : Fine(records'[i], collected')
    BY <1>1, <1>2, Appended
  <2> QED BY <2>1 DEF SilenceIsExplained
<1>3. ASSUME NEW c \in left, PassesOver(c) PROVE SilenceIsExplained'
  <2>1. PICK r : r.reason = {"unavailable"} /\ records' = Append(records, r)
    BY <1>3 DEF PassesOver
  <2> QED BY <1>2, <1>3, <2>1 DEF PassesOver
<1>4. ASSUME NEW c \in left, NEW L, NEW late, Runs(c, L, late) PROVE SilenceIsExplained'
  <2>1. PICK t, res : t = scan.targets[turn] /\ res = Check(c, t, collected, L, late)
    OBVIOUS
  <2>2. PICK r : /\ r.check = c /\ r.on = t.raw /\ r.found = (res.findings # {}) /\ r.reason = res.notes
                 /\ records' = Append(records, r)
    BY <1>4, <2>1 DEF Runs, Apply
  <2>3. Reports(c, t, collected, L, res)
    BY <1>4, <2>1, ReportsNow
  <2>4. collected \subseteq collected'
    BY <1>4, RunFinds
  <2>5. ~r.found /\ r.reason = {} => Excused(c, t, collected)
    BY <2>2, <2>3 DEF Reports
  <2>6. Fine(r, collected')
    BY <2>2, <2>4, <2>5 DEF Excused
  <2> HIDE DEF Fine
  <2> QED BY <1>2, <2>2, <2>4, <2>6
<1>5. CASE UNCHANGED vars
  BY <1>5 DEF vars, SilenceIsExplained
<1> QED BY <1>3, <1>4, <1>5, Steps

\* What the job records is kept in step.
LEMMA RecordsKeptStep ==
    ASSUME Order, SourcesListed, ReportJust, RecordsKept, [Next]_vars
    PROVE  RecordsKept'
<1>1. PICK S : records \in Seq(S)
  BY DEF RecordsKept
<1>2. \E T : records' \in Seq(T)
  <2>1. CASE UNCHANGED vars
    BY <1>1, <2>1 DEF vars
  <2>2. ASSUME NEW c \in left, PassesOver(c) PROVE \E r : records' = Append(records, r)
    BY <2>2 DEF PassesOver
  <2>3. ASSUME NEW c \in left, NEW L, NEW late, Runs(c, L, late) PROVE \E r : records' = Append(records, r)
    BY <2>3 DEF Runs, Apply
  <2> QED BY <1>1, <2>1, <2>2, <2>3, Steps, Appended
<1> QED BY <1>1, <1>2, RecordsCountedStep, SilenceStep DEF RecordsKept

-----------------------------------------------------------------------------
(* What is made of what was seen                                             *)

\* The headers check passes over no fault of a response it is given.
LEMMA HeadersWhole ==
    ASSUME NEW t, NEW prior, NEW L, NEW late,
           NEW f \in prior, f.on = t.raw, f.kind = "http-service", NEW w \in f.saw,
           Counts(w, f.port)
    PROVE  \E g \in Check("headers", t, prior, L, late).findings :
              g.on = t.raw /\ g.port = f.port /\ g.kind = w[1] /\ g.text = w[2]
<1> DEFINE g == G(t.raw, w[1], f.port, HeaderSeverity(w[1]), "confirmed", {}, w[2])
<1>1. g \in Headers(t, prior).findings
  BY DEF Headers, Result
<1>2. g.on = t.raw /\ g.port = f.port /\ g.kind = w[1] /\ g.text = w[2]
  BY Spelled
<1> QED BY <1>1, <1>2, CheckIs

\* Every version that is known is matched or put on record.
LEMMA VersionsWhole ==
    ASSUME NEW t, NEW prior, NEW L, NEW late,
           NEW f \in prior, f.on = t.raw, NEW w \in f.text, Known(w)
    PROVE  \E g \in Check("vulnsig", t, prior, L, late).findings :
              /\ g.on = t.raw /\ g.port = f.port
              /\ g.kind \in {"vulnsig", "version-observed"}
              /\ g.saw = {<<ProductOf(w[1]), w[2]>>}
<1> DEFINE hits(o) == {s \in Signatures : Matches(s, o[1], o[2])}
           Made(o) == IF hits(o) = {}
                      THEN {F(t.raw, "version-observed", o[3], "info", "confirmed", {<<o[1], o[2]>>})}
                      ELSE {F(t.raw, "vulnsig", o[3], s.sev, "likely", {<<o[1], o[2]>>}) : s \in hits(o)}
<1>1. VulnSig(t, prior).findings = UNION {Made(o) : o \in Software(t, prior)}
  BY DEF VulnSig, Result
<1>2. PICK o : o = <<ProductOf(w[1]), w[2], f.port>>
  OBVIOUS
<1>3. o \in Software(t, prior)
  BY <1>2 DEF Software
<1>4. PICK g \in Made(o) : TRUE
  OBVIOUS
<1>5. /\ g.on = t.raw /\ g.port = o[3] /\ g.saw = {<<o[1], o[2]>>}
      /\ g.kind \in {"vulnsig", "version-observed"}
  <2>1. PICK sev, conf : \/ g = F(t.raw, "version-observed", o[3], sev, conf, {<<o[1], o[2]>>})
                         \/ g = F(t.raw, "vulnsig", o[3], sev, conf, {<<o[1], o[2]>>})
    BY <1>4
  <2> QED BY <2>1, Fields
<1>6. g \in VulnSig(t, prior).findings
  <2> HIDE DEF Made
  <2> QED BY <1>1, <1>3, <1>4
<1>7. o[3] = f.port /\ o[1] = ProductOf(w[1]) /\ o[2] = w[2]
  BY <1>2
<1>8. g \in Check("vulnsig", t, prior, L, late).findings
  BY <1>6, CheckIs
<1> QED BY <1>5, <1>7, <1>8

\* No check is through with anything while one that comes before it is left.
LEMMA NotYetPassed ==
    ASSUME Order, NEW c \in left, NEW d, Before(c, d), NEW i
    PROVE  ~Passed(d, i)
<1> SUFFICES ASSUME Passed(d, i) PROVE FALSE
  OBVIOUS
<1>0. scan.profile \in DOMAIN Profile
  BY ScanFacts DEF Order
<1>1. d \in left /\ IsNext(d)
  BY DEF Passed, Order, ChecksInOrder
<1>2. d # c
  BY <1>0, BeforeOneWay
<1>3. Before(d, c)
  BY <1>1, <1>2 DEF IsNext
<1> QED BY <1>0, <1>3, BeforeOneWay

\* A derived check leaves nothing it was told unread, and no later check adds to it.
LEMMA DerivedStep ==
    ASSUME Order, SourcesListed, ReportJust, DerivedSoFar, [Next]_vars
    PROVE  DerivedSoFar'
<1>1. ASSUME NEW c \in left, NEW L, NEW late, Runs(c, L, late), NEW i \in DOMAIN scan.targets
      PROVE  /\ Passed("headers", i)' => HeadersRead(scan.targets[i])'
             /\ Passed("vulnsig", i)' => VersionsRead(scan.targets[i])'
  <2>0. PICK t : t = scan.targets[i]
    OBVIOUS
  <2>1. /\ turn \in DOMAIN scan.targets /\ scan' = scan /\ collected \subseteq collected'
        /\ \A f \in collected' \ collected : Just(c, scan.targets[turn], L, f)
    BY <1>1, RunFinds
  <2>2. Check(c, scan.targets[turn], collected, L, late).findings \subseteq collected'
    BY <1>1 DEF Runs, Apply
  <2>3. ASSUME NEW f \in collected' \ collected, f.kind \in DOMAIN Source
        PROVE  c = Source[f.kind]
    BY <2>1, <2>3 DEF Just
  <2>8. scan.profile \in DOMAIN Profile /\ c \in Checklist
    BY ScanFacts DEF Order
  <2>4. ASSUME Passed("headers", i)' PROVE HeadersRead(t)'
    <3>1. Passed("headers", i) \/ (c = "headers" /\ i = turn)
      BY <1>1, <2>4, PassedStep
    <3>2. c # "httpprobe"
      BY <1>1, <2>8, <3>1, NotYetPassed, ReadersLater
    <3> SUFFICES ASSUME NEW f \in collected', f.on = t.raw, f.kind = "http-service", NEW w \in f.saw,
                        Counts(w, f.port)
                 PROVE  \E g \in collected' : /\ g.on = t.raw /\ g.port = f.port
                                              /\ g.kind = w[1] /\ g.text = w[2]
      BY DEF HeadersRead
    <3>3. f \in collected
      BY <2>3, <3>2, SourceIs DEF Texts
    <3>4. CASE Passed("headers", i)
      <4>1. HeadersRead(t)
        BY <2>0, <3>4 DEF DerivedSoFar
      <4> QED BY <2>1, <3>3, <4>1 DEF HeadersRead
    <3>5. CASE c = "headers" /\ i = turn
      <4>1. \E g \in Check("headers", t, collected, L, late).findings :
               g.on = t.raw /\ g.port = f.port /\ g.kind = w[1] /\ g.text = w[2]
        BY <3>3, HeadersWhole
      <4> QED BY <2>0, <2>2, <3>5, <4>1
    <3> QED BY <3>1, <3>4, <3>5
  <2>5. ASSUME Passed("vulnsig", i)' PROVE VersionsRead(t)'
    <3>1. Passed("vulnsig", i) \/ (c = "vulnsig" /\ i = turn)
      BY <1>1, <2>5, PassedStep
    <3>2. c # "httpprobe" /\ c # "banner" /\ c # "headers"
      BY <1>1, <2>8, <3>1, NotYetPassed, ReadersLater
    <3> SUFFICES ASSUME NEW f \in collected', f.on = t.raw, f.kind # "nmap-service",
                        NEW w \in f.text, Known(w)
                 PROVE  \E g \in collected' : /\ g.on = t.raw /\ g.port = f.port
                                              /\ g.kind \in {"vulnsig", "version-observed"}
                                              /\ g.saw = {<<ProductOf(w[1]), w[2]>>}
      BY DEF VersionsRead
    <3>3. f \in collected
      <4>1. f \notin collected => f.kind \in Texts
        BY <2>1 DEF Just
      <4> QED BY <2>3, <3>2, <4>1, SourceIs DEF Texts
    <3>4. CASE Passed("vulnsig", i)
      <4>1. VersionsRead(t)
        BY <2>0, <3>4 DEF DerivedSoFar
      <4> QED BY <2>1, <3>3, <4>1 DEF VersionsRead
    <3>5. CASE c = "vulnsig" /\ i = turn
      <4>1. \E g \in Check("vulnsig", t, collected, L, late).findings :
               /\ g.on = t.raw /\ g.port = f.port
               /\ g.kind \in {"vulnsig", "version-observed"}
               /\ g.saw = {<<ProductOf(w[1]), w[2]>>}
        BY <3>3, VersionsWhole
      <4> QED BY <2>0, <2>2, <3>5, <4>1
    <3> QED BY <3>1, <3>4, <3>5
  <2>6. HeadersRead(scan.targets[i])' <=> HeadersRead(t)'
    BY <2>0, <2>1 DEF HeadersRead
  <2>7. VersionsRead(scan.targets[i])' <=> VersionsRead(t)'
    BY <2>0, <2>1 DEF VersionsRead
  <2> QED BY <2>4, <2>5, <2>6, <2>7
<1>2. ASSUME NEW c \in left, PassesOver(c), NEW i \in DOMAIN scan.targets
      PROVE  /\ Passed("headers", i)' => HeadersRead(scan.targets[i])'
             /\ Passed("vulnsig", i)' => VersionsRead(scan.targets[i])'
  <2>1. c \in External
    BY <1>2 DEF PassesOver, Unavailable
  <2>2. "headers" # c /\ "vulnsig" # c
    BY <2>1 DEF External
  <2>3. /\ Passed("headers", i)' => Passed("headers", i)
        /\ Passed("vulnsig", i)' => Passed("vulnsig", i)
    BY <1>2, <2>2, PassedOver
  <2>4. scan' = scan /\ collected' = collected
    BY <1>2 DEF PassesOver
  <2> QED BY <2>3, <2>4 DEF DerivedSoFar, HeadersRead, VersionsRead
<1>3. CASE UNCHANGED vars
  BY <1>3 DEF vars, DerivedSoFar, Passed, HeadersRead, VersionsRead, IsNext, Before, Checklist
<1>4. ~UNCHANGED vars => scan' = scan
  BY Steps DEF Runs, PassesOver
<1> QED BY <1>1, <1>2, <1>3, <1>4, Steps DEF DerivedSoFar

-----------------------------------------------------------------------------
(* A scan in which every answer comes                                        *)

\* What check c makes of a target that answers every question.
Makes(c, t, prior) == Check(c, t, prior, {}, FALSE).findings

\* What the later checks of a target are given when no answer is lost.
GivenF1(t) == UNION {Makes(c, t, {}) :
                       c \in {d \in Checklist : ~Unavailable(d)} \cap {"portscan"}}
\* ... with what the second stage makes of that,
GivenF2(t) == GivenF1(t) \cup
                UNION {Makes(c, t, GivenF1(t)) :
                         c \in {d \in Checklist : ~Unavailable(d)} \cap {"banner", "httpprobe"}}
\* ... and with what the headers check makes of that.
Given(t) == GivenF2(t) \cup
              UNION {Makes(c, t, GivenF2(t)) :
                       c \in {d \in Checklist : ~Unavailable(d)} \cap {"headers"}}

\* What check c then finds.
Finds(c, t) == Makes(c, t, Given(t))

\* So far every check has found that of every target it is through with.
Expected(f) == \E c \in Checklist, i \in DOMAIN scan.targets :
                  /\ ~Unavailable(c) /\ Passed(c, i)
                  /\ f \in Finds(c, scan.targets[i])

\* While no answer is lost, that is all that was found.
AsExpected == lost = {} => \A f : f \in collected <=> Expected(f)

\* What a check reads of the earlier findings.
Reads(c) == CASE c \in {"banner", "httpprobe", "tlsaudit"} -> {"open-port"}
              [] c = "headers" -> {"http-service"}
              [] c = "vulnsig" -> Texts
              [] OTHER -> {}

\* The findings of the given kinds about target t.
Heard(t, prior, kinds) == {f \in prior : f.on = t.raw /\ f.kind \in kinds}

\* A check that is told the same reports the same.
LEMMA ReadsOnly ==
    ASSUME NEW c \in AllChecks, NEW t, NEW P, NEW Q, Heard(t, P, Reads(c)) = Heard(t, Q, Reads(c)),
           c = "vulnsig" => \A f \in P \cup Q : f.on = t.raw /\ f.text # {} => f.kind \in Texts,
           NEW L, NEW late
    PROVE  Check(c, t, P, L, late) = Check(c, t, Q, L, late)
<1>1. ASSUME NEW R PROVE KnownOpen(t, R) = {f.port : f \in Heard(t, R, {"open-port"})}
  BY DEF KnownOpen, Heard
<1>2. CASE c \in {"banner", "httpprobe", "tlsaudit"}
  <2>1. KnownOpen(t, P) = KnownOpen(t, Q)
    BY <1>1, <1>2 DEF Reads
  <2>2. /\ Banner(t, P, L, late) = Banner(t, Q, L, late)
        /\ HTTPProbe(t, P, L, late) = HTTPProbe(t, Q, L, late)
        /\ TLSAudit(t, P, L, late) = TLSAudit(t, Q, L, late)
    BY <2>1 DEF Banner, HTTPProbe, Endpoints, TLSAudit, TLSPorts
  <2> QED BY <1>2, <2>2, CheckIs
<1>3. CASE c = "headers"
  <2>1. {f \in P : f.on = t.raw /\ f.kind = "http-service"}
           = {f \in Q : f.on = t.raw /\ f.kind = "http-service"}
    BY <1>3 DEF Heard, Reads
  <2>2. Headers(t, P) = Headers(t, Q)
    BY <2>1 DEF Headers
  <2> QED BY <1>3, <2>2, CheckIs
<1>4. CASE c = "vulnsig"
  <2>1. ASSUME NEW R, \A f \in R : f.on = t.raw /\ f.text # {} => f.kind \in Texts
        PROVE  Software(t, R) = UNION {{<<ProductOf(w[1]), w[2], f.port>> : w \in {v \in f.text : Known(v)}}
                                         : f \in Heard(t, R, Texts)}
    BY <2>1 DEF Software, Heard
  <2>2. Software(t, P) = Software(t, Q)
    BY <1>4, <2>1 DEF Reads
  <2>3. VulnSig(t, P) = VulnSig(t, Q)
    BY <2>2 DEF VulnSig
  <2> QED BY <1>4, <2>3, CheckIs
<1>5. CASE c \in {"subdomain", "portscan", "dnsemail", "secrets"}
  BY <1>5, CheckIs
<1>6. CASE c \in External
  BY <1>6, CheckIsTool
<1> QED BY <1>2, <1>3, <1>4, <1>5, <1>6 DEF AllChecks

\* The same of a check that hears every answer.
LEMMA ReadsWhole ==
    ASSUME NEW c \in AllChecks, NEW t, NEW P, NEW Q, Heard(t, P, Reads(c)) = Heard(t, Q, Reads(c)),
           c = "vulnsig" => \A f \in P \cup Q : f.on = t.raw /\ f.text # {} => f.kind \in Texts
    PROVE  Makes(c, t, P) = Makes(c, t, Q)
<1>1. PICK late : late = FALSE
  OBVIOUS
<1>2. Check(c, t, P, {}, late) = Check(c, t, Q, {}, late)
  BY ReadsOnly
<1> QED BY <1>1, <1>2 DEF Makes

\* What a check is given when no answer is lost is so of the target, and is
\* what the checks it is from find.
LEMMA GivenFacts ==
    ASSUME scan \in Scans, NEW i \in DOMAIN scan.targets, NEW t, t = scan.targets[i]
    PROVE  /\ Told(t, Given(t))
           /\ \A f \in Given(t) : f.kind # "nmap-service" /\ (f.text # {} => f.kind \in Texts)
           /\ Given(t) = UNION {Finds(c, t) :
                                  c \in Checklist \cap {"portscan", "banner", "httpprobe", "headers"}}
<1>0. /\ IsSite(t) /\ (scan.tree # <<>> => scan.tree[1] \in Seq(Files))
      /\ {"portscan", "banner", "httpprobe", "headers"} \subseteq AllChecks
  BY ScanFacts DEF AllChecks
<1> DEFINE Scan == Makes("portscan", t, {})
           Later(c) == Makes(c, t, GivenF1(t))
           Faults == Makes("headers", t, GivenF2(t))
           stage2 == Checklist \cap {"banner", "httpprobe"}
<1>1. /\ GivenF1(t) = IF "portscan" \in Checklist THEN Scan ELSE {}
      /\ GivenF2(t) = GivenF1(t) \cup UNION {Later(c) : c \in stage2}
      /\ Given(t) = GivenF2(t) \cup IF "headers" \in Checklist THEN Faults ELSE {}
  <2>1. \A c \in {"portscan", "banner", "httpprobe", "headers"} : ~Unavailable(c)
    BY DEF Unavailable, External
  <2>2. GivenF1(t) = IF "portscan" \in Checklist THEN Scan ELSE {}
    BY <2>1 DEF GivenF1
  <2>3. GivenF2(t) = GivenF1(t) \cup UNION {Later(c) : c \in stage2}
    BY <2>1 DEF GivenF2
  <2>4. Given(t) = GivenF2(t) \cup IF "headers" \in Checklist THEN Faults ELSE {}
    BY <2>1 DEF Given
  <2> QED BY <2>2, <2>3, <2>4
<1> HIDE DEF Scan, Later, Faults
<1>2. \A f \in Scan : Just("portscan", t, {}, f)
  <2>1. Told(t, {})
    BY DEF Told
  <2> QED BY <1>0, <2>1, CheckReports DEF Reports, Makes, Scan
<1>3. Told(t, GivenF1(t))
  BY <1>1, <1>2, ReadIsSo DEF Told, Just
<1>4. \A c \in stage2 : \A f \in Later(c) : Just(c, t, {}, f)
  BY <1>0, <1>3, CheckReports DEF Reports, Makes, Later
<1>5. \A f \in GivenF2(t) : \E c \in {"portscan", "banner", "httpprobe"} : Just(c, t, {}, f)
  BY <1>1, <1>2, <1>4
<1>6. Told(t, GivenF2(t))
  BY <1>5, ReadIsSo DEF Told, Just
<1>7. \A f \in Faults : Just("headers", t, {}, f)
  BY <1>0, <1>6, CheckReports DEF Reports, Makes, Faults
<1>8. \A f \in Given(t) : \E c \in {"portscan", "banner", "httpprobe", "headers"} : Just(c, t, {}, f)
  BY <1>1, <1>5, <1>7
<1>9. Told(t, Given(t))
  BY <1>8, ReadIsSo DEF Told, Just
<1>10. \A f \in Given(t) : f.kind # "nmap-service" /\ (f.text # {} => f.kind \in Texts)
  BY <1>8, SourceIs DEF Just, Texts
<1>11. Finds("portscan", t) = Scan
  <2>1. Reads("portscan") = {}
    BY DEF Reads
  <2>2. Heard(t, Given(t), Reads("portscan")) = Heard(t, {}, Reads("portscan"))
    BY <2>1 DEF Heard
  <2> QED BY <1>0, <2>2, ReadsWhole DEF Finds, Scan
<1>12. ASSUME NEW c \in stage2 PROVE Finds(c, t) = Later(c)
  <2>1. Reads(c) = {"open-port"}
    BY DEF Reads
  <2>2. ASSUME NEW f \in Given(t), f.kind = "open-port" PROVE f \in GivenF1(t)
    <3>1. ASSUME NEW d \in {"banner", "httpprobe", "headers"} PROVE ~Just(d, t, {}, f)
      BY <2>2, SourceIs DEF Just
    <3> QED BY <1>1, <1>4, <1>7, <3>1
  <2>3. GivenF1(t) \subseteq Given(t)
    BY <1>1
  <2>4. Heard(t, Given(t), Reads(c)) = Heard(t, GivenF1(t), Reads(c))
    BY <2>1, <2>2, <2>3 DEF Heard
  <2> QED BY <1>0, <2>4, ReadsWhole DEF Finds, Later
<1>13. Finds("headers", t) = Faults
  <2>1. Reads("headers") = {"http-service"}
    BY DEF Reads
  <2>2. ASSUME NEW f \in Given(t), f.kind = "http-service" PROVE f \in GivenF2(t)
    <3>1. ~Just("headers", t, {}, f)
      BY <2>2, SourceIs DEF Just, Texts
    <3> QED BY <1>1, <1>7, <3>1
  <2>3. GivenF2(t) \subseteq Given(t)
    BY <1>1
  <2>4. Heard(t, Given(t), Reads("headers")) = Heard(t, GivenF2(t), Reads("headers"))
    BY <2>1, <2>2, <2>3 DEF Heard
  <2> QED BY <1>0, <2>4, ReadsWhole DEF Finds, Faults
<1>14. Given(t) = UNION {Finds(c, t) :
                           c \in Checklist \cap {"portscan", "banner", "httpprobe", "headers"}}
  <2> HIDE DEF Finds
  <2> QED BY <1>1, <1>11, <1>12, <1>13
<1> QED BY <1>9, <1>10, <1>14

\* What a check finds when no answer is lost is just.
LEMMA FindsJust ==
    ASSUME scan \in Scans, NEW i \in DOMAIN scan.targets, NEW c \in Checklist,
           NEW f \in Finds(c, scan.targets[i])
    PROVE  Just(c, scan.targets[i], {}, f)
<1> DEFINE t == scan.targets[i]
<1>1. /\ c \in AllChecks /\ IsSite(t) /\ (scan.tree # <<>> => scan.tree[1] \in Seq(Files))
  BY ScanFacts
<1>2. Told(t, Given(t)) /\ \A g \in Given(t) : g.kind # "nmap-service"
  BY GivenFacts
<1>3. Reports(c, t, Given(t), {}, Check(c, t, Given(t), {}, FALSE))
  BY <1>1, <1>2, CheckReports
<1> QED BY <1>3 DEF Reports, Finds, Makes

\* That depends on the scan alone.
LEMMA FindsStay ==
    ASSUME UNCHANGED scan, NEW c, NEW t
    PROVE  Finds(c, t)' = Finds(c, t)
<1>1. Checklist' = Checklist /\ \A d : Unavailable(d)' <=> Unavailable(d)
  BY ScanStays
<1>2. ASSUME NEW d, NEW P PROVE Makes(d, t, P)' = Makes(d, t, P)
  BY DEF Makes, Check, Secrets
<1>3. GivenF1(t)' = GivenF1(t)
  BY <1>1, <1>2 DEF GivenF1
<1>4. GivenF2(t)' = GivenF2(t)
  BY <1>1, <1>2, <1>3 DEF GivenF2
<1>5. Given(t)' = Given(t)
  BY <1>1, <1>2, <1>4 DEF Given
<1> QED BY <1>2, <1>5 DEF Finds

\* A check is told of its target what it is given when no answer is lost.
LEMMA HeardInFull ==
    ASSUME Order, SourcesListed, AsExpected, lost = {}, NEW c \in left, IsNext(c),
           NEW t, t = scan.targets[turn]
    PROVE  Heard(t, collected, Reads(c)) = Heard(t, Given(t), Reads(c))
<1>0. turn \in DOMAIN scan.targets /\ scan \in Scans
  BY ScanFacts DEF Order
<1>1. Reads(c) \subseteq DOMAIN Source
  BY SourceIs DEF Reads, Texts
<1>2. ASSUME NEW f \in collected, f.on = t.raw, f.kind \in Reads(c) PROVE f \in Given(t)
  <2>1. PICK d \in Checklist, i \in DOMAIN scan.targets :
           ~Unavailable(d) /\ Passed(d, i) /\ f \in Finds(d, scan.targets[i])
    BY <1>2 DEF AsExpected, Expected
  <2>2. Just(d, scan.targets[i], {}, f)
    BY <1>0, <2>1, FindsJust
  <2>3. f.kind # "subdomain" /\ d = Source[f.kind]
    BY <1>1, <1>2, <2>2 DEF Just, Source, Texts, HeaderFaults
  <2>4. i = turn
    BY <1>0, <1>2, <2>2, <2>3, ScanFacts DEF Just, Of
  <2>5. f.kind # "nmap-service"
    BY <1>2 DEF SourcesListed, Reads
  <2>6. d \in {"portscan", "banner", "httpprobe", "headers"}
    BY <1>1, <1>2, <2>3, <2>5, SourceIs DEF Texts
  <2>7. f \in Finds(d, t) /\ d \in Checklist \cap {"portscan", "banner", "httpprobe", "headers"}
    BY <2>1, <2>4, <2>6
  <2>8. Given(t) = UNION {Finds(e, t) :
                            e \in Checklist \cap {"portscan", "banner", "httpprobe", "headers"}}
    BY <1>0, GivenFacts
  <2> QED BY <2>7, <2>8
<1>3. ASSUME NEW f \in Given(t), f.on = t.raw, f.kind \in Reads(c) PROVE f \in collected
  <2>1. PICK d \in Checklist \cap {"portscan", "banner", "httpprobe", "headers"} : f \in Finds(d, t)
    BY <1>0, GivenFacts
  <2>2. d = Source[f.kind]
    BY <1>0, <1>1, <1>3, <2>1, FindsJust DEF Just
  <2>3. Before(d, c)
    <3>0. scan.profile \in DOMAIN Profile
      BY <1>0, ScanFacts
    <3>1. CASE c \in {"banner", "httpprobe", "tlsaudit"}
      BY <1>3, <2>2, <3>0, <3>1, ReadersLater, SourceIs DEF Reads
    <3>2. CASE c = "headers"
      BY <1>3, <2>2, <3>0, <3>2, ReadersLater, SourceIs DEF Reads
    <3>3. CASE c = "vulnsig"
      BY <2>1, <3>0, <3>3, ReadersLater
    <3> QED BY <1>3, <3>1, <3>2, <3>3 DEF Reads
  <2>4. d \notin left
    <3>1. scan.profile \in DOMAIN Profile
      BY <1>0, ScanFacts
    <3>2. d # c /\ ~Before(c, d)
      BY <2>3, <3>1, BeforeOneWay
    <3> QED BY <3>2 DEF IsNext
  <2>5. ~Unavailable(d) /\ Passed(d, turn)
    BY <2>1, <2>4 DEF Unavailable, External, Passed
  <2>6. Expected(f)
    BY <1>0, <2>1, <2>5 DEF Expected
  <2> QED BY <2>6 DEF AsExpected
<1> QED BY <1>2, <1>3 DEF Heard

\* A check stays through with what it is through with.
LEMMA PassedStays ==
    ASSUME Order, NEW c, NEW d, NEW i \in DOMAIN scan.targets
    PROVE  /\ \A L, late : Runs(c, L, late) =>
                (Passed(d, i) \/ (d = c /\ i = turn) => Passed(d, i)')
           /\ PassesOver(c) => (Passed(d, i) => Passed(d, i)')
<1>1. /\ Len(scan.targets) \in Nat \ {0} /\ scan.profile \in DOMAIN Profile
      /\ turn \in 1..Len(scan.targets) /\ i \in 1..Len(scan.targets)
  BY ScanFacts DEF Order
<1>2. UNCHANGED scan => Checklist' = Checklist /\ \A x, y : Before(x, y)' <=> Before(x, y)
  BY ScanStays
<1>3. ASSUME UNCHANGED scan, c \in left, IsNext(c), left' = left \ {c}
      PROVE  Passed(d, i) \/ d = c => Passed(d, i)'
  <2>1. d = c => Passed(d, i)'
    BY <1>2, <1>3 DEF Passed, Order
  <2>2. IsNext(d) => d = c
    BY <1>1, <1>3, OneNext
  <2>3. d \in Checklist /\ d \notin left => Passed(d, i)'
    BY <1>2, <1>3 DEF Passed
  <2> QED BY <2>1, <2>2, <2>3 DEF Passed
<1>4. ASSUME NEW L, NEW late, Runs(c, L, late)
      PROVE  Passed(d, i) \/ (d = c /\ i = turn) => Passed(d, i)'
  <2>1. CASE turn < Len(scan.targets)
    <3>1. turn' = turn + 1 /\ left' = left /\ UNCHANGED scan
      BY <1>4, <2>1 DEF Runs, Onward
    <3>2. \A x : IsNext(x)' <=> IsNext(x)
      BY <1>2, <3>1 DEF IsNext
    <3>3. i = turn \/ i < turn => i < turn'
      BY <1>1, <3>1
    <3>4. c \in Checklist /\ IsNext(c)
      BY <1>4 DEF Runs, Order
    <3> QED BY <1>2, <3>1, <3>2, <3>3, <3>4 DEF Passed
  <2>2. CASE ~(turn < Len(scan.targets))
    BY <1>3, <1>4, <2>2 DEF Runs, Onward
  <2> QED BY <2>1, <2>2
<1>5. PassesOver(c) => (Passed(d, i) => Passed(d, i)')
  BY <1>3 DEF PassesOver
<1> QED BY <1>4, <1>5

\* While no answer is lost, what is found is what was expected.
LEMMA AsExpectedStep ==
    ASSUME Order, SourcesListed, ReportJust, AsExpected, [Next]_vars
    PROVE  AsExpected'
<1>1. ASSUME NEW c \in left, PassesOver(c), lost' = {} PROVE \A f : f \in collected' <=> Expected(f)'
  <2>1. /\ UNCHANGED <<scan, collected, lost>> /\ Unavailable(c)
        /\ Checklist' = Checklist /\ \A d : Unavailable(d)' <=> Unavailable(d)
    BY <1>1, ScanStays DEF PassesOver
  <2>2. \A d, t : Finds(d, t)' = Finds(d, t)
    BY <2>1, FindsStay
  <2>3. \A d : \A i \in DOMAIN scan.targets : ~Unavailable(d) => (Passed(d, i)' <=> Passed(d, i))
    BY <1>1, <2>1, PassedOver, PassedStays
  <2>4. \A f : Expected(f)' <=> Expected(f)
    BY <2>1, <2>2, <2>3 DEF Expected
  <2> QED BY <1>1, <2>1, <2>4 DEF AsExpected
<1>2. ASSUME NEW c \in left, NEW L, NEW late, Runs(c, L, late), lost' = {}
      PROVE  \A f : f \in collected' <=> Expected(f)'
  <2>1. PICK t : t = scan.targets[turn]
    OBVIOUS
  <2>2. /\ UNCHANGED scan /\ L = {} /\ late = FALSE /\ lost = {} /\ turn \in DOMAIN scan.targets
        /\ Checklist' = Checklist /\ \A d : Unavailable(d)' <=> Unavailable(d)
    <3>1. UNCHANGED scan /\ turn \in DOMAIN scan.targets /\ lost = {}
      BY <1>2, RunFinds
    <3>2. L = {} /\ late = FALSE
      BY <1>2, RunFinds DEF Runs
    <3> QED BY <3>1, <3>2, ScanStays
  <2>3. collected' = collected \cup Finds(c, t)
    <3>1. Heard(t, collected, Reads(c)) = Heard(t, Given(t), Reads(c))
      BY <1>2, <2>1, <2>2, HeardInFull DEF Runs
    <3>2. c \in AllChecks
      BY ScanFacts DEF Order
    <3>3. \A f \in collected \cup Given(t) : f.text # {} => f.kind \in Texts
      BY <2>1, <2>2, GivenFacts DEF SourcesListed, Order
    <3>5. Makes(c, t, collected) = Finds(c, t)
      BY <3>1, <3>2, <3>3, ReadsWhole DEF Finds
    <3>4. collected' = collected \cup Makes(c, t, collected)
      BY <1>2, <2>1, <2>2 DEF Runs, Apply, Makes
    <3> QED BY <3>4, <3>5
  <2>4. \A d, u : Finds(d, u)' = Finds(d, u)
    BY <2>2, FindsStay
  <2>5. \A d : \A i \in DOMAIN scan.targets : Passed(d, i)' <=> Passed(d, i) \/ (d = c /\ i = turn)
    BY <1>2, PassedStep, PassedStays
  <2>6. c \in Checklist /\ ~Unavailable(c)
    BY <1>2 DEF Runs, Order
  <2>7. \A f : Expected(f)' <=> Expected(f) \/ f \in Finds(c, t)
    BY <2>1, <2>2, <2>4, <2>5, <2>6 DEF Expected
  <2> QED BY <2>2, <2>3, <2>7 DEF AsExpected
<1>3. ASSUME UNCHANGED vars, lost' = {} PROVE \A f : f \in collected' <=> Expected(f)'
  <2>1. /\ UNCHANGED <<scan, left, turn, collected, lost>>
        /\ Checklist' = Checklist /\ (\A d : Unavailable(d)' <=> Unavailable(d))
        /\ \A d, e : Before(d, e)' <=> Before(d, e)
    BY <1>3, ScanStays DEF vars
  <2>2. \A d, t : Finds(d, t)' = Finds(d, t)
    BY <2>1, FindsStay
  <2>3. \A d, i : Passed(d, i)' <=> Passed(d, i)
    BY <2>1 DEF Passed, IsNext
  <2>4. \A f : Expected(f)' <=> Expected(f)
    BY <2>1, <2>2, <2>3 DEF Expected
  <2> QED BY <1>3, <2>1, <2>4 DEF AsExpected
<1> QED BY <1>1, <1>2, <1>3, Steps DEF AsExpected

\* At the end that is what each target alone would have given.
LEMMA AsExpectedEnds ==
    ASSUME Order, AsExpected
    PROVE  NothingOverlooked
<1> SUFFICES ASSUME Done, lost = {}
             PROVE  collected = UNION {Alone(t) : t \in Targets}
  BY DEF NothingOverlooked
<1>1. \A c \in Checklist : \A i \in DOMAIN scan.targets : Passed(c, i)
  BY DEF Passed, Done
<1>2. \A f : f \in collected <=> \E c \in Checklist, i \in DOMAIN scan.targets :
                                    ~Unavailable(c) /\ f \in Finds(c, scan.targets[i])
  BY <1>1 DEF AsExpected, Expected
<1>3. ASSUME NEW i \in DOMAIN scan.targets
      PROVE  Alone(scan.targets[i])
               = UNION {Finds(c, scan.targets[i]) : c \in {d \in Checklist : ~Unavailable(d)}}
  <2>1. PICK t : t = scan.targets[i]
    OBVIOUS
  <2>2. Alone(t) = Given(t) \cup UNION {Finds(c, t) : c \in {d \in Checklist : ~Unavailable(d)}}
    BY DEF Alone, Given, GivenF2, GivenF1, Finds, Makes
  <2>3. Given(t) = UNION {Finds(c, t) :
                            c \in Checklist \cap {"portscan", "banner", "httpprobe", "headers"}}
    BY <2>1, GivenFacts DEF Order
  <2>4. \A c \in {"portscan", "banner", "httpprobe", "headers"} : ~Unavailable(c)
    BY DEF Unavailable, External
  <2> QED BY <2>1, <2>2, <2>3, <2>4
<1>4. \A f : f \in UNION {Alone(t) : t \in Targets} <=>
               \E i \in DOMAIN scan.targets : f \in Alone(scan.targets[i])
  BY DEF Targets
<1>5. \A f : (\E i \in DOMAIN scan.targets : f \in Alone(scan.targets[i])) <=>
               \E c \in Checklist, i \in DOMAIN scan.targets :
                  ~Unavailable(c) /\ f \in Finds(c, scan.targets[i])
  BY <1>3
<1>6. \A f : f \in collected <=> f \in UNION {Alone(t) : t \in Targets}
  BY <1>2, <1>4, <1>5
<1> QED BY <1>6

-----------------------------------------------------------------------------
(* The theorems                                                              *)

\* The invariant holds at first,
LEMMA InvInit == Init => ChecksInv
<1> SUFFICES ASSUME Init PROVE ChecksInv
  OBVIOUS
<1>1. Order
  BY ScanFacts DEF Init, Order, ChecksInOrder, TurnTaken
<1>2. RecordsKept
  <2>1. records \in Seq({}) /\ DOMAIN records = {}
    BY DEF Init
  <2>2. \A c : RecordsOf(c) = {}
    BY <2>1 DEF RecordsOf
  <2>3. RecordsCounted
    <3>1. IsFiniteSet({}) /\ Cardinality({}) = 0
      BY FS_EmptySet
    <3>2. left = Checklist /\ turn - 1 = 0
      BY DEF Init
    <3> QED BY <2>2, <3>1, <3>2 DEF RecordsCounted
  <2>4. SilenceIsExplained
    BY <2>1 DEF SilenceIsExplained
  <2> QED BY <2>1, <2>3, <2>4 DEF RecordsKept
<1>3. SourcesListed /\ ReportJust /\ DerivedSoFar
  BY DEF Init, SourcesListed, ReportJust, DerivedSoFar, HeadersRead, VersionsRead
<1> QED BY <1>1, <1>2, <1>3 DEF ChecksInv

\* is kept by every step,
LEMMA InvStep == ChecksInv /\ [Next]_vars => ChecksInv'
  BY OrderStep, RecordsKeptStep, SourcesListedStep, ReportJustStep, DerivedStep DEF ChecksInv

\* and so always holds.
LEMMA InvHolds == Spec => []ChecksInv
<1> QED BY InvInit, InvStep, PTL DEF Spec

\* It has the types in it,
LEMMA InvTypes == ChecksInv => TypeOK
  BY DEF ChecksInv, Order, RecordsKept, RecordsCounted, RecordsOf, SourcesListed, Sound, TypeOK

\* and, at the end, that nothing seen was left unread.
LEMMA InvDerived == ChecksInv => DerivedWhole
<1> SUFFICES ASSUME ChecksInv, Done, NEW t \in Targets, NEW f \in collected, f.on = t.raw
             PROVE  /\ f.kind = "http-service" =>
                          \A w \in {v \in f.saw : Counts(v, f.port)} :
                              \E g \in collected : /\ g.on = t.raw /\ g.port = f.port
                                                   /\ g.kind = w[1] /\ g.text = w[2]
                    /\ f.kind # "nmap-service" =>
                          \A w \in {v \in f.text : Known(v)} :
                              \E g \in collected : /\ g.on = t.raw /\ g.port = f.port
                                                   /\ g.kind \in {"vulnsig", "version-observed"}
                                                   /\ g.saw = {<<ProductOf(w[1]), w[2]>>}
  BY DEF DerivedWhole
<1>1. PICK i \in DOMAIN scan.targets : t = scan.targets[i]
  BY DEF Targets
<1>2. scan.profile \in DOMAIN Profile
  BY ScanFacts DEF ChecksInv, Order
<1>3. /\ f.kind = "http-service" => "headers" \in Checklist
      /\ f.kind # "nmap-service" /\ f.text # {} => "vulnsig" \in Checklist
  <2>1. f.kind \in DOMAIN Source => Source[f.kind] \in Checklist
    BY DEF ChecksInv, SourcesListed
  <2>2. f.text # {} => f.kind \in Texts
    BY DEF ChecksInv, SourcesListed
  <2> QED BY <1>2, <2>1, <2>2, ListedReaders, SourceIs DEF Texts
<1>4. \A c \in Checklist : Passed(c, i)
  BY DEF Passed, Done
<1>5. /\ f.kind = "http-service" => HeadersRead(t)
      /\ f.kind # "nmap-service" /\ f.text # {} => VersionsRead(t)
  BY <1>1, <1>3, <1>4 DEF ChecksInv, DerivedSoFar
<1> QED BY <1>5 DEF HeadersRead, VersionsRead

\* TypeOK: every finding is one that Validate lets through, and every check has
\* a record for each target, or one for all.
THEOREM ChecksTypeCorrect == Spec => []TypeOK
<1> QED BY InvHolds, InvTypes, PTL

\* ReportJust: what is reported of a target is so of it, but for the versions that
\* were read off something else, the chains that were refused for another reason,
\* and what was taken for missing when the answer was lost.
THEOREM ReportsAreJust == Spec => []ReportJust
<1>1. ChecksInv => ReportJust
  BY DEF ChecksInv
<1> QED BY <1>1, InvHolds, PTL

\* SilenceIsExplained: a check that found nothing says why.
THEOREM SilenceAlwaysExplained == Spec => []SilenceIsExplained
<1>1. ChecksInv => SilenceIsExplained
  BY DEF ChecksInv, RecordsKept
<1> QED BY <1>1, InvHolds, PTL

\* DerivedWhole: of all that was seen something is made.
THEOREM DerivedIsWhole == Spec => []DerivedWhole
<1> QED BY InvHolds, InvDerived, PTL

\* At first nothing is expected, and nothing found.
LEMMA ExpectedInit == Init => AsExpected
<1> SUFFICES ASSUME Init, NEW c \in Checklist, NEW i \in DOMAIN scan.targets
             PROVE  ~Passed(c, i)
  BY DEF Init, AsExpected, Expected
<1>1. c \in left /\ turn = 1
  BY DEF Init
<1>2. i \in Nat /\ i >= 1
  BY ScanFacts DEF Init
<1> QED BY <1>1, <1>2 DEF Passed

\* NothingOverlooked: a scan in which no answer is lost finds of each target what
\* it would find of it alone.
THEOREM NothingIsOverlooked == Spec => []NothingOverlooked
<1>1. Init => AsExpected
  BY ExpectedInit
<1>2. ChecksInv /\ AsExpected /\ [Next]_vars => AsExpected'
  BY AsExpectedStep DEF ChecksInv
<1>3. ChecksInv /\ AsExpected => NothingOverlooked
  BY AsExpectedEnds DEF ChecksInv
<1> QED BY <1>1, <1>2, <1>3, InvHolds, PTL DEF Spec
=============================================================================

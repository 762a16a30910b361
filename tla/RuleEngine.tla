----------------------------- MODULE RuleEngine -----------------------------
(***************************************************************************)
(* The rule engine (src/rule_engine.c): the rules it loads, how a rule is  *)
(* matched against an HTTP transaction, a DNS question or a TLS            *)
(* connection, and the bounded list of alerts.                             *)
(*                                                                         *)
(* A text (a URI, a name, a JA3 hash) is the set of the rules' conditions  *)
(* that it meets: that is all check_condition, string_contains and         *)
(* strcasestr tell the rules about it.  A rule is [id, proto, severity,    *)
(* check, qtype, conds]: what it looks at, the type of query it is limited *)
(* to (0 for any) and its list of conditions.                              *)
(***************************************************************************)
EXTENDS Integers, SequencesExt

CONSTANTS
    Builtin,       \* the rules, in the order in which they are loaded
    MAX_ALERTS,    \* engine->max_alerts
    Severities,
    NoText         \* a null pointer to a text

IsRule(r) ==
    /\ r = [id |-> r.id, proto |-> r.proto, severity |-> r.severity, check |-> r.check,
            qtype |-> r.qtype, conds |-> r.conds]
    /\ r.severity \in Severities

ASSUME RuleAssumption ==
    /\ MAX_ALERTS \in Nat \ {0}
    /\ IsFiniteSet(Severities) /\ "HIGH" \in Severities
    /\ Builtin \in Seq(Range(Builtin)) /\ \A r \in Range(Builtin) : IsRule(r)

Rule(id, proto, severity, check, conds) ==
    [id |-> id, proto |-> proto, severity |-> severity, check |-> check, qtype |-> 0,
     conds |-> conds]

(***************************************************************************)
(* The built-in rules, in the order in which they are loaded.  Lengths and *)
(* entropy are conditions like the patterns; a JA3 rule has its hash.      *)
(***************************************************************************)
HttpRules ==
    <<Rule(1001, "HTTP", "HIGH", "uri", <<"union", "select">>),
      Rule(1002, "HTTP", "HIGH", "uri", <<"--">>),
      Rule(1003, "HTTP", "MEDIUM", "uri", <<"<script">>),
      Rule(1004, "HTTP", "HIGH", "uri", <<"../">>),
      Rule(1005, "HTTP", "CRITICAL", "uri", <<";", "bash">>)>>

TXT == 16
DnsRules ==
    <<Rule(2001, "DNS", "MEDIUM", "query", <<"entropy 4.0", "length 20">>),
      Rule(2002, "DNS", "LOW", "query", <<".tk">>),
      [Rule(2003, "DNS", "MEDIUM", "query", <<"length 50">>) EXCEPT !.qtype = TXT],
      Rule(2004, "DNS", "LOW", "query", <<"length 80">>)>>

TlsRules ==
    <<Rule(3001, "TLS", "MEDIUM", "cipher", << >>),
      Rule(3002, "TLS", "HIGH", "version", << >>),
      Rule(3003, "TLS", "MEDIUM", "cert", << >>),
      Rule(3004, "TLS", "MEDIUM", "sni", <<".tk", ".cc">>),
      Rule(3005, "TLS", "CRITICAL", "ja3", <<"a0e9f5d6">>),
      Rule(3006, "TLS", "CRITICAL", "ja3", <<"72a589da">>),
      Rule(3007, "TLS", "CRITICAL", "ja3", <<"6734f374">>)>>

BuiltinRules == HttpRules \o DnsRules \o TlsRules

(***************************************************************************)
(* Loading.  lost is the set of allocations that fail: <<id, 0>> for the   *)
(* rule itself, which is then missing, <<id, k>> for condition k, which    *)
(* ends the list of conditions there.  Rules are added at the front.       *)
(***************************************************************************)
Allocations == UNION {{<<Builtin[i].id, k>> : k \in 0 .. Len(Builtin[i].conds)}
                        : i \in DOMAIN Builtin}

LoadConditions(rule, lost) ==
    LET first == SelectInSeq([k \in 1 .. Len(rule.conds) |-> k],
                             LAMBDA k : <<rule.id, k>> \in lost)
    IN  IF first = 0 THEN rule ELSE [rule EXCEPT !.conds = SubSeq(@, 1, first - 1)]

LoadBuiltinRules(lost) ==
    LET loaded[k \in 0 .. Len(Builtin)] ==
          IF k = 0 THEN << >>
          ELSE IF <<Builtin[k].id, 0>> \in lost THEN loaded[k - 1]
          ELSE <<LoadConditions(Builtin[k], lost)>> \o loaded[k - 1]
    IN  loaded[Len(Builtin)]

\* rule_engine_init and rule_engine_load_builtin_rules
NewEngine(lost) ==
    [rules |-> LoadBuiltinRules(lost), alerts |-> << >>, alert_count |-> 0,
     alert_id_counter |-> 0, generated |-> 0,
     by_severity |-> [s \in Severities |-> 0]]

(***************************************************************************)
(* create_alert: at the front of the list; when there are too many the     *)
(* last one of the list is freed, unless it is the only one.               *)
(***************************************************************************)
LimitAlerts_mut(engine) == engine
LimitAlerts(engine) ==
    IF engine.alert_count > MAX_ALERTS /\ Len(engine.alerts) > 1
    THEN [engine EXCEPT !.alerts = Front(@), !.alert_count = @ - 1]
    ELSE engine

CreateAlert(engine, rule, flow, text) ==
    LET id == engine.alert_id_counter + 1
        added == [engine EXCEPT
                     !.alert_id_counter = id,
                     !.alerts = <<[id |-> id, rule |-> rule.id, flow |-> flow,
                                   text |-> text]>> \o @,
                     !.alert_count = @ + 1]
    IN  [LimitAlerts(added) EXCEPT
            !.generated = @ + 1,
            !.by_severity[rule.severity] = @ + 1]

(***************************************************************************)
(* Matching                                                                *)
(***************************************************************************)
\* all conditions of the rule
AllMatch(rule, text) == \A k \in DOMAIN rule.conds : rule.conds[k] \in text

\* check_http_rule: true unless a condition fails on a URI that is there
CheckHttpRule(rule, uri) == uri = NoText \/ AllMatch(rule, uri)

\* check_dns_rule
CheckDnsRule(rule, qname, qtype) ==
    qname = NoText \/ (rule.qtype \in {0, qtype} /\ AllMatch(rule, qname))

\* check_tls_rule: one condition on the server name is enough
CheckTlsRule(rule, conn, nohello) ==
    \/ /\ rule.check \in {"sni", "ja3"} /\ conn.client_hello # nohello
       /\ \E k \in DOMAIN rule.conds : rule.conds[k] \in conn.client_hello.words
    \/ rule.check = "cipher" /\ conn.weak_cipher
    \/ rule.check = "version" /\ conn.version_downgrade
    \/ rule.check = "cert" /\ (conn.expired_cert \/ conn.self_signed_cert)

\* the loop of rule_engine_inspect_http, _dns and _tls: an alert for each
\* rule that matches, in the order of the rules
RaiseAlerts(engine, matched, flow, text) ==
    LET after[k \in 0 .. Len(engine.rules)] ==
          IF k = 0 THEN engine
          ELSE IF engine.rules[k] \in matched
          THEN CreateAlert(after[k - 1], engine.rules[k], flow, text)
          ELSE after[k - 1]
    IN  after[Len(engine.rules)]

InspectHttp(engine, flow, uri) ==
    RaiseAlerts(engine, {r \in Range(engine.rules) : r.proto = "HTTP" /\ CheckHttpRule(r, uri)},
                flow, uri)
InspectDns(engine, flow, qname, qtype) ==
    RaiseAlerts(engine, {r \in Range(engine.rules) :
                            r.proto = "DNS" /\ CheckDnsRule(r, qname, qtype)}, flow, qname)
InspectTls(engine, flow, conn, nohello) ==
    RaiseAlerts(engine, {r \in Range(engine.rules) :
                            r.proto = "TLS" /\ CheckTlsRule(r, conn, nohello)}, flow, NoText)
=============================================================================

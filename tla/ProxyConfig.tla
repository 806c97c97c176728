----------------------------- MODULE ProxyConfig -----------------------------
(***************************************************************************)
(* The configuration of one proxy (pkg/config/proxy.go): a section of      *)
(* frpc.ini is loaded and checked by frpc, compared with what runs on a    *)
(* reload, marshalled into NewProxy, and unmarshalled and checked by frps. *)
(* That of a visitor (pkg/config/visitor.go) stays in frpc.                *)
(*                                                                         *)
(* A configuration is a function from the fields of its type to values.    *)
(* What differs between the types is a table of them: its own fields and   *)
(* those that Compare, MarshalToMsg and UnmarshalFromMsg treat, and what   *)
(* CheckForCli and CheckForSvr add to the checks that all types have.      *)
(*                                                                         *)
(* Abstractions.  A value is one of a few, listed in Values.  A text with  *)
(* inner structure, a domain, is a sequence of symbols.  The keys of the   *)
(* local service, and those of metas, headers and plugin parameters, are   *)
(* one field each, but for those a check looks at.                         *)
(***************************************************************************)
EXTENDS Integers, Sequences, FiniteSets

CONSTANTS
  Domains,        \* texts an operator may write as custom domain
  Subdomains,     \* texts an operator may write as subdomain, <<>> for none
  Hosts,          \* values of subdomain_host of frps, <<>> for none
  MaxEdits        \* bound on the edits of the section

Types == {"tcp", "tcpmux", "udp", "http", "https", "stcp", "xtcp", "sudp"}
Visitors == {"stcp visitor", "xtcp visitor", "sudp visitor"}
Domain == {"custom_domains", "subdomain"}
Secret == {"role", "sk"}

(***************************************************************************)
(* The fields of a type, and which of them its methods treat.              *)
(***************************************************************************)
Base ==
  {"use_encryption", "use_compression", "group", "group_key", "proxy_protocol_version",
   "bandwidth_limit", "metas", "local_ip", "local_port", "plugin",
   "health_check_type", "health_check_url"}

BaseCompare == Base
BaseMarshal == {"use_encryption", "use_compression", "group", "group_key", "metas"}
BaseUnmarshal == {"use_encryption", "use_compression", "group", "group_key", "metas"}

VisitorBase ==
  {"use_encryption", "use_compression", "role", "sk", "server_name", "bind_addr", "bind_port"}
VisitorCompare == VisitorBase

\* The last two are the checks that the type adds in frpc and in frps.
Table(own, compare, marshal, unmarshal, cli, svr) ==
  [own |-> own, compare |-> compare, marshal |-> marshal, unmarshal |-> unmarshal,
   cli |-> cli, svr |-> svr]
Whole(own, cli, svr) == Table(own, own, own, own, cli, svr)

TCPConf == Whole({"remote_port"}, {}, {})

TCPMuxOwn == Domain \union {"multiplexer"}

\* Faulty variant: Compare does not look at the multiplexer, nor at the domains.
TCPMuxConfForgets ==
  Table(TCPMuxOwn, {}, TCPMuxOwn, TCPMuxOwn, {"domain", "httpconnect"},
        {"domain", "httpconnect", "muxPort"})

TCPMuxConf ==
  Whole(TCPMuxOwn, {"domain", "httpconnect"}, {"domain", "httpconnect", "muxPort"})

UDPConf == Whole({"remote_port"}, {}, {})

HTTPOwn ==
  Domain \union {"locations", "http_user", "http_pwd", "host_header_rewrite", "headers"}

\* Faulty variant: the password stays in frpc.
HTTPConfForgets ==
  Table(HTTPOwn, HTTPOwn, HTTPOwn \ {"http_pwd"}, HTTPOwn, {"domain"}, {"domain", "httpPort"})

HTTPConf == Whole(HTTPOwn, {"domain"}, {"domain", "httpPort"})
HTTPSConf == Whole(Domain, {"domain"}, {"domain", "httpsPort"})
SUDPConf == Table(Secret, Secret, {"sk"}, {"sk"}, {"role"}, {})
STCPConf == Table(Secret, Secret, {"sk"}, {"sk"}, {"role"}, {})
XTCPConf == Table(Secret, Secret, {"sk"}, {"sk"}, {"role"}, {})

\* The visitors add nothing to what all visitors have.
VisitorConf == Table({}, {}, {}, {}, {}, {})
SUDPVisitorConf == VisitorConf
STCPVisitorConf == VisitorConf
XTCPVisitorConf == VisitorConf

TypeConf(t) ==
  CASE t = "tcp" -> TCPConf [] t = "tcpmux" -> TCPMuxConf [] t = "udp" -> UDPConf
    [] t = "http" -> HTTPConf [] t = "https" -> HTTPSConf [] t = "sudp" -> SUDPConf
    [] t = "stcp" -> STCPConf [] t = "xtcp" -> XTCPConf
    [] t = "sudp visitor" -> SUDPVisitorConf [] t = "stcp visitor" -> STCPVisitorConf
    [] t = "xtcp visitor" -> XTCPVisitorConf

Fields(t) == (IF t \in Visitors THEN VisitorBase ELSE Base) \union TypeConf(t).own

(***************************************************************************)
(* Values.                                                                 *)
(***************************************************************************)
\* What an operator may write for a field.  MapTo leaves the default for "", 0 and absent keys.
Values(f) ==
  CASE f = "proxy_protocol_version" -> {"", "v1", "v2", "v3"}
    [] f = "bandwidth_limit" -> {"", "1MB", "1024KB", "2KB", "1GB"}
    [] f = "local_ip" -> {"127.0.0.1", "127.0.0.2"}
    [] f \in {"local_port", "remote_port", "bind_port"} -> {-1, 0, 1, 2}
    [] f = "health_check_type" -> {"", "tcp", "http", "icmp"}
    [] f = "multiplexer" -> {"", "httpconnect"}
    [] f = "role" -> {"server", "visitor"}
    [] f = "custom_domains" -> {{}} \union {{d} : d \in Domains}
    [] f = "subdomain" -> Subdomains
    [] OTHER -> {"", "x"}

\* DefaultProxyConf and defaultBaseProxyConf; a visitor has no role until MapTo.
Default(t) ==
  [f \in Fields(t) |->
     CASE f = "local_ip" -> "127.0.0.1" [] f = "role" /\ t \notin Visitors -> "server"
       [] f \in {"local_port", "remote_port", "bind_port"} -> 0
       [] f = "custom_domains" -> {} [] f = "subdomain" -> <<>>
       [] OTHER -> ""]

\* NewBandwidthQuantity: bytes, or -1 for an error.
Bytes(s) ==
  CASE s = "" -> 0 [] s = "2KB" -> 2048 [] s \in {"1MB", "1024KB"} -> 1024 * 1024 [] OTHER -> -1

\* decorate: bytes for the limit, and the address that health checks go to.
Decorated(c) ==
  [c EXCEPT !["bandwidth_limit"] = Bytes(@),
            !["health_check_url"] =
               IF c["plugin"] = "" /\ (c["health_check_type"] = "tcp"
                                       \/ (c["health_check_type"] = "http" /\ @ # ""))
               THEN <<c["local_ip"], c["local_port"], @>> ELSE <<@>>]

\* unmarshalFromIni of a visitor; the prefix of the names is the same in every reload.
VisitorDecorated(c) == [c EXCEPT !["bind_addr"] = IF @ = "" THEN "127.0.0.1" ELSE @]

(***************************************************************************)
(* Checks of frpc.                                                         *)
(***************************************************************************)
LocalCheckForCli(c) == c["plugin"] = "" => c["local_ip"] # "" /\ c["local_port"] > 0

HealthCheckForCli(c) ==
  /\ c["health_check_type"] \in {"", "tcp", "http"}
  /\ c["health_check_type"] = "http" => c["health_check_url"] # <<"">>

BaseCheckForCli(c) ==
  /\ c["proxy_protocol_version"] \in {"", "v1", "v2"}
  /\ LocalCheckForCli(c) /\ HealthCheckForCli(c)

VisitorCheck(c) == c["role"] = "visitor" /\ c["bind_addr"] # "" /\ c["bind_port"] > 0

DomainCheck(c) == c["custom_domains"] # {} \/ c["subdomain"] # <<>>

CheckForCli(t, c) ==
  LET checks == TypeConf(t).cli
  IN /\ BaseCheckForCli(c)
     /\ "domain" \in checks => DomainCheck(c)
     /\ "httpconnect" \in checks => c["multiplexer"] = "httpconnect"
     /\ "role" \in checks => c["role"] = "server"

\* The configuration, or an error.
Error == [error |-> TRUE]

NewVisitorConfFromIni(section) ==
  LET c == VisitorDecorated(section) IN IF VisitorCheck(c) THEN c ELSE Error

NewProxyConfFromIni(t, section) ==
  LET c == Decorated(section)
  IN IF c["bandwidth_limit"] >= 0 /\ CheckForCli(t, c) THEN c ELSE Error

\* LoadAllProxyConfsFromIni calls one of the two.
FromIni(t, section) ==
  IF t \in Visitors THEN NewVisitorConfFromIni(section) ELSE NewProxyConfFromIni(t, section)

\* Compare of the type.
Compare(t, c, d) ==
  \A f \in (IF t \in Visitors THEN VisitorCompare ELSE BaseCompare) \union TypeConf(t).compare :
    c[f] = d[f]

(***************************************************************************)
(* NewProxy, and the checks of frps.                                       *)
(***************************************************************************)
MarshalToMsg(t, c) == [f \in BaseMarshal \union TypeConf(t).marshal |-> c[f]]

UnmarshalFromMsg(t, m) ==
  [f \in Fields(t) |->
     IF f \in (BaseUnmarshal \union TypeConf(t).unmarshal) \intersect DOMAIN m THEN m[f]
     ELSE Default(t)[f]]

Labels(d) == Cardinality({i \in DOMAIN d : d[i] = "."}) + 1
Contains(d, s) == \E i \in 0..(Len(d) - Len(s)) : SubSeq(d, i + 1, i + Len(s)) = s

DomainCheckForSvr(c, host) ==
  /\ DomainCheck(c)
  /\ \A d \in c["custom_domains"] :
       ~(host # <<>> /\ Labels(host) < Labels(d) /\ Contains(d, host))
  /\ c["subdomain"] # <<>> =>
       host # <<>> /\ ~Contains(c["subdomain"], <<".">>) /\ ~Contains(c["subdomain"], <<"*">>)

CheckForSvr(t, c, s) ==
  LET checks == TypeConf(t).svr
  IN /\ "httpPort" \in checks => s.httpPort
     /\ "httpsPort" \in checks => s.httpsPort
     /\ "httpconnect" \in checks => c["multiplexer"] = "httpconnect"
     /\ "muxPort" \in checks => s.muxPort
     /\ "domain" \in checks => DomainCheckForSvr(c, s.host)

NewProxyConfFromMsg(t, m, s) ==
  LET c == UnmarshalFromMsg(t, m) IN IF CheckForSvr(t, c, s) THEN c ELSE Error

(***************************************************************************)
(* An operator edits the section and reloads.                              *)
(***************************************************************************)
VARIABLES
  type,      \* type of the proxy
  server,    \* the part of the configuration of frps that the checks look at
  section,   \* the section in the file
  edits,     \* number of edits
  loaded,    \* the file was not edited since the last reload
  running,   \* the configuration of the wrapper in frpc, Error before the first
  remote     \* the one of the proxy in frps, Error when it was refused

vars == <<type, server, section, edits, loaded, running, remote>>

Init ==
  /\ type \in Types \union Visitors
  /\ server \in [httpPort : BOOLEAN, httpsPort : BOOLEAN, muxPort : {TRUE}, host : Hosts]
  /\ section = IF type \in Visitors THEN [Default(type) EXCEPT !["role"] = "visitor", !["bind_port"] = 1]
               ELSE [Default(type) EXCEPT !["local_port"] = 1]
  /\ edits = 0 /\ loaded = FALSE /\ running = Error /\ remote = Error

Edit(f, v) ==
  /\ edits < MaxEdits /\ v # section[f]
  /\ section' = [section EXCEPT ![f] = v]
  /\ edits' = edits + 1 /\ loaded' = FALSE
  /\ UNCHANGED <<type, server, running, remote>>

\* The reload of the admin API: an error leaves what runs; Manager.Reload replaces a proxy
\* whose configuration differs, which is then registered anew.  The manager of visitors
\* does the same.
Reload ==
  LET c == FromIni(type, section)
  IN /\ ~loaded /\ loaded' = TRUE
     /\ IF c = Error \/ (running # Error /\ Compare(type, running, c))
        THEN UNCHANGED <<running, remote>>
        ELSE /\ running' = c
             /\ remote' = IF type \in Visitors THEN Error
                          ELSE NewProxyConfFromMsg(type, MarshalToMsg(type, c), server)
     /\ UNCHANGED <<type, server, section, edits>>

Next == Reload \/ \E f \in Fields(type) : \E v \in Values(f) : Edit(f, v)

Spec == Init /\ [][Next]_vars

(***************************************************************************)
(* Properties.                                                             *)
(***************************************************************************)
\* What frpc runs after a reload of a valid file is what the file says, in every field of the
\* type: no Compare misses a change (pkg/config/proxy.go:326, 507-1018, visitor.go:107).
ReloadRunsTheFile ==
  loaded /\ FromIni(type, section) # Error => running = FromIni(type, section)

\* The fields that the proxies of frps read (server/proxy, server/control.go).
ServerUses(t) ==
  {"use_encryption", "use_compression", "group", "group_key", "metas"} \union
  (TypeConf(t).own \ {"role"})

\* A proxy that frps accepted has the values that frpc runs with, in all fields frps uses:
\* none is lost between MarshalToMsg and UnmarshalFromMsg.
BothSidesAgree ==
  remote # Error => \A f \in ServerUses(type) : remote[f] = running[f]
=============================================================================

------------------------------- MODULE Tables -------------------------------
(***************************************************************************)
(* Three modules about data rather than goroutines, checked in one run:    *)
(* `part` says which of them a behaviour is of, and never changes.  The    *)
(* variables of the other two stay as they are here.                       *)
(***************************************************************************)
EXTENDS Naturals, Sequences

CONSTANTS
  SectionDomains, Subdomains, SubdomainHosts, MaxSectionEdits,   \* of ProxyConfig
  Files, Rows, MaxFileEdits,                                     \* of ConfigFile
  Domains, Locations, Hosts, Paths, MaxRoutes                    \* of VhostRouter

VARIABLES
  part,
  type, server, section, sectionEdits, proxyLoaded, running, remote,
  file, editor, fileEdits, loaded, loadedOf,
  table, routes

proxyVars == <<type, server, section, sectionEdits, proxyLoaded, running, remote>>
fileVars == <<file, editor, fileEdits, loaded, loadedOf>>
routeVars == <<table, routes>>
vars == <<part, proxyVars, fileVars, routeVars>>

Proxy == INSTANCE ProxyConfig WITH
  Domains <- SectionDomains, Hosts <- SubdomainHosts,
  MaxEdits <- MaxSectionEdits, edits <- sectionEdits, loaded <- proxyLoaded

File == INSTANCE ConfigFile WITH MaxEdits <- MaxFileEdits, edits <- fileEdits

Router == INSTANCE VhostRouter

ASSUME RouterTexts == Router!Texts

ASSUME FileTexts == File!Texts

NoProxy ==
  /\ type = 0 /\ server = 0 /\ section = 0 /\ sectionEdits = 0
  /\ proxyLoaded = 0 /\ running = 0 /\ remote = 0
NoFile ==
  /\ file = 0 /\ editor = 0 /\ fileEdits = 0
  /\ loaded = 0 /\ loadedOf = 0
NoRouter == table = 0 /\ routes = 0

Init ==
  \/ part = "proxy" /\ Proxy!Init /\ NoFile /\ NoRouter
  \/ part = "file" /\ NoProxy /\ File!Init /\ NoRouter
  \/ part = "router" /\ NoProxy /\ NoFile /\ Router!Init

Next ==
  \/ part = "proxy" /\ Proxy!Next /\ UNCHANGED <<part, fileVars, routeVars>>
  \/ part = "file" /\ File!Next /\ UNCHANGED <<part, proxyVars, routeVars>>
  \/ part = "router" /\ Router!Next /\ UNCHANGED <<part, proxyVars, fileVars>>

Spec == Init /\ [][Next]_vars

\* A reload runs what the section says: no Compare misses a change
\* (pkg/config/proxy.go:326, 507-1018, visitor.go:107).
ReloadRunsTheFile == part = "proxy" => Proxy!ReloadRunsTheFile

\* frps and frpc have the same values in what frps uses: nothing is lost between MarshalToMsg
\* and UnmarshalFromMsg (pkg/config/proxy.go).
BothSidesAgree == part = "proxy" => Proxy!BothSidesAgree

\* Ranges and sections are loaded as they are written (ConfigFile).
LoadedAsWritten == part = "file" => File!LoadedAsWritten

\* The most specific route answers (router.go:52, vhost.go:100-127, http.go:164-191).
AnswersMostSpecific == part = "router" => Router!AnswersMostSpecific
=============================================================================

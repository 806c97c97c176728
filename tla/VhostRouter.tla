---------------------------- MODULE VhostRouter ----------------------------
(***************************************************************************)
(* The table of virtual hosts: Routers (pkg/util/vhost/router.go) and the  *)
(* look-ups made in it by Muxer (vhost.go) and HTTPReverseProxy (http.go). *)
(* A table maps a domain to a list of routers kept in reverse order of     *)
(* their locations, so that the first location that is a prefix of the     *)
(* path is the longest one.  A domain is the sequence of its labels, a     *)
(* location or a path the sequence of its bytes.                           *)
(***************************************************************************)
EXTENDS Naturals, Sequences, SequencesExt, FiniteSets

NotFound == [domain |-> <<>>, location |-> <<>>, found |-> FALSE]
Route(domain, location) == [domain |-> domain, location |-> location, found |-> TRUE]

\* strings.Compare(a, b) < 0, the order of ByLocation.
Before(a, b) ==
  \/ IsStrictPrefix(a, b)
  \/ \E i \in DOMAIN a \intersect DOMAIN b :
       a[i] < b[i] /\ \A j \in 1..(i - 1) : a[j] = b[j]

\* RouterByDomain: domains without an entry have no routers.
Routers(table, domain) == IF domain \in DOMAIN table THEN table[domain] ELSE <<>>

\* Routers.exist compares whole locations.
Exist(table, domain, location) ==
  \E i \in DOMAIN Routers(table, domain) : Routers(table, domain)[i].location = location

Entry(table, domain, list) ==
  [d \in DOMAIN table \union {domain} |-> IF d = domain THEN list ELSE table[d]]

\* sort.Sort(sort.Reverse(ByLocation(list))); locations of one domain are never equal.
SortReverse(list) ==
  CHOOSE sorted \in [DOMAIN list -> Range(list)] :
    /\ Range(sorted) = Range(list)
    /\ \A i, j \in DOMAIN list : i < j => Before(sorted[j].location, sorted[i].location)

\* Faulty variant: sorted in the order of the locations, not in its reverse.
AddSorted(table, domain, location) ==
  IF Exist(table, domain, location) THEN table
  ELSE Entry(table, domain,
         Reverse(SortReverse(Append(Routers(table, domain), Route(domain, location)))))

\* Routers.Add; a conflict (ErrRouterConfigConflict) leaves the table as it is.
Add(table, domain, location) ==
  IF Exist(table, domain, location) THEN table
  ELSE Entry(table, domain,
         SortReverse(Append(Routers(table, domain), Route(domain, location))))

Earliest(S) == CHOOSE i \in S : \A j \in S : i <= j

\* Routers.Del keeps the other routers of the domain in their order; at most one has the
\* location.
Del(table, domain, location) ==
  LET list == Routers(table, domain)
      gone == {i \in DOMAIN list : list[i].location = location}
  IN IF gone = {} THEN table ELSE Entry(table, domain, RemoveAt(list, Earliest(gone)))

\* Routers.Get: the first router of the domain whose location is a prefix of the path.
Get(table, domain, path) ==
  LET list == Routers(table, domain)
      hits == {i \in DOMAIN list : IsPrefix(list[i].location, path)}
  IN IF hits = {} THEN NotFound ELSE list[Earliest(hits)]

\* The names that are tried in turn: the host, then "*" for its first label, for its first
\* two, and so on while three labels are left.
Names(host) ==
  <<host>> \o [k \in 1..(IF Len(host) < 3 THEN 0 ELSE Len(host) - 2) |->
                 <<"*">> \o SubSeq(host, k + 1, Len(host))]

\* HTTPReverseProxy.getVhost.
getVhost(table, host, path) ==
  LET names == Names(host)
      hits == {i \in DOMAIN names : Get(table, names[i], path).found}
  IN IF hits = {} THEN NotFound ELSE Get(table, names[Earliest(hits)], path)

\* Muxer.getListener does the same for the connections of HTTPS and tcpmux.
getListener(table, host, path) == getVhost(table, host, path)

(***************************************************************************)
(* Reference: among the routes that have been added and not deleted, the   *)
(* ones that match the host and the path; the closest domain first, then   *)
(* the longest location.                                                   *)
(***************************************************************************)
Covers(domain, host) ==
  \/ domain = host
  \/ /\ Len(domain) >= 3 /\ domain[1] = "*" /\ Len(domain) <= Len(host)
     /\ Tail(domain) = SubSeq(host, Len(host) - Len(domain) + 2, Len(host))

Closeness(domain, host) == IF domain = host THEN Len(host) + 1 ELSE Len(domain)

Matching(routes, host, path) ==
  {r \in routes : Covers(r.domain, host) /\ IsPrefix(r.location, path)}

Better(r, s, host) ==
  \/ Closeness(r.domain, host) > Closeness(s.domain, host)
  \/ r.domain = s.domain /\ Len(r.location) > Len(s.location)

MostSpecific(routes, host, path) ==
  LET m == Matching(routes, host, path)
  IN IF m = {} THEN NotFound
     ELSE CHOOSE r \in m : \A s \in m \ {r} : Better(r, s, host)

(***************************************************************************)
(* Proxies come and go in any order; `routes` is what is registered.       *)
(***************************************************************************)
CONSTANTS Domains, Locations, Hosts, Paths, MaxRoutes

\* Domains and hosts are sequences of labels, locations and paths sequences of bytes.
Texts ==
  /\ Domains \subseteq Seq(STRING) /\ Hosts \subseteq Seq(STRING)
  /\ Locations \subseteq Seq(Nat) /\ Paths \subseteq Seq(Nat)

VARIABLES table, routes

Init == table = <<>> /\ routes = {}

\* HTTPReverseProxy.Register and Muxer.Listen.
Register ==
  \E d \in Domains, l \in Locations :
    /\ Cardinality(routes) < MaxRoutes
    /\ table' = Add(table, d, l)
    /\ routes' = routes \union {Route(d, l)}

\* HTTPReverseProxy.UnRegister and Listener.Close.
UnRegister ==
  \E r \in routes :
    /\ table' = Del(table, r.domain, r.location)
    /\ routes' = routes \ {r}

Next == Register \/ UnRegister

Spec == Init /\ [][Next]_<<table, routes>>

\* A request is answered by the most specific route that is registered, in whatever order
\* routes came and whichever went (router.go:52, vhost.go:100-127, http.go:164-191): the
\* first hit in a sorted list and the first name of the chain are the closest match.
AnswersMostSpecific ==
  \A host \in Hosts, path \in Paths :
    getListener(table, host, path) = MostSpecific(routes, host, path)
=============================================================================

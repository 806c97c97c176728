------------------------------ MODULE MCTables ------------------------------
(***************************************************************************)
(* The values that the three parts of Tables are checked with.             *)
(***************************************************************************)
EXTENDS Tables

\* Domains around the subdomain_host f.c: below it, deeper, equal, a name that only ends like
\* it, a wildcard, and one that has nothing to do with it.
MCSectionDomains ==
  {<<"a", ".", "f", ".", "c">>, <<"b", ".", "a", ".", "f", ".", "c">>, <<"f", ".", "c">>,
   <<"a", ".", "x", "f", ".", "c">>, <<"*", ".", "f", ".", "c">>, <<"o", ".", "g">>}
MCSubdomains == {<<>>, <<"a">>, <<"b", ".", "a">>, <<"*">>}
MCSubdomainHosts == {<<>>, <<"f", ".", "c">>}

Sec(name) == [header |-> TRUE, name |-> name]
Row(key, value) == [header |-> FALSE, key |-> key, value |-> value]

MCFiles ==
  {<<Sec(<<"common">>), Row("token", "t"),
     Sec(<<"range:", "p">>),
     Row("local_port", <<<<1, 2>>, <<5>>>>), Row("remote_port", <<<<3>>, <<7, 8>>>>),
     Sec(<<"q">>), Row("local_port", <<<<4>>>>), Row("remote_port", <<<<4>>>>)>>}

\* Rows that collide with the range, choose among its proxies, and make its texts invalid.
MCRows ==
  {Sec(<<"common">>), Sec(<<"q">>), Sec(<<"range:", "p">>),
   Sec(<<"p", 0>>), Sec(<<"p", 1>>), Sec(<<"p", 3>>),
   Row("token", "x"), Row("start", {<<"p", 1>>, <<"q">>}), Row("role", "visitor"),
   Row("local_port", <<<<6>>>>), Row("remote_port", <<<<9>>>>),
   Row("local_port", <<<<6, 5>>>>), Row("local_port", <<<<6>>, <<5>>, <<6>>>>)}

\* Two wildcards above one host, and locations that are prefixes of one another.
MCDomains ==
  {<<"a", "b", "com">>, <<"*", "b", "com">>, <<"*", "com">>, <<"*", "a", "b", "com">>}
MCLocations == {<<>>, <<1>>, <<1, 2>>, <<2>>}
MCHosts == {<<"a", "b", "com">>, <<"c", "a", "b", "com">>, <<"b", "com">>}
MCPaths == {<<1, 2>>, <<1, 1, 2>>, <<2, 1>>}
=============================================================================

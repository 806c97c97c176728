----------------------------- MODULE ConfigFile -----------------------------
(***************************************************************************)
(* The configuration file of frpc: the admin API lets an editor get it and *)
(* put it back (client/admin_api.go), and a reload loads all its proxies   *)
(* and visitors (pkg/config/client.go).                                    *)
(*                                                                         *)
(* A file is a sequence of rows: headers of sections, and keys.  A name is *)
(* a tuple: <<"p">> for [p], <<"range:", "p">> for [range:p], <<"p", 0>>   *)
(* for [p_0].  The value of a port key is a list of items, <<7>> for 7 and *)
(* <<7, 9>> for 7-9.                                                       *)
(*                                                                         *)
(* Abstractions.  Of a proxy the ports and the role are followed;          *)
(* ProxyConfig has the rest, and what makes a visitor valid.  The template *)
(* rendering of the file and its comments are left out.                    *)
(***************************************************************************)
EXTENDS Integers, Sequences, SequencesExt, FiniteSets

CONSTANTS
  Rows,       \* rows an editor may insert
  Files,      \* files to begin with
  MaxEdits    \* bound on the edits

\* The rows there are.  Apart from what IsRange and the generated names need, nothing is
\* supposed of a name; a port key may be malformed, but it is a list of lists of numbers.
Written == Rows \union UNION {{rows[i] : i \in DOMAIN rows} : rows \in Files}

NameText(name) ==
  \/ name = <<name[1]>> /\ name[1] # "range:"
  \/ name = <<"range:", name[2]>> /\ name[2] # "range:"
  \/ name = <<name[1], name[2]>> /\ name[1] # "range:" /\ name[2] \in Nat

Texts ==
  /\ Files \subseteq Seq(Written)
  /\ \A row \in Written :
       IF row.header THEN NameText(row.name)
       ELSE row.key \in {"local_port", "remote_port"} => row.value \in Seq(Seq(Int))

Section(name) == [header |-> TRUE, name |-> name]
Key(key, value) == [header |-> FALSE, key |-> key, value |-> value]

Common == <<"common">>
CommonRow == Section(Common)
IsToken(row) == ~row.header /\ row.key = "token"
IsRange(name) == Head(name) = "range:"

(***************************************************************************)
(* What ini.LoadSources makes of the rows.                                 *)
(***************************************************************************)
\* The header above row i; keys above all headers are in the section DEFAULT.
Owner(rows, i) ==
  LET above == {h \in 1..i : rows[h].header}
  IN IF above = {} THEN <<"DEFAULT">> ELSE rows[CHOOSE h \in above : \A g \in above : g <= h].name

\* Sections of one name are one section, and the last row of a key counts.
Keys(rows, name) ==
  LET mine == {i \in DOMAIN rows : ~rows[i].header /\ Owner(rows, i) = name}
  IN [k \in {rows[i].key : i \in mine} |->
        rows[CHOOSE i \in mine : rows[i].key = k /\ \A j \in mine : rows[j].key = k => j <= i].value]

Load(rows) ==
  [name \in {Owner(rows, i) : i \in DOMAIN rows} |-> Keys(rows, name)]

Value(section, key, default) == IF key \in DOMAIN section THEN section[key] ELSE default

(***************************************************************************)
(* LoadAllProxyConfsFromIni.                                               *)
(***************************************************************************)
\* A minus parts the two ends of a range, so that no number is negative.
ItemValid(item) ==
  /\ Len(item) = 1 \/ (Len(item) = 2 /\ item[1] <= item[2])
  /\ \A i \in DOMAIN item : item[i] >= 0

Numbers(item) == IF Len(item) = 1 THEN item ELSE [i \in 1..(item[2] - item[1] + 1) |-> item[1] + i - 1]

\* util.ParseRangeNumbers; strings.Split makes one item of an empty text, which is no number.
RangeValid(items) == items # <<>> /\ \A i \in DOMAIN items : ItemValid(items[i])
ParseRangeNumbers(items) == FlattenSeq([i \in DOMAIN items |-> Numbers(items[i])])

LocalPorts(section) == ParseRangeNumbers(Value(section, "local_port", <<>>))
RemotePorts(section) == ParseRangeNumbers(Value(section, "remote_port", <<>>))

TemplateValid(section) ==
  /\ RangeValid(Value(section, "local_port", <<>>))
  /\ RangeValid(Value(section, "remote_port", <<>>))
  /\ Len(LocalPorts(section)) = Len(RemotePorts(section))

\* copySection, and the ports of one proxy, over what the file has under that name.
Over(section, new) ==
  [k \in DOMAIN section \union DOMAIN new |-> IF k \in DOMAIN new THEN new[k] ELSE section[k]]

\* Faulty variant: the remote ports of a range begin with the second.
GeneratedShifted(section, i) ==
  Over(section, [local_port |-> <<<<LocalPorts(section)[i + 1]>>>>,
                 remote_port |-> <<<<RemotePorts(section)[IF i = 0 THEN Len(RemotePorts(section)) ELSE i]>>>>])

Generated(section, i) ==
  Over(section, [local_port |-> <<<<LocalPorts(section)[i + 1]>>>>,
                 remote_port |-> <<<<RemotePorts(section)[i + 1]>>>>])

\* renderRangeProxyTemplates of every range section, all of them valid.
Rendered(sections) ==
  LET ranges == {n \in DOMAIN sections : IsRange(n)}
      new == UNION {{<<n[2], i>> : i \in 0..(Len(LocalPorts(sections[n])) - 1)} : n \in ranges}
      old(n) == IF n \in DOMAIN sections THEN sections[n] ELSE <<>>
  IN [n \in DOMAIN sections \union new |->
        IF n \in new THEN Over(old(n), Generated(sections[<<"range:", n[1]>>], n[2])) ELSE sections[n]]

Error == [error |-> TRUE]

\* Every section but [DEFAULT], [common] and the ranges; those in `start` if that is not empty.
Chosen(sections, start) ==
  {n \in DOMAIN sections \ {<<"DEFAULT">>, Common} : ~IsRange(n) /\ (start = {} \/ n \in start)}

\* MapTo reads a plain number, and leaves 0 for everything else.
Port(items) == IF Len(items) = 1 /\ Len(items[1]) = 1 THEN items[1][1] ELSE 0

Role(section) == Value(section, "role", "server")
ProxyOf(section) ==
  [local |-> Port(Value(section, "local_port", <<>>)),
   remote |-> Port(Value(section, "remote_port", <<>>))]

SectionValid(section) ==
  \/ Role(section) = "visitor"
  \/ Role(section) = "server" /\ ProxyOf(section).local > 0

LoadAllProxyConfsFromIni(rows, start) ==
  LET sections == Load(rows)
      rendered == Rendered(sections)
      chosen == Chosen(rendered, start)
      proxies == {n \in chosen : Role(rendered[n]) = "server"}
  IN IF \E n \in DOMAIN sections : IsRange(n) /\ ~TemplateValid(sections[n]) THEN Error
     ELSE IF \E n \in chosen : ~SectionValid(rendered[n]) THEN Error
     ELSE [proxies |-> [n \in proxies |-> ProxyOf(rendered[n])], visitors |-> chosen \ proxies]

(***************************************************************************)
(* The admin API.                                                          *)
(***************************************************************************)
WithoutTokens(rows) ==
  FlattenSeq([i \in DOMAIN rows |-> IF IsToken(rows[i]) THEN <<>> ELSE <<rows[i]>>])

TokenRows(rows) == {i \in DOMAIN rows : IsToken(rows[i])}

\* apiPutConfig: the first token row of the file goes behind every [common] row of the text.
PutRows(rows, body) ==
  LET plain == WithoutTokens(body)
  IN IF TokenRows(rows) = {} THEN plain
     ELSE FlattenSeq([i \in DOMAIN plain |->
            IF plain[i] = CommonRow THEN <<plain[i], rows[Min(TokenRows(rows))]>>
            ELSE <<plain[i]>>])

VARIABLES
  file,      \* the rows of the file
  editor,    \* the text in the dashboard's editor
  edits,     \* number of edits
  loaded,    \* what frpc runs, Error before the first reload
  loadedOf   \* history: the file that `loaded` was loaded from

vars == <<file, editor, edits, loaded, loadedOf>>

Start(rows) == IF Common \in DOMAIN Load(rows) THEN Value(Load(rows)[Common], "start", {}) ELSE {}

Init ==
  /\ file \in Files /\ editor = <<>> /\ edits = 0
  /\ loaded = Error /\ loadedOf = file

apiGetConfig ==
  /\ editor' = WithoutTokens(file)
  /\ UNCHANGED <<file, edits, loaded, loadedOf>>

Edit ==
  /\ edits < MaxEdits /\ editor # <<>>
  /\ edits' = edits + 1
  /\ \/ \E i \in 1..(Len(editor) + 1), r \in Rows : editor' = InsertAt(editor, i, r)
     \/ \E i \in DOMAIN editor : editor' = RemoveAt(editor, i)
  /\ UNCHANGED <<file, loaded, loadedOf>>

apiPutConfig ==
  /\ editor # <<>>
  /\ file' = PutRows(file, editor)
  /\ editor' = <<>>
  /\ UNCHANGED <<edits, loaded, loadedOf>>

\* Without [common], or with an error anywhere in the file, nothing is reloaded.
apiReload ==
  LET new == LoadAllProxyConfsFromIni(file, Start(file))
  IN /\ Common \in DOMAIN Load(file) /\ new # Error
     /\ loaded' = new /\ loadedOf' = file
     /\ UNCHANGED <<file, editor, edits>>

Next == apiGetConfig \/ Edit \/ apiPutConfig \/ apiReload

Spec == Init /\ [][Next]_vars

(***************************************************************************)
(* Properties.                                                             *)
(***************************************************************************)
Size(item) == IF Len(item) = 1 THEN 1 ELSE item[2] - item[1] + 1
Within(item, p) == p \in item[1]..item[Len(item)]

\* How many numbers the first i items of a text have.
Starts(items) ==
  LET starts[i \in 0..Len(items)] == IF i = 0 THEN 0 ELSE starts[i - 1] + Size(items[i])
  IN starts

\* The place of port p of item k: how many numbers come before it in the text.
Place(items, k, p) == Starts(items)[k - 1] + (p - items[k][1])

\* "frpc will generate 8 proxies like test_tcp_0, test_tcp_1, ..., test_tcp_7" (README.md:935)
\* for a range, each from the local to the remote port of the same place in the two texts,
\* under a name of its place; the other started sections are loaded as they are written.
LoadedAsWritten ==
  loaded # Error =>
    LET sections == Load(loadedOf)
        start == Start(loadedOf)
        Local(n) == sections[n]["local_port"]
        Remote(n) == sections[n]["remote_port"]
        names == DOMAIN loaded.proxies \union loaded.visitors
        ranged == {n \in names :
                     /\ Len(n) = 2 /\ <<"range:", n[1]>> \in DOMAIN sections
                     /\ n[2] < Starts(Local(<<"range:", n[1]>>))[Len(Local(<<"range:", n[1]>>))]}
    IN /\ \A n \in DOMAIN sections : IsRange(n) =>
            \A k \in DOMAIN Local(n) : \A p \in Local(n)[k][1]..Local(n)[k][Len(Local(n)[k])] :
              LET name == <<n[2], Place(Local(n), k, p)>>
              IN \/ start # {} /\ name \notin start
                 \/ name \in loaded.visitors
                 \/ name \in DOMAIN loaded.proxies /\ loaded.proxies[name].local = p
       /\ \A n \in ranged \intersect DOMAIN loaded.proxies :
            \E k \in DOMAIN Remote(<<"range:", n[1]>>) :
              /\ Within(Remote(<<"range:", n[1]>>)[k], loaded.proxies[n].remote)
              /\ Place(Remote(<<"range:", n[1]>>), k, loaded.proxies[n].remote) = n[2]
       /\ names \ ranged \subseteq DOMAIN sections
       /\ \A n \in DOMAIN loaded.proxies \ ranged : Local(n) = <<<<loaded.proxies[n].local>>>>
=============================================================================

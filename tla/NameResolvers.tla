---------------------------- MODULE NameResolvers ----------------------------
(***************************************************************************)
(* The name tables TextTrigCompiler builds from the map on every compile   *)
(* (PrepLocationTable, PrepSwitchTable, PrepScriptTable) and the resolvers *)
(* that look an argument up in them (ParseLocationName, ParseSwitch,       *)
(* ParseScript), each with the numeric fallback ParseConditionArg and      *)
(* ParseActionArg try after it.  A table is a set of nodes [name, id] in   *)
(* an unordered_multimap keyed by strHash(name); a lookup takes the hash   *)
(* bucket of the name and compares names within it.                        *)
(* The map is chosen in Init; each step resolves one argument token        *)
(* against the tables built from it and records the result in `last`.     *)
(***************************************************************************)
EXTENDS Naturals, FiniteSets

CONSTANTS
  Names,         \* names a user can give to locations, switches, scripts
  NoName,        \* a location or switch without a name string
  Hash,          \* strHash on every name the tables can hold
  NumLocations,  \* locations of the map (1 .. NumLocations)
  Anywhere,      \* Chk::LocationId::Anywhere
  NumSwitches,   \* switches modelled (0 .. NumSwitches - 1 of 256)
  SwitchNumbers, \* the numbers n of SWITCHn tokens tried
  Numbers,       \* numeric tokens tried
  ScriptCodes    \* AI scripts: their four-character ids

\* The fixed names of PrepLocationTable.
NoLocationName == "No Location"
AnywhereName == "Anywhere"
\* The name every node of PrepScriptTable carries (see ScriptTable).
EmptyName == ""

TableNames == Names \cup {NoLocationName, AnywhereName, EmptyName}

ASSUME ResolverAssumption ==
  /\ NoName \notin TableNames
  /\ Hash \in [TableNames -> Nat]
  /\ NumLocations \in Nat /\ Anywhere \in Nat /\ NumSwitches \in 1..256
  /\ SwitchNumbers \subseteq Nat /\ Numbers \subseteq Nat

\* Argument tokens as the parser hands them over: a number, a SWITCHn
\* literal, a quoted name, a four-character script code (quoted or not),
\* and the keywords NOLOCATION and NOSCRIPT.
TokT ==
  [kind : {"num"}, n : Numbers] \cup [kind : {"switchn"}, n : SwitchNumbers]
  \cup [kind : {"name"}, name : TableNames \ {EmptyName}]
  \cup [kind : {"code"}, code : ScriptCodes, quoted : BOOLEAN]
  \cup [kind : {"NOLOCATION", "NOSCRIPT"}]

\* A script id: the four bytes of the code (bytes = 4) or only its first
\* byte (bytes = 1); a location or switch id is a number.
ScriptIdT == [code : ScriptCodes, bytes : {1, 4}]
Fail == [ok |-> FALSE, id |-> 0]
Found(id) == [ok |-> TRUE, id |-> id]

VARIABLES
  locName,     \* the name string of each location, or NoName
  swName,      \* the name string of each switch, or NoName
  scriptName,  \* the AI script catalog: the name of each script
  last         \* the last resolution: its kind, token and result

vars == <<locName, swName, scriptName, last>>

-----------------------------------------------------------------------------
(* The tables.                                                            *)

\* The id PrepLocationTable gives location i when it is not Anywhere:
\* u8(i + 1).
LocationId(i) == (i + 1) % 256

\* PrepLocationTable: "No Location" as 0, "Anywhere" as its own index, and
\* every other location with a name string as LocationId(i).
LocationTable ==
  {[name |-> NoLocationName, id |-> 0]}
  \cup {[name |-> AnywhereName, id |-> Anywhere] : i \in {Anywhere} \cap 1..NumLocations}
  \cup {[name |-> locName[i], id |-> LocationId(i)] :
          i \in {j \in 1..NumLocations \ {Anywhere} : locName[j] # NoName}}

\* PrepSwitchTable: every switch with a name string, as its index.
SwitchTable ==
  {[name |-> swName[s], id |-> s] : s \in {t \in 0..NumSwitches - 1 : swName[t] # NoName}}

\* PrepScriptTable: one node per script with a name, but the node is
\* inserted as default-constructed: neither its name nor its id is set.
ScriptTable ==
  IF ScriptCodes = {} THEN {} ELSE {[name |-> EmptyName, id |-> 0]}

\* Mutant: the single node of a bucket taken without comparing names.
LookupNoCompare(table, name) ==
  LET bucket == {nd \in table : Hash[nd.name] = Hash[name]}
  IN  IF bucket = {} THEN Fail
      ELSE Found(CHOOSE i \in {nd.id : nd \in bucket} : \A nd \in bucket : i <= nd.id)

\* The lookup of ParseLocationName and ParseSwitch: in the name's bucket,
\* a single node must match exactly; among several, the lowest id of the
\* exact matches wins.
Lookup(table, name) ==
  LET bucket == {nd \in table : Hash[nd.name] = Hash[name]}
      exact  == {nd.id : nd \in {m \in bucket : m.name = name}}
  IN  CASE Cardinality(bucket) = 1 ->
             LET nd == CHOOSE m \in bucket : TRUE
             IN  IF nd.name = name THEN Found(nd.id) ELSE Fail
        [] bucket # {} /\ exact # {} -> Found(CHOOSE i \in exact : \A j \in exact : i <= j)
        [] OTHER -> Fail

\* The lookup of ParseScript: among several nodes, the first exact match
\* in bucket order wins, an order the code does not fix.
ScriptLookups(table, name) ==
  LET bucket == {nd \in table : Hash[nd.name] = Hash[name]}
      exact  == {m \in bucket : m.name = name}
  IN  CASE Cardinality(bucket) = 1 ->
             {IF (CHOOSE m \in bucket : TRUE).name = name
                THEN Found((CHOOSE m \in bucket : TRUE).id) ELSE Fail}
        [] exact # {} -> {Found(m.id) : m \in exact}
        [] OTHER -> {Fail}

-----------------------------------------------------------------------------
(* The resolvers and their numeric fallbacks.                             *)

\* ParseByte and ParseLong: a decimal number that fits 1 or 4 bytes (every
\* number of the model fits 4).
NumericArg(tok, bytes) ==
  IF tok.kind = "num" /\ (bytes = 4 \/ tok.n < 2 ^ (8 * bytes)) THEN Found(tok.n) ELSE Fail

\* ParseLocationName, then ParseLong (condition and action Location
\* arguments).
ParseLocationArg(tok) ==
  CASE tok.kind = "num" -> NumericArg(tok, 4)
    [] tok.kind = "NOLOCATION" -> Found(0)
    [] tok.kind = "name" -> Lookup(LocationTable, tok.name)
    [] OTHER -> Fail

\* Mutant: SWITCHn stored without the u8 wrap.
SwitchLiteralUnwrapped(n) == IF n # 0 THEN Found(n - 1) ELSE Fail

\* The SWITCHn literal: dest = atoi(n) is stored in a u8, must be non-zero,
\* and is then made 0-based.
SwitchLiteral(n) ==
  LET dest == n % 256 IN IF dest # 0 THEN Found(dest - 1) ELSE Fail

\* ParseSwitch, then ParseByte (condition Switch argument).  An unquoted
\* number is ParseByte at once; a SWITCHn literal not taken is looked up
\* as a name, which no switch of the model carries.
ParseSwitchArg(tok) ==
  CASE tok.kind = "num" -> NumericArg(tok, 1)
    [] tok.kind = "switchn" -> SwitchLiteral(tok.n)
    [] tok.kind = "name" -> Lookup(SwitchTable, tok.name)
    [] OTHER -> Fail

\* ParseScript, then ParseLong (action Script argument): NOSCRIPT is 0; a
\* name is looked up; a four-character code that is quoted or not all
\* digits gives dest = text[pos], its first character.  The codes of the
\* model are not all digits.
ParseScriptArgs(tok) ==
  CASE tok.kind = "NOSCRIPT" -> {Found(0)}
    [] tok.kind = "name" -> ScriptLookups(ScriptTable, tok.name)
    [] tok.kind = "code" -> {Found([code |-> tok.code, bytes |-> 1])}
    [] tok.kind = "num" -> {NumericArg(tok, 4)}
    [] OTHER -> {Fail}

-----------------------------------------------------------------------------
Init ==
  /\ locName \in [1..NumLocations -> Names \cup {NoName}]
  /\ swName \in [0..NumSwitches - 1 -> Names \cup {NoName}]
  /\ scriptName \in [ScriptCodes -> Names]
  /\ last = [kind |-> "none", tok |-> [kind |-> "NOSCRIPT"], res |-> Fail]

ResolveLocation(tok) ==
  /\ last' = [kind |-> "location", tok |-> tok, res |-> ParseLocationArg(tok)]
  /\ UNCHANGED <<locName, swName, scriptName>>

ResolveSwitch(tok) ==
  /\ last' = [kind |-> "switch", tok |-> tok, res |-> ParseSwitchArg(tok)]
  /\ UNCHANGED <<locName, swName, scriptName>>

ResolveScript(tok) ==
  /\ \E r \in ParseScriptArgs(tok) : last' = [kind |-> "script", tok |-> tok, res |-> r]
  /\ UNCHANGED <<locName, swName, scriptName>>

Next ==
  \E tok \in TokT : ResolveLocation(tok) \/ ResolveSwitch(tok) \/ ResolveScript(tok)

Spec == Init /\ [][Next]_vars

-----------------------------------------------------------------------------
(* Properties.                                                            *)

\* Switch ids are stored in the 1-byte typeIndex of a condition.
TypeOK ==
  /\ locName \in [1..NumLocations -> Names \cup {NoName}]
  /\ swName \in [0..NumSwitches - 1 -> Names \cup {NoName}]
  /\ scriptName \in [ScriptCodes -> Names]
  /\ last.res.ok \in BOOLEAN
  /\ last.res.id \in IF last.kind = "script" /\ last.tok.kind = "code" /\ last.res.ok
                      THEN ScriptIdT ELSE Nat
  /\ last.kind = "switch" => last.res.id \in 0..255

\* The table that the last resolution searched.
Searched == IF last.kind = "location" THEN LocationTable ELSE SwitchTable

\* A location or switch name resolves exactly: to the lowest id of the
\* nodes that carry exactly that name, and fails when none does, whatever
\* names share its hash bucket (ParseLocationName and ParseSwitch walk a
\* bucket of strHash, where other names collide).
LookupExact ==
  last.kind \in {"location", "switch"} /\ last.tok.kind = "name" =>
    LET ids == {nd.id : nd \in {m \in Searched : m.name = last.tok.name}}
    IN  /\ last.res.ok <=> ids # {}
        /\ last.res.ok => last.res.id \in ids /\ \A i \in ids : last.res.id <= i

\* A location name resolves to the location that carries it: the id a
\* trigger stores is the location's own index, as it is for Anywhere
\* (PrepLocationTable, TextTrigCompiler.cpp:3305).
LocationResolvesToIndex ==
  last.kind = "location" /\ last.tok.kind = "name" /\ last.res.ok =>
    \/ last.res.id \in 1..NumLocations /\ locName[last.res.id] = last.tok.name
    \/ last.tok.name = AnywhereName /\ last.res.id = Anywhere
    \/ last.tok.name = NoLocationName /\ last.res.id = 0

\* SWITCHn names switch n for n in 1..256 and nothing else: it resolves to
\* id n - 1, and any other n is rejected (ParseSwitch,
\* TextTrigCompiler.cpp:3096).
SwitchLiteralResolves ==
  last.kind = "switch" /\ last.tok.kind = "switchn" =>
    /\ last.res.ok <=> last.tok.n \in 1..256
    /\ last.res.ok => last.res.id = last.tok.n - 1

\* Spec 3 and 4.3: a script resolves by its name through the script table, and
\* a four-character code resolves to the script id with those four bytes
\* (ParseScript and PrepScriptTable, TextTrigCompiler.cpp:3151, 3454).
ScriptResolves ==
  LET named == {c \in ScriptCodes : scriptName[c] = last.tok.name}
  IN  last.kind = "script" =>
        /\ (last.tok.kind = "name" /\ named # {}) =>
              last.res.ok /\ last.res.id \in {[code |-> c, bytes |-> 4] : c \in named}
        /\ last.tok.kind = "code" =>
              last.res.ok /\ last.res.id = [code |-> last.tok.code, bytes |-> 4]
=============================================================================

------------------------- MODULE NameResolvers_proofs -------------------------
(***************************************************************************)
(* Proofs about the name resolvers of NameResolvers, for every map and     *)
(* every hash function: a table lookup (ParseLocationName, ParseSwitch)    *)
(* returns the lowest id among the nodes whose name is exactly the one     *)
(* looked up, whatever other names share its strHash bucket; hence the     *)
(* type invariant and LookupExact hold in every reachable state.           *)
(***************************************************************************)
EXTENDS NameResolvers, FiniteSetTheorems, TLAPS

\* The ids of the nodes of a table whose name is exactly `name`.
ExactIds(table, name) == {nd.id : nd \in {m \in table : m.name = name}}

\* The least element of a set of ids.
MinId(S) == CHOOSE i \in S : \A j \in S : i <= j

-----------------------------------------------------------------------------
(* Lemmas on sets.                                                         *)

\* A nonempty set of naturals has a least element.
LEMMA NatMin ==
  ASSUME NEW T \in SUBSET Nat, T # {}
  PROVE  /\ MinId(T) \in T
         /\ \A j \in T : MinId(T) <= j
<1>1. \E x \in T : \A y \in T : ~(<<y, x>> \in OpToRel(<, Nat))
  BY NatLessThanWellFounded, WFMin
<1>2. \A x, y \in Nat : <<y, x>> \in OpToRel(<, Nat) <=> y < x
  BY DEF OpToRel
<1>3. PICK x \in T : \A y \in T : ~(<<y, x>> \in OpToRel(<, Nat))
  BY <1>1
<1>4. \A y \in T : ~(y < x)
  BY <1>2, <1>3, Zenon
<1>5. \A y \in T : x <= y
  BY <1>4
<1>. QED  BY <1>5, Zenon DEF MinId

\* The image of a finite set under a function is finite.
LEMMA ImageFinite ==
  ASSUME NEW D, IsFiniteSet(D), NEW F, F \in [D -> {F[x] : x \in D}]
  PROVE  IsFiniteSet({F[x] : x \in D})
<1>2. F \in Surjection(D, {F[x] : x \in D})
  BY DEF Surjection
<1>. QED  BY <1>2, FS_Surjection

-----------------------------------------------------------------------------
(* The tables are finite.                                                  *)

LEMMA LocationTableFinite == IsFiniteSet(LocationTable)
<1> DEFINE D1 == {Anywhere} \cap 1 .. NumLocations
           D2 == {j \in 1 .. NumLocations \ {Anywhere} : locName[j] # NoName}
           R1 == [name |-> AnywhereName, id |-> Anywhere]
           R2(i) == [name |-> locName[i], id |-> LocationId(i)]
           F1 == [i \in D1 |-> R1]
           F2 == [i \in D2 |-> R2(i)]
<1>0. NumLocations \in Int /\ D1 \subseteq 1 .. NumLocations /\ D2 \subseteq 1 .. NumLocations
  BY ResolverAssumption
<1>1. IsFiniteSet(D1) /\ IsFiniteSet(D2)
  <2>1. IsFiniteSet(1 .. NumLocations)
    BY <1>0, FS_Interval
  <2> HIDE DEF D1, D2
  <2>2. IsFiniteSet(D1)
    BY <1>0, <2>1, FS_Subset
  <2>3. IsFiniteSet(D2)
    BY <1>0, <2>1, FS_Subset
  <2>. QED  BY <2>2, <2>3
<1>2. F1 \in [D1 -> {F1[i] : i \in D1}] /\ F2 \in [D2 -> {F2[i] : i \in D2}]
  OBVIOUS
<1>3. /\ {F1[i] : i \in D1} = {R1 : i \in D1}
      /\ {F2[i] : i \in D2} = {R2(i) : i \in D2}
  OBVIOUS
<1> HIDE DEF D1, D2, R1, R2, F1, F2
<1>4. IsFiniteSet({F1[i] : i \in D1}) /\ IsFiniteSet({F2[i] : i \in D2})
  <2>1. IsFiniteSet({F1[i] : i \in D1})
    BY <1>1, <1>2, ImageFinite
  <2>2. IsFiniteSet({F2[i] : i \in D2})
    BY <1>1, <1>2, ImageFinite
  <2>. QED  BY <2>1, <2>2
<1>5. LocationTable = {[name |-> NoLocationName, id |-> 0]}
                      \cup {R1 : i \in D1} \cup {R2(i) : i \in D2}
  BY DEF LocationTable, D1, D2, R1, R2
<1>. QED  BY <1>3, <1>4, <1>5, FS_Singleton, FS_Union

LEMMA SwitchTableFinite == IsFiniteSet(SwitchTable)
<1> DEFINE D == {t \in 0 .. NumSwitches - 1 : swName[t] # NoName}
           R(s) == [name |-> swName[s], id |-> s]
           F == [s \in D |-> R(s)]
<1>0. NumSwitches - 1 \in Int /\ D \subseteq 0 .. NumSwitches - 1
  BY ResolverAssumption
<1>1. IsFiniteSet(D)
  <2>1. IsFiniteSet(0 .. NumSwitches - 1)
    BY <1>0, FS_Interval
  <2> HIDE DEF D
  <2>. QED  BY <1>0, <2>1, FS_Subset
<1>2. F \in [D -> {F[s] : s \in D}] /\ {F[s] : s \in D} = {R(s) : s \in D}
  OBVIOUS
<1> HIDE DEF D, R, F
<1>3. IsFiniteSet({F[s] : s \in D})
  BY <1>1, <1>2, ImageFinite
<1>4. SwitchTable = {R(s) : s \in D}
  BY DEF SwitchTable, D, R
<1>. QED  BY <1>2, <1>3, <1>4

LEMMA ScriptTableFinite == IsFiniteSet(ScriptTable)
BY FS_EmptySet, FS_Singleton DEF ScriptTable

-----------------------------------------------------------------------------
(* The lookup.                                                             *)

\* Lookup of a finite table is the least exact-match id, or Fail when no
\* node carries the name: the hash only narrows the search.
LEMMA LookupIsExactMin ==
  ASSUME NEW table, IsFiniteSet(table), NEW name
  PROVE  Lookup(table, name) =
           IF ExactIds(table, name) = {} THEN Fail
           ELSE Found(MinId(ExactIds(table, name)))
<1> DEFINE bucket == {nd \in table : Hash[nd.name] = Hash[name]}
           exact  == {nd.id : nd \in {m \in bucket : m.name = name}}
<1>1. exact = ExactIds(table, name)
  BY DEF ExactIds
<1>2. IsFiniteSet(bucket)
  BY FS_Subset
<1>3. CASE Cardinality(bucket) = 1
  <2>1. PICK x : bucket = {x}
    BY <1>2, <1>3, FS_Singleton
  <2>2. (CHOOSE m \in bucket : TRUE) = x
    BY <2>1
  <2>3. CASE x.name = name
    <3>1. exact = {x.id} /\ ExactIds(table, name) = {x.id}
      BY <1>1, <2>1, <2>3
    <3>2. (CHOOSE i \in exact : \A j \in exact : i <= j) = x.id /\ MinId({x.id}) = x.id
      BY <3>1 DEF MinId
    <3>3. Lookup(table, name) = Found(x.id)
      BY <1>3, <2>2, <2>3, <3>1, <3>2 DEF Lookup
    <3>. QED  BY <3>1, <3>2, <3>3
  <2>4. CASE x.name # name
    <3>1. exact = {} /\ ExactIds(table, name) = {}
      BY <1>1, <2>1, <2>4
    <3>2. Lookup(table, name) = Fail
      BY <1>3, <2>2, <2>4, <3>1 DEF Lookup
    <3>. QED  BY <3>1, <3>2
  <2>. QED  BY <2>3, <2>4
<1>4. CASE Cardinality(bucket) # 1 /\ bucket # {} /\ exact # {}
  <2>1. Lookup(table, name) = Found(CHOOSE i \in exact : \A j \in exact : i <= j)
    BY <1>4 DEF Lookup
  <2>. QED  BY <1>1, <1>4, <2>1 DEF MinId
<1>5. CASE Cardinality(bucket) # 1 /\ ~(bucket # {} /\ exact # {})
  <2>1. exact = {}
    BY <1>5
  <2>. QED  BY <1>1, <1>5, <2>1 DEF Lookup
<1>. QED  BY <1>3, <1>4, <1>5

\* On a table of natural ids, a successful lookup gives an id of an exact
\* match no greater than any other, and a failed one means no match.
LEMMA LookupExactMatch ==
  ASSUME NEW table, IsFiniteSet(table), NEW name,
         \A nd \in table : nd.id \in Nat
  PROVE  LET r   == Lookup(table, name)
             ids == ExactIds(table, name)
         IN  /\ r.ok \in BOOLEAN
             /\ r.ok <=> ids # {}
             /\ r.ok => r.id \in ids /\ \A i \in ids : r.id <= i
             /\ ~r.ok => r.id = 0
<1>0. Lookup(table, name) = IF ExactIds(table, name) = {} THEN Fail
                            ELSE Found(MinId(ExactIds(table, name)))
  BY LookupIsExactMin
<1>1. ExactIds(table, name) \subseteq Nat
  BY DEF ExactIds
<1>2. CASE ExactIds(table, name) = {}
  BY <1>0, <1>2 DEF Fail
<1>3. CASE ExactIds(table, name) # {}
  <2>1. /\ MinId(ExactIds(table, name)) \in ExactIds(table, name)
        /\ \A j \in ExactIds(table, name) : MinId(ExactIds(table, name)) <= j
    BY <1>1, <1>3, NatMin
  <2>2. Lookup(table, name) = Found(MinId(ExactIds(table, name)))
    BY <1>0, <1>3
  <2>. QED  BY <2>1, <2>2 DEF Found
<1>. QED  BY <1>2, <1>3

-----------------------------------------------------------------------------
(* The resolvers.                                                          *)

\* The ids the tables carry: location ids are naturals, switch ids fit the
\* byte of typeIndex, and every script node has id 0.
LEMMA TableIds ==
  /\ \A nd \in LocationTable : nd.id \in Nat
  /\ \A nd \in SwitchTable : nd.id \in 0 .. 255
  /\ \A nd \in ScriptTable : nd.id = 0
<1>1. \A i \in 1 .. NumLocations : LocationId(i) \in Nat
  BY ResolverAssumption DEF LocationId
<1>2. \A nd \in LocationTable : nd.id \in Nat
  BY <1>1, ResolverAssumption DEF LocationTable
<1>3. \A nd \in SwitchTable : nd.id \in 0 .. 255
  BY ResolverAssumption DEF SwitchTable
<1>4. \A nd \in ScriptTable : nd.id = 0
  BY DEF ScriptTable
<1>. QED  BY <1>2, <1>3, <1>4

\* ParseLocationName then ParseLong: a natural id, and for a name the
\* table lookup.
LEMMA LocationArgType ==
  ASSUME NEW tok \in TokT
  PROVE  LET r == ParseLocationArg(tok)
         IN  /\ r.ok \in BOOLEAN /\ r.id \in Nat
             /\ tok.kind = "name" => r = Lookup(LocationTable, tok.name)
<1>1. CASE tok.kind = "name"
  <2>1. ParseLocationArg(tok) = Lookup(LocationTable, tok.name)
    BY <1>1 DEF ParseLocationArg
  <2>2. LET r == Lookup(LocationTable, tok.name)
        IN  r.ok \in BOOLEAN /\ (r.ok => r.id \in ExactIds(LocationTable, tok.name))
            /\ (~r.ok => r.id = 0)
    BY TableIds, LocationTableFinite, LookupExactMatch
  <2>3. ExactIds(LocationTable, tok.name) \subseteq Nat
    BY TableIds DEF ExactIds
  <2>. QED  BY <2>1, <2>2, <2>3
<1>2. CASE tok.kind # "name"
  BY <1>2, ResolverAssumption DEF ParseLocationArg, NumericArg, TokT, Found, Fail
<1>. QED  BY <1>1, <1>2

\* ParseSwitch then ParseByte: an id that fits a byte, and for a name the
\* table lookup.
LEMMA SwitchArgType ==
  ASSUME NEW tok \in TokT
  PROVE  LET r == ParseSwitchArg(tok)
         IN  /\ r.ok \in BOOLEAN /\ r.id \in 0 .. 255
             /\ tok.kind = "name" => r = Lookup(SwitchTable, tok.name)
<1>1. CASE tok.kind = "name"
  <2>1. ParseSwitchArg(tok) = Lookup(SwitchTable, tok.name)
    BY <1>1 DEF ParseSwitchArg
  <2>2. LET r == Lookup(SwitchTable, tok.name)
        IN  r.ok \in BOOLEAN /\ (r.ok => r.id \in ExactIds(SwitchTable, tok.name))
            /\ (~r.ok => r.id = 0)
    BY TableIds, SwitchTableFinite, LookupExactMatch
  <2>3. ExactIds(SwitchTable, tok.name) \subseteq 0 .. 255
    BY TableIds DEF ExactIds
  <2>. QED  BY <2>1, <2>2, <2>3
<1>2. CASE tok.kind = "num"
  <2>1. 2 ^ (8 * 1) = 256
    OBVIOUS
  <2>. QED  BY <1>2, <2>1, ResolverAssumption
            DEF ParseSwitchArg, NumericArg, TokT, Found, Fail
<1>3. CASE tok.kind = "switchn"
  BY <1>3, ResolverAssumption DEF ParseSwitchArg, SwitchLiteral, TokT, Found, Fail
<1>4. CASE tok.kind \notin {"name", "num", "switchn"}
  <2>1. ParseSwitchArg(tok) = Fail
    BY <1>4 DEF ParseSwitchArg
  <2>. QED  BY <1>4, <2>1 DEF Fail
<1>. QED  BY <1>1, <1>2, <1>3, <1>4

\* ParseScript then ParseLong: a four-character code gives a script id,
\* anything else a natural.
LEMMA ScriptArgType ==
  ASSUME NEW tok \in TokT, NEW r \in ParseScriptArgs(tok)
  PROVE  /\ r.ok \in BOOLEAN
         /\ r.id \in IF tok.kind = "code" /\ r.ok THEN ScriptIdT ELSE Nat
<1>1. CASE tok.kind = "name"
  \* No script node carries a name a user can type: the lookup fails.
  <2> DEFINE bucket == {nd \in ScriptTable : Hash[nd.name] = Hash[tok.name]}
             exact  == {m \in bucket : m.name = tok.name}
  <2>1. tok.name # EmptyName
    BY <1>1 DEF TokT
  <2>2. exact = {}
    BY <2>1 DEF ScriptTable
  <2>3. ScriptTable \subseteq {[name |-> EmptyName, id |-> 0]}
    BY DEF ScriptTable
  <2>4. CASE bucket = {}
    <3>1. Cardinality(bucket) # 1
      BY <2>4, FS_EmptySet
    <3>2. ScriptLookups(ScriptTable, tok.name) = {Fail}
      BY <2>2, <3>1, Zenon DEF ScriptLookups
    <3>3. r = Fail
      BY <1>1, <3>2 DEF ParseScriptArgs
    <3>. QED  BY <1>1, <3>3 DEF Fail
  <2>5. CASE bucket # {}
    <3> DEFINE e == [name |-> EmptyName, id |-> 0]
    <3>1. bucket = {e}
      BY <2>3, <2>5
    <3>2. Cardinality(bucket) = 1 /\ (CHOOSE m \in bucket : TRUE) = e
      BY <3>1, FS_Singleton
    <3>3. e.name # tok.name
      BY <2>1
    <3>4. ScriptLookups(ScriptTable, tok.name) = {Fail}
      BY <2>2, <3>2, <3>3 DEF ScriptLookups
    <3>5. r = Fail
      BY <1>1, <3>4 DEF ParseScriptArgs
    <3>. QED  BY <1>1, <3>5 DEF Fail
  <2>. QED  BY <2>4, <2>5
<1>2. CASE tok.kind = "NOSCRIPT"
  <2>1. r = Found(0)
    BY <1>2 DEF ParseScriptArgs
  <2>. QED  BY <1>2, <2>1 DEF Found
<1>3. CASE tok.kind = "code"
  <2>1. r = Found([code |-> tok.code, bytes |-> 1])
    BY <1>3 DEF ParseScriptArgs
  <2>. QED  BY <1>3, <2>1 DEF TokT, ScriptIdT, Found
<1>4. CASE tok.kind = "num"
  <2>1. r = NumericArg(tok, 4)
    BY <1>4 DEF ParseScriptArgs
  <2>. QED  BY <1>4, <2>1, ResolverAssumption DEF NumericArg, TokT, Found, Fail
<1>5. CASE tok.kind \notin {"name", "NOSCRIPT", "code", "num"}
  <2>1. r = Fail
    BY <1>5 DEF ParseScriptArgs
  <2>. QED  BY <1>5, <2>1 DEF Fail
<1>. QED  BY <1>1, <1>2, <1>3, <1>4, <1>5

-----------------------------------------------------------------------------
(* The invariant.  The tables are built from the map, which no resolution *)
(* changes, so TypeOK /\ LookupExact is inductive as it stands.            *)

Inv == TypeOK /\ LookupExact

\* LookupExact restated with ExactIds, for the table a resolution searched.
LEMMA LookupExactAfter ==
  ASSUME NEW tok \in TokT, NEW table, IsFiniteSet(table),
         \A nd \in table : nd.id \in Nat,
         NEW r, tok.kind = "name" => r = Lookup(table, tok.name)
  PROVE  tok.kind = "name" =>
           LET ids == {nd.id : nd \in {m \in table : m.name = tok.name}}
           IN  /\ r.ok <=> ids # {}
               /\ r.ok => r.id \in ids /\ \A i \in ids : r.id <= i
<1> SUFFICES ASSUME tok.kind = "name" PROVE
           LET ids == ExactIds(table, tok.name)
           IN  /\ r.ok <=> ids # {}
               /\ r.ok => r.id \in ids /\ \A i \in ids : r.id <= i
  BY DEF ExactIds
<1>. QED  BY LookupExactMatch

LEMMA InitInv == Init => Inv
<1> SUFFICES ASSUME Init PROVE Inv
  OBVIOUS
<1>1. last.kind = "none" /\ last.res = Fail
  BY DEF Init
<1>2. TypeOK
  BY <1>1 DEF Init, TypeOK, Fail
<1>3. LookupExact
  BY <1>1 DEF LookupExact
<1>. QED  BY <1>2, <1>3 DEF Inv

LEMMA NextInv == Inv /\ [Next]_vars => Inv'
<1> SUFFICES ASSUME Inv, [Next]_vars PROVE Inv'
  OBVIOUS
<1>1. ASSUME NEW tok \in TokT, ResolveLocation(tok) PROVE Inv'
  <2>1. LET r == ParseLocationArg(tok)
        IN  /\ r.ok \in BOOLEAN /\ r.id \in Nat
            /\ tok.kind = "name" => r = Lookup(LocationTable, tok.name)
    BY LocationArgType
  <2>2. TypeOK'
    BY <1>1, <2>1 DEF Inv, TypeOK, ResolveLocation
  <2>3. Searched' = LocationTable
    BY <1>1 DEF ResolveLocation, Searched, LocationTable
  <2>4. tok.kind = "name" =>
           LET ids == {nd.id : nd \in {m \in LocationTable : m.name = tok.name}}
               r   == ParseLocationArg(tok)
           IN  /\ r.ok <=> ids # {}
               /\ r.ok => r.id \in ids /\ \A i \in ids : r.id <= i
    BY <2>1, TableIds, LocationTableFinite, LookupExactAfter
  <2>5. LookupExact'
    BY <1>1, <2>3, <2>4 DEF ResolveLocation, LookupExact
  <2>. QED  BY <2>2, <2>5 DEF Inv
<1>2. ASSUME NEW tok \in TokT, ResolveSwitch(tok) PROVE Inv'
  <2>1. LET r == ParseSwitchArg(tok)
        IN  /\ r.ok \in BOOLEAN /\ r.id \in 0 .. 255
            /\ tok.kind = "name" => r = Lookup(SwitchTable, tok.name)
    BY SwitchArgType
  <2>2. TypeOK'
    <3>1. last'.kind = "switch" /\ last'.res = ParseSwitchArg(tok)
          /\ UNCHANGED <<locName, swName, scriptName>>
      BY <1>2 DEF ResolveSwitch
    <3>2. last'.res.ok \in BOOLEAN /\ last'.res.id \in 0 .. 255
      BY <2>1, <3>1
    <3>3. last'.res.id \in Nat /\ last'.kind # "script"
      BY <3>1, <3>2
    <3>4. /\ locName' \in [1..NumLocations -> Names \cup {NoName}]
          /\ swName' \in [0..NumSwitches - 1 -> Names \cup {NoName}]
          /\ scriptName' \in [ScriptCodes -> Names]
      BY <3>1 DEF Inv, TypeOK
    <3>. QED  BY <3>1, <3>2, <3>3, <3>4 DEF TypeOK
  <2>3. Searched' = SwitchTable
    BY <1>2 DEF ResolveSwitch, Searched, SwitchTable
  <2>4. \A nd \in SwitchTable : nd.id \in Nat
    BY TableIds
  <2>5. tok.kind = "name" =>
           LET ids == {nd.id : nd \in {m \in SwitchTable : m.name = tok.name}}
               r   == ParseSwitchArg(tok)
           IN  /\ r.ok <=> ids # {}
               /\ r.ok => r.id \in ids /\ \A i \in ids : r.id <= i
    BY <2>1, <2>4, SwitchTableFinite, LookupExactAfter
  <2>6. LookupExact'
    BY <1>2, <2>3, <2>5 DEF ResolveSwitch, LookupExact
  <2>. QED  BY <2>2, <2>6 DEF Inv
<1>3. ASSUME NEW tok \in TokT, ResolveScript(tok) PROVE Inv'
  <2>1. PICK r \in ParseScriptArgs(tok) :
          /\ last' = [kind |-> "script", tok |-> tok, res |-> r]
          /\ UNCHANGED <<locName, swName, scriptName>>
    BY <1>3 DEF ResolveScript
  <2>2. r.ok \in BOOLEAN /\ r.id \in IF tok.kind = "code" /\ r.ok THEN ScriptIdT ELSE Nat
    BY ScriptArgType
  <2>3. TypeOK'
    BY <2>1, <2>2 DEF Inv, TypeOK
  <2>4. LookupExact'
    BY <2>1 DEF LookupExact
  <2>. QED  BY <2>3, <2>4 DEF Inv
<1>4. CASE UNCHANGED vars
  BY <1>4 DEF vars, Inv, TypeOK, LookupExact, Searched, LocationTable, SwitchTable
<1>. QED  BY <1>1, <1>2, <1>3, <1>4 DEF Next

\* Every reachable state is well typed: in particular a switch argument,
\* whether a name, a SWITCHn literal or a number, always yields an id that
\* fits the byte typeIndex of a condition (ParseSwitch, ParseByte).
THEOREM TypeCorrect == Spec => []TypeOK
<1>1. Inv => TypeOK
  BY DEF Inv
<1>. QED  BY InitInv, NextInv, <1>1, PTL DEF Spec

\* For every map and every strHash, a location or switch name resolves to
\* the lowest id among the nodes that carry exactly that name, and fails
\* when none does (ParseLocationName, ParseSwitch: the bucket walk).
THEOREM LookupExactInvariant == Spec => []LookupExact
<1>1. Inv => LookupExact
  BY DEF Inv
<1>. QED  BY InitInv, NextInv, <1>1, PTL DEF Spec

=============================================================================

# Formal models of Chkdraft's text trigger compiler and unit undo

This directory holds TLA+ models of two parts of Chkdraft:

* the text trigger compiler in `src/MappingCoreLib/TextTrigCompiler.cpp`;
* the undo groups of unit edits in `src/Chkdraft/src/Reversibles.cpp` and
  `UnitChange.cpp`.

It also holds the TLC configurations that check the models, and TLAPS proofs.

## The system

The editor compiles trigger text into the map's TRIG section. It calls
`CompileTriggers(text, map, data, b, e)` to replace the range `[b, e)` of
triggers, or `CompileTrigger(text, trigger, map, data, i)` to replace slot `i`.
Each call runs these parts in order. All of them run on the single UI thread.

| Part | Code | What it does | Module |
|---|---|---|---|
| SymbolTableBuilder | `LoadCompiler`, `Prep*Table` (182-191, 3283-3466) | Rebuilds the name tables from the document: locations, units, switches, groups, scripts and strings. `PrepStringTable` enters every used string. Strings used only by triggers in the replaced range are marked unused. | `TrigCommit` (strings), `NameResolvers` (locations, switches, scripts) |
| TextNormalizer | `CleanText` (207-350), `findStringEnd` (3503-3519) | Uppercases outside quotes, drops whitespace and comments, normalises line ends to CR LF and decodes escapes inside strings. | `TextNormalizer` |
| TriggerParser | `ParseTriggers`, `ParsePartZero`..`ParsePartEleven` (352-1230) | A loop over the text driven by a state number `expecting` (0..12), with one handler per state. Each handler checks the text at `pos`, fills the current trigger, advances `pos` and sets the next state, or returns false. | `TrigParser` |
| NameResolvers | `ParseLocationName`, `ParseSwitch`, `ParseScript`, `ParseUnitName`, `ParsePlayer`, ... | Map a name, or a number, to an id. | `NameResolvers` (locations, switches, scripts) |
| StringInterner | `ParseString` (2054-2120) | Looks a quoted literal up in the string table and reuses a matching id. | `TrigCommit` |
| MapCommitter | `BuildNewMap` (3468-3501) and the tail of `CompileTriggers` | Backs up the strings, splices the new triggers into `[b, e)` and deletes unused strings. It should then add new strings. On a throw it puts the old range back and restores the strings. `CompileTriggers` then swaps the parsed list into the TRIG section. | `TrigCommit` |

An edit of a unit's field in the editor records a `UnitChange` in a
`ReversibleActions` group. Undo and redo both call
`ReversibleActions::Reverse` on the group. `UndoGroups` models this.

The rest of `src/` is editor UI (dialogs, list views, the CUWP editor) and
file I/O (`SystemIO.cpp`).

## Modules

### `TrigParser`: the parse loop

The state is:

| Variable | What it is |
|---|---|
| `expecting` | The parser state. |
| `tok` | The lexeme at `pos`. |
| `line` | The line number. |
| `currTrig` | The current trigger: its owners, and its conditions and actions with their types, Disabled flags and filled argument count. |
| `argIndex` | The index of the next argument. |
| `output` | The triggers pushed so far. |
| `result` | `running`, `ok` or `error`. |

The text is not built character by character. It is a stream of lexemes, such
as `TRIGGER(`, a player with its `,` or `)`, a section keyword, a condition or
action name with its `(`, one argument, `);`, a lone `;`, a flags literal, a
line end, and the `'\0'` that `ParseTriggers` appends. The stream is revealed
one lexeme at a time (`Consume`), so TLC explores every text within the bounds.

`ParsePartSeven` looks ahead: when it meets a stray `;` in the action list, it
asks whether any `(` occurs later in the text. Two prophecy variables,
`mustParen` and `noParen`, fix that answer when the `;` is revealed and keep the
rest of the stream consistent with it. `ntrig` counts the `TRIGGER(` lexemes.

Each handler is one action, and its disjuncts are the handler's branches,
error returns included. `LineEnd` is the CR LF skip at the top of the loop.
`AddCondition` and `AddAction` include the capacity check as the code writes it.
They reset `argIndex` to 0 before that check, as the code does (lines 791 and
1034), so the capacity error is reachable whatever `argIndex` held.
`ArgStep` is the shared argument step of states 5 and 8:

* It parses an argument only while the descriptor has one.
* The argument must be the last exactly when the next entry is `NoType`.
* `);` ends the call only when the descriptor is exhausted.

What an argument or name resolves to is abstracted to "resolves" or "does not".
A name of the wrong kind is `BadName`. `NameResolvers` models what a
location, switch or script argument resolves to.

### `TrigCommit`: the compile calls against the document

The state is:

| Variable | What it is |
|---|---|
| `trigs` | The TRIG section. Each trigger is reduced to a tag and the set of string ids its actions reference (`actionUsesStringArg` / `actionUsesSoundArg`). |
| `strs` | The content of each string id, or `NoContent`. |
| `last` | A history variable: the last call, its range, its text, the triggers it produced and whether it returned true. |

The constant `OtherUsed` holds the ids used by locations, switches and force
names. A text is what it parses to: a list of triggers, each with the string
literals of its actions. The operators map to the code as follows:

* `Resolve` is `ParseString` against `TableIds`, the table built by
  `PrepStringTable`. Of several matching ids it returns any one, since the
  order of an `unordered_multimap` bucket is not fixed. A literal that is not
  found leaves id 0, as the code does.
* `BuildNewMap` is the whole function. On success it splices the triggers
  (`Splice`, the `replaceRange` of the code) and deletes unused strings
  (`Cleaned`). On failure it puts back `ReplacedRange` over
  `[b, b + |replaced|)` and restores the strings. A throw from
  `deleteUnusedStrings` is a nondeterministic choice.
* `CompileTriggers` adds the trailing `swap`. `CompileTrigger` adds the check
  that the text holds exactly one trigger. A syntax error is `Rejected`, which
  changes nothing.

`replaceRange` and `swap` belong to the document library, which is not part of
this repository. They are modelled by what their names and `BuildNewMap`'s use
of their results say.

### `TextNormalizer`: `CleanText`

The state is:

| Variable | What it is |
|---|---|
| `text` | The input text, chosen in `Init` among all texts up to `MaxLen` characters. |
| `pos` | The loop index. |
| `dest` | The output buffer. |
| `status` | `run` inside the loop, `done` at its end, or `ub` when a read fell outside the text. |
| `quoted` | A history variable: where in `dest` each string that `CleanText` wrote opens and closes. |

Characters are named by strings. `"Q"` is `"`, `"BS"` is `\` and `" "` is a
blank. Each case of the loop's `switch` is one action:

* `CleanBlank`: blanks are dropped.
* `CleanLineEnd`: each line end becomes CR LF.
* `CleanComment`: a lone `/` is dropped, and after `//` the loop skips to
  `CommentSkip`.
* `CleanString`: the string case.
* `CleanOther`: any other character, upper-cased.
* `CleanFinish`: the end of the loop.

`CommentSkip` keeps the chain of `find` calls exactly as written. Each search
runs only when the one before it found something. `CleanString` finds the
closing quote with `FindStringEnd`, the `findStringEnd` that the parser also
uses. It decodes the body with `Decode` (escapes `\r \n \t \" \\ \xHH` and
`<HH>`) and writes the string as a whole. A read past the `'\0'` sets `status`
to `ub`, the undefined read of the code. These helpers are `RECURSIVE`, so the
module is for TLC only.

### `NameResolvers`: the name tables and the resolvers

The state is:

| Variable | What it is |
|---|---|
| `locName`, `swName`, `scriptName` | The names in the map, chosen in `Init`. |
| `last` | The last resolution: its kind, its token and its result. |

The tables are rebuilt from those names:

* `LocationTable` is `PrepLocationTable`. It holds "No Location" as 0 and
  Anywhere at its own index. Every other location gets `LocationId(i) = u8(i+1)`.
* `SwitchTable` is `PrepSwitchTable`.
* `ScriptTable` is `PrepScriptTable`. It inserts a default-constructed node,
  with an empty name and id 0.

`Lookup` is the bucket search of `ParseLocationName` and `ParseSwitch`. The
constant `Hash` is `strHash`, and the run gives two names the same hash:

* a lone node in the bucket is compared by name;
* among several nodes, the lowest id of the exact matches wins.

`ScriptLookups` gives every result a `ParseScript` bucket walk can give,
because the order of the walk is not fixed.

Each action is one argument resolved by the parser: `ResolveLocation`,
`ResolveSwitch` or `ResolveScript`. Each includes the numeric fallback
(`ParseLong`, `ParseByte`) that `ParseConditionArg` and `ParseActionArg` try
after the name. `SwitchLiteral` is the `SWITCHn` branch: `atoi` into a `u8`,
a zero test, then the decrement. `NumericArg` is modelled from spec 4.3,
because `ParseByte` and `ParseLong` are in the document library.

### `UndoGroups`: undo and redo of a group of unit edits

The state is:

| Variable | What it is |
|---|---|
| `units` | The unit fields. |
| `actions` | The group's `UnitChange`s, in insertion order. |
| `reversed` | The flag `reversed` of `ReversibleActions`. |
| `before`, `after` | History variables: the unit data before the group and after its last edit. |
| `closed` | A history variable: the group has been reversed at least once. |

The actions are:

* `Record(u, f, v)` sets a field and inserts `UnitChange::Make(u, f, old)`.
* `Reverse` is `ReversibleActions::Reverse`:
  * a loop of `UnitChange::Reverse`, which swaps the remembered value with the
    field's value, over the actions in `VisitOrder`. `ReverseRun(st, ord)` is
    the loop as a recursive function: its `k`-th entry is the group after the
    first `k` calls, and `ReversePass` is its last entry;
  * `VisitOrder` is insertion order when `reversed` is false and backward order
    when it is true, as the two loops of the code;
  * then the flag flip.

`UndoSpec` is the abstract specification of a group: what it promises without
its `UnitChange`s. Its state is the unit data, the data the edits left
(`after`), the fields the group edited (`touched`), whether the last
`Reverse` was an undo (`undone`), and whether the group is `open`. Its
actions are:

* `Edit(k, v)` while the group is open;
* `Undo`, which closes the group and may rewrite only the fields in `touched`;
* `Redo`, which sets the data to `after`.

`Undo` does not promise to restore the data from before the group: the code
does not (run `undo_order`). `UndoGroups` maps onto it with `Abs`, where
`touched` is `EditedFields` (the fields the `UnitChange`s name), `undone` is
`reversed`, and `open` is `~closed`. `UndoRefined == Abs!Spec` is checked
as a property.

## Runs

| Run | Result | What it shows |
|---|---|---|
| `parser_safety` (`MC_TrigParser.cfg`) | pass, 2,028,431 states | See below. |
| `parser_capacity` | violation of `CapacityRespected` | A trigger that already holds `MaxConditions` conditions accepts one more, because the check is `>` where it should be `>=` (lines 792, 980, 1036). In the code this writes one slot past `Chk::Trigger::conditions`. |
| `parser_semicolon` | violation of `StraySemicolonRejected` | In the action list, a lone `;` is skipped with no error when no `(` follows anywhere later in the text (line 966). The same `;` is an error when a `(` does follow, so whether a text compiles depends on unrelated later text. |
| `commit_safety` (`MC_TrigCommit.cfg`) | pass, 5,784 states | See below. |
| `commit_rollback` | violation of `FailureAtomic` | Insert one trigger into an empty range and let the build throw. The rollback replaces `[b, b+0)` and leaves the new trigger in place (line 3496). |
| `commit_range` | violation of `RangeReplaced` | A successful compile of a range that is not the whole list replaces the whole list (the `swap` at line 39). |
| `commit_interning` | violation of `LiteralsInterned` | A literal that is not in the map compiles with success, but its action references no string. `ParseString` never registers the new node (line 2110). |
| `clean_safety` (`MC_TextNormalizer.cfg`) | pass, 361,954 states | `ParserReady` holds for every text of up to five characters over letters, blanks, every line end, `/`, quotes and the escapes `\n`, `\"` and `\\`. See below. |
| `resolver_safety` (`MC_NameResolvers.cfg`) | pass, 67,068 states | `LookupExact`: a location or switch name resolves to the lowest id among the nodes that carry exactly that name, and fails when no node does. This holds whatever other names share its hash bucket. |
| `resolver_location` | violation of `LocationResolvesToIndex` | A named location that is not Anywhere resolves to the id of the next location, `u8(i+1)` (line 3305), while Anywhere resolves to its own index. |
| `undo_safety` (`MC_UndoGroups.cfg`) | pass, 6,975 states | `RedoRestores`: after any number of undo and redo calls, each redo gives back the data the edits left. The backward pass exactly inverts the forward pass before it. `UndoRefined`: the group implements `UndoSpec`, so an undo also rewrites only the fields the group edited. |
| `undo_order` | violation of `UndoRestores` | Two edits of one field, 0 to 1 and then back to 0, are undone to 1. The first `Reverse` replays the group in insertion order (Reversibles.cpp:27), while an undo needs the reverse order. |

`parser_safety` checks every text of at most two `TRIGGER(` and two lines:

* `ArgsMatchDescriptor`: every emitted condition and action has exactly its
  descriptor's arguments.
* `DeadStatesUnreachable`: states 6 and 9 are never entered.
* `CompleteOnSuccess`: a successful parse has pushed every trigger it began.

`commit_safety` checks every call on every document of at most two triggers
over two string ids, one of them also used by a location:

* `NoDanglingStringRefs`: no string that a trigger or another user references
  is ever deleted.
* `SingleCompileAtomic`: `CompileTrigger` replaces exactly slot `i` on success
  and changes nothing on failure. Its rollback is right because it always
  replaces one trigger with one.

`ParserReady` says that the parser, walking the cleaned text with
`findStringEnd`, delimits exactly the strings `CleanText` wrote. It also says
that outside them there is no lower-case letter or blank, and that every line
end is CR LF. It holds for this alphabet because the escaped quote is written
back as `\"`.

Each property of a passing run has a mutant, listed in `PROJECT.json`, that TLC
catches. `TypeOK` of `NameResolvers` bounds every switch id to `0..255`.
Dropping the `u8` truncation of `SWITCHn` (line 3096) breaks it.

The violation runs and the properties no run checks are not model-checking
artefacts. Each counterexample is a concrete text or edit sequence that can be
replayed against the code. `PROJECT.json` lists each finding with its line.

### Disagreements stated but not in a run

Five properties in the modules state what the spec or the code's own comments
say, and the code disagrees with each. They are kept out of the run list so
that the runs stay on the main findings. To reproduce one, add it as the only
`INVARIANT` of a copy of the module's cfg, with the alphabet named below.

* `TextNormalizer!LinesKept` (`MCCommentAlphabet`): for the text `//` LF, the
  line end is lost. After `//`, `CleanText` searches for CR, then VT and FF,
  only while the previous search succeeded (`!= npos` at line 237, where
  `== npos` was meant). The last search fails, so the loop jumps to the end of
  the text, and a comment deletes every later line.
* `TextNormalizer!NoUndefinedRead` (`MCQuoteAlphabet`): for the text `"`, the
  inner loop of the string case reads past the end. `findStringEnd` returns
  npos and `while (pos < closeQuotePos)` does not stop. The empty literal `""`
  does the same, because `findStringEnd` steps over a quote at its start (line
  3510).
* `TextNormalizer!ParserReady` (`MCHexAlphabet`, `MaxLen = 7`): `"<<22>"`
  cleans to `"<""`. The escape `<22>` decodes to a raw quote (line 323), and
  the parser ends the string there.
* `NameResolvers!SwitchLiteralResolves`: `SWITCH256` is rejected and
  `SWITCH257` names switch 1, because `atoi` is stored in a `u8` before the
  zero test (line 3096).
* `NameResolvers!ScriptResolves`: no script resolves by name, because the
  nodes of `PrepScriptTable` have no name (line 3463). A four-character code
  keeps only its first byte (line 3219).

### Bounds

The parser run uses:

* one condition type with two arguments and one action type with one argument;
* `MaxConditions = 1` and `MaxActions = 0`, so the capacity checks and their
  off-by-one are reached within two conditions and one action;
* the groups `{0, 28}`, one valid and one with no owner slot;
* two triggers and two lines.

That is enough for every handler branch, for a trigger pushed and another
begun, and for both sides of the stray-`;` lookahead.

The commit run uses one trigger tag, two contents, two ids, documents of up to
two triggers and texts of up to one trigger. The cases that matter all occur at
this size:

* ranges that are empty, partial and full;
* a new count different from the replaced count;
* a string shared between a trigger and a location;
* a string used only inside the replaced range;
* a literal that is not in the map.

The `CleanText` run covers every text of up to five characters over nine
characters, 9^5 texts of length five alone. Each branch and their mixes occur
at this length:

* a CR LF pair and a lone CR;
* a comment between two lines;
* an escaped quote or backslash inside a string;
* an unterminated string.

The resolver run uses three locations (the second is Anywhere), three
switches and one script. Every location and switch is named by one of two
names, which share one hash bucket, or has no name. So the run has:

* buckets of one node and of several;
* exact and inexact matches;
* duplicate names.

The tokens add numbers around the byte limit and `SWITCHn` literals for 1,
255, 256 and 257.

The undo run uses one unit, two fields, three values and groups of up to
three edits. That allows two edits of one field, an edit of another, and any
number of undo and redo calls.

### Fairness

No liveness property is checked. The compiler is a single synchronous call on
the UI thread, so no fairness assumption applies. `CleanText` and the parser
return from every call, so their runs set `CHECK_DEADLOCK FALSE`: the loop
ends in a final state and the call returns.

Whether the parse loop terminates depends on `pos` strictly increasing, which
the token abstraction makes true by construction, so it is not checked here.
Undo and redo are user commands, and nothing in the code must eventually
happen.

## Proofs

### `TrigCommit_proofs`

The theorems hold for every value of the constants, under `CommitAssumption`:
`NoContent` is not a content, `OtherUsed` is a set of ids, and the bounds are
naturals.

* `TypeCorrect`: `Spec => []TypeOK`.
* `NoDangling`: `Spec => []NoDanglingStringRefs`.
* `SingleCompileIsAtomic`: `Spec => SingleCompileAtomic`. This is the
  positive counterpart of the `commit_rollback` finding.

`NoDanglingStringRefs` is not inductive by itself. Its preservation needs to
know that the trigger list is a sequence of triggers, so the inductive
invariant is `Inv == TypeOK /\ NoDanglingStringRefs`. The argument has these
steps:

* `InitInv`: the initial state satisfies `Inv`.
* `RejectedInv`: a rejected call changes nothing that `Inv` depends on.
* `BuildNewMapInv` covers both outcomes of a build:
  * On success, the installed list (spliced or swapped) has only elements of
    the spliced list (`SpliceProps`). `Cleaned` keeps every string that list
    or another user references. Such a string is either referenced by the old
    list, so it has content by the hypothesis, or comes from `Resolve`, which
    only returns ids with content (`ResolvedProps`).
  * On failure, the list after the rollback has only elements of the old and
    the parsed lists, whatever the wrong end index is, and the strings are
    restored.
* `NextInv`: `Inv` is preserved by every step.
* The first two theorems follow by PTL.

`SingleCompileIsAtomic` adds two results. The lemma `SpliceUndo` shows that
`replaceRange(b, b + |q|, q)` undoes `replaceRange(b, e, r)` when
`|r| = e - b`, where `q` is the replaced range. It is proved element by
element from `SpliceElems`. `CompileTriggerStep` then shows that every
`CompileTrigger` step, in each of its outcomes, satisfies the step formula
under `Inv`. `CompileTriggers` steps record `op = "all"` and so do not bear on
the property.

The lemmas on `SubSeq` and `\o` come from `SequenceTheorems`.

### `NameResolvers_proofs`

These theorems hold for every map, every `strHash` and any number of
locations and switches, under `ResolverAssumption`:

* `NoName` is not a table name;
* `Hash` maps every table name to a natural;
* `NumSwitches` is in `1..256`.

The theorems are:

* `TypeCorrect`: `Spec => []TypeOK`. Every resolved switch id fits a byte,
  whatever number a `SWITCHn` literal holds.
* `LookupExactInvariant`: `Spec => []LookupExact`. This holds for every hash
  function, collisions included, not only the one of the run.

`Inv == TypeOK /\ LookupExact` is inductive as it stands. The tables are
rebuilt from names that no step changes, and each step sets `last` afresh, so
no strengthening is needed. The argument has these steps:

* `NatMin`: a nonempty set of naturals has a least element, by well-founded
  induction on `<`.
* `ImageFinite` and `LocationTableFinite`, `SwitchTableFinite`,
  `ScriptTableFinite`: the tables are finite.
* `LookupIsExactMin`: on a finite table, the `CASE` of `Lookup` equals "fail
  when no node carries the name, else the least id of those that do". Its
  three cases are taken in turn:
  * a single node, compared by name;
  * several nodes with an exact match;
  * no match.
* `LocationArgType`, `SwitchArgType` and `ScriptArgType`: each resolver's
  result has the type `TypeOK` asks for. A switch id is `n % 256 - 1` or a
  table index below 256. A script name always fails, because the one script
  node has the empty name.
* `InitInv` and `NextInv`: `NextInv` has one step per action.

### `TrigParser_proofs`

These theorems hold for every arity table, every set of names and groups and
every bound, under `ParserAssumption`:

* the arities are naturals;
* `BadName` is neither a condition nor an action name, and the groups are
  naturals;
* the bounds are naturals, and `MaxLines` is at least 1.

The theorems are:

* `TypeCorrect`: `Spec => []TypeOK`.
* `ArgsMatchDescriptorHolds`: `Spec => []ArgsMatchDescriptor`.
* `DeadStatesUnreachableHolds`: `Spec => []DeadStatesUnreachable`.
* `CompleteOnSuccessHolds`: `Spec => []CompleteOnSuccess`.

None of the four is inductive by itself. They all follow from one inductive
invariant, `IInv`, which TLC also checks on the `parser_safety` instance
(2,028,431 states). Its conjuncts are these, and each says why it is needed:

* `TypeOK`.
* `expecting \in LiveStates`: the states some handler sets. This gives
  `DeadStatesUnreachable`, and it lets each step pick its handler.
* `EolBelowMax`: a revealed line end always has a line left, so `LineEnd`
  keeps `line` within `MaxLines`.
* `CondsFilled` and `ActsFilled`: every entry of the current trigger has its
  descriptor's arguments, except the last one while state 5 (or 8) fills it.
  That last entry holds `argIndex` slots, and `argIndex` is at most its
  arity. Without this, `ParsePartTwelve` could push a partly filled entry,
  and `ArgsMatchDescriptor` would not be preserved.
* `TrigCount`: until an error, the revealed `TRIGGER(` tokens are the pushed
  triggers, plus the open one (any state but 0), plus the token at `pos`
  when it is one.
* `OkAtEnd`: success is reported only in state 0 at the final `'\0'`.
  Together with `TrigCount`, this gives `CompleteOnSuccess`.

The argument has one lemma per handler (`PartZeroIInv` .. `PartTwelveIInv`,
`LineEndIInv`), and `NextIInv` combines them. Shared lemmas carry the common
steps:

* `ConsumeBounds`: revealing the next lexeme keeps the line and trigger
  counters in range.
* `FailIInv` and `FailResetIInv`: an error return.
* `MoveIInv`: a move between states that leaves the lists alone.
* `AddConditionIInv` and `AddActionIInv`: a new entry.

In states 5 and 8, `')'` is taken only once `argIndex` has reached the arity,
which completes the last entry. An argument is taken only while
`argIndex < arity`, which keeps the bound.

The argument step updates the last entry with one path `EXCEPT`
(`![list][Len(currTrig[list])].nargs = @ + 1`), not nested `@`. TLC reads
both forms alike, but the prover expands a nested `@` wrongly.

### `UndoGroups_proofs`

These theorems hold for every set of units, fields and values, and every
bound, under `UndoAssumption` (`MaxActions` is a natural and `Values` is not
empty):

* `TypeCorrect`: `Spec => []TypeOK`.
* `RedoRestoresHolds`: `Spec => []RedoRestores`.
* `Refinement`: `Spec => UndoRefined`, that is, the group implements
  `UndoSpec` under `Abs`.

`RedoRestores` is not inductive: it says nothing about a reversed group, and
the redo that follows must bring the data back. The inductive invariant
`UInv` adds these conjuncts, and TLC checked it on the `undo_safety` instance
(6,975 states):

* `reversed => closed`: a reversed group takes no more edits, so its
  `UnitChange`s stay those the undo visited.
* `reversed => ReversePass(Current, BackwardOrder(Len(actions))).m = after`:
  the backward loop of the next `Reverse` would give back what the edits left.

The argument has these steps:

* `SetInduction`: induction over the naturals, stated on the set of
  counterexamples and proved from well-foundedness of `<`.
* `RunDef` and `RunSteps`: `ReverseRun` satisfies its recursive equation,
  through `FiniteNatInductiveDef`.
* `ReverseType` and `ReverseTwice`: one `UnitChange::Reverse` keeps a group
  of `n` actions a group of `n` actions. Applied twice to the same action, it
  changes nothing, because it swaps rather than overwrites.
* `RunType`, `RunCons` and `BackwardPassCons`: a loop stays well typed, and
  the backward loop over `k` actions is action `k` followed by the backward
  loop over `k - 1`.
* `PassInvolution`: the backward loop undoes the forward loop, by induction
  on the number of actions. This is where the order of the two loops in the
  code matters: with the mutant `VisitOrderAlwaysForward` it is false.
* `InitUInv`, `RecordUInv`, `ReverseUInv` and `NextUInv`.

The refinement rests on `UInv` and two more lemmas:

* `ReverseFrame` and `RunFrame`: a loop keeps every action's unit and field,
  and leaves every field the group's actions do not name as it was.
* `ReverseKeepsFrame`: so `Reverse` keeps `EditedFields` and changes no field
  outside it.

Then `NextRefines` maps each step:

* `Record` maps to `Edit`;
* the forward loop maps to `Undo`;
* the backward loop maps to `Redo`, by the last conjunct of `UInv`.

The loop was first written as `FoldLeft`, which is `RECURSIVE` in `Folds` and
out of the provers' reach. It is now the recursive function `ReverseRun`,
with the same steps in the same order, and TLC's state counts did not change.

### What stays with TLC only

* The parser findings: `CapacityRespected` and `StraySemicolonRejected` are
  violated, so there is nothing to prove about them.
* `TextNormalizer`. `FindStringEnd`, `Decode` and `ParserStrings` are
  `RECURSIVE`, which puts the module out of the provers' reach. `Decode`
  also steps by different amounts for each escape, so it is not the
  primitive recursion `FiniteNatInductiveDef` covers. Besides, `ParserReady`
  is false in general: the text `"<<22>"` of length 7 violates it (see
  above). It holds for the alphabet of `clean_safety`, which has no hex escape, up
  to five characters, so there is no theorem for every length to prove.
* The violated properties of the other findings (`FailureAtomic`,
  `RangeReplaced`, `LiteralsInterned`, `UndoRestores`,
  `LocationResolvesToIndex`).
* Any liveness.

## Not modelled

* The resolvers for units, players, groups, forces, AI actions, sounds and
  the other argument types, and `PrepUnitTable` and `PrepGroupTable`.
  `TrigParser` abstracts their results to "resolves" or "does not".
* Arguments split over a line end between `)` and `;`. The code accepts
  `)` CR LF `;`, and the lexeme `);` does not split.
* Undo groups other than unit changes, and the undo stack that holds the
  groups (it is in the document library, outside `src/`).
* The editor UI and `SystemIO`. These are Win32 message handling and file I/O,
  and the compiler does not depend on them.

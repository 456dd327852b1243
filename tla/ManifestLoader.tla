--------------------------- MODULE ManifestLoader ---------------------------
(***************************************************************************)
(* ManifestLoader of packages/manifest-engine: its YAML parser for         *)
(* manifest.yaml, line by line, the two validators and the cache.  A line  *)
(* is [indent, dash, key, value]: "- " or not, the key before a colon or   *)
(* NoKey, the scalar behind it or NoValue.  Values are trees: Scal, Arr    *)
(* and Tree, a map being its entries in order.                             *)
(***************************************************************************)
EXTENDS Naturals, Sequences, FiniteSets, SequencesExt

CONSTANTS
  Documents,     \* manifests as they are meant: trees whose scalars are words
  BlankBefore,   \* "entries" or "anything": lines that may follow a comment line
  PluginNames,   \* words that match the pattern of plugin names
  Versions,      \* words that match the pattern of versions
  NoKey, NoValue

Scal(type, v) == [kind |-> "scalar", type |-> type, v |-> v]
Arr(items) == [kind |-> "array", items |-> items]
Tree(entries) == [kind |-> "map", entries |-> entries]
Blank == [indent |-> 0, dash |-> FALSE, key |-> NoKey, value |-> NoValue]
Void == Tree(<<>>)

VARIABLES
  cache,         \* ManifestLoader.#cache: plugin name to manifest
  load           \* the last call: [document, parsed, verdict]

loaderVars == <<cache, load>>

-----------------------------------------------------------------------------

\* A word is [quoted, remark, form, v]: in quotes, before " # ...", its look.
ParseScalar(w) ==
  IF w.quoted THEN Scal(IF w.remark THEN "text with quotes" ELSE "text", w.v)
  ELSE Scal(IF w.form \in {"null", "boolean", "number"} THEN w.form ELSE "text", w.v)

\* Mutant of PeekLine: the indentation is not looked at.
PeekAnyLine(lines, i, least) ==
  LET later == {j \in i..Len(lines) : lines[j] # Blank}
  IN IF later = {} THEN 0 ELSE CHOOSE j \in later : \A k \in later : j <= k

\* The next line that is neither empty nor a comment, 0 if it is indented less.
PeekLine(lines, i, least) ==
  LET later == {j \in i..Len(lines) : lines[j] # Blank}
      first == CHOOSE j \in later : \A k \in later : j <= k
  IN IF later = {} \/ lines[first].indent < least THEN 0 ELSE first

\* result[key] = value, at the place it has.
Put(entries, key, value) ==
  LET at == {i \in DOMAIN entries : entries[i].key = key}
  IN IF at = {} THEN Append(entries, [key |-> key, value |-> value])
     ELSE [i \in DOMAIN entries |-> IF i \in at THEN [key |-> key, value |-> value] ELSE entries[i]]

\* Looks at line i for the dash, though the item may be on a later line.
IsObjectArrayEntry(lines, i, indent) ==
  LET next == PeekLine(lines, i + 1, indent + 1)
  IN lines[i].key # NoKey /\ next # 0 /\ lines[next].key # NoKey /\ ~lines[next].dash

ScalarOf(line) == IF line.value = NoValue THEN Scal("text", "") ELSE ParseScalar(line.value)

RECURSIVE ParseMapBlock(_, _, _, _), ParseArrayBlock(_, _, _, _)

\* The first line says which of the two it is.
ParseBlock(lines, i, least) ==
  LET at == PeekLine(lines, i, least)
  IN CASE at = 0 -> [value |-> Void, next |-> i]
       [] at # 0 /\ lines[at].dash -> ParseArrayBlock(lines, i, least, <<>>)
       [] OTHER -> ParseMapBlock(lines, i, least, <<>>)

\* A step goes on behind line i, also where the item was found further down.
ParseArrayBlock(lines, i, least, items) ==
  LET at == PeekLine(lines, i, least)
      line == lines[at]
      nested == ParseMapBlock(<<[line EXCEPT !.dash = FALSE]>> \o SubSeq(lines, i + 1, Len(lines)),
                              1, line.indent, <<>>)
  IN CASE at = 0 \/ (at # 0 /\ ~line.dash) -> [value |-> Arr(items), next |-> i]
       [] at # 0 /\ line.dash /\ IsObjectArrayEntry(lines, i, line.indent) ->
            ParseArrayBlock(lines, i + nested.next - 1, least, Append(items, nested.value))
       [] OTHER ->
            LET item == IF line.key = NoKey THEN ScalarOf(line)
                        ELSE Tree(<<[key |-> line.key, value |-> ScalarOf(line)]>>)
            IN ParseArrayBlock(lines, i + 1, least, Append(items, item))

ParseMapBlock(lines, i, least, entries) ==
  LET at == PeekLine(lines, i, least)
      line == lines[at]
      nested == ParseBlock(lines, i + 1, line.indent + 2)
  IN CASE at = 0 \/ (at # 0 /\ line.dash) -> [value |-> Tree(entries), next |-> i]
       [] at # 0 /\ ~line.dash /\ line.key = NoKey -> ParseMapBlock(lines, i + 1, least, entries)
       [] OTHER ->
            IF line.value = NoValue /\ PeekLine(lines, i + 1, line.indent + 1) # 0
              THEN ParseMapBlock(lines, nested.next, least, Put(entries, line.key, nested.value))
              ELSE ParseMapBlock(lines, i + 1, least, Put(entries, line.key, ScalarOf(line)))

-----------------------------------------------------------------------------

Has(tree, key) == tree.kind = "map" /\ \E i \in DOMAIN tree.entries : tree.entries[i].key = key
At(tree, key) == LET i == CHOOSE i \in DOMAIN tree.entries : tree.entries[i].key = key
                 IN tree.entries[i].value
IsText(tree) == tree.kind = "scalar" /\ tree.type = "text"
Field(tree, key, test(_)) == Has(tree, key) /\ test(At(tree, key))
IsName(tree) == IsText(tree) /\ tree.v \in PluginNames
IsVersion(tree) == IsText(tree) /\ tree.v \in Versions
Partitions == {"SYSTEM", "oa", "erp", "mes", "isolated"}

\* An item of cron: three texts that are not empty.
JobKeys == <<"name", "schedule", "handler">>
IsJob(tree) == \A i \in DOMAIN JobKeys : Field(tree, JobKeys[i], LAMBDA t : IsText(t) /\ t.v # "")

\* manifestSchema, for the fields that Documents have.
SchemaAccepts(m) ==
  /\ Field(m, "name", IsName) /\ Field(m, "version", IsVersion)
  /\ Has(m, "display_name") => IsText(At(m, "display_name")) /\ At(m, "display_name").v # ""
  /\ Has(m, "dependencies") =>
       LET deps == At(m, "dependencies")
       IN deps.kind = "array" /\ \A i \in DOMAIN deps.items : IsName(deps.items[i])
  /\ Has(m, "runtime") =>
       LET runtime == At(m, "runtime")
       IN /\ Field(runtime, "mode", LAMBDA t : IsText(t) /\ t.v = "inline")
          /\ Field(runtime, "partition", LAMBDA t : IsText(t) /\ t.v # "")
  /\ Has(m, "cron") =>
       LET jobs == At(m, "cron")
       IN jobs.kind = "array" /\ \A i \in DOMAIN jobs.items : IsJob(jobs.items[i])

\* What the schema makes of an object: its own keys, in its order, with defaults.
Shaped(tree, keys, defaults) ==
  LET Of(key) == CASE Has(tree, key) -> <<[key |-> key, value |-> At(tree, key)]>>
                   [] ~Has(tree, key) /\ key \in DOMAIN defaults ->
                        <<[key |-> key, value |-> defaults[key]]>>
                   [] OTHER -> <<>>
  IN Tree(FlattenSeq([i \in DOMAIN keys |-> Of(keys[i])]))

ManifestKeys == <<"name", "version", "display_name", "license", "dependencies", "assets", "runtime",
                  "security", "models", "permissions", "data", "cron">>
Defaults == "license" :> Scal("text", "Apache-2.0") @@ "security" :> Void
              @@ [key \in {"dependencies", "assets", "models", "permissions", "data", "cron"} |-> Arr(<<>>)]
RuntimeKeys == <<"mode", "partition", "crash_policy">>

\* The manifest that validation gives back for a tree that the schema accepts.
ManifestOf(m) ==
  LET shaped == Shaped(m, ManifestKeys, Defaults).entries
      Inner(key, tree) ==
        CASE key = "runtime" -> Shaped(tree, RuntimeKeys, "crash_policy" :> Scal("text", "restart"))
          [] key = "cron" -> Arr([i \in DOMAIN tree.items |-> Shaped(tree.items[i], JobKeys, <<>>)])
          [] OTHER -> tree
  IN Tree([i \in DOMAIN shaped |-> [shaped[i] EXCEPT !.value = Inner(shaped[i].key, @)]])

\* The code of the error, or "valid".
ValidateManifest(m) ==
  LET runtime == IF Has(m, "runtime") THEN At(m, "runtime") ELSE Void
  IN CASE Field(m, "name", LAMBDA t : IsText(t) /\ t.v \notin PluginNames) -> "NAME_FORMAT_ERROR"
       [] Field(m, "version", LAMBDA t : IsText(t) /\ t.v \notin Versions) -> "VERSION_FORMAT_ERROR"
       [] Field(runtime, "mode", LAMBDA t : ~(IsText(t) /\ t.v = "inline")) -> "MODE_ERROR"
       [] Field(runtime, "partition", LAMBDA t : IsText(t) /\ t.v \notin Partitions) -> "PARTITION_ERROR"
       [] OTHER -> IF SchemaAccepts(m) THEN "valid" ELSE "VALIDATION_ERROR"

\* Never looks at the partition, and wants the display name.
ValidateManifestSafe(m) == Has(m, "display_name") /\ SchemaAccepts(m)

-----------------------------------------------------------------------------

\* How a document is written: two more columns for what belongs to a line.
RECURSIVE Written(_, _, _), Means(_)
Written(tree, indent, first) ==
  LET Line(dash, key, value) == [indent |-> indent, dash |-> dash, key |-> key, value |-> value]
      Entry(e, dash) ==
        IF e.value.kind = "scalar" THEN <<Line(dash, e.key, e.value.v)>>
        ELSE <<Line(dash, e.key, NoValue)>> \o Written(e.value, indent + (IF dash THEN 4 ELSE 2), FALSE)
      Deeper(e) == Written(Tree(<<e>>), indent + 2, FALSE)
  IN IF tree.kind = "array"
       THEN FlattenSeq([i \in DOMAIN tree.items |->
              IF tree.items[i].kind = "scalar" THEN <<Line(TRUE, NoKey, tree.items[i].v)>>
              ELSE Written(tree.items[i], indent, TRUE)])
       ELSE FlattenSeq([i \in DOMAIN tree.entries |->
              IF ~first THEN Entry(tree.entries[i], FALSE)
              ELSE IF i = 1 THEN Entry(tree.entries[i], TRUE) ELSE Deeper(tree.entries[i])])

\* What it means: its words as scalars.
Means(tree) ==
  CASE tree.kind = "scalar" ->
         Scal(IF tree.v.quoted \/ tree.v.form \notin {"null", "boolean", "number"}
                THEN "text" ELSE tree.v.form, tree.v.v)
    [] tree.kind = "array" -> Arr([i \in DOMAIN tree.items |-> Means(tree.items[i])])
    [] OTHER -> Tree([i \in DOMAIN tree.entries |->
                  [key |-> tree.entries[i].key, value |-> Means(tree.entries[i].value)]])

Commented(lines, i) == SubSeq(lines, 1, i - 1) \o <<Blank>> \o SubSeq(lines, i, Len(lines))

\* A document as a file: as it is, or with a comment line before one of its lines.
Files(document) ==
  LET lines == Written(document, 0, FALSE)
  IN {lines} \cup {Commented(lines, i) : i \in {j \in DOMAIN lines :
                                        BlankBefore = "anything" \/ ~lines[j].dash}}

LoaderInit ==
  /\ cache = [n \in PluginNames |-> Void]
  /\ load = [document |-> Void, parsed |-> Void, verdict |-> "none"]

LoadFromString(document, lines) ==
  LET parsed == ParseBlock(lines, 1, 0).value
      verdict == ValidateManifest(parsed)
  IN /\ load' = [document |-> document, parsed |-> parsed, verdict |-> verdict]
     /\ cache' = IF verdict = "valid" THEN [cache EXCEPT ![At(parsed, "name").v] = ManifestOf(parsed)]
                ELSE cache

\* ManifestLoader.validate(): nothing is thrown and nothing cached.
Validate(document, lines) ==
  LET parsed == ParseBlock(lines, 1, 0).value
  IN /\ load' = [document |-> document, parsed |-> parsed,
                 verdict |-> IF ValidateManifestSafe(parsed) THEN "safe" ELSE "unsafe"]
     /\ UNCHANGED cache

ClearCache == cache' = [n \in PluginNames |-> Void] /\ UNCHANGED load

LoaderNext ==
  \/ \E d \in Documents : \E lines \in Files(d) : LoadFromString(d, lines) \/ Validate(d, lines)
  \/ ClearCache

-----------------------------------------------------------------------------

\* A manifest is read as it is written, with nested maps, arrays and comments.
\* What is cached under a name is what the schema makes of a valid document of
\* that name, and validating it once more, as registerManifests() does, gives
\* the same manifest.
ReadAsWritten ==
  /\ load.verdict # "none" => load.parsed = Means(load.document)
  /\ \A n \in PluginNames : cache[n] # Void =>
       /\ At(cache[n], "name").v = n
       /\ \E d \in Documents : /\ ValidateManifest(Means(d)) = "valid"
                              /\ cache[n] = ManifestOf(Means(d))
       /\ ValidateManifest(cache[n]) = "valid" /\ ManifestOf(cache[n]) = cache[n]
=============================================================================

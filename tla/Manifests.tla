----------------------------- MODULE Manifests -----------------------------
(***************************************************************************)
(* What packages/manifest-engine makes of manifests that are read: the     *)
(* fields that plugins add to the collections of others, merged by         *)
(* ExtendsResolver, and the order of versions.  Plugins are given one      *)
(* after the other, and the merge and the sort of all so far is kept.      *)
(***************************************************************************)
EXTENDS Integers, Sequences, FiniteSets, SequencesExt

CONSTANTS
  Loadable,      \* manifests: [plugin, version, collection, addFields], of which addFields is a
                 \* sequence of [name, type, required], and a version [core, pre, build], of which
                 \* core has three numbers, and pre is a sequence of [number, v]
  MaxPlugins     \* bound: manifests that are loaded

ASSUME ManifestsAssumption ==
  \A m \in Loadable :
    /\ m.addFields \in Seq(ToSet(m.addFields))
    /\ m.version.core \in [1 .. 3 -> Nat] /\ m.version.pre \in Seq([number : BOOLEAN, v : Int])

VARIABLES
  declared,      \* manifests in the order of loading
  merged,        \* [error, entries]: the code of the error of resolve() or "", and what it returns
  ordered        \* the versions of the plugins after semverSort()

manifestVars == <<declared, merged, ordered>>

\* As AddField would be without the comparison of types.
AddFieldAnyType(acc, fields, i) ==
  LET known == {g \in ToSet(acc.fields) : g.name = fields[i].name}
  IN IF acc.error # "" \/ known # {} THEN acc
     ELSE [fields |-> Append(acc.fields, fields[i]),
           error |-> IF \E j \in 1 .. i - 1 : fields[j].name = fields[i].name THEN "DUPLICATE_FIELD" ELSE ""]

\* A field of a declaration: twice in it, of another type than before, known, or new.  Of two
\* declarations of one type, the attributes of the first stand.
AddField(acc, fields, i) ==
  LET f == fields[i]
      same == {g \in ToSet(acc.fields) : g.name = f.name}
  IN IF acc.error # "" THEN acc
     ELSE IF \E j \in 1 .. i - 1 : fields[j].name = f.name
       THEN [fields |-> acc.fields, error |-> "DUPLICATE_FIELD"]
     ELSE IF \E g \in same : g.type # f.type THEN [fields |-> acc.fields, error |-> "TYPE_CONFLICT"]
     ELSE IF same # {} THEN acc
     ELSE [fields |-> Append(acc.fields, f), error |-> ""]

\* The loop of mergeDeclaration(), to its first error.
AddFields(known, fields) ==
  LET acc[i \in 0 .. Len(fields)] ==
        IF i = 0 THEN [fields |-> known, error |-> ""] ELSE AddField(acc[i - 1], fields, i)
  IN acc[Len(fields)]

\* mergeDeclaration(): the entry of the collection, and its sources, each once.
MergeDeclaration(result, d) ==
  LET entry == IF d.collection \in DOMAIN result.entries THEN result.entries[d.collection]
               ELSE [fields |-> <<>>, sources |-> <<>>]
      added == AddFields(entry.fields, d.addFields)
      sources == IF d.plugin \in ToSet(entry.sources) THEN entry.sources ELSE Append(entry.sources, d.plugin)
  IN IF result.error # "" THEN result
     ELSE IF added.error # "" THEN [error |-> added.error, entries |-> <<>>]
     ELSE [error |-> "",
           entries |-> [c \in DOMAIN result.entries \cup {d.collection} |->
             IF c = d.collection THEN [fields |-> added.fields, sources |-> sources] ELSE result.entries[c]]]

NothingMerged == [error |-> "", entries |-> <<>>]

\* resolve(): the first error ends it, and nothing is returned.
ResolveExtends(declarations) ==
  LET result[i \in 0 .. Len(declarations)] ==
        IF i = 0 THEN NothingMerged ELSE MergeDeclaration(result[i - 1], declarations[i])
  IN result[Len(declarations)]

-----------------------------------------------------------------------------
(* Versions.                                                               *)

Sign(n) == IF n > 0 THEN 1 ELSE IF n < 0 THEN -1 ELSE 0

\* Identifiers of a prerelease: numbers by value and below words, words by their order.
CompareIdentifiers(p, q) ==
  IF p.number = q.number THEN Sign(p.v - q.v) ELSE IF p.number THEN -1 ELSE 1

\* The first difference decides; none is above any, and a longer one above its beginning.
ComparePrerelease(p, q) ==
  LET n == IF Len(p) < Len(q) THEN Len(p) ELSE Len(q)
      differ == {i \in 1 .. n : CompareIdentifiers(p[i], q[i]) # 0}
  IN IF p = <<>> \/ q = <<>> THEN Sign(Len(q) - Len(p))
     ELSE IF differ # {} THEN LET i == CHOOSE i \in differ : \A j \in differ : i <= j
                              IN CompareIdentifiers(p[i], q[i])
     ELSE Sign(Len(p) - Len(q))

\* parseSemVer() drops the build; major, minor and patch are compared in this order.
CompareVersions(a, b) ==
  LET differ == {i \in 1 .. 3 : a.core[i] # b.core[i]}
  IN IF differ # {} THEN LET i == CHOOSE i \in differ : \A j \in differ : i <= j
                         IN Sign(a.core[i] - b.core[i])
     ELSE ComparePrerelease(a.pre, b.pre)

IsVersionGt(a, b) == CompareVersions(a, b) > 0

\* A version goes behind the last one that is not above it.
Insert(sorted, v) ==
  LET below == {0} \cup {i \in DOMAIN sorted : ~IsVersionGt(sorted[i], v)}
      last == CHOOSE i \in below : \A j \in below : j <= i
  IN [i \in 1 .. Len(sorted) + 1 |->
        IF i <= last THEN sorted[i] ELSE IF i = last + 1 THEN v ELSE sorted[i - 1]]

\* Array.prototype.sort() is stable: versions that compare as equal stay in the order they are given in.
SemverSort(versions) ==
  LET sorted[i \in 0 .. Len(versions)] == IF i = 0 THEN <<>> ELSE Insert(sorted[i - 1], versions[i])
  IN sorted[Len(versions)]

-----------------------------------------------------------------------------

ManifestsInit == declared = <<>> /\ merged = NothingMerged /\ ordered = <<>>

\* One more manifest is loaded, and its fields and its version join the others.
LoadManifest(m) ==
  /\ Len(declared) < MaxPlugins
  /\ declared' = Append(declared, m)
  /\ merged' = ResolveExtends(declared')
  /\ ordered' = SemverSort([i \in DOMAIN declared' |-> declared'[i].version])

ManifestsNext == \E m \in Loadable : LoadManifest(m)

-----------------------------------------------------------------------------

\* Whether plugins can be loaded together, and the fields that a collection then has, do not
\* depend on the order of loading: there is an error exactly if a declaration names a field
\* twice or two give one field different types, and else each field is there once, of its
\* type, and each plugin among the sources of what it extends.
OrderDoesNotMatter ==
  LET Of(c) == {i \in DOMAIN declared : declared[i].collection = c}
      Given(c) == UNION {ToSet(declared[i].addFields) : i \in Of(c)}
      Twice(i) == Cardinality({f.name : f \in ToSet(declared[i].addFields)}) < Len(declared[i].addFields)
      Collections == {declared[i].collection : i \in DOMAIN declared}
      Clash == \E c \in Collections : \E f, g \in Given(c) : f.name = g.name /\ f.type # g.type
  IN IF (\E i \in DOMAIN declared : Twice(i)) \/ Clash THEN merged.error # ""
     ELSE /\ merged.error = "" /\ DOMAIN merged.entries = Collections
          /\ \A c \in Collections :
               LET fields == merged.entries[c].fields
               IN /\ {<<f.name, f.type>> : f \in ToSet(fields)} = {<<f.name, f.type>> : f \in Given(c)}
                  /\ Cardinality({f.name : f \in ToSet(fields)}) = Len(fields)
                  /\ ToSet(merged.entries[c].sources) = {declared[i].plugin : i \in Of(c)}

\* The precedence that SemVer defines, on identifiers as pairs in its order.
Below(p, q) ==
  \E i \in 1 .. Len(q) :
    /\ i <= Len(p) + 1
    /\ \A j \in 1 .. i - 1 : p[j] = q[j]
    /\ i <= Len(p) => \/ p[i].number /\ ~q[i].number
                      \/ p[i].number = q[i].number /\ p[i].v < q[i].v
Precedes(a, b) ==
  \/ \E i \in 1 .. 3 : a.core[i] < b.core[i] /\ \A j \in 1 .. i - 1 : a.core[j] = b.core[j]
  \/ a.core = b.core /\ IF a.pre = <<>> THEN FALSE ELSE b.pre = <<>> \/ Below(a.pre, b.pre)

\* Every version that came in is there once for each time, and they are sorted as SemVer orders
\* them, those of one precedence as they came in.
SortedBySemver ==
  \E place \in [DOMAIN declared -> DOMAIN declared] :
    /\ DOMAIN ordered = DOMAIN declared
    /\ \A i \in DOMAIN declared : ordered[place[i]] = declared[i].version
    /\ \A i, j \in DOMAIN declared :
         /\ place[i] = place[j] => i = j
         /\ place[i] < place[j] => ~Precedes(declared[j].version, declared[i].version)
         /\ i < j /\ place[j] < place[i] => Precedes(declared[j].version, declared[i].version)

ExtensionsAgree == OrderDoesNotMatter /\ SortedBySemver
=============================================================================

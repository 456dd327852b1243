---------------------------- MODULE Translations ----------------------------
(***************************************************************************)
(* packages/i18n: the engine that keeps texts per language and falls back  *)
(* from one language to the next, the files these come from, and the       *)
(* translator that fills a text of a namespace in.  A text is a sequence   *)
(* of parts: words, places {{name}}, plurals {name, plural, ...} with      *)
(* branches, and the # that stands for the number in a branch.             *)
(***************************************************************************)
EXTENDS Integers, Sequences, FiniteSets, SequencesExt

CONSTANTS
  Locales,         \* languages that are asked for
  DefaultLocale, FallbackLocale,
  TextKeys,        \* [space, path], space NoSpace for a key without a namespace
  NoSpace,
  LocaleFiles,     \* [locale, state, texts]: state "missing", "broken", "list", "mixed" or "flat"
  Spaces,          \* the translator's texts: namespace -> path -> text
  ParamSets,       \* functions from names to values [number, v], or NoParams
  NoParams,
  MaxLoads         \* bound: files

IsSequence(s) == s \in Seq(ToSet(s))
AreParts(text, kinds) ==
  /\ IsSequence(text)
  /\ \A p \in ToSet(text) : DOMAIN p = {"part", "name", "branches"} /\ p.part \in kinds
\* No plural stands within a plural.
IsTemplate(text) ==
  /\ AreParts(text, {"word", "place", "count", "plural"})
  /\ \A p \in ToSet(text) : /\ IsSequence(p.branches)
                           /\ \A b \in ToSet(p.branches) : AreParts(b.text, {"word", "place", "count"})

ASSUME TextsAssumption ==
  /\ \A f \in LocaleFiles : f.state = "flat" => \A k \in DOMAIN f.texts : IsTemplate(f.texts[k])
  /\ \A s \in DOMAIN Spaces : \A path \in DOMAIN Spaces[s] : IsTemplate(Spaces[s][path])

VARIABLES
  translations,    \* I18nEngine.translations
  loads,           \* history: the files that were loaded
  shown            \* the last text asked for, by both engines

textVars == <<translations, loads, shown>>

NothingShown == [key |-> "none"]

TranslationsInit == translations = <<>> /\ loads = <<>> /\ shown = NothingShown

\* loadLocaleFile(): a file that cannot be read is an empty one; one that is no object, or has
\* a value that is not a text, is an error.
Readable(f) == f.state \in {"missing", "flat"}
Content(f) == IF f.state = "missing" THEN <<>> ELSE f.texts

\* Mutant of Merged: a text that is there stays.
MergedOnce(current, texts) ==
  [k \in DOMAIN current \cup DOMAIN texts |-> IF k \in DOMAIN current THEN current[k] ELSE texts[k]]

\* loadLocale(): texts are added to those of the language, the later ones win.
Merged(current, texts) ==
  [k \in DOMAIN current \cup DOMAIN texts |-> IF k \in DOMAIN texts THEN texts[k] ELSE current[k]]

LoadLocale(f) ==
  /\ Len(loads) < MaxLoads /\ Readable(f)
  /\ translations' = [l \in DOMAIN translations \cup {f.locale} |->
       IF l # f.locale THEN translations[l]
       ELSE Merged(IF l \in DOMAIN translations THEN translations[l] ELSE <<>>, Content(f))]
  /\ loads' = Append(loads, f)
  /\ shown' = NothingShown

\* The caller of loadLocaleFile() sees it throw, and has nothing to load.
LoadFails(f) == Len(loads) < MaxLoads /\ ~Readable(f) /\ UNCHANGED textVars

-----------------------------------------------------------------------------
(* What both do with places.                                               *)

Filled(v) == [part |-> "value", value |-> v, branches |-> <<>>]
ItsKey(key) == <<[part |-> "key", key |-> key, branches |-> <<>>]>>

FillPart(p, params, keep) ==
  CASE p.part # "place" \/ (keep /\ p.name \notin DOMAIN params) -> <<p>>
    [] p.part = "place" /\ p.name \in DOMAIN params -> <<Filled(params[p.name])>>
    [] OTHER -> <<>>
FillFlat(text, params, keep) == FlattenSeq([i \in DOMAIN text |-> FillPart(text[i], params, keep)])

\* The pattern of a place is replaced wherever it stands, in a branch of a plural, too.
FillBranches(branches, params, keep) ==
  [b \in DOMAIN branches |-> [branches[b] EXCEPT !.text = FillFlat(@, params, keep)]]
FillWithin(p, params, keep) == [p EXCEPT !.branches = FillBranches(@, params, keep)]
FillPlaces(text, params, keep) ==
  FillFlat([i \in DOMAIN text |-> FillWithin(text[i], params, keep)], params, keep)

-----------------------------------------------------------------------------
(* The engine.                                                             *)

LookupRaw(locale, key) ==
  LET chain == <<locale, DefaultLocale, FallbackLocale>>
      known == {i \in 1 .. 3 : chain[i] \in DOMAIN translations /\ key \in DOMAIN translations[chain[i]]}
  IN IF known = {} THEN ItsKey(key)
     ELSE translations[chain[CHOOSE i \in known : \A j \in known : i <= j]][key]

\* A place without a value stays as it is.
Interpolate(text, params) == FillPlaces(text, params, TRUE)

Translate(locale, key, params) ==
  LET raw == LookupRaw(locale, key)
  IN IF params = NoParams THEN raw ELSE Interpolate(raw, params)

-----------------------------------------------------------------------------
(* The translator.                                                         *)

\* A place without a value is filled with nothing.
InterpolateSimple(text, params) == FillPlaces(text, params, FALSE)

\* The count is zero without a value, and NaN with one that is no number.
CountOf(name, params) ==
  IF name \notin DOMAIN params THEN [number |-> TRUE, v |-> 0]
  ELSE IF params[name].number THEN params[name] ELSE [number |-> FALSE, v |-> 0]

\* The branch for exactly this number, else "one" for one, else "other", else nothing; of
\* several with one selector the last.  zero, few and many are not used.
Chosen(branches, count) ==
  LET Those(selector) == {i \in DOMAIN branches : branches[i].selector = selector}
      exact == {i \in Those("=") : count.number /\ branches[i].n = count.v}
      keyword == IF count.number /\ count.v = 1 THEN Those("one") ELSE {}
      fit == IF exact # {} THEN exact ELSE IF keyword # {} THEN keyword ELSE Those("other")
  IN IF fit = {} THEN <<>> ELSE branches[CHOOSE i \in fit : \A j \in fit : j <= i].text

\* A plural with a place in a branch does not match the pattern, and stands.
Stands(plural) == \E b \in ToSet(plural.branches) : \E p \in ToSet(b.text) : p.part = "place"

PluralPart(p, params) ==
  LET count == CountOf(p.name, params)
      branch == Chosen(p.branches, count)
  IN IF p.part # "plural" \/ Stands(p) THEN <<p>>
     ELSE [j \in DOMAIN branch |-> IF branch[j].part = "count" THEN Filled(count) ELSE branch[j]]
InterpolatePlural(text, params) == FlattenSeq([i \in DOMAIN text |-> PluralPart(text[i], params)])

\* The text of a key without a namespace is one of "client".
TextOfKey(key) ==
  LET space == IF key.space = NoSpace THEN "client" ELSE key.space
  IN IF space \in DOMAIN Spaces /\ key.path \in DOMAIN Spaces[space] THEN Spaces[space][key.path] ELSE <<>>

\* The key itself for a namespace or a text that is not there, or is empty.
TextFor(key, params) ==
  CASE TextOfKey(key) = <<>> -> ItsKey(key)
    [] TextOfKey(key) # <<>> /\ params = NoParams -> TextOfKey(key)
    [] OTHER -> InterpolateSimple(InterpolatePlural(TextOfKey(key), params), params)

-----------------------------------------------------------------------------

\* A page asks both for the text of a key, once between two loads.
Show(locale, key, params) ==
  /\ shown = NothingShown
  /\ shown' = [key |-> key, params |-> params, engine |-> Translate(locale, key, params), translator |-> TextFor(key, params)]
  /\ UNCHANGED <<translations, loads>>

TranslationsNext ==
  \/ \E f \in LocaleFiles : LoadLocale(f) \/ LoadFails(f)
  \/ \E l \in Locales, k \in TextKeys, p \in ParamSets \cup {NoParams} : Show(l, k, p)

-----------------------------------------------------------------------------

\* In whichever order files are loaded, a text is the last one loaded for the first language
\* of the chain that was ever given one, the chain being the language asked for, the default
\* and the fallback; files that fail or are missing take no part.
LastLoadedFirstAsked ==
  \A locale \in Locales, key \in TextKeys :
    LET Given(l) == {i \in DOMAIN loads : loads[i].locale = l /\ key \in DOMAIN Content(loads[i])}
        chain == <<locale, DefaultLocale, FallbackLocale>>
        text == LookupRaw(locale, key)
    IN /\ (\A j \in 1 .. 3 : Given(chain[j]) = {}) => text = ItsKey(key)
       /\ \A j \in 1 .. 3 : \A i \in Given(chain[j]) :
            (\A m \in 1 .. j - 1 : Given(chain[m]) = {}) /\ (\A m \in Given(chain[j]) : m <= i)
              => text = Content(loads[i])[key]

Words(text) == {p.name : p \in {q \in ToSet(text) : q.part = "word"}}

\* The branches of a plural that fit a number, and of these the last one with the most specific
\* selector: the number itself, then "one", then "other".
Fits(b, n) == \/ b.selector = "=" /\ b.n = n
              \/ b.selector = "one" /\ n = 1
              \/ b.selector = "other"
Above(b, c) == \/ b.selector = "=" /\ c.selector # "="
               \/ b.selector = "one" /\ c.selector = "other"
Best(branches, n) ==
  {i \in DOMAIN branches :
     /\ Fits(branches[i], n)
     /\ \A j \in DOMAIN branches : Fits(branches[j], n) =>
          Above(branches[i], branches[j]) \/ (branches[i].selector = branches[j].selector /\ j <= i)}

\* Every place has a value, every plural a number.
Supplied(text, params) ==
  \A p \in ToSet(text) :
    /\ p.part \in {"place", "plural"} => p.name \in DOMAIN params
    /\ p.part = "plural" => params[p.name].number /\ ~Stands(p)

\* A translator that is given a value for every place and a number for every plural leaves
\* none of them in the text, shows every value, and has of the words those that stand outside
\* of plurals and those of the branch of each plural that fits its number best, and no others.
\* The engine leaves a place only if it was given no value for it.
FilledIn ==
  shown # NothingShown /\ shown.params # NoParams =>
    /\ LET text == TextOfKey(shown.key)
           BestText(p) == {p.branches[i].text : i \in Best(p.branches, shown.params[p.name].v)}
       IN text # <<>> /\ Supplied(text, shown.params) =>
            /\ \A p \in ToSet(shown.translator) : p.part \notin {"place", "plural"}
            /\ \A p \in ToSet(text) :
                 p.part = "place" => Filled(shown.params[p.name]) \in ToSet(shown.translator)
            /\ Words(shown.translator) =
                 Words(text) \cup UNION {Words(t) : t \in UNION {BestText(p) : p \in
                                          {q \in ToSet(text) : q.part = "plural"}}}
    /\ \A p \in ToSet(shown.engine) : p.part = "place" => p.name \notin DOMAIN shown.params

TextsAreRight == LastLoadedFirstAsked /\ FilledIn
=============================================================================

------------------------------- MODULE MCRules -------------------------------
(***************************************************************************)
(* What the packages compute from what they are given: record rules,       *)
(* manifests and their extensions, collections, texts, queries, versions   *)
(* of the interface, migrations, the audit log and the moves of an         *)
(* instance of a workflow.  They share no state: `part' says which one a   *)
(* behaviour is about, and the others stand still.  Each gets inputs that  *)
(* tell the branches of its code apart.                                    *)
(***************************************************************************)
EXTENDS RecordRules, ManifestLoader, SchemaEngine, GraphQL, ApiVersions, Migration, Audit,
        WorkflowInstances, Manifests, Translations, TLC

\* Record rules.
Typing == "amount" :> "num" @@ "state" :> "text"
Cell(t, n) == [type |-> t, v |-> n]
SomeRows == {"amount" :> a @@ "state" :> s :
               a \in {Cell("num", 5), Cell("num", 10), Cell("null", 0)},
               s \in {Cell("text", 1), Cell("text", 10), Cell("null", 0)}}
One(t, n) == [list |-> FALSE, items |-> <<Cell(t, n)>>]
Many(s) == [list |-> TRUE, items |-> s]
Leaves ==
  {<<"amount", op, v>> : op \in {"=", "<", ">="}, v \in {One("num", 10), One("text", 5)}}
    \cup {<<"state", op, One("text", 1)>> : op \in {"!=", "like", ">", "<=", "matches"}}
    \cup {<<"amount", op, Many(<<Cell("num", 5), Cell("num", 7)>>)>> : op \in {"in", "not in"}}
    \cup {<<"amount", "in", One("num", 5)>>, <<"state", "in", Many(<<>>)>>,
          <<"1st", "=", One("num", 5)>>, <<"state", "=">>, <<>>}
SomeFilters ==
  Leaves \cup {<<"!", f>> : f \in Leaves} \cup {<<op, f>> : op \in {"&", "|"}, f \in Leaves}
    \cup {<<op, f, g>> : op \in {"&", "|"}, f, g \in Leaves}
    \cup {<<"&", <<"|", f, g>>, <<"!", h>>>> :
             f, g \in Leaves, h \in {<<"amount", "<", One("num", 10)>>, <<"state", "like", One("text", 1)>>}}
Depths == [f \in SomeFilters |-> IF f = <<>> \/ f \in Leaves THEN 0
                                ELSE IF \A i \in 2 .. Len(f) : f[i] \in Leaves THEN 1 ELSE 2]
Ranks == (1 :> 1) @@ (10 :> 2) @@ (5 :> 3) @@ (7 :> 4) @@ (0 :> 5)
Included == {<<1, 1>>, <<1, 10>>, <<10, 10>>, <<5, 5>>, <<0, 10>>}
BothTenants == {"acme", "umbrella"}

\* Manifests.
Word(form, v) == [kind |-> "scalar", v |-> [quoted |-> FALSE, remark |-> FALSE, form |-> form, v |-> v]]
Quoted(v) == [kind |-> "scalar", v |-> [quoted |-> TRUE, remark |-> FALSE, form |-> "text", v |-> v]]
Noted(v) == [kind |-> "scalar", v |-> [quoted |-> FALSE, remark |-> TRUE, form |-> "text", v |-> v]]
Pair(k, t) == [key |-> k, value |-> t]
Runtime(mode, partition) ==
  Pair("runtime", Tree(<<Pair("mode", Word("text", mode)), Pair("partition", Word("text", partition))>>))
Job(n, more) == Tree(<<Pair("name", Word("text", n))>> \o more)
Jobs == Pair("cron", Arr(<<Job("nightly", <<Pair("schedule", Quoted("0 3")),
                                           Pair("notify", Arr(<<Word("text", "ops"), Word("text", "dev")>>)),
                                           Pair("handler", Word("text", "report"))>>),
                          Job("hourly", <<Pair("handler", Noted("sync")), Pair("schedule", Quoted("0"))>>)>>))
BadJobs(more) == Pair("cron", Arr(<<Job("hourly", more)>>))
SomeDocuments ==
  {Tree(<<Pair("name", n), Pair("version", v), Pair("display_name", Noted("Sales"))>> \o rest) :
     n \in {Quoted("@a/plugin-crm"), Quoted("crm")},
     v \in {Word("text", "1.0.0"), Word("number", "1.0")},
     rest \in {<<Pair("dependencies", Arr(<<Quoted("@a/plugin-crm"), Quoted("@a/plugin-core")>>)), Jobs>>,
               <<Runtime("inline", "erp"), Pair("dependencies", Arr(<<Word("text", "crm")>>))>>,
               <<Jobs, Runtime("inline", "shop"), Pair("extra", Word("boolean", "true"))>>,
               <<Jobs, Pair("extra", Word("null", "~")), Runtime("inline", "erp")>>,
               <<BadJobs(<<Pair("schedule", Quoted("0"))>>)>>,
               <<BadJobs(<<Pair("schedule", Word("number", "5")), Pair("handler", Noted("sync"))>>)>>,
               <<Runtime("worker", "erp")>>}}
SomePlugins == {"@a/plugin-crm", "@a/plugin-core"}

\* Extensions and versions of plugins.
Add(n, t, r) == [name |-> n, type |-> t, required |-> r]
Number(v) == [number |-> TRUE, v |-> v]
Ident(v) == [number |-> FALSE, v |-> v]
Release(c, p, b) == [core |-> c, pre |-> p, build |-> b]
Extending(p, v, c, s) == [plugin |-> p, version |-> v, collection |-> c, addFields |-> s]
SomeManifests ==
  {Extending("crm", Release(<<1, 0, 0>>, <<Ident(1), Number(n)>>, ""), "users", <<Add("tag", "string", TRUE)>>) : n \in {2, 10}}
    \cup {Extending("acl", Release(<<1, 0, 0>>, <<>>, b), "users", <<Add("note", "string", TRUE), Add("tag", t, FALSE)>>) :
            b \in {"", "b7"}, t \in {"string", "number"}}
    \cup {Extending("crm", Release(<<1, 0, 0>>, <<Ident(1)>>, ""), "roles", <<Add("tag", "number", TRUE)>>),
          Extending("hr", Release(<<0, 10, 2>>, <<>>, ""), "roles", <<Add("tag", "number", FALSE), Add("rank", "number", TRUE)>>),
          Extending("hr", Release(<<1, 0, 0>>, <<Number(2)>>, ""), "users", <<Add("tag", "string", TRUE), Add("tag", "string", TRUE)>>),
          Extending("erp", Release(<<1, 0, 0>>, <<Ident(2)>>, ""), "users", <<>>)}

\* Texts.
Lit(v) == [part |-> "word", name |-> v, branches |-> <<>>]
PlaceFor(n) == [part |-> "place", name |-> n, branches |-> <<>>]
Hash == [part |-> "count", name |-> "", branches |-> <<>>]
Branch(s, n, text) == [selector |-> s, n |-> n, text |-> text]
PluralOf(n, b) == [part |-> "plural", name |-> n, branches |-> b]
Space(s, p) == [space |-> s, path |-> p]
Hello == <<Lit("hello"), PlaceFor("name")>>
Counts == <<PluralOf("n", <<Branch("other", 0, <<Hash, Lit("files")>>), Branch("=", 0, <<Lit("nothing")>>),
                            Branch("one", 0, <<Lit("one file")>>)>>), Lit("of"), PlaceFor("name")>>
Owned == <<PluralOf("n", <<Branch("one", 0, <<Lit("one of"), PlaceFor("name")>>), Branch("other", 0, <<Lit("some")>>)>>)>>
SomeSpaces ==
  "client" :> ("hi" :> Hello @@ "files" :> Counts @@ "void" :> <<>>) @@ "crm" :> ("files" :> Owned)
SomeKeys == {Space("none", "hi"), Space("none", "files"), Space("client", "void"), Space("crm", "files"), Space("hr", "hi")}
FileOf(l, s, texts) == [locale |-> l, state |-> s, texts |-> texts]
SomeLocaleFiles ==
  {FileOf(l, "flat", Space("none", "hi") :> text) : l \in {"zh", "en", "de"}, text \in {Hello, <<Lit("hi")>>}}
   \cup {FileOf("zh", "flat", Space("crm", "files") :> Owned), FileOf("en", "missing", <<>>), FileOf("zh", "mixed", <<>>)}
Num(v) == [number |-> TRUE, v |-> v]
AWord == [number |-> FALSE, v |-> 7]
SomeParams == {"n" :> Num(v) @@ "name" :> AWord : v \in 0 .. 2} \cup {"name" :> AWord, "n" :> AWord}
TwoLocales == {"zh", "fr"}

\* Collections.
FieldOf(n, t, r, vals, target) ==
  [name |-> n, type |-> t, required |-> r, unique |-> FALSE, enumValues |-> vals, target |-> target]
SomeFields ==
  {FieldOf(n, "string", TRUE, {}, "") : n \in {"title", "id", "updated_at", "order", ""}}
    \cup {FieldOf("title", t, r, {}, "") : t \in {"number", "boolean", "date"}, r \in BOOLEAN}
    \cup {FieldOf("code", "enum", TRUE, vals, "") : vals \in {{}, {"new", "done"}}}
    \cup {FieldOf("owner", t, TRUE, {}, target) : t \in {"belongsTo", "hasMany"},
                                                 target \in {"", "users", "nobody"}}
    \cup {FieldOf("title", "json", FALSE, {}, "")}
Usable == {"title", "id", "updated_at", "code", "owner"}

\* Queries.
Leaf(n) == [name |-> n, children |-> <<>>]
Node(n, c) == [name |-> n, children |-> c]
SomeQueries ==
  {<<Node("users", f)>> : f \in {<<Leaf("id")>>, <<Leaf("id"), Node("roles", <<Leaf("name")>>), Leaf("email")>>,
                                 <<Leaf("hash")>>, <<Node("roles", <<Leaf("id")>>)>>}}
    \cup {<<Node("users", <<Leaf("id")>>), Node("users", <<Leaf("email"), Leaf("id")>>), Node("nothing", <<Leaf("id")>>)>>,
          <<Leaf("users")>>,
          <<Node("roles", <<Leaf("id")>>), Node("users", <<Node("roles", <<Node("users", <<Leaf("id")>>)>>), Leaf("email")>>)>>}
PublicFields == "users" :> {"id", "email"} @@ "roles" :> {"id", "name"}

\* Versions of the interface.
SomeRoutes == {<<"users", ":id">>, <<"users", "me">>}
SomePaths == {<<"users", "me">>, <<"users", "7">>, <<"users">>}

\* Migrations.
Files3 == {"preload", "postsync", "postload"}
V(core, tag, files) == [core |-> core, tag |-> tag, files |-> files]
SomeDisk ==
  <<<<[plugin |-> "crm", versions |-> <<V(2, "", Files3), V(1, "", {"preload"})>>],
      [plugin |-> "acl", versions |-> <<V(1, "beta", {"postload", "preload"})>>]>>,
    <<[plugin |-> "crm", versions |-> <<V(3, "", {}), V(1, "", {"postload"})>>]>>>>
Alphabet == <<"acl", "crm">>

\* Audit.
SomeRequests ==
  {[method |-> "POST", excluded |-> FALSE, segments |-> <<"user", "7">>,
    body |-> ("password" :> "p" @@ "name" :> "n"), tenant |-> "acme"],
   [method |-> "DELETE", excluded |-> FALSE, segments |-> <<>>, body |-> <<>>, tenant |-> NoTenantYet],
   [method |-> "GET", excluded |-> FALSE, segments |-> <<>>, body |-> <<>>, tenant |-> "acme"],
   [method |-> "POST", excluded |-> TRUE, segments |-> <<>>, body |-> <<>>, tenant |-> "acme"]}
Secret == {"password", "token"}

\* Workflow instances.
SomeNodes == "start" :> "approval" @@ "check" :> "condition" @@ "mail" :> "notification"
               @@ "run" :> "script" @@ "end" :> "end"
SomeTransitions == {<<"start", "check">>, <<"check", "mail">>, <<"check", "end">>, <<"mail", "start">>}
TwoActors == {"one", "two"}
SomeExpressions == {[key |-> k, op |-> op, literal |-> [type |-> "number", v |-> 1]] :
                      k \in {"total", "missing"}, op \in {"===", "truthy"}}
SomeVariables == "total" :> [type |-> "number", v |-> 1]

VARIABLE part

Idles(p, vars) == IF part = p THEN TRUE ELSE UNCHANGED vars

AllInit ==
  /\ part \in {"records", "manifests", "schema", "graphql", "versions", "migration", "audit", "instances",
              "extends", "texts"}
  /\ RulesInit /\ LoaderInit /\ SchemaInit /\ GraphqlInit /\ RouterInit /\ MigrationInit /\ AuditInit
  /\ InstanceInit /\ ManifestsInit /\ TranslationsInit
  \* The inputs of a part that stands still do not matter.
  /\ part # "migration" => history = {}
  /\ part # "schema" => collection.timestamps /\ collection.key = "id"
  /\ part # "instances" => stored.status = "draft"

AllNext ==
  /\ UNCHANGED part
  /\ \/ part = "records" /\ RulesNext
     \/ part = "manifests" /\ LoaderNext
     \/ part = "schema" /\ SchemaNext
     \/ part = "graphql" /\ GraphqlNext
     \/ part = "versions" /\ RouterNext
     \/ part = "migration" /\ MigrationNext
     \/ part = "audit" /\ AuditNext
     \/ part = "instances" /\ InstanceNext
     \/ part = "extends" /\ ManifestsNext
     \/ part = "texts" /\ TranslationsNext
  /\ Idles("records", rulesVars) /\ Idles("manifests", loaderVars) /\ Idles("schema", schemaVars)
  /\ Idles("graphql", graphqlVars) /\ Idles("versions", routerVars) /\ Idles("migration", migrationVars)
  /\ Idles("audit", auditVars) /\ Idles("instances", instanceVars)
  /\ Idles("extends", manifestVars) /\ Idles("texts", textVars)

allVars == <<part, rulesVars, loaderVars, schemaVars, graphqlVars, routerVars, migrationVars, auditVars,
             instanceVars, manifestVars, textVars>>
RulesSpec == AllInit /\ [][AllNext]_allVars

\* What a parser makes of a manifest or a query is what was written.
ParsedAsWritten ==
  /\ part = "manifests" => ReadAsWritten
  /\ part = "graphql" => AnswersTheQuery
=============================================================================

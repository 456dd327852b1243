------------------------------- MODULE GraphQL -------------------------------
(***************************************************************************)
(* The GraphQL-lite endpoint of packages/core (api/graphql.ts): a query,   *)
(* here its tokens, is parsed by recursive descent; the models it names    *)
(* are then read one after the other, each with a database query.          *)
(***************************************************************************)
EXTENDS Naturals, Sequences, FiniteSets, SequencesExt, TLC

CONSTANTS
  Queries,       \* queries as they are meant: sequences of [name, children]
  Public,        \* the public fields of each registered model
  GqlTenants,    \* tenants of rows
  NoTenantId,    \* the hook has set no tenantId
  MaxRows

VARIABLES
  rows,          \* of each model: the tenants its rows belong to, by row
  ask            \* the request: [at, query, tenant, parsed, data, errors]

graphqlVars == <<rows, ask>>

NoAsk == [at |-> "idle", query |-> <<>>, tenant |-> NoTenantId, parsed |-> <<>>, done |-> 0,
          data |-> <<>>, errors |-> {}]

-----------------------------------------------------------------------------

\* The position behind the brace that closes the one before pos, or the end.
RECURSIVE Close(_, _, _)
Close(tokens, pos, depth) ==
  IF pos > Len(tokens) \/ depth = 0 THEN pos
  ELSE Close(tokens, pos + 1, CASE tokens[pos] = "{" -> depth + 1
                                [] tokens[pos] = "}" -> depth - 1
                                [] OTHER -> depth)

RECURSIVE ParseFields(_, _, _)

\* Fields up to the closing brace; braces without a name are skipped.
ParseFields(tokens, pos, fields) ==
  CASE pos > Len(tokens) -> [fields |-> fields, next |-> pos]
    [] pos <= Len(tokens) /\ tokens[pos] = "}" -> [fields |-> fields, next |-> pos + 1]
    [] pos <= Len(tokens) /\ tokens[pos] = "{" -> ParseFields(tokens, Close(tokens, pos + 1, 1), fields)
    [] OTHER ->
         LET nested == ParseFields(tokens, pos + 2, <<>>)
         IN IF pos < Len(tokens) /\ tokens[pos + 1] = "{"
              THEN ParseFields(tokens, nested.next,
                               Append(fields, [name |-> tokens[pos], children |-> nested.fields]))
              ELSE ParseFields(tokens, pos + 1,
                               Append(fields, [name |-> tokens[pos], children |-> <<>>]))

RECURSIVE Models(_, _, _)
Models(tokens, pos, queries) ==
  LET body == ParseFields(tokens, pos + 2, <<>>)
  IN CASE pos > Len(tokens) -> queries
       [] pos <= Len(tokens) /\ tokens[pos] = "}" -> queries
       [] OTHER ->
            IF pos < Len(tokens) /\ tokens[pos + 1] = "{"
              THEN Models(tokens, body.next,
                          Append(queries, [name |-> tokens[pos], children |-> body.fields]))
              ELSE Models(tokens, pos + 2, queries)

ParseQuery(tokens) ==
  IF tokens = <<>> \/ Head(tokens) # "{" THEN <<>> ELSE Models(tokens, 2, <<>>)

\* Names of the fields that have no children, in order.
FlattenFields(fields) ==
  LET plain == SelectSeq(fields, LAMBDA f : f.children = <<>>)
  IN [i \in DOMAIN plain |-> plain[i].name]

ValidateFields(model, names) == {[model |-> model, field |-> f] : f \in Range(names) \ Public[model]}

\* All rows are read and those of other tenants dropped, if a tenant is known.
ExecuteQuery(model, names, tenant) ==
  [fields |-> Range(names) \cap Public[model],
   rows |-> {i \in DOMAIN rows[model] : tenant \in {NoTenantId, rows[model][i]}}]

-----------------------------------------------------------------------------

\* A query as its tokens.
RECURSIVE Tokens(_)
Tokens(nodes) ==
  FlattenSeq([i \in DOMAIN nodes |->
    <<nodes[i].name>> \o (IF nodes[i].children = <<>> THEN <<>>
                          ELSE <<"{">> \o Tokens(nodes[i].children) \o <<"}">>)])

GraphqlInit == rows = [m \in DOMAIN Public |-> <<>>] /\ ask = NoAsk

\* POST /api/graphql; 400 where nothing is parsed.
Ask(query, tenant) ==
  /\ ask.at = "idle"
  /\ LET parsed == ParseQuery(<<"{">> \o Tokens(query) \o <<"}">>)
     IN ask' = [NoAsk EXCEPT !.at = IF parsed = <<>> THEN "refused" ELSE "running",
                             !.query = query, !.tenant = tenant, !.parsed = parsed]
  /\ UNCHANGED rows

Next1 == ask.parsed[ask.done + 1]

\* The next model: an error, or its rows as they are now; a later query of the
\* same model takes the place of an earlier one.
RunQuery ==
  /\ ask.at = "running" /\ ask.done < Len(ask.parsed)
  /\ LET names == FlattenFields(Next1.children)
         known == Next1.name \in DOMAIN Public
         wrong == IF known THEN ValidateFields(Next1.name, names) ELSE {}
         Fail(e) == ask' = [ask EXCEPT !.done = @ + 1, !.errors = @ \cup e]
     IN \/ ~known /\ Fail({[model |-> Next1.name, field |-> "unknown model"]})
        \/ known /\ names = <<>> /\ Fail({[model |-> Next1.name, field |-> "no fields"]})
        \/ known /\ wrong # {} /\ Fail(wrong)
        \/ known /\ names # <<>> /\ wrong = {} /\ Fail({[model |-> Next1.name, field |-> "failed"]})
        \/ /\ known /\ names # <<>> /\ wrong = {}
           /\ LET answer == [model |-> Next1.name] @@ ExecuteQuery(Next1.name, names, ask.tenant)
                  others == SelectSeq(ask.data, LAMBDA a : a.model # Next1.name)
              IN ask' = [ask EXCEPT !.done = @ + 1, !.data = Append(others, answer)]
  /\ UNCHANGED rows

Respond ==
  /\ ask.at = "refused" \/ (ask.at = "running" /\ ask.done = Len(ask.parsed))
  /\ ask' = NoAsk
  /\ UNCHANGED rows

\* Rows come while a request is answered.
AddRow(model, tenant) ==
  /\ Len(rows[model]) < MaxRows
  /\ rows' = [rows EXCEPT ![model] = Append(@, tenant)]
  /\ UNCHANGED ask

GraphqlNext ==
  \/ \E q \in Queries, t \in GqlTenants \cup {NoTenantId} : Ask(q, t)
  \/ RunQuery \/ Respond
  \/ \E m \in DOMAIN Public, t \in GqlTenants : AddRow(m, t)

-----------------------------------------------------------------------------

\* The models of a query with their fields, without those that have no body.
WithBody(query) == SelectSeq(query, LAMBDA q : q.children # <<>>)

\* A query is parsed as it is written when all its models have a body; what is
\* answered for a model are fields that were asked for and are public, of rows of
\* the asking tenant only, and every model asked for has an answer or an error.
AnswersTheQuery ==
  ask.at = "running" =>
    /\ ask.parsed = WithBody(ask.query)
    /\ \A i \in DOMAIN ask.data :
         LET a == ask.data[i]
         IN /\ \E j \in 1..ask.done : ask.parsed[j].name = a.model
                 /\ a.fields = Range(FlattenFields(ask.parsed[j].children))
            /\ a.fields \subseteq Public[a.model]
            /\ ask.tenant # NoTenantId => \A r \in a.rows : rows[a.model][r] = ask.tenant
    /\ \A j \in 1..ask.done : \/ \E i \in DOMAIN ask.data : ask.data[i].model = ask.parsed[j].name
                              \/ \E e \in ask.errors : e.model = ask.parsed[j].name
=============================================================================

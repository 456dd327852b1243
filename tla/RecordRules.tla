----------------------------- MODULE RecordRules -----------------------------
(***************************************************************************)
(* The record rules of packages/rbac: a domain filter in Polish notation   *)
(* is parsed to a condition, which is evaluated on rows in memory and      *)
(* compiled to a WHERE clause with numbered parameters.  A value of a      *)
(* filter is [list, items]; an item, like a cell of a row, is              *)
(* [type, v] with type "num", "text" or "null".                            *)
(***************************************************************************)
EXTENDS Naturals, Sequences

CONSTANTS
  Filters,     \* the arrays given to parseDomainFilter
  MaxDepth,    \* arrays are nested at most so deep
  Height,      \* how deep each of Filters is nested
  Rows,        \* rows of the table: functions from ColumnType's domain to cells
  ColumnType,  \* the type of each column
  TextRank,    \* the place of each v in the order of texts
  Within,      \* <<u, v>>: the text of u is found in the text of v
  RowTenants,  \* the tenants rows belong to
  NoTenant     \* no tenantId among the options

Operators == {"=", "!=", ">", "<", ">=", "<=", "in", "not in", "like", "ilike"}
Joiners == {"&", "|", "!"}
Malformed == [operator |-> "malformed"]

FieldIsValid(f) == f \in DOMAIN ColumnType
OperatorIsValid(op) == op \in Operators
ValueFits(op, value) == op \in {"in", "not in"} => value.list /\ value.items # <<>>

\* [field, operator, value].
IsComparison(f) == Len(f) = 3 /\ FieldIsValid(f[1]) /\ OperatorIsValid(f[2]) /\ ValueFits(f[2], f[3])
ComparisonOf(f) == [operator |-> f[2], field |-> f[1], value |-> f[3]]
Comparisons == {ComparisonOf(f) : f \in {g \in Filters : IsComparison(g)}}

\* Filters are arrays, and those that join have filters in them: what is no array
\* is refused like an empty one.  Many values stand with "in" and "not in" only.
ASSUME FiltersAssumption ==
  /\ MaxDepth \in Nat /\ Height \in [Filters -> 0 .. MaxDepth]
  /\ \A f \in Filters :
       /\ Len(f) \in Nat /\ f = [i \in 1 .. Len(f) |-> f[i]]
       /\ f # <<>> /\ f[1] \in Joiners => \A i \in 2 .. Len(f) : f[i] \in Filters /\ Height[f[i]] < Height[f]
       /\ IsComparison(f) => LET items == f[3].items
                             IN /\ Len(items) \in Nat /\ items = [i \in 1 .. Len(items) |-> items[i]]
                                /\ f[2] \notin {"in", "not in"} => Len(items) = 1

ASSUME RowsAssumption ==
  /\ \A f \in DOMAIN ColumnType : ColumnType[f] \in {"num", "text"}
  /\ \A row \in Rows : /\ DOMAIN row = DOMAIN ColumnType
                       /\ \A f \in DOMAIN row : row[f].type \in {ColumnType[f], "null"}

VARIABLES
  rule,        \* [at, filter, tenant]
  condition,   \* what parseDomainFilter returned
  where        \* what generateWhereClause returned: [sql, params]

rulesVars == <<rule, condition, where>>

\* What can be joined of the members of base.
Trees(base) ==
  LET level[k \in 0 .. MaxDepth] ==
        IF k = 0 THEN base
        ELSE level[k - 1] \cup [operator : Joiners, conditions : Seq(level[k - 1]) \ {<<>>}]
  IN level[MaxDepth]

ParseFilter(f) ==
  LET parsed[g \in Filters] ==
        LET trees == [i \in 1 .. Len(g) - 1 |-> parsed[g[i + 1]]]
            Joined(enough) ==
              IF enough /\ \A i \in 1 .. Len(g) - 1 : trees[i] # Malformed
                THEN [operator |-> g[1], conditions |-> trees]
                ELSE Malformed
        IN CASE g = <<>> -> Malformed
             [] g # <<>> /\ g[1] \in {"&", "|"} -> Joined(Len(g) >= 3)
             [] g # <<>> /\ g[1] = "!" -> Joined(Len(g) = 2)
             [] OTHER -> IF IsComparison(g) THEN ComparisonOf(g) ELSE Malformed
  IN parsed[f]

-----------------------------------------------------------------------------

IsNull(cell) == cell.type = "null"
CoerceEqual(a, b) == IF IsNull(a) \/ IsNull(b) THEN IsNull(a) /\ IsNull(b) ELSE a.v = b.v

\* coerceCompare(a, b) < 0: nulls first, numbers as numbers, all else as texts.
CoerceLess(a, b) ==
  /\ ~IsNull(b)
  /\ \/ IsNull(a)
     \/ a.type = "num" /\ b.type = "num" /\ a.v < b.v
     \/ ~IsNull(a) /\ "text" \in {a.type, b.type} /\ TextRank[a.v] < TextRank[b.v]

MatchLeaf(c, row) ==
  LET cell == row[c.field]
      value == c.value.items[1]
      Some == \E i \in 1 .. Len(c.value.items) : CoerceEqual(cell, c.value.items[i])
  IN CASE c.operator = "=" -> CoerceEqual(cell, value)
       [] c.operator = "!=" -> ~CoerceEqual(cell, value)
       [] c.operator = ">" -> CoerceLess(value, cell)
       [] c.operator = "<" -> CoerceLess(cell, value)
       [] c.operator = ">=" -> ~CoerceLess(cell, value)
       [] c.operator = "<=" -> ~CoerceLess(value, cell)
       [] c.operator = "in" -> Some
       [] c.operator = "not in" -> ~Some
       [] OTHER -> ~IsNull(cell) /\ <<value.v, cell.v>> \in Within

\* What is true of a tree, if truth says what is true of its leaves.
Decided(c, truth) ==
  LET decided[d \in Trees(DOMAIN truth)] ==
        CASE d.operator = "&" -> \A i \in 1 .. Len(d.conditions) : decided[d.conditions[i]]
          [] d.operator = "|" -> \E i \in 1 .. Len(d.conditions) : decided[d.conditions[i]]
          [] d.operator = "!" -> ~decided[d.conditions[1]]
          [] OTHER -> truth[d]
  IN decided[c]

EvaluateCondition(c, row) == Decided(c, [l \in Comparisons |-> MatchLeaf(l, row)])

-----------------------------------------------------------------------------

\* ParamCollector.add() for every item, after n of them: their marks are $(n + 1), $(n + 2), ...
Marks(n, items) == [i \in 1 .. Len(items) |-> n + i]

\* The clause of a condition, and the items that it adds to n that are there.
CompileLeaf(c, n) ==
  [sql |-> [operator |-> c.operator, field |-> c.field, marks |-> Marks(n, c.value.items)],
   params |-> c.value.items]

\* Mutant of CompileAll: the conditions under one operator share their marks.
CompileAllApart(compiled, cs, n) ==
  LET done[k \in 0 .. Len(cs)] ==
        IF k = 0 THEN [sql |-> <<>>, params |-> <<>>]
        ELSE LET next == compiled[cs[k]][n]
             IN [sql |-> Append(done[k - 1].sql, next.sql), params |-> done[k - 1].params \o next.params]
  IN done[Len(cs)]

\* The conditions in turn, with one collector.
CompileAll(compiled, cs, n) ==
  LET done[k \in 0 .. Len(cs)] ==
        IF k = 0 THEN [sql |-> <<>>, params |-> <<>>]
        ELSE LET next == compiled[cs[k]][n + Len(done[k - 1].params)]
             IN [sql |-> Append(done[k - 1].sql, next.sql), params |-> done[k - 1].params \o next.params]
  IN done[Len(cs)]

CompileCondition(c, n) ==
  LET compiled[d \in Trees(Comparisons)] ==
        [m \in Nat |->
           IF d.operator \in Joiners
             THEN LET all == CompileAll(compiled, d.conditions, m)
                  IN [sql |-> [operator |-> d.operator, conditions |-> all.sql], params |-> all.params]
             ELSE CompileLeaf(d, m)]
  IN compiled[c][n]

\* tenant_id = $1 comes first, joined with AND to the clauses of the rules.
TenantClause(tenant) ==
  IF tenant = NoTenant THEN [sql |-> <<>>, params |-> <<>>]
  ELSE [sql |-> <<[operator |-> "tenant", marks |-> <<1>>]>>, params |-> <<tenant>>]

RulesInit ==
  /\ rule = [at |-> "none", filter |-> <<>>, tenant |-> NoTenant]
  /\ condition = Malformed
  /\ where = [sql |-> <<>>, params |-> <<>>]

\* A rule of a manifest, to be applied for a tenant or for all.
GiveRule ==
  /\ rule.at = "none"
  /\ rule' \in [at : {"given"}, filter : Filters, tenant : RowTenants \cup {NoTenant}]
  /\ UNCHANGED <<condition, where>>

ParseDomainFilter ==
  /\ rule.at = "given"
  /\ condition' = ParseFilter(rule.filter)
  /\ rule' = [rule EXCEPT !.at = IF condition' = Malformed THEN "thrown" ELSE "parsed"]
  /\ UNCHANGED where

GenerateWhereClause ==
  /\ rule.at = "parsed"
  /\ LET tenant == TenantClause(rule.tenant)
         all == CompileCondition(condition, Len(tenant.params))
     IN where' = [sql |-> Append(tenant.sql, all.sql), params |-> tenant.params \o all.params]
  /\ rule' = [rule EXCEPT !.at = "compiled"]
  /\ UNCHANGED condition

RulesNext == GiveRule \/ ParseDomainFilter \/ GenerateWhereClause

-----------------------------------------------------------------------------

\* What PostgreSQL makes of the clause: a parameter takes the column's type.
SqlLess(type, u, v) == IF type = "num" THEN u < v ELSE TextRank[u] < TextRank[v]

\* A comparison of the clause.
Clauses == [operator : Operators, field : DOMAIN ColumnType, marks : Seq(Nat)]
ClauseHolds(c, params, row) ==
  LET Value(i) == params[c.marks[i]].v
      v == row[c.field].v
      type == ColumnType[c.field]
      Some == \E i \in 1 .. Len(c.marks) : v = Value(i)
  IN CASE c.operator = "=" -> v = Value(1)
       [] c.operator = "!=" -> v # Value(1)
       [] c.operator = ">" -> SqlLess(type, Value(1), v)
       [] c.operator = "<" -> SqlLess(type, v, Value(1))
       [] c.operator = ">=" -> ~SqlLess(type, v, Value(1))
       [] c.operator = "<=" -> ~SqlLess(type, Value(1), v)
       [] c.operator = "in" -> Some
       [] c.operator = "not in" -> ~Some
       [] OTHER -> <<Value(1), v>> \in Within

SqlHolds(sql, params, row, tenant) ==
  IF sql.operator = "tenant" THEN params[sql.marks[1]] = tenant
  ELSE Decided(sql, [c \in Clauses |-> ClauseHolds(c, params, row)])

\* The condition compares columns with values of their type, like() texts only.
IsTyped(c) ==
  /\ \A i \in 1 .. Len(c.value.items) : c.value.items[i].type = ColumnType[c.field]
  /\ c.operator \in {"like", "ilike"} => ColumnType[c.field] = "text"
Typed(c) == c \in Trees({l \in Comparisons : IsTyped(l)})

\* A rule that is typed selects the same full rows by its WHERE clause as by
\* evaluateCondition(), and of the tenant asked for, if any, only.
BothWaysAgree ==
  rule.at = "compiled" /\ Typed(condition) =>
    \A row \in Rows, t \in RowTenants :
      (\A f \in DOMAIN row : ~IsNull(row[f])) =>
        ((\A i \in 1 .. Len(where.sql) : SqlHolds(where.sql[i], where.params, row, t))
           <=> EvaluateCondition(condition, row) /\ rule.tenant \in {t, NoTenant})
=============================================================================

---------------------------- MODULE SchemaEngine ----------------------------
(***************************************************************************)
(* packages/schema-engine: a collection is put together field by field,    *)
(* validated, registered, and made a table; fields added later (extends)   *)
(* are added by ALTER TABLE.  The same collection is mapped to the columns *)
(* and the form of the administration pages.                               *)
(***************************************************************************)
EXTENDS Naturals, Sequences, FiniteSets, SequencesExt, Arrays

CONSTANTS
  Fields,        \* FieldDefs: [name, type, required, unique, enumValues, target]
  SafeNames,     \* names that pass IDENTIFIER_RE and are not SQL_RESERVED
  TableNames,    \* tables there are besides the collection's own
  Keys,          \* primary keys a collection may declare, "id" for none declared
  MaxFields

ASSUME FieldsAssumption == \A f \in Fields : f.required \in BOOLEAN

FieldTypes == {"string", "number", "boolean", "date", "enum", "belongsTo", "hasMany"}

VARIABLES
  collection,    \* CollectionDef: [fields, timestamps, key, registered]
  table,         \* the columns of its table in the database, none before CREATE
  indexes,       \* names of the columns with an index of generateCreateIndexes
  addition       \* fields given by extends that the table does not have yet

schemaVars == <<collection, table, indexes, addition>>

SchemaInit ==
  /\ \E t \in BOOLEAN, k \in Keys :
       collection = [fields |-> <<>>, timestamps |-> t, key |-> k, registered |-> FALSE]
  /\ table = <<>>
  /\ indexes = {}
  /\ addition = <<>>

-----------------------------------------------------------------------------

\* validateField, its errors as a set.
FieldErrors(f) ==
  {e \in {"name", "type", "enumValues", "target"} :
     CASE e = "name" -> f.name = ""
       [] e = "type" -> f.type \notin FieldTypes
       [] e = "enumValues" -> f.type = "enum" /\ f.enumValues = {}
       [] e = "target" -> f.type \in {"belongsTo", "hasMany"} /\ f.target = ""}

\* Mutant of CollectionIsValid: two fields may have one name.
CollectionIsValidTwice(c) ==
  c.fields # <<>> /\ \A i \in DOMAIN c.fields : FieldErrors(c.fields[i]) = {}

\* validateCollection: some field, names that differ, no errors in any.
CollectionIsValid(c) ==
  /\ c.fields # <<>>
  /\ \A i, j \in DOMAIN c.fields : c.fields[i].name = c.fields[j].name => i = j
  /\ \A i \in DOMAIN c.fields : FieldErrors(c.fields[i]) = {}

\* validateSqlIdentifiers; the table's own name is a safe one, the key is not asked.
IdentifiersAreSafe(c) == \A i \in DOMAIN c.fields : c.fields[i].name \in SafeNames

Column(name, type, unique, notNull) ==
  [name |-> name, type |-> type, unique |-> unique, notNull |-> notNull,
   default |-> FALSE, check |-> {}, references |-> ""]

\* fieldToColumnType; a hasMany has no column, a boolean neither UNIQUE nor NOT NULL.
FieldToColumn(f) ==
  CASE f.type = "string" -> Column(f.name, "VARCHAR(255)", f.unique, f.required)
    [] f.type = "number" -> Column(f.name, "INTEGER", f.unique, f.required)
    [] f.type = "boolean" -> [Column(f.name, "BOOLEAN", FALSE, FALSE) EXCEPT !.default = TRUE]
    [] f.type = "date" -> Column(f.name, "TIMESTAMP", FALSE, f.required)
    [] f.type = "enum" -> [Column(f.name, "VARCHAR(50)", FALSE, f.required)
                             EXCEPT !.check = f.enumValues]
    [] f.type = "belongsTo" -> [Column(f.name, "INTEGER", FALSE, f.required)
                                  EXCEPT !.references = f.target]
    [] OTHER -> Column(f.name, "TEXT", FALSE, FALSE)

WithColumn(fields) == Filter(fields, {f \in Range(fields) : f.type # "hasMany"})
Columns(fields) == LET kept == WithColumn(fields) IN [i \in DOMAIN kept |-> FieldToColumn(kept[i])]
KeyColumn(name) == [Column(name, "SERIAL", TRUE, TRUE) EXCEPT !.default = TRUE]
Stamp(name) == [Column(name, "TIMESTAMP", FALSE, FALSE) EXCEPT !.default = TRUE]

\* The columns of generateCreateTable: the key, the fields but for it, the stamps.
CreateTableOf(c) ==
  <<KeyColumn(c.key)>> \o Columns(Filter(c.fields, {f \in Range(c.fields) : f.name # c.key}))
    \o (IF c.timestamps THEN <<Stamp("created_at"), Stamp("updated_at")>> ELSE <<>>)

\* PostgreSQL takes columns whose names differ and that refer to tables it has.
DatabaseAccepts(columns) ==
  /\ \A i, j \in DOMAIN columns : columns[i].name = columns[j].name => i = j
  /\ \A i \in DOMAIN columns : columns[i].references \in TableNames \cup {""}

-----------------------------------------------------------------------------

\* fieldToColumn's valueType and hideInSearch are wording; these stay.  The pages
\* leave out the field "id", whatever the key is.
TableColumns(c) ==
  {f.name : f \in {g \in Range(c.fields) : g.type # "hasMany" /\ g.name # "id"}}

Component(type) ==
  CASE type \in {"enum", "belongsTo", "hasMany"} -> "Select"
    [] type = "number" -> "InputNumber"
    [] type = "boolean" -> "Switch"
    [] type = "date" -> "DatePicker"
    [] OTHER -> "Input"

\* fieldToFormField: no rules for a Switch or for the other side of a relation.
FieldToFormField(f) ==
  [name |-> f.name, component |-> Component(f.type),
   required |-> f.required /\ f.type \notin {"boolean", "hasMany"},
   options |-> IF f.type = "enum" THEN f.enumValues ELSE {}]

FormFields(c) == {FieldToFormField(f) : f \in {g \in Range(c.fields) : g.name # "id"}}

-----------------------------------------------------------------------------

\* Before there is a table; later fields come by Extend only.
DefineField(f) ==
  /\ ~collection.registered /\ table = <<>> /\ Len(collection.fields) < MaxFields
  /\ collection' = [collection EXCEPT !.fields = Append(@, f)]
  /\ UNCHANGED <<table, indexes, addition>>

\* SchemaRegistry.register() by a caller that has had the collection validated.
Register ==
  /\ ~collection.registered
  /\ CollectionIsValid(collection) /\ IdentifiersAreSafe(collection)
  /\ collection' = [collection EXCEPT !.registered = TRUE]
  /\ UNCHANGED <<table, indexes, addition>>

\* CREATE TABLE IF NOT EXISTS and the indexes: of a table that is there, only the latter.
CreateTable ==
  /\ collection.registered
  /\ \/ table # <<>> /\ UNCHANGED table
     \/ table = <<>> /\ DatabaseAccepts(CreateTableOf(collection))
        /\ table' = CreateTableOf(collection)
  /\ indexes' = indexes \cup ({f.name : f \in {g \in Range(collection.fields) : g.type = "belongsTo"}}
                             \cap {c.name : c \in Range(table')})
  /\ UNCHANGED <<collection, addition>>

\* Fields of extends: the collection has them at once, the table only by ALTER.
Extend(f) ==
  /\ table # <<>> /\ Len(collection.fields) < MaxFields
  /\ LET extended == [collection EXCEPT !.fields = Append(@, f)]
     IN /\ CollectionIsValid(extended) /\ IdentifiersAreSafe(extended)
        /\ collection' = extended
  /\ addition' = Append(addition, f)
  /\ UNCHANGED <<table, indexes>>

\* generateAlterTable: one statement per field, each with the database's consent.
AlterTable ==
  /\ addition # <<>>
  /\ LET columns == table \o Columns(<<Head(addition)>>)
     IN /\ DatabaseAccepts(columns)
        /\ table' = columns
  /\ addition' = Tail(addition)
  /\ UNCHANGED <<collection, indexes>>

Unregister ==
  /\ collection.registered
  /\ collection' = [collection EXCEPT !.registered = FALSE]
  /\ UNCHANGED <<table, indexes, addition>>

SchemaNext ==
  \/ \E f \in Fields : DefineField(f) \/ Extend(f)
  \/ Register \/ CreateTable \/ AlterTable \/ Unregister

-----------------------------------------------------------------------------

NamesOf(columns) == {columns[i].name : i \in DOMAIN columns}

\* The form of a collection whose table has all its fields gives the table what
\* it needs: a value for every column that must have one, no value of an enum
\* that CHECK refuses, and nothing that has no column; every link has its column,
\* and CREATE TABLE does not fail on names, except those of the time stamps.  The
\* key's own column gets its value from the database.  One column the form never
\* feeds: a field "id" of a collection with another primary key (ddl.ts:183 goes
\* by the key, ui-mapping.ts:145 by the name).
FormFeedsTable ==
  /\ table # <<>> /\ collection.registered /\ addition = <<>> =>
       /\ \A c \in Range(table) : c.notNull /\ ~c.default =>
            \/ c.name = "id" /\ collection.key # "id"
            \/ \E f \in FormFields(collection) : f.name = c.name /\ f.required
       /\ \A f \in FormFields(collection) : f.component # "Select" => f.name \in NamesOf(table)
       /\ \A f \in FormFields(collection), c \in Range(table) :
            f.name = c.name /\ c.name # collection.key => f.options = c.check
       /\ TableColumns(collection) \subseteq NamesOf(table)
  /\ collection.registered /\ table = <<>> =>
       \A i, j \in DOMAIN CreateTableOf(collection) :
         CreateTableOf(collection)[i].name = CreateTableOf(collection)[j].name =>
           i = j \/ CreateTableOf(collection)[i].name \in {"created_at", "updated_at"}
=============================================================================

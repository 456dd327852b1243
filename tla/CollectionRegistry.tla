------------------------- MODULE CollectionRegistry -------------------------
(***************************************************************************)
(* The registry of collections of packages/data-extends                    *)
(* (collection-registry.ts): a plugin registers a collection with its base *)
(* fields, other plugins extend it, and the fields are merged on demand.   *)
(*                                                                         *)
(* A field is a record of its name, its type and the set of attributes     *)
(* (required, unique) that its declaration is strict about.                *)
(***************************************************************************)
EXTENDS Naturals, Sequences, SequencesExt

CONSTANTS
  Collections,   \* names of collections
  FieldTypes,    \* VALID_FIELD_TYPES
  Declarations,  \* what plugins declare: sequences of fields
  MaxExtends     \* bound: extensions of a collection

ASSUME DeclarationsAssumption ==
  \A d \in Declarations :
    /\ d \in Seq(Range(d))
    /\ \A f \in Range(d) : f \in [name : {f.name}, type : {f.type}, strict : SUBSET f.strict]

VARIABLE
  collections    \* the collections map; <<>> for a name not registered

Registered(c) == collections[c] # <<>>

\* An entry is a sequence of declarations: first the base fields, then the
\* extensions in the order of the calls.
Base(c) == collections[c][1]
Extensions(c) == Tail(collections[c])

RegistryInit == collections = [c \in Collections |-> <<>>]

\* register(): the first registration is kept.
Register(c, fields) ==
  /\ ~Registered(c)
  /\ collections' = [collections EXCEPT ![c] = <<fields>>]

\* validateField, where a relation without a target counts as a type of its own.
ValidField(f) == f.type \in FieldTypes

\* A declaration may list a name twice.  A map of the base fields by name, which
\* both functions below begin with, holds the last of them.
Seeded(base) ==
  LET Held(name) == CHOOSE j \in DOMAIN base :
                      /\ base[j].name = name
                      /\ \A h \in DOMAIN base : base[h].name = name => h <= j
  IN  [i \in DOMAIN base |-> base[Held(base[i].name)]]

\* Mutant of ExistingFields: prior extensions are not looked at.
BaseFields(c) == Range(Seeded(Base(c)))

\* collectExistingFields: the base field of a name, or the first that an
\* extension has added.
ExistingFields(c) ==
  LET all == Seeded(Base(c)) \o FlattenSeq(Extensions(c))
  IN  {all[i] : i \in {j \in DOMAIN all : \A h \in 1..(j - 1) : all[h].name # all[j].name}}

\* extend(): every field is compared with those that were there before the
\* call, and then the declaration is stored; otherwise the call throws and
\* nothing changes.
Extend(c, fields) ==
  /\ Registered(c)
  /\ Len(Extensions(c)) < MaxExtends
  /\ \A i \in DOMAIN fields : ValidField(fields[i])
  /\ \A i \in DOMAIN fields : \A f \in ExistingFields(c) :
       f.name = fields[i].name => f.type = fields[i].type
  /\ collections' = [collections EXCEPT ![c] = Append(@, fields)]

RegistryNext ==
  \E c \in Collections, fields \in Declarations : Register(c, fields) \/ Extend(c, fields)

RegistrySpec == RegistryInit /\ [][RegistryNext]_collections

-----------------------------------------------------------------------------
(* resolveEntry.                                                           *)

\* A field that is new is appended; one whose name is there adds its strict
\* attributes to the one that is there.
MergeField(merged, f) ==
  IF \E i \in DOMAIN merged : merged[i].name = f.name
  THEN [i \in DOMAIN merged |->
          IF merged[i].name = f.name
          THEN [merged[i] EXCEPT !.strict = @ \cup f.strict]
          ELSE merged[i]]
  ELSE Append(merged, f)

\* The fields of the extensions in turn.
Merged(base, later) ==
  LET merged[i \in 0..Len(later)] == IF i = 0 THEN base ELSE MergeField(merged[i - 1], later[i])
  IN  merged[Len(later)]

\* allFields of a resolved collection: all base fields of a name are given by
\* the one that the map holds.
AllFields(c) == Merged(Seeded(Base(c)), FlattenSeq(Extensions(c)))

-----------------------------------------------------------------------------
(* Properties.                                                             *)

Declared(c) == FlattenSeq(collections[c])

\* The base lists the name more than once.
Repeated(c, name) ==
  \E i, j \in DOMAIN Base(c) : i # j /\ Base(c)[i].name = name /\ Base(c)[j].name = name

\* One call lists the name with two types.
Mixed(c, name) ==
  \E d \in DOMAIN collections[c] :
    LET fields == collections[c][d]
    IN  \E i, j \in DOMAIN fields :
          fields[i].name = name /\ fields[j].name = name /\ fields[i].type # fields[j].type

\* The rules at collection-registry.ts:112, over any number of calls in any
\* order.  The merged collection has every declared name, with the type of each
\* of its declarations unless a single call gives it two types.  A name that
\* the base does not list twice it has once, where the name was first declared,
\* and with all the strict attributes that any of its declarations has.
MergeIsStrictest ==
  \A c \in Collections : Registered(c) =>
    LET merged == AllFields(c)
        declared == Declared(c)
        First(name) == CHOOSE i \in DOMAIN declared :
                         /\ declared[i].name = name
                         /\ \A j \in 1..(i - 1) : declared[j].name # name
    IN  /\ \A i \in DOMAIN declared : \E j \in DOMAIN merged :
             /\ merged[j].name = declared[i].name
             /\ merged[j].type = declared[i].type \/ Mixed(c, declared[i].name)
        /\ \A i, j \in DOMAIN merged :
             i < j /\ ~Repeated(c, merged[j].name) => First(merged[i].name) < First(merged[j].name)
        /\ \A i \in DOMAIN merged : ~Repeated(c, merged[i].name) =>
             merged[i].strict = UNION {declared[j].strict :
               j \in {h \in DOMAIN declared : declared[h].name = merged[i].name}}
=============================================================================

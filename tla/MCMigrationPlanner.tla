------------------------- MODULE MCMigrationPlanner --------------------------
(* Small instances of MigrationPlanner for TLC: the first table and its      *)
(* destination take many forms, the other one is there to follow it.         *)
EXTENDS MigrationPlanner

CONSTANTS t1, t2

Column(udt, nullable, default, length) ==
  [udt |-> udt, is_nullable |-> nullable, has_default |-> default, is_enum |-> FALSE,
   max_length |-> length, precision |-> 0, scale |-> 0]

\* All tables with some of the two columns, each of one of these forms.
TablesOf(forms, rows) ==
  {[columns |-> f, primary_keys |-> {}, rows |-> rows] :
     f \in UNION {[names -> forms] : names \in SUBSET {"id", "note"}}}

\* A number, a text, JSON, a flag where there is one, and what fits nowhere.
SourceForms ==
  [postgres |-> {Column("int4", FALSE, FALSE, 0), Column("numeric", FALSE, FALSE, 0),
                 Column("varchar", TRUE, FALSE, 2), Column("json", FALSE, FALSE, 0),
                 Column("bool", TRUE, FALSE, 0), Column("uuid", FALSE, FALSE, 0)},
   mysql    |-> {Column("smallint", FALSE, FALSE, 0), Column("decimal", FALSE, FALSE, 0),
                 Column("varchar", TRUE, FALSE, 2), Column("json", FALSE, FALSE, 0),
                 Column("bit", FALSE, FALSE, 0)},
   sqlite   |-> {Column("integer", FALSE, FALSE, 0), Column("decimal", FALSE, FALSE, 0),
                 Column("text", TRUE, FALSE, 0), Column("blob", FALSE, FALSE, 0),
                 Column("boolean", TRUE, FALSE, 0)}]

DestForms ==
  [postgres |-> {Column("int8", FALSE, FALSE, 0), Column("varchar", TRUE, FALSE, 1),
                 Column("bytea", FALSE, TRUE, 0), Column("json", TRUE, FALSE, 0),
                 Column("bool", TRUE, FALSE, 0)},
   mysql    |-> {Column("bigint", FALSE, FALSE, 0), Column("varchar", TRUE, FALSE, 1),
                 Column("json", FALSE, TRUE, 0)},
   sqlite   |-> {Column("int", FALSE, FALSE, 0), Column("text", FALSE, TRUE, 0),
                 Column("boolean", TRUE, FALSE, 0)}]

Two == {t1, t2}
OneThenTwiceTheOther == <<t1, t2, t2>>
Number(kind) == [columns |-> ("id" :> Column(IF kind = "postgres" THEN "int8" ELSE "bigint", FALSE, FALSE, 0)),
                  primary_keys |-> {}, rows |-> 2]
Sources == [kind \in DatabaseTypes |->
  [t \in Two |-> IF t = t1 THEN TablesOf(SourceForms[kind], 3) ELSE {Number(kind)}]]
Destinations == [kind \in DatabaseTypes |->
  [t \in Two |-> IF t = t1 THEN TablesOf(DestForms[kind], 0) ELSE {}]]

AcrossKinds == {<<"postgres", "sqlite">>, <<"postgres", "mysql">>,
                <<"sqlite", "postgres">>, <<"mysql", "postgres">>}

=============================================================================

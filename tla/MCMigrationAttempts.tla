------------------------- MODULE MCMigrationAttempts -------------------------
(* Small instances of MigrationAttempts for TLC: tables of one column of     *)
(* every type in the providers' maps and of some in none, with and without   *)
(* sizes, and tables with a key of two columns.                              *)
EXTENDS MigrationAttempts

Column(udt, nullable, length, precision, scale) ==
  [udt |-> udt, is_nullable |-> nullable, has_default |-> FALSE, is_enum |-> udt = "MOOD",
   max_length |-> length, precision |-> precision, scale |-> scale]

\* The lengths, precisions and scales of a column of that type in the catalogs.
Sizes(kind, udt) ==
  CASE kind = "mysql" /\ udt = "varchar"  -> {<<n, 0, 0>> : n \in {0, 2, 1000, 20000}}
    [] kind = "mysql" /\ udt \in {"enum", "set"} -> {<<0, 0, 0>>, <<5, 0, 0>>}
    [] kind = "mysql" /\ udt \in {"char", "BINARY", "VARBINARY"} -> {<<2, 0, 0>>}
    [] kind = "mysql" /\ udt \in {"tinytext", "tinyblob"} -> {<<255, 0, 0>>}
    [] kind = "mysql" /\ udt \in {"text", "blob"} -> {<<65535, 0, 0>>}
    [] kind = "mysql" /\ udt \in {"mediumtext", "mediumblob", "longtext", "longblob"} ->
         {<<16777215, 0, 0>>}
    [] kind = "mysql" /\ udt \in {"decimal", "numeric"} -> {<<0, 3, 0>>, <<0, 3, 1>>, <<0, 20, 0>>}
    [] kind = "mysql" /\ udt \in {"float", "double"} -> {<<0, 12, 0>>, <<0, 7, 4>>}
    [] kind = "mysql" /\ udt = "bit" -> {<<0, 1, 0>>, <<0, 8, 0>>}
    [] kind = "mysql" /\ udt = "int" -> {<<0, 10, 0>>}
    [] kind = "postgres" /\ udt = "int4" -> {<<0, 32, 0>>}
    [] kind = "postgres" /\ udt \in {"varchar", "bpchar"} -> {<<n, 0, 0>> : n \in {0, 2, 1000}}
    [] kind = "postgres" /\ udt = "BIT" -> {<<1, 0, 0>>, <<100, 0, 0>>}
    [] kind = "postgres" /\ udt = "numeric" ->
         {<<0, 0, 0>>, <<0, 3, 0>>, <<0, 3, 1>>, <<0, 20, 0>>, <<0, 80, 1>>}
    [] OTHER -> {<<0, 0, 0>>}

Unmapped == [postgres |-> OtherTypes("postgres") \cup {"MOOD"}, mysql |-> OtherTypes("mysql"),
             sqlite |-> {"TINYTEXT", "GEOMETRY"}]
FormsOf(kind, udt) ==
  {Column(udt, n, z[1], z[2], z[3]) : n \in BOOLEAN, z \in Sizes(kind, udt)}
Number(kind) == Column(IF kind = "postgres" THEN "int4" ELSE "int", FALSE, 0, 0, 0)

Narrow(kind) ==
  {[columns |-> "id" :> form, primary_keys |-> keys, rows |-> 1] :
     form \in UNION {FormsOf(kind, u) : u \in DOMAIN TypesOf(kind) \cup Unmapped[kind]},
     keys \in {{}, {"id"}}}
Wide(kind) ==
  {[columns |-> ("id" :> Number(kind) @@ "no" :> Number(kind)), primary_keys |-> keys, rows |-> 0] :
     keys \in SUBSET {"id", "no"}}

\* A key column is never nullable, nor, in PostgreSQL, JSON.
Sources == [kind \in DatabaseTypes |->
  {t \in Narrow(kind) \cup Wide(kind) : \A k \in t.primary_keys :
     ~t.columns[k].is_nullable /\ (kind = "postgres" => t.columns[k].udt # "json")}]

\* Made by others: one that any number fits, and one that nothing fits.
Destinations == [kind \in DatabaseTypes |->
  {[columns |-> "id" :> Column("bigint", FALSE, 0, 0, 0), primary_keys |-> {}, rows |-> 0],
   [columns |-> "other" :> Column("text", FALSE, 0, 0, 0), primary_keys |-> {}, rows |-> 0]}]

Anywhere == DatabaseTypes \X DatabaseTypes

=============================================================================

----------------------------- MODULE SchemaMapping -----------------------------
(***************************************************************************)
(* Schemas and rows between two databases, without state: what the          *)
(* providers' get_table_schema() makes of a catalog, the validator of two   *)
(* schemas, the mapper of a row, and what create_table() declares.          *)
(***************************************************************************)
EXTENDS Naturals, TLC
LOCAL INSTANCE FiniteSetsExt

CONSTANTS
  EstimateAbove, \* PostgreSQL answers with an estimate that is above so many rows,
  Estimates,     \* of those its statistics may have for a table, right or not
  RowChars,      \* MySQL has room for so many characters of utf8mb4 in a row,
  KeyChars,      \* and in a key
  Missing        \* None: no destination schema

DatabaseTypes == {"postgres", "mysql", "sqlite"}

(* A catalog has the columns of a table, a function from names to records of *)
(* udt (the database's own type), is_nullable, has_default, is_enum, and the  *)
(* sizes max_length, precision and scale, where 0 stands for None, as it does *)
(* to the code; the columns it marks as primary_keys; and its rows. A table   *)
(* schema is the same, with the provider's data_type and row_count.          *)

-----------------------------------------------------------------------------
(* get_table_schema() of the three providers                               *)

DoublePrecision == "DOUBLE PRECISION"

PgTypes ==
  [int2 |-> "SMALLINT", int4 |-> "INTEGER", int8 |-> "BIGINT", float4 |-> "FLOAT",
   float8 |-> DoublePrecision, numeric |-> "NUMERIC", bool |-> "BOOLEAN",
   text |-> "TEXT", varchar |-> "VARCHAR", bpchar |-> "CHAR", bytea |-> "BYTEA",
   date |-> "DATE", time |-> "TIME", timetz |-> "TIMETZ", timestamp |-> "TIMESTAMP",
   timestamptz |-> "TIMESTAMPTZ", interval |-> "INTERVAL", uuid |-> "UUID",
   json |-> "JSON", jsonb |-> "JSONB", array |-> "TEXT"]

MySQLTypes ==
  [tinyint |-> "TINYINT", smallint |-> "SMALLINT", mediumint |-> "MEDIUMINT",
   int |-> "INT", bigint |-> "BIGINT", float |-> "FLOAT", double |-> "DOUBLE",
   decimal |-> "DECIMAL", numeric |-> "DECIMAL", char |-> "CHAR",
   varchar |-> "VARCHAR", tinytext |-> "TINYTEXT", text |-> "TEXT",
   mediumtext |-> "MEDIUMTEXT", longtext |-> "LONGTEXT", tinyblob |-> "TINYBLOB",
   blob |-> "BLOB", mediumblob |-> "MEDIUMBLOB", longblob |-> "LONGBLOB",
   date |-> "DATE", time |-> "TIME", datetime |-> "DATETIME",
   timestamp |-> "TIMESTAMP", year |-> "YEAR", bool |-> "BOOLEAN",
   boolean |-> "BOOLEAN", bit |-> "BIT", json |-> "JSON", enum |-> "VARCHAR",
   set |-> "VARCHAR"]

SQLiteTypes ==
  [integer |-> "INTEGER", int |-> "INTEGER", tinyint |-> "SMALLINT",
   smallint |-> "SMALLINT", mediumint |-> "INTEGER", bigint |-> "BIGINT",
   real |-> "FLOAT", float |-> "FLOAT", double |-> "DOUBLE", numeric |-> "DECIMAL",
   decimal |-> "DECIMAL", text |-> "TEXT", varchar |-> "VARCHAR",
   character |-> "VARCHAR", char |-> "CHAR", clob |-> "TEXT", blob |-> "BLOB",
   boolean |-> "BOOLEAN", date |-> "DATE", datetime |-> "DATETIME",
   timestamp |-> "TIMESTAMP", json |-> "JSON"]

\* Wrong on purpose: SQLite stores JSON as text, so call it that.
TypesOfStorage(kind) == CASE kind = "postgres" -> PgTypes
                          [] kind = "mysql"      -> MySQLTypes
                          [] kind = "sqlite"     -> [SQLiteTypes EXCEPT !.json = "TEXT"]

TypesOf(kind) == CASE kind = "postgres" -> PgTypes
                   [] kind = "mysql"      -> MySQLTypes
                   [] kind = "sqlite"     -> SQLiteTypes

\* A type that is not in the map keeps its name: such a udt is written in capitals
\* here, as all its readers take it. SQLite's sizes are cut off, and only
\* PostgreSQL is asked for the labels of its enums.
Discovered(kind, col) ==
  LET Known(n) == IF kind = "sqlite" THEN 0 ELSE n
  IN  [data_type   |-> IF col.udt \in DOMAIN TypesOf(kind) THEN TypesOf(kind)[col.udt] ELSE col.udt,
       is_nullable |-> col.is_nullable, has_default |-> col.has_default,
       is_enum     |-> kind = "postgres" /\ col.is_enum,
       max_length  |-> Known(col.max_length),
       precision   |-> Known(col.precision), scale |-> Known(col.scale)]

\* get_row_count() of a table with so many rows: pg_class.reltuples if it is large,
\* as of the last ANALYZE, and otherwise COUNT(*).
RowCounts(kind, rows) ==
  {rows} \cup (IF kind = "postgres" THEN {n \in Estimates : n > EstimateAbove} ELSE {})

\* The answers of a database of that kind whose catalog may say so.
Answers(kind, catalogs) ==
  UNION {{[columns |-> [c \in DOMAIN t.columns |-> Discovered(kind, t.columns[c])],
           primary_keys |-> t.primary_keys, row_count |-> n] : n \in RowCounts(kind, t.rows)} : t \in catalogs}

-----------------------------------------------------------------------------
(* validate_schema_compatibility()                                         *)

TypeFamilies ==
  { {"INTEGER", "SMALLINT", "BIGINT", "FLOAT", "DOUBLE", "DECIMAL", "NUMERIC"},
    {"CHAR", "VARCHAR", "TEXT", "NCHAR", "NVARCHAR", "NTEXT"},
    {"DATE", "TIME", "DATETIME", "TIMESTAMP", "TIMETZ", "TIMESTAMPTZ"},
    {"BOOLEAN", "BOOL", "BIT"},
    {"BLOB", "BYTEA", "BINARY", "VARBINARY"},
    {"JSON", "JSONB"} }

\* The family of a type; {} for an unknown one, such as UUID, or MySQL's INT.
Family(dtype) == UNION {f \in TypeFamilies : dtype \in f}

Clash(scol, dcol) ==
  /\ Family(scol.data_type) # {} /\ Family(dcol.data_type) # {}
  /\ Family(scol.data_type) # Family(dcol.data_type)

Shared(src, dst) == DOMAIN src.columns \cap DOMAIN dst.columns
Unmatched(src, dst) == DOMAIN dst.columns \ DOMAIN src.columns
Mandatory(dcol) == ~dcol.is_nullable /\ ~dcol.has_default

\* Wrong on purpose: only the columns of the source are looked at.
IncompatibleTypes(src, dst) ==
  \/ DOMAIN src.columns = {}
  \/ dst # Missing /\ \E c \in Shared(src, dst) : Clash(src.columns[c], dst.columns[c])

\* SchemaCompatibilityError.
Incompatible(src, dst) ==
  \/ DOMAIN src.columns = {}
  \/ /\ dst # Missing
     /\ \/ \E c \in Shared(src, dst) : Clash(src.columns[c], dst.columns[c])
        \/ \E c \in Unmatched(src, dst) : Mandatory(dst.columns[c])

\* The warnings about the table at position i of the request.
Concerns(i, src, dst) ==
  IF dst = Missing THEN {} ELSE
     {<<"not_in_destination", i>> : c \in DOMAIN src.columns \ DOMAIN dst.columns}
       \cup {<<"may_be_truncated", i>> : c \in
              {x \in Shared(src, dst) : dst.columns[x].max_length > 0
                          /\ src.columns[x].max_length > dst.columns[x].max_length}}
       \cup {<<"not_in_source", i>> : c \in Unmatched(src, dst)}

\* build_column_mappings(); source_col and dest_col are both c.
ColumnMappings(src, dst) ==
  [c \in DOMAIN src.columns |->
     [dest_type |-> IF dst # Missing /\ c \in DOMAIN dst.columns
                    THEN dst.columns[c].data_type ELSE src.columns[c].data_type,
      include   |-> dst # Missing => c \in DOMAIN dst.columns]]

-----------------------------------------------------------------------------
(* create_table(): the source's schema, declared to the destination.        *)

NoSize == [length |-> 0, precision |-> 0, scale |-> 0]

\* Wrong on purpose: a size for numbers only.
SizeOfNumbers(kind, col) ==
  IF kind = "sqlite" \/ (kind = "postgres" /\ col.is_enum) THEN NoSize
  ELSE IF col.precision > 0 /\ col.scale > 0
       THEN [NoSize EXCEPT !.precision = col.precision, !.scale = col.scale]
  ELSE NoSize

\* The size a column is declared with: its length, or else its precision and
\* scale when neither is None or 0. SQLite's DDL has none.
Size(kind, col) ==
  IF kind = "sqlite" \/ (kind = "postgres" /\ col.is_enum) THEN NoSize
  ELSE IF col.max_length > 0 THEN [NoSize EXCEPT !.length = col.max_length]
  ELSE IF col.precision > 0 /\ col.scale > 0
       THEN [NoSize EXCEPT !.precision = col.precision, !.scale = col.scale]
  ELSE NoSize

\* SQLite has the key in the column's own clause, if it is one column; else it
\* is, like everywhere else, in the table's.
KeyOfColumn(kind, schema) == {k \in schema.primary_keys : kind = "sqlite" /\ schema.primary_keys = {k}}
KeyOfTable(kind, schema) == {k \in schema.primary_keys : kind = "sqlite" => schema.primary_keys # {k}}

\* Wrong on purpose: SQLite's clause for a composite key is forgotten.
KeyOfColumnOnly(kind, schema) ==
  KeyOfColumn(kind, schema) \cup IF kind = "sqlite" THEN {} ELSE KeyOfTable(kind, schema)

DeclaredKey(kind, schema) == KeyOfColumn(kind, schema) \cup KeyOfTable(kind, schema)

\* The types a database knows, with the udt its catalog shows for them.
PgWords ==
  [SMALLINT |-> "int2", INT |-> "int4", INTEGER |-> "int4", BIGINT |-> "int8",
   FLOAT |-> "float8", NUMERIC |-> "numeric", DECIMAL |-> "numeric",
   BOOLEAN |-> "bool", BIT |-> "BIT", TEXT |-> "text", VARCHAR |-> "varchar",
   CHAR |-> "bpchar", BYTEA |-> "bytea", DATE |-> "date", TIME |-> "time",
   TIMETZ |-> "timetz", TIMESTAMP |-> "timestamp", TIMESTAMPTZ |-> "timestamptz",
   INTERVAL |-> "interval", UUID |-> "uuid", JSON |-> "json", JSONB |-> "jsonb",
   INET |-> "INET"]

MySQLWords ==
  [TINYINT |-> "tinyint", SMALLINT |-> "smallint", MEDIUMINT |-> "mediumint",
   INT |-> "int", INTEGER |-> "int", BIGINT |-> "bigint", FLOAT |-> "float",
   DOUBLE |-> "double", DECIMAL |-> "decimal", NUMERIC |-> "decimal",
   BOOLEAN |-> "tinyint", BIT |-> "bit", CHAR |-> "char", VARCHAR |-> "varchar",
   TINYTEXT |-> "tinytext", TEXT |-> "text", MEDIUMTEXT |-> "mediumtext",
   LONGTEXT |-> "longtext", TINYBLOB |-> "tinyblob", BLOB |-> "blob",
   MEDIUMBLOB |-> "mediumblob", LONGBLOB |-> "longblob", BINARY |-> "BINARY",
   VARBINARY |-> "VARBINARY", DATE |-> "date", TIME |-> "time",
   DATETIME |-> "datetime", TIMESTAMP |-> "timestamp", YEAR |-> "year",
   JSON |-> "json", GEOMETRY |-> "GEOMETRY"]

\* Types in the words of SQLite's own map; any other name is kept as it is.
SQLiteWords ==
  [INTEGER |-> "integer", INT |-> "int", TINYINT |-> "tinyint", SMALLINT |-> "smallint",
   MEDIUMINT |-> "mediumint", BIGINT |-> "bigint", REAL |-> "real", FLOAT |-> "float",
   DOUBLE |-> "double", NUMERIC |-> "numeric", DECIMAL |-> "decimal", TEXT |-> "text",
   VARCHAR |-> "varchar", CHAR |-> "char", BLOB |-> "blob", BOOLEAN |-> "boolean",
   DATE |-> "date", DATETIME |-> "datetime", TIMESTAMP |-> "timestamp", JSON |-> "json"]

WithDouble(words, udt) ==
  [t \in DOMAIN words \cup {DoublePrecision} |-> IF t = DoublePrecision THEN udt ELSE words[t]]

NativeOf(kind) == CASE kind = "postgres" -> WithDouble(PgWords, "float8")
                    [] kind = "mysql"      -> WithDouble(MySQLWords, "double")
                    [] kind = "sqlite"     -> SQLiteWords

\* Types that one PostgreSQL has and another may lack, by example: an extension's,
\* a composite one, and the array of an enum, as only enums are created.
ForeignTypes == {"hstore", "address", "_mood"}

TakesLength(kind) ==
  CASE kind = "postgres" -> {"CHAR", "VARCHAR", "BIT"}
    [] kind = "mysql"    -> {"CHAR", "VARCHAR", "BIT", "TEXT", "BLOB", "BINARY", "VARBINARY"}
    [] kind = "sqlite"   -> {}
TakesPrecision(kind) == CASE kind = "postgres" -> {"NUMERIC", "DECIMAL"}
                          [] kind = "mysql"      -> {"NUMERIC", "DECIMAL", "FLOAT", "DOUBLE"}
                          [] kind = "sqlite"     -> {}

\* A size beyond MySQL's limits.
TooBig(dtype, size) ==
  \/ dtype \in {"CHAR", "BINARY"} /\ size.length > 255
  \/ dtype = "BIT" /\ size.length > 64
  \/ dtype \in {"NUMERIC", "DECIMAL"} /\ size.precision > 65
  \/ size.scale > 30 \/ size.scale > size.precision

\* Whether the database refuses a column declared so; known are the foreign types
\* that it has.
RefusedColumn(kind, col, known) ==
  LET size == Size(kind, col)
  IN  /\ kind # "sqlite"
      /\ \/ /\ col.data_type \notin DOMAIN NativeOf(kind)
            /\ ~(kind = "postgres" /\ (col.is_enum \/ col.data_type \in known))
         \/ size.length > 0 /\ col.data_type \notin TakesLength(kind)
         \/ size.precision > 0 /\ col.data_type \notin TakesPrecision(kind)
         \/ kind = "mysql" /\ \/ TooBig(col.data_type, size)
                              \/ size.length = 0 /\ col.data_type \in {"VARCHAR", "VARBINARY"}

\* Types that no key can be of. MySQL asks for a prefix length, which no key is declared
\* with.
Unkeyable(kind) ==
  CASE kind = "postgres" -> {"JSON"}
    [] kind = "mysql"    -> {"TINYTEXT", "TEXT", "MEDIUMTEXT", "LONGTEXT", "TINYBLOB", "BLOB",
                             "MEDIUMBLOB", "LONGBLOB", "JSON", "GEOMETRY"}
    [] kind = "sqlite"   -> {}

\* The characters of texts in these columns; and whether they are too many for the
\* character set that create_table() gives a MySQL table.
Chars(columns, names) ==
  MapThenSumSet(LAMBDA c : IF columns[c].data_type \in {"CHAR", "VARCHAR"}
                           THEN columns[c].max_length ELSE 0, names)
TooWide(kind, schema) ==
  /\ kind = "mysql"
  /\ \/ Chars(schema.columns, DOMAIN schema.columns) > RowChars
     \/ Chars(schema.columns, schema.primary_keys) > KeyChars

\* Whether it refuses CREATE TABLE IF NOT EXISTS. MySQL parses the columns in any
\* case; all else is looked at only if the table is missing.
Refuses(kind, schema, dst, known) ==
  \/ /\ kind = "postgres" => dst = Missing
     /\ \E c \in DOMAIN schema.columns : RefusedColumn(kind, schema.columns[c], known)
  \/ /\ dst = Missing
     /\ \/ \E k \in schema.primary_keys :
             /\ schema.columns[k].data_type \in Unkeyable(kind)
             /\ ~(kind = "postgres" /\ schema.columns[k].is_enum)
        \/ TooWide(kind, schema)

\* What a type declared without a size holds, where that is less than another
\* database may have stored: the characters, bytes or bits, and the digits.
BareLength(kind) ==
  CASE kind = "postgres" -> [CHAR |-> 1, BIT |-> 1]
    [] kind = "mysql"    -> [CHAR |-> 1, BINARY |-> 1,
                             TINYTEXT |-> 255, TEXT |-> 65535, MEDIUMTEXT |-> 16777215,
                             TINYBLOB |-> 255, BLOB |-> 65535, MEDIUMBLOB |-> 16777215]
    [] kind = "sqlite"   -> <<>>
BarePrecision(kind) == IF kind = "mysql" THEN [DECIMAL |-> 10, NUMERIC |-> 10, BIT |-> 1] ELSE <<>>

\* The size the catalog shows of a column declared so; of a TEXT(n), where MySQL has
\* more, what was asked for. MySQL shows the bits of a BIT(n) as its precision.
Held(kind, col) ==
  LET size  == Size(kind, col)
      dtype == col.data_type
      enum  == kind = "postgres" /\ col.is_enum
  IN  CASE size = NoSize /\ ~enum ->
             [NoSize EXCEPT !.length    = IF dtype \in DOMAIN BareLength(kind)
                                          THEN BareLength(kind)[dtype] ELSE 0,
                            !.precision = IF dtype \in DOMAIN BarePrecision(kind)
                                          THEN BarePrecision(kind)[dtype] ELSE 0]
        [] kind = "mysql" /\ dtype = "BIT" /\ size # NoSize ->
             [NoSize EXCEPT !.precision = size.length]
        [] OTHER -> size

\* Its type there. A TEXT with a length, which is that of a MySQL TEXT in bytes,
\* becomes a type that holds as many characters.
Native(kind, col) ==
  IF kind = "mysql" /\ col.data_type = "TEXT" /\ col.max_length > 0 THEN "mediumtext"
  ELSE IF col.data_type \in DOMAIN NativeOf(kind) THEN NativeOf(kind)[col.data_type]
  ELSE col.data_type

\* The catalog of the table it makes: no defaults, and a key that is NOT NULL but
\* in SQLite.
Created(kind, schema) ==
  LET Column(c) ==
        LET col  == schema.columns[c]
            size == Held(kind, col)
        IN  [udt |-> Native(kind, col),
             is_nullable |-> col.is_nullable /\ (kind # "sqlite" => c \notin DeclaredKey(kind, schema)),
             has_default |-> FALSE, is_enum |-> col.is_enum, max_length |-> size.length,
             precision   |-> size.precision, scale |-> size.scale]
  IN  [columns |-> [c \in DOMAIN schema.columns |-> Column(c)],
       primary_keys |-> DeclaredKey(kind, schema), rows |-> 0]

-----------------------------------------------------------------------------
(* A row on its way. Of a value only its class in Python counts, and of a    *)
(* text whether it has one character (short) or more (long); a number is one *)
(* that the column it goes to has room for.                                 *)

Texts == {"short", "long"}
Textual == {"TEXT", "VARCHAR", "CHAR", "TINYTEXT", "MEDIUMTEXT", "LONGTEXT",
            "NCHAR", "NVARCHAR", "NTEXT", "JSON", "JSONB"}
WholeNumbers == {"INTEGER", "SMALLINT", "BIGINT", "TINYINT", "MEDIUMINT", "INT", "YEAR"}
Floats == {"FLOAT", "DOUBLE", DoublePrecision}
Decimals == {"DECIMAL", "NUMERIC"}
Binary == {"BYTEA", "BLOB", "BINARY", "VARBINARY", "TINYBLOB", "MEDIUMBLOB", "LONGBLOB"}
Classes == {"null", "int", "float", "decimal", "bool", "bytes", "other"} \cup Texts

\* What a driver makes of a value in a column: asyncpg and aiomysql know Decimal,
\* SQLite does not, nor a type for flags; without a codec JSON is text. All that
\* every driver has its own class for (dates, times, bits, arrays) is "other".
Gives(kind, col, value) ==
  \/ value = "null" /\ col.is_nullable
  \/ value = "int" /\ \/ col.data_type \in WholeNumbers
                      \/ kind = "sqlite" /\ col.data_type \in Decimals
                      \/ kind # "postgres" /\ col.data_type = "BOOLEAN"
  \/ value = "float" /\ \/ col.data_type \in Floats
                        \/ kind = "sqlite" /\ col.data_type \in Decimals
  \/ value = "decimal" /\ kind # "sqlite" /\ col.data_type \in Decimals
  \/ value = "bool" /\ kind = "postgres" /\ col.data_type = "BOOLEAN"
  \/ value \in Texts /\ col.data_type \in Textual /\ (value = "long" => col.max_length # 1)
  \/ value = "bytes" /\ col.data_type \in Binary
  \/ value = "other" /\ col.data_type \notin WholeNumbers \cup Floats \cup Decimals
                                       \cup Textual \cup Binary \cup {"BOOLEAN"}

RowsOf(kind, src) ==
  {row \in [DOMAIN src.columns -> Classes] :
     \A c \in DOMAIN src.columns : Gives(kind, src.columns[c], row[c])}

\* Wrong on purpose: the flags of SQLite are numbers, and stay so.
CoercedTexts(value, dest_type) ==
  CASE dest_type = "BOOLEAN" /\ value \in Texts -> "bool"
    [] dest_type \in {"INTEGER", "SMALLINT", "BIGINT"} /\ value = "float" -> "int"
    [] OTHER -> value

\* _coerce(); no driver returns the dict that it would make a text of, and the
\* list of an array column is an "other".
Coerced(value, dest_type) ==
  CASE dest_type = "BOOLEAN" /\ value \in {"int", "bool"} \cup Texts -> "bool"
    [] dest_type \in {"INTEGER", "SMALLINT", "BIGINT"} /\ value = "float" -> "int"
    [] OTHER -> value

\* The row that reaches insert_batch: apply_mappings() if any column is
\* included, else the row as SELECT * returned it.
Transformed(plan, row) ==
  LET active == {c \in DOMAIN plan.column_mappings : plan.column_mappings[c].include}
  IN  IF active = {} THEN row
      ELSE [c \in active |-> Coerced(row[c], plan.column_mappings[c].dest_type)]

\* Whether a column of the destination database takes a value as it is: SQLite
\* what its driver can bind, MySQL what it can quote, and asyncpg what the type
\* of the column has an encoder for, which calls int() and float().
Takes(kind, col, value) ==
  LET bound == {"int", "float", "bool", "bytes"} \cup Texts
  IN  \/ value = "null" /\ col.is_nullable
      \/ /\ value = "long" => col.max_length # 1
         /\ \/ kind = "sqlite" /\ value \in bound
            \/ kind = "mysql" /\ value \in bound \cup {"decimal"}
            \/ /\ kind = "postgres"
               /\ \/ /\ col.data_type \in WholeNumbers \cup Floats \cup Decimals
                     /\ value \in {"int", "float", "decimal", "bool"}
                  \/ col.data_type = "BOOLEAN" /\ value = "bool"
                  \/ col.data_type \in Textual /\ value \in Texts
                  \/ col.data_type \in Binary  /\ value = "bytes"

\* Whether it takes a row: known columns, good values, nothing left out.
Accepts(kind, dst, row) ==
  /\ DOMAIN row \subseteq DOMAIN dst.columns
  /\ \A c \in DOMAIN row : Takes(kind, dst.columns[c], row[c])
  /\ \A c \in DOMAIN dst.columns \ DOMAIN row : ~Mandatory(dst.columns[c])

=============================================================================

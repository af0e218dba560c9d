------------------------------ MODULE Credentials ------------------------------
(***************************************************************************)
(* The way of a connection's credentials from a request to the provider    *)
(* that opens the database. The connection test keeps the fields that its  *)
(* connection_method asks for; create_migration, the schema endpoint and,   *)
(* through the encrypted column, the worker keep all that are not None.     *)
(* Texts are opaque: what matters is whether one is there and not empty,    *)
(* and what a URL that it is, or is a part of, means to a client library.   *)
(***************************************************************************)
EXTENDS Integers, TLAPS

CONSTANTS
  None, Empty, Names,  \* None, "", and the other texts
  Literal,    \* of those, the ones that mean themselves wherever they are in a URL
  Dsns,       \* those that asyncpg can read as a DSN
  Replaced,   \* [{"postgres", "sqlite"} -> [a database_url -> it with the scheme replaced]]
  urlparse    \* [Names -> what urllib finds there], the path without its slashes;
              \* the port is no number of 0..65535 if asking for it raises

Found == [hostname : {None} \cup Names, port : Int \cup {None}, username : {None, Empty} \cup Names,
          password : {None, Empty} \cup Names, path : {Empty} \cup Names]

ASSUME TextsApart == None # Empty /\ {None, Empty} \cap Names = {}
ASSUME TextsRead ==
  /\ Literal \subseteq Names /\ Dsns \subseteq Names
  /\ Replaced["postgres"] \in [Names -> Names] /\ Replaced["sqlite"] \in [Names -> Names \cup {Empty}]
  /\ urlparse \in [Names -> Found]

Texts == {None, Empty} \cup Names
Given(text) == text \notin {None, Empty}

DatabaseType == {"postgres", "mysql", "sqlite", "mssql", "mongodb", "oracle", "mariadb"}
ASSUME NoneApart == None \notin Int /\ None \notin DatabaseType

PROVIDER_REGISTRY == {"postgres", "mysql", "sqlite"}

RequestWith(ports) ==
  [database_type : DatabaseType, connection_method : {"url", "credentials"},
   database_url : Texts, host : Texts, port : ports, database : Texts,
   username : Texts, password : Texts, file_path : Texts]
Request == RequestWith(Int \cup {None})

validate_port(r) == r.port # None => r.port \in 1..65535
validate_fields_for_method(r) ==
  /\ r.connection_method = "url" => Given(r.database_url)
  /\ r.connection_method = "credentials" /\ r.database_type = "sqlite" => Given(r.file_path)
  /\ r.connection_method = "credentials" /\ r.database_type # "sqlite" =>
       \A f \in {"host", "database", "username", "password"} : Given(r[f])
Accepted(r) == validate_port(r) /\ validate_fields_for_method(r)

-----------------------------------------------------------------------------
(* The dict a provider is made with.                                       *)

build_credentials(r) ==
  [f \in {"connection_method"}
         \cup (IF r.connection_method = "url" THEN {"database_url"}
               ELSE {"host", "port", "database", "username", "password"})
         \cup (IF r.connection_method = "credentials" /\ r.database_type = "sqlite"
               THEN {"file_path"} ELSE {})
   |-> r[f]]

creds_to_dict(r) == [f \in {g \in DOMAIN r : r[g] # None} |-> r[f]]

\* Fernet: only the ENCRYPTION_KEY that wrote a text reads it.
encrypt_credentials(key, d) == [key |-> key, plaintext |-> d]
decrypt_credentials(key, stored) == IF stored.key = key THEN stored.plaintext
                                    ELSE [raised |-> "ValueError"]

-----------------------------------------------------------------------------
(* What the provider opens: a DSN, a server's database or a file; or the    *)
(* exception that its constructor, or its client library, raises; or a text *)
(* that does not say what it was made of, which its library will refuse or  *)
(* take for another server.                                                *)

get(d, f, default) == IF f \in DOMAIN d THEN d[f] ELSE default
HasUrl(d) == Given(get(d, "database_url", None))
Or(text, default) == IF Given(text) THEN text ELSE default

\* The dict's values go into a URL as they are, without quoting.
build_dsn(d) ==
  LET texts == {"username", "password", "host", "database"}
      port == get(d, "port", 5432)
      server == [host |-> d["host"], port |-> port, user |-> d["username"],
                 password |-> d["password"], db |-> d["database"]]
  IN  IF HasUrl(d)
      THEN LET dsn == Replaced["postgres"][d["database_url"]]
           IN  IF dsn \in Dsns THEN [dsn |-> dsn] ELSE [raised |-> "ClientConfigurationError"]
      ELSE IF ~(texts \subseteq DOMAIN d) THEN [raised |-> "KeyError"]
      ELSE IF \E f \in texts : d[f] \notin Literal THEN [misread |-> server]
      ELSE IF port = None THEN [raised |-> "ValueError"]  \* "...:None/..."
      ELSE server

\* A database_url is not unquoted, and its scheme is not looked at.
PortRead(r) == r.port \in 0..65535 \cup {None}
FromUrl(r) ==
  [host |-> Or(r.hostname, "localhost"), port |-> IF r.port \in {None, 0} THEN 3306 ELSE r.port,
   user |-> Or(r.username, Empty), password |-> Or(r.password, Empty), db |-> r.path]
FromFields(d) ==
  [host |-> get(d, "host", "localhost"), port |-> get(d, "port", 3306),
   user |-> get(d, "username", Empty), password |-> get(d, "password", Empty),
   db |-> get(d, "database", Empty)]

parse_credentials(d) ==
  IF HasUrl(d)
  THEN LET r == urlparse[d["database_url"]]
       IN  IF PortRead(r) THEN FromUrl(r) ELSE [raised |-> "ValueError"]
  ELSE IF get(d, "port", 3306) = None THEN [raised |-> "TypeError"]  \* int(None)
       ELSE FromFields(d)

resolve_path(d) ==
  IF HasUrl(d) THEN [path |-> Replaced["sqlite"][d["database_url"]]]
               ELSE [path |-> get(d, "file_path", ":memory:")]

get_provider(type, d) ==
  IF type \notin PROVIDER_REGISTRY THEN [raised |-> "NotImplementedError"]
  ELSE IF type = "postgres" THEN build_dsn(d)
  ELSE IF type = "mysql"    THEN parse_credentials(d)
  ELSE resolve_path(d)

Opens(target) == {"raised", "misread"} \cap DOMAIN target = {}

Tested(r)   == get_provider(r.database_type, build_credentials(r))
Migrated(r) == get_provider(r.database_type, creds_to_dict(r))

\* _execute: the type comes out of the stored dict as well.
Worked(key, stored) ==
  LET d == decrypt_credentials(key, stored)
  IN  IF "raised" \in DOMAIN d THEN d
      ELSE IF "database_type" \notin DOMAIN d THEN [raised |-> "ValueError"]
      ELSE get_provider(d["database_type"], d)

-----------------------------------------------------------------------------
(* What the endpoints have to agree on.                                    *)

\* "Accepts the same connection credential format": the test opens what the
\* migration will open, unless it lacks a port that the method needs, which is the
\* default for the migration and an error for the test. A URL beside credentials
\* is ignored by the test and all that the migration looks at.
HasPort(r) == r.connection_method = "url" \/ r.database_type = "sqlite" \/ r.port # None

TestAgrees(r) ==
  Accepted(r) /\ r.database_type \in PROVIDER_REGISTRY =>
    IF r.connection_method = "credentials" /\ Given(r.database_url)
    THEN /\ Migrated(r) = Migrated([r EXCEPT !.connection_method = "url"])
         /\ Tested(r) = Tested([r EXCEPT !.database_url = None])
    ELSE Tested(r) = Migrated(r) <=> HasPort(r)

\* What the validators accept can be opened, whichever fields are None, exactly
\* when the type has a provider and its client can read the URL; for PostgreSQL
\* credentials are put into one, and are misread unless they mean themselves there.
UrlIsRead(type, url) ==
  CASE type = "postgres" -> Replaced["postgres"][url] \in Dsns
    [] type = "mysql"    -> PortRead(urlparse[url])
    [] type = "sqlite"   -> TRUE
TextsAreRead(r) ==
  r.database_type = "postgres" =>
    \A f \in {"username", "password", "host", "database"} : r[f] \in Literal

\* What credentials name: with the type's own port if they have none.
Named(r) ==
  IF r.database_type = "sqlite" THEN [path |-> r.file_path]
  ELSE [host |-> r.host, user |-> r.username, password |-> r.password, db |-> r.database,
        port |-> IF r.port # None THEN r.port
                 ELSE IF r.database_type = "postgres" THEN 5432 ELSE 3306]

AcceptedOpens(r) ==
  Accepted(r) =>
    IF Given(r.database_url)
    THEN Opens(Migrated(r)) <=> /\ r.database_type \in PROVIDER_REGISTRY
                                /\ UrlIsRead(r.database_type, r.database_url)
    ELSE /\ Opens(Migrated(r)) <=> r.database_type \in PROVIDER_REGISTRY /\ TextsAreRead(r)
         /\ Opens(Migrated(r)) => Migrated(r) = Named(r)

\* The worker, who has nothing but the row, opens what create_migration tested;
\* with another key it opens nothing.
WorkerOpensTheSame(r, api_key, worker_key) ==
  LET target == Worked(worker_key, encrypt_credentials(api_key, creds_to_dict(r)))
  IN  IF api_key = worker_key THEN target = Migrated(r) ELSE ~Opens(target)

-----------------------------------------------------------------------------
(* Proofs.                                                                 *)

LEMMA RequestFields ==
  ASSUME NEW r \in Request
  PROVE  /\ DOMAIN r = {"database_type", "connection_method", "database_url", "host", "port",
                        "database", "username", "password", "file_path"}
         /\ r["database_type"] = r.database_type /\ r["database_type"] \in DatabaseType
         /\ r["connection_method"] \in {"url", "credentials"}
         /\ r["database_url"] \in Texts /\ r["port"] \in Int \cup {None}
         /\ r["connection_method"] = r.connection_method /\ r["port"] = r.port
         /\ r["database_url"] = r.database_url /\ r["file_path"] = r.file_path
BY DEF Request, RequestWith

\* What creds_to_dict keeps, and what it makes of a field that is not there.
LEMMA KeptFields ==
  ASSUME NEW r \in Request, NEW f \in DOMAIN r, NEW default
  PROVE  /\ f \in DOMAIN creds_to_dict(r) <=> r[f] # None
         /\ r[f] # None => creds_to_dict(r)[f] = r[f] /\ get(creds_to_dict(r), f, default) = r[f]
         /\ r[f] = None => get(creds_to_dict(r), f, default) = default
BY DEF creds_to_dict, get

LEMMA AcceptedFields ==
  ASSUME NEW r \in Request, Accepted(r)
  PROVE  /\ r["connection_method"] = "url" => Given(r["database_url"])
         /\ r["connection_method"] = "credentials" /\ r["database_type"] = "sqlite" =>
              Given(r["file_path"])
         /\ r["connection_method"] = "credentials" /\ r["database_type"] # "sqlite" =>
              /\ Given(r["host"]) /\ Given(r["database"])
              /\ Given(r["username"]) /\ Given(r["password"])
<1>1. \A f \in {"host", "database", "username", "password"} :
        r.connection_method = "credentials" /\ r.database_type # "sqlite" => Given(r[f])
  BY DEF Accepted, validate_fields_for_method
<1>2. /\ r.connection_method = "url" => Given(r.database_url)
      /\ r.connection_method = "credentials" /\ r.database_type = "sqlite" => Given(r.file_path)
  BY DEF Accepted, validate_fields_for_method
<1> QED
  BY <1>1, <1>2, RequestFields

\* The URL is what the migration opens whenever there is one.
LEMMA MigratedUrl ==
  ASSUME NEW r \in Request
  PROVE  /\ HasUrl(creds_to_dict(r)) <=> Given(r["database_url"])
         /\ Given(r["database_url"]) => creds_to_dict(r)["database_url"] = r["database_url"]
<1>1. get(creds_to_dict(r), "database_url", None) = r["database_url"]
  BY RequestFields, KeptFields
<1>2. Given(r["database_url"]) => creds_to_dict(r)["database_url"] = r["database_url"]
  BY RequestFields, KeptFields DEF Given
<1> QED
  BY <1>1, <1>2 DEF HasUrl

Port(r, default) == IF r["port"] = None THEN default ELSE r["port"]
Server(r, default) ==
  [host |-> r["host"], port |-> Port(r, default), user |-> r["username"],
   password |-> r["password"], db |-> r["database"]]
MeansItself(r) == \A f \in {"username", "password", "host", "database"} : r[f] \in Literal

LEMMA MigratedPostgres ==
  ASSUME NEW r \in Request, Accepted(r), r["connection_method"] = "credentials",
         r["database_type"] # "sqlite", ~Given(r["database_url"])
  PROVE  build_dsn(creds_to_dict(r)) =
           IF MeansItself(r) THEN Server(r, 5432) ELSE [misread |-> Server(r, 5432)]
<1> DEFINE d == creds_to_dict(r)
<1>0. ~HasUrl(d)
  BY MigratedUrl
<1>1. \A f \in {"username", "password", "host", "database"} : f \in DOMAIN d /\ d[f] = r[f]
  BY RequestFields, AcceptedFields, KeptFields DEF Given
<1>2. get(d, "port", 5432) = Port(r, 5432)
  BY RequestFields, KeptFields DEF Port
<1>3. Port(r, 5432) # None
  BY NoneApart DEF Port
<1> HIDE DEF d
<1>4. build_dsn(d) = IF MeansItself(r) THEN Server(r, 5432) ELSE [misread |-> Server(r, 5432)]
  BY <1>0, <1>1, <1>2, <1>3 DEF build_dsn, Server, MeansItself
<1> QED
  BY <1>4 DEF d

LEMMA MigratedMySQL ==
  ASSUME NEW r \in Request, Accepted(r), r["connection_method"] = "credentials",
         r["database_type"] # "sqlite", ~Given(r["database_url"])
  PROVE  parse_credentials(creds_to_dict(r)) = Server(r, 3306)
<1> DEFINE d == creds_to_dict(r)
<1>0. ~HasUrl(d)
  BY MigratedUrl
<1>1. /\ get(d, "host", "localhost") = r["host"] /\ get(d, "username", Empty) = r["username"]
      /\ get(d, "password", Empty) = r["password"] /\ get(d, "database", Empty) = r["database"]
  BY RequestFields, AcceptedFields, KeptFields DEF Given
<1>2. get(d, "port", 3306) = Port(r, 3306) /\ Port(r, 3306) # None
  BY RequestFields, KeptFields, NoneApart DEF Port
<1> QED
  BY <1>0, <1>1, <1>2 DEF parse_credentials, FromFields, Server

LEMMA MigratedFile ==
  ASSUME NEW r \in Request, Accepted(r), r["connection_method"] = "credentials",
         r["database_type"] = "sqlite", ~Given(r["database_url"])
  PROVE  resolve_path(creds_to_dict(r)) = [path |-> r["file_path"]]
BY RequestFields, AcceptedFields, KeptFields, MigratedUrl DEF Given, resolve_path

\* Of a dict with a URL, only the URL counts.
LEMMA OnlyTheUrl ==
  ASSUME NEW type \in PROVIDER_REGISTRY, NEW d, NEW e, NEW url,
         HasUrl(d), HasUrl(e), d["database_url"] = url, e["database_url"] = url
  PROVE  /\ get_provider(type, d) = get_provider(type, e)
         /\ url \in Names => (Opens(get_provider(type, d)) <=> UrlIsRead(type, url))
<1>1. CASE type = "postgres"
  <2>1. get_provider(type, d) = build_dsn(d) /\ get_provider(type, e) = build_dsn(e)
    BY <1>1 DEF get_provider, PROVIDER_REGISTRY
  <2>2. build_dsn(d) = IF Replaced["postgres"][url] \in Dsns THEN [dsn |-> Replaced["postgres"][url]]
                                                       ELSE [raised |-> "ClientConfigurationError"]
    BY DEF build_dsn
  <2>3. build_dsn(e) = build_dsn(d)
    BY <2>2 DEF build_dsn
  <2>4. Opens(build_dsn(d)) <=> Replaced["postgres"][url] \in Dsns
    BY <2>2 DEF Opens
  <2> QED
    BY <1>1, <2>1, <2>3, <2>4 DEF UrlIsRead
<1>2. CASE type = "mysql"
  <2>1. get_provider(type, d) = parse_credentials(d) /\ get_provider(type, e) = parse_credentials(e)
    BY <1>2 DEF get_provider, PROVIDER_REGISTRY
  <2> DEFINE u == urlparse[url]
  <2>2. parse_credentials(d) = IF PortRead(u) THEN FromUrl(u) ELSE [raised |-> "ValueError"]
    BY DEF parse_credentials
  <2>3. parse_credentials(e) = IF PortRead(u) THEN FromUrl(u) ELSE [raised |-> "ValueError"]
    BY DEF parse_credentials
  <2>4. Opens(FromUrl(u)) /\ ~Opens([raised |-> "ValueError"])
    BY DEF Opens, FromUrl
  <2> QED
    BY <1>2, <2>1, <2>2, <2>3, <2>4 DEF UrlIsRead
<1>3. CASE type = "sqlite"
  <2>1. /\ get_provider(type, d) = [path |-> Replaced["sqlite"][url]]
        /\ get_provider(type, e) = [path |-> Replaced["sqlite"][url]]
    BY <1>3 DEF get_provider, resolve_path, PROVIDER_REGISTRY
  <2> QED
    BY <1>3, <2>1 DEF Opens, UrlIsRead
<1> QED
  BY <1>1, <1>2, <1>3 DEF PROVIDER_REGISTRY

\* The same of the connection test, which keeps a port that is None.
LEMMA TestedFields ==
  ASSUME NEW r \in Request
  PROVE  /\ r["connection_method"] = "url" =>
              DOMAIN build_credentials(r) = {"connection_method", "database_url"}
         /\ r["connection_method"] = "credentials" =>
              DOMAIN build_credentials(r) =
                {"connection_method", "host", "port", "database", "username", "password"}
                \cup (IF r["database_type"] = "sqlite" THEN {"file_path"} ELSE {})
         /\ \A f \in DOMAIN build_credentials(r) : build_credentials(r)[f] = r[f]
BY RequestFields DEF build_credentials

\* Whatever the validators accept can be opened, exactly when the type has a
\* provider and the URL, given or made of the credentials, can be read; and what
\* credentials open is the server or the file that they name.
THEOREM AcceptedCanBeOpened ==
  ASSUME NEW r \in Request
  PROVE  AcceptedOpens(r)
<1> SUFFICES ASSUME Accepted(r)
             PROVE  AcceptedOpens(r)
  BY DEF AcceptedOpens
<1> DEFINE d == creds_to_dict(r)
<1>0. r["database_type"] = r.database_type /\ r["database_url"] = r.database_url
  BY RequestFields
<1>1. CASE r.database_type \notin PROVIDER_REGISTRY
  <2>1. ~Opens(Migrated(r))
    BY <1>1 DEF Migrated, get_provider, Opens
  <2> QED
    BY <1>1, <2>1 DEF AcceptedOpens
<1>2. CASE r.database_type \in PROVIDER_REGISTRY /\ Given(r.database_url)
  <2>1. HasUrl(d) /\ d["database_url"] = r.database_url
    BY <1>0, <1>2, MigratedUrl
  <2>2. r.database_url \in Names
    BY <1>0, <1>2, RequestFields DEF Given, Texts
  <2> HIDE DEF d
  <2>3. Opens(get_provider(r.database_type, d)) <=> UrlIsRead(r.database_type, r.database_url)
    BY <1>2, <2>1, <2>2, OnlyTheUrl
  <2> QED
    BY <1>2, <2>3 DEF AcceptedOpens, Migrated, d
<1>3. CASE r.database_type \in PROVIDER_REGISTRY /\ ~Given(r.database_url)
  <2>1. r["connection_method"] = "credentials" /\ ~Given(r["database_url"])
    BY <1>0, <1>3, RequestFields, AcceptedFields
  <2>2. Opens(Migrated(r)) <=> TextsAreRead(r)
    <3>1. CASE r["database_type"] = "postgres"
      <4>1. Migrated(r) = IF MeansItself(r) THEN Server(r, 5432) ELSE [misread |-> Server(r, 5432)]
        BY <1>0, <1>3, <2>1, <3>1, MigratedPostgres DEF Migrated, get_provider
      <4>2. MeansItself(r) <=> TextsAreRead(r)
        BY <1>0, <3>1 DEF MeansItself, TextsAreRead
      <4>3. Opens(Server(r, 5432)) /\ ~Opens([misread |-> Server(r, 5432)])
        BY DEF Opens, Server
      <4> QED
        BY <4>1, <4>2, <4>3
    <3>2. CASE r["database_type"] = "mysql"
      BY <1>0, <1>3, <2>1, <3>2, MigratedMySQL
         DEF Migrated, get_provider, Opens, Server, TextsAreRead
    <3>3. CASE r["database_type"] = "sqlite"
      BY <1>0, <1>3, <2>1, <3>3, MigratedFile DEF Migrated, get_provider, Opens, TextsAreRead
    <3> QED
      BY <1>0, <1>3, <3>1, <3>2, <3>3 DEF PROVIDER_REGISTRY
  <2>3. Opens(Migrated(r)) => Migrated(r) = Named(r)
    <3>0. /\ r["host"] = r.host /\ r["port"] = r.port /\ r["username"] = r.username
          /\ r["password"] = r.password /\ r["database"] = r.database /\ r["file_path"] = r.file_path
      BY DEF Request, RequestWith
    <3>1. CASE r["database_type"] = "postgres"
      <4>1. Migrated(r) = IF MeansItself(r) THEN Server(r, 5432) ELSE [misread |-> Server(r, 5432)]
        BY <1>0, <1>3, <2>1, <3>1, MigratedPostgres DEF Migrated, get_provider
      <4>2. ~Opens([misread |-> Server(r, 5432)])
        BY DEF Opens
      <4>3. Server(r, 5432) = Named(r)
        BY <1>0, <3>0, <3>1 DEF Server, Named, Port
      <4> QED
        BY <4>1, <4>2, <4>3
    <3>2. CASE r["database_type"] = "mysql"
      <4>1. Migrated(r) = Server(r, 3306)
        BY <1>0, <1>3, <2>1, <3>2, MigratedMySQL DEF Migrated, get_provider
      <4> QED
        BY <1>0, <3>0, <3>2, <4>1 DEF Server, Named, Port
    <3>3. CASE r["database_type"] = "sqlite"
      BY <1>0, <1>3, <2>1, <3>0, <3>3, MigratedFile DEF Migrated, get_provider, Named
    <3> QED
      BY <1>0, <1>3, <3>1, <3>2, <3>3 DEF PROVIDER_REGISTRY
  <2> QED
    BY <1>3, <2>2, <2>3 DEF AcceptedOpens
<1> QED
  BY <1>1, <1>2, <1>3

\* The worker reads a database type and opens what create_migration opened, or has
\* another key and opens nothing.
THEOREM WorkerOpensWhatWasTested ==
  ASSUME NEW r \in Request, NEW api_key, NEW worker_key
  PROVE  WorkerOpensTheSame(r, api_key, worker_key)
<1> DEFINE d == creds_to_dict(r)
           stored == encrypt_credentials(api_key, d)
<1>1. CASE api_key = worker_key
  <2>1. decrypt_credentials(worker_key, stored) = d
    BY <1>1 DEF encrypt_credentials, decrypt_credentials
  <2>2. "raised" \notin DOMAIN d
    BY RequestFields DEF creds_to_dict
  <2>3. "database_type" \in DOMAIN d /\ d["database_type"] = r.database_type
    BY RequestFields, NoneApart DEF creds_to_dict
  <2> QED
    BY <1>1, <2>1, <2>2, <2>3 DEF WorkerOpensTheSame, Worked, Migrated
<1>2. CASE api_key # worker_key
  <2>1. decrypt_credentials(worker_key, stored) = [raised |-> "ValueError"]
    BY <1>2 DEF encrypt_credentials, decrypt_credentials
  <2> QED
    BY <1>2, <2>1 DEF WorkerOpensTheSame, Worked, Opens
<1> QED
  BY <1>1, <1>2

\* The connection test opens what the migration opens, exactly if the request has
\* a port where one is needed; but of a request with a URL beside its credentials
\* each looks at one half.
THEOREM TestSpeaksForTheMigration ==
  ASSUME NEW r \in Request
  PROVE  TestAgrees(r)
<1> SUFFICES ASSUME Accepted(r), r.database_type \in PROVIDER_REGISTRY
             PROVE  TestAgrees(r)
  BY DEF TestAgrees
<1> DEFINE d == creds_to_dict(r)
           t == build_credentials(r)
<1>0. /\ r["database_type"] = r.database_type /\ r["connection_method"] = r.connection_method
      /\ r["port"] = r.port /\ r["database_url"] = r.database_url /\ r["file_path"] = r.file_path
  BY RequestFields
<1>1. CASE r.connection_method = "url"
  <2>1. Given(r["database_url"])
    BY <1>0, <1>1, AcceptedFields
  <2>2. HasUrl(d) /\ d["database_url"] = r["database_url"]
    BY <2>1, MigratedUrl
  <2>3. "database_url" \in DOMAIN t /\ t["database_url"] = r["database_url"]
    BY <1>0, <1>1, TestedFields
  <2>4. HasUrl(t)
    BY <2>1, <2>3 DEF HasUrl, get
  <2> HIDE DEF d, t
  <2>5. get_provider(r.database_type, t) = get_provider(r.database_type, d)
    BY <2>2, <2>3, <2>4, OnlyTheUrl
  <2> QED
    BY <1>1, <2>5 DEF TestAgrees, Tested, Migrated, HasPort, d, t
<1>2. CASE r.connection_method = "credentials" /\ Given(r.database_url)
  <2> DEFINE q == [r EXCEPT !.connection_method = "url"]
             p == [r EXCEPT !.database_url = None]
  <2>1. /\ q \in Request /\ q["database_url"] = r.database_url /\ q.database_type = r.database_type
        /\ p \in Request /\ p.database_type = r.database_type
    BY DEF Request, RequestWith, Texts
  <2>2. Migrated(r) = Migrated(q)
    <3> DEFINE e == creds_to_dict(q)
    <3>1. HasUrl(d) /\ d["database_url"] = r.database_url
      BY <1>0, <1>2, MigratedUrl
    <3>2. HasUrl(e) /\ e["database_url"] = r.database_url
      <4> HIDE DEF q
      <4> QED
        BY <1>2, <2>1, MigratedUrl
    <3> HIDE DEF d, e
    <3>3. get_provider(r.database_type, d) = get_provider(r.database_type, e)
      BY <3>1, <3>2, OnlyTheUrl
    <3> HIDE DEF q
    <3> QED
      BY <2>1, <3>3 DEF Migrated, d, e
  <2>3. build_credentials(p) = t
    <3>1. /\ p.connection_method = "credentials"
          /\ \A f \in {"connection_method", "host", "port", "database", "username", "password", "file_path"} :
               p[f] = r[f]
      BY <1>2 DEF Request, RequestWith
    <3> HIDE DEF p
    <3> QED
      BY <1>2, <2>1, <3>1 DEF build_credentials
  <2>4. Tested(r) = Tested(p)
    BY <2>1, <2>3 DEF Tested
  <2> QED
    BY <1>2, <2>2, <2>4 DEF TestAgrees
<1>3. CASE r.connection_method = "credentials" /\ ~Given(r.database_url)
  <2>0. ~HasUrl(t)
    <3>1. "database_url" \notin DOMAIN t
      BY <1>3 DEF build_credentials
    <3> QED
      BY <3>1 DEF HasUrl, get, Given
  <2>1. SUFFICES Tested(r) = Migrated(r) <=> HasPort(r)
    BY <1>3 DEF TestAgrees
  <2>2. CASE r["database_type"] = "sqlite"
    <3>1. Tested(r) = [path |-> r["file_path"]]
      BY <1>0, <1>3, <2>0, <2>2, TestedFields DEF Tested, get_provider, resolve_path, get
    <3>2. Migrated(r) = [path |-> r["file_path"]]
      BY <1>0, <1>3, <2>2, MigratedFile DEF Migrated, get_provider
    <3> QED
      BY <1>0, <2>2, <3>1, <3>2 DEF HasPort
  <2>3. CASE r["database_type"] # "sqlite"
    <3>0. r["database_type"] \in {"postgres", "mysql"}
      BY <1>0, <2>3 DEF PROVIDER_REGISTRY
    <3>1. \A f \in {"host", "port", "database", "username", "password"} :
            f \in DOMAIN t /\ t[f] = r[f]
      BY <1>0, <1>3, TestedFields
    <3>2. get(t, "port", 5432) = r["port"] /\ get(t, "port", 3306) = r["port"]
      BY <3>1 DEF get
    <3> DEFINE server == [host |-> r["host"], port |-> r["port"], user |-> r["username"],
                          password |-> r["password"], db |-> r["database"]]
    <3>3. CASE r["database_type"] = "postgres"
      <4>1. Tested(r) = build_dsn(t) /\ Migrated(r) = build_dsn(d)
        BY <1>0, <3>3 DEF Tested, Migrated, get_provider, PROVIDER_REGISTRY
      <4>2. build_dsn(d) = IF MeansItself(r) THEN Server(r, 5432) ELSE [misread |-> Server(r, 5432)]
        BY <1>0, <1>3, <3>3, MigratedPostgres
      <4> HIDE DEF d, t
      <4>3. build_dsn(t) = IF ~MeansItself(r) THEN [misread |-> server]
                           ELSE IF r["port"] = None THEN [raised |-> "ValueError"] ELSE server
        BY <2>0, <3>1, <3>2 DEF build_dsn, MeansItself
      <4>4. CASE r["port"] # None
        <5>1. server = Server(r, 5432)
          BY <4>4 DEF Server, Port
        <5> QED
          BY <1>0, <4>1, <4>2, <4>3, <4>4, <5>1 DEF HasPort
      <4>5. CASE r["port"] = None
        <5>1. ~HasPort(r)
          BY <1>0, <1>3, <2>3, <4>5 DEF HasPort
        <5>2. Server(r, 5432).port # server.port
          BY <4>5, NoneApart DEF Server, Port
        <5>3. [misread |-> server] # [misread |-> Server(r, 5432)]
          <6>1. [misread |-> server].misread.port # [misread |-> Server(r, 5432)].misread.port
            BY <5>2
          <6> QED
            BY <6>1
        <5>4. [raised |-> "ValueError"] # Server(r, 5432)
          BY DEF Server
        <5> QED
          BY <4>1, <4>2, <4>3, <4>5, <5>1, <5>3, <5>4
      <4> QED
        BY <4>4, <4>5
    <3>4. CASE r["database_type"] = "mysql"
      <4>1. Tested(r) = parse_credentials(t) /\ Migrated(r) = parse_credentials(d)
        BY <1>0, <3>4 DEF Tested, Migrated, get_provider, PROVIDER_REGISTRY
      <4>2. parse_credentials(d) = Server(r, 3306)
        BY <1>0, <1>3, <3>4, MigratedMySQL
      <4>3. /\ get(t, "host", "localhost") = r["host"] /\ get(t, "username", Empty) = r["username"]
            /\ get(t, "password", Empty) = r["password"] /\ get(t, "database", Empty) = r["database"]
        BY <3>1 DEF get
      <4> HIDE DEF d, t
      <4>4. parse_credentials(t) = IF r["port"] = None THEN [raised |-> "TypeError"] ELSE server
        BY <2>0, <3>2, <4>3 DEF parse_credentials, FromFields
      <4>5. CASE r["port"] # None
        <5>1. server = Server(r, 3306)
          BY <4>5 DEF Server, Port
        <5> QED
          BY <1>0, <4>1, <4>2, <4>4, <4>5, <5>1 DEF HasPort
      <4>6. CASE r["port"] = None
        <5>1. ~HasPort(r)
          BY <1>0, <1>3, <2>3, <4>6 DEF HasPort
        <5>2. [raised |-> "TypeError"] # Server(r, 3306)
          BY DEF Server
        <5> QED
          BY <4>1, <4>2, <4>4, <4>6, <5>1, <5>2
      <4> QED
        BY <4>5, <4>6
    <3> QED
      BY <3>0, <3>3, <3>4
  <2> QED
    BY <2>2, <2>3
<1> QED
  BY <1>0, <1>1, <1>2, <1>3, RequestFields

=============================================================================

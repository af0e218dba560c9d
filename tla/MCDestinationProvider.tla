----------------------- MODULE MCDestinationProvider -------------------------
(* Small instances of DestinationProvider for TLC: two tables, one of them   *)
(* with a key, and rows of every class. And of Credentials: every request    *)
(* of two texts that are not empty, at the edges of the port numbers: plain   *)
(* means itself in a URL and is no DSN; odd is one, in which no port is found. *)
EXTENDS DestinationProvider, Credentials

CONSTANTS a, b, r1, r2, r3, r4, plain, odd

Classes == [r \in {r1, r2, r3, r4} |->
  CASE r = r3 -> "orphan" [] r = r4 -> "null" [] OTHER -> "good"]

SameText == [type \in {"postgres", "sqlite"} |-> [text \in {plain, odd} |-> text]]
FoundIn == [text \in {plain, odd} |->
  [hostname |-> text, port |-> IF text = odd THEN -1 ELSE None, username |-> None,
   password |-> Empty, path |-> Empty]]

Requests == RequestWith({None, 65535, 65536})

\* What Credentials proves of every request.
ASSUME CredentialsAgree ==
  \A r \in Requests :
    /\ TestAgrees(r) /\ AcceptedOpens(r)
    /\ \A key \in {1, 2} : WorkerOpensTheSame(r, 1, key)

=============================================================================

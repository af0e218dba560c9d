------------------------ MODULE MCConnectionManager --------------------------
(* Small instances of ConnectionManager for TLC.                             *)
EXTENDS ConnectionManager

CONSTANTS s1, s2, b1, b2, m1, api, worker

TwoSockets == {s1, s2}
TwoPublishers == {b1, b2}
Everyone == TwoSockets \cup TwoPublishers

\* One process serves the sockets and runs the migrations.
OneProcess == [x \in Everyone |-> api]

\* As deployed: the task runs in a Celery worker, which has its own ws_manager.
AsDeployed == [x \in Everyone |-> IF x \in TwoSockets THEN api ELSE worker]

TwoAndOne == [b \in TwoPublishers |-> IF b = b1 THEN 2 ELSE 1]

OneChannel == [x \in Everyone |-> m1]

=============================================================================

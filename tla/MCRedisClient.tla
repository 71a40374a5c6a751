--------------------------- MODULE MCRedisClient ---------------------------
(* Instances of RedisClient for TLC. *)
EXTENDS RedisClient, TLC

CONSTANTS p1, c1, c2

\* A process with two goroutines on its connection: one reserves jobs and gives
\* them back, the other does everything else.
OneProcess == c1 :> p1 @@ c2 :> p1
Roles == c1 :> {"reserve", "ack", "requeue"}
      @@ c2 :> {"enqueue", "recover", "incr", "probe"}

\* A publisher, and the pressure checks of its process.
Publisher == c1 :> {"enqueue"} @@ c2 :> {"probe"}

============================================================================

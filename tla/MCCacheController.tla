--------------------------- MODULE MCCacheController ---------------------------
EXTENDS CacheController, TLC

CONSTANTS w1, w2

\* Two instances on one host, each of one worker.
OwnInstance == w1 :> "instance1" @@ w2 :> "instance2"
OneWriter   == w1 :> {"engine"} @@ w2 :> {}
OneHost     == [w \in Workers |-> "host"]
=============================================================================

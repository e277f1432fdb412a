----------------------------- MODULE MCHeartbeat -----------------------------
(* A few calls of hb each; milliseconds, and seconds of two milliseconds.  *)
EXTENDS Heartbeat

Ordinary == {<<1, 3, "ms">>, <<2, 3, "ms">>, <<1, 2, "s">>, <<2, 0, "ms">>,
             <<1, 1, "min">>}
OneTick  == {<<1, 1, "ms">>}

NoLeftover == {0}
Leftover   == {-1, 0, 2}
=============================================================================

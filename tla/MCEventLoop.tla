---------------------------- MODULE MCEventLoop ----------------------------
(* Two connections, one of them with the shortest request, and requests that*)
(* meet the limits: a body that just fits the map and one that does not, one*)
(* too long for the pool and the first read, headers named as the server's  *)
(* own entries, a header line too long for the pool, a header section longer*)
(* than the buffer with a line across its end, the same where that line     *)
(* leaves the next read no room, and a line that fills the buffer.          *)
EXTENDS EventLoop

CONSTANTS c1, c2

MCConn == {c1, c2}
MCBufLen == 8
MCMapRoom == 3
MCPoolRoom == 7
MCKeyCost == 1
MCFields == {"Host"}

Get == <<"req", "end">>
Post == <<"req", "name", "num", "end", "data">>
Crowded == <<"req", "Host", "name", "num", "end", "data">>
BigPost == <<"req", "name", "num", "end", "data", "data", "data", "data", "data">>
Named == <<"req", "BODY", "REQUEST", "end">>
BigHead == <<"req", "data", "data", "data", "data", "data", "Host", "end">>
Across == <<"req", "name", "num", "data", "data", "data", "data", "data", "Host", "end">>
LongLine == <<"req", "data", "data", "data", "data", "data", "data", "data", "Host", "end">>
Endless == [i \in 1 .. 8 |-> "data"]

Pair(a, b) == [c \in MCConn |-> IF c = c1 THEN a ELSE b]
MCLoads == {Pair(Get, r) : r \in {Post, Crowded, BigPost, Named, BigHead,
                             Across, LongLine, Endless}}
(* For the run on a silent peer.                                            *)
MCGets == {[c \in MCConn |-> Get]}
=============================================================================

------------------------------ MODULE MCPhone ------------------------------
EXTENDS Phone

MCType == [n1 |-> "question", n2 |-> "idea", n3 |-> "note", mine |-> Nil]
MCMaps == [m1 |-> {"n1", "n2"}, m2 |-> {"n2", "n3"}]
\* Gone, on a map, or back under a new connection that has reported none yet.
MCPeers == {Nil} \cup [map : {"m1", "m2", Nil}, node : {Nil, "n2"}]
MCFinds == [x |-> {"n1", "n3"}]

\* Two gestures later: m1 is open, "x" was searched for, and what was found on
\* it, or on the other map, was tapped.
Replying ==
    /\ where = MapsAtFirst /\ type = TypeAtFirst /\ peer = Nil
    /\ mapId = "m1" /\ feed = RowsOf(where["m1"]) /\ seen = where["m1"] /\ asks = <<>>
    /\ live = TRUE /\ inbox = <<>> /\ roster = Nil
    /\ following = FALSE /\ stirred = FALSE
    /\ query = "x" /\ results = RowsOf(Finds["x"]) /\ due = FALSE /\ finds = <<>>
    /\ replyTo \in results /\ kind = FirstKind(replyTo) /\ posting = Nil
    /\ arrived = {} /\ commits = 0 /\ newest = 0 /\ crossed = FALSE /\ tainted = FALSE
    /\ spent = 0

MCInit == Init \/ Replying
MCSpec == MCInit /\ [][Next]_vars /\ Fairness
=============================================================================

------------------------------ MODULE MCUploads ------------------------------
(* Two exports that share a date; the daily file of one takes two chunks.     *)
EXTENDS Uploads, TLC

CONSTANTS x, y

MCSize == x :> ("daily" :> 2 @@ "heartbeats" :> 1) @@ y :> ("daily" :> 1 @@ "heartbeats" :> 1)
MCPair(daily, heartbeats) == "daily" :> daily @@ "heartbeats" :> heartbeats
MCSelections == {MCPair(x, x), MCPair(y, y)}
MCSignIns == {[t \in Tabs |-> 1], [t \in Tabs |-> t]}
MCDays == x :> {1, 2} @@ y :> {2, 3}
=============================================================================

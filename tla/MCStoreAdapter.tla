--------------------------- MODULE MCStoreAdapter ---------------------------
(* StoreAdapter on small instances.                                         *)
EXTENDS StoreAdapter

Two == <<"m1", "m2">>
OneKey == {"SetMulti", "Get", "ListRecursively", "Create", "Update", "UpdateDirTTL",
           "CompareAndSwap", "CompareAndSwapByIndex", "CompareAndDelete"}
Args == [op \in OneKey \cup {"Delete"} |-> IF op \in OneKey THEN {"k1"} ELSE Keys]
Order == [k1 |-> 1, k2 |-> 2]
CallerRequests == (Callers \X Slots) \cup {Watcher}
AWatcher == <<"watch", 1>>
=============================================================================

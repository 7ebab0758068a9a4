---------------------------- MODULE ExpireMapSpec ----------------------------
(***************************************************************************)
(* What an expiring map promises its callers, written from the comments of *)
(* ExpireMapIntf (src/unnamed/part_001, lines 15-30):                      *)
(*   put    adds the entry, or replaces the one with the same key, and the *)
(*          entry is removed once timeoutMs has passed;                    *)
(*   remove removes the entry with the key, if any;                        *)
(*   get / size read the map and change nothing.                           *)
(* An entry may leave the map by itself only when its deadline has passed. *)
(* `call' records the last API call so that a put is told apart from a     *)
(* remove of the same key.                                                 *)
(***************************************************************************)
EXTENDS Naturals

CONSTANTS Keys, Timeouts, MaxTime

VARIABLES now, data, call

vars == <<now, data, call>>

\* data[k] = 0 means that k has no entry; otherwise it is the entry's deadline.
NoEntry == 0

Calls == [op : {"none", "put", "remove"}, key : Keys, to : Timeouts \cup {0}]

Init ==
    /\ now = 0
    /\ data = [k \in Keys |-> NoEntry]
    /\ call = [op |-> "none", key |-> CHOOSE k \in Keys : TRUE, to |-> 0]

\* A put with a non-positive timeout is ignored; any other put sets the deadline.
Put(k, t) ==
    /\ call' = [op |-> "put", key |-> k, to |-> t]
    /\ data' = IF t <= 0 THEN data ELSE [data EXCEPT ![k] = now + t]
    /\ UNCHANGED now

Remove(k) ==
    /\ call' = [op |-> "remove", key |-> k, to |-> 0]
    /\ data' = [data EXCEPT ![k] = NoEntry]
    /\ UNCHANGED now

Due == {k \in Keys : data[k] # NoEntry /\ data[k] <= now}

\* Any set of entries whose deadlines have passed may disappear at once.
Expire ==
    /\ \E gone \in SUBSET Due :
          /\ gone # {}
          /\ data' = [k \in Keys |-> IF k \in gone THEN NoEntry ELSE data[k]]
    /\ UNCHANGED <<now, call>>

Tick ==
    /\ now < MaxTime
    /\ now' = now + 1
    /\ UNCHANGED <<data, call>>

Next ==
    \/ \E k \in Keys, t \in Timeouts : Put(k, t)
    \/ \E k \in Keys : Remove(k)
    \/ Expire
    \/ Tick

Spec == Init /\ [][Next]_vars
==============================================================================

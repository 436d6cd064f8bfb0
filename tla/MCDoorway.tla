----------------------------- MODULE MCDoorway -----------------------------
(* The doorway on a small instance: two browsers behind one address, and the *)
(* settings processes are started with.                                      *)
EXTENDS Doorway, TLC

MCThreads == Permutations(Threads)
MCTwoSids == 1..2
MCClients == {<<"home", "phone">>, <<"home", "laptop">>}

Asks(path, forged, user) == [path |-> path, forged |-> forged, user |-> user]
MCRequests == {Asks("shop", <<"elsewhere">>, ""), Asks("shop", <<"office">>, ""),
               Asks("shop", <<>>, "staff"), Asks("page", <<"junk">>, ""), Asks("about", <<>>, "")}

TimeBucket == [kind |-> "time_bucket", rate |-> 1, burst |-> 0, capacity |-> Unset]
CapacityAware(n) == [kind |-> "capacity_aware", rate |-> 0, burst |-> 0, capacity |-> n]

Good == [secret |-> "long", target |-> "path", allowed |-> {"office"}, users |-> {"staff"},
         proxies |-> 1, capacity |-> 1, ttl |-> 1, mode |-> "fail_closed",
         policy |-> CapacityAware(Unset), limit |-> 1]

\* Every way to get one or two values wrong, or other than in the room served.
Slips ==
  [secret : {"long", "short"}, target : {"path", "//", "url"},
   allowed : {{}, {"office"}, {"office", "junk"}}, users : {{"staff"}}, proxies : {-1, 0, 1},
   capacity : {-1, 0, 1}, ttl : {0, 1}, mode : {"fail_closed", "fail_open", "typo"},
   policy : {TimeBucket, [TimeBucket EXCEPT !.rate = 0], [TimeBucket EXCEPT !.kind = "typo"],
             [TimeBucket EXCEPT !.rate = NaN], CapacityAware(Unset), CapacityAware(0),
             CapacityAware(1)},
   limit : {0, 1}]

Differ(raw) == {field \in DOMAIN Good : raw[field] # Good[field]}
Raws == {raw \in Slips : Cardinality(Differ(raw)) <= 2}

Protects == {<<<<"shop", "main">>>>, <<<<"shop", "typo">>, <<"/", "main">>>>, <<>>}

MCServed == [shape |-> "rooms", rooms |-> [name \in {"main"} |-> Good],
             protect |-> <<<<"shop", "main">>>>]

MCSettingsRead ==
  [shape : {"flat", "odd", "frozen"}, rooms : [{"main"} -> Raws], protect : Protects]
  \cup [shape : {"rooms"}, rooms : {[name \in {"main", "other"} |-> IF name = "main" THEN Good ELSE r] : r \in Raws}, protect : {<<<<"shop", "main">>, <<"/", "other">>>>}]
  \cup [shape : {"none", "empty", "not a mapping", "rooms"}, rooms : {NoRooms}, protect : {<<<<"shop", "main">>>>}]
  \cup [shape : {"flat", "frozen rooms"}, rooms : {[name \in {""} |-> Good], [name \in {"main"} |-> Good]}, protect : {<<<<"shop", "main">>>>}]
  \cup {MCServed}
============================================================================

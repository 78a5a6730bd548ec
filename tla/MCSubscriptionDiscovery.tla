---------------------- MODULE MCSubscriptionDiscovery ----------------------
(***************************************************************************)
(* Instances of SubscriptionDiscovery for TLC. Listings, names, filters    *)
(* and counts vary freely while the probe is off; with the probe on, a few *)
(* worlds meet every interleaving of the pool.                             *)
(***************************************************************************)
EXTENDS SubscriptionDiscovery

CONSTANTS s1, s2, s3

\* One response of each outcome that leads somewhere else.
SomeResponses ==
  {Clean, [via |-> "thrown", says |-> "denied"], [via |-> "wrapped", says |-> "other"]}

Listing == {SubSeq(<<s1, s2, s3>>, 1, n) : n \in 0..3}

Counting == [Sub -> 0..2]

OneWanted == (s1 :> "other") @@ (s2 :> "wanted") @@ (s3 :> Unnamed)

Quiet ==
  [subs : Listing, names : {OneWanted}, counts : Counting, picks : {<<>>}, limit : {1, 2},
   override : {0}, probe : {FALSE}, filter : {FALSE}]

Filtered ==
  [subs : Listing, names : [Sub -> Name], counts : {<<1, 2, 1>>, <<0, 0, 2>>},
   picks : {<<>>}, limit : {1, 2}, override : {0}, probe : {FALSE}, filter : {TRUE}]

AskedFor(counting) == (s1 :> counting[1]) @@ (s2 :> counting[2]) @@ (s3 :> counting[3])

\* All are probed, or the pool is smaller than what has resources.
ProbedWorld ==
  [subs : {<<s1, s2, s3>>}, names : {[sub \in Sub |-> Unnamed]}, counts : {<<1, 2, 1>>},
   picks : {<<>>}, limit : {2}, override : {0}, probe : {TRUE}, filter : {FALSE}]
  \union
  [subs : {<<s1, s2, s3>>}, names : {OneWanted}, counts : {<<1, 1, 2>>, <<0, 1, 0>>},
   picks : {<<>>}, limit : {1}, override : {2}, probe : {TRUE}, filter : {FALSE}]

Picked ==
  [subs : {<<>>}, names : {OneWanted}, counts : {<<0, 0, 0>>}, picks : {<<s2>>, <<s3, s1>>},
   limit : {1}, override : {0}, probe : BOOLEAN, filter : {FALSE}]

Worlds ==
  Quiet \union {[w EXCEPT !.counts = AskedFor(@)] : w \in Filtered \union ProbedWorld \union Picked}
=============================================================================

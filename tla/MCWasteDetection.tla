-------------------------- MODULE MCWasteDetection --------------------------
(***************************************************************************)
(* An instance of WasteDetection for TLC: resources on either side of      *)
(* every boundary of the scope, two lanes, and rates by region, without    *)
(* one, and missing.                                                       *)
(***************************************************************************)
EXTENDS WasteDetection

CONSTANTS s1, s2, g1, g2, ip, disk, east

A(name, sub, group, type, sku, attached) ==
  [name |-> name, sub |-> sub, group |-> group, type |-> type, sku |-> sku, region |-> east,
   attached |-> attached]

Resources ==
  {A("a", s1, g1, ip, "standard", FALSE), A("b", s1, g1, ip, "unpriced", FALSE),
   A("c", s1, g2, ip, "basic", FALSE), A("d", s2, g1, ip, "basic", FALSE),
   A("e", s1, g1, disk, "basic", FALSE), A("f", s1, g1, ip, "standard", TRUE)}

AllScopes ==
  {[type |-> "cost_summary", subs |-> {s1}, groups |-> {}, types |-> {}],
   [type |-> "cost_summary", subs |-> {s1, s2}, groups |-> {g1}, types |-> {ip}],
   [type |-> "cost_surprise", subs |-> {s1}, groups |-> {}, types |-> {}]}

TwoLanes == <<[name |-> "orphan_public_ip", types |-> {ip}], [name |-> "second", types |-> {disk}]>>

Rates ==
  {[sku |-> "standard", region |-> AnyRegion, price |-> 1],
   [sku |-> "standard", region |-> east, price |-> 2],
   [sku |-> "basic", region |-> AnyRegion, price |-> 4]}
=============================================================================

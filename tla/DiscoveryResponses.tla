------------------------- MODULE DiscoveryResponses -------------------------
(***************************************************************************)
(* What discovery reads in the answers to the subscription listing and to  *)
(* the resource count. A JSON value is a tagged record; a text that is not *)
(* JSON is as good as null. The answers come in several shapes, which the  *)
(* end of this module writes as the server would.                          *)
(***************************************************************************)
EXTENDS Integers, SequencesExt

\* The members of a finite set, in the order in which ahead has those before each.
InOrder(S, ahead) == [k \in 1..Cardinality(S) |-> CHOOSE i \in S : Cardinality(ahead[i]) = k - 1]

\* What a list has at these places, in its order.
Kept(list, places) ==
  LET order == InOrder(places, [i \in places |-> {j \in places : j < i}])
  IN [k \in DOMAIN order |-> list[order[k]]]

Null == [is |-> "null"]
Text(text) == [is |-> "text", text |-> text]
Number(number) == [is |-> "number", number |-> number]
List(items) == [is |-> "list", items |-> items]
Object(fields) == [is |-> "object", fields |-> fields]

NotNull == {"text", "number", "list", "object"}

Has(value, name) == value.is = "object" /\ name \in DOMAIN value.fields
IsText(value) == value.is = "text"
IsNumber(value) == value.is = "number"

\* Of the names, in order, the first whose field is of these kinds; null if there
\* is none.
FirstField(value, names, kinds) ==
  LET Field(k) == value.fields[names[k]]
      usable == {k \in DOMAIN names : Has(value, names[k]) /\ Field(k).is \in kinds}
  IN IF usable = {} THEN Null ELSE Field(Min(usable))

-----------------------------------------------------------------------------
(* The listing: subscriptions with their display names, or Unnamed.         *)

Unnamed == "unnamed"

NoEntry == [sub |-> Null, name |-> Unnamed]

\* One element of the listing; NoEntry if it has no usable id.
ListedItem(item) ==
  LET id == FirstField(item, <<"subscriptionId", "id", "subscription_id">>, NotNull)
      name == FirstField(item, <<"subscriptionName", "displayName", "display_name", "name">>, NotNull)
  IN IF IsText(item) THEN [sub |-> item.text, name |-> Unnamed]
     ELSE IF ~IsText(id) THEN NoEntry
     ELSE [sub |-> id.text, name |-> IF IsText(name) THEN name.text ELSE Unnamed]

\* A row of a table has its id first, and no name.
ListedRow(row) ==
  IF row.is = "list" /\ row.items /= <<>> /\ IsText(row.items[1])
  THEN [sub |-> row.items[1].text, name |-> Unnamed] ELSE NoEntry

Usable(entries) == Kept(entries, {k \in DOMAIN entries : entries[k] /= NoEntry})

ListedItems(items) == Usable([k \in DOMAIN items |-> ListedItem(items[k])])
ListedRows(rows) == Usable([k \in DOMAIN rows |-> ListedRow(rows[k])])

\* Mutant: wrappers do not nest.
ExtractSubscriptions_Flat(value) ==
  LET Wrapped(name) == Has(value, name) /\ value.fields[name].is = "list"
      wrappers == SelectSeq(<<"subscriptions", "value", "data">>, Wrapped)
  IN IF value.is = "list" THEN ListedItems(value.items)
     ELSE IF wrappers /= <<>> THEN ListedItems(value.fields[wrappers[1]].items)
     ELSE <<>>

\* What the first of the known wrappers holds; a value without one stands for itself.
Unwrapped(value) ==
  LET wrappers == <<"subscriptions", "value", "data">>
      held == {k \in DOMAIN wrappers : Has(value, wrappers[k])}
  IN IF held = {} THEN value ELSE value.fields[wrappers[Min(held)]]

\* Bound: how deep wrappers nest. The program follows them to any depth.
Nesting == 4

\* A bare array, or one in the first of the known wrappers, which may nest; a
\* table of rows comes last.
ExtractSubscriptions(value) ==
  LET unwrapped[depth \in 0..Nesting] ==
        IF depth = 0 THEN value ELSE Unwrapped(unwrapped[depth - 1])
      bare == unwrapped[Nesting]
  IN IF bare.is = "list" THEN ListedItems(bare.items)
     ELSE IF Has(bare, "rows") /\ bare.fields["rows"].is = "list"
     THEN ListedRows(bare.fields["rows"].items)
     ELSE <<>>

-----------------------------------------------------------------------------
(* The count: pairs of a subscription and a number, read off the rows.      *)

\* Usable pairs as a function; a later row of a subscription replaces an earlier.
CountMap(pairs) ==
  LET usable == {k \in DOMAIN pairs : IsText(pairs[k][1]) /\ IsNumber(pairs[k][2])}
      Rows(sub) == {k \in usable : pairs[k][1].text = sub}
  IN [sub \in {pairs[k][1].text : k \in usable} |-> pairs[Max(Rows(sub))][2].number]

ReadRowObject(row) ==
  <<FirstField(row, <<"subscriptionId", "subscription_id">>, {"text"}),
    FirstField(row, <<"resource_count", "count_", "count">>, {"number"})>>

\* Mutant: the columns are taken to be in the default order.
RowColumnIndices_Default(columns) == [sub |-> 1, count |-> 2]

\* Where a table has its columns: as named, else the default order; the last of
\* several columns of one meaning counts.
RowColumnIndices(columns) ==
  LET Named(names) == {k \in DOMAIN columns : columns[k] \in names}
      LastOf(places, default) == IF places = {} THEN default ELSE Max(places)
  IN [sub |-> LastOf(Named({"subscriptionid", "subscription_id"}), 1),
      count |-> LastOf(Named({"resource_count", "count_", "count"}), 2)]

ReadTableRow(row, at) ==
  IF row.is = "list" /\ {at.sub, at.count} \subseteq DOMAIN row.items
  THEN <<row.items[at.sub], row.items[at.count]>> ELSE <<Null, Null>>

\* Row objects, bare or under "data", or a table; nothing else is understood,
\* and what is not understood counts nothing.
ParseGroupedResourceCounts(value) ==
  LET IsList(name) == Has(value, name) /\ value.fields[name].is = "list"
      Items(name) == value.fields[name].items
      Columns == IF IsList("columns") THEN [k \in DOMAIN Items("columns") |-> Items("columns")[k].text]
                 ELSE <<>>
  IN IF value.is = "list"
     THEN CountMap([k \in DOMAIN value.items |-> ReadRowObject(value.items[k])])
     ELSE IF IsList("data")
     THEN CountMap([k \in DOMAIN Items("data") |-> ReadRowObject(Items("data")[k])])
     ELSE IF IsList("rows")
     THEN CountMap([k \in DOMAIN Items("rows") |->
                      ReadTableRow(Items("rows")[k], RowColumnIndices(Columns))])
     ELSE CountMap(<<>>)

-----------------------------------------------------------------------------
(* The server's side: the shapes its answers have been observed to take.    *)

ListingShapes ==
  {"array", "strings", "live", "seeded", "arm", "table", "unreadable"}

\* Shapes that carry display names.
NamingShapes == {"array", "live", "seeded", "arm"}

ListingItem(shape, sub, name) ==
  LET nameField == IF shape = "live" THEN "subscriptionName" ELSE "displayName"
      fields == {"subscriptionId"} \union (IF shape = "arm" THEN {"id"} ELSE {})
                                  \union (IF name = Unnamed THEN {} ELSE {nameField})
  IN Object([field \in fields |-> Text(CASE field = "subscriptionId" -> sub
                                          [] field = "id" -> "a resource path"
                                          [] OTHER -> name)])

ListingAnswer(shape, subs, names) ==
  LET items == [k \in DOMAIN subs |-> ListingItem(shape, subs[k], names[subs[k]])]
      ids == [k \in DOMAIN subs |-> Text(subs[k])]
  IN CASE shape = "array" -> List(items)
       [] shape = "strings" -> List(ids)
       [] shape = "live" -> Object([data |-> List(<<Null>> \o items)])
       [] shape = "seeded" -> Object([subscriptions |-> Object([value |-> List(items)])])
       [] shape = "arm" -> Object([value |-> List(items)])
       [] shape = "table" -> Object([rows |-> List([k \in DOMAIN ids |-> List(<<ids[k]>>)])])
       [] OTHER -> Null

CountShapes == {"array", "data", "table", "columns", "unreadable"}

\* Subscriptions without resources have no row.
CountAnswer(shape, counts) ==
  LET subs == SetToSeq({sub \in DOMAIN counts : counts[sub] > 0})
      id == [k \in DOMAIN subs |-> Text(subs[k])]
      count == [k \in DOMAIN subs |-> Number(counts[subs[k]])]
  IN CASE shape = "array" ->
            List([k \in DOMAIN subs |->
                    Object([subscriptionId |-> id[k], resource_count |-> count[k]])])
       [] shape = "data" ->
            Object([data |-> List([k \in DOMAIN subs |->
                      Object([subscription_id |-> id[k], count_ |-> count[k]])])])
       [] shape = "table" ->
            Object([rows |-> List([k \in DOMAIN subs |-> List(<<id[k], count[k]>>)])])
       [] shape = "columns" ->
            Object([columns |-> List(<<Text("resource_count"), Text("subscriptionid")>>),
                    rows |-> List([k \in DOMAIN subs |-> List(<<count[k], id[k]>>)])])
       [] OTHER -> Null
=============================================================================

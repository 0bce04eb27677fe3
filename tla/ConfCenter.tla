----------------------------- MODULE ConfCenter -----------------------------
(***************************************************************************)
(* conf_center::ConfCenter: one xml document in memory and, for each of    *)
(* the three types values are kept in, a map of the values read so far.    *)
(* A document gives every xpath it has the sequence of its texts; a text   *)
(* is the record of its readings, what atol and atof make of it and the    *)
(* string itself.  Every operation holds mutex_ from its lookup on, hence  *)
(* is one step.  Numbers beyond 32 bits, which a reading as i32 would cut, *)
(* and failing allocations are left out.                                   *)
(***************************************************************************)
EXTENDS Naturals, Sequences, Functions

VARIABLES
    doc,     \* xml_doc_ptr_; the empty function for a null pointer
    cached   \* i64_value_group_map_, f64_value_group_map_, str_value_group_map_

centerVars == <<doc, cached>>

Types == {"i64", "f64", "str"}
NoDoc == <<>>

Nothing == [type \in Types |-> <<>>]

CenterInit == doc = NoDoc /\ cached = Nothing

\* GetObjPtr, GetNodeContent: the texts of the nodes an xpath selects.
GetNodeContent(d, xpath) == IF xpath \in DOMAIN d THEN d[xpath] ELSE <<>>

\* GetEntries: the texts converted.
GetEntries(d, xpath, type) ==
    [i \in DOMAIN GetNodeContent(d, xpath) |-> GetNodeContent(d, xpath)[i][type]]

\* The group of values the template GetConf returns.
Result(xpath, type, with_default, value) ==
    LET entries == GetEntries(doc, xpath, type)
    IN  CASE xpath \in DOMAIN cached[type] -> cached[type][xpath]
          [] xpath \notin DOMAIN cached[type] /\ entries # <<>> -> entries
          [] OTHER -> IF with_default THEN <<value>> ELSE <<>>

\* The maps after values for all of xpaths were asked for: defaults are not kept.
Remember(maps, xpaths, type) ==
    LET new == {x \in xpaths \ DOMAIN maps[type] : GetEntries(doc, x, type) # <<>>}
    IN  [maps EXCEPT ![type] = [x \in DOMAIN @ \cup new |->
            IF x \in new THEN GetEntries(doc, x, type) ELSE maps[type][x]]]

\* GetConf for one number: the first value.  (With a default there is one.)
GetNumber(xpath, type, value) == Result(xpath, type, TRUE, value)[1]

\* GetConf for one string.
GetStr(xpath, value) == Result(xpath, "str", TRUE, value)[1]

\* GetConf for an array of strings.
GetStrGroup(xpath, value) == Result(xpath, "str", TRUE, value)

LoadNotClearing(d) == doc' = d /\ UNCHANGED cached

\* Load of a file that exists; d is what the parser makes of it.  With
\* XML_PARSE_RECOVER a file that is not well formed gives a part of its nodes
\* or nothing, and these are kept although Load returns -1.
Load(d) == doc' = d /\ cached' = Nothing

\* A logic reads a value of its own, without default; also as an array.
LogicGetConf(xpath, type) ==
    /\ cached' = Remember(cached, {xpath}, type)
    /\ UNCHANGED doc
=============================================================================

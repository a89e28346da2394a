----------------------------- MODULE Validators -----------------------------
(***************************************************************************)
(* All value validators, and the way of a validator from the client that   *)
(* publishes it to a reader: it is written to JSON, carried as text, and   *)
(* read back by Abstract::deserializeFromJson.                             *)
(*                                                                         *)
(* validate, serializeToJson and deserializeFromJson call themselves for   *)
(* what is inside; here they are recursive functions.  Their domains are   *)
(* the validators and the JSON values that nest to a limited depth.        *)
(***************************************************************************)
EXTENDS LeafValidators

CONSTANTS
  Depth,   \* how deep the validators nest
  Given,   \* the validators that a client publishes
  Texts,   \* other JSON values that a reader may meet
  Probes   \* JSON values to validate

VARIABLES
  stage,     \* given, written, read, or read by the reader of one class:
             \* single or list
  original,  \* the validator of the client; NullPtr if there is only a text
  json,      \* what is published
  copy       \* the validator of the reader

vars == <<stage, original, json, copy>>

-----------------------------------------------------------------------------
(***************************************************************************)
(* The validators, and the JSON values that are read and written.          *)
(***************************************************************************)
Dummy == [class |-> "Dummy"]
AnyOf(items) == [class |-> "Any", items |-> items]
AllOf(items) == [class |-> "All", items |-> items]
ListItem(item) == [class |-> "ListItem", item |-> item]

\* The validators whose items are in the set inner.
ValidatorsOver(inner) ==
  {Dummy} \cup [class : {"SingleType"}, field : TypeNames]
  \cup [class : {"Types"}, field : SUBSET TypeNames]
  \cup [class : {"Option", "StringPrefix", "StringSuffix"},
       strings : {s \in SUBSET Strings : IsFiniteSet(s)}]
  \cup Paths
  \cup [class : {"Any", "All"}, items : Seq(inner)]
  \cup [class : {"ListItem"}, item : inner]

\* Those that nest at most n deep.  A reader's may be one deeper than a
\* client's: ListItem reads what is inside another one's list.
Nested[n \in 0..Depth + 1] == ValidatorsOver(IF n = 0 THEN {} ELSE Nested[n - 1])
Validators == Nested[Depth + 1]

\* A validator without items writes at most three levels, and each that
\* contains it at most two more.
JsonDepth(n) == 2 * n + 3
Json[n \in 0..JsonDepth(Depth + 1)] == JsonOver(IF n = 0 THEN {} ELSE Json[n - 1])
Jsons == Json[JsonDepth(Depth + 1)]

ASSUME ValidatorsAssumption ==
  /\ Depth \in Nat
  /\ Given \subseteq Nested[Depth]
  /\ Texts \subseteq Json[JsonDepth(Depth)]
  /\ Probes \subseteq Jsons
  /\ NullPtr \notin Validators

-----------------------------------------------------------------------------
\* validate.
Accepts[v \in Validators] == [j \in Jsons |->
  CASE v.class = "Dummy" -> TRUE
    [] v.class = "SingleType" -> HasType(j, v.field)
    [] v.class = "Types" -> \E t \in v.field : HasType(j, t)
    [] v.class = "Path" -> j.type = "String" /\ AcceptsPath(v, j.str)
    [] v.class \in {"Option", "StringPrefix", "StringSuffix"} ->
         j.type = "String" /\ AcceptsString(v, j.str)
    [] v.class = "Any" -> \E i \in DOMAIN v.items : Accepts[v.items[i]][j]
    [] v.class = "All" -> \A i \in DOMAIN v.items : Accepts[v.items[i]][j]
    [] v.class = "ListItem" ->
         j.type = "Array" /\ \A i \in DOMAIN j.items : Accepts[v.item][j.items[i]]]

-----------------------------------------------------------------------------
(***************************************************************************)
(* serializeToJson.  The strings of StringPrefix and StringSuffix are not  *)
(* written, and SingleType is not written as it is read.                   *)
(***************************************************************************)
Serialize[v \in Validators] ==
  CASE v.class = "Dummy" -> Object([dummy |-> Null])
    [] v.class = "SingleType" -> Object([type |-> String(v.field)])
    [] v.class = "Types" -> WriteTypes(v)
    [] v.class = "Path" -> WritePath(v)
    [] v.class = "Option" -> WriteOption(v)
    [] v.class = "StringPrefix" -> Object([prefix |-> Null])
    [] v.class = "StringSuffix" -> Object([suffix |-> Null])
    [] v.class = "Any" ->
         Object([any |-> Array([i \in DOMAIN v.items |-> Serialize[v.items[i]]])])
    [] v.class = "All" ->
         Object([all |-> Array([i \in DOMAIN v.items |-> Serialize[v.items[i]]])])
    [] v.class = "ListItem" -> Object([list |-> Serialize[v.item]])

-----------------------------------------------------------------------------
(***************************************************************************)
(* Abstract::deserializeFromJson asks one class after the other; the first *)
(* whose key holds a value of the right type decides, even if it fails.    *)
(* SingleType and ListItem are not asked.                                  *)
(***************************************************************************)
Keys == <<"dummy", "types", "path", "options", "prefix", "suffix", "any", "all">>
BodyType == [dummy |-> "Null", types |-> "Array", path |-> "Object", options |-> "Array",
             prefix |-> "Array", suffix |-> "Array", any |-> "Array", all |-> "Array"]

\* The classes whose key holds a value of the right type, and the first of them.
Matching(j) == {i \in DOMAIN Keys : Member(j, Keys[i]).type = BodyType[Keys[i]]}
FirstKey(j) == Keys[CHOOSE i \in Matching(j) : \A k \in Matching(j) : i <= k]

\* AbstractArray::deserializeListFromJsonArray skips what it cannot read.
ReadList(read) ==
  FlattenSeq([i \in DOMAIN read |-> IF read[i] = NullPtr THEN <<>> ELSE <<read[i]>>])

\* Nothing after the first item is read.
ReadAnyFault(read) ==
  IF ReadList(read) = <<>> THEN NullPtr ELSE AnyOf(<<ReadList(read)[1]>>)

\* No class has a validator without items.
ReadAny(read) == IF ReadList(read) = <<>> THEN NullPtr ELSE AnyOf(ReadList(read))

\* Copied from Any.
ReadAllFault(read) == IF ReadList(read) = <<>> THEN NullPtr ELSE AnyOf(ReadList(read))

ReadAll(read) == IF ReadList(read) = <<>> THEN NullPtr ELSE AllOf(ReadList(read))

\* deserializeFromJson of the class with this key; read: what has been read
\* from the items of j.
ReadBody(key, j, read) ==
  CASE key = "dummy" -> Dummy
    [] key = "types" -> ReadTypes(j)
    [] key = "path" -> ReadPath(j)
    [] key = "options" -> ReadStrings("Option", j)
    [] key = "prefix" -> ReadStrings("StringPrefix", j)
    [] key = "suffix" -> ReadStrings("StringSuffix", j)
    [] key = "any" -> ReadAny(read)
    [] key = "all" -> ReadAll(read)

Deserialize[j \in Jsons] ==
  IF Matching(j) = {} THEN NullPtr
  ELSE LET body == Member(j, FirstKey(j))
       IN ReadBody(FirstKey(j), body, [i \in DOMAIN body.items |-> Deserialize[body.items[i]]])

\* The validator itself is taken for that of the items.
ReadListItemFault(j) ==
  LET item == Deserialize[j]
  IN IF Member(j, "list") = Undefined \/ item = NullPtr THEN NullPtr ELSE ListItem(item)

\* ListItem::deserializeFromJson.
ReadListItem(j) ==
  LET item == Deserialize[Member(j, "list")]
  IN IF Member(j, "list") = Undefined \/ item = NullPtr THEN NullPtr ELSE ListItem(item)

-----------------------------------------------------------------------------
Init ==
  /\ \/ stage = "given" /\ original \in Given /\ json = Undefined
     \/ stage = "written" /\ original = NullPtr /\ json \in Texts
  /\ copy = NullPtr

Write ==
  /\ stage = "given"
  /\ stage' = "written"
  /\ json' = Serialize[original]
  /\ UNCHANGED <<original, copy>>

Read ==
  /\ stage = "written"
  /\ stage' = "read"
  /\ copy' = Deserialize[json]
  /\ UNCHANGED <<original, json>>

\* The two readers that Abstract::deserializeFromJson does not ask are public.
ReadAsSingleType ==
  /\ stage = "written"
  /\ stage' = "single"
  /\ copy' \in ReadSingle(json)
  /\ UNCHANGED <<original, json>>

ReadAsListItem ==
  /\ stage = "written"
  /\ stage' = "list"
  /\ copy' = ReadListItem(json)
  /\ UNCHANGED <<original, json>>

Next == Write \/ Read \/ ReadAsSingleType \/ ReadAsListItem

Spec == Init /\ [][Next]_vars

-----------------------------------------------------------------------------
(***************************************************************************)
(* Properties.                                                             *)
(***************************************************************************)

\* The bounds of a Path are in order, and have no bits without a name.
OrderedBounds(v) ==
  /\ v.min_perm \subseteq v.max_perm /\ v.max_perm \subseteq Permissions
  /\ v.min_type \subseteq v.max_type /\ v.max_type \subseteq PathTypes

\* Whether a validator survives the way, by its class and members alone.
Transmissible[v \in Validators] ==
  CASE v.class = "Dummy" -> TRUE
    [] v.class = "Types" -> v.field # {}
    [] v.class = "Option" -> v.strings # {}
    [] v.class = "Path" -> OrderedBounds(v)
    [] v.class \in {"Any", "All"} ->
         v.items # <<>> /\ \A i \in DOMAIN v.items : Transmissible[v.items[i]]
    [] OTHER -> FALSE

\* The reader gets the client's validator exactly if it is transmissible.
RoundTrip ==
  stage = "read" /\ original # NullPtr => (copy = original <=> Transmissible[original])

\* Asked directly, ListItem reads what it wrote exactly if its item is
\* transmissible, and nothing else that is written.
ListItemsReadDirectly ==
  stage = "list" /\ original # NullPtr =>
    (copy = original <=> original.class = "ListItem" /\ Transmissible[original.item])

\* Asked directly, SingleType understands the names of all types but Integer,
\* and what it then accepts does not depend on uninitialised memory.
SingleTypesReadDirectly ==
  stage = "single" /\ copy # NullPtr /\ Member(json, "types").str \in TypeNames \ {"Integer"} =>
    \A j \in Probes : Accepts[copy][j] <=> j.type = Member(json, "types").str

\* No validator of this class, in v, has an item that the reader skips.
Keeps[v \in Validators] == [class \in {"Any", "All"} |->
  v.class \in {"Any", "All"} => \A i \in DOMAIN v.items :
    /\ Keeps[v.items[i]][class]
    /\ v.class = class => Deserialize[Serialize[v.items[i]]] # NullPtr]

Compared == stage = "read" /\ original # NullPtr /\ copy # NullPtr

\* Skipped items make All accept more and Any accept less, at any depth: the
\* reader accepts what the client accepts unless an Any lost an item ...
CopyAcceptsNoLess ==
  Compared /\ Keeps[original]["Any"] =>
    \A j \in Probes : Accepts[original][j] => Accepts[copy][j]

\* ... and only what the client accepts unless an All lost one.
CopyAcceptsNoMore ==
  Compared /\ Keeps[original]["All"] =>
    \A j \in Probes : Accepts[copy][j] => Accepts[original][j]

\* Types accepts a value if its type is listed, for the reader as well: an
\* integer is a number without a fraction, 0 and -1 (the defaults with which
\* toInteger is asked) included.
TypesAreExact ==
  Compared /\ original.class = "Types" =>
    \A j \in Probes : Accepts[copy][j] <=>
      \/ j.type \in original.field
      \/ "Integer" \in original.field /\ j.type = "Double" /\ j.integral

\* The ready-made paths mean for the reader what they are called: one can open
\* the file, create or overwrite it, or enter the directory.
ReadyMadePaths ==
  Compared /\ original \in {OpenFile, SaveFile, ExistedDir} =>
    \A s \in Strings : LET f == File[s] IN
      Accepts[copy][String(s)] <=>
        CASE original = OpenFile -> f.exists /\ f.type = {"File"} /\ "Readable" \in f.perm
          [] original = ExistedDir -> f.exists /\ f.type = {"Dir"}
          [] original = SaveFile ->
               IF f.exists THEN f.type = {"File"} /\ "Writable" \in f.perm ELSE f.parent

\* Nothing in v is a StringPrefix or a StringSuffix.
Stringless[v \in Validators] ==
  CASE v.class \in {"StringPrefix", "StringSuffix"} -> FALSE
    [] v.class \in {"Any", "All"} -> \A i \in DOMAIN v.items : Stringless[v.items[i]]
    [] OTHER -> TRUE

\* What a reader makes of any text, whoever wrote it and however deep it nests,
\* it can publish itself and it arrives unchanged (RoundTrip), if there is no
\* StringPrefix or StringSuffix in it: no reader lets an empty list, reversed
\* bounds or bits without a name pass, in spite of what is skipped and of the
\* truncation of numbers.
ReadCanBeSentOn ==
  stage = "read" /\ copy # NullPtr => (Transmissible[copy] <=> Stringless[copy])
=============================================================================

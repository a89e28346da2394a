--------------------------- MODULE LeafValidators ---------------------------
(***************************************************************************)
(* The value validators that contain no other validator: what each accepts *)
(* and how it is written to JSON and read back.  A validator is a record   *)
(* with its class and its members; a field of flags is the set of its      *)
(* flags, with one more for the bits that have no name.  The file system,  *)
(* which Path asks, is a constant.                                         *)
(*                                                                         *)
(* A definition named ...Fault is a plausible mistake in the one after it. *)
(***************************************************************************)
EXTENDS Integers, SequencesExt

CONSTANTS
  Strings,      \* the strings that occur
  EmptyString,  \* the string of length 0
  PrefixesOf,   \* PrefixesOf[s]: the prefixes of s
  SuffixesOf,   \* SuffixesOf[s]: the suffixes of s
  File,         \* File[s]: what QFileInfo(s) says
  FieldModulus, \* 2^w, for a field of flags of w bits (w = 32)
  NullPtr       \* the null pointer

Permissions == {"Executable", "Readable", "Writable"}
PathTypes == {"File", "Dir"}
TypeNames == {"Null", "Bool", "Integer", "Double", "String", "Array", "Object"}

ASSUME LeafAssumption ==
  /\ EmptyString \in Strings /\ TypeNames \subseteq Strings
  /\ PrefixesOf \in [Strings -> SUBSET Strings]
  /\ SuffixesOf \in [Strings -> SUBSET Strings]
  /\ File \in [Strings -> [exists : BOOLEAN, parent : BOOLEAN,
                           perm : SUBSET Permissions, type : SUBSET PathTypes]]
  /\ FieldModulus \in Nat /\ FieldModulus >= 16
  /\ NullPtr \notin [lower : SUBSET Permissions, upper : SUBSET Permissions]
  /\ NullPtr \notin [lower : SUBSET PathTypes, upper : SUBSET PathTypes]

-----------------------------------------------------------------------------
(***************************************************************************)
(* QJsonValue.  Of an object, only the members count that some class       *)
(* writes or reads; Undefined stands for a member that is not there.       *)
(***************************************************************************)
Undefined == [type |-> "Undefined"]
Null == [type |-> "Null"]
Bool(b) == [type |-> "Bool", bool |-> b]
Fraction == [type |-> "Double", integral |-> FALSE, number |-> 0]
Number(n) == [type |-> "Double", integral |-> TRUE, number |-> n]
String(s) == [type |-> "String", str |-> s]
Array(items) == [type |-> "Array", items |-> items]

JsonKeys == {"dummy", "type", "types", "path", "existance", "perm", "options",
             "prefix", "suffix", "any", "all", "list"}
Object(fields) ==
  [type |-> "Object",
   fields |-> [k \in JsonKeys |-> IF k \in DOMAIN fields THEN fields[k] ELSE Undefined]]

\* The JSON values whose items and members are in the set inner.
JsonOver(inner) ==
  {Null, Fraction} \cup [type : {"Bool"}, bool : BOOLEAN]
  \cup [type : {"Double"}, integral : {TRUE}, number : Int]
  \cup [type : {"String"}, str : Strings]
  \cup [type : {"Array"}, items : Seq(inner)]
  \cup [type : {"Object"}, fields : [JsonKeys -> inner \cup {Undefined}]]

\* The conversions give a default for a value of another type.
Member(j, key) ==
  IF j.type = "Object" THEN j.fields[key] ELSE Undefined
ToInteger(j, default) ==
  IF j.type = "Double" /\ j.integral THEN j.number ELSE default
ToBool(j) == j.type = "Bool" /\ j.bool
AsString(j) == IF j.type = "String" THEN j.str ELSE EmptyString

-----------------------------------------------------------------------------
(***************************************************************************)
(* SingleType and Types.                                                   *)
(***************************************************************************)
\* QJsonValue has no integer type: an integer is what toInteger returns
\* whatever the default.
OneDefaultFault(j) == ToInteger(j, 0) # 0

IsInteger(j) == ToInteger(j, -1) # -1 \/ ToInteger(j, 0) # 0

HasType(j, t) == IF t = "Integer" THEN IsInteger(j) ELSE j.type = t

SingleType(t) == [class |-> "SingleType", field |-> t]
Types(field) == [class |-> "Types", field |-> field]

\* One name is missing from the comparisons.
ReadSingleFault(j) ==
  LET name == Member(j, "types")
      compared == TypeNames \ {"Integer", "Bool"}
  IN IF name.type # "String" THEN {NullPtr}
     ELSE IF name.str \in compared THEN {SingleType(name.str)}
     ELSE {SingleType(t) : t \in compared \cup {"Undefined"}}

\* SingleType::deserializeFromJson: the set of its possible results.  The key is
\* not the one that is written.  For a name it does not compare with, the
\* local variable type is not initialised.
ReadSingle(j) ==
  LET name == Member(j, "types")
      compared == TypeNames \ {"Integer"}
  IN IF name.type # "String" THEN {NullPtr}
     ELSE IF name.str \in compared THEN {SingleType(name.str)}
     ELSE {SingleType(t) : t \in compared \cup {"Undefined"}}

WriteTypes(v) == Object([types |-> Array(SetToSeq({String(t) : t \in v.field}))])

\* One name is missing from the comparisons.
ReadTypesFault(j) ==
  LET known == {t \in TypeNames \ {"Bool"} : \E i \in DOMAIN j.items : j.items[i] = String(t)}
  IN IF known = {} THEN NullPtr ELSE Types(known)

\* Unknown names are skipped; no known name, and there is no validator.
ReadTypes(j) ==
  LET known == {t \in TypeNames : \E i \in DOMAIN j.items : j.items[i] = String(t)}
  IN IF known = {} THEN NullPtr ELSE Types(known)

-----------------------------------------------------------------------------
(***************************************************************************)
(* Option, StringPrefix and StringSuffix.                                  *)
(***************************************************************************)
Strs(class, strings) == [class |-> class, strings |-> strings]

AcceptsString(v, s) ==
  CASE v.class = "Option" -> s \in v.strings
    [] v.class = "StringPrefix" -> PrefixesOf[s] \cap v.strings # {}
    [] v.class = "StringSuffix" -> SuffixesOf[s] \cap v.strings # {}

WriteOption(v) == Object([options |-> Array(SetToSeq({String(s) : s \in v.strings}))])

\* An item that is not a string is reported, and counts as the empty one.
ReadStrings(class, j) ==
  IF j.items = <<>> THEN NullPtr
  ELSE Strs(class, {AsString(j.items[i]) : i \in DOMAIN j.items})

-----------------------------------------------------------------------------
(***************************************************************************)
(* FieldEnum: flags as bits.  It is made from any number, which is         *)
(* truncated to the width of the field.  Nobody tells bits without a name  *)
(* from each other: Unnamed stands for any of them.                        *)
(***************************************************************************)
PathPermission == [bit |-> [Executable |-> 1, Readable |-> 2, Writable |-> 4], all |-> 7]
PathType == [bit |-> [File |-> 1, Dir |-> 2], all |-> 3]
Unnamed == "Unnamed"

AllFlags(enum) == DOMAIN enum.bit
Flags(enum, n) ==
  {x \in AllFlags(enum) : (n \div enum.bit[x]) % 2 = 1} \cup {x \in {Unnamed} : n > enum.all}
Numeric(enum, flags) == CHOOSE n \in 0..(FieldModulus - 1) : Flags(enum, n) = flags

Between(flags, lower, upper) == lower \subseteq flags /\ flags \subseteq upper

-----------------------------------------------------------------------------
(***************************************************************************)
(* Path.                                                                   *)
(***************************************************************************)
Path(existance, min_perm, max_perm, min_type, max_type) ==
  [class |-> "Path", existance |-> existance, min_perm |-> min_perm,
   max_perm |-> max_perm, min_type |-> min_type, max_type |-> max_type]

Existance == {"Undefined", "Nonexist", "Exist"}
PermissionFields == SUBSET (Permissions \cup {Unnamed})
TypeFields == SUBSET (PathTypes \cup {Unnamed})
Paths ==
  [class : {"Path"}, existance : Existance,
   min_perm : PermissionFields, max_perm : PermissionFields,
   min_type : TypeFields, max_type : TypeFields]

OpenFile == Path("Exist", {"Readable"}, Permissions, {"File"}, {"File"})
SaveFile == Path("Undefined", {"Writable"}, Permissions, {"File"}, {"File"})
ExistedDir == Path("Exist", {}, Permissions, {"Dir"}, {"Dir"})

\* The bounds are not looked at for a path that does not exist.
AcceptsPathFault(v, s) ==
  /\ v.existance # "Undefined" => File[s].exists = (v.existance = "Exist")
  /\ Between(File[s].perm, v.min_perm, v.max_perm)
  /\ Between(File[s].type, v.min_type, v.max_type)

\* For a path that need not exist and does not, its directory has to, unless
\* there is no lower bound.
AcceptsPath(v, s) ==
  /\ v.existance # "Undefined" => File[s].exists = (v.existance = "Exist")
  /\ IF v.existance # "Exist" /\ ~File[s].exists
     THEN (v.min_perm = {} /\ v.min_type = {}) \/ File[s].parent
     ELSE /\ Between(File[s].perm, v.min_perm, v.max_perm)
          /\ Between(File[s].type, v.min_type, v.max_type)

\* What says nothing is left out.
WriteRange(enum, lower, upper) ==
  IF lower = {} /\ upper = AllFlags(enum) THEN Undefined
  ELSE Array(<<Number(Numeric(enum, lower)), Number(Numeric(enum, upper))>>)

WritePath(v) ==
  LET member == [existance |-> IF v.existance = "Undefined" THEN Undefined
                               ELSE Bool(v.existance = "Exist"),
                 perm |-> WriteRange(PathPermission, v.min_perm, v.max_perm),
                 type |-> WriteRange(PathType, v.min_type, v.max_type)]
  IN Object([path |-> Object(member)])

\* The upper bound is only compared with the lower one.
ReadRangeFault(enum, j) ==
  LET lower == Flags(enum, ToInteger(j.items[1], FieldModulus - 1) % FieldModulus)
      upper == Flags(enum, ToInteger(j.items[2], 0) % FieldModulus)
  IN IF j.type # "Array" THEN [lower |-> {}, upper |-> AllFlags(enum)]
     ELSE IF Len(j.items) = 2 /\ Between(lower, {}, AllFlags(enum)) /\ lower \subseteq upper
     THEN [lower |-> lower, upper |-> upper]
     ELSE NullPtr

\* The bounds read from a pair, or NullPtr; anything but an array is ignored.
ReadRange(enum, j) ==
  LET lower == Flags(enum, ToInteger(j.items[1], FieldModulus - 1) % FieldModulus)
      upper == Flags(enum, ToInteger(j.items[2], 0) % FieldModulus)
  IN IF j.type # "Array" THEN [lower |-> {}, upper |-> AllFlags(enum)]
     ELSE IF /\ Len(j.items) = 2
             /\ Between(lower, {}, AllFlags(enum))
             /\ Between(upper, lower, AllFlags(enum))
     THEN [lower |-> lower, upper |-> upper]
     ELSE NullPtr

ReadPath(j) ==
  LET existance == IF Member(j, "existance") = Undefined THEN "Undefined"
                   ELSE IF ToBool(Member(j, "existance")) THEN "Exist" ELSE "Nonexist"
      perm == ReadRange(PathPermission, Member(j, "perm"))
      type == ReadRange(PathType, Member(j, "type"))
  IN IF perm = NullPtr \/ type = NullPtr THEN NullPtr
     ELSE Path(existance, perm.lower, perm.upper, type.lower, type.upper)
=============================================================================

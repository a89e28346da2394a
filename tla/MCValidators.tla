---------------------------- MODULE MCValidators ----------------------------
(***************************************************************************)
(* Instances of Validators.  The strings serve as paths too: regular files *)
(* "a" (all permissions) and "ab" (read only), a directory "b", and paths  *)
(* of nothing with ("", "ba") and without ("aa") an existing directory.    *)
(***************************************************************************)
EXTENDS Validators

PathNames == {"", "a", "ab", "b", "ba", "aa"}
MCStrings == PathNames \cup TypeNames

MCPrefixesOf ==
  [s \in MCStrings |->
     {"", s} \cup (CASE s \in {"ab", "aa"} -> {"a"} [] s = "ba" -> {"b"} [] OTHER -> {})]
MCSuffixesOf ==
  [s \in MCStrings |->
     {"", s} \cup (CASE s \in {"ba", "aa"} -> {"a"} [] s = "ab" -> {"b"} [] OTHER -> {})]

Nothing(parent) == [exists |-> FALSE, parent |-> parent, perm |-> {}, type |-> {}]
Something(perm, type) == [exists |-> TRUE, parent |-> TRUE, perm |-> perm, type |-> {type}]
MCFile ==
  [s \in MCStrings |-> CASE s = "a" -> Something(Permissions, "File")
                         [] s = "ab" -> Something({"Readable"}, "File")
                         [] s = "b" -> Something(Permissions, "Dir")
                         [] s \in {"", "ba"} -> Nothing(TRUE)
                         [] OTHER -> Nothing(FALSE)]

-----------------------------------------------------------------------------
\* Values of every type, with those that toInteger's defaults could confuse.
AllProbes ==
  {Null, Bool(TRUE), Fraction, Array(<<>>), Array(<<Null, String("a")>>),
   Array(<<Number(0)>>), Object([dummy |-> Null])}
  \cup {Number(n) : n \in {-1, 0, 1}}
  \cup {String(s) : s \in PathNames}

\* All fields of named flags, and some with a bit that has no name.
NamedPaths ==
  {Path(e, p, q, t, u) : e \in Existance, p, q \in SUBSET Permissions, t, u \in SUBSET PathTypes}
OtherPaths ==
  {Path("Exist", p, q, t, {"File"}) :
     p, q \in {{}, {Unnamed}, {"Readable", Unnamed}}, t \in {{}, {Unnamed}}}

Leaves ==
  {Dummy} \cup NamedPaths \cup OtherPaths
  \cup {Types(f) : f \in SUBSET TypeNames}
  \cup {SingleType(t) : t \in TypeNames}
  \cup {Strs("Option", s) : s \in SUBSET {"a", "b", ""}}
  \cup {Strs(c, s) : c \in {"StringPrefix", "StringSuffix"}, s \in {{}, {"a"}, {"a", "b"}}}

\* One of each fate: kept, not read back, not readable.
SomeLeaves ==
  {Dummy, Types({"Null", "Integer"}), Types({"String"}), Types({}), SingleType("Array"),
   Strs("StringPrefix", {"a"}), OpenFile, SaveFile,
   Path("Exist", {"Writable"}, {"Readable"}, {}, PathTypes)}

UpTo2(S) == {<<>>} \cup {<<x>> : x \in S} \cup (S \X S)
Composed(S) ==
  {AnyOf(q) : q \in UpTo2(S)} \cup {AllOf(q) : q \in UpTo2(S)} \cup {ListItem(v) : v \in S}

SomeComposed ==
  Composed({Types({"String"}), SingleType("Array")})
AllGiven ==
  Leaves \cup Composed(SomeLeaves) \cup Composed(SomeComposed \cup {OpenFile})
NoneGiven == {}

-----------------------------------------------------------------------------
\* Bounds as a reader may meet them: named or not, in order or not, beyond the
\* width of the field, not integers, not two, not an array.
Bounds == {Number(n) : n \in {-1, 0, 1, 2, 3, 4, 7, 8, 15, 16, 18, 23}} \cup {Fraction, String("a")}
Ranges ==
  {Undefined, Null, String("a"), Array(<<>>), Array(<<Number(0)>>),
   Array(<<Number(0), Number(3), Number(7)>>)}
  \cup {Array(q) : q \in Bounds \X Bounds}
FewRanges ==
  {Undefined, Null, Array(<<>>)}
  \cup {Array(<<Number(n), Number(m)>>) : n, m \in {0, 1, 2, 3, 4, 17}}

Present(members) == {k \in DOMAIN members : members[k] # Undefined}
Text(members) == Object([k \in Present(members) |-> members[k]])

PathTexts ==
  {Text([path |-> Text([existance |-> e, perm |-> p, type |-> t])]) :
     e \in {Undefined, Null, Bool(TRUE), Bool(FALSE)}, p \in Ranges, t \in FewRanges}

Lists == {Array(q) : q \in UpTo2({Null, Number(1), String("Null"), String("a"), String("")})}
SimpleTexts ==
  {Object([k \in {key} |-> j]) : key \in {Keys[i] : i \in DOMAIN Keys} \cup {"list", "type"},
                                  j \in Lists \cup {Undefined, Null, String("a"), Object(<<>>)}}
SomeTexts ==
  {Null, Object([dummy |-> Null]), Object([types |-> Array(<<String("Bool"), Number(1)>>)]),
   Object([options |-> Array(<<String("a"), Null>>)]), Object([path |-> Object(<<>>)]),
   Object([type |-> String("Bool")]), Object([prefix |-> Array(<<String("a")>>)])}
TwoKeys ==
  {Text([k \in {k1, k2} |-> IF k = k1 THEN j1 ELSE j2]) :
     k1, k2 \in {"dummy", "types", "options", "any", "all"},
     j1, j2 \in {Null, Array(<<String("Null")>>), Array(<<Object([dummy |-> Null])>>)}}
AllTexts ==
  PathTexts \cup SimpleTexts \cup TwoKeys
  \cup {Object([types |-> String(t)]) : t \in TypeNames}
  \cup {Object([k \in {key} |-> Array(q)]) : key \in {"any", "all"}, q \in UpTo2(SomeTexts)}
NoTexts == {}
=============================================================================

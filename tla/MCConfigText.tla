---------------------------- MODULE MCConfigText ----------------------------
(* Types, values, texts and documents for the run of ConfigText: every     *)
(* basic type, containers of some, lists of lists and a map of lists.      *)
(* Integers have 2 and 3 bits; numerals reach beyond both on both sides,   *)
(* and have fractions around the last decimal.  Among the strings are      *)
(* some that YAML-CPP does not take as they stand.                         *)
EXTENDS ConfigText

MCName == <<"a", "b">>
MCLower == {"a", "b"}
A == <<"a">>
B == <<"b">>
AB == <<"a", "b">>
Other == <<"A">>
MCGrains == {6 * n : n \in -9..9} \cup {-4, -3, 1, 2, 3, 4, 7, 8, 9}

ListOf(T) == <<"list">> \o T
SetOf(T) == <<"set">> \o T
MapOf(T) == <<"map">> \o T

AllTypes ==
  {<<k>> : k \in Kinds} \cup
  {ListOf(<<k>>) : k \in {"int", "uint", "double", "bool", "string"}} \cup
  {SetOf(<<"int">>), SetOf(<<"double">>), SetOf(<<"string">>),
   MapOf(<<"int">>), MapOf(<<"string">>),
   ListOf(ListOf(<<"int">>)), MapOf(ListOf(<<"int">>)), ListOf(ListOf(<<"string">>))}

Pairs(S) == {<<x, y>> : x, y \in S}
Upto2(S) == {<<>>} \cup {<<x>> : x \in S} \cup Pairs(S)

\* Strings with a comment, quotes, or both, one for null, one of a sequence with blanks, and
\* one that is no YAML.
Comment == Word("ab #b")
OneSeq == SeqNode(<<Numeral(6)>>)

OddLoads ==
  (Word("") :> <<Null>>) @@ (Word("~") :> <<Null>>) @@ (Word("null") :> <<Null>>) @@
  (Comment :> <<Word("ab")>>) @@ (Word("'ab'") :> <<Word("ab")>>) @@
  (Word("\"ab #b\"") :> <<Comment>>) @@ (Word("[ 1 ]") :> <<OneSeq>>) @@ (Word("[") :> <<>>) @@
  (Scalar(<<6>>, " #b") :> <<Numeral(6)>>)

OddQuoted == (Comment :> Word("\"ab #b\"")) @@ <<>>

Scalars ==
  {Numeral(n) : n \in MCGrains} \cup {Scalar(<<n>>, "ab") : n \in {-6, 7, 54}} \cup
  {Word(w) : w \in {"", "~", "ab", "true", "false"}}
Strings == Scalars \cup DOMAIN OddLoads \cup {OneSeq}

BasicValues(kind) ==
  CASE kind = "int"    -> {Signed(n, IntSize) : n \in 1..IntSize}
    [] kind = "long"   -> {Signed(n, LongSize) : n \in 1..LongSize}
    [] kind = "uint"   -> {Unsigned(n, IntSize) : n \in 1..IntSize}
    [] kind = "ulong"  -> {Unsigned(n, LongSize) : n \in 1..LongSize}
    [] kind = "double" -> MCGrains
    [] kind = "bool"   -> BOOLEAN
    [] kind = "string" -> Strings

\* What a container holds, and the nodes it is read from and shown as.
Elements(T) ==
  CASE T = <<"int">>    -> {-2, 1}
    [] T = <<"uint">>   -> {0, 1}
    [] T = <<"double">> -> {3, 4, 6, 7}
    [] T = <<"bool">>   -> BOOLEAN
    [] T = <<"string">> -> {Word("ab"), Word("~"), Word("\"ab #b\""), Numeral(6), OneSeq}
    [] T = ListOf(<<"string">>) -> {<<>>, <<Word("ab")>>, <<Word("[")>>,
                                    <<Numeral(6), Word("ab")>>}
    [] OTHER            -> {<<>>, <<1>>, <<-2, 1>>}

ElementNodes(T) ==
  {Null, Numeral(6), Word(IF T = <<"bool">> THEN "true" ELSE "ab")} \cup
  (CASE T = <<"int">>             -> {Numeral(-12)}
     [] T \in {<<"uint">>, <<"bool">>} -> {Numeral(0)}
     [] T = <<"double">>          -> {Numeral(3), Numeral(4)}
     [] T = <<"string">>          -> {Comment, OneSeq}
     [] T = ListOf(<<"string">>)  -> {SeqNode(<<Word("ab")>>),
                                      SeqNode(<<Numeral(6), Word("ab")>>)}
     [] OTHER -> {SeqNode(<<Numeral(6)>>), SeqNode(<<Numeral(-12), Numeral(6)>>)})

\* What no text of a container has, alone and beside others.
Lost(T) == IF T = <<"string">> THEN DOMAIN OddLoads \ Elements(T) ELSE {}
WithLost(T) == UNION {{<<x>>, <<x, x>>, <<x, Word("ab")>>} : x \in Lost(T)}

ValuesOf(T) ==
  CASE Kind(T) = "list" -> Upto2(Elements(Of(T))) \cup WithLost(Of(T))
    [] Kind(T) = "set"  -> {ToSet(s) : s \in Upto2(Elements(Of(T))) \cup WithLost(Of(T))}
    [] Kind(T) = "map"  -> UNION {[K -> Elements(Of(T))] : K \in SUBSET {A, B}} \cup
                            {(A :> x) : x \in Lost(Of(T))}
    [] OTHER            -> BasicValues(Kind(T))

\* A scalar given to a container is a text like any other.
TextsOf(T) ==
  IF Basic(T) THEN Strings
  ELSE LET E == ElementNodes(Of(T))
       IN {Word(w) : w \in {"", "~", "null", "ab", "true", "[ 1 ]", "["}} \cup {Numeral(6)} \cup
          {SeqNode(s) : s \in Upto2(E)} \cup
          {MapNode(<<k>>, <<x>>) : k \in {A, B}, x \in E} \cup
          {MapNode(ks, <<x, y>>) :
             ks \in Pairs(IF Kind(T) = "map" THEN {A, B} ELSE {A}), x, y \in E}

AllValues == [T \in AllTypes |-> ValuesOf(T)] @@ <<>>
AllTexts == [T \in AllTypes |-> TextsOf(T)] @@ <<>>

\* Documents of two levels: a key twice, a key with a dot that stands for two, a key of
\* characters no name has, the variable's last key at the top as well, a value that
\* converts beside one that may not.
Good(T) == IF ~Basic(T) THEN OneSeq ELSE IF T = <<"string">> THEN Comment ELSE Numeral(6)
Bad(T) == Word(IF Kind(T) \in {"list", "set"} THEN "[" ELSE "true")

Leaf(T) == {Good(T), Bad(T)}
Inner(T) ==
  {MapNode(<<A, B>>, p) : p \in Pairs(Leaf(T))} \cup
  {MapNode(<<B, B>>, p) : p \in Pairs(Leaf(T))}

DottedRoots(T) ==
  {MapNode(ks, IF ks[1] = A THEN <<x, z>> ELSE <<z, x>>) :
     ks \in {<<A, AB>>, <<AB, A>>}, z \in Leaf(T),
     x \in {MapNode(<<A, B>>, <<Bad(T), y>>) : y \in Leaf(T)}}

TwiceRoots(T) ==
  {MapNode(ks, <<MapNode(<<A, B>>, p), z>>) :
     ks \in {<<A, A>>, <<Other, A>>, <<A, B>>}, p \in Pairs(Leaf(T)),
     z \in {Good(T), MapNode(<<B, B>>, <<Good(T), Bad(T)>>),
            MapNode(<<B, B>>, <<Bad(T), Good(T)>>)}}

\* Basic types, and two containers, meet them all.
RootsOf(T) ==
  DottedRoots(T) \cup
  (IF Basic(T) \/ T \in {ListOf(<<"int">>), MapOf(<<"int">>)} THEN TwiceRoots(T) ELSE {})

AllRoots == [T \in AllTypes |-> RootsOf(T)] @@ <<>>
Over(Of_(_)) == UNION {Of_(T) : T \in AllTypes}
Heights ==
  [node \in Over(Leaf) \cup Over(Inner) \cup Over(RootsOf) |->
     CASE node \in Over(Leaf) -> 0 [] node \in Over(Inner) -> 1 [] OTHER -> 2] @@ <<>>

\* TLC evaluates a definition without parameters once, but what replaces a constant each
\* time it is used; @@ has it compute a function with all its values.
MCTypes == AllTypes
MCValues == AllValues
MCTexts == AllTexts
MCRoots == AllRoots
MCLoads == OddLoads
MCQuoted == OddQuoted
MCHeight == Heights
=============================================================================

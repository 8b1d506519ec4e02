----------------------------- MODULE ConfigText -----------------------------
(***************************************************************************)
(* How a configuration variable becomes text and is read from text again:  *)
(* ConfigVar::toString() and fromString() with the conversions they are    *)
(* built from, LaxicalCast (code/common/config.h) and lexical_cast, and    *)
(* LoadFromYaml() with its list of the nodes of a document.  One variable  *)
(* and one thread; Config has the threads and the mutexes.                 *)
(*                                                                         *)
(* A type is a sequence of kinds: lists, sets and maps, from the outside   *)
(* in, and the basic type that is in them.  vector converts as list does,  *)
(* the unordered containers as the ordered ones - but for unordered_set,   *)
(* whose fromString() calls a push_back() it does not have and does not    *)
(* compile.  long long is long, float is double.  Integers are modulo      *)
(* IntSize and LongSize.                                                   *)
(*                                                                         *)
(* A text is the text of a sequence, of a map, or any other: a numeral and *)
(* a word behind it, each possibly missing.  Most of these are scalars to  *)
(* YAML-CPP, of the very characters; Loads and Quoted have the texts that  *)
(* are not, such as those with quotes or a comment, and a sequence or map  *)
(* that is written otherwise than operator<< does.                         *)
(* Numerals count grains: three of them are 0.000001, the last decimal     *)
(* that std::to_string() writes, and One of them are 1.  A conversion that *)
(* throws gives <<>>, one that returns v gives <<v>>.                      *)
(*                                                                         *)
(* A name, and a key of a document, is the sequence of what stands between *)
(* its dots.                                                               *)
(***************************************************************************)
EXTENDS Integers, SequencesExt

CONSTANTS Types,        \* types of the variable
          IntSize, LongSize,  \* how many numbers there are of a type
          One,          \* grains that make 1
          Loads,        \* of texts that are not the scalar they look like: what YAML::Load()
                        \* makes of them, <<node>>, or <<>> where it throws
          Quoted,       \* of scalars that are written with quotes: that text
          Values, Texts, Roots,   \* of each type: values, texts and documents it meets
          Height,       \* nodes of documents, and how many levels each has below it
          Name,         \* the variable's name
          Lower         \* parts of names of the characters a name may have

Integral == {"int", "long", "uint", "ulong"}
Numeric == Integral \cup {"double"}
Kinds == Numeric \cup {"bool", "string"}

Kind(T) == Head(T)
Of(T) == Tail(T)
Base(T) == Last(T)
Basic(T) == Kind(T) \in Kinds

Nodes == DOMAIN Height

ASSUME NumbersAssumption ==
  /\ One \in Nat \ {0} /\ One % 3 = 0
  /\ IntSize \in Nat \ {0} /\ IntSize % 2 = 0
  /\ LongSize \in Nat \ {0} /\ LongSize % IntSize = 0

ASSUME TypesAssumption ==
  /\ IsFiniteSet(Types)
  /\ \A T \in Types :
       /\ T \in Seq(Kinds \cup {"list", "set", "map"}) /\ T # <<>>
       /\ Basic(T) <=> Len(T) = 1
       /\ ~Basic(T) => Of(T) \in Types

VARIABLES type, val,
          read          \* history: the scalar or document last read into val, if any

vars == <<type, val, read>>

-----------------------------------------------------------------------------
(* Texts and YAML nodes.                                                   *)

Scalar(num, word) == [kind |-> "scalar", num |-> num, word |-> word]
Numeral(n) == Scalar(<<n>>, "")
Word(w) == Scalar(<<>>, w)
SeqNode(nodes) == [kind |-> "seq", nodes |-> nodes]
MapNode(keys, nodes) == [kind |-> "map", keys |-> keys, nodes |-> nodes]
Null == [kind |-> "null"]

\* YAML::Load().
LoadNode(text) == IF text \in DOMAIN Loads THEN Loads[text] ELSE <<text>>

\* operator<< of a node.
Emit(node) ==
  IF node = Null THEN Word("~") ELSE IF node \in DOMAIN Quoted THEN Quoted[node] ELSE node

\* What LoadFromYaml() gives to fromString(): of a scalar its characters.
NodeText(node) == IF node.kind = "scalar" THEN node ELSE Emit(node)

\* What the loop over a node puts out: of a container, each item, where a loop that asks
\* a sequence for pairs, or a map for single items, finds nothing in them.
Items(pairs, node) ==
  IF node.kind \notin {"seq", "map"} THEN <<>>
  ELSE [i \in DOMAIN node.nodes |-> IF pairs = (node.kind = "map") THEN Emit(node.nodes[i])
                                    ELSE Word("")]

-----------------------------------------------------------------------------
(* lexical_cast: basic types.                                              *)

Unsigned(n, size) == n % size
Signed(n, size) == Unsigned(n + size \div 2, size) - size \div 2

\* The integer at the front of a numeral.
Trunc(n) == IF n >= 0 THEN n \div One ELSE -((-n) \div One)

\* Mutant: a number out of range wraps around as well.
MutStol(n, size) == <<Signed(Trunc(n), size)>>

\* std::stoi() and std::stol(): what lies out of range throws.
Stol(n, size) == IF Trunc(n) = Signed(Trunc(n), size) THEN <<Trunc(n)>> ELSE <<>>

\* std::stoul(): a negative number wraps around.
Stoul(n) ==
  IF Trunc(n) \in -(LongSize - 1)..LongSize - 1 THEN <<Unsigned(Trunc(n), LongSize)>> ELSE <<>>

\* Mutant: std::stoi() and std::stol() instead of std::stoul().
MutToUnsigned(n, size) == [k \in DOMAIN Stol(n, size) |-> Unsigned(Stol(n, size)[k], size)]

\* Converter<unsigned int> and <unsigned long>: the function returns a signed number of
\* the width, which lexical_cast makes unsigned again.
ToUnsigned(n, size) ==
  [k \in DOMAIN Stoul(n) |-> Unsigned(Signed(Stoul(n)[k], size), size)]

\* A word behind the numeral is not looked at; what is no number throws.
ReadNumber(kind, text) ==
  IF text.kind # "scalar" \/ text.num = <<>> THEN <<>>
  ELSE LET n == text.num[1]
       IN CASE kind = "int"    -> Stol(n, IntSize)
            [] kind = "long"   -> Stol(n, LongSize)
            [] kind = "uint"   -> ToUnsigned(n, IntSize)
            [] kind = "ulong"  -> ToUnsigned(n, LongSize)
            [] kind = "double" -> <<n>>

\* detail::convert(): exactly two words.
ReadBool(text) ==
  IF text = Word("true") THEN <<TRUE>> ELSE IF text = Word("false") THEN <<FALSE>> ELSE <<>>

\* LaxicalCast of a basic type; a string is what it is.
ReadBasic(kind, text) ==
  CASE kind = "string" -> <<text>>
    [] kind = "bool"   -> ReadBool(text)
    [] OTHER           -> ReadNumber(kind, text)

\* std::to_string(): a bool is promoted to int, a fraction ends at the sixth decimal.
WriteBasic(kind, v) ==
  CASE kind = "string" -> v
    [] kind = "bool"   -> Numeral(IF v THEN One ELSE 0)
    [] kind = "double" -> Numeral(((v + 1) \div 3) * 3)
    [] OTHER           -> Numeral(v * One)

-----------------------------------------------------------------------------
(* LaxicalCast: containers.                                                *)

\* The container that emplace() or push_back() builds; the first of two equal keys of
\* a map stays.
Collect(kind, node, vs) ==
  CASE kind = "list" -> vs
    [] kind = "set"  -> ToSet(vs)
    [] kind = "map"  -> [k \in IF vs = <<>> THEN {} ELSE ToSet(node.keys) |->
                            vs[SelectInSeq(node.keys, LAMBDA x : x = k)]]

\* A text that is no YAML throws, an element that throws ends it, and so does the key
\* that a map asks an item of a sequence for.
ReadItems(kind, text, conv) ==
  LET node  == LoadNode(text)[1]
      items == Items(kind = "map", node)
      got   == [i \in DOMAIN items |-> conv[items[i]]]
  IN IF \/ LoadNode(text) = <<>>
        \/ <<>> \in ToSet(got)
        \/ kind = "map" /\ node.kind = "seq" /\ items # <<>>
     THEN <<>>
     ELSE <<Collect(kind, node, [i \in DOMAIN got |-> got[i][1]])>>

\* LaxicalCast<std::string, T>.
FromStr(type_, text_) ==
  LET conv[T \in Types] ==
        [text \in Texts[T] |-> IF Basic(T) THEN ReadBasic(Kind(T), text)
                               ELSE ReadItems(Kind(T), text, conv[Of(T)])]
  IN conv[type_][text_]

\* The keys and the elements of a container, in its order.
Keys(kind, v) == IF kind = "map" THEN SetToSeq(DOMAIN v) ELSE <<>>
Parts(kind, v) ==
  CASE kind = "list" -> v
    [] kind = "set"  -> SetToSeq(v)
    [] kind = "map"  -> [i \in DOMAIN Keys(kind, v) |-> v[Keys(kind, v)[i]]]

\* Each element's text, where there is one, is loaded as a node; a text that is no YAML
\* throws.  A node that nothing was put into is no text at all.
WriteItems(kind, v, conv) ==
  LET parts  == Parts(kind, v)
      loaded == [i \in DOMAIN parts |->
                   IF conv[parts[i]] = <<>> THEN <<>> ELSE LoadNode(conv[parts[i]][1])]
      nodes  == [i \in DOMAIN parts |-> loaded[i][1]]
  IN IF <<>> \in ToSet(loaded) THEN <<>>
     ELSE <<IF parts = <<>> THEN Word("")
            ELSE IF kind = "map" THEN MapNode(Keys(kind, v), nodes) ELSE SeqNode(nodes)>>

\* LaxicalCast<T, std::string>.
ToStr(type_, val_) ==
  LET conv[T \in Types] ==
        [v \in Values[T] |-> IF Basic(T) THEN <<WriteBasic(Kind(T), v)>>
                             ELSE WriteItems(Kind(T), v, conv[Of(T)])]
  IN conv[type_][val_]

\* toString(): where the conversion throws, the empty text.
VarToString(T, v) == IF ToStr(T, v) = <<>> THEN Word("") ELSE ToStr(T, v)[1]

-----------------------------------------------------------------------------
(* LoadFromYaml().                                                         *)

\* Mutant: an item is listed under its own key alone.
MutItemName(prefix, key) == key

ItemName(prefix, key) == prefix \o key

\* ListAllMenbers(): a node and what is below it, with their names; nothing of it if
\* a character of the name is none of those allowed.
ListAllMenbers(prefix_, node_) ==
  LET list[node \in Nodes] ==
        [prefix \in Seq(STRING) |->
           IF ~(ToSet(prefix) \subseteq Lower) THEN <<>>
           ELSE <<[name |-> prefix, node |-> node]>> \o
                (IF node.kind # "map" THEN <<>>
                 ELSE FlattenSeq([i \in DOMAIN node.keys |->
                                    list[node.nodes[i]][ItemName(prefix, node.keys[i])]]))]
  IN list[node_][prefix_]

\* fromString() of a text on a variable that holds v.
Assigned(T, v, text) == IF FromStr(T, text) = <<>> THEN v ELSE FromStr(T, text)[1]

\* The loop over the list.
AssignAll(T, v, all) ==
  LET assigned[i \in 0..Len(all)] ==
        IF i = 0 THEN v
        ELSE IF all[i].name = Name THEN Assigned(T, assigned[i - 1], NodeText(all[i].node))
        ELSE assigned[i - 1]
  IN assigned[Len(all)]

Loaded(T, v, root) == AssignAll(T, v, ListAllMenbers(<<>>, root))

-----------------------------------------------------------------------------
(* What the constants are: nodes of texts and documents, and values of     *)
(* types; of each type the texts its elements are read from and what is    *)
(* read from and shown as its texts are among them.                        *)

\* YAML-CPP: a numeral is a scalar, the empty text and a tilde are the null node, and
\* a node is written as a text that loads as this node.
ASSUME YamlAssumption ==
  /\ \A text \in DOMAIN Loads \cup DOMAIN Quoted :
       text.kind = "scalar" /\ (text.num = <<>> \/ text.word # "")
  /\ \A w \in {"", "~"} : Word(w) \in DOMAIN Loads /\ Loads[Word(w)] = <<Null>>
  /\ \A text \in DOMAIN Loads : Loads[text] # <<>> =>
       /\ Loads[text] = <<Loads[text][1]>>
       /\ LoadNode(Emit(Loads[text][1])) = Loads[text]
  /\ \A node \in DOMAIN Quoted : LoadNode(Quoted[node]) = <<node>>

ASSUME TextsAssumption ==
  /\ \A T \in Types : \A text \in Texts[T] :
       /\ text.kind \in {"scalar", "seq", "map"}
       /\ text.kind = "scalar" => text.num \in Seq(Int)
       /\ ~Basic(T) /\ LoadNode(text) # <<>> =>
            LET items == Items(Kind(T) = "map", LoadNode(text)[1])
            IN \A i \in DOMAIN items : items[i] \in Texts[Of(T)]
  /\ Name \in Seq(Lower \cap STRING) /\ Name # <<>>

ASSUME ValuesAssumption ==
  \A T \in Types : \A v \in Values[T] :
    CASE Kind(T) = "int"    -> v \in -(IntSize \div 2)..IntSize \div 2 - 1
      [] Kind(T) = "long"   -> v \in -(LongSize \div 2)..LongSize \div 2 - 1
      [] Kind(T) = "uint"   -> v \in 0..IntSize - 1
      [] Kind(T) = "ulong"  -> v \in 0..LongSize - 1
      [] Kind(T) = "double" -> v \in Int
      [] Kind(T) = "bool"   -> v \in BOOLEAN
      [] Kind(T) = "string" -> TRUE
      [] Kind(T) = "list"   -> v \in Seq(Values[Of(T)])
      [] Kind(T) = "set"    -> v \subseteq Values[Of(T)] /\ IsFiniteSet(v)
      [] Kind(T) = "map"    -> v \in [DOMAIN v -> Values[Of(T)]] /\ IsFiniteSet(DOMAIN v)

ASSUME DocumentsAssumption ==
  /\ IsFiniteSet(Nodes)
  /\ \A node \in Nodes :
       /\ Height[node] \in Nat
       /\ node.kind = "map" =>
            /\ node.keys \in Seq(Seq(STRING))
            /\ \A i \in DOMAIN node.keys :
                 /\ node.keys[i] \notin {<<>>, <<"">>}
                 /\ node.nodes[i] \in Nodes /\ Height[node.nodes[i]] < Height[node]
  /\ \A T \in Types : \A root \in Roots[T] :
       /\ root \in Nodes
       /\ \A m \in ToSet(ListAllMenbers(<<>>, root)) :
            m.name = Name => NodeText(m.node) \in Texts[T]

ASSUME ClosedAssumption ==
  \A T \in Types :
    /\ \A v \in Values[T] : VarToString(T, v) \in Texts[T]
    /\ \A text \in Texts[T] : FromStr(T, text) \in {<<>>} \cup {<<v>> : v \in Values[T]}

-----------------------------------------------------------------------------
(* The variable.                                                           *)

\* ConfigVar(name, value, description).
Init ==
  /\ type \in Types
  /\ val \in Values[type]
  /\ read = <<>>

\* fromString().
FromString(text) ==
  /\ val' = Assigned(type, val, text)
  /\ read' = IF FromStr(type, text) # <<>> /\ text.kind = "scalar" THEN [text |-> text] ELSE <<>>
  /\ UNCHANGED type

\* LoadFromYaml() of a document.
LoadFromYaml(root) ==
  /\ val' = Loaded(type, val, root)
  /\ read' = [root |-> root]
  /\ UNCHANGED type

Next ==
  \/ \E text \in Texts[type] : FromString(text)
  \/ \E root \in Roots[type] : LoadFromYaml(root)

Spec == Init /\ [][Next]_vars

-----------------------------------------------------------------------------
(* Properties.                                                             *)

\* The basic values that a value is made of.
Leaves(type_, val_) ==
  LET leaves[T \in Types] ==
        [v \in Values[T] |-> IF Basic(T) THEN {v}
                             ELSE UNION {leaves[Of(T)][e] : e \in ToSet(Parts(Kind(T), v))}]
  IN leaves[type_][val_]

\* A value of no bool that text can tell: no fraction beyond the last decimal, and in a
\* container no string that YAML-CPP writes otherwise than it is: none that is empty or
\* a word for null, has quotes, a comment or blanks around it, needs quotes, or is no YAML.
Exact(T, v) ==
  \A x \in Leaves(T, v) :
    CASE Base(T) = "bool"   -> FALSE
      [] Base(T) = "double" -> x % 3 = 0
      [] Base(T) = "string" -> Basic(T) \/ (LoadNode(x) # <<>> /\ Emit(LoadNode(x)[1]) = x)
      [] OTHER              -> TRUE

\* A container of strings, one of which is no YAML.
Garbled(T, v) ==
  ~Basic(T) /\ Base(T) = "string" /\ \E x \in Leaves(T, v) : LoadNode(x) = <<>>

\* What toString() shows, fromString() reads as the same value, if text can tell it, for
\* every type without bool; a bool is shown as 1 or 0 and never read back.  One string
\* that is no YAML, however deep, and the whole container is shown as the empty text and
\* read as an empty container.  Where a value changes, it changes once: it is shown as
\* before, unless elements of a set may change, and become equal.
RoundTrip ==
  LET text == VarToString(type, val)
      back == FromStr(type, text)
  IN /\ back = <<>> <=> Base(type) = "bool" /\ Leaves(type, val) # {}
     /\ Exact(type, val) => back = <<val>>
     /\ Garbled(type, val) => text = Word("") /\ back = <<Collect(Kind(type), Null, <<>>)>>
     /\ back # <<>> /\ "set" \notin ToSet(type) => VarToString(type, back[1]) = text

\* A number that fromString() accepts is the number of the text, up to its fraction and
\* what follows it; in an unsigned variable, it is so modulo the range: what is negative
\* or too long does not throw there.
ReadsTheNumber ==
  "text" \in DOMAIN read /\ Kind(type) \in Numeric =>
    LET n == read.text.num[1]
    IN CASE Kind(type) \in {"int", "long"} -> val = Trunc(n)
         [] Kind(type) = "uint"   -> (val - Trunc(n)) % IntSize = 0
         [] Kind(type) = "ulong"  -> (val - Trunc(n)) % LongSize = 0
         [] Kind(type) = "double" -> val = n

\* The last k parts of the name begin with those of the key.
Leads(key, k) ==
  /\ Len(key) <= k
  /\ key = SubSeq(Name, Len(Name) - k + 1, Len(Name) - k + Len(key))

\* The nodes of a document that have the variable's name, in their order: from the root
\* down, key by key.
Named(root) ==
  LET named[k \in 0..Len(Name)] ==
        [node \in Nodes |->
           IF k = 0 THEN <<node>>
           ELSE IF node.kind # "map" THEN <<>>
           ELSE FlattenSeq([i \in DOMAIN node.keys |->
                  IF Leads(node.keys[i], k) THEN named[k - Len(node.keys[i])][node.nodes[i]]
                  ELSE <<>>])]
  IN named[Len(Name)][root]

\* A load leaves the variable at the last node of its name that converts, wherever in the
\* document that is, and as it was if there is none.
LoadTakesLast ==
  []["root" \in DOMAIN read' =>
       LET nodes == Named(read'.root)
           good  == {i \in DOMAIN nodes : FromStr(type, NodeText(nodes[i])) # <<>>}
       IN val' = IF good = {} THEN val ELSE FromStr(type, NodeText(nodes[Max(good)]))[1]]_vars
=============================================================================

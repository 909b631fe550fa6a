----------------------------- MODULE Descriptor -----------------------------
(***************************************************************************)
(* Method descriptors, as sequences of characters: what                    *)
(* peelMethodParameterAndType (misc/Utils.cpp) takes them apart into, and  *)
(* what they say.  The characters of a class name other than the letters   *)
(* that are types by themselves do not matter.                             *)
(***************************************************************************)
EXTENDS Integers, Sequences, FiniteSets

TypeOfLetter ==
  [l \in {"B", "C", "D", "F", "I", "J", "S", "Z"} |->
     CASE l = "J" -> "long" [] l = "F" -> "float" [] l = "D" -> "double" [] OTHER -> "int"]

(* The first position from i on that has a character of S.                 *)
Next1In(d, i, S) == CHOOSE j \in i..Len(d) : d[j] \in S /\ \A k \in i..(j - 1) : d[k] \notin S
Next1Not(d, i, c) == CHOOSE j \in i..Len(d) : d[j] # c /\ \A k \in i..(j - 1) : d[k] = c

(* Where the closing parenthesis is.                                       *)
Close(d) == Next1In(d, 1, {")"})

(* The parameters from position i on.  After the brackets of an array type *)
(* one character is skipped, whatever it is: if it is the L of a class,    *)
(* the letters of the class's name are looked at next.                     *)
PeeledFrom(d, start) ==
  LET p[i \in 1..Close(d)] ==
        CASE d[i] = ")" -> <<>>
          [] d[i] \in DOMAIN TypeOfLetter -> <<TypeOfLetter[d[i]]>> \o p[i + 1]
          [] d[i] = "[" -> <<"array">> \o p[Next1Not(d, i, "[") + 1]
          [] d[i] = "L" -> <<"object">> \o p[Next1In(d, i, {";"}) + 1]
          [] OTHER -> p[i + 1]
  IN p[start]

peelMethodParameters(d) == PeeledFrom(d, 1)

(* The second of the two values: whether something is returned.            *)
ReturnsVoid(d) == d[Close(d) + 1] = "V"

-----------------------------------------------------------------------------
(* What a descriptor is, and says (JVMS 4.3).                              *)

(* Position i is in the name of a class, or at the semicolon after it.     *)
Inside(d, i) == \E k \in 1..(i - 1) : d[k] = "L" /\ \A j \in k..(i - 1) : d[j] # ";"

(* The parameters are in parentheses; something is returned; an array is   *)
(* an array of something; the name of a class has an end, and no bracket.  *)
IsDescriptor(d) ==
  LET begins(l) == l \in DOMAIN TypeOfLetter \cup {"[", "L"}
  IN /\ d \in Seq(STRING)
     /\ \E close \in 2..(Len(d) - 1) :
          /\ d[1] = "(" /\ d[close] = ")" /\ \A i \in 1..(close - 1) : d[i] # ")"
          /\ \A i \in 2..(close - 1) :
               /\ begins(d[i]) \/ Inside(d, i)
               /\ d[i] = "[" => ~Inside(d, i) /\ begins(d[i + 1])
               /\ d[i] = "L" => \E j \in i..(close - 1) : d[j] = ";"

(* Where types of parameters begin: outside names, and not after a bracket.*)
Beginnings(d) == {i \in 2..(Close(d) - 1) : ~Inside(d, i) /\ d[i] # ";" /\ d[i - 1] # "["}

TypeAt(d, i) == CASE d[i] = "[" -> "array"
                  [] d[i] = "L" -> "object"
                  [] OTHER      -> TypeOfLetter[d[i]]

(* The k-th type is the one that begins where k types have begun.          *)
Declared(d) ==
  LET begun(i) == Cardinality({j \in Beginnings(d) : j <= i})
  IN [k \in 1..Cardinality(Beginnings(d)) |->
        TypeAt(d, CHOOSE i \in Beginnings(d) : begun(i) = k)]

HasArrayOfClass(d) == \E i \in 2..Len(d) : d[i] = "L" /\ d[i - 1] = "["
=============================================================================

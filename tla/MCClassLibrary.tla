--------------------------- MODULE MCClassLibrary ---------------------------
(* Libraries of an interface and three classes, that differ in who says it *)
(* implements the interface, who declares which method, and in the order   *)
(* of fields.                                                              *)
EXTENDS ClassLibrary

Attr(name, layout) == [name |-> name, layout |-> layout]
Declare(flags, name, descriptor, attributes) ==
  [flags |-> flags, name |-> name, descriptor |-> descriptor, attributes |-> attributes]

(* An attribute of every kind, with entries.                               *)
Annotation0 == <<<<2, 3>>, <<2, 0>>>>
TypeAnn(target) == <<<<2, 1>>>> \o target \o
  <<<<1, 1>>, <<1, 0>>, <<1, 0>>, <<2, 3>>, <<2, 1>>, <<2, 4>>, <<1, "[">>, <<2, 2>>,
    <<1, "I">>, <<2, 4>>, <<1, "@">>, <<2, 3>>, <<2, 0>>>>

Frames == <<<<2, 7>>, <<1, 9>>, <<1, 70>>, <<1, 7>>, <<2, 3>>,
            <<1, 247>>, <<2, 1>>, <<1, 1>>, <<1, 249>>, <<2, 1>>, <<1, 251>>, <<2, 1>>,
            <<1, 253>>, <<2, 2>>, <<1, 8>>, <<2, 5>>, <<1, 4>>,
            <<1, 255>>, <<2, 3>>, <<2, 1>>, <<1, 8>>, <<2, 2>>, <<2, 1>>, <<1, 5>>>>

InCode == <<
  Attr("LineNumberTable", <<<<2, 2>>, <<2, 0>>, <<2, 7>>, <<2, 1>>, <<2, 8>>>>),
  Attr("LocalVariableTable", <<<<2, 1>>, <<2, 0>>, <<2, 3>>, <<2, 3>>, <<2, 4>>, <<2, 0>>>>),
  Attr("LocalVariableTypeTable", <<<<2, 1>>, <<2, 0>>, <<2, 3>>, <<2, 3>>, <<2, 4>>, <<2, 1>>>>),
  Attr("StackMapTable", Frames),
  Attr("RuntimeVisibleTypeAnnotations", TypeAnn(<<<<1, 71>>, <<2, 4>>, <<1, 0>>>>))>>

CodeOf(attributes) ==
  [name |-> "Code", maxStack |-> 2, maxLocals |-> 1, code |-> <<42, 177>>,
   table |-> <<<<0, 1, 1, 5>>, <<0, 1, 1, 0>>>>, attributes |-> attributes]

InMethod == <<
  CodeOf(InCode),
  Attr("Exceptions", <<<<2, 1>>, <<2, 5>>>>),
  Attr("MethodParameters", <<<<1, 1>>, <<2, 3>>, <<2, 16>>>>),
  Attr("RuntimeVisibleParameterAnnotations", <<<<1, 2>>, <<2, 1>>>> \o Annotation0 \o <<<<2, 0>>>>),
  Attr("RuntimeInvisibleTypeAnnotations", TypeAnn(<<<<1, 17>>, <<1, 0>>, <<1, 1>>>>)),
  Attr("AnnotationDefault", <<<<1, "[">>, <<2, 1>>, <<1, "c">>, <<2, 4>>>>),
  Attr("Signature", <<<<2, 4>>>>), Attr("Deprecated", <<>>), Attr("Synthetic", <<>>)>>

InClass == <<
  Attr("SourceFile", <<<<2, 3>>>>), Attr("SourceDebugExtension", <<<<1, 4>>, <<1, 9>>>>),
  Attr("InnerClasses", <<<<2, 1>>, <<2, 5>>, <<2, 0>>, <<2, 3>>, <<2, 1>>>>),
  Attr("EnclosingMethod", <<<<2, 5>>, <<2, 0>>>>),
  Attr("RuntimeVisibleAnnotations", <<<<2, 1>>>> \o Annotation0),
  Attr("RuntimeInvisibleTypeAnnotations", TypeAnn(<<<<1, 19>>>>)),
  Attr("BootstrapMethods", <<<<2, 1>>, <<2, 3>>, <<2, 2>>, <<2, 7>>, <<2, 8>>>>)>>

Texts == <<"java/lang/Object", "A", "B", "I", "a", "x", "y", "J",
  "()V", "m", "n", "d", "Code", "ConstantValue">> \o W!SeqMap(InCode \o Tail(InMethod) \o InClass, LAMBDA a : a.name)

Class(name, super, interfaces, fields, methods, attributes) ==
  [name |-> name, super |-> super, interfaces |-> interfaces, fields |-> fields,
   methods |-> methods, attributes |-> attributes, names |-> Texts, classes |-> 4, version |-> 52,
   flags |-> 33]

Plain(flags, name) == Declare(flags, name, "()V", <<CodeOf(<<>>)>>)

StaticA == Declare(8, "a", "I", <<Attr("ConstantValue", <<<<2, Len(Texts) + 8>>>>)>>)

Object == Class("java/lang/Object", "", <<>>, <<>>, <<Plain(1, "m")>>, <<>>)

(* Instance fields x and y, before the static one or after it.             *)
AFields == {<<Declare(0, "x", "J", <<>>), Declare(0, "y", "J", <<>>), StaticA>>,
            <<StaticA, Declare(0, "x", "J", <<>>)>>}

A(ifaces, fields) ==
  Class("A", "java/lang/Object", ifaces, fields, <<Declare(1, "m", "()V", InMethod)>>, InClass)

(* Hides x and y; may override d.                                          *)
B(ifaces, methods) ==
  Class("B", "A", ifaces, <<Declare(0, "y", "J", <<>>), Declare(0, "x", "J", <<>>)>>,
        <<Plain(1, "n")>> \o methods, <<>>)

I(methods) ==
  [Class("I", "java/lang/Object", <<>>, <<>>, <<Declare(1025, "n", "()V", <<>>)>> \o methods,
         <<>>) EXCEPT !.flags = 1537]

MCLibraries ==
  {[c \in {"java/lang/Object", "A", "B", "I"} |->
      CASE c = "java/lang/Object" -> Object
        [] c = "A" -> A(ai, fields) [] c = "B" -> B(bi, bm) [] c = "I" -> I(im)] :
   ai \in {<<>>, <<"I">>}, fields \in AFields, bi \in {<<>>, <<"I">>},
   bm \in {<<>>, <<Plain(1, "d")>>}, im \in {<<>>, <<Plain(1, "d")>>}}
=============================================================================

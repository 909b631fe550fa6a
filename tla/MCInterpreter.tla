---------------------------- MODULE MCInterpreter ----------------------------
(***************************************************************************)
(* Small programs for the interpreter, of the shapes a compiler emits, one *)
(* family for each group of instructions.  Numbers come from native        *)
(* methods, so that one program runs with all of them.  Ints have 4 bits   *)
(* and longs 8, floats 3 digits and doubles 6.                             *)
(***************************************************************************)
EXTENDS Interpreter

MCWidth == [byte |-> 2, short |-> 3, int |-> 4, long |-> 8]
MCMantissa == [float |-> 3, double |-> 6]

-----------------------------------------------------------------------------
(* Instructions.                                                           *)
op1(op)        == [op |-> op, len |-> 1]
Typed(op, t)   == [op |-> op, len |-> 1, t |-> t]
Num(t, n)      == [op |-> "const", len |-> 1, t |-> t, n |-> n]
Imm(t, n)      == [op |-> "push", len |-> 2, t |-> t, n |-> n]
Var(op, t, n)  == [op |-> op, len |-> 1, t |-> t, n |-> n]
Inc(n, by)     == [op |-> "iinc", len |-> 3, n |-> n, by |-> by]
Pops(n)        == [op |-> "pop", len |-> 1, n |-> n]
Form(f)        == [op |-> "dup", len |-> 1, f |-> f]
Two(f, t)      == [op |-> "binary", len |-> 1, f |-> f, t |-> t]
To(from, t)    == [op |-> "cast", len |-> 1, from |-> from, t |-> t]
Jump(op, f, n) == [op |-> op, len |-> 3, f |-> f, n |-> n]
On(op, c)      == [op |-> op, len |-> 3, c |-> c]
Var2(op, c, x) == [op |-> op, len |-> 3, c |-> c, name |-> x]
Call(kind, c, x, desc) ==
  [op |-> "invoke", len |-> IF kind = "interface" THEN 5 ELSE 3,
   kind |-> kind, c |-> c, name |-> x, desc |-> desc]
Select(op, targets) == [op |-> op, len |-> 24, targets |-> targets, default |-> 26]

(* The code that has the instructions of is one after the other.           *)
Code(is) ==
  LET at[k \in 1..(Len(is) + 1)] == IF k = 1 THEN 0 ELSE at[k - 1] + is[k - 1].len
  IN [a \in {at[k] : k \in DOMAIN is} |-> is[CHOOSE k \in DOMAIN is : at[k] = a]]

Method0 == [native |-> FALSE, abstract |-> FALSE, gives |-> {}, desc |-> <<>>, table |-> <<>>,
            maxLocals |-> 3, maxStack |-> 8, code |-> <<>>]
Does(is)          == [Method0 EXCEPT !.code = Code(is)]
DoesWith(f, table) == [Method0 EXCEPT !.code = f, !.table = table]
Gives(boxes_)     == [Method0 EXCEPT !.native = TRUE, !.gives = boxes_]
Abstract          == [Method0 EXCEPT !.abstract = TRUE]

Class(super, methods) ==
  [super |-> super, statics |-> <<>>, fields |-> <<>>, methods |-> methods]

Library == [Object |-> Class(NoClass, <<>>), Throwable |-> Class("Object", <<>>),
            E1 |-> Class("Throwable", <<>>), E2 |-> Class("E1", <<>>),
            E3 |-> Class("Throwable", <<>>),
            String |-> [Class("Object", <<>>) EXCEPT !.fields = [value |-> "array"]]]

Program(cs) == cs @@ Library
Runs(methods) == Program([Main |-> Class("Object", methods)])

Void   == <<"(", ")", "V">>
GetInt == <<"(", ")", "I">>
Static(x, desc) == Call("static", "Main", x, desc)

End == Typed("return", "void")

-----------------------------------------------------------------------------
(* Numbers.                                                                *)
Some(t) ==
  CASE t = "int"  -> {Box(t, v) : v \in {-8, -1, 0, 1, 7}}
    [] t = "long" -> {Box(t, v) : v \in {-128, -77, -1, 0, 1, 100, 127}}
    [] t \in {"float", "double"} -> {Box(t, v) : v \in {-20, 0, 3, Other}}

Every(t) == {Box(t, v) : v \in Least(t)..Greatest(t)}

OfInts   == {"shl", "shr", "ushr", "and", "or", "xor"}
OfAll    == {"add", "sub", "mul", "div", "rem"}
AllTypes == {"int", "long", "float", "double"}

From(as, bs, is) ==
  Runs([main |-> Does(<<Static("a", GetInt), Static("b", GetInt)>> \o is),
        a |-> Gives(as), b |-> Gives(bs)])
Given(ta, tb, is) == From(Some(ta), Some(tb), is)

(* The distance of a shift is an int; that of a long's is taken as a long. *)
Arithmetic ==
  {From(Every("int"), Every("int"), <<Two(f, "int"), Var("store", "int", 1), End>>) :
     f \in OfInts \cup OfAll}
  \cup {Given(t, t, <<Two(f, t), Var("store", t, 1), End>>) : f \in OfAll, t \in AllTypes \ {"int"}}
  \cup {Given("long", IF f \in {"shl", "shr", "ushr"} THEN "int" ELSE "long",
              <<Two(f, "long"), End>>) : f \in OfInts}
  \cup {Given("long", "long", <<Two(f, "long"), End>>) : f \in {"shl", "shr", "ushr"}}

Unary ==
  {Given(t, t, <<Typed("neg", t), Typed("cmp", t), End>>) : t \in AllTypes \ {"int"}}
  \cup {Given(t, "int", <<Typed("neg", "int"), Var("store", "int", 0),
                          To(t, u), Var("store", IF u \in AllTypes THEN u ELSE "int", 1), End>>) :
          t \in AllTypes, u \in AllTypes \cup {"byte", "char", "short"}}

Branches ==
  LET ways(is) == is \o <<op1("nop"), End>>
  IN {Given("int", "int", ways(<<Jump("if_icmp", f, 4)>>)) : f \in {"eq", "ne", "lt", "ge", "gt", "le"}}
     \cup {Given("int", "int", ways(<<Jump("if", f, 4)>>)) : f \in {"eq", "ne", "lt", "ge", "gt", "le"}}
     \cup {Runs([main |-> Does(ways(x \o y \o <<j>>))]) :
             x \in {<<On("new", "E1")>>, <<On("new", "E2"), Var("store", "ref", 0), Var("load", "ref", 0)>>,
                    <<op1("aconst_null")>>, <<Num("int", 1), Typed("newarray", "int")>>},
             y \in {<<Form("dup")>>, <<On("new", "E1")>>},
             j \in {Jump("if_acmp", "eq", 4), Jump("if_acmp", "ne", 4),
                    Jump("ifnull", "eq", 4), Jump("ifnull", "ne", 4)}}
     \cup {Given("int", "int", <<Pops(1)>> \o pad \o <<Select(op, ts), Jump("goto", "", 3), End>>) :
             op \in {"tableswitch", "lookupswitch"}, pad \in {<<>>, <<op1("nop")>>},
             ts \in {[v \in 0..1 |-> 24], [v \in {0} |-> 24] @@ [v \in {1} |-> 27]}}

(* The values a dup form is for, from the bottom, i for an int.            *)
Duplicates ==
  LET i == Num("int", 1)
      d == Num("double", 1)
      l == Num("long", 1)
      for == {<<"dup", <<i>>>>, <<"dup_x1", <<i, i>>>>, <<"dup_x2", <<i, i, i>>>>,
              <<"dup_x2", <<d, i>>>>, <<"dup2", <<i, i>>>>, <<"dup2", <<d>>>>, <<"dup2", <<l>>>>,
              <<"dup2_x1", <<i, i, i>>>>, <<"dup2_x1", <<i, d>>>>, <<"dup2_x2", <<i, i, i, i>>>>,
              <<"dup2_x2", <<i, i, d>>>>, <<"dup2_x2", <<d, i, i>>>>, <<"dup2_x2", <<d, d>>>>,
              <<"dup2_x2", <<op1("aconst_null"), i, i, i>>>>}
  IN {Runs([main |-> Does(under \o x[2] \o <<Form(x[1]), Pops(2), End>>)]) :
        x \in for, under \in {<<>>, <<i, i>>}}
     \cup {Runs([main |-> Does(<<Imm("byte", 3), y, op1("swap"), End>>)]) :
             y \in {i, Num("float", 2), Num("float", 40), op1("aconst_null")}}
     \cup {Runs([main |-> Does(<<i, i, i, d, Form("dup2_x2"), Pops(2), Var("store", "int", 0), Pops(1),
                                 Static("f", <<"(", "I", ")", "V">>), End>>),
                 f |-> Does(<<Inc(0, 1), End>>)])}

-----------------------------------------------------------------------------
(* Exceptions.                                                             *)

(* A method that throws: an object of class c, or what is not Throwable.   *)
Throws(c) == Does(<<On("new", c), op1("athrow")>>)
Rethrows  == [Does(<<Static("f", GetInt), Typed("return", "int")>>) EXCEPT !.maxStack = 1]

(* A call, what comes after it, and a handler.  The instruction before the *)
(* handler is a return, or a goto over the handler: the last byte of its   *)
(* offset comes to be executed, and is one of inside.                      *)
Tried(x, desc, inside, table) ==
  LET call == <<Static(x, desc)>> \o IF desc = GetInt THEN <<Pops(1)>> ELSE <<>>
      exit == IF inside = <<>> THEN <<End>> ELSE <<Jump("goto", "", 5)>>
      is   == call \o exit \o <<Var("store", "ref", 1), End, End>>
      at   == IF desc = GetInt THEN 4 ELSE 3
  IN DoesWith(IF inside = <<>> THEN Code(is) ELSE Code(is) @@ (at + 2 :> inside[1]),
              [k \in DOMAIN table |->
                 [start |-> IF table[k][1] THEN 0 ELSE at, end |-> at,
                  handler |-> IF inside = <<>> THEN at + 1 ELSE at + 3, type |-> table[k][2]]])

Insides == {<<>>, <<Num("int", 1)>>, <<op1("nop")>>, <<op1("unknown")>>}
Tables  == {<<>>, <<<<TRUE, "E1">>>>, <<<<TRUE, "E2">>>>, <<<<FALSE, "E1">>>>, <<<<TRUE, AnyType>>>>,
            <<<<TRUE, "E3">>>>, <<<<TRUE, "E2">>, <<TRUE, "Throwable">>>>,
            <<<<FALSE, "Throwable">>, <<TRUE, "E1">>>>}

Exceptions ==
  {Runs([main |-> Tried("g", GetInt, inside, table), f |-> Throws(c), g |-> Rethrows]) :
     c \in {"E1", "E2"}, inside \in Insides, table \in Tables}
  \cup {Runs([main |-> Tried("f", Void, inside, table), f |-> Throws(c)]) :
          c \in {"E1", "E2"}, inside \in Insides, table \in Tables}
  \cup {Runs([main |-> Does(<<Static("g", Void), End>>), f |-> Throws("E2"),
              g |-> Tried("f", Void, inside, table)]) :
          inside \in Insides, table \in Tables}
  \cup {Runs([main |-> DoesWith(Code(<<x, op1("athrow"), Var("store", "ref", 1), End>>),
                         <<[start |-> 0, end |-> 4, handler |-> 4, type |-> "E1"]>>)]) :
          x \in {On("new", "E1"), On("new", "E2"), On("new", "E3")}}
  \cup {Runs([main |-> Does(<<op1("aconst_null"), op1("athrow")>>)])}

-----------------------------------------------------------------------------
(* Static variables and initializers, of this class and others.            *)

IncrementsStatic(c) ==
  <<Var2("getstatic", c, "x"), Var("store", "int", 1), Inc(1, 3), Var2("getstatic", c, "x"),
    Typed("neg", "int"), Var2("putstatic", c, "x"), End>>

Statics ==
  LET Shared(clinit, ask) ==
        Program([Main |-> [Class("Object",
                             [main |-> Does(<<Imm("byte", 1), Var("store", "int", 0), Var("load", "int", 0)>>
                                            \o ask \o <<Var2("getstatic", "A", "x"), Var("store", "int", 1),
                                                        Static("f", Void), End>>),
                              f |-> Does(IncrementsStatic("A"))])
                           EXCEPT !.statics = [y |-> "object"]],
                 A |-> [Class("Object", [clinit |-> clinit, g |-> Does(<<End>>)])
                        EXCEPT !.statics = [x |-> "int"]]])
      named(p) == [p EXCEPT !["A"].methods =
                     ("<clinit>" :> p["A"].methods["clinit"]) @@ [g |-> p["A"].methods["g"]]]
      asks == {<<Var2("getstatic", "A", "x")>>, <<Call("static", "A", "g", Void)>>, <<>>,
               <<Num("int", 7), Var2("putstatic", "A", "x")>>, <<On("instanceof", "A")>>}
      initialized(is) == ("<clinit>" :> Does(is)) @@ [main |-> Does(<<End>>)]
      literal(t, n) == [op |-> "ldc", len |-> 2, t |-> t, n |-> n]
  IN {Runs(initialized(is)) : is \in {<<literal("string", 2), Pops(1), literal("float", 3), End>>,
                                       <<On("new", "E1"), op1("athrow")>>}}
     \cup {named(Shared(Does(is), ask)) : ask \in asks,
        is \in {<<Imm("byte", 3), Var2("putstatic", "A", "x"), End>>,
                <<Call("static", "A", "g", Void), End>>,
                <<On("new", "E1"), op1("athrow")>>}}

-----------------------------------------------------------------------------
(* Arrays.                                                                 *)
Indices == {Box("int", v) : v \in -1..2}

Arrays ==
  {Runs([main |-> Does(<<Static("i", GetInt), Typed("newarray", IF t \in {"byte", "short"} THEN "int" ELSE t),
                         Form("dup"), Var("store", "ref", 0), Static("i", GetInt), v,
                         Typed("xastore", t), Var("load", "ref", 0), op1("arraylength"), Pops(1),
                         Var("load", "ref", 0), Static("i", GetInt),
                         Typed("xaload", IF t \in {"byte", "short"} THEN "int" ELSE t),
                         Var("store", IF t \in {"byte", "short"} THEN "int" ELSE t, 1),
                         Static("f", Void), End>>),
         f |-> Does(<<End>>), i |-> Gives(Indices)]) :
     <<t, v>> \in {<<"int", Imm("byte", 2)>>, <<"byte", Imm("short", 6)>>, <<"short", Imm("short", 7)>>,
                   <<"long", Num("long", 1)>>, <<"float", Num("float", 1)>>,
                   <<"double", Num("double", 2)>>}}
  \cup {Runs([main |-> Does(<<Static("i", GetInt), On("anewarray", "C"), Form("dup"), Var("store", "ref", 0),
                              Imm("byte", 0), x, Typed("xastore", "ref"), Var("load", "ref", 0),
                              Imm("byte", 1), Typed("xaload", "ref"), End>>), i |-> Gives(Indices)])
        @@ [C |-> [Class("D", <<>>) EXCEPT !.fields = [v |-> "int", next |-> "object"]],
            D |-> [Class("Object", <<>>) EXCEPT !.fields = [v |-> "int"]]] :
          x \in {On("new", "C"), op1("aconst_null")}}
  \cup {Runs([main |-> Does(<<op1("aconst_null"), op>>)]) : op \in {op1("arraylength")}}
  \cup {Runs([main |-> Does(<<op1("aconst_null"), Imm("byte", 0), Typed("xaload", "int")>>)]),
        Runs([main |-> Does(<<op1("aconst_null"), Imm("byte", 0), Imm("byte", 0),
                              Typed("xastore", "int")>>)])}

-----------------------------------------------------------------------------
(* Objects, fields and calls.                                              *)

Types ==
  [C |-> [Class("D", [set |-> Does(<<Var("load", "ref", 0), Imm("byte", 2), Var2("putfield", "C", "v"),
                                     On("new", "E1"), End>>)]
                     @@ ("<clinit>" :> Does(<<End>>)))
          EXCEPT !.fields = [v |-> "int", w |-> "long", next |-> "object"]],
   D |-> [Class("I", [get |-> Does(<<Var("load", "ref", 0), Var2("getfield", "D", "v"),
                                     Typed("return", "int")>>),
                      set |-> Does(<<End>>), over |-> Abstract])
          EXCEPT !.fields = [v |-> "int"]],
   I |-> Class("Object", [run |-> Does(<<Inc(1, 1), End>>), nat |-> Gives({}), over |-> Does(<<End>>)])]

(* A method called with arguments, among them an object.                   *)
Called ==
  LET new  == <<On("new", "C"), Form("dup"), Var("store", "ref", 0)>>
      this == Var("load", "ref", 0)
      body(k) ==
        CASE k = 1 -> <<Call("virtual", "D", "set", Void), this, Call("special", "C", "get", GetInt),
                        Var("store", "int", 1), this, Var2("getfield", "C", "v"), Typed("return", "int")>>
          [] k = 2 -> <<Var2("getfield", "C", "w"), Var("store", "long", 1), End>>
          [] k = 3 -> <<Var2("getfield", "C", "next"), Var("store", "ref", 1), End>>
          [] k = 4 -> <<Var2("getfield", "C", "next"), this, Var2("putfield", "C", "next"), End>>
          [] k = 5 -> <<Imm("byte", 2), Call("interface", "I", "run", <<"(", "I", ")", "V">>), End>>
          [] k = 6 -> <<Call("interface", "I", "nat", <<"(", ")", "L", "x", ";">>),
                        On("instanceof", "C"), End>>
          [] k = 7 -> <<Call("virtual", "D", "over", Void), End>>
          [] k = 8 -> <<Call("special", "I", "over", Void), End>>
          [] k = 9 -> <<On("instanceof", "D"), Pops(1), this, On("instanceof", "E3"), End>>
          [] k = 10 -> <<op1("unsupported")>>
          [] k = 11 -> <<this, Var2("putfield", "D", "none"), op1("aconst_null"),
                         Call("virtual", "D", "set", Void), End>>
          [] k = 12 -> <<Var2("getfield", "D", "none"), Pops(1), op1("aconst_null"),
                         Var2("getfield", "D", "v")>>
          [] k = 13 -> <<Call("special", "D", "none", Void), End>>
          [] k = 14 -> <<Static("none", Void), End>>
          [] k = 15 -> <<Var2("putfield", "C", "next"), End>>
  IN {Runs([main |-> Does(new \o body(k))]) @@ Types : k \in 1..15}

(* Methods of this class with parameters of all kinds.                     *)
Passed ==
  LET give == [I |-> Imm("byte", 3), J |-> Num("long", 100), F |-> Num("float", 3), D |-> Num("double", 4)]
      array == <<Num("int", 1), Typed("newarray", "int")>>
      object == <<On("new", "E1")>>
      desc(ps) == <<"(">> \o ps \o <<")", "V">>
      class == <<"L", "x", ";">>
      cases ==
        {<<desc(<<p, q>>), <<give[p], give[q]>>>> : p \in DOMAIN give, q \in DOMAIN give}
        \cup {<<desc(<<"[", "I", "J">>), array \o <<give["J"]>>>>,
              <<desc(<<"[", "[", "D", "I">>), array \o <<give["I"]>>>>,
              <<desc(class \o <<"I">>), object \o <<give["I"]>>>>,
              <<desc(<<"I">> \o class), <<give["I"]>> \o object>>,
              <<desc(class \o <<"I">>), array \o <<give["I"]>>>>,
              <<desc(<<"[">> \o class \o <<"I">>), array \o <<give["I"]>>>>,
              <<desc(<<"[", "L", "I", ";">>), array>>,
              <<desc(<<"I", "I", "I">>), <<give["I"], give["I"], give["I"]>>>>,
              <<desc(<<"I", "I", "I", "J">>), <<give["I"], give["I"], give["I"], give["J"]>>>>}
  IN {Runs([main |-> Does(<<On("new", "Main"), Var("store", "ref", 2)>>
                          \o (IF kind = "static" THEN <<>> ELSE <<Var("load", "ref", 2)>>) \o x[2]
                          \o <<Call(kind, "Main", "f", x[1]), End>>),
            f |-> Does(<<Inc(1, 1), End>>)]) :
        kind \in {"static", "virtual", "special"}, x \in cases}
     \cup {Runs([main |-> Does(<<give[p], Var("store", t, 0), Var("load", t, 0),
                                Static("f", desc(<<p>>)), Var("load", t, 0), End>>),
                 f |-> Does(<<Inc(0, 1), Var("load", t, 0), Typed("neg", t), End>>)]) :
             <<p, t>> \in {<<"I", "int">>, <<"F", "float">>, <<"J", "long">>}}

-----------------------------------------------------------------------------
MCPrograms ==
  Arithmetic \cup Unary \cup Branches \cup Duplicates \cup Exceptions \cup Statics
  \cup Arrays \cup Called \cup Passed
=============================================================================

----------------------------- MODULE Interpreter -----------------------------
(***************************************************************************)
(* The interpreter of one thread (interpreter/Interpreter.cpp): frames,    *)
(* the instructions, calls and returns, and exceptions on their way to a   *)
(* handler.                                                                *)
(*                                                                         *)
(* Values live in boxes on the C++ heap (JInt, ..., JObject, JArray).      *)
(* Stacks, local variables, statics, fields and elements hold pointers to  *)
(* boxes; some instructions copy a box, some move the pointer, and some    *)
(* write into the box.  boxes[i] is box i; 0 is the null pointer.          *)
(*                                                                         *)
(* Code is a function from byte addresses to instructions; len is how many *)
(* bytes one takes.  It may have entries for bytes inside an instruction,  *)
(* where what is there can come to be executed.                            *)
(*                                                                         *)
(* Monitors are in SyncBlock, the safepoint at the end of each call in     *)
(* Safepoint, loading and linking in ClassSpace; here they always succeed. *)
(***************************************************************************)
EXTENDS Descriptor, SequencesExt, FiniteSets, Values

CONSTANTS
  Programs,  \* sets of classes to run
  Main       \* the class of the method main

Null    == 0
NoClass == ""
AnyType == "any"    \* catch_type 0

VARIABLES
  classes,   \* the program; it does not change
  frames,    \* from main's to the top
  boxes,
  statics,   \* the box of each static variable, <<class, name>>
  objects,   \* of each object the boxes of its fields, by <<class, name>>
  arrays,    \* of each array the boxes of its elements
  loaded,
  inited,
  exc,       \* the interpreter's JavaException
  status,    \* "runs", "done", or how the process ends
  exposed    \* history: boxes of statics and elements that instructions got hold of,
             \* and those that are on a stack twice

References == {"object", "array"}

Box(t, v)    == [type |-> t, val |-> v, cls |-> NoClass]
Object(c, o) == [type |-> "object", val |-> o, cls |-> c]
Array(a)     == [type |-> "array", val |-> a, cls |-> NoClass]

-----------------------------------------------------------------------------
(* Programs.                                                               *)

(* What instruction i of a method with so many local variables has to it,  *)
(* in a program with the given classes.                                    *)
IsInstr(i, maxLocals, names) ==
  LET has(ops) == i.op \in ops
  IN /\ i.len \in Nat
     /\ has({"load", "store", "iinc"}) => i.n \in 0..(maxLocals - 1)
     /\ has({"iinc"}) => i.by \in Int
     /\ has({"pop"}) => i.n \in Nat
     /\ has({"dup"}) => i.f \in {"dup", "dup_x1", "dup_x2", "dup2", "dup2_x1", "dup2_x2"}
     /\ has({"push"}) => i.t \in {"byte", "short"} /\ i.n \in Int
     /\ has({"const", "neg", "cmp", "binary", "newarray"}) => i.t \in NumTypes
     /\ has({"const"}) => i.n \in ValuesOf(i.t)
     /\ has({"ldc"}) => \/ i.t = "string" /\ i.n \in 0..Greatest("int")
                        \/ i.t \in NumTypes /\ i.n \in ValuesOf(i.t)
     /\ has({"binary"}) => i.f \in IF i.t \in IntTypes THEN IntOps ELSE FloatOps
     /\ has({"cast"}) => i.from \in NumTypes /\ i.t \in NumTypes \cup {"byte", "char", "short"}
     /\ has({"goto", "if", "if_icmp", "if_acmp", "ifnull"}) => i.n \in Int
     /\ has({"tableswitch", "lookupswitch"}) =>
          /\ DOMAIN i.targets \subseteq ValuesOf("int")
          /\ Range(i.targets) \subseteq Int /\ i.default \in Int
     /\ has({"new", "anewarray", "getstatic", "putstatic", "getfield", "putfield", "invoke"}) =>
          i.c \in names
     /\ has({"invoke"}) => /\ i.kind \in {"static", "virtual", "special", "interface"}
                           /\ IsDescriptor(i.desc)

(* The ranges of the exception table begin and end at instructions; what a *)
(* native method gives is a number.                                        *)
IsMethod(m, names) ==
  /\ m.maxLocals \in Nat /\ m.maxStack \in Nat
  /\ \A a \in DOMAIN m.code : a \in Int /\ IsInstr(m.code[a], m.maxLocals, names)
  /\ m.table \in Seq([start : Int, end : Int, handler : Int, type : STRING])
  /\ \A a \in DOMAIN m.code : m.code[a].op = "invoke" =>
       /\ m.code[a].len > 0
       /\ \A k \in DOMAIN m.table :
            {m.table[k].start, m.table[k].end} \cap (a + 1)..(a + m.code[a].len - 1) = {}
  /\ \A b \in m.gives : /\ b = Box(b.type, b.val)
                         /\ b.type \in NumTypes /\ b.val \in ValuesOf(b.type)

IsClass(c, names) ==
  /\ c.super \in names \cup {NoClass}
  /\ \A vs \in {c.statics, c.fields} :
       IsFiniteSet(DOMAIN vs) /\ Range(vs) \subseteq NumTypes \cup References
  /\ \A m \in DOMAIN c.methods : IsMethod(c.methods[m], names)

ASSUME ProgramsAssumption ==
  \A p \in Programs :
    /\ IsFiniteSet(DOMAIN p) /\ NoClass \notin DOMAIN p
    /\ {Main, "String"} \subseteq DOMAIN p
    /\ "main" \in DOMAIN p[Main].methods /\ 0 \in DOMAIN p[Main].methods["main"].code
    /\ \A c \in DOMAIN p : IsClass(p[c], DOMAIN p)

-----------------------------------------------------------------------------
data == <<classes, statics, objects, arrays, loaded, inited, exposed>>
vars == <<data, frames, boxes, exc, status>>

(* The box of a variable of type t before anything is stored to it; that   *)
(* of a reference is null, and its place is taken by a box nobody has.     *)
Zero(t) == Box(IF t \in References THEN "none" ELSE t, 0)

(* The exception's object, the methods it came through, and whether one of *)
(* them was called by invokeByName.                                        *)
NoException == [pending |-> FALSE, thrown |-> Box("none", 0), trace |-> <<>>, byName |-> FALSE]

LineageIn(p, c) ==
  LET up[n \in 0..Cardinality(DOMAIN p)] ==
        IF n = 0 THEN <<c>>
        ELSE IF p[Last(up[n - 1])].super = NoClass THEN up[n - 1]
        ELSE Append(up[n - 1], p[Last(up[n - 1])].super)
  IN up[Cardinality(DOMAIN p)]

Lineage(c) == LineageIn(classes, c)

hasInheritanceRelationship(c, super) == super \in ToSet(Lineage(c))

-----------------------------------------------------------------------------
(* Frames.                                                                 *)

Frame(c, m, locals, maxStack, via) ==
  [cls |-> c, method |-> m, pc |-> 0, locals |-> locals, stack |-> <<>>,
   maxStack |-> maxStack, via |-> via,
   resumed |-> FALSE]   \* an instruction goes on after the <clinit> it waited for

Empty(n) == [i \in 0..(n - 1) |-> Null]

Top    == Last(frames)
Method == classes[Top.cls].methods[Top.method]

SetTop(f) == [frames EXCEPT ![Len(frames)] = f]

(* pop() of an empty stack returns what is in its first slot: null.        *)
Below(stack, k) == IF k < Len(stack) THEN stack[Len(stack) - k] ELSE Null
Drop(stack, k)  == SubSeq(stack, 1, Len(stack) - k)

(* dynamic_cast to the type; "ref" stands for JType.                       *)
As(t, b) == IF b # Null /\ t # "ref" /\ boxes[b].type # t THEN Null ELSE b

Popped(t, k) == As(t, Below(Top.stack, k))

(* The box to be made as the j-th from now.                                *)
New(j) == Len(boxes) + j

Val(b) == boxes[b].val

(* callMain: the class is loaded, and initialized before main is called.   *)
Init ==
  /\ classes \in Programs
  /\ LET called(m) == Frame(Main, m, Empty(classes[Main].methods[m].maxLocals),
                            classes[Main].methods[m].maxStack, "name")
     IN frames = <<called("main")>> \o IF "<clinit>" \in DOMAIN classes[Main].methods
                                       THEN <<called("<clinit>")>> ELSE <<>>
  /\ LET vs == SetToSeq(UNION {{c} \X DOMAIN classes[c].statics : c \in DOMAIN classes})
         type(v) == classes[v[1]].statics[v[2]]
     IN /\ boxes = [i \in DOMAIN vs |-> Zero(type(vs[i]))]
        /\ statics = [v \in ToSet(vs) |-> IF type(v) \in References THEN Null
                                          ELSE CHOOSE i \in DOMAIN vs : vs[i] = v]
  /\ objects = <<>> /\ arrays = <<>>
  /\ loaded = ToSet(Lineage(Main)) /\ inited = {Main}
  /\ exc = NoException
  /\ status = "runs"
  /\ exposed = {}

-----------------------------------------------------------------------------
(* The loop of execByteCode.                                               *)

Running == status = "runs"

(* An exception from the last call has to be dealt with first.             *)
Interrupted == exc.pending /\ ~Top.resumed

Instr == Method.code[Top.pc]

At(op) == /\ Running /\ ~Interrupted
          /\ Top.pc \in DOMAIN Method.code /\ Instr.op = op

After == Top.pc + Instr.len

Ends(how) == status' = how /\ UNCHANGED <<data, frames, boxes, exc>>

(* k entries of the stack are replaced by the boxes ids, of which those    *)
(* beyond Len(boxes) are new.                                              *)
StackBecomes(k, ids, fresh, pc) ==
  /\ frames' = SetTop([Top EXCEPT !.stack = Drop(@, k) \o ids, !.pc = pc, !.resumed = FALSE])
  /\ boxes' = boxes \o fresh
  /\ UNCHANGED <<exc, status>>

Pushes(k, box) == StackBecomes(k, <<New(1)>>, <<box>>, After)

(* Bytes that are no instruction, and the reserved ones.                   *)
Unknown == At("unknown") /\ Ends("exits")

(* jsr, ret, invokedynamic, checkcast, wide, multianewarray, jsr_w, and    *)
(* ldc of anything but a number or a string.                               *)
Unsupported == At("unsupported") /\ Ends("throws")

Nop == At("nop") /\ StackBecomes(0, <<>>, <<>>, After) /\ UNCHANGED data

(* aconst_null.                                                            *)
ConstNull == At("aconst_null") /\ StackBecomes(0, <<Null>>, <<>>, After) /\ UNCHANGED data

(* iconst to dconst.                                                       *)
Const == At("const") /\ Pushes(0, Box(Instr.t, Instr.n)) /\ UNCHANGED data

(* bipush and sipush take their operand as unsigned.                       *)
PushImmediate ==
  At("push") /\ Pushes(0, Box("int", Unsigned(Instr.t, Instr.n))) /\ UNCHANGED data

-----------------------------------------------------------------------------
(* Local variables.                                                        *)

(* Mutant of LoadedBox: the local variable's own box is pushed.            *)
LoadedBoxOwn(b) == [ids |-> <<b>>, fresh |-> <<>>]

(* Slots::load makes a copy.                                               *)
LoadedBox(b) == [ids |-> <<New(1)>>, fresh |-> <<boxes[b]>>]

Load ==
  /\ At("load")
  /\ LET b == As(Instr.t, Top.locals[Instr.n])
     IN CASE b = Null -> Ends(IF Instr.t = "ref" THEN "throws" ELSE "undefined")
          [] b # Null /\ (Instr.t # "ref" \/ boxes[b].type \in References) ->
               StackBecomes(0, LoadedBox(b).ids, LoadedBox(b).fresh, After) /\ UNCHANGED data
          [] OTHER -> StackBecomes(0, <<Null>>, <<>>, After) /\ UNCHANGED data

(* The slot that is cleared for the second half of a long or double is the *)
(* one just stored to.                                                     *)
Store ==
  /\ At("store")
  /\ LET b == Popped(Instr.t, 0)
     IN IF b = Null THEN Ends("throws")     \* typeid of a null
        ELSE /\ frames' = SetTop([Top EXCEPT
                  !.stack = Drop(@, 1), !.pc = After, !.resumed = FALSE,
                  !.locals[Instr.n] = IF boxes[b].type \in Wide THEN Null ELSE b])
             /\ UNCHANGED <<data, boxes, exc, status>>

Iinc ==
  /\ At("iinc")
  /\ LET b == Top.locals[Instr.n]
     IN IF b = Null THEN Ends("throws")
        ELSE /\ boxes' = IF boxes[b].type \in References THEN boxes
                         ELSE [boxes EXCEPT ![b].val = Calc("add", boxes[b].type, @, Instr.by)]
             /\ frames' = SetTop([Top EXCEPT !.pc = After, !.resumed = FALSE])
             /\ UNCHANGED <<data, exc, status>>

-----------------------------------------------------------------------------
(* Operand stack.                                                          *)

Pop == At("pop") /\ StackBecomes(Instr.n, <<>>, <<>>, After) /\ UNCHANGED data

(* A form of dup: how many values are taken, the widths that are looked at *)
(* (1 or 2, from the top), the values that are copied, and what is put     *)
(* back: the k-th value for k, the k-th copy for -k.                       *)
DupForm(takes, widths, copied, back) ==
  [takes |-> takes, widths |-> widths, copied |-> copied, back |-> back]

(* Others are taken off, and nothing is put back.                          *)
DupForms(name) ==
  CASE name = "dup"     -> {DupForm(1, <<1>>, <<1>>, <<1, -1>>)}
    [] name = "dup_x1"  -> {DupForm(2, <<1, 1>>, <<1>>, <<-1, 2, 1>>)}
    [] name = "dup_x2"  -> {DupForm(3, <<1, 1, 1>>, <<1>>, <<-1, 3, 2, 1>>),
                            DupForm(3, <<1, 2>>, <<1>>, <<3, -1, 2, 1>>)}
    [] name = "dup2"    -> {DupForm(2, <<1, 1>>, <<2, 1>>, <<-1, -2, 2, 1>>),
                            DupForm(2, <<2>>, <<1>>, <<2, -1, 1>>)}
    [] name = "dup2_x1" -> {DupForm(3, <<1, 1, 1>>, <<2, 1>>, <<-1, -2, 3, 2, 1>>),
                            DupForm(3, <<2, 1>>, <<1>>, <<3, -1, 2, 1>>)}
    [] name = "dup2_x2" -> {DupForm(4, <<1, 1, 1, 1>>, <<2, 1>>, <<-1, -2, 4, 3, 2, 1>>),
                            DupForm(4, <<2, 1, 1>>, <<1>>, <<4, -1, 4, 2, 1>>)}

WidthOf(b) == IF boxes[b].type \in Wide THEN 2 ELSE 1

Nth(k) == Below(Top.stack, k - 1)

FitsUpTo(form, n) == \A k \in 1..n : Nth(k) # Null /\ WidthOf(Nth(k)) = form.widths[k]

Fits(form) == FitsUpTo(form, Len(form.widths))

(* The comparison comes to typeid of a null pointer.                       *)
MeetsNull(form) == \E k \in DOMAIN form.widths : FitsUpTo(form, k - 1) /\ Nth(k) = Null

(* cloneValue of a JLong takes it for a JDouble.                           *)
ClonesLong(b) == b # Null /\ boxes[b].type = "long"

(* What form puts on the stack; the values it puts there more than once.   *)
PutBack(form) == [k \in DOMAIN form.back |-> IF form.back[k] < 0 THEN New(-form.back[k])
                                                                 ELSE Nth(form.back[k])]
PutTwice(form) == {Nth(form.back[k]) : k \in {k \in DOMAIN form.back :
                     \E j \in DOMAIN form.back : j # k /\ form.back[j] = form.back[k]}}

Dup ==
  /\ At("dup")
  /\ LET forms == {f \in DupForms(Instr.f) : Fits(f)}
         takes == (CHOOSE f \in DupForms(Instr.f) : TRUE).takes
     IN IF forms # {}
        THEN LET form == CHOOSE f \in forms : TRUE
                 copied(k) == Nth(form.copied[k])
             IN IF \E k \in DOMAIN form.copied : ClonesLong(copied(k)) THEN Ends("undefined")
                ELSE /\ StackBecomes(takes, PutBack(form),
                                     [k \in DOMAIN form.copied |-> boxes[copied(k)]], After)
                     /\ exposed' = exposed \cup PutTwice(form)
                     /\ UNCHANGED <<classes, statics, objects, arrays, loaded, inited>>
        ELSE IF \E f \in DupForms(Instr.f) : MeetsNull(f) THEN Ends("throws")
        ELSE IF Instr.f \in {"dup", "dup_x1"} THEN Ends("exits")
        ELSE StackBecomes(takes, <<>>, <<>>, After) /\ UNCHANGED data

(* swap puts nothing back; an int and a float exchange their numbers, as   *)
(* far as an int can have that of a float, before they are dropped.        *)
Swap ==
  /\ At("swap")
  /\ LET a == Below(Top.stack, 0)
         b == Below(Top.stack, 1)
     IN CASE Null \in {a, b} -> Ends("throws")
          [] Null \notin {a, b} /\ 2 \in {WidthOf(a), WidthOf(b)} -> Ends("exits")
          [] OTHER ->
               /\ frames' = SetTop([Top EXCEPT !.stack = Drop(@, 2), !.pc = After,
                                               !.resumed = FALSE])
               /\ boxes' = IF {boxes[a].type, boxes[b].type} = {"int", "float"}
                           THEN [boxes EXCEPT
                                   ![a].val = Cast(boxes[b].type, boxes[a].type, Val(b)),
                                   ![b].val = Cast(boxes[a].type, boxes[b].type, Val(a))]
                           ELSE boxes
               /\ UNCHANGED <<data, exc, status>>

-----------------------------------------------------------------------------
(* Arithmetic.                                                             *)

(* drem is fmodArithmetic<JFloat>.                                         *)
OperandType == IF Instr.f = "rem" /\ Instr.t = "double" THEN "float" ELSE Instr.t

Binary ==
  /\ At("binary")
  /\ LET a == Popped(OperandType, 1)
         b == Popped(OperandType, 0)
     IN CASE Null \in {a, b} -> Ends("undefined")
          [] Null \notin {a, b} /\ Traps(Instr.f, Instr.t, Val(a), Val(b)) -> Ends("undefined")
          [] Null \notin {a, b} /\ Refuses(Instr.f, Val(a)) -> Ends("throws")
          [] OTHER -> /\ Pushes(2, Box(Instr.t, Calc(Instr.f, Instr.t, Val(a), Val(b))))
                      /\ UNCHANGED data

(* The box on the stack is written to.                                     *)
Negate ==
  /\ At("neg")
  /\ LET a == Popped(Instr.t, 0)
     IN IF a = Null THEN Ends("undefined")
        ELSE /\ boxes' = [boxes EXCEPT ![a].val = Negated(Instr.t, @)]
             /\ frames' = SetTop([Top EXCEPT !.pc = After, !.resumed = FALSE])
             /\ UNCHANGED <<data, exc, status>>

Convert ==
  /\ At("cast")
  /\ LET a == Popped(Instr.from, 0)
         t == IF Instr.t \in {"byte", "char", "short"} THEN "int" ELSE Instr.t
     IN IF a = Null THEN Ends("undefined")
        ELSE Pushes(1, Box(t, Cast(Instr.from, Instr.t, Val(a)))) /\ UNCHANGED data

Compare ==
  /\ At("cmp")
  /\ LET a == Popped(Instr.t, 1)
         b == Popped(Instr.t, 0)
     IN IF Null \in {a, b} THEN Ends("undefined")
        ELSE /\ \E r \in Comparisons(Val(a), Val(b)) : Pushes(2, Box("int", r))
             /\ UNCHANGED data

-----------------------------------------------------------------------------
(* Branches.                                                               *)

Branch(k, taken) ==
  StackBecomes(k, <<>>, <<>>, IF taken THEN Top.pc + Instr.n ELSE After) /\ UNCHANGED data

Goto == At("goto") /\ Branch(0, TRUE)

If ==
  /\ At("if")
  /\ LET a == Popped("int", 0)
     IN IF a = Null THEN Ends("undefined") ELSE Branch(1, Condition(Instr.f, Val(a)))

IfCompare ==
  /\ At("if_icmp")
  /\ LET a == Popped("int", 1)
         b == Popped("int", 0)
     IN IF Null \in {a, b} THEN Ends("undefined")
        ELSE Branch(2, Condition(Instr.f, Val(a) - Val(b)))

(* References to objects; to arrays they are cast to null.                 *)
IfSame ==
  /\ At("if_acmp")
  /\ LET a == Popped("object", 1)
         b == Popped("object", 0)
     IN IF Null \in {a, b} THEN Ends("undefined")
        ELSE Branch(2, (boxes[a] = boxes[b]) = (Instr.f = "eq"))

IfNull ==
  At("ifnull") /\ Branch(1, (Popped("object", 0) = Null) = (Instr.f = "eq"))

(* Three bytes of padding are skipped, whether there are three or not; if  *)
(* not, the operands read are garbage.                                     *)
Aligned == Top.pc % 4 = 0

(* targets is a function on low..high, or on the keys of a lookupswitch.   *)
SwitchTo(targets, a) ==
  StackBecomes(1, <<>>, <<>>,
    Top.pc + IF Val(a) \in DOMAIN targets THEN targets[Val(a)] ELSE Instr.default)
  /\ UNCHANGED data

(* make_pair's arguments, a key and its target, are consumed in either     *)
(* order.                                                                  *)
Switch ==
  /\ At("tableswitch") \/ At("lookupswitch")
  /\ LET a == Popped("int", 0)
     IN \/ (~Aligned \/ a = Null) /\ Ends("undefined")
        \/ Aligned /\ a # Null /\ SwitchTo(Instr.targets, a)
        \/ /\ Aligned /\ a # Null /\ Instr.op = "lookupswitch"
           /\ SwitchTo([t \in Range(Instr.targets) |->
                          Min({k \in DOMAIN Instr.targets : Instr.targets[k] = t})], a)

-----------------------------------------------------------------------------
(* Arrays.                                                                 *)

Elements(b) == arrays[Val(b)]

(* No bounds are checked; what is pushed is the element's own box.         *)
ArrayLoad ==
  /\ At("xaload")
  /\ LET i == Popped("int", 0)
         a == Popped("array", 1)
     IN CASE a = Null -> Ends("throws")
          [] a # Null /\ (i = Null \/ Val(i) + 1 \notin DOMAIN Elements(a)) -> Ends("undefined")
          [] OTHER ->
               LET e == As(Instr.t, Elements(a)[Val(i) + 1])
               IN /\ StackBecomes(2, <<e>>, <<>>, After)
                  /\ exposed' = exposed \cup {e}
                  /\ UNCHANGED <<classes, statics, objects, arrays, loaded, inited>>

(* The index may be the length.  bastore, sastore and castore cut the      *)
(* number off in its box.                                                  *)
ArrayStore ==
  /\ At("xastore")
  /\ LET cut == Instr.t \in {"byte", "short"}
         v == Popped(IF cut THEN "int" ELSE Instr.t, 0)
         i == Popped("int", 1)
         a == Popped("array", 2)
     IN CASE cut /\ v = Null -> Ends("undefined")
          [] ~(cut /\ v = Null) /\ a = Null -> Ends("throws")
          [] ~(cut /\ v = Null) /\ a # Null /\ i = Null -> Ends("undefined")
          [] ~(cut /\ v = Null) /\ a # Null /\ i # Null /\ Val(i) \notin 0..Len(Elements(a)) ->
               Ends("throws")
          [] ~(cut /\ v = Null) /\ a # Null /\ i # Null /\ Val(i) = Len(Elements(a)) ->
               Ends("undefined")
          [] OTHER ->
               /\ arrays' = [arrays EXCEPT ![Val(a)][Val(i) + 1] = v]
               /\ frames' = SetTop([Top EXCEPT !.stack = Drop(@, 3), !.pc = After,
                                               !.resumed = FALSE])
               /\ boxes' = IF cut THEN [boxes EXCEPT ![v].val = Wrap(Instr.t, @)] ELSE boxes
               /\ UNCHANGED <<classes, statics, objects, loaded, inited, exposed, exc, status>>

ArrayLength ==
  /\ At("arraylength")
  /\ LET a == Popped("array", 0)
     IN IF a = Null THEN Ends("throws")
        ELSE Pushes(1, Box("int", Len(Elements(a)))) /\ UNCHANGED data

(* An array is made of the boxes after the one that refers to it.          *)
NewArray ==
  /\ At("newarray")
  /\ LET n == Popped("int", 0)
     IN CASE n = Null -> Ends("undefined")
          [] n # Null /\ Val(n) < 0 -> Ends("throws")
          [] OTHER ->
               /\ arrays' = Append(arrays, [i \in 1..Val(n) |-> New(1 + i)])
               /\ StackBecomes(1, <<New(1)>>, <<Array(Len(arrays) + 1)>>
                                 \o [i \in 1..Val(n) |-> Box(Instr.t, 0)], After)
               /\ UNCHANGED <<classes, statics, objects, loaded, inited, exposed>>

-----------------------------------------------------------------------------
(* Objects and fields.                                                     *)

Initialized(c) == c \in inited \/ "<clinit>" \notin DOMAIN classes[c].methods

(* initClassIfAbsent: c is listed, and its initializer called.  The        *)
(* instruction that asked for it then goes on, whatever came of it.        *)
Initialize(c) ==
  /\ inited' = inited \cup {c}
  /\ loaded' = loaded \cup ToSet(Lineage(c))
  /\ LET m == classes[c].methods["<clinit>"]
     IN frames' = Append(SetTop([Top EXCEPT !.resumed = TRUE]),
                         Frame(c, "<clinit>", Empty(m.maxLocals), m.maxStack, "name"))
  /\ UNCHANGED <<classes, statics, objects, arrays, exposed, boxes, exc, status>>

(* Fields of an object of class c, and for each of them a box.             *)
FieldsOf(c) == SetToSeq(UNION {{d} \X DOMAIN classes[d].fields : d \in ToSet(Lineage(c))})
FieldType(v) == classes[v[1]].fields[v[2]]
FieldBoxes(c) == [i \in DOMAIN FieldsOf(c) |-> Zero(FieldType(FieldsOf(c)[i]))]

(* The object record, if its boxes begin with the j-th new one.            *)
createObject(c, j) ==
  [v \in ToSet(FieldsOf(c)) |->
     IF FieldType(v) \in References THEN Null
     ELSE New(j - 1 + CHOOSE i \in DOMAIN FieldsOf(c) : FieldsOf(c)[i] = v)]

(* A string is an object with an array of characters in its first field.   *)
StringConstant ==
  LET k == 1 + Len(FieldsOf("String"))
      string == [createObject("String", 2) EXCEPT ![FieldsOf("String")[1]] = New(k + 1)]
      chars  == [i \in 1..Instr.n |-> Box("int", 0)]
  IN /\ objects' = Append(objects, string)
     /\ arrays' = Append(arrays, [i \in 1..Instr.n |-> New(k + 1 + i)])
     /\ loaded' = loaded \cup ToSet(Lineage("String"))
     /\ StackBecomes(0, <<New(1)>>, <<Object("String", Len(objects) + 1)>> \o FieldBoxes("String")
                                   \o <<Array(Len(arrays) + 1)>> \o chars,
                     After)
     /\ UNCHANGED <<classes, statics, inited, exposed>>

(* ldc, ldc_w and ldc2_w.                                                  *)
LoadConstant ==
  /\ At("ldc")
  /\ \/ Instr.t = "string" /\ StringConstant
     \/ Instr.t # "string" /\ Pushes(0, Box(Instr.t, Instr.n)) /\ UNCHANGED data

(* new initializes the class whose code it is in, not the one it makes an  *)
(* object of.                                                              *)
NewObject ==
  /\ At("new")
  /\ \/ ~Initialized(Top.cls) /\ Initialize(Top.cls)
     \/ /\ Initialized(Top.cls)
        /\ objects' = Append(objects, createObject(Instr.c, 2))
        /\ StackBecomes(0, <<New(1)>>, <<Object(Instr.c, Len(objects) + 1)>>
                                         \o FieldBoxes(Instr.c), After)
        /\ loaded' = loaded \cup ToSet(Lineage(Instr.c))
        /\ UNCHANGED <<classes, statics, arrays, inited, exposed>>

(* anewarray fills the array with new objects.                             *)
NewObjects ==
  /\ At("anewarray")
  /\ LET n == Popped("int", 0)
         size == 1 + Len(FieldsOf(Instr.c))
         part(i, r) == IF r = 0 THEN Object(Instr.c, Len(objects) + i + 1)
                                ELSE FieldBoxes(Instr.c)[r]
     IN CASE n = Null -> Ends("undefined")
          [] n # Null /\ Val(n) < 0 -> Ends("throws")
          [] OTHER ->
               /\ objects' = objects \o [i \in 1..Val(n) |->
                                           createObject(Instr.c, 3 + (i - 1) * size)]
               /\ arrays' = Append(arrays, [i \in 1..Val(n) |-> New(2 + (i - 1) * size)])
               /\ StackBecomes(1, <<New(1)>>, <<Array(Len(arrays) + 1)>>
                                 \o [j \in 1..(Val(n) * size) |->
                                       part((j - 1) \div size, (j - 1) % size)], After)
               /\ loaded' = loaded \cup ToSet(Lineage(Instr.c))
               /\ UNCHANGED <<classes, statics, inited, exposed>>

(* getStaticVar: of the class, or the nearest super-class that has it.  If *)
(* none has, there is null to get, and nothing to put.                     *)
StaticHome(c, name) ==
  LET line == Lineage(c)
      k == SelectInSeq(line, LAMBDA d : name \in DOMAIN classes[d].statics)
  IN <<IF k = 0 THEN NoClass ELSE line[k], name>>

(* getstatic and putstatic, once the class named is initialized.           *)
GetStatic ==
  /\ At("getstatic")
  /\ \/ ~Initialized(Instr.c) /\ Initialize(Instr.c)
     \/ /\ Initialized(Instr.c)
        /\ LET v == StaticHome(Instr.c, Instr.name)
               b == IF v \in DOMAIN statics THEN statics[v] ELSE Null
           IN StackBecomes(0, <<b>>, <<>>, After) /\ exposed' = exposed \cup {b}
        /\ loaded' = loaded \cup ToSet(Lineage(Instr.c))
        /\ UNCHANGED <<classes, statics, objects, arrays, inited>>

PutStatic ==
  /\ At("putstatic")
  /\ \/ ~Initialized(Instr.c) /\ Initialize(Instr.c)
     \/ /\ Initialized(Instr.c)
        /\ statics' = [statics EXCEPT ![StaticHome(Instr.c, Instr.name)] = Popped("ref", 0)]
        /\ StackBecomes(1, <<>>, <<>>, After)
        /\ loaded' = loaded \cup ToSet(Lineage(Instr.c))
        /\ UNCHANGED <<classes, objects, arrays, inited, exposed>>

(* A field is found only under the class that declares it; otherwise there *)
(* is null to get, and nothing to put.                                     *)
GetField ==
  /\ At("getfield")
  /\ LET o == Popped("object", 0)
         v == <<Instr.c, Instr.name>>
         b == IF v \in DOMAIN objects[Val(o)] THEN objects[Val(o)][v] ELSE Null
     IN CASE o = Null -> Ends("undefined")
          [] o # Null /\ ClonesLong(b) -> Ends("undefined")
          [] OTHER ->
               /\ IF b = Null THEN StackBecomes(1, <<Null>>, <<>>, After)
                              ELSE Pushes(1, boxes[b])
               /\ loaded' = loaded \cup ToSet(Lineage(Instr.c))
               /\ UNCHANGED <<classes, statics, objects, arrays, inited, exposed>>

PutField ==
  /\ At("putfield")
  /\ LET o == Popped("object", 1)
         v == <<Instr.c, Instr.name>>
     IN IF o = Null THEN Ends("undefined")
        ELSE /\ objects' = IF v \in DOMAIN objects[Val(o)]
                           THEN [objects EXCEPT ![Val(o)][v] = Popped("ref", 0)] ELSE objects
             /\ StackBecomes(2, <<>>, <<>>, After)
             /\ loaded' = loaded \cup ToSet(Lineage(Instr.c))
             /\ UNCHANGED <<classes, statics, arrays, inited, exposed>>

(* checkInstanceof compares the type of a pointer, and ends without a      *)
(* return: the answer is anything.  For null there is an answer before.    *)
InstanceOf ==
  /\ At("instanceof")
  /\ IF Instr.c \notin loaded THEN Ends("undefined")
     ELSE /\ \E r \in {0, 1} :
               IF Popped("object", 0) = Null
               THEN StackBecomes(1, <<New(1), New(2)>>, <<Box("int", 0), Box("int", r)>>, After)
               ELSE Pushes(1, Box("int", r))
          /\ UNCHANGED data

-----------------------------------------------------------------------------
(* Returning from a method, with the box b (0 for null) and the exception  *)
(* e.  The caller gets a copy; if there is an exception, its stack grows   *)
(* and it gets the copy again.                                             *)

Caller      == frames[Len(frames) - 1]
CallerInstr == classes[Caller.cls].methods[Caller.method].code[Caller.pc]

(* Mutant of Grown: the stack stays as it is.                              *)
GrownNot(n, e) == n

(* grow(1).                                                                *)
Grown(n, e) == IF e.pending THEN n + 1 ELSE n

(* Mutant of Handed: the exception is only handed on as a value.           *)
HandedOnce(v, desc, e) == IF ReturnsVoid(desc) THEN <<>> ELSE <<v>>

Handed(v, desc, e) ==
  (IF ReturnsVoid(desc) THEN <<>> ELSE <<v>>) \o (IF e.pending THEN <<v>> ELSE <<>>)

Extended(e, m) == IF e.pending THEN [e EXCEPT !.trace = Append(@, m)] ELSE e

ReturnToCaller(b, e) ==
  LET v == IF b = Null THEN Null ELSE New(1)
      caller == [Caller EXCEPT !.stack = @ \o Handed(v, CallerInstr.desc, e),
                               !.maxStack = Grown(@, e),
                               !.pc = @ + CallerInstr.len, !.resumed = FALSE]
  IN /\ frames' = Append(SubSeq(frames, 1, Len(frames) - 2), caller)
     /\ boxes' = IF b = Null THEN boxes ELSE Append(boxes, boxes[b])
     /\ exc' = Extended(e, Top.method)
     /\ UNCHANGED <<data, status>>

(* main and <clinit> end in invokeByName: the exception stays where it is. *)
ReturnByName(e) ==
  /\ frames' = Front(frames)
  /\ exc' = [Extended(e, Top.method) EXCEPT !.byName = e.pending]
  /\ status' = IF Len(frames) = 1 THEN "done" ELSE status
  /\ UNCHANGED <<data, boxes>>

ReturnWith(b, e) ==
  IF Top.via = "invoke" THEN ReturnToCaller(b, e) ELSE ReturnByName(e)

Return ==
  /\ At("return")
  /\ LET b == IF Instr.t = "void" THEN Null ELSE Popped(Instr.t, 0)
     IN IF ClonesLong(b) THEN Ends("undefined") ELSE ReturnWith(b, exc)

-----------------------------------------------------------------------------
(* Exceptions.                                                             *)

Covers(entry, op) == entry.start <= op /\ op < entry.end

(* Entry 0 of the constant pool and the class object of a class that is    *)
(* not loaded are null pointers.                                           *)
Breaks(entry) == entry.type = AnyType \/ entry.type \notin loaded

(* The entry of the table that handleException comes to an end with, for   *)
(* an object of class c; 0 if it comes to none.                            *)
handleException(c, op) ==
  SelectInSeq(Method.table, LAMBDA entry :
    Breaks(entry) \/ (hasInheritanceRelationship(c, entry.type) /\ Covers(entry, op)))

Throwable(b) == b # Null /\ hasInheritanceRelationship(boxes[b].cls, "Throwable")

Handles(b, pc) ==
  frames' = SetTop([Top EXCEPT !.stack = <<b>>, !.pc = pc, !.resumed = FALSE])

Throw ==
  /\ At("athrow")
  /\ LET b == Popped("object", 0)
         k == handleException(boxes[b].cls, Top.pc)
     IN CASE ~Throwable(b) -> Ends("throws")
          [] Throwable(b) /\ k # 0 /\ Breaks(Method.table[k]) -> Ends("undefined")
          [] Throwable(b) /\ k # 0 /\ ~Breaks(Method.table[k]) ->
               Handles(b, Method.table[k].handler) /\ UNCHANGED <<data, boxes, exc, status>>
          [] OTHER -> ReturnWith(b, [exc EXCEPT !.pending = TRUE, !.thrown = boxes[b]])

(* Mutant of CallAddress: the address is that of the next instruction.     *)
CallAddressNext == Top.pc

(* op--: the last byte of the call that the exception came out of.         *)
CallAddress == Top.pc - 1

(* The beginning of a round of the loop, with an exception.  If there is a *)
(* handler, the round goes on with the byte before it as an instruction.   *)
Recover ==
  /\ Running /\ Interrupted
  /\ LET b == Popped("object", 0)
         k == handleException(boxes[b].cls, CallAddress)
     IN CASE ~Throwable(b) -> Ends("throws")
          [] Throwable(b) /\ k # 0 /\ Breaks(Method.table[k]) -> Ends("undefined")
          [] Throwable(b) /\ k # 0 /\ ~Breaks(Method.table[k]) ->
               /\ Handles(b, Method.table[k].handler - 1)
               /\ exc' = [NoException EXCEPT !.thrown = exc.thrown]
               /\ UNCHANGED <<data, boxes, status>>
          [] OTHER -> ReturnWith(b, exc)

-----------------------------------------------------------------------------
(* Calls.                                                                  *)

Params   == peelMethodParameters(Instr.desc)
OnObject == IF Instr.kind = "static" THEN 0 ELSE 1
This     == Below(Top.stack, Len(Params))

(* invokevirtual reads the class from whatever box there is.               *)
NoReceiver == /\ Instr.kind = "virtual"
              /\ This = Null \/ (This # Null /\ boxes[This].type # "object")

(* Where the method is looked for: invokestatic looks nowhere else,        *)
(* invokeinterface not at the object.                                      *)
LookIn ==
  CASE Instr.kind = "static"                   -> <<Instr.c>>
    [] Instr.kind = "virtual"                  -> Lineage(boxes[This].cls)
    [] Instr.kind \in {"special", "interface"} -> Lineage(Instr.c)

Site ==
  LET k == SelectInSeq(LookIn, LAMBDA d : Instr.name \in DOMAIN classes[d].methods)
  IN IF k = 0 THEN NoClass ELSE LookIn[k]

Callee == classes[Site].methods[Instr.name]

(* Mutant of Argument: parameters of static methods begin at 1, too.       *)
ArgumentFromOne(i) ==
  CASE i = 0                -> Popped("object", Len(Params))
    [] i \in DOMAIN Params  -> Popped(Params[i], Len(Params) - i)
    [] OTHER                -> Null

(* pushMethodArguments: what becomes local variable i of the method.  A    *)
(* long or double takes one slot as everything does.                       *)
Argument(i) ==
  LET k == i + 1 - OnObject
  IN CASE k = 0              -> Popped("object", Len(Params))
       [] k \in DOMAIN Params -> Popped(Params[k], Len(Params) - k)
       [] OTHER              -> Null

Arguments == Len(Params) + OnObject

MaxLocals == IF Callee.native THEN Arguments ELSE Callee.maxLocals

InvokeReady == At("invoke") /\ (Instr.kind = "static" => Initialized(Instr.c))

InvokeInitializes ==
  At("invoke") /\ Instr.kind = "static" /\ ~Initialized(Instr.c) /\ Initialize(Instr.c)

(* No object to find the method of; no such method (a null MethodInfo, or  *)
(* runtime_error); no code; more arguments than local variables.           *)
InvokeFails ==
  /\ InvokeReady
  /\ CASE NoReceiver -> Ends("undefined")
       [] ~NoReceiver /\ Site = NoClass ->
            Ends(IF Instr.kind = "static" THEN "undefined" ELSE "throws")
       [] ~NoReceiver /\ Site # NoClass ->
            IF Callee.abstract THEN Ends("undefined")
            ELSE /\ Arguments > MaxLocals
                 /\ Ends(IF Arguments = MaxLocals + 1 THEN "undefined" ELSE "throws")

Callable ==
  /\ InvokeReady
  /\ ~NoReceiver /\ Site # NoClass
  /\ ~Callee.abstract /\ Arguments <= MaxLocals

InvokeMethod ==
  /\ Callable /\ ~Callee.native
  /\ frames' = Append(SetTop([Top EXCEPT !.stack = Drop(@, Arguments), !.resumed = FALSE]),
                 Frame(Site, Instr.name, [i \in 0..(MaxLocals - 1) |-> Argument(i)],
                       Callee.maxStack, "invoke"))
  /\ loaded' = loaded \cup ToSet(Lineage(Instr.c))
  /\ UNCHANGED <<classes, statics, objects, arrays, inited, exposed, boxes, exc, status>>

(* Native methods return what they are registered to return, null if they  *)
(* are not registered.                                                     *)
NativeReturns(v, fresh) ==
  /\ frames' = SetTop([Top EXCEPT !.stack = Drop(@, Arguments) \o Handed(v, Instr.desc, exc),
                                  !.maxStack = Grown(@, exc),
                                  !.pc = After, !.resumed = FALSE])
  /\ boxes' = boxes \o fresh
  /\ exc' = Extended(exc, Instr.name)

InvokeNative ==
  /\ Callable /\ Callee.native
  /\ \/ Callee.gives = {} /\ NativeReturns(Null, <<>>)
     \/ \E box \in Callee.gives : NativeReturns(New(1), <<box>>)
  /\ loaded' = loaded \cup ToSet(Lineage(Instr.c))
  /\ UNCHANGED <<classes, statics, objects, arrays, inited, exposed, status>>

-----------------------------------------------------------------------------
Constants == Unknown \/ Unsupported \/ Nop \/ ConstNull \/ Const \/ PushImmediate
Moves     == Load \/ Store \/ Iinc \/ Pop \/ Dup \/ Swap
Numbers   == Binary \/ Negate \/ Convert \/ Compare
Control   == Goto \/ If \/ IfCompare \/ IfSame \/ IfNull \/ Switch
Data      == \/ LoadConstant \/ ArrayLoad \/ ArrayStore \/ ArrayLength
             \/ NewArray \/ NewObjects \/ NewObject \/ GetStatic \/ PutStatic
             \/ GetField \/ PutField \/ InstanceOf
Calls     == \/ Return \/ Throw \/ Recover
             \/ InvokeInitializes \/ InvokeFails \/ InvokeMethod \/ InvokeNative

Next == Constants \/ Moves \/ Numbers \/ Control \/ Data \/ Calls

Spec == Init /\ [][Next]_vars

-----------------------------------------------------------------------------
(* Boxes: numbers are in the range of their type, and a reference is to an *)
(* object or array there is.                                               *)
BoxesTyped ==
  \A i \in DOMAIN boxes :
    LET b == boxes[i]
    IN /\ b.type \in NumTypes => b.val \in ValuesOf(b.type)
       /\ b.type = "object" => b.val \in DOMAIN objects /\ b.cls \in loaded
       /\ b.type = "array" => b.val \in DOMAIN arrays

(* Whatever holds boxes holds boxes there are.                             *)
HoldersTyped ==
  LET ids == 0..Len(boxes)
  IN /\ \A k \in DOMAIN frames :
          Range(frames[k].locals) \subseteq ids /\ ToSet(frames[k].stack) \subseteq ids
     /\ Range(statics) \subseteq ids
     /\ \A o \in DOMAIN objects : Range(objects[o]) \subseteq ids
     /\ \A a \in DOMAIN arrays : ToSet(arrays[a]) \subseteq ids
     /\ exposed \subseteq ids

(* Frames run methods there are, of classes that are loaded; those below   *)
(* the top are at an instruction.                                          *)
FramesTyped ==
  \A k \in DOMAIN frames :
    /\ frames[k].cls \in loaded \cup inited
    /\ frames[k].method \in DOMAIN classes[frames[k].cls].methods
    /\ frames[k].pc \in Int
    /\ k < Len(frames) =>
         frames[k].pc \in DOMAIN classes[frames[k].cls].methods[frames[k].method].code

WellTyped ==
  /\ BoxesTyped /\ HoldersTyped /\ FramesTyped
  /\ loaded \subseteq DOMAIN classes /\ inited \subseteq DOMAIN classes
  /\ status \in {"runs", "done", "throws", "exits", "undefined"}

(* No stack has more entries than there is room for, although the object   *)
(* of an exception comes on top of what the code pushes.                   *)
StacksFit == \A k \in DOMAIN frames : Len(frames[k].stack) <= frames[k].maxStack

TypeOK == WellTyped /\ StacksFit

(* A frame that is about to look for a handler (Interpreter.cpp:79-96)     *)
(* finds the object that was thrown on its stack, whether the methods it   *)
(* came through return something or not, if none of them was a <clinit>.   *)
ThrownArrives ==
  /\ Running /\ frames # <<>> /\ Interrupted /\ ~exc.byName
  => Popped("object", 0) # Null /\ boxes[Popped("object", 0)] = exc.thrown

(* The call that has just returned to address pc.                          *)
CallBefore(code, pc) == CHOOSE i \in DOMAIN code : i + code[i].len = pc /\ code[i].op = "invoke"

(* An exception out of a call stops in the first handler in the table that *)
(* is for the call and for the class (at the byte before it, though), and  *)
(* leaves the method if there is none (Interpreter.cpp:1450-1480), if no   *)
(* <clinit> has let it go: then the object on the stack may be another.    *)
HandlerTaken ==
  Recover /\ ~exc.byName /\ status' = "runs" =>
    LET call == CallBefore(Method.code, Top.pc)
        handlers == {k \in DOMAIN Method.table :
                       /\ call \in Method.table[k].start..(Method.table[k].end - 1)
                       /\ Method.table[k].type \in ToSet(Lineage(exc.thrown.cls))}
    IN IF handlers = {} THEN exc'.pending /\ Len(frames') < Len(frames)
       ELSE /\ ~exc'.pending /\ Len(frames') = Len(frames)
            /\ Last(frames').pc = Method.table[Min(handlers)].handler - 1

HandlerInForce == [][HandlerTaken]_vars

(* While a method runs, the local variables of the methods below it stay   *)
(* as they are, unless the box of one of them is or was the box of a       *)
(* static variable or an array element (getstatic and the array loads hand *)
(* out the box itself, which iinc and the negations write to).             *)
LocalsPrivate ==
  [][\A k \in 1..(Len(frames) - 1) : k <= Len(frames') =>
       \A n \in DOMAIN frames[k].locals :
         LET b == frames[k].locals[n]
         IN /\ frames'[k].locals[n] = b
            /\ b = Null \/ b \in exposed \/ boxes'[b] = boxes[b]]_vars

(* What the arithmetic instructions leave on the stack is what the Java    *)
(* Language Specification says, apart from KnownToDiffer; they fail for    *)
(* divisions that cannot be made, and for 0 shifted right without a sign   *)
(* (Interpreter.cpp:664-796).                                              *)
ComputesJava ==
  At("binary") /\ Instr.t \in IntTypes /\ Null \notin {Popped(Instr.t, 0), Popped(Instr.t, 1)} =>
    LET a == Val(Popped(Instr.t, 1))
        b == Val(Popped(Instr.t, 0))
    IN IF status' = "runs"
       THEN \/ KnownToDiffer(Instr.f, Instr.t, a, b)
            \/ boxes'[Last(Last(frames').stack)].val = JavaCalc(Instr.f, Instr.t, a, b)
       ELSE \/ Traps(Instr.f, Instr.t, a, b)
            \/ Refuses(Instr.f, a)

ArithmeticAgrees == [][ComputesJava]_vars

(* Every argument of a call comes to the local variable that the callee's  *)
(* code looks for it in (JVMS 2.6.1), and no more than the arguments leave *)
(* the caller's stack; except for arguments after a long or a double, an   *)
(* array that is passed as an object, and methods with a parameter that is *)
(* an array of a class (Interpreter.cpp:1596-1634, Utils.cpp:140-234).     *)
ArgumentsPassed ==
  InvokeMethod /\ ~HasArrayOfClass(Instr.desc) =>
    LET types == Declared(Instr.desc)
        given(k) == Below(Top.stack, Len(types) - k)
        afterWide(k) == \E j \in 1..(k - 1) : types[j] \in Wide
        arrayAsObject(k) == /\ types[k] = "object" /\ given(k) # Null
                            /\ boxes[given(k)].type = "array"
    IN /\ \A k \in DOMAIN types :
            \/ afterWide(k) \/ arrayAsObject(k)
            \/ Last(frames').locals[k - 1 + OnObject] = given(k)
       /\ Instr.kind # "static" => Last(frames').locals[0] = given(0)
       /\ frames'[Len(frames)].stack = Drop(Top.stack, Len(types) + OnObject)

ArgumentsArrive == [][ArgumentsPassed]_vars
=============================================================================

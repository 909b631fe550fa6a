------------------------------ MODULE ClassFile ------------------------------
(***************************************************************************)
(* The parser of class files: FileReader, and parseClassFile of JavaClass  *)
(* with everything it calls, as functions from what was read so far to     *)
(* what has been read afterwards.                                          *)
(*                                                                         *)
(* A file is a sequence of bytes.  The text of a CONSTANT_Utf8, and the    *)
(* tag of an annotation's element, is one byte that stands for the whole   *)
(* name: the parser compares names and never looks inside.                 *)
(*                                                                         *)
(* A reader is a record: the file, how much of it is read, the buffers of  *)
(* FileReader, the values read (got), the constant pool, whether           *)
(* parseAttribute returned false (bad), and how parsing ends:              *)
(*   "ok"         it goes on, or is over                                   *)
(*   "exits"      the process ends: exit(), or an assert that fails        *)
(*   "throws"     typeid of a null entry of the pool: std::bad_typeid      *)
(*   "undefined"  an access outside of an array, or through a null pointer *)
(***************************************************************************)
EXTENDS Integers, Sequences, SequencesExt

Endings == {"ok", "exits", "throws", "undefined"}

Open(file) ==
  [file |-> file, at |-> 0, buf |-> [w \in {1, 2, 4} |-> [i \in 1..w |-> 0]],
   got |-> <<>>, pool |-> <<>>, bad |-> FALSE, end |-> "ok"]

End(r, how) == IF r.end = "ok" THEN [r EXCEPT !.end = how] ELSE r

(* Big-endian.  Four bytes are taken as the int32 they become.             *)
Number(b) ==
  CASE Len(b) = 1 -> b[1]
    [] Len(b) = 2 -> 256 * b[1] + b[2]
    [] Len(b) = 4 -> 65536 * (256 * (IF b[1] < 128 THEN b[1] ELSE b[1] - 256) + b[2])
                       + 256 * b[3] + b[4]

(* fin.read(buf, w): at the end of the file the buffer keeps the bytes it  *)
(* had, and nobody looks at the stream's state.  A parser that has ended   *)
(* reads zeros, so that its loops end.                                     *)
Read(r, w) ==
  LET b == [i \in 1..w |-> IF r.at + i <= Len(r.file) THEN r.file[r.at + i]
                           ELSE r.buf[w][i]]
      n == IF r.at + w <= Len(r.file) THEN w ELSE Len(r.file) - r.at
  IN IF r.end # "ok" THEN [r EXCEPT !.got = Append(@, 0)]
     ELSE [r EXCEPT !.at = @ + n, !.buf[w] = b, !.got = Append(@, Number(b))]

U1(r) == Read(r, 1)
U2(r) == Read(r, 2)
U4(r) == Read(r, 4)

haveNoExtraBytes(r) == r.at = Len(r.file)

-----------------------------------------------------------------------------
(* Ways to put readers together.                                           *)

Fields(r, widths) == FoldLeft(Read, r, widths)

Repeat(r, n, Entry(_)) ==
  LET after[i \in 0..n] == IF i = 0 THEN r ELSE Entry(after[i - 1]) IN after[n]

(* A count of the given width, and that many entries.                      *)
Table(r, width, Entry(_)) ==
  LET s == Read(r, width) IN Repeat(s, Last(s.got), Entry)

(* What Op reads becomes one value.                                        *)
Nested(r, Op(_)) ==
  LET s == Op([r EXCEPT !.got = <<>>]) IN [s EXCEPT !.got = Append(r.got, s.got)]

NestedTable(r, width, Entry(_)) ==
  LET s == Read(r, width)
  IN Nested(s, LAMBDA q : Repeat(q, Last(s.got), Entry))

-----------------------------------------------------------------------------
(* The constant pool.  Entry 0 and the second entry of an eight-byte       *)
(* constant are null pointers.                                             *)

TAG == [Class |-> 7, Fieldref |-> 9, Methodref |-> 10, InterfaceMethodref |-> 11,
        String |-> 8, Integer |-> 3, Float |-> 4, Long |-> 5, Double |-> 6,
        NameAndType |-> 12, Utf8 |-> 1, MethodHandle |-> 15, MethodType |-> 16,
        InvokeDynamic |-> 18]

Null == [tag |-> 0, val |-> <<>>]

Slot(r, i) == IF i \in DOMAIN r.pool THEN r.pool[i] ELSE Null

Constant(r) ==
  LET t == U1([r EXCEPT !.got = <<>>])
      tag == Last(t.got)
      c == CASE tag \in {TAG.Class, TAG.String, TAG.MethodType} -> U2(t)
             [] tag \in {TAG.Fieldref, TAG.Methodref, TAG.InterfaceMethodref,
                         TAG.NameAndType, TAG.InvokeDynamic} -> Fields(t, <<2, 2>>)
             [] tag \in {TAG.Integer, TAG.Float} -> U4(t)
             [] tag \in {TAG.Long, TAG.Double} -> Fields(t, <<4, 4>>)
             [] tag = TAG.MethodHandle -> Fields(t, <<1, 2>>)
             [] tag = TAG.Utf8 -> Table(t, 2, U1)
             [] OTHER -> End(t, "exits")
      entry == [tag |-> tag, val |-> Tail(c.got)]
  IN [c EXCEPT !.got = r.got,
               !.pool = @ \o IF tag \in {TAG.Long, TAG.Double} THEN <<entry, Null>>
                                                               ELSE <<entry>>]

parseConstantPool(r, cpCount) ==
  Repeat(r, cpCount - 1, LAMBDA s : IF Len(s.pool) < cpCount - 1 THEN Constant(s) ELSE s)

(* typeid of constPoolInfo[i] before entry i is used as a tag; Otherwise   *)
(* is what happens when it is something else.                              *)
Expect(r, i, tag, Otherwise(_)) ==
  CASE i > Len(r.pool)          -> End(r, "undefined")
    [] Slot(r, i) = Null        -> End(r, "throws")
    [] Slot(r, i).tag # tag     -> Otherwise(r)
    [] OTHER                    -> r

parseInterface(r) ==
  LET s == U2(r)
  IN Expect(s, Last(s.got), TAG.Class, LAMBDA q : End(q, "exits"))

-----------------------------------------------------------------------------
(* Attributes.  After the name, every reader consumes attribute_length (4  *)
(* bytes) and what it expects; the length itself is never used.            *)

RECURSIVE Attribute(_), ElementValue(_)

(* parseAttribute, with the count its callers read before.                 *)
parseAttribute(r) == NestedTable(r, 2, Attribute)

(* Fields, methods and code ignore that parseAttribute returned false.     *)
Ignored(r) == [r EXCEPT !.bad = FALSE]

ConstantValue(r)   == Fields(r, <<4, 2>>)
Synthetic(r)       == U4(r)
Signature(r)       == Fields(r, <<4, 2>>)
SourceFile(r)      == Fields(r, <<4, 2>>)
Deprecated(r)      == U4(r)
EnclosingMethod(r) == Fields(r, <<4, 2, 2>>)
SourceDebugExtension(r) == Table(r, 4, U1)
Exceptions(r)      == Table(U4(r), 2, U2)
InnerClasses(r)    == Table(U4(r), 2, LAMBDA s : Fields(s, <<2, 2, 2, 2>>))
LineNumberTable(r) == Table(U4(r), 2, LAMBDA s : Fields(s, <<2, 2>>))
LocalVariableTable(r) == Table(U4(r), 2, LAMBDA s : Fields(s, <<2, 2, 2, 2, 2>>))
LocalVariableTypeTable(r) == Table(U4(r), 2, LAMBDA s : Fields(s, <<2, 2, 2, 2, 2>>))
MethodParameters(r) == Table(U4(r), 1, LAMBDA s : Fields(s, <<2, 2>>))
BootstrapMethods(r) == Table(U4(r), 2, LAMBDA s : Table(U2(s), 2, U2))

(* length, maxStack, maxLocals, codeLength, code, the exception table's    *)
(* length and entries, attributeCount, attributes.                         *)
Code(r) ==
  LET code  == NestedTable(Fields(r, <<4, 2, 2>>), 4, U1)
      table == NestedTable(code, 2, LAMBDA s :
                 Nested(s, LAMBDA q : Fields(q, <<2, 2, 2, 2>>)))
  IN Ignored(parseAttribute(table))

(* Mutant of determineVerificationType: an uninitialized variable has no   *)
(* offset.                                                                 *)
determineVerificationTypeShort(r) ==
  LET t == U1(r) IN IF Last(t.got) = 7 THEN U2(t) ELSE t

determineVerificationType(r) ==
  LET t == U1(r) IN IF Last(t.got) \in {7, 8} THEN U2(t) ELSE t

StackMapFrame(r) ==
  LET f == U1(r)
      type == Last(f.got)
  IN CASE type \in 64..127  -> determineVerificationType(f)
       [] type = 247        -> determineVerificationType(U2(f))
       [] type \in 248..251 -> U2(f)
       [] type \in 252..254 -> Repeat(U2(f), type - 251, determineVerificationType)
       [] type = 255        -> Table(Table(U2(f), 2, determineVerificationType),
                                     2, determineVerificationType)
       [] OTHER             -> f

StackMapTable(r) == Table(U4(r), 2, StackMapFrame)

(* Annotation{} has no room for its pairs: the first is written through a  *)
(* null pointer.                                                           *)
readToAnnotationStructure(r) ==
  LET a == Fields(r, <<2, 2>>)
  IN IF Last(a.got) = 0 THEN a ELSE End(U2(a), "undefined")

(* An enum constant is read and dropped: its element is a null pointer.    *)
ElementValue(r) ==
  LET t == U1(r)
      tag == Last(t.got)
      null(s) == [s EXCEPT !.got = Append(t.got, "null")]
  IN CASE tag \in {"B", "C", "D", "F", "I", "J", "S", "Z", "s", "c"} -> U2(t)
       [] tag = "e" -> null(Fields(t, <<2, 2>>))
       [] tag = "@" -> readToAnnotationStructure(t)
       [] tag = "[" -> Table(t, 2, ElementValue)
       [] OTHER     -> null(t)

(* The table of a Target_LocalVar is never allocated.                      *)
determineTargetType(r) ==
  LET t == U1(r)
      tag == Last(t.got)
      table == U2(t)
  IN CASE tag \in {0, 1, 22}                           -> U1(t)
       [] tag \in {16, 23, 66} \cup (67..70)           -> U2(t)
       [] tag \in {17, 18}                             -> Fields(t, <<1, 1>>)
       [] tag \in {64, 65} -> IF Last(table.got) = 0 THEN table
                              ELSE End(U2(table), "undefined")
       [] tag \in 71..75                               -> Fields(t, <<2, 1>>)
       [] OTHER                                        -> t

TypeAnnotation(r) ==
  LET path == Table(determineTargetType(r), 1, LAMBDA s : Fields(s, <<1, 1>>))
  IN Table(U2(path), 2, LAMBDA s : ElementValue(U2(s)))

Annotations(r)          == Table(U4(r), 2, readToAnnotationStructure)
ParameterAnnotations(r) ==
  Table(U4(r), 1, LAMBDA s : Table(s, 2, readToAnnotationStructure))
TypeAnnotations(r)      == Table(U4(r), 2, TypeAnnotation)
AnnotationDefault(r)    == ElementValue(U4(r))

Body(r, name) ==
  CASE name = "ConstantValue"          -> ConstantValue(r)
    [] name = "Code"                   -> Code(r)
    [] name = "StackMapTable"          -> StackMapTable(r)
    [] name = "Exceptions"             -> Exceptions(r)
    [] name = "InnerClasses"           -> InnerClasses(r)
    [] name = "EnclosingMethod"        -> EnclosingMethod(r)
    [] name = "Synthetic"              -> Synthetic(r)
    [] name = "Signature"              -> Signature(r)
    [] name = "SourceFile"             -> SourceFile(r)
    [] name = "SourceDebugExtension"   -> SourceDebugExtension(r)
    [] name = "LineNumberTable"        -> LineNumberTable(r)
    [] name = "LocalVariableTable"     -> LocalVariableTable(r)
    [] name = "LocalVariableTypeTable" -> LocalVariableTypeTable(r)
    [] name = "Deprecated"             -> Deprecated(r)
    [] name \in {"RuntimeVisibleAnnotations", "RuntimeInvisibleAnnotations"} ->
         Annotations(r)
    [] name \in {"RuntimeVisibleParameterAnnotations",
                 "RuntimeInvisibleParameterAnnotations"} -> ParameterAnnotations(r)
    [] name \in {"RuntimeVisibleTypeAnnotations",
                 "RuntimeInvisibleTypeAnnotations"} -> TypeAnnotations(r)
    [] name = "AnnotationDefault"      -> AnnotationDefault(r)
    [] name = "BootstrapMethods"       -> BootstrapMethods(r)
    [] name = "MethodParameters"       -> MethodParameters(r)
    [] OTHER                           -> r

Unset == [name |-> "unset", val |-> <<>>]

(* What b, the reader after the body, has read becomes the attribute; the  *)
(* pointer of an attribute with another name is never set.                 *)
Kept(r, e, b) ==
  [b EXCEPT !.got = Append(r.got,
     IF b = e THEN Unset ELSE [name |-> Slot(e, e.got[1]).val[2], val |-> Tail(b.got)])]

(* Nor are the pointers after an attribute whose name is no name.          *)
Bodied(r, e) ==
  IF e.bad \/ e.end # "ok" THEN [e EXCEPT !.got = Append(r.got, Unset)]
  ELSE Kept(r, e, Body(e, Slot(e, e.got[1]).val[2]))

(* One round of parseAttribute's loop.                                     *)
Attribute(r) ==
  LET h == U2([r EXCEPT !.got = <<>>])
  IN IF r.bad \/ r.end # "ok" THEN [r EXCEPT !.got = Append(@, Unset)]
     ELSE Bodied(r, Expect(h, h.got[1], TAG.Utf8, LAMBDA q : [q EXCEPT !.bad = TRUE]))

-----------------------------------------------------------------------------
(* The class file.                                                         *)

(* parseField and parseMethod: flags, name, descriptor, attributes.        *)
Member(r) ==
  LET s == Ignored(parseAttribute(Fields([r EXCEPT !.got = <<>>], <<2, 2, 2>>)))
  IN [s EXCEPT !.got = Append(r.got,
        [accessFlags |-> s.got[1], nameIndex |-> s.got[2],
         descriptorIndex |-> s.got[3], attributes |-> s.got[5]])]

parseField(r)  == NestedTable(r, 2, Member)
parseMethod(r) == NestedTable(r, 2, Member)

JAVA_CLASS_FILE_MAGIC_NUMBER == Number(<<202, 254, 186, 190>>)
JAVA_6_MAJOR == 50
JAVA_9_MAJOR == 53

(* Magic number, versions, constPoolCount; then, after the pool, the       *)
(* flags, thisClass and superClass.                                        *)
Start(r) ==
  LET magic   == U4(r)
      version == Fields(magic, <<2, 2>>)
  IN U2(IF /\ Last(magic.got) = JAVA_CLASS_FILE_MAGIC_NUMBER
           /\ Last(version.got) \in JAVA_6_MAJOR..JAVA_9_MAJOR
        THEN version ELSE End(version, "exits"))

Header(r) == Fields(parseConstantPool(r, Last(r.got)), <<2, 2, 2>>)

(* The class, from the reader that has come to the end.                    *)
ClassOf(r) ==
  [end |-> IF r.bad \/ ~haveNoExtraBytes(r) THEN End(r, "exits").end ELSE r.end,
   constPoolInfo |-> r.pool,
   accessFlags |-> r.got[5], thisClass |-> r.got[6], superClass |-> r.got[7],
   interfaces |-> r.got[9], fields |-> r.got[11], methods |-> r.got[13],
   attributes |-> r.got[15]]

parseClassFile(file) ==
  ClassOf(parseAttribute(parseMethod(parseField(
    NestedTable(Header(Start(Open(file))), 2, parseInterface)))))

-----------------------------------------------------------------------------
(* What the rest of the machine asks a parsed class for.                   *)

getString(jc, i) == jc.constPoolInfo[i].val[2]

ClassNameAt(jc, i) == getString(jc, jc.constPoolInfo[i].val[1])

getClassName(jc) == ClassNameAt(jc, jc.thisClass)

hasSuperClass(jc) == jc.superClass # 0

getSuperClassName(jc) == IF hasSuperClass(jc) THEN ClassNameAt(jc, jc.superClass) ELSE ""

getInterfaceClassNames(jc) ==
  [i \in DOMAIN jc.interfaces |-> ClassNameAt(jc, jc.interfaces[i])]

NameOf(jc, member)       == getString(jc, member.nameIndex)
DescriptorOf(jc, member) == getString(jc, member.descriptorIndex)

=============================================================================

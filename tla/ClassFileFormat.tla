--------------------------- MODULE ClassFileFormat ---------------------------
(***************************************************************************)
(* The class file format, written down independently of the parser: a      *)
(* class as declared, the bytes of its file, and what a parser that reads  *)
(* it right has to find.                                                   *)
(*                                                                         *)
(* A declared class has `names`, every text of its pool, the first         *)
(* `classes` of which are names of classes.  A member has its flags, name, *)
(* descriptor and attributes.  An attribute is its name and its layout,    *)
(* pairs of a width in bytes and a value; a Code attribute has its parts.  *)
(***************************************************************************)
EXTENDS Integers, Sequences, SequencesExt

Word(w, v) ==
  CASE w = 1 -> <<v>>
    [] w = 2 -> <<v \div 256, v % 256>>
    [] w = 4 -> <<0, 0, v \div 256, v % 256>>

SeqMap(seq, Op(_)) == [i \in DOMAIN seq |-> Op(seq[i])]

Concat(seq, Op(_)) == FlattenSeq(SeqMap(seq, Op))

Bytes(layout)  == Concat(layout, LAMBDA p : Word(p[1], p[2]))
Values(layout) == SeqMap(layout, LAMBDA p : p[2])

-----------------------------------------------------------------------------
(* The pool: an eight-byte constant, the names, the classes, and           *)
(* one constant of every other kind.                                       *)

NameIndex(c, name)  == 2 + CHOOSE k \in DOMAIN c.names : c.names[k] = name
ClassIndex(c, name) == NameIndex(c, name) + Len(c.names)
TextIndex(c)        == Len(c.names) + c.classes + 3  \* a string constant
IntIndex(c)         == TextIndex(c) + 1

Entry(tag, val) == [tag |-> tag, val |-> val]
NoEntry == Entry(0, <<>>)

Pool(c) ==
  <<Entry(5, <<0, 7>>), NoEntry>>
    \o SeqMap(c.names, LAMBDA s : Entry(1, <<1, s>>))
    \o SeqMap(SubSeq(c.names, 1, c.classes), LAMBDA s : Entry(7, <<NameIndex(c, s)>>))
    \o <<Entry(8, <<3>>), Entry(3, <<300>>), Entry(4, <<2>>), Entry(12, <<3, 4>>),
         Entry(9, <<5, 6>>), Entry(10, <<5, 6>>), Entry(11, <<5, 6>>),
         Entry(15, <<6, 9>>), Entry(16, <<4>>), Entry(18, <<0, 9>>),
         Entry(6, <<1, 2>>), NoEntry>>

EntryWidths(tag) ==
  CASE tag \in {7, 8, 16}         -> <<2>>
    [] tag \in {9, 10, 11, 12, 18} -> <<2, 2>>
    [] tag \in {3, 4}             -> <<4>>
    [] tag \in {5, 6}             -> <<4, 4>>
    [] tag = 15                   -> <<1, 2>>
    [] tag = 1                    -> <<2, 1>>

EntryBytes(e) ==
  IF e = NoEntry THEN <<>>
  ELSE <<e.tag>> \o FlattenSeq([i \in DOMAIN e.val |-> Word(EntryWidths(e.tag)[i], e.val[i])])

-----------------------------------------------------------------------------
(* Attributes: bytes, and the values read from them.                       *)

RECURSIVE AttributeBytes(_, _), AttributeRead(_, _)

Content(c, a) ==
  IF a.name # "Code" THEN Bytes(a.layout)
  ELSE Word(2, a.maxStack) \o Word(2, a.maxLocals) \o Word(4, Len(a.code)) \o a.code
         \o Word(2, Len(a.table))
         \o Concat(a.table, LAMBDA e : Concat(e, LAMBDA v : Word(2, v)))
         \o Word(2, Len(a.attributes)) \o Concat(a.attributes, LAMBDA b : AttributeBytes(c, b))

AttributeBytes(c, a) ==
  Word(2, NameIndex(c, a.name)) \o Word(4, Len(Content(c, a))) \o Content(c, a)

AttributeRead(c, a) ==
  [name |-> a.name,
   val |-> <<Len(Content(c, a))>> \o
     IF a.name # "Code" THEN Values(a.layout)
     ELSE <<a.maxStack, a.maxLocals, Len(a.code), a.code, Len(a.table), a.table,
            Len(a.attributes), SeqMap(a.attributes, LAMBDA b : AttributeRead(c, b))>>]

AttributesBytes(c, as) == Word(2, Len(as)) \o Concat(as, LAMBDA a : AttributeBytes(c, a))
AttributesRead(c, as)  == SeqMap(as, LAMBDA a : AttributeRead(c, a))

-----------------------------------------------------------------------------
MemberBytes(c, m) ==
  Word(2, m.flags) \o Word(2, NameIndex(c, m.name)) \o Word(2, NameIndex(c, m.descriptor))
    \o AttributesBytes(c, m.attributes)

MemberRead(c, m) ==
  [accessFlags |-> m.flags, nameIndex |-> NameIndex(c, m.name),
   descriptorIndex |-> NameIndex(c, m.descriptor),
   attributes |-> AttributesRead(c, m.attributes)]

SuperIndex(c) == IF c.super = "" THEN 0 ELSE ClassIndex(c, c.super)

File(c) ==
  <<202, 254, 186, 190>> \o Word(2, 0) \o Word(2, c.version)
    \o Word(2, Len(Pool(c)) + 1) \o Concat(Pool(c), EntryBytes)
    \o Word(2, c.flags) \o Word(2, ClassIndex(c, c.name)) \o Word(2, SuperIndex(c))
    \o Word(2, Len(c.interfaces)) \o Concat(c.interfaces, LAMBDA s : Word(2, ClassIndex(c, s)))
    \o Word(2, Len(c.fields))  \o Concat(c.fields, LAMBDA f : MemberBytes(c, f))
    \o Word(2, Len(c.methods)) \o Concat(c.methods, LAMBDA m : MemberBytes(c, m))
    \o AttributesBytes(c, c.attributes)

ReadClass(c) ==
  [end |-> "ok", constPoolInfo |-> Pool(c), accessFlags |-> c.flags,
   thisClass |-> ClassIndex(c, c.name), superClass |-> SuperIndex(c),
   interfaces |-> SeqMap(c.interfaces, LAMBDA s : ClassIndex(c, s)),
   fields  |-> SeqMap(c.fields, LAMBDA f : MemberRead(c, f)),
   methods |-> SeqMap(c.methods, LAMBDA m : MemberRead(c, m)),
   attributes |-> AttributesRead(c, c.attributes)]
=============================================================================

------------------------------ MODULE Hierarchy ------------------------------
(***************************************************************************)
(* What the machine computes from parsed classes and their super-classes:  *)
(* which method a call runs (interpreter/MethodResolve.cpp, CallSite.cpp), *)
(* and where an object keeps its fields (runtime/JavaHeap.cpp).            *)
(*                                                                         *)
(* T is the table of loaded classes: a function from names to what         *)
(* parseClassFile returned.  The recursions of the code walk from a class  *)
(* to its super-class; here they are searches along its Lineage.           *)
(***************************************************************************)
EXTENDS ClassFile, FiniteSets

Flag(m, bit) == (m.accessFlags \div bit) % 2 = 1

IsPublic(m)    == Flag(m, 1)
IsPrivate(m)   == Flag(m, 2)
IsStatic(m)    == Flag(m, 8)
IsInterface(c) == Flag(c, 512)
IsAbstract(m)  == Flag(m, 1024)

RECURSIVE Lineage(_, _)

(* A class, its super-class, and so on.  All of them are loaded.           *)
Lineage(T, c) ==
  <<c>> \o IF hasSuperClass(T[c]) THEN Lineage(T, getSuperClassName(T[c])) ELSE <<>>

-----------------------------------------------------------------------------
(* Methods.  A call site is a class and the index of a method of it.       *)

None == [jc |-> "", method |-> 0]

(* The least index, 0 if there is none.                                    *)
First(S) == IF S = {} THEN 0 ELSE CHOOSE i \in S : \A j \in S : i <= j

findMethod(T, c, name, descriptor) ==
  First({i \in DOMAIN T[c].methods :
           /\ NameOf(T[c], T[c].methods[i]) = name
           /\ DescriptorOf(T[c], T[c].methods[i]) = descriptor})

(* The method that class c declares, if it is one that Accept allows.      *)
Declared(T, c, name, descriptor, Accept(_)) ==
  LET i == findMethod(T, c, name, descriptor)
  IN IF i # 0 /\ Accept(T[c].methods[i]) THEN [jc |-> c, method |-> i] ELSE None

IsInstance(m) == ~IsStatic(m)

(* The first call site that is one, of a sequence.                         *)
FirstSite(sites) ==
  LET k == First({i \in DOMAIN sites : sites[i] # None})
  IN IF k = 0 THEN None ELSE sites[k]

findInstanceMethod(T, c, name, descriptor) == Declared(T, c, name, descriptor, IsInstance)

(* Mutant of findInstanceMethodOnSupers: the farthest super-class wins.    *)
findInstanceMethodOnSupersFar(T, c, name, descriptor) ==
  FirstSite(Reverse([k \in DOMAIN Tail(Lineage(T, c)) |->
              Declared(T, Tail(Lineage(T, c))[k], name, descriptor, IsInstance)]))

findInstanceMethodOnSupers(T, c, name, descriptor) ==
  FirstSite([k \in DOMAIN Tail(Lineage(T, c)) |->
               Declared(T, Tail(Lineage(T, c))[k], name, descriptor, IsInstance)])

findJavaLangObjectMethod(T, c, name, descriptor) ==
  IF IsInterface(T[c])
  THEN Declared(T, "java/lang/Object", name, descriptor,
                LAMBDA m : IsPublic(m) /\ IsInstance(m))
  ELSE None

(* The interfaces of a class are looked at only if its super-class has     *)
(* some; the interfaces these extend, never; and an abstract method is as  *)
(* good as any.                                                            *)
findMaximallySpecifiedMethod(T, c, name, descriptor) ==
  LET interfaces(d) ==
        IF hasSuperClass(T[d]) /\ T[getSuperClassName(T[d])].interfaces # <<>>
        THEN getInterfaceClassNames(T[d]) ELSE <<>>
      asked == FlattenSeq([k \in DOMAIN Lineage(T, c) |-> interfaces(Lineage(T, c)[k])])
  IN FirstSite([k \in DOMAIN asked |->
       Declared(T, asked[k], name, descriptor, LAMBDA m : IsInstance(m) /\ ~IsPrivate(m))])

(* What invokevirtual runs for an object of class c.                       *)
VirtualSite(T, c, name, descriptor) ==
  FirstSite(<<findInstanceMethod(T, c, name, descriptor),
              findInstanceMethodOnSupers(T, c, name, descriptor),
              findMaximallySpecifiedMethod(T, c, name, descriptor)>>)

(* What invokespecial runs, c being the class of the reference or the      *)
(* super-class of the caller.                                              *)
SpecialSite(T, c, name, descriptor) ==
  FirstSite(<<findInstanceMethod(T, c, name, descriptor),
              findInstanceMethodOnSupers(T, c, name, descriptor),
              findJavaLangObjectMethod(T, c, name, descriptor),
              findMaximallySpecifiedMethod(T, c, name, descriptor)>>)

(* Index of the attribute makeCallSite takes the code from, 0 for none.    *)
makeCallSite(T, site) ==
  LET attributes == T[site.jc].methods[site.method].attributes
  IN First({i \in DOMAIN attributes : attributes[i].name = "Code"})

-----------------------------------------------------------------------------
(* Fields.  createObject lays out the class's own instance fields, then    *)
(* those of its super-class, and so on; a slot is described by the class   *)
(* and the index of the field it is for.                                   *)

InstanceFields(T, c) ==
  SelectSeq([i \in DOMAIN T[c].fields |-> <<c, i>>],
            LAMBDA f : ~IsStatic(T[c].fields[f[2]]))

createObject(T, c) ==
  FlattenSeq([k \in DOMAIN Lineage(T, c) |-> InstanceFields(T, Lineage(T, c)[k])])

(* Mutant of FieldSlot: fields are found from the start of the object.     *)
FieldSlotNoOffset(T, c, desire, name, descriptor) ==
  First({i \in DOMAIN T[desire].fields :
           /\ ~IsStatic(T[desire].fields[i])
           /\ NameOf(T[desire], T[desire].fields[i]) = name
           /\ DescriptorOf(T[desire], T[desire].fields[i]) = descriptor})

(* getFieldByName and putFieldByName, for an object of class c: the slot   *)
(* (from 1) of a field of the class `desire` that the reference names, 0   *)
(* for none.  The index counts all fields of that class; the offset, only  *)
(* the instance fields of the classes below.                               *)
FieldSlot(T, c, desire, name, descriptor) ==
  LET line == Lineage(T, c)
      k == First({j \in DOMAIN line : line[j] = desire})
      below == FlattenSeq([j \in 1..(k - 1) |-> InstanceFields(T, line[j])])
      i == First({j \in DOMAIN T[desire].fields :
                    /\ ~IsStatic(T[desire].fields[j])
                    /\ NameOf(T[desire], T[desire].fields[j]) = name
                    /\ DescriptorOf(T[desire], T[desire].fields[j]) = descriptor})
  IN IF k = 0 \/ i = 0 THEN 0 ELSE i + Len(below)

-----------------------------------------------------------------------------
(* The Java Virtual Machine's rule for invokevirtual (JVMS 5.4.6), as a    *)
(* reference: the nearest class that declares the method, or the one       *)
(* maximally specific default method of the super-interfaces.              *)

RECURSIVE SuperInterfaces(_, _)
SuperInterfaces(T, c) ==
  LET direct == ToSet(getInterfaceClassNames(T[c]))
               \cup IF hasSuperClass(T[c]) THEN {getSuperClassName(T[c])} ELSE {}
  IN {d \in direct : IsInterface(T[d])}
       \cup UNION {SuperInterfaces(T, d) : d \in direct}

InterfacesWith(T, c, name, descriptor) ==
  {d \in SuperInterfaces(T, c) :
     Declared(T, d, name, descriptor, LAMBDA m : IsInstance(m) /\ ~IsPrivate(m)) # None}

SelectedClass(T, c, name, descriptor) ==
  LET line == Lineage(T, c)
      k == First({j \in DOMAIN line :
                    Declared(T, line[j], name, descriptor, IsInstance) # None})
      most == {d \in InterfacesWith(T, c, name, descriptor) :
                 \A e \in InterfacesWith(T, c, name, descriptor) :
                    d \notin SuperInterfaces(T, e)}
  IN CASE k # 0                  -> line[k]
       [] Cardinality(most) = 1  -> CHOOSE d \in most : TRUE
       [] OTHER                  -> ""
=============================================================================

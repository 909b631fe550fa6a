---------------------------- MODULE ClassLibrary ----------------------------
(***************************************************************************)
(* A library of class files, read class by class, and what the machine     *)
(* computes from the classes it has: the slots of fields, and the methods  *)
(* that calls run.  When and under which locks classes are loaded is the   *)
(* business of module ClassSpace.                                          *)
(***************************************************************************)
EXTENDS Hierarchy

CONSTANTS
  Libraries   \* declared classes (module ClassFileFormat) by their names

W == INSTANCE ClassFileFormat

VARIABLES
  declared,   \* the library that is on disk; it does not change
  classTable  \* the classes that are loaded, by their names, as parsed

vars == <<declared, classTable>>

Init == declared \in Libraries /\ classTable = <<>>

RECURSIVE loadJavaClass(_, _), Registered(_, _, _)

(* The table with class c in it, and its super-classes.                    *)
loadJavaClass(table, c) == Registered(table, c, parseClassFile(W!File(declared[c])))

Registered(table, c, jc) ==
  LET t == [d \in DOMAIN table \cup {c} |-> IF d = c THEN jc ELSE table[d]]
      super == getSuperClassName(jc)
  IN IF jc.end # "ok" \/ super = "" \/ super \in DOMAIN t THEN t
     ELSE loadJavaClass(t, super)

Load(c) ==
  /\ c \notin DOMAIN classTable
  /\ classTable' = loadJavaClass(classTable, c)
  /\ UNCHANGED declared

Next == \E c \in DOMAIN declared : Load(c)

Spec == Init /\ [][Next]_vars

-----------------------------------------------------------------------------
(* Every proper class file, with attributes of all the kinds the parser    *)
(* knows, is read as it was written: the parser never looks at the length  *)
(* of an attribute (JavaClass.cpp:421-862), so one field too few or too    *)
(* many anywhere shifts all that follows.                                  *)
ParsedAsWritten ==
  \A c \in DOMAIN classTable : classTable[c] = W!ReadClass(declared[c])

StaticFirst(jc) ==
  \E i, j \in DOMAIN jc.fields : i < j /\ IsStatic(jc.fields[i]) /\ ~IsStatic(jc.fields[j])

(* getfield and putfield (JavaHeap.cpp:198-252) come to the slot that      *)
(* createObject made for the field, in objects of the class and of all its *)
(* sub-classes, hidden fields included; unless the class that declares it  *)
(* has a static field before an instance field.                            *)
FieldsApart ==
  \A c \in DOMAIN classTable :
    LET T == classTable
        object == createObject(T, c)
    IN \A k \in DOMAIN object :
         LET d == object[k][1]
             f == T[d].fields[object[k][2]]
         IN ~StaticFirst(T[d]) =>
              FieldSlot(T, c, d, NameOf(T[d], f), DescriptorOf(T[d], f)) = k

(* Once everything is loaded, what invokevirtual finds (MethodResolve.cpp, *)
(* lines 31-119) is what the Java Virtual Machine Specification selects,   *)
(* if at most one super-interface declares the method; so is what a call   *)
(* of super finds in c.  Nothing is found only if no class declares it.    *)
(* The call site has code unless the method is abstract.                   *)
DispatchAsSpecified ==
  DOMAIN classTable = DOMAIN declared => \A c \in DOMAIN classTable :
    LET T == classTable
    IN ~IsInterface(T[c]) =>
         \A d \in DOMAIN T : \A i \in DOMAIN T[d].methods :
           LET name == NameOf(T[d], T[d].methods[i])
               descriptor == DescriptorOf(T[d], T[d].methods[i])
               site == VirtualSite(T, c, name, descriptor)
               right == SelectedClass(T, c, name, descriptor)
           IN /\ Cardinality(InterfacesWith(T, c, name, descriptor)) <= 1 /\ site # None
                   => site.jc = right
              /\ site = None => right = "" \/ IsInterface(T[right])
              /\ SpecialSite(T, c, name, descriptor) = site
              /\ site # None => \/ makeCallSite(T, site) # 0
                                \/ IsAbstract(T[site.jc].methods[site.method])
=============================================================================

---------------------------- MODULE MCClassSpace ----------------------------
(* Two threads over a small class library, and class paths with faults.    *)
EXTENDS ClassSpace, TLC

CONSTANTS t1, t2

MCNames == {"Object", "String", "A", "B"}
MCFields == {"a", "b", "s"}

File1(name, super, statics, text) ==
  [end |-> "ok", name |-> name, super |-> super, statics |-> statics, text |-> text,
   clinit |-> name \in {"A", "B"}]

(* B is a sub-class of A, and has a constant String.                       *)
Whole ==
  "Object" :> File1("Object", NoClass, {}, FALSE) @@
  "String" :> File1("String", "Object", {}, FALSE) @@
  "A" :> File1("A", "Object", {"a"}, FALSE) @@
  "B" :> File1("B", "A", {"b", "s"}, TRUE)

(* Every file is proper; or files are missing, stop the parser in one of   *)
(* its ways, or are of another class.                                      *)
MCPaths == {"complete", "noObject", "noA", "exits", "throws", "undefined", "misnamed"}

MCDisk ==
  "complete"  :> Whole @@
  "noObject"  :> [Whole EXCEPT !["Object"].end = "missing"] @@
  "noA"       :> [Whole EXCEPT !["A"].end = "missing"] @@
  "exits"     :> [Whole EXCEPT !["B"].end = "exits"] @@
  "throws"    :> [Whole EXCEPT !["A"].end = "throws"] @@
  "undefined" :> [Whole EXCEPT !["String"].end = "undefined"] @@
  "misnamed"  :> [Whole EXCEPT !["B"] = Whole["A"]]

MCInitializers ==
  [c \in MCNames |->
     CASE c = "A" -> Static("A", "a") \o New("A", "B")
       [] c = "B" -> Static("A", "a") \o CallStatic("B")
       [] OTHER -> <<>>]

MCPrograms ==
  {t1 :> (Start("B") \o Static("B", "b") \o CallStatic("A"))
     @@ t2 :> (Static("A", "a") \o Static("B", "a") \o CallStatic("A")),
   t1 :> (Start("A") \o New("A", "B") \o Static("B", "a") \o CallStatic("B"))
     @@ t2 :> CallStatic("B"),
   \* Objects are made and used while a class with a constant String is linked, and
   \* tested against that class.
   t1 :> (Start("String") \o New("String", "A") \o Field("A", "Object") \o NewArray("A")
          \o Find("B"))
     @@ t2 :> (Start("Object") \o NewArray("B") \o Text \o CallStatic("B"))}
=============================================================================

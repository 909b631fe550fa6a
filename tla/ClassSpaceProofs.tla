-------------------------- MODULE ClassSpaceProofs --------------------------
(***************************************************************************)
(* Proofs about ClassSpace, for any threads, classes, class paths, and any *)
(* code that uses classes as the interpreter does.                         *)
(***************************************************************************)
EXTENDS ClassSpace, SequenceTheorems, TLAPS

\* Thread t goes on with ops instead of the operation at its head.
Moves(t, ops) ==
    /\ cont[t] # <<>>
    /\ ops \in Seq(Ops)
    /\ Instead(t, ops)

\* No guard of m ends in ops; t may go on with ops, as far as the mutexes go.
Unguarded(ops, m) == \A i \in DOMAIN ops : ops[i].do \notin EndsOf[m]
May(t, ops)       == \A m \in Mutexes : Gets(t, m) \/ Unguarded(ops, m)

\* No class is initialized by ops, nothing accessed, no initializer ended.
NoUse(ops) == \A i \in DOMAIN ops : ops[i].do \notin {"init", "access", "leave"}

\* Threads at a safepoint have a poll at the head, which nothing takes away.
ArrivedPolls == \A t \in arrived : cont[t] # <<>> /\ Head(cont[t]).do = "poll"

\* Who is in the middle of linking a class has found it in the table.
LinkedNext(ops) == \A i \in DOMAIN ops :
    ops[i].do = "linked" => ops[i].cls \in Names /\ Loaded(ops[i].cls)

LinksLoaded == \A t \in Threads : LinkedNext(cont[t])

TypeInv == TypeOK /\ ArrivedPolls /\ LinksLoaded

-----------------------------------------------------------------------------
(* Sequences of operations.                                                *)

LEMMA Spliced ==
    ASSUME NEW s \in Seq(Ops), s # <<>>, NEW ops \in Seq(Ops)
    PROVE  /\ ops \o Tail(s) \in Seq(Ops)
           /\ DOMAIN (ops \o Tail(s)) = 1..(Len(ops) + Len(s) - 1)
           /\ DOMAIN ops = 1..Len(ops) /\ DOMAIN s = 1..Len(s)
           /\ Len(ops) \in Nat /\ Len(s) \in Nat \ {0}
           /\ \A i \in 1..Len(ops) : (ops \o Tail(s))[i] = ops[i]
           /\ \A i \in 2..Len(s) : (ops \o Tail(s))[i - 1 + Len(ops)] = s[i]
           /\ Head(s) = s[1]
<1>1. /\ Tail(s) \in Seq(Ops) /\ Len(Tail(s)) = Len(s) - 1
      /\ \A i \in 1..Len(Tail(s)) : Tail(s)[i] = s[i + 1]
  BY HeadTailProperties
<1>2. Len(s) \in Nat \ {0} /\ Len(ops) \in Nat /\ DOMAIN s = 1..Len(s)
      /\ DOMAIN ops = 1..Len(ops)
  BY EmptySeq, LenProperties
<1> DEFINE r == ops \o Tail(s)
<1>3. /\ r \in Seq(Ops) /\ Len(r) = Len(ops) + Len(s) - 1
      /\ \A i \in 1..(Len(ops) + Len(s) - 1) :
            r[i] = IF i <= Len(ops) THEN ops[i] ELSE Tail(s)[i - Len(ops)]
  BY <1>1, <1>2, ConcatProperties
<1>4. DOMAIN r = 1..Len(r)
  BY <1>3, LenProperties
<1> HIDE DEF r
<1>5. \A i \in 1..Len(ops) : r[i] = ops[i]
  BY <1>2, <1>3
<1>6. ASSUME NEW i \in 2..Len(s) PROVE r[i - 1 + Len(ops)] = s[i]
  <2>1. /\ i - 1 + Len(ops) \in 1..(Len(ops) + Len(s) - 1)
        /\ ~(i - 1 + Len(ops) <= Len(ops)) /\ (i - 1 + Len(ops)) - Len(ops) = i - 1
        /\ i - 1 \in 1..Len(Tail(s)) /\ (i - 1) + 1 = i
    BY <1>1, <1>2
  <2> QED
    BY <2>1, <1>1, <1>3
<1>7. Head(s) = s[1]
  OBVIOUS
<1> QED
  BY <1>2, <1>3, <1>4, <1>5, <1>6, <1>7 DEF r

\* What is at a place of a spliced sequence comes from one of the two.
LEMMA Origin ==
    ASSUME NEW s \in Seq(Ops), s # <<>>, NEW ops \in Seq(Ops),
           NEW i \in DOMAIN (ops \o Tail(s))
    PROVE  \/ i \in DOMAIN ops /\ (ops \o Tail(s))[i] = ops[i]
           \/ \E k \in DOMAIN s : /\ k # 1 /\ i = k - 1 + Len(ops)
                                  /\ (ops \o Tail(s))[i] = s[k]
<1>1. CASE i <= Len(ops)
  BY <1>1, Spliced
<1>2. CASE ~(i <= Len(ops))
  <2> DEFINE k == i - Len(ops) + 1
  <2>1. k \in 2..Len(s) /\ k - 1 + Len(ops) = i
    BY <1>2, Spliced
  <2> HIDE DEF k
  <2>2. k \in DOMAIN s /\ k # 1 /\ (ops \o Tail(s))[k - 1 + Len(ops)] = s[k]
    BY <2>1, Spliced
  <2> QED
    BY <2>1, <2>2
<1> QED
  BY <1>1, <1>2

LEMMA ShortSeqs ==
    ASSUME NEW a \in Ops, NEW b \in Ops
    PROVE  <<>> \in Seq(Ops) /\ <<a>> \in Seq(Ops) /\ <<a, b>> \in Seq(Ops)
  OBVIOUS

\* What linking a class with a constant String goes on with.
LinkOps(c) == <<Op("load", StringClass), Op("create", StringClass)>> \o Text
              \o <<Op("linked", c), Op("unlock", c)>>

LEMMA LinkOpsAre ==
    ASSUME NEW c \in Names
    PROVE  /\ LinkOps(c) \in Seq(Ops) /\ DOMAIN LinkOps(c) = 1..8
           /\ LinkOps(c)[1] = Op("load", StringClass)
           /\ LinkOps(c)[2] = Op("create", StringClass)
           /\ LinkOps(c)[3] = Op("load", StringClass)
           /\ LinkOps(c)[4] = Op("create", StringClass)
           /\ LinkOps(c)[5] = Op("arr", StringClass) /\ LinkOps(c)[6] = Op("obj", StringClass)
           /\ LinkOps(c)[7] = Op("linked", c) /\ LinkOps(c)[8] = Op("unlock", c)
           /\ \A i \in 1..8 : i \notin {2, 4, 7} =>
                 LinkOps(c)[i].do \in {"load", "arr", "obj", "unlock"}
<1> DEFINE a == <<Op("load", StringClass), Op("create", StringClass)>>
           b == Text
           d == <<Op("linked", c), Op("unlock", c)>>
<1>1. \A k \in Kinds, n \in Names : Op(k, n) \in Ops
  BY DEF Op, Ops
<1>2. StringClass \in Names /\ {"load", "create", "arr", "obj", "linked", "unlock"} \subseteq Kinds
  BY ClassSpaceAssumption DEF Kinds
<1>3. /\ a \in Seq(Ops) /\ Len(a) = 2
      /\ a[1] = Op("load", StringClass) /\ a[2] = Op("create", StringClass)
  BY <1>1, <1>2
<1>4. /\ b \in Seq(Ops) /\ Len(b) = 4
      /\ b[1] = Op("load", StringClass) /\ b[2] = Op("create", StringClass)
      /\ b[3] = Op("arr", StringClass) /\ b[4] = Op("obj", StringClass)
  BY <1>1, <1>2 DEF Text
<1>5. /\ d \in Seq(Ops) /\ Len(d) = 2
      /\ d[1] = Op("linked", c) /\ d[2] = Op("unlock", c)
  BY <1>1, <1>2
<1> HIDE DEF a, b, d
<1>6. /\ a \o b \in Seq(Ops) /\ Len(a \o b) = 6
      /\ \A i \in 1..6 : (a \o b)[i] = IF i <= 2 THEN a[i] ELSE b[i - 2]
  <2>1. a \in Seq(Ops) /\ b \in Seq(Ops)
    BY <1>3, <1>4
  <2>2. /\ a \o b \in Seq(Ops) /\ Len(a \o b) = Len(a) + Len(b)
        /\ \A i \in 1..(Len(a) + Len(b)) : (a \o b)[i] =
              IF i <= Len(a) THEN a[i] ELSE b[i - Len(a)]
    BY <2>1, ConcatProperties
  <2> QED
    BY <1>3, <1>4, <2>2
<1> DEFINE e == a \o b
           r == e \o d
<1> HIDE DEF e
<1>7. /\ r \in Seq(Ops) /\ Len(r) = 8
      /\ \A i \in 1..8 : r[i] = IF i <= 6 THEN e[i] ELSE d[i - 6]
  <2>1. e \in Seq(Ops) /\ Len(e) = 6 /\ d \in Seq(Ops)
    BY <1>5, <1>6 DEF e
  <2>2. /\ e \o d \in Seq(Ops) /\ Len(e \o d) = Len(e) + Len(d)
        /\ \A i \in 1..(Len(e) + Len(d)) : (e \o d)[i] =
              IF i <= Len(e) THEN e[i] ELSE d[i - Len(e)]
    BY <2>1, ConcatProperties
  <2> QED
    BY <1>5, <2>1, <2>2
<1> HIDE DEF r
<1>8. \A i \in 1..6 : r[i] = IF i <= 2 THEN a[i] ELSE b[i - 2]
  <2>1. \A i \in 1..6 : r[i] = e[i]
    BY <1>7
  <2> QED
    BY <1>6, <2>1 DEF e
<1>9. DOMAIN r = 1..8
  BY <1>7, LenProperties
<1>10. /\ r[1] = a[1] /\ r[2] = a[2] /\ r[3] = b[1] /\ r[4] = b[2] /\ r[5] = b[3]
       /\ r[6] = b[4] /\ r[7] = d[1] /\ r[8] = d[2]
  BY <1>7, <1>8
<1>11. LinkOps(c) = r
  BY DEF LinkOps, r, e, a, b, d
<1>12. /\ r[1] = Op("load", StringClass) /\ r[2] = Op("create", StringClass)
       /\ r[3] = Op("load", StringClass) /\ r[4] = Op("create", StringClass)
       /\ r[5] = Op("arr", StringClass) /\ r[6] = Op("obj", StringClass)
       /\ r[7] = Op("linked", c) /\ r[8] = Op("unlock", c)
  BY <1>3, <1>4, <1>5, <1>10
<1>13. /\ r[1].do = "load" /\ r[3].do = "load" /\ r[5].do = "arr" /\ r[6].do = "obj"
       /\ r[8].do = "unlock"
  BY <1>12 DEF Op
<1>14. \A i \in 1..8 : i \notin {2, 4, 7} => i \in {1, 3, 5, 6, 8}
  OBVIOUS
<1> QED
  BY <1>7, <1>9, <1>11, <1>12, <1>13, <1>14

LEMMA LinkOpsDo ==
    ASSUME NEW c \in Names
    PROVE  /\ LinkOps(c) \in Seq(Ops)
           /\ \A i \in DOMAIN LinkOps(c) :
                 /\ LinkOps(c)[i].do \in {"load", "create", "arr", "obj", "linked", "unlock"}
                 /\ LinkOps(c)[i].do = "linked" => LinkOps(c)[i].cls = c
<1>1. /\ LinkOps(c)[2].do = "create" /\ LinkOps(c)[4].do = "create"
      /\ LinkOps(c)[7].do = "linked" /\ LinkOps(c)[7].cls = c
  <2>1. \A k \in Kinds, n \in Names : Op(k, n).do = k /\ Op(k, n).cls = n
    BY DEF Op
  <2>2. StringClass \in Names /\ {"create", "linked"} \subseteq Kinds
    BY ClassSpaceAssumption DEF Kinds
  <2> QED
    BY <2>1, <2>2, LinkOpsAre
<1> QED
  BY <1>1, LinkOpsAre

LEMMA ArrayOps ==
    ASSUME NEW c \in Names, NEW elements \in {<<>>, <<Op("create", c)>>}
    PROVE  /\ elements \o <<Op("arrEnd", c)>> \in Seq(Ops)
           /\ \A i \in DOMAIN (elements \o <<Op("arrEnd", c)>>) :
                 (elements \o <<Op("arrEnd", c)>>)[i] \in {Op("create", c), Op("arrEnd", c)}
<1>1. Op("create", c) \in Ops /\ Op("arrEnd", c) \in Ops
  BY DEF Op, Ops, Kinds
<1> DEFINE b == <<Op("arrEnd", c)>>
<1>2. b \in Seq(Ops) /\ Len(b) = 1 /\ b[1] = Op("arrEnd", c)
  BY <1>1
<1>3. /\ elements \in Seq(Ops) /\ Len(elements) \in {0, 1}
      /\ Len(elements) = 1 => elements[1] = Op("create", c)
  <2>1. CASE elements = <<>>
    BY <2>1, EmptySeq
  <2>2. CASE elements = <<Op("create", c)>>
    BY <1>1, <2>2
  <2> QED
    BY <2>1, <2>2
<1> HIDE DEF b
<1>4. /\ elements \o b \in Seq(Ops) /\ Len(elements \o b) = Len(elements) + 1
      /\ \A i \in 1..(Len(elements) + 1) : (elements \o b)[i] =
            IF i <= Len(elements) THEN elements[i] ELSE b[i - Len(elements)]
  BY <1>2, <1>3, ConcatProperties
<1>5. DOMAIN (elements \o b) = 1..(Len(elements) + 1)
  BY <1>4, LenProperties
<1>6. ASSUME NEW i \in DOMAIN (elements \o b)
      PROVE  (elements \o b)[i] \in {Op("create", c), Op("arrEnd", c)}
  <2>1. CASE i <= Len(elements)
    <3>0. Len(elements) \in {0, 1} /\ i \in 1..(Len(elements) + 1)
      BY <1>3, <1>5
    <3>2. \A n \in {0, 1} : \A j \in 1..(n + 1) : j <= n => j = 1 /\ n = 1
      OBVIOUS
    <3>1. i = 1 /\ Len(elements) = 1
      BY <2>1, <3>0, <3>2
    <3> QED
      BY <1>3, <1>4, <1>5, <2>1, <3>1
  <2>2. CASE ~(i <= Len(elements))
    <3>1. i - Len(elements) = 1
      BY <1>3, <1>5, <2>2
    <3> QED
      BY <1>2, <1>4, <1>5, <2>2, <3>1
  <2> QED
    BY <2>1, <2>2
<1> QED
  BY <1>4, <1>6 DEF b

\* Of the ends of guards, an initializer has its own.
LEMMA InitOpsEnds ==
    ASSUME NEW c \in Names
    PROVE  Unguarded(InitOps(c), "obj") /\ Unguarded(InitOps(c), "arr")
<1> DEFINE s1 == Initializers[c]
           s2 == <<Op("poll", c), Op("leave", c)>>
<1>1. s1 \in Seq(Ops) /\ IsCode(s1, {c})
  BY ClassSpaceAssumption
<1>2. Op("poll", c) \in Ops /\ Op("leave", c) \in Ops
  BY DEF Op, Ops, Kinds
<1>3. s2 \in Seq(Ops) /\ Len(s2) = 2 /\ s2[1].do = "poll" /\ s2[2].do = "leave"
  BY <1>2, ShortSeqs DEF Op
<1> HIDE DEF s1, s2
<1>4. /\ s1 \o s2 \in Seq(Ops) /\ Len(s1 \o s2) = Len(s1) + Len(s2)
      /\ \A i \in 1..(Len(s1) + Len(s2)) : (s1 \o s2)[i] =
            IF i <= Len(s1) THEN s1[i] ELSE s2[i - Len(s1)]
  <2>1. s1 \in Seq(Ops) /\ s2 \in Seq(Ops)
    BY <1>1, <1>3
  <2> QED
    BY <2>1, ConcatProperties
<1>5. DOMAIN (s1 \o s2) = 1..(Len(s1) + 2) /\ DOMAIN s1 = 1..Len(s1) /\ Len(s1) \in Nat
  BY <1>1, <1>3, <1>4, LenProperties
<1>6. ASSUME NEW i \in DOMAIN (s1 \o s2) PROVE (s1 \o s2)[i].do \notin {"objEnd", "arrEnd"}
  <2>1. CASE i <= Len(s1)
    BY <2>1, <1>1, <1>4, <1>5 DEF IsCode
  <2>2. CASE ~(i <= Len(s1))
    <3>1. i - Len(s1) \in {1, 2}
      BY <2>2, <1>5
    <3> QED
      BY <2>2, <3>1, <1>3, <1>4, <1>5
  <2> QED
    BY <2>1, <2>2
<1> QED
  BY <1>6 DEF Unguarded, InitOps, EndsOf, s1, s2

\* The operations that a class's own file and initializer give rise to.
LEMMA OpsOf ==
    ASSUME TypeOK, NEW c \in Names
    PROVE  /\ File(c).super \in Names \cup {NoClass} /\ File(c).name \in Names
           /\ \A k \in Kinds : Op(k, c) \in Ops
           /\ <<>> \in Seq(Ops)
           /\ SuperOps(c) \in Seq(Ops) /\ InitOps(c) \in Seq(Ops)
<1>1. File(c).super \in Names \cup {NoClass} /\ File(c).name \in Names
  BY ClassSpaceAssumption DEF File, IsFile, TypeOK
<1>2. \A k \in Kinds, d \in Names \cup {NoClass} : Op(k, d) \in Ops
  BY DEF Op, Ops
<1>3. {"load", "unlock", "poll", "leave"} \subseteq Kinds
  BY DEF Kinds
<1>4. SuperOps(c) \in Seq(Ops)
  <2>1. Op("load", File(c).super) \in Ops /\ Op("unlock", c) \in Ops
    BY <1>1, <1>2, <1>3
  <2>2. <<>> \in Seq(Ops) /\ <<Op("load", File(c).super), Op("unlock", c)>> \in Seq(Ops)
    BY <2>1, ShortSeqs
  <2> QED
    BY <2>2 DEF SuperOps
<1>5. InitOps(c) \in Seq(Ops)
  <2>1. Op("poll", c) \in Ops /\ Op("leave", c) \in Ops
    BY <1>2, <1>3
  <2>2. <<Op("poll", c), Op("leave", c)>> \in Seq(Ops)
    BY <2>1, ShortSeqs
  <2>3. Initializers[c] \in Seq(Ops)
    BY ClassSpaceAssumption
  <2> QED
    BY <2>2, <2>3, ConcatProperties DEF InitOps
<1>6. <<>> \in Seq(Ops)
  BY EmptySeq
<1> QED
  BY <1>1, <1>2, <1>4, <1>5, <1>6

LEMMA LinkedNextOps ==
    ASSUME TypeOK, NEW c \in Names
    PROVE  LinkedNext(SuperOps(c)) /\ LinkedNext(InitOps(c))
<1>1. LinkedNext(SuperOps(c))
  BY DEF SuperOps, LinkedNext, Op
<1>2. LinkedNext(InitOps(c))
  <2> DEFINE s1 == Initializers[c]
             s2 == <<Op("poll", c), Op("leave", c)>>
  <2>1. s1 \in Seq(Ops) /\ IsCode(s1, {c})
    BY ClassSpaceAssumption
  <2>2. Op("poll", c) \in Ops /\ Op("leave", c) \in Ops
    BY DEF Op, Ops, Kinds
  <2>3. s2 \in Seq(Ops) /\ Len(s2) = 2 /\ s2[1].do = "poll" /\ s2[2].do = "leave"
    BY <2>2, ShortSeqs DEF Op
  <2> HIDE DEF s1, s2
  <2>0. s1 \in Seq(Ops) /\ s2 \in Seq(Ops)
    BY <2>1, <2>3
  <2>4. /\ s1 \o s2 \in Seq(Ops) /\ Len(s1 \o s2) = Len(s1) + Len(s2)
        /\ \A i \in 1..(Len(s1) + Len(s2)) : (s1 \o s2)[i] =
              IF i <= Len(s1) THEN s1[i] ELSE s2[i - Len(s1)]
    BY <2>0, ConcatProperties
  <2>5. DOMAIN (s1 \o s2) = 1..(Len(s1) + 2) /\ DOMAIN s1 = 1..Len(s1) /\ Len(s1) \in Nat
    BY <2>1, <2>3, <2>4, LenProperties
  <2>6. ASSUME NEW i \in DOMAIN (s1 \o s2) PROVE (s1 \o s2)[i].do # "linked"
    <3>1. CASE i <= Len(s1)
      BY <3>1, <2>1, <2>4, <2>5 DEF IsCode
    <3>2. CASE ~(i <= Len(s1))
      <4>1. i - Len(s1) \in {1, 2}
        BY <3>2, <2>5
      <4> QED
        BY <3>2, <4>1, <2>3, <2>4, <2>5
    <3> QED
      BY <3>1, <3>2
  <2> QED
    BY <2>6 DEF LinkedNext, InitOps, s1, s2
<1> QED
  BY <1>1, <1>2

-----------------------------------------------------------------------------
(* Types and the mutex.                                                    *)

\* A thread that goes on with ops keeps each mutex exclusive: it has the mutex, or takes
\* nothing.
LEMMA Exclusive ==
    ASSUME TypeOK, NEW t \in Threads, NEW ops, Moves(t, ops), May(t, ops)
    PROVE  /\ cont' \in [Threads -> Seq(Ops)]
           /\ \A m \in Mutexes, u, v \in Threads : Holds(u, m)' /\ Holds(v, m)' => u = v
<1>1. /\ cont[t] \in Seq(Ops) /\ cont[t] # <<>> /\ ops \in Seq(Ops)
      /\ cont' = [cont EXCEPT ![t] = ops \o Tail(cont[t])]
  BY DEF Moves, Instead, TypeOK
<1>2. cont' \in [Threads -> Seq(Ops)] /\ cont'[t] = ops \o Tail(cont[t])
      /\ \A u \in Threads \ {t} : cont'[u] = cont[u]
  BY <1>1, Spliced DEF TypeOK
<1> SUFFICES ASSUME NEW m \in Mutexes
             PROVE  \A u, v \in Threads : Holds(u, m)' /\ Holds(v, m)' => u = v
  BY <1>2
<1>3. \A u \in Threads \ {t} : Holds(u, m)' => Holds(u, m)
  BY <1>2 DEF Holds
<1>4. CASE Gets(t, m)
  BY <1>2, <1>3, <1>4 DEF Gets
<1>5. CASE Unguarded(ops, m)
  <2>1. ASSUME Holds(t, m)' PROVE Holds(t, m)
    <3>1. PICK i \in DOMAIN (ops \o Tail(cont[t])) :
             (ops \o Tail(cont[t]))[i].do \in EndsOf[m]
      BY <1>2, <2>1 DEF Holds
    <3>2. \/ i \in DOMAIN ops /\ (ops \o Tail(cont[t]))[i] = ops[i]
          \/ \E k \in DOMAIN cont[t] : (ops \o Tail(cont[t]))[i] = cont[t][k]
      BY <1>1, Origin
    <3> QED
      BY <1>5, <3>1, <3>2 DEF Unguarded, Holds
  <2> QED
    BY <1>2, <1>3, <2>1 DEF TypeOK
<1> QED
  BY <1>4, <1>5 DEF May

\* What a step of thread t does to what it has yet to do.
LEMMA Shapes ==
    ASSUME TypeOK, NEW t \in Threads, NEW c \in Names, Step(t, c)
    PROVE  /\ t \notin arrived /\ cont[t] # <<>>
           /\ \/ cont' = cont
              \/ cont' = [cont EXCEPT ![t] = <<>>]
              \/ \E ops : /\ Moves(t, ops) /\ LinkedNext(ops)
                          /\ May(t, ops)
                          /\ NoUse(ops) \/ InitClass(t, c)
           /\ \/ arrived' = arrived
              \/ arrived' = arrived \cup {t} /\ cont' = cont /\ Head(cont[t]).do = "poll"
<1>1. <<>> \in Seq(Ops) /\ SuperOps(c) \in Seq(Ops) /\ InitOps(c) \in Seq(Ops)
      /\ \A k \in Kinds : Op(k, c) \in Ops
  BY OpsOf
<1>2. May(t, <<>>) /\ LinkedNext(<<>>) /\ NoUse(<<>>)
  BY DEF May, Unguarded, LinkedNext, NoUse
<1>0. LinkedNext(SuperOps(c)) /\ LinkedNext(InitOps(c)) /\ NoUse(SuperOps(c))
  BY LinkedNextOps DEF SuperOps, NoUse, Op
<1>00. Unguarded(SuperOps(c), "obj") /\ Unguarded(SuperOps(c), "arr")
       /\ Unguarded(InitOps(c), "obj") /\ Unguarded(InitOps(c), "arr")
  BY InitOpsEnds DEF SuperOps, Unguarded, Op, EndsOf
<1> DEFINE Moved == /\ t \notin arrived /\ cont[t] # <<>> /\ arrived' = arrived
                    /\ \E ops : /\ Moves(t, ops) /\ LinkedNext(ops)
                                /\ May(t, ops)
                                /\ NoUse(ops) \/ InitClass(t, c)
           Still == t \notin arrived /\ cont[t] # <<>> /\ arrived' = arrived /\ cont' = cont
<1>3. ASSUME LoadNothing(t, c) PROVE Moved
  BY <1>1, <1>2, <1>3 DEF LoadNothing, Next1, Done, Moves, Safepoints
<1>4. ASSUME LoadParsed(t, c) PROVE Moved
  BY <1>0, <1>00, <1>1, <1>4 DEF LoadParsed, Next1, Moves, Safepoints, May, Mutexes
<1>5. ASSUME LoadThrows(t, c)
      PROVE  /\ t \notin arrived /\ cont[t] # <<>> /\ arrived' = arrived
             /\ cont' = [cont EXCEPT ![t] = <<>>]
  BY <1>5 DEF LoadThrows, Next1, Safepoints
<1>6. ASSUME LoadDies(t, c) PROVE Still
  BY <1>6 DEF LoadDies, Die, Next1
<1>7. ASSUME LinkNothing(t, c) PROVE Moved
  BY <1>1, <1>2, <1>7 DEF LinkNothing, Next1, Done, Moves, Safepoints
<1>8. ASSUME LinkNull(t, c) PROVE Still
  BY <1>8 DEF LinkNull, Die, Next1
<1>9. ASSUME LinkText(t, c) PROVE Moved
  <2>0. /\ LinkOps(c) \in Seq(Ops)
        /\ \A i \in DOMAIN LinkOps(c) :
              /\ LinkOps(c)[i].do \in {"load", "create", "arr", "obj", "linked", "unlock"}
              /\ LinkOps(c)[i].do = "linked" => LinkOps(c)[i].cls = c
    BY LinkOpsDo
  <2>1. NoUse(LinkOps(c)) /\ Unguarded(LinkOps(c), "obj") /\ Unguarded(LinkOps(c), "arr")
    BY <2>0 DEF NoUse, Unguarded, EndsOf
  <2>2. LinkedNext(LinkOps(c))
    BY <1>9, <2>0 DEF LinkedNext, LinkText
  <2>3. Moves(t, LinkOps(c)) /\ Gets(t, "ma")
    BY <1>9, <2>0 DEF LinkText, Next1, Moves, LinkOps
  <2> QED
    BY <1>9, <2>1, <2>2, <2>3 DEF LinkText, Next1, Safepoints, May, Mutexes
<1>10. ASSUME Link(t, c) PROVE Moved
  BY <1>1, <1>2, <1>10 DEF Link, Next1, Done, Moves, Safepoints
<1>11. ASSUME InitNothing(t, c) PROVE Moved
  BY <1>1, <1>2, <1>11 DEF InitNothing, Next1, Done, Moves, Safepoints
<1>12. ASSUME InitClass(t, c) PROVE Moved
  <2> DEFINE ops == IF FileOf(c).clinit THEN InitOps(c) ELSE <<>>
  <2>1. ops \in Seq(Ops) /\ LinkedNext(ops)
    BY <1>0, <1>1, <1>2
  <2>2. Unguarded(ops, "obj") /\ Unguarded(ops, "arr")
    BY <1>00 DEF Unguarded
  <2>3. Moves(t, ops) /\ May(t, ops)
    BY <1>12, <2>1, <2>2 DEF InitClass, Next1, Moves, May, Mutexes
  <2> QED
    BY <1>12, <2>1, <2>3 DEF InitClass, Next1, Safepoints
<1>13. ASSUME Unlock(t, c) PROVE Moved
  BY <1>1, <1>2, <1>13 DEF Unlock, Next1, Done, Moves, Safepoints
<1>14. ASSUME AccessOwn(t, c) PROVE Moved \/ Still
  BY <1>1, <1>2, <1>14 DEF AccessOwn, Next1, Done, Moves, Safepoints, Die
<1>15. ASSUME AccessSuper(t, c) PROVE Moved
  <2>1. CASE Done(t)
    BY <1>1, <1>2, <1>15, <2>1 DEF AccessSuper, Next1, Done, Moves, Safepoints
  <2>2. CASE ~Done(t)
    <3> DEFINE op == [do |-> "inherited", cls |-> FileOf(c).super, field |-> Head(cont[t]).field]
    <3>1. FileOf(c).super \in Names \cup {NoClass}
      BY <1>15, OpsOf DEF AccessSuper, Loaded, FileOf, TypeOK
    <3>2. Head(cont[t]) \in Ops
      BY <1>15, HeadTailProperties DEF AccessSuper, Next1, TypeOK
    <3>3. op \in Ops
      BY <3>1, <3>2 DEF Ops, Kinds
    <3>4. <<op>> \in Seq(Ops)
      BY <3>3, ShortSeqs
    <3>5. Instead(t, <<op>>) /\ May(t, <<op>>) /\ LinkedNext(<<op>>) /\ NoUse(<<op>>)
      BY <1>15, <2>2 DEF AccessSuper, LinkedNext, NoUse, May, Unguarded, Mutexes, EndsOf
    <3> QED
      BY <1>15, <3>4, <3>5 DEF AccessSuper, Next1, Moves, Safepoints
  <2> QED
    BY <2>1, <2>2
<1>16. ASSUME FindThere(t, c) \/ UseHeap(t, c) PROVE Moved
  BY <1>1, <1>2, <1>16 DEF FindThere, UseHeap, Next1, Done, Moves, Safepoints
<1>19. ASSUME UseObject(t, c) PROVE Moved
  <2> DEFINE op  == [Head(cont[t]) EXCEPT !.do = "walk"]
             ops == <<op, Op("objEnd", c)>>
  <2>1. Head(cont[t]) \in Ops /\ cont[t] # <<>>
    BY <1>19, HeadTailProperties DEF UseObject, Next1, TypeOK
  <2>2. op \in Ops /\ op.do = "walk" /\ Op("objEnd", c) \in Ops
    BY <1>1, <2>1 DEF Ops, Kinds
  <2> HIDE DEF op
  <2>3. ops \in Seq(Ops) /\ LinkedNext(ops) /\ NoUse(ops)
    BY <2>2, ShortSeqs DEF LinkedNext, NoUse, Op
  <2>4. Unguarded(ops, "ma") /\ Unguarded(ops, "arr")
    BY <2>2 DEF Unguarded, EndsOf, Op
  <2>5. Moves(t, ops) /\ May(t, ops)
    BY <1>19, <2>1, <2>3, <2>4 DEF UseObject, Moves, May, Mutexes, op
  <2> QED
    BY <1>19, <2>1, <2>3, <2>5 DEF UseObject, Next1, Safepoints
<1>20. ASSUME Walk(t, c) PROVE Moved
  <2>1. CASE Done(t)
    BY <1>1, <1>2, <1>20, <2>1 DEF Walk, Next1, Done, Moves, Safepoints
  <2>2. CASE ~Done(t)
    <3> DEFINE op == [Head(cont[t]) EXCEPT !.cls = FileOf(c).super]
    <3>1. FileOf(c).super \in Names \cup {NoClass}
      BY <1>20, OpsOf DEF Walk, Loaded, FileOf, TypeOK
    <3>2. Head(cont[t]) \in Ops /\ cont[t] # <<>> /\ Head(cont[t]).do = "walk"
      BY <1>20, HeadTailProperties DEF Walk, Next1, TypeOK
    <3>3. op \in Ops /\ op.do = "walk"
      BY <3>1, <3>2 DEF Ops
    <3>4. Instead(t, <<op>>)
      BY <1>20, <2>2 DEF Walk
    <3> HIDE DEF op
    <3>5. <<op>> \in Seq(Ops) /\ LinkedNext(<<op>>) /\ NoUse(<<op>>) /\ May(t, <<op>>)
      BY <3>3, ShortSeqs DEF LinkedNext, NoUse, May, Unguarded, Mutexes, EndsOf
    <3> QED
      BY <1>20, <3>2, <3>4, <3>5 DEF Walk, Next1, Moves, Safepoints
  <2> QED
    BY <2>1, <2>2
<1>21. ASSUME CreateArray(t, c) PROVE Moved
  <2>1. PICK elements \in {<<>>, <<Op("create", c)>>} :
               Instead(t, elements \o <<Op("arrEnd", c)>>)
    BY <1>21 DEF CreateArray
  <2> DEFINE ops == elements \o <<Op("arrEnd", c)>>
  <2>2. ops \in Seq(Ops) /\ \A i \in DOMAIN ops : ops[i] \in {Op("create", c), Op("arrEnd", c)}
    BY ArrayOps
  <2>3. Instead(t, ops)
    BY <2>1
  <2> HIDE DEF ops
  <2>4. LinkedNext(ops) /\ NoUse(ops) /\ Unguarded(ops, "ma") /\ Unguarded(ops, "obj")
    BY <2>2 DEF LinkedNext, NoUse, Unguarded, EndsOf, Op
  <2> QED
    BY <1>21, <2>2, <2>3, <2>4 DEF CreateArray, Next1, Moves, May, Mutexes, Safepoints
<1>17. ASSUME UseNull(t, c) PROVE Still
  BY <1>17 DEF UseNull, Die, Next1
<1>18. ASSUME Poll(t, c)
       PROVE  \/ Moved
              \/ /\ t \notin arrived /\ cont[t] # <<>>
                 /\ arrived' = arrived \cup {t} /\ cont' = cont /\ Head(cont[t]).do = "poll"
  BY <1>1, <1>2, <1>18 DEF Poll, Next1, Done, Moves
<1> QED
  BY <1>3, <1>4, <1>5, <1>6, <1>7, <1>8, <1>9, <1>10, <1>11, <1>12, <1>13, <1>14, <1>15,
     <1>16, <1>17, <1>18, <1>19, <1>20, <1>21 DEF Step

LEMMA TypeInit == Init => TypeInv
<1> SUFFICES ASSUME Init PROVE TypeInv
  OBVIOUS
<1>1. cont \in [Threads -> Seq(Ops)]
  BY ClassSpaceAssumption DEF Init
<1>2. \A t \in Threads : IsCode(cont[t], {})
  BY ClassSpaceAssumption DEF Init
<1>3. \A m \in Mutexes, t \in Threads : ~Holds(t, m)
  BY <1>2 DEF Holds, IsCode, EndsOf, Mutexes
<1>4. LinksLoaded
  BY <1>2 DEF LinksLoaded, LinkedNext, IsCode
<1>5. classTable \in [Names -> Names \cup {NoClass}] /\ 0 \in 0..MaxRequests
  BY ClassSpaceAssumption DEF Init
<1>6. TypeOK
  BY <1>1, <1>3, <1>5 DEF Init, TypeOK
<1> QED
  BY <1>4, <1>6 DEF Init, TypeInv, ArrivedPolls

\* The variables that are not about threads.
SimpleTypes ==
    /\ path \in Paths
    /\ classTable \in [Names -> Names \cup {NoClass}]
    /\ linked \subseteq Names /\ inited \subseteq Names
    /\ staticVars \subseteq Names \X Fields
    /\ process \in {"runs", "parser", "null", "static"}
    /\ shallGC \in BOOLEAN /\ requests \in 0..MaxRequests

LEMMA SimpleStep ==
    ASSUME TypeOK, LinksLoaded, NEW t \in Threads, NEW c \in Names, Step(t, c)
    PROVE  SimpleTypes'
<1> USE DEF TypeOK, SimpleTypes, Safepoints, Die
<1>1. CASE LoadNothing(t, c) \/ LoadThrows(t, c) \/ LoadDies(t, c)
  BY <1>1 DEF LoadNothing, LoadThrows, LoadDies
<1>2. CASE LoadParsed(t, c)
  <2>1. File(c).name \in Names
    BY OpsOf
  <2> QED
    BY <1>2, <2>1 DEF LoadParsed
<1>3. CASE LinkNothing(t, c) \/ LinkNull(t, c) \/ LinkText(t, c)
  BY <1>3 DEF LinkNothing, LinkNull, LinkText
<1>4. CASE Link(t, c)
  <2>1. FileOf(c).statics \subseteq Fields \/ ~Loaded(c)
    BY ClassSpaceAssumption DEF FileOf, File, Loaded, IsFile
  <2>2. linked' = linked \cup {c} /\ staticVars' = staticVars \cup ({c} \X FileOf(c).statics)
    BY <1>4 DEF Link, Linked
  <2>3. ASSUME Next1(t, "linked", c) PROVE Loaded(c)
    <3>1. cont[t] \in Seq(Ops) /\ cont[t] # <<>>
      BY <2>3 DEF Next1
    <3>2. 1 \in DOMAIN cont[t] /\ Head(cont[t]) = cont[t][1]
      BY <3>1, EmptySeq, LenProperties
    <3> QED
      BY <2>3, <3>2 DEF Next1, LinksLoaded, LinkedNext
  <2> QED
    BY <1>4, <2>1, <2>2, <2>3 DEF Link
<1>5. CASE InitNothing(t, c) \/ InitClass(t, c) \/ Unlock(t, c)
  BY <1>5 DEF InitNothing, InitClass, Unlock
<1>6. CASE AccessOwn(t, c) \/ AccessSuper(t, c) \/ FindThere(t, c) \/ UseNull(t, c)
           \/ UseObject(t, c) \/ Walk(t, c) \/ CreateArray(t, c) \/ UseHeap(t, c)
  BY <1>6 DEF AccessOwn, AccessSuper, FindThere, UseObject,
     Walk, CreateArray, UseHeap, UseNull
<1>7. CASE Poll(t, c)
  BY <1>7 DEF Poll
<1> QED
  BY <1>1, <1>2, <1>3, <1>4, <1>5, <1>6, <1>7 DEF Step

LEMMA TableGrows ==
    ASSUME TypeOK, NEW t \in Threads, NEW c \in Names, Step(t, c)
    PROVE  \A n \in Names : Loaded(n) => classTable'[n] = classTable[n]
<1> USE DEF Safepoints, Die
<1>1. CASE LoadParsed(t, c)
  BY <1>1 DEF LoadParsed, Loaded, TypeOK
<1>2. CASE ~LoadParsed(t, c)
  <2>1. classTable' = classTable
    BY <1>2 DEF Step, LoadNothing, LoadThrows, LoadDies, LinkNothing, LinkNull, LinkText, Link,
       InitNothing, InitClass, Unlock, AccessOwn, AccessSuper, FindThere, UseObject,
     Walk, CreateArray, UseHeap, UseNull, Poll
  <2> QED
    BY <2>1
<1> QED
  BY <1>1, <1>2

\* Every operation of a thread that moves on was there before or is one of ops.
LEMMA Elements ==
    ASSUME TypeOK, NEW t \in Threads, NEW ops, Moves(t, ops),
           NEW u \in Threads, NEW i \in DOMAIN cont'[u]
    PROVE  \/ \E k \in DOMAIN cont[u] : cont'[u][i] = cont[u][k]
           \/ u = t /\ \E k \in DOMAIN ops : cont'[u][i] = ops[k]
<1>1. /\ cont[t] \in Seq(Ops) /\ cont[t] # <<>> /\ ops \in Seq(Ops)
      /\ cont' = [cont EXCEPT ![t] = ops \o Tail(cont[t])]
  BY DEF Moves, Instead, TypeOK
<1>2. cont'[t] = ops \o Tail(cont[t]) /\ \A v \in Threads \ {t} : cont'[v] = cont[v]
  BY <1>1 DEF TypeOK
<1>3. CASE u = t
  <2>1. i \in DOMAIN (ops \o Tail(cont[t]))
    BY <1>2, <1>3
  <2>2. \/ i \in DOMAIN ops /\ (ops \o Tail(cont[t]))[i] = ops[i]
        \/ \E k \in DOMAIN cont[t] : /\ k # 1 /\ i = k - 1 + Len(ops)
                                     /\ (ops \o Tail(cont[t]))[i] = cont[t][k]
    BY <1>1, <2>1, Origin
  <2> QED
    BY <1>2, <1>3, <2>2
<1> QED
  BY <1>2, <1>3

LEMMA StepTypes ==
    ASSUME TypeInv, NEW t \in Threads, NEW c \in Names, Step(t, c)
    PROVE  TypeInv'
<1> USE DEF TypeInv
<1>1. SimpleTypes' /\ \A n \in Names : Loaded(n) => Loaded(n)'
  BY SimpleStep, TableGrows DEF Loaded
<1>2. arrived' \subseteq Threads
  BY Shapes DEF TypeOK
<1>3. CASE cont' = cont
  <2>1. ArrivedPolls'
    BY <1>3, Shapes DEF ArrivedPolls
  <2>2. LinksLoaded'
    BY <1>1, <1>3 DEF LinksLoaded, LinkedNext
  <2>3. \A m \in Mutexes, u \in Threads : Holds(u, m)' <=> Holds(u, m)
    BY <1>3 DEF Holds
  <2> QED
    BY <1>1, <1>2, <1>3, <2>1, <2>2, <2>3 DEF TypeOK, SimpleTypes
<1>4. CASE cont' = [cont EXCEPT ![t] = <<>>] /\ cont' # cont
  <2>1. cont' \in [Threads -> Seq(Ops)] /\ cont'[t] = <<>>
        /\ \A u \in Threads \ {t} : cont'[u] = cont[u]
    BY <1>4, EmptySeq DEF TypeOK
  <2>2. ArrivedPolls'
    BY <1>4, <2>1, Shapes DEF ArrivedPolls, TypeOK
  <2>3. \A m \in Mutexes, u \in Threads : Holds(u, m)' => Holds(u, m)
    BY <2>1 DEF Holds
  <2>4. LinksLoaded'
    <3>1. \A u \in Threads : \A i \in DOMAIN cont'[u] : cont'[u] = cont[u]
      BY <2>1
    <3> QED
      BY <1>1, <3>1 DEF LinksLoaded, LinkedNext
  <2> QED
    BY <1>1, <1>2, <2>1, <2>2, <2>3, <2>4 DEF TypeOK, SimpleTypes
<1>5. ASSUME NEW ops, Moves(t, ops), LinkedNext(ops), May(t, ops), cont' # cont
      PROVE  TypeInv'
  <2>1. /\ cont' \in [Threads -> Seq(Ops)]
        /\ \A m \in Mutexes, u, v \in Threads : Holds(u, m)' /\ Holds(v, m)' => u = v
    BY <1>5, Exclusive
  <2>2. \A u \in Threads \ {t} : cont'[u] = cont[u]
    BY <1>5 DEF Moves, Instead, TypeOK
  <2>3. ArrivedPolls'
    BY <1>5, <2>2, Shapes DEF ArrivedPolls, TypeOK
  <2>4. LinksLoaded'
    <3> SUFFICES ASSUME NEW u \in Threads, NEW i \in DOMAIN cont'[u],
                        cont'[u][i].do = "linked"
                 PROVE  /\ cont'[u][i].cls \in Names
                        /\ classTable'[cont'[u][i].cls] # NoClass
      BY DEF LinksLoaded, LinkedNext, Loaded
    <3>1. cont'[u][i].cls \in Names /\ Loaded(cont'[u][i].cls)
      BY <1>5, Elements DEF LinksLoaded, LinkedNext
    <3> QED
      BY <3>1, TableGrows DEF Loaded
  <2> QED
    BY <1>1, <1>2, <2>1, <2>3, <2>4 DEF TypeOK, SimpleTypes
<1> QED
  BY <1>3, <1>4, <1>5, Shapes

\* Requests and collections leave no thread with more to do than it had.
LEMMA CollectMoves ==
    ASSUME TypeInv, Collect
    PROVE  /\ cont' \in [Threads -> Seq(Ops)]
           /\ \A t \in Threads : cont[t] # <<>> /\ Head(cont[t]).do = "poll"
           /\ \A t \in Threads : \A i \in DOMAIN cont'[t] :
                 \E k \in DOMAIN cont[t] : k # 1 /\ i = k - 1 /\ cont'[t][i] = cont[t][k]
<1>1. \A t \in Threads : cont[t] \in Seq(Ops) /\ cont[t] # <<>> /\ Head(cont[t]).do = "poll"
  BY DEF TypeInv, TypeOK, Collect, ArrivedPolls
<1>2. \A t \in Threads : Tail(cont[t]) \in Seq(Ops) /\ <<>> \o Tail(cont[t]) = Tail(cont[t])
  BY <1>1, HeadTailProperties, ConcatEmptySeq
<1>3. cont' = [t \in Threads |-> Tail(cont[t])]
  BY DEF Collect
<1>4. ASSUME NEW t \in Threads, NEW i \in DOMAIN cont'[t]
      PROVE  \E k \in DOMAIN cont[t] : k # 1 /\ i = k - 1 /\ cont'[t][i] = cont[t][k]
  <2>1. cont'[t] = <<>> \o Tail(cont[t]) /\ <<>> \in Seq(Ops) /\ DOMAIN <<>> = {}
    BY <1>2, <1>3, EmptySeq
  <2>2. \E k \in DOMAIN cont[t] : k # 1 /\ i = k - 1 + Len(<<>>) /\ cont'[t][i] = cont[t][k]
    BY <1>1, <1>4, <2>1, Origin
  <2>3. \A k \in DOMAIN cont[t] : k - 1 + Len(<<>>) = k - 1
    BY <1>1, <2>1, Spliced
  <2> QED
    BY <2>2, <2>3
<1> QED
  BY <1>1, <1>2, <1>3, <1>4

LEMMA TypeStep ==
    ASSUME TypeInv, [Next]_vars
    PROVE  TypeInv'
<1>1. ASSUME NEW t \in Threads, NEW c \in Names, Step(t, c) PROVE TypeInv'
  BY <1>1, StepTypes
<1>2. CASE RequestGC \/ UNCHANGED vars
  <2> USE <1>2 DEF RequestGC, vars, TypeInv, TypeOK
  <2>0. MaxRequests \in Nat
    BY ClassSpaceAssumption
  <2>1. /\ cont' = cont /\ arrived' = arrived /\ classTable' = classTable
        /\ shallGC' \in BOOLEAN
    OBVIOUS
  <2>4. requests' \in 0..MaxRequests
    BY <2>0
  <2>2. \A m \in Mutexes, t \in Threads : Holds(t, m)' <=> Holds(t, m)
    BY <2>1 DEF Holds
  <2>3. ArrivedPolls' /\ LinksLoaded'
    BY <2>1 DEF ArrivedPolls, LinksLoaded, LinkedNext, Loaded
  <2> QED
    BY <2>1, <2>2, <2>3, <2>4
<1>3. CASE Collect
  <2>1. \A m \in Mutexes, t \in Threads : Holds(t, m)' => Holds(t, m)
    BY <1>3, CollectMoves DEF Holds
  <2>2. LinksLoaded'
    <3> SUFFICES ASSUME NEW u \in Threads, NEW i \in DOMAIN cont'[u],
                        cont'[u][i].do = "linked"
                 PROVE  /\ cont'[u][i].cls \in Names
                        /\ classTable'[cont'[u][i].cls] # NoClass
      BY DEF LinksLoaded, LinkedNext, Loaded
    <3>1. \E k \in DOMAIN cont[u] : cont'[u][i] = cont[u][k]
      BY <1>3, CollectMoves
    <3> QED
      BY <1>3, <3>1 DEF LinksLoaded, LinkedNext, Loaded, TypeInv, Collect
  <2>3. ArrivedPolls'
    BY <1>3 DEF Collect, ArrivedPolls
  <2>4. cont' \in [Threads -> Seq(Ops)]
    BY <1>3, CollectMoves
  <2>5. TypeOK'
    BY <1>3, <2>1, <2>4 DEF Collect, TypeOK, TypeInv
  <2> QED
    BY <2>2, <2>3, <2>5 DEF TypeInv
<1> QED
  BY <1>1, <1>2, <1>3 DEF Next

LEMMA TypeInvariant == Spec => []TypeInv
<1> QED
  BY TypeInit, TypeStep, PTL DEF Spec

\* ClassSpace.cpp: types; and the recursive mutex does its work: of all the threads, at
\* most one is between the beginning and the end of a lock_guard's scope, whatever
\* classes the initializers in it use.
THEOREM ClassSpaceTypeCorrect == Spec => []TypeOK
<1>1. TypeInv => TypeOK
  BY DEF TypeInv
<1> QED
  BY <1>1, TypeInvariant, PTL

-----------------------------------------------------------------------------
(* The stages of a class.                                                  *)

\* Each operation of that kind in s is on a class in done, or comes after one of the
\* kinds `before` on the same class.
Covered(s, kind, before, done) ==
    \A i \in DOMAIN s : s[i].do = kind =>
        \/ s[i].cls \in done
        \/ \E j \in 1..(i - 1) : s[j].do \in before /\ s[j].cls = s[i].cls

LEMMA CoveredSplice ==
    ASSUME NEW s \in Seq(Ops), s # <<>>, NEW ops \in Seq(Ops),
           NEW kind, NEW before, NEW done, NEW done2, done \subseteq done2,
           Covered(s, kind, before, done), Covered(ops, kind, before, done2),
           Head(s).do \in before =>
               \/ Head(s).cls \in done2
               \/ \E j \in DOMAIN ops : ops[j].do \in before /\ ops[j].cls = Head(s).cls
    PROVE  Covered(ops \o Tail(s), kind, before, done2)
<1> DEFINE r == ops \o Tail(s)
<1> SUFFICES ASSUME NEW i \in DOMAIN r, r[i].do = kind, r[i].cls \notin done2
             PROVE  \E j \in 1..(i - 1) : r[j].do \in before /\ r[j].cls = r[i].cls
  BY DEF Covered
<1>1. /\ DOMAIN ops = 1..Len(ops) /\ DOMAIN s = 1..Len(s)
      /\ Len(ops) \in Nat /\ Len(s) \in Nat \ {0}
      /\ \A k \in 1..Len(ops) : r[k] = ops[k]
      /\ \A k \in 2..Len(s) : r[k - 1 + Len(ops)] = s[k]
      /\ Head(s) = s[1]
  BY Spliced
<1>2. \/ i \in DOMAIN ops /\ r[i] = ops[i]
      \/ \E k \in DOMAIN s : k # 1 /\ i = k - 1 + Len(ops) /\ r[i] = s[k]
  BY Origin
<1> HIDE DEF r
<1>3. CASE i \in DOMAIN ops /\ r[i] = ops[i]
  <2>1. PICK j \in 1..(i - 1) : ops[j].do \in before /\ ops[j].cls = ops[i].cls
    BY <1>3 DEF Covered
  <2>2. j \in 1..Len(ops)
    BY <1>1, <1>3
  <2> QED
    BY <1>1, <1>3, <2>1, <2>2
<1>4. ASSUME NEW k \in DOMAIN s, k # 1, i = k - 1 + Len(ops), r[i] = s[k]
      PROVE  \E j \in 1..(i - 1) : r[j].do \in before /\ r[j].cls = r[i].cls
  <2>1. PICK j \in 1..(k - 1) : s[j].do \in before /\ s[j].cls = s[k].cls
    BY <1>4 DEF Covered
  <2>2. CASE j = 1
    <3>1. PICK n \in DOMAIN ops : ops[n].do \in before /\ ops[n].cls = Head(s).cls
      BY <1>1, <1>4, <2>1, <2>2
    <3>2. n \in 1..(i - 1) /\ r[n] = ops[n]
      BY <1>1, <1>4
    <3> QED
      BY <1>1, <1>4, <2>1, <2>2, <3>1, <3>2
  <2>3. CASE j # 1
    <3> DEFINE n == j - 1 + Len(ops)
    <3>1. j \in 2..Len(s) /\ n \in 1..(i - 1)
      BY <1>1, <1>4, <2>1, <2>3
    <3>2. r[n] = s[j]
      BY <1>1, <3>1
    <3> QED
      BY <1>4, <2>1, <3>1, <3>2
  <2> QED
    BY <2>2, <2>3
<1> QED
  BY <1>2, <1>3, <1>4

LEMMA CoveredMove ==
    ASSUME TypeOK, NEW t \in Threads, NEW ops, Moves(t, ops),
           NEW kind, NEW before, NEW done, NEW done2, done \subseteq done2,
           Covered(cont[t], kind, before, done), Covered(ops, kind, before, done2),
           Head(cont[t]).do \in before =>
               \/ Head(cont[t]).cls \in done2
               \/ \E j \in DOMAIN ops : /\ ops[j].do \in before
                                        /\ ops[j].cls = Head(cont[t]).cls
    PROVE  Covered(cont'[t], kind, before, done2)
<1>1. /\ cont[t] \in Seq(Ops) /\ cont[t] # <<>> /\ ops \in Seq(Ops)
      /\ cont'[t] = ops \o Tail(cont[t])
  BY DEF Moves, Instead, TypeOK
<1>2. Covered(ops \o Tail(cont[t]), kind, before, done2)
  BY <1>1, CoveredSplice
<1> QED
  BY <1>1, <1>2

LEMMA CoveredGrows ==
    ASSUME NEW s, NEW kind, NEW before, NEW done, NEW done2, done \subseteq done2,
           Covered(s, kind, before, done)
    PROVE  Covered(s, kind, before, done2)
  BY DEF Covered

\* An initializer is code, with a poll and a leave after it.
LEMMA InitOpsCovered ==
    ASSUME NEW c \in Names, NEW done
    PROVE  /\ Covered(InitOps(c), "init", {"link", "linked"}, done)
           /\ Covered(InitOps(c), "access", {"init"}, done)
           /\ \A i \in DOMAIN InitOps(c) : InitOps(c)[i].do = "leave" =>
                 InitOps(c)[i].cls = c
<1> DEFINE s1 == Initializers[c]
           s2 == <<Op("poll", c), Op("leave", c)>>
           r == s1 \o s2
<1>1. s1 \in Seq(Ops) /\ IsCode(s1, {c})
  BY ClassSpaceAssumption
<1>2. Op("poll", c) \in Ops /\ Op("leave", c) \in Ops
  BY DEF Op, Ops, Kinds
<1>3. /\ s2 \in Seq(Ops) /\ Len(s2) = 2 /\ s2[1].do = "poll" /\ s2[2].do = "leave"
      /\ s2[2].cls = c
  BY <1>2, ShortSeqs DEF Op
<1> HIDE DEF s1, s2
<1>4. s1 \in Seq(Ops) /\ s2 \in Seq(Ops)
  BY <1>1, <1>3
<1>5. /\ r \in Seq(Ops) /\ Len(r) = Len(s1) + Len(s2)
      /\ \A i \in 1..(Len(s1) + Len(s2)) : r[i] =
            IF i <= Len(s1) THEN s1[i] ELSE s2[i - Len(s1)]
  BY <1>4, ConcatProperties
<1> HIDE DEF r
<1>6. DOMAIN r = 1..(Len(s1) + 2) /\ DOMAIN s1 = 1..Len(s1) /\ Len(s1) \in Nat
  BY <1>1, <1>3, <1>5, LenProperties
<1>7. \A i \in DOMAIN s1 : r[i] = s1[i]
  BY <1>3, <1>5, <1>6
<1>8. ASSUME NEW i \in DOMAIN r, i \notin DOMAIN s1
      PROVE  r[i].do = "poll" \/ (r[i].do = "leave" /\ r[i].cls = c)
  <2>1. i - Len(s1) \in {1, 2} /\ r[i] = s2[i - Len(s1)]
    BY <1>3, <1>5, <1>6, <1>8
  <2> QED
    BY <1>3, <2>1
<1>9. Covered(r, "init", {"link", "linked"}, done)
  <2> SUFFICES ASSUME NEW i \in DOMAIN r, r[i].do = "init"
               PROVE  \E j \in 1..(i - 1) : r[j].do = "link" /\ r[j].cls = r[i].cls
    BY DEF Covered
  <2>1. i \in DOMAIN s1 /\ r[i] = s1[i]
    BY <1>7, <1>8
  <2>2. PICK j \in 1..(i - 1) : s1[j].do = "link" /\ s1[j].cls = s1[i].cls
    BY <1>1, <2>1 DEF IsCode, Before
  <2>3. j \in DOMAIN s1
    BY <1>6, <2>1
  <2> QED
    BY <1>7, <2>1, <2>2, <2>3
<1>10. Covered(r, "access", {"init"}, done)
  <2> SUFFICES ASSUME NEW i \in DOMAIN r, r[i].do = "access"
               PROVE  \E j \in 1..(i - 1) : r[j].do = "init" /\ r[j].cls = r[i].cls
    BY DEF Covered
  <2>1. i \in DOMAIN s1 /\ r[i] = s1[i]
    BY <1>7, <1>8
  <2>2. PICK j \in 1..(i - 1) : s1[j].do = "init" /\ s1[j].cls = s1[i].cls
    BY <1>1, <2>1 DEF IsCode, Before
  <2>3. j \in DOMAIN s1
    BY <1>6, <2>1
  <2> QED
    BY <1>7, <2>1, <2>2, <2>3
<1>11. \A i \in DOMAIN r : r[i].do = "leave" => r[i].cls = c
  BY <1>1, <1>7, <1>8 DEF IsCode
<1> QED
  BY <1>9, <1>10, <1>11 DEF InitOps, r, s1, s2

\* Whoever is to initialize a class has linked it, or will have.
InitsLinked == \A t \in Threads : Covered(cont[t], "init", {"link", "linked"}, linked)

\* The first operation of a thread.
LEMMA Heads ==
    ASSUME TypeOK, NEW t \in Threads, cont[t] # <<>>
    PROVE  /\ cont[t] \in Seq(Ops) /\ 1 \in DOMAIN cont[t] /\ Head(cont[t]) = cont[t][1]
           /\ Head(cont[t]) \in Ops
<1>1. cont[t] \in Seq(Ops)
  BY DEF TypeOK
<1>2. Head(cont[t]) = cont[t][1] /\ DOMAIN cont[t] = 1..Len(cont[t])
      /\ Len(cont[t]) \in Nat \ {0}
  BY <1>1, EmptySeq, LenProperties
<1> QED
  BY <1>1, <1>2, HeadTailProperties

LEMMA ListsGrow ==
    ASSUME NEW t \in Threads, NEW c \in Names, Step(t, c)
    PROVE  /\ linked \subseteq linked' /\ inited \subseteq inited'
           /\ ~InitClass(t, c) => inited' = inited
           /\ ~Link(t, c) => linked' = linked
  BY DEF Safepoints, Die, Step, LoadNothing, LoadParsed, LoadThrows, LoadDies, LinkNothing,
     LinkNull, LinkText, Link, Linked, InitNothing, InitClass, Unlock, AccessOwn,
     AccessSuper, FindThere, UseObject,
     Walk, CreateArray, UseHeap, UseNull, Poll

\* A step that starts with a link ends with the class linked, or with the link to come.
LEMMA LinkSteps ==
    ASSUME TypeOK, NEW t \in Threads, NEW c \in Names, Step(t, c), cont' # cont,
           ~LinkText(t, c), Head(cont[t]).do \in {"link", "linked"}
    PROVE  Head(cont[t]).cls \in linked'
  BY DEF Safepoints, Die, Step, LoadNothing, LoadParsed, LoadThrows, LoadDies, LinkNothing,
     LinkNull, LinkText, Link, Linked, InitNothing, InitClass, Unlock, AccessOwn,
     AccessSuper, FindThere, UseObject,
     Walk, CreateArray, UseHeap, UseNull, Poll, Next1, Mutexes, EndsOf

LEMMA InitsStep ==
    ASSUME TypeInv, InitsLinked, NEW t \in Threads, NEW c \in Names, Step(t, c)
    PROVE  InitsLinked'
<1> DEFINE L == {"link", "linked"}
<1>0. TypeOK /\ linked \subseteq linked'
  BY ListsGrow DEF TypeInv
<1>1. ASSUME cont' = [cont EXCEPT ![t] = cont'[t]], Covered(cont'[t], "init", L, linked')
      PROVE  InitsLinked'
  <2> SUFFICES ASSUME NEW u \in Threads PROVE Covered(cont'[u], "init", L, linked')
    BY DEF InitsLinked
  <2>1. CASE u # t
    <3>1. cont'[u] = cont[u]
      BY <1>0, <1>1, <2>1 DEF TypeOK
    <3>2. Covered(cont[u], "init", L, linked)
      BY DEF InitsLinked
    <3> QED
      BY <1>0, <3>1, <3>2, CoveredGrows
  <2> QED
    BY <1>1, <2>1
<1>2. ASSUME NEW ops, Moves(t, ops), Covered(ops, "init", L, linked'),
             Head(cont[t]).do \in L =>
               \/ Head(cont[t]).cls \in linked'
               \/ \E j \in DOMAIN ops : ops[j].do \in L /\ ops[j].cls = Head(cont[t]).cls
      PROVE  InitsLinked'
  <2>1. cont' = [cont EXCEPT ![t] = cont'[t]]
    BY <1>0, <1>2 DEF Moves, Instead, TypeOK
  <2>2. Covered(cont[t], "init", L, linked)
    BY DEF InitsLinked
  <2>3. Covered(cont'[t], "init", L, linked')
    BY <1>0, <1>2, <2>2, CoveredMove
  <2> QED
    BY <1>1, <2>1, <2>3
<1>3. CASE cont' = cont
  BY <1>0, <1>3, CoveredGrows DEF InitsLinked
<1>4. CASE cont' = [cont EXCEPT ![t] = <<>>]
  <2>1. cont'[t] = <<>>
    BY <1>0, <1>4 DEF TypeOK
  <2>2. Covered(<<>>, "init", L, linked')
    BY DEF Covered
  <2> QED
    BY <1>1, <1>4, <2>1, <2>2
<1>5. CASE LinkText(t, c)
  <2> DEFINE ops == LinkOps(c)
  <2>2. Moves(t, ops)
    BY <1>5, LinkOpsAre DEF LinkText, Moves, Next1, LinkOps
  <2>3. Covered(ops, "init", L, linked')
    BY LinkOpsDo DEF Covered
  <2>4. Head(cont[t]).cls = c /\ 7 \in DOMAIN ops /\ ops[7].do = "linked" /\ ops[7].cls = c
    BY <1>5, LinkOpsAre DEF LinkText, Next1, Op
  <2>5. \E j \in DOMAIN ops : ops[j].do \in L /\ ops[j].cls = Head(cont[t]).cls
    BY <2>4
  <2> HIDE DEF ops
  <2> QED
    BY <1>2, <2>2, <2>3, <2>5
<1>6. CASE InitClass(t, c)
  <2> DEFINE ops == IF FileOf(c).clinit THEN InitOps(c) ELSE <<>>
  <2>1. ops \in Seq(Ops)
    BY <1>0, OpsOf
  <2>0. Covered(InitOps(c), "init", L, linked')
    BY InitOpsCovered
  <2>2. Covered(ops, "init", L, linked')
    BY <2>0 DEF Covered
  <2>3. Moves(t, ops) /\ Head(cont[t]).do = "init"
    BY <1>6, <2>1 DEF InitClass, Next1, Moves
  <2> HIDE DEF ops
  <2> QED
    BY <1>2, <2>2, <2>3
<1>7. CASE /\ ~InitClass(t, c) /\ ~LinkText(t, c)
           /\ cont' # cont /\ cont' # [cont EXCEPT ![t] = <<>>]
  <2>1. PICK ops : Moves(t, ops) /\ NoUse(ops)
    BY <1>0, <1>7, Shapes
  <2>2. Covered(ops, "init", L, linked')
    BY <2>1 DEF Covered, NoUse
  <2>3. Head(cont[t]).do \in L => Head(cont[t]).cls \in linked'
    BY <1>0, <1>7, LinkSteps
  <2> QED
    BY <1>2, <2>1, <2>2, <2>3
<1> QED
  BY <1>3, <1>4, <1>5, <1>6, <1>7

LEMMA LifeCycleStep ==
    ASSUME TypeInv, InitsLinked, LifeCycle, NEW t \in Threads, NEW c \in Names, Step(t, c)
    PROVE  LifeCycle'
<1>1. /\ TypeOK /\ linked \subseteq linked'
      /\ \A n \in Names : Loaded(n) => classTable'[n] # NoClass
  BY ListsGrow, TableGrows DEF TypeInv, Loaded
<1>2. inited' \subseteq linked'
  <2>1. CASE InitClass(t, c)
    <3>1. cont[t] # <<>> /\ Head(cont[t]).do = "init" /\ Head(cont[t]).cls = c
          /\ inited' = inited \cup {c}
      BY <2>1 DEF InitClass, Next1
    <3>2. c \in linked
      <4>1. 1 \in DOMAIN cont[t] /\ cont[t][1].do = "init" /\ cont[t][1].cls = c
        BY <1>1, <3>1, Heads
      <4>2. Covered(cont[t], "init", {"link", "linked"}, linked)
        BY DEF InitsLinked
      <4>3. 1..(1 - 1) = {}
        OBVIOUS
      <4> QED
        BY <4>1, <4>2, <4>3 DEF Covered
    <3> QED
      BY <1>1, <3>1, <3>2 DEF LifeCycle
  <2>2. CASE ~InitClass(t, c)
    BY <1>1, <2>2, ListsGrow DEF LifeCycle
  <2> QED
    BY <2>1, <2>2
<1>3. \A n \in linked' : classTable'[n] # NoClass
  <2>1. CASE Link(t, c)
    <3>1. linked' = linked \cup {c} /\ Loaded(c)
      <4>1. CASE Next1(t, "linked", c)
        BY <1>1, <2>1, <4>1, Heads DEF Link, Linked, Next1, TypeInv, LinksLoaded, LinkedNext
      <4> QED
        BY <2>1, <4>1 DEF Link, Linked
    <3> QED
      BY <1>1, <3>1 DEF LifeCycle, TypeOK
  <2>2. CASE ~Link(t, c)
    BY <1>1, <2>2, ListsGrow DEF LifeCycle, TypeOK
  <2> QED
    BY <2>1, <2>2
<1> QED
  BY <1>2, <1>3 DEF LifeCycle, Loaded

\* A collection is a step of every thread past its poll, a request changes no thread.
LEMMA CoveredCollect ==
    ASSUME TypeInv, Collect, NEW t \in Threads, NEW kind, NEW before, NEW done, NEW done2,
           done \subseteq done2, "poll" \notin before, Covered(cont[t], kind, before, done)
    PROVE  Covered(cont'[t], kind, before, done2)
<1>1. /\ cont[t] \in Seq(Ops) /\ cont[t] # <<>> /\ Head(cont[t]).do = "poll"
      /\ cont'[t] = Tail(cont[t]) /\ <<>> \in Seq(Ops)
  BY CollectMoves, EmptySeq DEF TypeInv, TypeOK, Collect
<1>2. Covered(<<>>, kind, before, done2)
  BY DEF Covered
<1>3. Covered(<<>> \o Tail(cont[t]), kind, before, done2)
  BY <1>1, <1>2, CoveredSplice
<1>4. <<>> \o Tail(cont[t]) = Tail(cont[t])
  BY <1>1, HeadTailProperties, ConcatEmptySeq
<1> QED
  BY <1>1, <1>3, <1>4

LifeInv == TypeInv /\ InitsLinked /\ LifeCycle

LEMMA LifeInit == Init => LifeInv
<1> SUFFICES ASSUME Init PROVE InitsLinked /\ LifeCycle
  BY TypeInit DEF LifeInv
<1>1. \A t \in Threads : IsCode(cont[t], {})
  BY ClassSpaceAssumption DEF Init
<1>2. InitsLinked
  BY <1>1 DEF InitsLinked, Covered, IsCode, Before
<1> QED
  BY <1>2 DEF Init, LifeCycle

LEMMA LifeStep ==
    ASSUME LifeInv, [Next]_vars
    PROVE  LifeInv'
<1>1. TypeInv'
  BY TypeStep DEF LifeInv
<1>2. ASSUME NEW t \in Threads, NEW c \in Names, Step(t, c)
      PROVE  InitsLinked' /\ LifeCycle'
  BY <1>2, InitsStep, LifeCycleStep DEF LifeInv
<1>3. CASE RequestGC \/ UNCHANGED vars
  <2>1. /\ linked' = linked /\ inited' = inited /\ classTable' = classTable
        /\ cont' = cont
    BY <1>3 DEF RequestGC, vars
  <2> QED
    BY <1>1, <2>1 DEF LifeInv, InitsLinked, LifeCycle, Loaded, Covered
<1>4. CASE Collect
  <2>1. linked' = linked /\ inited' = inited /\ classTable' = classTable
    BY <1>4 DEF Collect
  <2>2. LifeCycle'
    BY <2>1 DEF LifeInv, LifeCycle, Loaded
  <2>3. ASSUME NEW t \in Threads
        PROVE  Covered(cont'[t], "init", {"link", "linked"}, linked')
    <3>1. Covered(cont[t], "init", {"link", "linked"}, linked) /\ linked \subseteq linked'
      BY <2>1 DEF LifeInv, InitsLinked
    <3> QED
      BY <1>4, <3>1, CoveredCollect DEF LifeInv
  <2> QED
    BY <1>1, <2>2, <2>3 DEF InitsLinked, LifeInv
<1> QED
  BY <1>1, <1>2, <1>3, <1>4 DEF Next, LifeInv

LEMMA LifeInvariant == Spec => []LifeInv
<1> QED
  BY LifeInit, LifeStep, PTL DEF Spec

\* ClassSpace.h: a class is loaded before it is linked and linked before it is
\* initialized, whatever the threads and the initializers do in between.
THEOREM StagesInOrder == Spec => []LifeCycle
<1>1. LifeInv => LifeCycle
  BY DEF LifeInv
<1> QED
  BY <1>1, LifeInvariant, PTL

-----------------------------------------------------------------------------
(* The initializer of a class is alone with its static variables.          *)

\* The classes that are initialized, or being initialized by thread u itself.
Settled(u) == {c \in inited : \A v \in Threads \ {u} : ~Initializing(v, c)}

\* Whoever is to access a static variable has seen that its class is initialized, or
\* will have.
AccessesInited == \A u \in Threads : Covered(cont[u], "access", {"init"}, Settled(u))

\* A thread starts no initializer but that of a class that was not initialized.
LEMMA NewInitializers ==
    ASSUME TypeOK, NEW t \in Threads, NEW c \in Names, Step(t, c),
           NEW v \in Threads, NEW d \in inited, Initializing(v, d)'
    PROVE  Initializing(v, d)
<1>1. PICK i \in DOMAIN cont'[v] : cont'[v][i] = Op("leave", d)
  BY DEF Initializing, Op
<1>2. ASSUME NEW ops, Moves(t, ops),
             \A k \in DOMAIN ops : ops[k].do = "leave" => ops[k].cls \notin inited
      PROVE  Initializing(v, d)
  <2>1. \/ \E k \in DOMAIN cont[v] : cont'[v][i] = cont[v][k]
        \/ \E k \in DOMAIN ops : cont'[v][i] = ops[k]
    BY <1>1, <1>2, Elements
  <2>2. Op("leave", d).do = "leave" /\ Op("leave", d).cls = d
    BY DEF Op
  <2>3. \E k \in DOMAIN cont[v] : cont[v][k] = Op("leave", d)
    BY <1>1, <1>2, <2>1, <2>2
  <2> QED
    BY <2>3 DEF Initializing
<1>3. CASE cont' = cont
  BY <1>1, <1>3 DEF Initializing
<1>4. CASE cont' = [cont EXCEPT ![t] = <<>>]
  <2>1. cont'[v] = cont[v] \/ cont'[v] = <<>>
    BY <1>4 DEF TypeOK
  <2> QED
    BY <1>1, <2>1 DEF Initializing
<1>5. CASE InitClass(t, c)
  <2> DEFINE ops == IF FileOf(c).clinit THEN InitOps(c) ELSE <<>>
  <2>1. ops \in Seq(Ops)
    BY OpsOf
  <2>2. Moves(t, ops) /\ c \notin inited
    BY <1>5, <2>1 DEF InitClass, Next1, Moves
  <2>3. \A k \in DOMAIN ops : ops[k].do = "leave" => ops[k].cls = c
    BY InitOpsCovered
  <2> HIDE DEF ops
  <2> QED
    BY <1>2, <2>2, <2>3
<1>6. CASE ~InitClass(t, c) /\ cont' # cont /\ cont' # [cont EXCEPT ![t] = <<>>]
  <2>1. PICK ops : Moves(t, ops) /\ NoUse(ops)
    BY <1>6, Shapes
  <2> QED
    BY <1>2, <2>1 DEF NoUse
<1> QED
  BY <1>3, <1>4, <1>5, <1>6

LEMMA SettledGrows ==
    ASSUME TypeOK, NEW t \in Threads, NEW c \in Names, Step(t, c), NEW u \in Threads
    PROVE  Settled(u) \subseteq Settled(u)'
<1> SUFFICES ASSUME NEW d \in Settled(u) PROVE d \in Settled(u)'
  OBVIOUS
<1>1. d \in inited /\ d \in inited' /\ \A v \in Threads \ {u} : ~Initializing(v, d)
  BY ListsGrow DEF Settled
<1>2. \A v \in Threads \ {u} : ~Initializing(v, d)'
  BY <1>1, NewInitializers
<1> QED
  BY <1>1, <1>2 DEF Settled

\* A thread that has got past an init has the class settled, or the init still to come.
LEMMA InitSteps ==
    ASSUME TypeOK, NEW t \in Threads, NEW c \in Names, Step(t, c), cont' # cont,
           Head(cont[t]).do = "init"
    PROVE  Head(cont[t]).cls \in Settled(t)'
<1>1. /\ Head(cont[t]).cls = c /\ Gets(t, "ma") /\ c \in inited'
      /\ c \in inited \/ InitClass(t, c)
  BY DEF Safepoints, Die, Step, LoadNothing, LoadParsed, LoadThrows, LoadDies, LinkNothing,
     LinkNull, LinkText, Link, Linked, InitNothing, InitClass, Unlock, AccessOwn,
     AccessSuper, FindThere, UseObject,
     Walk, CreateArray, UseHeap, UseNull, Poll, Next1, Mutexes, EndsOf
<1>2. ASSUME NEW v \in Threads \ {t} PROVE ~Initializing(v, c)'
  <2>1. ~Holds(v, "ma")
    BY <1>1 DEF Gets
  <2>2. ~Initializing(v, c)
    BY <2>1 DEF Initializing, Holds, Op, EndsOf
  <2>3. cont'[v] = cont[v]
    <3>1. cont' = [cont EXCEPT ![t] = <<>>] \/ \E ops : Moves(t, ops)
      BY Shapes
    <3> QED
      BY <3>1 DEF Moves, Instead, TypeOK
  <2> QED
    BY <2>2, <2>3 DEF Initializing
<1> QED
  BY <1>1, <1>2 DEF Settled

LEMMA AccessesStep ==
    ASSUME TypeInv, AccessesInited, NEW t \in Threads, NEW c \in Names, Step(t, c)
    PROVE  AccessesInited'
<1>0. TypeOK
  BY DEF TypeInv
<1>1. ASSUME cont' = [cont EXCEPT ![t] = cont'[t]],
             Covered(cont'[t], "access", {"init"}, Settled(t)')
      PROVE  AccessesInited'
  <2> SUFFICES ASSUME NEW u \in Threads
               PROVE  Covered(cont'[u], "access", {"init"}, Settled(u)')
    BY DEF AccessesInited
  <2>1. CASE u # t
    <3>1. cont'[u] = cont[u]
      BY <1>0, <1>1, <2>1 DEF TypeOK
    <3>2. Covered(cont[u], "access", {"init"}, Settled(u))
      BY DEF AccessesInited
    <3>3. Settled(u) \subseteq Settled(u)'
      BY <1>0, SettledGrows
    <3> QED
      BY <3>1, <3>2, <3>3, CoveredGrows
  <2> QED
    BY <1>1, <2>1
<1>2. ASSUME NEW ops, Moves(t, ops), cont' # cont,
             Covered(ops, "access", {"init"}, Settled(t)')
      PROVE  AccessesInited'
  <2>1. cont' = [cont EXCEPT ![t] = cont'[t]]
    BY <1>0, <1>2 DEF Moves, Instead, TypeOK
  <2>2. Covered(cont[t], "access", {"init"}, Settled(t))
    BY DEF AccessesInited
  <2>3. Settled(t) \subseteq Settled(t)'
    BY <1>0, SettledGrows
  <2>4. Head(cont[t]).do \in {"init"} => Head(cont[t]).cls \in Settled(t)'
    BY <1>0, <1>2, InitSteps
  <2>5. Covered(cont'[t], "access", {"init"}, Settled(t)')
    BY <1>0, <1>2, <2>2, <2>3, <2>4, CoveredMove
  <2> QED
    BY <1>1, <2>1, <2>5
<1>3. CASE cont' = cont
  <2> SUFFICES ASSUME NEW u \in Threads
               PROVE  Covered(cont[u], "access", {"init"}, Settled(u)')
    BY <1>3 DEF AccessesInited
  <2>1. Covered(cont[u], "access", {"init"}, Settled(u))
    BY DEF AccessesInited
  <2>2. Settled(u) \subseteq Settled(u)'
    BY <1>0, SettledGrows
  <2> QED
    BY <2>1, <2>2, CoveredGrows
<1>4. CASE cont' = [cont EXCEPT ![t] = <<>>]
  <2>1. cont'[t] = <<>>
    BY <1>0, <1>4 DEF TypeOK
  <2>2. Covered(<<>>, "access", {"init"}, Settled(t)')
    BY DEF Covered
  <2> QED
    BY <1>1, <1>4, <2>1, <2>2
<1>5. CASE InitClass(t, c) /\ cont' # cont
  <2> DEFINE ops == IF FileOf(c).clinit THEN InitOps(c) ELSE <<>>
  <2>1. ops \in Seq(Ops)
    BY <1>0, OpsOf
  <2>2. Covered(InitOps(c), "access", {"init"}, Settled(t)')
    BY InitOpsCovered
  <2>3. Covered(ops, "access", {"init"}, Settled(t)')
    BY <2>2 DEF Covered
  <2>4. Moves(t, ops)
    BY <1>5, <2>1 DEF InitClass, Next1, Moves
  <2> HIDE DEF ops
  <2> QED
    BY <1>2, <1>5, <2>3, <2>4
<1>6. CASE ~InitClass(t, c) /\ cont' # cont /\ cont' # [cont EXCEPT ![t] = <<>>]
  <2>1. PICK ops : Moves(t, ops) /\ NoUse(ops)
    BY <1>0, <1>6, Shapes
  <2>2. Covered(ops, "access", {"init"}, Settled(t)')
    BY <2>1 DEF Covered, NoUse
  <2> QED
    BY <1>2, <1>6, <2>1, <2>2
<1> QED
  BY <1>3, <1>4, <1>5, <1>6

LEMMA AccessesInit == Init => AccessesInited
<1> SUFFICES ASSUME Init PROVE AccessesInited
  OBVIOUS
<1>1. \A t \in Threads : IsCode(cont[t], {})
  BY ClassSpaceAssumption DEF Init
<1> QED
  BY <1>1 DEF AccessesInited, Covered, IsCode, Before

LEMMA AccessesNext ==
    ASSUME TypeInv, AccessesInited, [Next]_vars
    PROVE  AccessesInited'
<1>1. ASSUME NEW t \in Threads, NEW c \in Names, Step(t, c) PROVE AccessesInited'
  BY <1>1, AccessesStep
<1>2. CASE RequestGC \/ UNCHANGED vars
  <2>1. inited' = inited /\ cont' = cont
    BY <1>2 DEF RequestGC, vars
  <2> QED
    BY <2>1 DEF AccessesInited, Covered, Settled, Initializing
<1>3. CASE Collect
  <2> SUFFICES ASSUME NEW u \in Threads
               PROVE  Covered(cont'[u], "access", {"init"}, Settled(u)')
    BY DEF AccessesInited
  <2>1. inited' = inited
    BY <1>3 DEF Collect
  <2>2. \A v \in Threads, c \in Names : Initializing(v, c)' => Initializing(v, c)
    BY <1>3, CollectMoves DEF Initializing
  <2>3. inited \subseteq Names
    BY DEF TypeInv, TypeOK
  <2>4. Settled(u) \subseteq Settled(u)'
    BY <2>1, <2>2, <2>3 DEF Settled
  <2>5. Covered(cont[u], "access", {"init"}, Settled(u))
    BY DEF AccessesInited
  <2> QED
    BY <1>3, <2>4, <2>5, CoveredCollect
<1> QED
  BY <1>1, <1>2, <1>3 DEF Next

\* ClassSpace.cpp:214-221: a class is listed as initialized before its initializer has
\* run, yet no other thread gets as far as its static variables: on the way it asks for
\* the mutex that the initializer runs under.
THEOREM StaticsGuarded == Spec => []InitializerAlone
<1> DEFINE I == TypeInv /\ AccessesInited
<1>1. Init => I
  BY TypeInit, AccessesInit
<1>2. I /\ [Next]_vars => I'
  BY TypeStep, AccessesNext
<1>3. I => InitializerAlone
  <2> SUFFICES ASSUME I, NEW t \in Threads, NEW u \in Threads, NEW c \in Names,
                      Initializing(t, c), u # t, cont[u] # <<>>,
                      Head(cont[u]).do = "access", Head(cont[u]).cls = c
               PROVE  FALSE
    BY DEF InitializerAlone
  <2>1. 1 \in DOMAIN cont[u] /\ cont[u][1].do = "access" /\ cont[u][1].cls = c
    BY Heads DEF TypeInv
  <2>2. Covered(cont[u], "access", {"init"}, Settled(u)) /\ 1..(1 - 1) = {}
    BY DEF AccessesInited
  <2>3. c \in Settled(u)
    BY <2>1, <2>2 DEF Covered
  <2> QED
    BY <2>3 DEF Settled
<1> QED
  BY <1>1, <1>2, <1>3, PTL DEF Spec

-----------------------------------------------------------------------------
(* Super-classes are in the table.                                         *)

\* The class n is in the table, and its super-class could be but is not.
Due(n) ==
    /\ Loaded(n) /\ FileOf(n).super # NoClass
    /\ Good(FileOf(n).super) /\ ~Loaded(FileOf(n).super)

\* Then the thread that has the mutex is about to load it.
SupersDue == \A n \in Names : Due(n) =>
    \E t \in Threads : /\ Holds(t, "ma") /\ cont[t] # <<>>
                       /\ Head(cont[t]).do = "load" /\ Head(cont[t]).cls = FileOf(n).super

\* Which steps put a class in the table, and under which name.
LEMMA TableSteps ==
    ASSUME TypeOK, NEW t \in Threads, NEW c \in Names, Step(t, c)
    PROVE  /\ path' = path
           /\ \A n \in Names : classTable'[n] # classTable[n] =>
                 /\ LoadParsed(t, c) /\ n = File(c).name /\ classTable'[n] = c
                 /\ ~Loaded(n)
<1> USE DEF Safepoints, Die
<1>1. path' = path
  BY DEF Step, LoadNothing, LoadParsed, LoadThrows, LoadDies, LinkNothing, LinkNull,
     LinkText, Link, InitNothing, InitClass, Unlock, AccessOwn, AccessSuper, FindThere,
     UseObject, Walk, CreateArray, UseHeap, UseNull, Poll
<1>2. CASE LoadParsed(t, c)
  BY <1>1, <1>2 DEF LoadParsed, Loaded, TypeOK
<1>3. CASE ~LoadParsed(t, c)
  <2>1. classTable' = classTable
    BY <1>3 DEF Step, LoadNothing, LoadThrows, LoadDies, LinkNothing, LinkNull, LinkText, Link,
       InitNothing, InitClass, Unlock, AccessOwn, AccessSuper, FindThere, UseObject,
     Walk, CreateArray, UseHeap, UseNull, Poll
  <2> QED
    BY <1>1, <2>1
<1> QED
  BY <1>2, <1>3

\* A thread that has registered a class goes on with its super-class.
LEMMA Registers ==
    ASSUME TypeOK, NEW t \in Threads, NEW c \in Names, LoadParsed(t, c),
           File(c).super # NoClass
    PROVE  /\ cont'[t] # <<>> /\ \E i \in DOMAIN cont'[t] : cont'[t][i].do = "unlock"
           /\ Head(cont'[t]).do = "load" /\ Head(cont'[t]).cls = File(c).super
<1> DEFINE ops == <<Op("load", File(c).super), Op("unlock", c)>>
<1>1. /\ Op("load", File(c).super) \in Ops /\ Op("unlock", c) \in Ops
  BY OpsOf DEF Op, Ops, Kinds
<1>2. ops \in Seq(Ops) /\ Len(ops) = 2
  BY <1>1, ShortSeqs
<1>3. ops[1].do = "load" /\ ops[1].cls = File(c).super /\ ops[2].do = "unlock"
  BY DEF Op
<1>4. /\ cont[t] \in Seq(Ops) /\ cont[t] # <<>> /\ cont'[t] = ops \o Tail(cont[t])
  BY DEF LoadParsed, Next1, Instead, SuperOps, TypeOK
<1> HIDE DEF ops
<1>5. /\ cont'[t] \in Seq(Ops) /\ DOMAIN cont'[t] = 1..(Len(ops) + Len(cont[t]) - 1)
      /\ Len(cont[t]) \in Nat \ {0} /\ \A i \in 1..Len(ops) : cont'[t][i] = ops[i]
  <2>1. /\ ops \o Tail(cont[t]) \in Seq(Ops)
        /\ DOMAIN (ops \o Tail(cont[t])) = 1..(Len(ops) + Len(cont[t]) - 1)
        /\ Len(cont[t]) \in Nat \ {0}
        /\ \A i \in 1..Len(ops) : (ops \o Tail(cont[t]))[i] = ops[i]
    BY <1>2, <1>4, Spliced
  <2> QED
    BY <1>4, <2>1
<1>6. 1 \in DOMAIN cont'[t] /\ 2 \in DOMAIN cont'[t]
      /\ cont'[t][1] = ops[1] /\ cont'[t][2] = ops[2]
  BY <1>2, <1>5
<1>7. cont'[t] # <<>> /\ Head(cont'[t]) = cont'[t][1]
  BY <1>5, <1>6, EmptySeq
<1> QED
  BY <1>3, <1>6, <1>7

LEMMA SupersStep ==
    ASSUME TypeInv, SupersDue, NEW t \in Threads, NEW c \in Names, Step(t, c)
    PROVE  SupersDue'
<1>0. TypeOK /\ path' = path
  BY TableSteps DEF TypeInv
<1> SUFFICES ASSUME NEW n \in Names, Due(n)'
             PROVE  (\E u \in Threads : /\ Holds(u, "ma") /\ cont[u] # <<>>
                                        /\ Head(cont[u]).do = "load"
                                        /\ Head(cont[u]).cls = FileOf(n).super)'
  BY DEF SupersDue
<1>1. CASE classTable'[n] # classTable[n]
  <2>1. LoadParsed(t, c) /\ classTable'[n] = c
    BY <1>0, <1>1, TableSteps
  <2>2. FileOf(n)' = File(c) /\ File(c).super # NoClass
    BY <1>0, <2>1 DEF FileOf, File, Due
  <2>3. /\ cont'[t] # <<>> /\ \E i \in DOMAIN cont'[t] : cont'[t][i].do = "unlock"
        /\ Head(cont'[t]).do = "load" /\ Head(cont'[t]).cls = File(c).super
    BY <1>0, <2>1, <2>2, Registers
  <2> QED
    BY <2>2, <2>3 DEF Holds, EndsOf
<1>2. CASE classTable'[n] = classTable[n]
  <2> DEFINE s == FileOf(n).super
  <2>1. FileOf(n)' = FileOf(n) /\ Loaded(n)
    BY <1>0, <1>2 DEF FileOf, File, Due, Loaded
  <2>2. s \in Names /\ Good(s)
    <3>1. s \in Names \cup {NoClass}
      BY <1>0, <2>1, OpsOf DEF FileOf, Loaded, TypeOK
    <3> QED
      BY <1>0, <2>1, <3>1 DEF Due, Good, File
  <2>3. ~Loaded(s) /\ classTable'[s] = NoClass
    BY <1>0, <2>1, <2>2, TableGrows DEF Due, Loaded
  <2>4. Due(n)
    BY <2>1, <2>2, <2>3 DEF Due
  <2>5. PICK u \in Threads : /\ Holds(u, "ma") /\ cont[u] # <<>>
                             /\ Head(cont[u]).do = "load" /\ Head(cont[u]).cls = s
    BY <2>4 DEF SupersDue
  <2>6. CASE u = t
    <3>1. CASE LoadNothing(t, c) \/ LoadThrows(t, c) \/ LoadDies(t, c)
      BY <2>2, <2>3, <2>5, <2>6, <3>1 DEF LoadNothing, LoadThrows, LoadDies, Next1, Good
    <3>2. CASE LoadParsed(t, c)
      <4>1. c = s /\ File(s).name = s
        BY <2>2, <2>5, <2>6, <3>2 DEF LoadParsed, Next1, Good
      <4>2. classTable'[s] = s
        BY <1>0, <2>2, <2>3, <3>2, <4>1 DEF LoadParsed, TypeOK
      <4> QED
        BY <2>2, <2>3, <4>2, ClassSpaceAssumption
    <3>3. LoadNothing(t, c) \/ LoadThrows(t, c) \/ LoadDies(t, c) \/ LoadParsed(t, c)
      BY <2>5, <2>6 DEF Step, LinkNothing, LinkNull, LinkText, Link, InitNothing, InitClass,
         Unlock, AccessOwn, AccessSuper, FindThere, UseObject,
     Walk, CreateArray, UseHeap, UseNull, Poll, Next1, Mutexes, EndsOf
    <3> QED
      BY <3>1, <3>2, <3>3
  <2>7. CASE u # t
    <3>1. cont'[u] = cont[u]
      <4>1. \/ cont' = cont \/ cont' = [cont EXCEPT ![t] = <<>>] \/ \E ops : Moves(t, ops)
        BY <1>0, Shapes
      <4> QED
        BY <1>0, <2>7, <4>1 DEF Moves, Instead, TypeOK
    <3> QED
      BY <2>1, <2>5, <3>1 DEF Holds
  <2> QED
    BY <2>6, <2>7
<1> QED
  BY <1>1, <1>2

LEMMA SupersNext ==
    ASSUME TypeInv, SupersDue, [Next]_vars
    PROVE  SupersDue'
<1>1. ASSUME NEW t \in Threads, NEW c \in Names, Step(t, c) PROVE SupersDue'
  BY <1>1, SupersStep
<1>2. CASE RequestGC \/ UNCHANGED vars
  <2>1. path' = path /\ classTable' = classTable /\ cont' = cont
    BY <1>2 DEF RequestGC, vars
  <2> QED
    BY <2>1 DEF SupersDue, Due, Loaded, FileOf, File, Good, Holds
<1>3. CASE Collect
  <2>1. path' = path /\ classTable' = classTable
    BY <1>3 DEF Collect
  <2>2. ASSUME NEW n \in Names, Due(n)' PROVE FALSE
    <3>1. Due(n)
      BY <2>1, <2>2 DEF Due, Loaded, FileOf, File, Good
    <3> QED
      BY <1>3, <3>1, CollectMoves DEF SupersDue
  <2> QED
    BY <2>2 DEF SupersDue
<1> QED
  BY <1>1, <1>2, <1>3 DEF Next

\* ClassSpace.cpp:60-68: whenever no thread is in the class space, the super-class of
\* every class in the table is in the table, if there is a good file of it.
THEOREM SupersPresent == Spec => []SuperLoaded
<1> DEFINE I == TypeInv /\ SupersDue
<1>1. Init => I
  <2>1. Init => SupersDue
    BY DEF Init, SupersDue, Due, Loaded
  <2> QED
    BY <2>1, TypeInit
<1>2. I /\ [Next]_vars => I'
  BY TypeStep, SupersNext
<1>3. I => SuperLoaded
  BY DEF SupersDue, Due, SuperLoaded
<1> QED
  BY <1>1, <1>2, <1>3, PTL DEF Spec

-----------------------------------------------------------------------------
(* Nothing null, nothing missing, if every file is good.                   *)

AllGood == \A c \in Names : Good(c)

LoadedNames == {n \in Names : Loaded(n)}

\* The operations that take the class they name from the table unchecked.
Takes == {"link", "linked", "create", "array", "field", "walk", "inherited"}

\* Each of them in s is on a class in done, or comes after a load of it.
Grounded(s, done) == \A k \in Takes : Covered(s, k, {"load"}, done)

\* A class in the table has its own file; a linked class has its static variables; what
\* threads take from the table is there by then.
RightNames == \A n \in Names : Loaded(n) => classTable[n] = n
Made       == \A n \in linked : {n} \X FileOf(n).statics \subseteq staticVars
AllGrounded == \A t \in Threads : Grounded(cont[t], LoadedNames)

Alive == \/ process = "runs"
         \/ /\ process = "static"
            /\ \E t \in Threads : cont[t] # <<>> /\ Head(cont[t]).do = "inherited"
         \/ /\ process = "null"
            /\ \E t \in Threads : /\ cont[t] # <<>> /\ Head(cont[t]).do = "find"
                                  /\ ~Loaded(Head(cont[t]).cls)

SafeParts == RightNames /\ Made /\ AllGrounded /\ Alive

\* What the earlier sections have shown.
Order == LifeInv /\ AccessesInited /\ SupersDue

\* Every step on the way needs the same things.
LEMMA TableStep ==
    ASSUME TypeOK, AllGood, RightNames, NEW t \in Threads, NEW c \in Names, Step(t, c)
    PROVE  /\ RightNames' /\ path' = path /\ LoadedNames \subseteq LoadedNames'
           /\ \A n \in LoadedNames : classTable'[n] = classTable[n]
           /\ LoadParsed(t, c) => c \in LoadedNames'
<1>1. path' = path /\ \A n \in Names : Loaded(n) => classTable'[n] = classTable[n]
  BY TableSteps, TableGrows
<1>2. \A n \in Names : classTable'[n] # classTable[n] => n = c /\ classTable'[n] = c
  BY TableSteps DEF AllGood, Good
<1>3. RightNames'
  BY <1>1, <1>2 DEF RightNames, Loaded
<1>4. c # NoClass
  BY ClassSpaceAssumption
<1>5. LoadParsed(t, c) => classTable'[c] = c
  BY DEF LoadParsed, Loaded, AllGood, Good, TypeOK
<1> QED
  BY <1>1, <1>3, <1>4, <1>5 DEF LoadedNames, Loaded

LEMMA Made1 ==
    ASSUME TypeOK, LifeCycle, AllGood, RightNames, Made,
           NEW t \in Threads, NEW c \in Names, Step(t, c), LinksLoaded
    PROVE  Made'
<1>1. path' = path /\ \A n \in LoadedNames : classTable'[n] = classTable[n]
  BY TableStep
<1>2. \A n \in LoadedNames : FileOf(n)' = FileOf(n)
  BY <1>1 DEF FileOf, File
<1>3. CASE Link(t, c)
  <2>1. c \in LoadedNames
    <3>1. CASE Next1(t, "linked", c)
      BY <1>3, <3>1, Heads DEF Next1, LinksLoaded, LinkedNext, LoadedNames
    <3> QED
      BY <1>3, <3>1 DEF Link, LoadedNames
  <2>2. linked' = linked \cup {c} /\ staticVars' = staticVars \cup ({c} \X FileOf(c).statics)
    BY <1>3 DEF Link, Linked
  <2>3. linked \subseteq LoadedNames
    BY DEF LifeCycle, LoadedNames, TypeOK
  <2> SUFFICES ASSUME NEW n \in linked' PROVE {n} \X FileOf(n)'.statics \subseteq staticVars'
    BY DEF Made
  <2> QED
    BY <1>2, <2>1, <2>2, <2>3 DEF Made
<1>4. CASE ~Link(t, c)
  <2>1. linked' = linked
    BY <1>4, ListsGrow
  <2>2. staticVars' = staticVars
    BY <1>4 DEF Safepoints, Die, Step, LoadNothing, LoadParsed, LoadThrows, LoadDies,
       LinkNothing, LinkNull, LinkText, InitNothing, InitClass, Unlock, AccessOwn,
       AccessSuper, FindThere, UseObject,
     Walk, CreateArray, UseHeap, UseNull, Poll
  <2>3. linked \subseteq LoadedNames
    BY DEF LifeCycle, LoadedNames, TypeOK
  <2> QED
    BY <1>2, <2>1, <2>2, <2>3 DEF Made
<1> QED
  BY <1>3, <1>4

\* The super-class of a loaded class is there for whoever gets the mutex and is not just
\* loading it.
LEMMA SuperThere ==
    ASSUME TypeInv, SupersDue, AllGood, NEW t \in Threads, Gets(t, "ma"), cont[t] # <<>>,
           Head(cont[t]).do # "load", NEW c \in Names, Loaded(c), FileOf(c).super # NoClass
    PROVE  FileOf(c).super \in LoadedNames
<1>1. FileOf(c).super \in Names
  BY OpsOf DEF TypeInv, TypeOK, FileOf, Loaded
<1>2. ~Due(c)
  BY DEF SupersDue, Gets
<1> QED
  BY <1>1, <1>2 DEF Due, AllGood, LoadedNames

\* The class that an operation at the head takes from the table is there.
LEMMA HeadThere ==
    ASSUME TypeOK, AllGrounded, NEW t \in Threads, cont[t] # <<>>,
           Head(cont[t]).do \in Takes
    PROVE  Head(cont[t]).cls \in LoadedNames
<1>1. 1 \in DOMAIN cont[t] /\ Head(cont[t]) = cont[t][1]
  BY Heads
<1>2. Covered(cont[t], Head(cont[t]).do, {"load"}, LoadedNames)
  BY DEF AllGrounded, Grounded
<1>3. 1..(1 - 1) = {}
  OBVIOUS
<1> QED
  BY <1>1, <1>2, <1>3 DEF Covered

\* So is a class whose static variable is accessed, with its variables.
LEMMA AccessThere ==
    ASSUME Order, NEW t \in Threads, cont[t] # <<>>, Head(cont[t]).do = "access"
    PROVE  Head(cont[t]).cls \in linked /\ Loaded(Head(cont[t]).cls)
<1>0. TypeOK /\ LifeCycle
  BY DEF Order, LifeInv, TypeInv
<1>1. 1 \in DOMAIN cont[t] /\ Head(cont[t]) = cont[t][1]
  BY <1>0, Heads
<1>2. Covered(cont[t], "access", {"init"}, Settled(t))
  BY DEF Order, AccessesInited
<1>3. 1..(1 - 1) = {}
  OBVIOUS
<1>4. Head(cont[t]).cls \in Settled(t)
  BY <1>1, <1>2, <1>3 DEF Covered
<1> QED
  BY <1>0, <1>4 DEF Settled, LifeCycle

\* A step ends the process, if at all, at a static variable of a super-class, or where a
\* class is looked up that nobody loaded.
LEMMA AliveStep ==
    ASSUME Order, AllGood, SafeParts, NEW t \in Threads, NEW c \in Names, Step(t, c)
    PROVE  Alive'
<1>0. TypeOK /\ process = "runs"
  BY DEF Order, LifeInv, TypeInv, Step, LoadNothing, LoadParsed, LoadThrows, LoadDies,
     LinkNothing, LinkNull, LinkText, Link, InitNothing, InitClass, Unlock, AccessOwn,
     AccessSuper, FindThere, UseObject,
     Walk, CreateArray, UseHeap, UseNull, Poll, Next1, Mutexes, EndsOf
<1>1. ~LoadDies(t, c)
  BY DEF LoadDies, AllGood, Good
<1>2. ~LinkNull(t, c)
  BY <1>0, HeadThere DEF LinkNull, Next1, SafeParts, Takes, LoadedNames
<1>3. CASE UseNull(t, c)
  <2>1. \A k \in Takes : ~(Next1(t, k, c) /\ ~Loaded(c))
    BY <1>0, HeadThere DEF Next1, SafeParts, LoadedNames
  <2>2. ~(Next1(t, "access", c) /\ ~Loaded(c))
    BY AccessThere DEF Next1
  <2>3. Next1(t, "find", c) /\ ~Loaded(c)
    BY <1>3, <2>1, <2>2 DEF UseNull, Takes
  <2>4. process' = "null" /\ cont' = cont /\ classTable' = classTable
    BY <1>3 DEF UseNull, Die
  <2> QED
    BY <2>3, <2>4 DEF Next1, Alive, Loaded
<1>4. CASE AccessOwn(t, c) /\ process' # "runs"
  <2>1. /\ process' = "static" /\ cont' = cont /\ cont[t] # <<>>
        /\ \E f \in FileOf(c).statics : <<c, f>> \notin staticVars
    BY <1>0, <1>4 DEF AccessOwn, Next1, Die
  <2>2. Head(cont[t]).do # "access"
    <3> SUFFICES ASSUME Head(cont[t]).do = "access" PROVE FALSE
      OBVIOUS
    <3>1. Head(cont[t]).cls = c
      BY <1>4 DEF AccessOwn, Next1
    <3>2. c \in linked
      BY <2>1, <3>1, AccessThere
    <3> QED
      BY <2>1, <3>2 DEF SafeParts, Made
  <2>3. Head(cont[t]).do = "inherited"
    BY <1>4, <2>2 DEF AccessOwn, Next1
  <2> QED
    BY <2>1, <2>3 DEF Alive
<1>5. CASE ~AccessOwn(t, c) /\ ~UseNull(t, c)
  <2>1. process' = process
    BY <1>1, <1>2, <1>5 DEF Step, LoadNothing, LoadParsed, LoadThrows, LinkNothing,
       LinkText, Link, InitNothing, InitClass, Unlock, AccessSuper, FindThere,
       UseObject, Walk, CreateArray, UseHeap, Poll, Safepoints
  <2> QED
    BY <1>0, <2>1 DEF Alive
<1> QED
  BY <1>3, <1>4, <1>5 DEF Alive

\* An initializer takes its own class for loaded, and no other before it loads it.
LEMMA InitOpsGrounded ==
    ASSUME NEW c \in Names, NEW done, c \in done
    PROVE  Grounded(InitOps(c), done)
<1> DEFINE s1 == Initializers[c]
           s2 == <<Op("poll", c), Op("leave", c)>>
           r == s1 \o s2
<1>1. s1 \in Seq(Ops) /\ IsCode(s1, {c})
  BY ClassSpaceAssumption
<1>2. Op("poll", c) \in Ops /\ Op("leave", c) \in Ops
  BY DEF Op, Ops, Kinds
<1>3. s2 \in Seq(Ops) /\ Len(s2) = 2 /\ s2[1].do = "poll" /\ s2[2].do = "leave"
  BY <1>2, ShortSeqs DEF Op
<1> HIDE DEF s1, s2
<1>4. s1 \in Seq(Ops) /\ s2 \in Seq(Ops)
  BY <1>1, <1>3
<1>5. /\ r \in Seq(Ops) /\ Len(r) = Len(s1) + Len(s2)
      /\ \A i \in 1..(Len(s1) + Len(s2)) : r[i] =
            IF i <= Len(s1) THEN s1[i] ELSE s2[i - Len(s1)]
  BY <1>4, ConcatProperties
<1> HIDE DEF r
<1>6. DOMAIN r = 1..(Len(s1) + 2) /\ DOMAIN s1 = 1..Len(s1) /\ Len(s1) \in Nat
  BY <1>1, <1>3, <1>5, LenProperties
<1>7. \A i \in DOMAIN s1 : r[i] = s1[i]
  BY <1>3, <1>5, <1>6
<1>8. ASSUME NEW i \in DOMAIN r, i \notin DOMAIN s1 PROVE r[i].do \notin Takes
  <2>1. i - Len(s1) \in {1, 2} /\ r[i] = s2[i - Len(s1)]
    BY <1>3, <1>5, <1>6, <1>8
  <2> QED
    BY <1>3, <2>1 DEF Takes
<1>9. Grounded(r, done)
  <2> SUFFICES ASSUME NEW i \in DOMAIN r, r[i].do \in Takes, r[i].cls \notin done
               PROVE  \E j \in 1..(i - 1) : r[j].do \in {"load"} /\ r[j].cls = r[i].cls
    BY DEF Grounded, Covered
  <2>1. i \in DOMAIN s1 /\ r[i] = s1[i]
    BY <1>7, <1>8
  <2>2. s1[i].do \in {"link", "create", "array", "field"}
    BY <1>1, <2>1 DEF IsCode, Takes
  <2>3. PICK j \in 1..(i - 1) : s1[j].do = "load" /\ s1[j].cls = s1[i].cls
    BY <1>1, <2>1, <2>2 DEF IsCode, Before
  <2>4. j \in DOMAIN s1
    BY <1>6, <2>1
  <2> QED
    BY <1>7, <2>1, <2>3, <2>4
<1> QED
  BY <1>9 DEF InitOps, r, s1, s2

\* What a step puts in front of a thread's operations is grounded too.
LEMMA NewOpsGrounded ==
    ASSUME Order, AllGood, SafeParts, NEW t \in Threads, NEW c \in Names, Step(t, c)
    PROVE  \/ cont' = cont
           \/ cont' = [cont EXCEPT ![t] = <<>>]
           \/ \E ops : /\ Moves(t, ops) /\ Grounded(ops, LoadedNames')
                       /\ Head(cont[t]).do = "load" => Head(cont[t]).cls \in LoadedNames'
<1>0. TypeOK /\ TypeInv /\ SupersDue
  BY DEF Order, LifeInv, TypeInv
<1>1. /\ <<>> \in Seq(Ops) /\ SuperOps(c) \in Seq(Ops) /\ InitOps(c) \in Seq(Ops)
      /\ \A k \in Kinds : Op(k, c) \in Ops
  BY <1>0, OpsOf
<1>2. LoadedNames \subseteq LoadedNames' /\ (LoadParsed(t, c) => c \in LoadedNames')
  BY <1>0, TableStep DEF SafeParts
<1> DEFINE L == LoadedNames'
           Follows(ops) == /\ Moves(t, ops) /\ Grounded(ops, L)
                           /\ Head(cont[t]).do = "load" => Head(cont[t]).cls \in L
<1>3. Grounded(<<>>, L)
  BY DEF Grounded, Covered
<1>4. ASSUME LoadNothing(t, c) PROVE Follows(<<>>)
  <2>1. c \in LoadedNames
    BY <1>4 DEF LoadNothing, AllGood, Good, LoadedNames
  <2> QED
    BY <1>1, <1>2, <1>3, <1>4, <2>1 DEF LoadNothing, Next1, Done, Moves
<1>5. ASSUME LoadParsed(t, c) PROVE Follows(SuperOps(c))
  <2>1. Grounded(SuperOps(c), L)
    BY DEF Grounded, Covered, Takes, SuperOps, Op
  <2> QED
    BY <1>1, <1>2, <1>5, <2>1 DEF LoadParsed, Next1, Moves
<1>6. ASSUME LinkText(t, c)
      PROVE  Follows(LinkOps(c))
  <2> DEFINE ops == LinkOps(c)
  <2>1. c \in L
    BY <1>2, <1>6 DEF LinkText, LoadedNames
  <2>2. /\ ops \in Seq(Ops) /\ DOMAIN ops = 1..8
        /\ ops[1].do = "load" /\ ops[1].cls = StringClass
        /\ ops[2].cls = StringClass /\ ops[4].cls = StringClass
        /\ ops[3].do = "load" /\ ops[5].do = "arr" /\ ops[6].do = "obj"
        /\ ops[7].cls = c /\ ops[8].do = "unlock"
    <3>1. \A k \in Kinds, n \in Names : Op(k, n).do = k /\ Op(k, n).cls = n
      BY DEF Op
    <3>2. StringClass \in Names
          /\ {"load", "create", "arr", "obj", "linked", "unlock"} \subseteq Kinds
      BY ClassSpaceAssumption DEF Kinds
    <3> QED
      BY <3>1, <3>2, LinkOpsAre
  <2>3. Moves(t, ops) /\ Head(cont[t]).do = "link"
    BY <1>6, <2>2 DEF LinkText, Next1, Moves, LinkOps
  <2> HIDE DEF ops
  <2>4. Grounded(ops, L)
    <3> SUFFICES ASSUME NEW i \in DOMAIN ops, ops[i].do \in Takes, ops[i].cls \notin L
                 PROVE  \E j \in 1..(i - 1) : ops[j].do \in {"load"} /\ ops[j].cls = ops[i].cls
      BY DEF Grounded, Covered
    <3>1. i \in {2, 4}
      BY <2>1, <2>2 DEF Takes
    <3>2. 1 \in 1..(i - 1) /\ ops[i].cls = StringClass
      BY <2>2, <3>1
    <3> QED
      BY <2>2, <3>2
  <2> QED
    BY <2>3, <2>4 DEF ops
<1>7. ASSUME InitClass(t, c) PROVE \E ops : Follows(ops)
  <2> DEFINE ops == IF FileOf(c).clinit THEN InitOps(c) ELSE <<>>
  <2>1. c \in L
    BY <1>2, <1>7 DEF InitClass, LoadedNames
  <2>2. Grounded(InitOps(c), L)
    BY <2>1, InitOpsGrounded
  <2>3. Grounded(ops, L) /\ ops \in Seq(Ops)
    BY <1>1, <1>3, <2>2
  <2>4. Moves(t, ops) /\ Head(cont[t]).do = "init"
    BY <1>7, <2>3 DEF InitClass, Next1, Moves
  <2> HIDE DEF ops
  <2> QED
    BY <2>3, <2>4
<1>8. ASSUME LinkNothing(t, c) \/ Link(t, c) \/ InitNothing(t, c) \/ Unlock(t, c) \/ Poll(t, c)
      PROVE  cont' = cont \/ Follows(<<>>)
  BY <1>1, <1>3, <1>8 DEF LinkNothing, Link, InitNothing, Unlock, Poll, Next1, Done, Moves,
     Mutexes, EndsOf
<1>9. ASSUME AccessOwn(t, c) PROVE cont' = cont \/ Follows(<<>>)
  BY <1>1, <1>3, <1>9 DEF AccessOwn, Next1, Done, Moves, Die
<1>10. ASSUME AccessSuper(t, c) PROVE \E ops : Follows(ops)
  <2>1. CASE Done(t)
    BY <1>1, <1>3, <1>10, <2>1 DEF AccessSuper, Next1, Done, Moves
  <2>2. CASE ~Done(t)
    <3> DEFINE op == [do |-> "inherited", cls |-> FileOf(c).super, field |-> Head(cont[t]).field]
    <3>1. /\ Gets(t, "ma") /\ FileOf(c).super # NoClass /\ Loaded(c) /\ cont[t] # <<>>
          /\ Head(cont[t]).do # "load" /\ Instead(t, <<op>>)
      BY <1>10, <2>2 DEF AccessSuper, Next1
    <3>2. FileOf(c).super \in LoadedNames
      BY <1>0, <3>1, SuperThere
    <3>3. op \in Ops
      BY <1>0, <3>1, <3>2, Heads DEF Ops, Kinds, LoadedNames
    <3>4. <<op>> \in Seq(Ops) /\ Grounded(<<op>>, L)
      BY <1>2, <3>2, <3>3, ShortSeqs DEF Grounded, Covered
    <3> QED
      BY <3>1, <3>4 DEF Moves
  <2> QED
    BY <2>1, <2>2
<1>11. ASSUME FindThere(t, c) \/ UseHeap(t, c) PROVE Follows(<<>>)
  BY <1>1, <1>3, <1>11 DEF FindThere, UseHeap, Next1, Done, Moves
<1>15. ASSUME UseObject(t, c) PROVE \E ops : Follows(ops)
  <2> DEFINE op  == [Head(cont[t]) EXCEPT !.do = "walk"]
             ops == <<op, Op("objEnd", c)>>
  <2>1. /\ Loaded(c) /\ cont[t] # <<>> /\ Head(cont[t]).do # "load" /\ Head(cont[t]).cls = c
        /\ Head(cont[t]) \in Ops
    BY <1>0, <1>15, Heads DEF UseObject, Next1
  <2>2. op \in Ops /\ op.cls = c /\ Op("objEnd", c) \in Ops
    BY <1>1, <2>1 DEF Ops, Kinds
  <2>3. Instead(t, ops)
    BY <1>15 DEF UseObject
  <2> HIDE DEF op
  <2>4. ops \in Seq(Ops) /\ Grounded(ops, L)
    BY <1>2, <2>1, <2>2, ShortSeqs DEF Grounded, Covered, LoadedNames, Takes, Op
  <2> QED
    BY <2>1, <2>3, <2>4 DEF Moves
<1>16. ASSUME Walk(t, c) PROVE \E ops : Follows(ops)
  <2>1. CASE Done(t)
    BY <1>1, <1>3, <1>16, <2>1 DEF Walk, Next1, Done, Moves
  <2>2. CASE ~Done(t)
    <3> DEFINE op == [Head(cont[t]) EXCEPT !.cls = FileOf(c).super]
    <3>1. /\ Gets(t, "ma") /\ FileOf(c).super # NoClass /\ Loaded(c) /\ cont[t] # <<>>
          /\ Head(cont[t]).do # "load" /\ Instead(t, <<op>>)
      BY <1>16, <2>2 DEF Walk, WalkEnds, Next1
    <3>2. FileOf(c).super \in LoadedNames
      BY <1>0, <3>1, SuperThere
    <3>3. Head(cont[t]) \in Ops
      BY <1>0, <3>1, Heads
    <3>4. op \in Ops /\ op.cls = FileOf(c).super
      BY <3>2, <3>3 DEF Ops, LoadedNames
    <3> HIDE DEF op
    <3>5. <<op>> \in Seq(Ops) /\ Grounded(<<op>>, L)
      BY <1>2, <3>2, <3>4, ShortSeqs DEF Grounded, Covered
    <3> QED
      BY <3>1, <3>5 DEF Moves
  <2> QED
    BY <2>1, <2>2
<1>17. ASSUME CreateArray(t, c) PROVE \E ops : Follows(ops)
  <2>1. PICK elements \in {<<>>, <<Op("create", c)>>} :
               Instead(t, elements \o <<Op("arrEnd", c)>>)
    BY <1>17 DEF CreateArray
  <2> DEFINE ops == elements \o <<Op("arrEnd", c)>>
  <2>2. ops \in Seq(Ops) /\ \A i \in DOMAIN ops : ops[i] \in {Op("create", c), Op("arrEnd", c)}
    BY ArrayOps
  <2>3. Instead(t, ops)
    BY <2>1
  <2> HIDE DEF ops
  <2>4. cont[t] # <<>> /\ Head(cont[t]).do = "array" /\ Head(cont[t]).cls = c
    BY <1>17 DEF CreateArray, Next1
  <2>5. c \in L
    BY <1>0, <1>2, <2>4, HeadThere DEF SafeParts, Takes
  <2>6. Grounded(ops, L)
    BY <2>2, <2>5 DEF Grounded, Covered, Op
  <2> QED
    BY <2>2, <2>3, <2>4, <2>6 DEF Moves
<1>12. ASSUME LoadThrows(t, c) PROVE cont' = [cont EXCEPT ![t] = <<>>]
  BY <1>12 DEF LoadThrows
<1>13. ASSUME LoadDies(t, c) \/ LinkNull(t, c) \/ UseNull(t, c) PROVE cont' = cont
  BY <1>13 DEF LoadDies, LinkNull, UseNull, Die
<1> HIDE DEF L, Follows
<1>14. cont' = cont \/ cont' = [cont EXCEPT ![t] = <<>>] \/ \E ops : Follows(ops)
  BY <1>4, <1>5, <1>6, <1>7, <1>8, <1>9, <1>10, <1>11, <1>12, <1>13, <1>15,
     <1>16, <1>17 DEF Step
<1> QED
  BY <1>14 DEF Follows, L

LEMMA GroundedStep ==
    ASSUME Order, AllGood, SafeParts, NEW t \in Threads, NEW c \in Names, Step(t, c)
    PROVE  AllGrounded'
<1>0. TypeOK /\ AllGrounded
  BY DEF Order, LifeInv, TypeInv, SafeParts
<1>1. LoadedNames \subseteq LoadedNames'
  BY <1>0, TableStep DEF SafeParts
<1> SUFFICES ASSUME NEW u \in Threads, NEW k \in Takes
             PROVE  Covered(cont'[u], k, {"load"}, LoadedNames')
  BY DEF AllGrounded, Grounded
<1>2. Covered(cont[u], k, {"load"}, LoadedNames)
  BY <1>0 DEF AllGrounded, Grounded
<1>3. ASSUME cont'[u] = cont[u] PROVE Covered(cont'[u], k, {"load"}, LoadedNames')
  BY <1>1, <1>2, <1>3, CoveredGrows
<1>4. CASE cont' = [cont EXCEPT ![t] = <<>>]
  <2>1. cont'[u] = cont[u] \/ cont'[u] = <<>>
    BY <1>0, <1>4 DEF TypeOK
  <2>2. Covered(<<>>, k, {"load"}, LoadedNames')
    BY DEF Covered
  <2> QED
    BY <1>3, <2>1, <2>2
<1>5. ASSUME NEW ops, Moves(t, ops), Grounded(ops, LoadedNames'),
             Head(cont[t]).do = "load" => Head(cont[t]).cls \in LoadedNames'
      PROVE  Covered(cont'[u], k, {"load"}, LoadedNames')
  <2>1. CASE u # t
    <3>1. cont'[u] = cont[u]
      BY <1>0, <1>5, <2>1 DEF Moves, Instead, TypeOK
    <3> QED
      BY <1>3, <3>1
  <2>2. CASE u = t
    <3>1. Covered(ops, k, {"load"}, LoadedNames')
      BY <1>5 DEF Grounded
    <3>2. Covered(cont'[t], k, {"load"}, LoadedNames')
      BY <1>0, <1>1, <1>2, <1>5, <2>2, <3>1, CoveredMove
    <3> QED
      BY <2>2, <3>2
  <2> QED
    BY <2>1, <2>2
<1> QED
  BY <1>3, <1>4, <1>5, NewOpsGrounded

SafeInv == AllGood => SafeParts

LEMMA SafeInit == Init => SafeInv
<1> SUFFICES ASSUME Init PROVE SafeParts
  BY DEF SafeInv
<1>1. \A t \in Threads : IsCode(cont[t], {})
  BY ClassSpaceAssumption DEF Init
<1>2. AllGrounded
  <2> SUFFICES ASSUME NEW t \in Threads, NEW i \in DOMAIN cont[t], cont[t][i].do \in Takes
               PROVE  \E j \in 1..(i - 1) : /\ cont[t][j].do \in {"load"}
                                            /\ cont[t][j].cls = cont[t][i].cls
    BY DEF AllGrounded, Grounded, Covered
  <2>1. cont[t][i].do \in {"link", "create", "array", "field"}
    BY <1>1 DEF IsCode, Takes
  <2> QED
    BY <1>1, <2>1 DEF IsCode, Before
<1>3. RightNames /\ Made /\ Alive
  BY DEF Init, RightNames, Loaded, Made, Alive
<1> QED
  BY <1>2, <1>3 DEF SafeParts

LEMMA SafeNext ==
    ASSUME Order, SafeInv, [Next]_vars
    PROVE  SafeInv'
<1>0. AllGood' => AllGood
  <2>1. path' = path
    <3>1. ASSUME NEW t \in Threads, NEW c \in Names, Step(t, c) PROVE path' = path
      BY <3>1, TableSteps DEF Order, LifeInv, TypeInv
    <3> QED
      BY <3>1 DEF Next, RequestGC, Collect, vars
  <2> QED
    BY <2>1 DEF AllGood, Good, File
<1> SUFFICES ASSUME AllGood PROVE SafeParts'
  BY <1>0 DEF SafeInv
<1>1. SafeParts /\ TypeOK /\ TypeInv /\ LinksLoaded /\ LifeCycle
  BY DEF SafeInv, Order, LifeInv, TypeInv
<1>2. ASSUME NEW t \in Threads, NEW c \in Names, Step(t, c) PROVE SafeParts'
  <2>1. RightNames'
    BY <1>1, <1>2, TableStep DEF SafeParts
  <2>2. Made'
    BY <1>1, <1>2, Made1 DEF SafeParts
  <2>3. AllGrounded' /\ Alive'
    BY <1>1, <1>2, GroundedStep, AliveStep
  <2> QED
    BY <2>1, <2>2, <2>3 DEF SafeParts
<1>3. CASE RequestGC \/ UNCHANGED vars
  <2>1. UNCHANGED <<path, cont, classTable, linked, staticVars, process>>
    BY <1>3 DEF RequestGC, vars
  <2> QED
    BY <1>1, <2>1 DEF SafeParts, RightNames, Made, AllGrounded, Alive, LoadedNames, Loaded,
       FileOf, File
<1>4. CASE Collect
  <2>1. UNCHANGED <<path, classTable, linked, staticVars, process>> /\ process = "runs"
    BY <1>4 DEF Collect
  <2>2. RightNames' /\ Made' /\ Alive' /\ LoadedNames' = LoadedNames
    BY <1>1, <2>1 DEF SafeParts, RightNames, Made, Alive, LoadedNames, Loaded, FileOf, File
  <2>3. ASSUME NEW t \in Threads, NEW k \in Takes
        PROVE  Covered(cont'[t], k, {"load"}, LoadedNames')
    <3>1. Covered(cont[t], k, {"load"}, LoadedNames)
      BY <1>1 DEF SafeParts, AllGrounded, Grounded
    <3> QED
      BY <1>1, <1>4, <2>2, <3>1, CoveredCollect
  <2> QED
    BY <2>2, <2>3 DEF SafeParts, AllGrounded, Grounded
<1> QED
  BY <1>2, <1>3, <1>4 DEF Next

\* JavaClass.cpp:94 and 111, Interpreter.cpp:1465 and 1516: if every class is there to be
\* loaded, nobody dereferences a null class but where one is looked up that was never
\* loaded, and no static variable is missing but one of a super-class that was never
\* linked, whatever threads and initializers use the classes, and in whatever order.
THEOREM SafeWhenComplete == Spec => []SafeOnCompletePath
<1> DEFINE I == Order /\ SafeInv
<1>1. Init => I
  <2>1. Init => SupersDue
    BY DEF Init, SupersDue, Due, Loaded
  <2> QED
    BY <2>1, LifeInit, AccessesInit, SafeInit DEF Order
<1>2. I /\ [Next]_vars => I'
  BY LifeStep, AccessesNext, SupersNext, SafeNext DEF Order, LifeInv
<1>3. I => SafeOnCompletePath
  BY DEF SafeInv, AllGood, SafeParts, Alive, SafeOnCompletePath
<1> QED
  BY <1>1, <1>2, <1>3, PTL DEF Spec
=============================================================================

----------------------------- MODULE NestedProofs -----------------------------
(***************************************************************************)
(* Proofs about NestedValues, for types of any depth, columns and lists of *)
(* any length, and any text of the keys of maps.                           *)
(***************************************************************************)
EXTENDS NestedValues, SequenceTheorems, WellFoundedInduction, TLAPS

-----------------------------------------------------------------------------
(* Induction.  What holds for all numbers is stated as a set of numbers, so *)
(* that the well-foundedness of < can be cited.                             *)

(* Every number up to a bound is in a set that has 0 and each successor.    *)
LEMMA UpToInduction ==
    ASSUME NEW max \in Nat, NEW T, 0 \in T,
           \A n \in 0..(max - 1) : n \in T => n + 1 \in T
    PROVE  0..max \subseteq T
<1> SUFFICES ASSUME (0..max) \ T # {} PROVE FALSE
  OBVIOUS
<1>1. (0..max) \ T \subseteq Nat
  OBVIOUS
<1>2. PICK x \in (0..max) \ T : \A y \in (0..max) \ T : ~ (<<y, x>> \in OpToRel(<, Nat))
  BY <1>1, WFMin, NatLessThanWellFounded
<1>3. x # 0 /\ x - 1 \in 0..(max - 1) /\ x - 1 \in 0..max /\ (x - 1) + 1 = x
  OBVIOUS
<1>4. x \in Nat /\ x - 1 \in Nat /\ x - 1 < x
  BY <1>3
<1>5. <<x - 1, x>> \in OpToRel(<, Nat)
  BY <1>4 DEF OpToRel
<1>6. x - 1 \in T
  BY <1>2, <1>3, <1>5
<1> QED BY <1>3, <1>6

-----------------------------------------------------------------------------
(* The values of a type *)

(* The types that are not nested deeper than n. *)
UpTo(n) == {t \in Types : Depth[t] <= n}

LEMMA TypesUpTo ==
    /\ UpTo(MaxDepth) = Types
    /\ \A n \in Nat : \A t \in UpTo(n + 1) : \A c \in Components(t) : c \in UpTo(n)
    /\ \A t \in UpTo(0) : Components(t) = {}
<1>1. \A t \in Types : Depth[t] \in 0..MaxDepth
  BY TypesAssumption
<1>2. \A t \in Types : \A c \in Components(t) : c \in Types /\ Depth[c] < Depth[t]
  BY TypesAssumption
<1>3. MaxDepth \in Nat
  BY NestedAssumption
<1>4. UpTo(MaxDepth) = Types
  BY <1>1, <1>3 DEF UpTo
<1>5. ASSUME NEW n \in Nat, NEW t \in UpTo(n + 1), NEW c \in Components(t)
      PROVE  c \in UpTo(n)
  <2>1. t \in Types /\ Depth[t] <= n + 1 /\ c \in Types /\ Depth[c] < Depth[t]
    BY <1>2 DEF UpTo
  <2>2. Depth[t] \in Nat /\ Depth[c] \in Nat
    BY <1>1, <2>1
  <2> QED BY <2>1, <2>2 DEF UpTo
<1>6. ASSUME NEW t \in UpTo(0), NEW c \in Components(t)
      PROVE  FALSE
  <2>1. t \in Types /\ Depth[t] <= 0 /\ c \in Types /\ Depth[c] < Depth[t]
    BY <1>2 DEF UpTo
  <2>2. Depth[t] \in Nat /\ Depth[c] \in Nat
    BY <1>1, <2>1
  <2> QED BY <2>1, <2>2
<1> QED BY <1>4, <1>5, <1>6

LEMMA UpToGrows == \A n \in Nat : UpTo(n) \subseteq UpTo(n + 1)
<1>1. \A t \in Types : Depth[t] \in Nat
  BY TypesAssumption
<1> QED BY <1>1 DEF UpTo

(* The kinds of types, and what is known of the components of each. *)
LEMMA Kinds ==
    ASSUME NEW t \in Types
    PROVE  \/ t.id = "SCALAR"
           \/ t.id = "LIST" /\ t.child \in Components(t)
           \/ t.id = "ARRAY" /\ t.child \in Components(t) /\ t.size \in Nat
           \/ t.id = "MAP" /\ t.key \in Components(t) /\ t.value \in Components(t)
           \/ /\ t.id \in {"STRUCT", "UNION", "VARIANT"}
              /\ t.children \in Seq(Types)
              /\ \A i \in DOMAIN t.children : t.children[i] \in Components(t)
<1>1. t.id = "LIST" => t.child \in Components(t)
  BY DEF Components
<1>2. t.id = "ARRAY" => t.child \in Components(t) /\ t.size \in Nat
  BY TypesAssumption DEF Components
<1>3. t.id = "MAP" => t.key \in Components(t) /\ t.value \in Components(t)
  BY DEF Components
<1>4. ASSUME t.id \in {"STRUCT", "UNION", "VARIANT"}
      PROVE  /\ t.children \in Seq(Types)
             /\ \A i \in DOMAIN t.children : t.children[i] \in Components(t)
  <2>1. Components(t) = Range(t.children)
    BY <1>4 DEF Components
  <2> QED BY <1>4, <2>1, TypesAssumption DEF Range
<1> QED BY <1>1, <1>2, <1>3, <1>4, TypesAssumption

(* The values of a type depend on those of its components only. *)
LEMMA ValuesLocal ==
    ASSUME NEW t \in Types, NEW f, NEW g, \A c \in Components(t) : f[c] = g[c]
    PROVE  ValuesOf(t, f) = ValuesOf(t, g)
<1>1. CASE t.id = "SCALAR"
  BY <1>1 DEF ValuesOf
<1>2. CASE t.id = "LIST" /\ t.child \in Components(t)
  BY <1>2 DEF ValuesOf
<1>3. CASE t.id = "ARRAY" /\ t.child \in Components(t)
  BY <1>3 DEF ValuesOf
<1>4. CASE t.id = "MAP" /\ t.key \in Components(t) /\ t.value \in Components(t)
  BY <1>4 DEF ValuesOf
<1>5. CASE /\ t.id \in {"STRUCT", "UNION", "VARIANT"}
           /\ \A i \in DOMAIN t.children : t.children[i] \in Components(t)
  <2>1. CASE t.id = "STRUCT"
    <3>1. \A c \in Range(t.children) : f[c] = g[c]
      BY <1>5 DEF Range
    <3>2. {f[c] : c \in Range(t.children)} = {g[c] : c \in Range(t.children)}
      BY <3>1
    <3>3. \A v : (\A i \in DOMAIN t.children : v[i] \in f[t.children[i]])
                    <=> (\A i \in DOMAIN t.children : v[i] \in g[t.children[i]])
      BY <1>5
    <3>4. {v \in [DOMAIN t.children -> UNION {f[c] : c \in Range(t.children)}] :
                \A i \in DOMAIN t.children : v[i] \in f[t.children[i]]}
          = {v \in [DOMAIN t.children -> UNION {g[c] : c \in Range(t.children)}] :
                \A i \in DOMAIN t.children : v[i] \in g[t.children[i]]}
      BY <3>2, <3>3
    <3> QED BY <2>1, <3>4 DEF ValuesOf
  <2>2. CASE t.id \in {"UNION", "VARIANT"}
    <3>1. {[tag : {i}, value : f[t.children[i]]] : i \in DOMAIN t.children}
          = {[tag : {i}, value : g[t.children[i]]] : i \in DOMAIN t.children}
      BY <1>5
    <3> QED BY <2>2, <3>1 DEF ValuesOf
  <2> QED BY <1>5, <2>1, <2>2
<1> QED BY <1>1, <1>2, <1>3, <1>4, <1>5, Kinds

(* So Values is as its equation says. *)
LEMMA ValuesEquation ==
    Values = [t \in Types |-> ValuesOf(t, Values)]
<1> DEFINE U == {n \in Nat : \E f : f = [t \in UpTo(n) |-> ValuesOf(t, f)]}
<1>1. 0 \in U
  <2> DEFINE f == [t \in UpTo(0) |-> ValuesOf(t, <<>>)]
  <2>1. ASSUME NEW t \in UpTo(0) PROVE ValuesOf(t, f) = ValuesOf(t, <<>>)
    <3>1. t \in Types /\ Components(t) = {}
      BY TypesUpTo DEF UpTo
    <3> HIDE DEF f
    <3> QED BY <3>1, ValuesLocal
  <2>2. f = [t \in UpTo(0) |-> ValuesOf(t, f)]
    BY <2>1, Zenon
  <2> HIDE DEF f
  <2> QED BY <2>2
<1>2. ASSUME NEW n \in 0..(MaxDepth - 1), n \in U PROVE n + 1 \in U
  <2>1. PICK f : f = [t \in UpTo(n) |-> ValuesOf(t, f)]
    BY <1>2
  <2> DEFINE g == [t \in UpTo(n + 1) |-> ValuesOf(t, f)]
  <2>2. ASSUME NEW t \in UpTo(n + 1) PROVE ValuesOf(t, g) = ValuesOf(t, f)
    <3>1. t \in Types /\ \A c \in Components(t) : c \in UpTo(n) /\ c \in UpTo(n + 1)
      BY UpToGrows, TypesUpTo DEF UpTo
    <3>2. \A c \in Components(t) : g[c] = ValuesOf(c, f) /\ f[c] = ValuesOf(c, f)
      BY <2>1, <3>1, Zenon
    <3> HIDE DEF g
    <3> QED BY <3>1, <3>2, ValuesLocal
  <2>3. g = [t \in UpTo(n + 1) |-> ValuesOf(t, g)]
    BY <2>2, Zenon
  <2> HIDE DEF g
  <2> QED BY <2>3
<1> HIDE DEF U
<1>3. MaxDepth \in U
  <2>1. MaxDepth \in Nat /\ MaxDepth \in 0..MaxDepth
    BY NestedAssumption
  <2> QED BY <1>1, <1>2, <2>1, UpToInduction
<1>4. \E f : f = [t \in Types |-> ValuesOf(t, f)]
  BY <1>3, TypesUpTo DEF U
<1> QED BY <1>4, Zenon DEF Values

(* What a value is that is not NULL. *)
LEMMA ValueOf ==
    ASSUME NEW t \in Types, NEW v \in Values[t], v # Nil
    PROVE  /\ t.id = "LIST" => v \in Seq(Values[t.child])
           /\ t.id = "ARRAY" => v \in [1..t.size -> Values[t.child]]
           /\ t.id = "STRUCT" => /\ DOMAIN v = DOMAIN t.children
                                 /\ \A i \in DOMAIN v : v[i] \in Values[t.children[i]]
           /\ t.id = "MAP" => v \in Seq(Values[t.key] \X Values[t.value])
           /\ t.id \in {"UNION", "VARIANT"} => /\ v.tag \in DOMAIN t.children
                                               /\ v.value \in Values[t.children[v.tag]]
<1>1. v \in ValuesOf(t, Values)
  BY ValuesEquation
<1>2. MaxLength \in Nat
  BY NestedAssumption
<1>3. ASSUME t.id = "LIST" PROVE v \in Seq(Values[t.child])
  <2>1. v \in ListsOf(Values[t.child])
    BY <1>1, <1>3 DEF ValuesOf
  <2>2. PICK n \in 0..MaxLength : v \in [1..n -> Values[t.child]]
    BY <2>1 DEF ListsOf
  <2> QED BY <2>2
<1>4. ASSUME t.id = "ARRAY" PROVE v \in [1..t.size -> Values[t.child]]
  BY <1>1, <1>4 DEF ValuesOf
<1>5. ASSUME t.id = "STRUCT"
      PROVE  DOMAIN v = DOMAIN t.children /\ \A i \in DOMAIN v : v[i] \in Values[t.children[i]]
  BY <1>1, <1>5 DEF ValuesOf
<1>6. ASSUME t.id = "MAP" PROVE v \in Seq(Values[t.key] \X Values[t.value])
  <2>1. v \in ListsOf((Values[t.key] \ {Nil}) \X Values[t.value])
    BY <1>1, <1>6 DEF ValuesOf
  <2>2. PICK n \in 0..MaxLength : v \in [1..n -> (Values[t.key] \ {Nil}) \X Values[t.value]]
    BY <2>1 DEF ListsOf
  <2>3. v \in [1..n -> Values[t.key] \X Values[t.value]]
    BY <2>2
  <2> QED BY <2>3
<1>7. ASSUME t.id \in {"UNION", "VARIANT"}
      PROVE  v.tag \in DOMAIN t.children /\ v.value \in Values[t.children[v.tag]]
  <2>1. v \in UNION {[tag : {i}, value : Values[t.children[i]]] : i \in DOMAIN t.children}
    BY <1>1, <1>7 DEF ValuesOf
  <2>2. PICK i \in DOMAIN t.children : v \in [tag : {i}, value : Values[t.children[i]]]
    BY <2>1
  <2> QED BY <2>2
<1> QED BY <1>3, <1>4, <1>5, <1>6, <1>7

LEMMA NilIsAValue == \A t \in Types : Nil \in Values[t]
<1> SUFFICES ASSUME NEW t \in Types PROVE Nil \in Values[t]
  OBVIOUS
<1>1. Values[t] = ValuesOf(t, Values)
  BY ValuesEquation
<1> QED BY <1>1 DEF ValuesOf

-----------------------------------------------------------------------------
(* Sequences of sequences, one after the other *)

(* What FlattenSeq computes, on the way. *)
Flattening(parts, f) ==
    /\ FlattenSeq(parts) = f[Len(parts)]
    /\ f[1] = parts[1]
    /\ \A i \in 2..Len(parts) : f[i] = f[i - 1] \o parts[i]

LEMMA FlatteningTable ==
    ASSUME NEW V, NEW parts \in Seq(Seq(V)), Len(parts) # 0
    PROVE  \E f : Flattening(parts, f)
<1> DEFINE next(f, i) == IF i = 1 THEN parts[i] ELSE f[i - 1] \o parts[i]
           U == {n \in Nat : \E f : f = [i \in 1..n |-> next(f, i)]}
<1>1. 0 \in U
  <2> DEFINE f == [i \in 1..0 |-> <<>>]
  <2>1. f = [i \in 1..0 |-> next(f, i)]
    OBVIOUS
  <2> HIDE DEF f, next
  <2> QED BY <2>1
<1>2. ASSUME NEW n \in 0..(Len(parts) - 1), n \in U PROVE n + 1 \in U
  <2>1. PICK f : f = [i \in 1..n |-> next(f, i)]
    BY <1>2
  <2> DEFINE g == [i \in 1..n + 1 |-> next(f, i)]
  <2>2. ASSUME NEW i \in 1..n + 1 PROVE next(g, i) = next(f, i)
    <3>1. CASE i = 1
      BY <3>1
    <3>2. CASE i # 1
      <4>1. i - 1 \in 1..n /\ i - 1 \in 1..n + 1
        BY <3>2
      <4>2. f[i - 1] = next(f, i - 1) /\ g[i - 1] = next(f, i - 1)
        <5> HIDE DEF next
        <5> QED BY <2>1, <4>1, Zenon
      <4> HIDE DEF g
      <4> QED BY <3>2, <4>2
    <3> QED BY <3>1, <3>2
  <2>3. g = [i \in 1..n + 1 |-> next(g, i)]
    <3> HIDE DEF next
    <3> QED BY <2>2, Zenon
  <2> HIDE DEF g, next
  <2> QED BY <2>3
<1> HIDE DEF U
<1>3. Len(parts) \in U
  <2>1. Len(parts) \in Nat /\ Len(parts) \in 0..Len(parts)
    OBVIOUS
  <2> QED BY <1>1, <1>2, <2>1, UpToInduction
<1>4. \E f : f = [i \in 1..Len(parts) |-> IF i = 1 THEN parts[i] ELSE f[i - 1] \o parts[i]]
  BY <1>3 DEF U
<1>5. PICK f : /\ FlattenSeq(parts) = f[Len(parts)]
               /\ f = [i \in 1..Len(parts) |->
                          IF i = 1 THEN parts[i] ELSE f[i - 1] \o parts[i]]
  BY <1>4, Zenon DEF FlattenSeq
<1>6. 1 \in 1..Len(parts) /\ \A i \in 2..Len(parts) : i \in 1..Len(parts) /\ i # 1
  OBVIOUS
<1>7. f[1] = parts[1] /\ \A i \in 2..Len(parts) : f[i] = f[i - 1] \o parts[i]
  BY <1>5, <1>6, Zenon
<1> QED BY <1>5, <1>7 DEF Flattening

(* The first n parts, one after the other. *)
Flat(parts, n) == FlattenSeq(SubSeq(parts, 1, n))

LEMMA FlatEnds ==
    ASSUME NEW V, NEW parts \in Seq(Seq(V))
    PROVE  Flat(parts, 0) = <<>> /\ Flat(parts, Len(parts)) = FlattenSeq(parts)
<1>1. SubSeq(parts, 1, 0) = <<>> /\ SubSeq(parts, 1, Len(parts)) = parts
  BY SubSeqEmpty, SubSeqFull
<1>2. FlattenSeq(<<>>) = <<>>
  BY DEF FlattenSeq
<1> QED BY <1>1, <1>2 DEF Flat

LEMMA FlatTable ==
    ASSUME NEW V, NEW parts \in Seq(Seq(V)), NEW f, Flattening(parts, f), Len(parts) # 0
    PROVE  \A n \in 1..Len(parts) : Flat(parts, n) = f[n]
<1> SUFFICES ASSUME NEW n \in 1..Len(parts) PROVE Flat(parts, n) = f[n]
  OBVIOUS
<1>1. PICK s \in Seq(Seq(V)) : /\ s = SubSeq(parts, 1, n)
                               /\ Len(s) = n /\ \A i \in 1..n : s[i] = parts[i]
  <2>1. /\ SubSeq(parts, 1, n) \in Seq(Seq(V)) /\ Len(SubSeq(parts, 1, n)) = n
        /\ \A i \in 1..n : SubSeq(parts, 1, n)[i] = parts[i]
    OBVIOUS
  <2> QED BY <2>1
<1>2. PICK g : Flattening(s, g)
  <2>1. Len(s) # 0
    BY <1>1
  <2>2. \E g : Flattening(s, g)
    BY <2>1, FlatteningTable
  <2> QED BY <2>2
<1> DEFINE U == {i \in Nat : g[i + 1] = f[i + 1]}
<1>3. 0 \in U
  <2>1. g[1] = s[1] /\ f[1] = parts[1] /\ 1 \in 1..n
    BY <1>2 DEF Flattening
  <2> QED BY <1>1, <2>1
<1>4. ASSUME NEW i \in 0..((n - 1) - 1), i \in U PROVE i + 1 \in U
  <2>1. PICK j \in 2..n : /\ j = i + 2 /\ j - 1 = i + 1 /\ j \in 1..n /\ j \in 2..Len(parts)
                          /\ j = (i + 1) + 1
    OBVIOUS
  <2>2. g[j] = g[i + 1] \o s[j] /\ f[j] = f[i + 1] \o parts[j]
    BY <1>1, <1>2, <2>1 DEF Flattening
  <2>3. g[i + 1] = f[i + 1] /\ s[j] = parts[j]
    BY <1>1, <1>4, <2>1
  <2>4. g[j] = f[j]
    BY <2>2, <2>3
  <2> QED BY <2>1, <2>4
<1> HIDE DEF U
<1>5. n - 1 \in U
  <2>1. n - 1 \in Nat /\ n - 1 \in 0..(n - 1)
    OBVIOUS
  <2> QED BY <1>3, <1>4, <2>1, UpToInduction
<1>6. g[n] = f[n]
  <2>1. (n - 1) + 1 = n
    OBVIOUS
  <2> QED BY <1>5, <2>1 DEF U
<1> QED BY <1>1, <1>2, <1>6 DEF Flattening, Flat

(* One more part. *)
LEMMA FlatNext ==
    ASSUME NEW V, NEW parts \in Seq(Seq(V)), NEW n \in 0..(Len(parts) - 1)
    PROVE  Flat(parts, n + 1) = Flat(parts, n) \o parts[n + 1]
<1>1. PICK f : Flattening(parts, f)
  BY FlatteningTable
<1>2. \A i \in 1..Len(parts) : Flat(parts, i) = f[i]
  BY <1>1, FlatTable
<1>3. CASE n = 0
  <2>1. Flat(parts, 1) = parts[1] /\ 1 \in 1..Len(parts)
    BY <1>1, <1>2, <1>3 DEF Flattening
  <2>2. <<>> \o parts[1] = parts[1]
    BY <2>1
  <2> QED BY <1>3, <2>1, <2>2, FlatEnds
<1>4. CASE n # 0
  <2>1. n \in 1..Len(parts) /\ n + 1 \in 1..Len(parts) /\ n + 1 \in 2..Len(parts)
        /\ (n + 1) - 1 = n
    BY <1>4
  <2>2. f[n + 1] = f[n] \o parts[n + 1]
    BY <1>1, <2>1 DEF Flattening
  <2> QED BY <1>2, <2>1, <2>2
<1> QED BY <1>3, <1>4

LEMMA FlatType ==
    ASSUME NEW V, NEW parts \in Seq(Seq(V))
    PROVE  \A n \in 0..Len(parts) : Flat(parts, n) \in Seq(V)
<1> DEFINE U == {n \in Nat : Flat(parts, n) \in Seq(V)}
<1>1. 0 \in U
  <2>1. <<>> \in Seq(V)
    OBVIOUS
  <2> QED BY <2>1, FlatEnds
<1>2. ASSUME NEW n \in 0..(Len(parts) - 1), n \in U PROVE n + 1 \in U
  <2>1. Flat(parts, n) \in Seq(V) /\ parts[n + 1] \in Seq(V)
    BY <1>2
  <2>2. Flat(parts, n + 1) \in Seq(V)
    BY <2>1, FlatNext, ConcatProperties
  <2> QED BY <2>2
<1> HIDE DEF U
<1>3. 0..Len(parts) \subseteq U
  <2>1. Len(parts) \in Nat
    OBVIOUS
  <2> QED BY ONLY <1>1, <1>2, <2>1, UpToInduction
<1> QED BY <1>3 DEF U

LEMMA Concatenated ==
    ASSUME NEW V, NEW s \in Seq(V), NEW q \in Seq(V)
    PROVE  /\ Len(s \o q) = Len(s) + Len(q)
           /\ \A k \in 1..Len(s) : (s \o q)[k] = s[k]
           /\ \A k \in 1..Len(q) : (s \o q)[Len(s) + k] = q[k]
  OBVIOUS

(***************************************************************************)
(* The elements of a part are behind those of the parts before it.         *)
(***************************************************************************)
LEMMA FlatAt ==
    ASSUME NEW V, NEW parts \in Seq(Seq(V)), NEW r \in 0..(Len(parts) - 1)
    PROVE  /\ Len(Flat(parts, r)) + Len(parts[r + 1]) <= Len(FlattenSeq(parts))
           /\ \A i \in 1..Len(parts[r + 1]) :
                 FlattenSeq(parts)[Len(Flat(parts, r)) + i] = parts[r + 1][i]
<1>1. PICK p \in Seq(V) : p = parts[r + 1]
  <2>1. parts[r + 1] \in Seq(V)
    OBVIOUS
  <2> QED BY <2>1
<1>2. PICK before \in Seq(V) : before = Flat(parts, r)
  <2>1. Flat(parts, r) \in Seq(V)
    BY FlatType
  <2> QED BY <2>1
<1> DEFINE Has(n) == /\ Len(before) + Len(p) <= Len(Flat(parts, n))
                     /\ \A i \in 1..Len(p) : Flat(parts, n)[Len(before) + i] = p[i]
           U == {n \in Nat : r + 1 <= n => Has(n)}
<1>3. 0 \in U
  OBVIOUS
<1>4. ASSUME NEW n \in 0..(Len(parts) - 1), n \in U PROVE n + 1 \in U
  <2> SUFFICES ASSUME r + 1 <= n + 1 PROVE Has(n + 1)
    OBVIOUS
  <2>1. PICK s \in Seq(V) : s = Flat(parts, n)
    <3>1. n \in 0..Len(parts) /\ Flat(parts, n) \in Seq(V)
      BY FlatType
    <3> QED BY <3>1
  <2>2. PICK q \in Seq(V) : q = parts[n + 1]
    <3>1. parts[n + 1] \in Seq(V)
      OBVIOUS
    <3> QED BY <3>1
  <2>3. PICK u \in Seq(V) : u = Flat(parts, n + 1) /\ u = s \o q
    <3>1. Flat(parts, n + 1) = s \o q /\ s \o q \in Seq(V)
      BY <2>1, <2>2, FlatNext, ConcatProperties
    <3> QED BY <3>1
  <2>4. /\ Len(u) = Len(s) + Len(q)
        /\ \A k \in 1..Len(s) : u[k] = s[k]
        /\ \A k \in 1..Len(q) : u[Len(s) + k] = q[k]
    BY <2>3, Concatenated
  <2>5. CASE n = r
    <3>1. s = before /\ q = p
      BY <1>1, <1>2, <2>1, <2>2, <2>5
    <3> QED BY <2>3, <2>4, <3>1
  <2>6. CASE n # r
    <3>1. Has(n)
      <4>1. r + 1 <= n
        BY <2>6
      <4> HIDE DEF Has
      <4> QED BY <1>4, <4>1
    <3>2. /\ Len(before) + Len(p) <= Len(s)
          /\ \A i \in 1..Len(p) : s[Len(before) + i] = p[i]
      BY <2>1, <3>1
    <3>3. Len(before) \in Nat /\ Len(p) \in Nat /\ Len(s) \in Nat /\ Len(q) \in Nat
      OBVIOUS
    <3> HIDE DEF Has
    <3>4. \A i \in 1..Len(p) : Len(before) + i \in 1..Len(s)
      BY <3>2, <3>3
    <3>5. \A i \in 1..Len(p) : u[Len(before) + i] = p[i]
      BY <2>4, <3>2, <3>4
    <3>6. Len(before) + Len(p) <= Len(u)
      BY <2>4, <3>2, <3>3
    <3> QED BY <2>3, <3>5, <3>6 DEF Has
  <2> QED BY <2>5, <2>6
<1> HIDE DEF U
<1>5. Len(parts) \in U
  <2>1. Len(parts) \in Nat /\ Len(parts) \in 0..Len(parts)
    OBVIOUS
  <2> QED BY <1>3, <1>4, <2>1, UpToInduction
<1>6. Has(Len(parts))
  BY <1>5 DEF U
<1> QED BY <1>1, <1>2, <1>6, FlatEnds

-----------------------------------------------------------------------------
(* The child vectors *)

ElementsOf(rows) == [r \in DOMAIN rows |-> IF rows[r] = Nil THEN <<>> ELSE rows[r]]

(* The elements of a list are where DuckDB's entry says.                    *)
ListAt(V, rows, row) ==
    /\ Elements(rows) \in Seq(V)
    /\ Offsets(rows, row).length = Len(rows[row + 1])
    /\ Offsets(rows, row).offset \in Nat
    /\ \A i \in 1..Len(rows[row + 1]) :
          /\ Offsets(rows, row).offset + i \in 1..Len(Elements(rows))
          /\ Elements(rows)[Offsets(rows, row).offset + i] = rows[row + 1][i]

LEMMA ListLaidOut ==
    ASSUME NEW V, NEW S, NEW rows \in Seq(S), \A v \in S : v # Nil => v \in Seq(V),
           NEW row \in 0..Len(rows) - 1, Valid(rows, row)
    PROVE  ListAt(V, rows, row)
<1>1. PICK parts \in Seq(Seq(V)) : /\ parts = ElementsOf(rows) /\ Len(parts) = Len(rows)
                                   /\ Elements(rows) = FlattenSeq(parts)
  <2>1. <<>> \in Seq(V)
    OBVIOUS
  <2>2. ElementsOf(rows) \in [1..Len(rows) -> Seq(V)]
    BY <2>1 DEF ElementsOf
  <2>3. ElementsOf(rows) \in Seq(Seq(V)) /\ Len(ElementsOf(rows)) = Len(rows)
    BY <2>2
  <2> QED BY <2>3 DEF Elements, ElementsOf
<1>2. row + 1 \in 1..Len(rows) /\ row \in 0..(Len(parts) - 1) /\ row \in 0..Len(parts)
  BY <1>1
<1>3. parts[row + 1] = rows[row + 1] /\ rows[row + 1] \in Seq(V)
  BY <1>1, <1>2 DEF ElementsOf, Valid
<1>4. Elements(SubSeq(rows, 1, row)) = Flat(parts, row)
  <2>1. PICK first \in Seq(S) : /\ first = SubSeq(rows, 1, row)
                                /\ Len(first) = row /\ \A i \in 1..row : first[i] = rows[i]
    <3>1. /\ SubSeq(rows, 1, row) \in Seq(S) /\ Len(SubSeq(rows, 1, row)) = row
          /\ \A i \in 1..row : SubSeq(rows, 1, row)[i] = rows[i]
      OBVIOUS
    <3> QED BY <3>1
  <2>2. PICK some \in Seq(Seq(V)) : /\ some = SubSeq(parts, 1, row) /\ Len(some) = row
                                    /\ \A i \in 1..row : some[i] = parts[i]
    <3>1. /\ SubSeq(parts, 1, row) \in Seq(Seq(V)) /\ Len(SubSeq(parts, 1, row)) = row
          /\ \A i \in 1..row : SubSeq(parts, 1, row)[i] = parts[i]
      BY <1>2
    <3> QED BY <3>1
  <2>3. ElementsOf(first) = [i \in 1..row |-> parts[i]]
    <3>1. \A i \in 1..row : parts[i] = IF first[i] = Nil THEN <<>> ELSE first[i]
      BY <1>1, <2>1 DEF ElementsOf
    <3>2. DOMAIN first = 1..row
      BY <2>1
    <3> QED BY <3>1, <3>2 DEF ElementsOf
  <2>4. some = [i \in 1..row |-> parts[i]]
    BY <2>2
  <2> QED BY <2>1, <2>2, <2>3, <2>4 DEF Elements, ElementsOf, Flat
<1>5. PICK offset \in Nat : offset = Len(Flat(parts, row))
  <2>1. Flat(parts, row) \in Seq(V)
    BY <1>2, FlatType
  <2> QED BY <2>1
<1>6. Offsets(rows, row).offset = offset /\ Offsets(rows, row).length = Len(rows[row + 1])
  BY <1>4, <1>5 DEF Offsets
<1>7. Elements(rows) \in Seq(V)
  <2>1. Len(parts) \in 0..Len(parts)
    BY <1>1
  <2> QED BY <1>1, <2>1, FlatType, FlatEnds
<1>8. /\ offset + Len(rows[row + 1]) <= Len(Elements(rows))
      /\ \A i \in 1..Len(rows[row + 1]) : Elements(rows)[offset + i] = rows[row + 1][i]
  <2>1. /\ Len(Flat(parts, row)) + Len(parts[row + 1]) <= Len(FlattenSeq(parts))
        /\ \A i \in 1..Len(parts[row + 1]) :
              FlattenSeq(parts)[Len(Flat(parts, row)) + i] = parts[row + 1][i]
    BY <1>2, FlatAt
  <2> QED BY <1>1, <1>3, <1>5, <2>1
<1>9. \A i \in 1..Len(rows[row + 1]) : offset + i \in 1..Len(Elements(rows))
  <2>1. Len(Elements(rows)) \in Nat /\ Len(rows[row + 1]) \in Nat
    BY <1>3, <1>7
  <2> QED BY <1>8, <2>1
<1> QED BY <1>6, <1>7, <1>8, <1>9 DEF ListAt

SlotsOf(rows, size) ==
    [r \in DOMAIN rows |-> IF rows[r] = Nil THEN [i \in 1..size |-> Nil] ELSE rows[r]]

(* A sum of equal numbers. *)
LEMMA OneMore == \A n, size \in Nat : (n + 1) * size = n * size + size /\ n * size \in Nat
  OBVIOUS

(* The elements of an array are at a multiple of the arrays' size.          *)
ArrayAt(V, size, rows, row) ==
    /\ Slots(rows, size) \in Seq(V)
    /\ \A i \in 1..size :
          /\ ArrayElement(row, size, i - 1) \in 0..Len(Slots(rows, size)) - 1
          /\ Slots(rows, size)[ArrayElement(row, size, i - 1) + 1] = rows[row + 1][i]

LEMMA ArrayLaidOut ==
    ASSUME NEW V, Nil \in V, NEW size \in Nat, NEW S, NEW rows \in Seq(S),
           \A v \in S : v # Nil => v \in [1..size -> V],
           NEW row \in 0..Len(rows) - 1, Valid(rows, row)
    PROVE  ArrayAt(V, size, rows, row)
<1>1. PICK parts \in Seq(Seq(V)) : /\ parts = SlotsOf(rows, size) /\ Len(parts) = Len(rows)
                                   /\ Slots(rows, size) = FlattenSeq(parts)
                                   /\ \A r \in 1..Len(rows) : Len(parts[r]) = size
  <2>1. SlotsOf(rows, size) \in [1..Len(rows) -> [1..size -> V]]
    BY DEF SlotsOf
  <2>2. \A p \in [1..size -> V] : p \in Seq(V) /\ Len(p) = size
    OBVIOUS
  <2>3. SlotsOf(rows, size) \in Seq(Seq(V)) /\ Len(SlotsOf(rows, size)) = Len(rows)
    BY <2>1, <2>2
  <2>4. \A r \in 1..Len(rows) : Len(SlotsOf(rows, size)[r]) = size
    BY <2>1, <2>2
  <2> QED BY <2>3, <2>4 DEF Slots, SlotsOf
<1>2. row + 1 \in 1..Len(rows) /\ row \in 0..(Len(parts) - 1) /\ row \in 0..Len(parts)
  BY <1>1
<1>3. parts[row + 1] = rows[row + 1]
  BY <1>1, <1>2 DEF SlotsOf, Valid
<1> DEFINE U == {n \in Nat : Len(Flat(parts, n)) = n * size}
<1>4. 0 \in U
  BY FlatEnds
<1>5. ASSUME NEW n \in 0..(Len(parts) - 1), n \in U PROVE n + 1 \in U
  <2>1. Flat(parts, n) \in Seq(V)
    <3>1. n \in 0..Len(parts)
      OBVIOUS
    <3> QED BY <3>1, FlatType
  <2>2. parts[n + 1] \in Seq(V) /\ Len(parts[n + 1]) = size
    <3>1. n + 1 \in 1..Len(parts) /\ n + 1 \in 1..Len(rows)
      BY <1>1
    <3> QED BY <1>1, <3>1
  <2>3. Flat(parts, n + 1) = Flat(parts, n) \o parts[n + 1]
    BY FlatNext
  <2>4. Len(Flat(parts, n + 1)) = Len(Flat(parts, n)) + size
    <3>1. PICK s \in Seq(V), p \in Seq(V) : s = Flat(parts, n) /\ p = parts[n + 1]
      BY <2>1, <2>2
    <3>2. Len(s \o p) = Len(s) + Len(p)
      OBVIOUS
    <3> QED BY <2>2, <2>3, <3>1, <3>2
  <2>5. Len(Flat(parts, n + 1)) = (n + 1) * size
    BY <1>5, <2>4, OneMore
  <2> QED BY <2>5
<1> HIDE DEF U
<1>6. row \in U
  <2>1. Len(parts) \in Nat
    BY <1>1
  <2> QED BY <1>2, <1>4, <1>5, <2>1, UpToInduction
<1>7. PICK at \in Nat : at = row * size /\ at = Len(Flat(parts, row))
  BY <1>2, <1>6, OneMore DEF U
<1>8. Slots(rows, size) \in Seq(V)
  <2>1. Len(parts) \in 0..Len(parts)
    BY <1>1
  <2> QED BY <1>1, <2>1, FlatType, FlatEnds
<1>9. /\ at + size <= Len(Slots(rows, size))
      /\ \A i \in 1..size : Slots(rows, size)[at + i] = rows[row + 1][i]
  <2>1. /\ Len(Flat(parts, row)) + Len(parts[row + 1]) <= Len(FlattenSeq(parts))
        /\ \A i \in 1..Len(parts[row + 1]) :
              FlattenSeq(parts)[Len(Flat(parts, row)) + i] = parts[row + 1][i]
    BY <1>2, FlatAt
  <2>2. Len(parts[row + 1]) = size
    BY <1>1, <1>2
  <2> QED BY <1>1, <1>3, <1>7, <2>1, <2>2
<1>10. ASSUME NEW i \in 1..size
       PROVE  /\ ArrayElement(row, size, i - 1) + 1 = at + i
              /\ ArrayElement(row, size, i - 1) \in 0..Len(Slots(rows, size)) - 1
  <2>1. ArrayElement(row, size, i - 1) = at + (i - 1)
    BY <1>7 DEF ArrayElement
  <2>2. Len(Slots(rows, size)) \in Nat
    BY <1>8
  <2> QED BY <1>9, <2>1, <2>2
<1> QED BY <1>8, <1>9, <1>10 DEF ArrayAt

(* A member vector has a row for each row. *)
LEMMA MemberLaidOut ==
    ASSUME NEW V, Nil \in V, NEW S, NEW rows \in Seq(S), NEW i,
           \A v \in S : v # Nil => v[i] \in V,
           NEW row \in 0..Len(rows) - 1, Valid(rows, row)
    PROVE  /\ Member(rows, i) \in Seq(V)
           /\ row \in 0..Len(Member(rows, i)) - 1
           /\ Member(rows, i)[row + 1] = rows[row + 1][i]
<1>1. Member(rows, i) \in [1..Len(rows) -> V]
  BY DEF Member
<1>2. Member(rows, i) \in Seq(V) /\ Len(Member(rows, i)) = Len(rows)
  BY <1>1
<1>3. row + 1 \in DOMAIN rows
  OBVIOUS
<1>4. Member(rows, i)[row + 1] = rows[row + 1][i]
  BY <1>3 DEF Member, Valid
<1> QED BY <1>2, <1>4

MembersAt(V, entries, i) ==
    /\ EntryMember(entries, i) \in Seq(V)
    /\ Len(EntryMember(entries, i)) = Len(entries)
    /\ \A q \in 1..Len(entries) : EntryMember(entries, i)[q] = entries[q][i]

LEMMA EntriesLaidOut ==
    ASSUME NEW V, NEW S, NEW entries \in Seq(S), NEW i, \A e \in S : e[i] \in V
    PROVE  MembersAt(V, entries, i)
<1>1. EntryMember(entries, i) \in [1..Len(entries) -> V]
  BY DEF EntryMember
<1>2. \A q \in 1..Len(entries) : EntryMember(entries, i)[q] = entries[q][i]
  BY DEF EntryMember
<1> QED BY <1>1, <1>2 DEF MembersAt

LEMMA TaggedLaidOut ==
    ASSUME NEW V, Nil \in V, NEW S, NEW rows \in Seq(S), NEW i,
           \A v \in S : v # Nil /\ v.tag = i => v.value \in V,
           NEW row \in 0..Len(rows) - 1, Valid(rows, row), rows[row + 1].tag = i
    PROVE  /\ Tagged(rows, i) \in Seq(V)
           /\ row \in 0..Len(Tagged(rows, i)) - 1
           /\ Tagged(rows, i)[row + 1] = rows[row + 1].value
<1>1. Tagged(rows, i) \in [1..Len(rows) -> V]
  BY DEF Tagged
<1>2. Tagged(rows, i) \in Seq(V) /\ Len(Tagged(rows, i)) = Len(rows)
  BY <1>1
<1>3. row + 1 \in DOMAIN rows
  OBVIOUS
<1>4. Tagged(rows, i)[row + 1] = rows[row + 1].value
  BY <1>3 DEF Tagged, Valid
<1> QED BY <1>2, <1>4

-----------------------------------------------------------------------------
(* What a value is converted to depends on its components only, so Php and  *)
(* Converted are as their equations say.                                    *)

LEMMA PhpLocal ==
    ASSUME NEW t \in Types, NEW v \in Values[t], NEW f, NEW g,
           \A c \in Components(t) : f[c] = g[c]
    PROVE  PhpOf(t, f, v) = PhpOf(t, g, v)
<1>1. CASE v = Nil
  BY <1>1 DEF PhpOf
<1> SUFFICES ASSUME v # Nil PROVE PhpOf(t, f, v) = PhpOf(t, g, v)
  BY <1>1
<1>2. CASE t.id = "SCALAR"
  BY <1>2 DEF PhpOf
<1>3. CASE t.id \in {"LIST", "ARRAY"} /\ t.child \in Components(t)
  BY <1>3 DEF PhpOf
<1>4. CASE t.id = "MAP" /\ t.key \in Components(t) /\ t.value \in Components(t)
  BY <1>4 DEF PhpOf
<1>5. CASE /\ t.id \in {"STRUCT", "UNION", "VARIANT"}
           /\ \A i \in DOMAIN t.children : t.children[i] \in Components(t)
  <2>1. CASE t.id = "STRUCT"
    <3>1. \A i \in DOMAIN v : f[t.children[i]] = g[t.children[i]]
      BY <1>5, <2>1, ValueOf
    <3>2. [i \in DOMAIN v |-> f[t.children[i]][v[i]]] = [i \in DOMAIN v |-> g[t.children[i]][v[i]]]
      BY <3>1
    <3> QED BY <2>1, <3>2 DEF PhpOf
  <2>2. CASE t.id \in {"UNION", "VARIANT"}
    <3>1. f[t.children[v.tag]] = g[t.children[v.tag]]
      BY <1>5, <2>2, ValueOf
    <3> QED BY <2>2, <3>1 DEF PhpOf
  <2> QED BY <1>5, <2>1, <2>2
<1> QED BY <1>2, <1>3, <1>4, <1>5, Kinds

LEMMA PhpEquation ==
    Php = [t \in Types |-> [v \in Values[t] |-> PhpOf(t, Php, v)]]
<1> DEFINE next(t, f) == [v \in Values[t] |-> PhpOf(t, f, v)]
           U == {n \in Nat : \E f : f = [t \in UpTo(n) |-> next(t, f)]}
<1>1. ASSUME NEW t \in Types, NEW f, NEW g, \A c \in Components(t) : f[c] = g[c]
      PROVE  next(t, f) = next(t, g)
  <2>1. \A v \in Values[t] : PhpOf(t, f, v) = PhpOf(t, g, v)
    BY <1>1, PhpLocal
  <2> QED BY <2>1
<1> HIDE DEF next
<1>2. 0 \in U
  <2> DEFINE f == [t \in UpTo(0) |-> next(t, <<>>)]
  <2>1. ASSUME NEW t \in UpTo(0) PROVE next(t, f) = next(t, <<>>)
    <3>1. t \in Types /\ Components(t) = {}
      BY TypesUpTo DEF UpTo
    <3> HIDE DEF f
    <3> QED BY <1>1, <3>1
  <2>2. f = [t \in UpTo(0) |-> next(t, f)]
    BY <2>1, Zenon
  <2> HIDE DEF f
  <2> QED BY <2>2
<1>3. ASSUME NEW n \in 0..(MaxDepth - 1), n \in U PROVE n + 1 \in U
  <2>1. PICK f : f = [t \in UpTo(n) |-> next(t, f)]
    BY <1>3
  <2> DEFINE g == [t \in UpTo(n + 1) |-> next(t, f)]
  <2>2. ASSUME NEW t \in UpTo(n + 1) PROVE next(t, g) = next(t, f)
    <3>1. t \in Types /\ \A c \in Components(t) : c \in UpTo(n) /\ c \in UpTo(n + 1)
      BY UpToGrows, TypesUpTo DEF UpTo
    <3>2. \A c \in Components(t) : g[c] = next(c, f) /\ f[c] = next(c, f)
      BY <2>1, <3>1, Zenon
    <3> HIDE DEF g
    <3> QED BY <1>1, <3>1, <3>2
  <2>3. g = [t \in UpTo(n + 1) |-> next(t, g)]
    BY <2>2, Zenon
  <2> HIDE DEF g
  <2> QED BY <2>3
<1> HIDE DEF U
<1>4. MaxDepth \in U
  <2>1. MaxDepth \in Nat /\ MaxDepth \in 0..MaxDepth
    BY NestedAssumption
  <2> QED BY <1>2, <1>3, <2>1, UpToInduction
<1>5. \E f : f = [t \in Types |-> [v \in Values[t] |-> PhpOf(t, f, v)]]
  BY <1>4, TypesUpTo DEF U, next
<1> QED BY <1>5, Zenon DEF Php

LEMMA ConvertedLocal ==
    ASSUME NEW t \in Types, NEW rows \in Seq(Values[t]), NEW row \in 0..Len(rows) - 1,
           NEW f, NEW g, \A c \in Components(t) : f[c] = g[c]
    PROVE  ConvertedBy(t, f, rows, row) = ConvertedBy(t, g, rows, row)
<1>1. CASE ~Valid(rows, row)
  BY <1>1 DEF ConvertedBy
<1> SUFFICES ASSUME Valid(rows, row)
             PROVE  ConvertedBy(t, f, rows, row) = ConvertedBy(t, g, rows, row)
  BY <1>1
<1>2. rows[row + 1] \in Values[t] /\ rows[row + 1] # Nil
  BY DEF Valid
<1>3. CASE t.id = "SCALAR"
  BY <1>3 DEF ConvertedBy
<1>4. CASE t.id \in {"LIST", "ARRAY"} /\ t.child \in Components(t)
  BY <1>4 DEF ConvertedBy
<1>5. CASE t.id = "MAP" /\ t.key \in Components(t) /\ t.value \in Components(t)
  BY <1>5 DEF ConvertedBy
<1>6. CASE /\ t.id \in {"STRUCT", "UNION", "VARIANT"}
           /\ t.children \in Seq(Types)
           /\ \A i \in DOMAIN t.children : t.children[i] \in Components(t)
  <2>1. CASE t.id = "STRUCT"
    <3>1. [i \in DOMAIN t.children |-> f[t.children[i]][Member(rows, i)][row]]
             = [i \in DOMAIN t.children |-> g[t.children[i]][Member(rows, i)][row]]
      BY <1>6
    <3> QED BY <2>1, <3>1 DEF ConvertedBy
  <2>2. CASE t.id \in {"UNION", "VARIANT"}
    <3>1. PICK i \in DOMAIN t.children : i = rows[row + 1].tag
      BY <1>2, <2>2, ValueOf
    <3>2. f[t.children[i]] = g[t.children[i]]
      BY <1>6
    <3>3. Tag(rows, row) + 1 = i
      BY <1>6, <3>1 DEF Tag
    <3> QED BY <2>2, <3>1, <3>2, <3>3 DEF ConvertedBy
  <2> QED BY <1>6, <2>1, <2>2
<1> QED BY <1>3, <1>4, <1>5, <1>6, Kinds

LEMMA ConvertedEquation ==
    Converted = [t \in Types |->
                    [rows \in Seq(Values[t]) |->
                        [row \in 0..Len(rows) - 1 |-> ConvertedBy(t, Converted, rows, row)]]]
<1> DEFINE next(t, f) == [rows \in Seq(Values[t]) |->
                             [row \in 0..Len(rows) - 1 |-> ConvertedBy(t, f, rows, row)]]
           U == {n \in Nat : \E f : f = [t \in UpTo(n) |-> next(t, f)]}
<1>1. ASSUME NEW t \in Types, NEW f, NEW g, \A c \in Components(t) : f[c] = g[c]
      PROVE  next(t, f) = next(t, g)
  <2>1. ASSUME NEW rows \in Seq(Values[t])
        PROVE  [row \in 0..Len(rows) - 1 |-> ConvertedBy(t, f, rows, row)]
                  = [row \in 0..Len(rows) - 1 |-> ConvertedBy(t, g, rows, row)]
    <3>1. \A row \in 0..Len(rows) - 1 : ConvertedBy(t, f, rows, row) = ConvertedBy(t, g, rows, row)
      BY <1>1, ConvertedLocal
    <3> QED BY <3>1
  <2> QED BY <2>1
<1> HIDE DEF next
<1>2. 0 \in U
  <2> DEFINE f == [t \in UpTo(0) |-> next(t, <<>>)]
  <2>1. ASSUME NEW t \in UpTo(0) PROVE next(t, f) = next(t, <<>>)
    <3>1. t \in Types /\ Components(t) = {}
      BY TypesUpTo DEF UpTo
    <3> HIDE DEF f
    <3> QED BY <1>1, <3>1
  <2>2. f = [t \in UpTo(0) |-> next(t, f)]
    BY <2>1, Zenon
  <2> HIDE DEF f
  <2> QED BY <2>2
<1>3. ASSUME NEW n \in 0..(MaxDepth - 1), n \in U PROVE n + 1 \in U
  <2>1. PICK f : f = [t \in UpTo(n) |-> next(t, f)]
    BY <1>3
  <2> DEFINE g == [t \in UpTo(n + 1) |-> next(t, f)]
  <2>2. ASSUME NEW t \in UpTo(n + 1) PROVE next(t, g) = next(t, f)
    <3>1. t \in Types /\ \A c \in Components(t) : c \in UpTo(n) /\ c \in UpTo(n + 1)
      BY UpToGrows, TypesUpTo DEF UpTo
    <3>2. \A c \in Components(t) : g[c] = next(c, f) /\ f[c] = next(c, f)
      BY <2>1, <3>1, Zenon
    <3> HIDE DEF g
    <3> QED BY <1>1, <3>1, <3>2
  <2>3. g = [t \in UpTo(n + 1) |-> next(t, g)]
    BY <2>2, Zenon
  <2> HIDE DEF g
  <2> QED BY <2>3
<1> HIDE DEF U
<1>4. MaxDepth \in U
  <2>1. MaxDepth \in Nat /\ MaxDepth \in 0..MaxDepth
    BY NestedAssumption
  <2> QED BY <1>2, <1>3, <2>1, UpToInduction
<1>5. \E f : f = [t \in Types |->
                    [rows \in Seq(Values[t]) |->
                        [row \in 0..Len(rows) - 1 |-> ConvertedBy(t, f, rows, row)]]]
  BY <1>4, TypesUpTo DEF U, next
<1> QED BY <1>5, Zenon DEF Converted

-----------------------------------------------------------------------------
(* The entries of a map *)

(* What the loop over the entries makes, on the way. *)
Filling(n, keys, values, zv) ==
    zv = [i \in 0..n |-> IF i = 0 THEN <<>> ELSE WithEntry(zv[i - 1], keys[i], values[i])]

LEMMA EntriesTable ==
    ASSUME NEW n \in Nat, NEW keys, NEW values
    PROVE  \E zv : Filling(n, keys, values, zv)
<1> DEFINE next(f, i) == IF i = 0 THEN <<>> ELSE WithEntry(f[i - 1], keys[i], values[i])
           U == {m \in Nat : \E f : f = [i \in 0..m |-> next(f, i)]}
<1>1. 0 \in U
  <2> DEFINE f == [i \in 0..0 |-> <<>>]
  <2>1. f = [i \in 0..0 |-> next(f, i)]
    OBVIOUS
  <2> HIDE DEF f, next
  <2> QED BY <2>1
<1>2. ASSUME NEW m \in 0..(n - 1), m \in U PROVE m + 1 \in U
  <2>1. PICK f : f = [i \in 0..m |-> next(f, i)]
    BY <1>2
  <2> DEFINE g == [i \in 0..m + 1 |-> next(f, i)]
  <2>2. ASSUME NEW i \in 0..m + 1 PROVE next(g, i) = next(f, i)
    <3>1. CASE i = 0
      BY <3>1
    <3>2. CASE i # 0
      <4>1. i - 1 \in 0..m /\ i - 1 \in 0..m + 1
        BY <3>2
      <4>2. f[i - 1] = next(f, i - 1) /\ g[i - 1] = next(f, i - 1)
        <5> HIDE DEF next
        <5> QED BY <2>1, <4>1, Zenon
      <4> HIDE DEF g
      <4> QED BY <3>2, <4>2
    <3> QED BY <3>1, <3>2
  <2>3. g = [i \in 0..m + 1 |-> next(g, i)]
    <3> HIDE DEF next
    <3> QED BY <2>2, Zenon
  <2> HIDE DEF g, next
  <2> QED BY <2>3
<1> HIDE DEF U
<1>3. n \in U
  <2>1. n \in 0..n
    OBVIOUS
  <2> QED BY <1>1, <1>2, <2>1, UpToInduction
<1> QED BY <1>3 DEF U, Filling

(* Of entries with the same key the last one stays. *)
LEMMA EntriesAreLast ==
    ASSUME NEW n \in Nat, NEW keys, NEW values, DOMAIN keys = 1..n
    PROVE  Entries(n, keys, values) = LastEntries(keys, values)
<1>1. PICK zv : /\ Entries(n, keys, values) = zv[n]
                /\ zv = [i \in 0..n |-> IF i = 0 THEN <<>>
                                        ELSE WithEntry(zv[i - 1], keys[i], values[i])]
  <2>1. \E zv : Filling(n, keys, values, zv)
    BY EntriesTable
  <2> QED BY <2>1, Zenon DEF Entries, Filling
<1> DEFINE last(k, i, m) == keys[i] = k /\ \A j \in 1..m : keys[j] = k => j <= i
           K(m) == {keys[i] : i \in 1..m}
           U == {m \in Nat :
                    /\ zv[m] = [k \in K(m) |-> zv[m][k]]
                    /\ \A k \in K(m) : \E i \in 1..m : last(k, i, m) /\ zv[m][k] = values[i]}
<1>2. 0 \in U
  <2>1. zv[0] = <<>>
    <3>1. 0 \in 0..n
      OBVIOUS
    <3> QED BY <1>1, <3>1, Zenon
  <2>2. K(0) = {}
    OBVIOUS
  <2>3. zv[0] = [k \in K(0) |-> zv[0][k]]
    BY <2>1, <2>2
  <2> QED BY <2>2, <2>3
<1>3. ASSUME NEW m \in 0..(n - 1), m \in U PROVE m + 1 \in U
  <2>1. PICK o : o = m + 1 /\ o \in 1..n /\ o \in 0..n /\ o # 0 /\ o - 1 = m /\ o \in Nat
                 /\ 1..o = (1..m) \cup {o} /\ \A i \in 1..m : i <= o
    OBVIOUS
  <2>2. zv[o] = WithEntry(zv[m], keys[o], values[o])
    <3>1. zv[o] = IF o = 0 THEN <<>> ELSE WithEntry(zv[o - 1], keys[o], values[o])
      BY <1>1, <2>1, Zenon
    <3> QED BY <2>1, <3>1
  <2>3. DOMAIN zv[m] = K(m)
    BY <1>3, Zenon
  <2>4. K(o) = K(m) \cup {keys[o]}
    BY <2>1
  <2>5. zv[o] = [k \in K(o) |-> IF k = keys[o] THEN values[o] ELSE zv[m][k]]
    <3> HIDE DEF K
    <3> QED BY <2>2, <2>3, <2>4 DEF WithEntry
  <2>6. ASSUME NEW k \in K(o)
        PROVE  \E i \in 1..o : last(k, i, o) /\ zv[o][k] = values[i]
    <3>1. zv[o][k] = IF k = keys[o] THEN values[o] ELSE zv[m][k]
      <4> HIDE DEF K
      <4> QED BY <2>5
    <3>2. CASE k = keys[o]
      <4>1. last(k, o, o) /\ zv[o][k] = values[o] /\ o \in 1..o
        BY <2>1, <3>1, <3>2
      <4> QED BY <4>1
    <3>3. CASE k # keys[o]
      <4>1. k \in K(m)
        <5> HIDE DEF K
        <5> QED BY <2>4, <3>3
      <4>2. PICK i \in 1..m : last(k, i, m) /\ zv[m][k] = values[i]
        BY <1>3, <4>1
      <4>3. last(k, i, o)
        BY <2>1, <3>3, <4>2
      <4>4. zv[o][k] = values[i] /\ i \in 1..o
        BY <2>1, <3>1, <3>3, <4>2
      <4> QED BY <4>3, <4>4
    <3> QED BY <3>2, <3>3
  <2>7. zv[o] = [k \in K(o) |-> zv[o][k]]
    <3> HIDE DEF K
    <3> QED BY <2>5
  <2>8. o \in U
    BY <2>1, <2>6, <2>7
  <2> QED BY <2>1, <2>8
<1> HIDE DEF U
<1>4. n \in U
  <2>1. n \in 0..n
    OBVIOUS
  <2> QED BY <1>2, <1>3, <2>1, UpToInduction
<1>5. /\ zv[n] = [k \in K(n) |-> zv[n][k]]
      /\ \A k \in K(n) : \E i \in 1..n : last(k, i, n) /\ zv[n][k] = values[i]
  BY <1>4 DEF U
<1>6. K(n) = Range(keys)
  BY DEF Range
<1> DEFINE found(k) == CHOOSE i \in DOMAIN keys :
                          keys[i] = k /\ \A j \in DOMAIN keys : keys[j] = k => j <= i
<1>7. ASSUME NEW k \in K(n) PROVE zv[n][k] = values[found(k)]
  <2>1. PICK i \in 1..n : last(k, i, n) /\ zv[n][k] = values[i]
    BY <1>5
  <2>2. i \in DOMAIN keys /\ keys[i] = k /\ \A j \in DOMAIN keys : keys[j] = k => j <= i
    BY <2>1
  <2> DEFINE c == found(k)
  <2>3. c \in DOMAIN keys /\ keys[c] = k /\ \A j \in DOMAIN keys : keys[j] = k => j <= c
    BY <2>2, Zenon
  <2>4. c = i
    <3>1. c \in 1..n /\ c <= i /\ i <= c
      <4> HIDE DEF c
      <4> QED BY <2>2, <2>3
    <3> HIDE DEF c
    <3> QED BY <3>1
  <2> QED BY <2>1, <2>4
<1>8. zv[n] = [k \in K(n) |-> values[found(k)]]
  <2> HIDE DEF K, found
  <2> QED BY <1>5, <1>7
<1>9. LastEntries(keys, values) = [k \in Range(keys) |-> values[found(k)]]
  BY Zenon DEF LastEntries
<1> HIDE DEF found, K
<1> QED BY <1>1, <1>6, <1>8, <1>9

-----------------------------------------------------------------------------
(* One row, of each kind of type.  A type is right when every row of a      *)
(* column of that type is converted to what stands for its value.          *)

Right(t) ==
    \A rows \in Seq(Values[t]) : \A row \in 0..Len(rows) - 1 :
        Converted[t][rows][row] = Php[t][rows[row + 1]]

LEMMA ValidRow ==
    ASSUME NEW t, NEW rows \in Seq(Values[t]), NEW row \in 0..Len(rows) - 1, Valid(rows, row)
    PROVE  rows[row + 1] \in Values[t] /\ rows[row + 1] # Nil
  BY DEF Valid

LEMMA RightAt ==
    ASSUME NEW t, Right(t), NEW rows \in Seq(Values[t]), NEW row \in 0..Len(rows) - 1
    PROVE  Converted[t][rows][row] = Php[t][rows[row + 1]]
  BY DEF Right

LEMMA ListRight ==
    ASSUME NEW t \in Types, t.id = "LIST", Right(t.child),
           NEW rows \in Seq(Values[t]), NEW row \in 0..Len(rows) - 1, Valid(rows, row)
    PROVE  ConvertedBy(t, Converted, rows, row) = PhpOf(t, Php, rows[row + 1])
<1>1. PICK v \in Seq(Values[t.child]) : v = rows[row + 1] /\ v # Nil
  BY ValidRow, ValueOf
<1>2. PICK elements \in Seq(Values[t.child]), offset \in Nat :
        /\ elements = Elements(rows) /\ offset = Offsets(rows, row).offset
        /\ Offsets(rows, row).length = Len(v)
        /\ \A i \in 1..Len(v) : offset + i \in 1..Len(elements) /\ elements[offset + i] = v[i]
  <2>1. \A w \in Values[t] : w # Nil => w \in Seq(Values[t.child])
    BY ValueOf
  <2>2. ListAt(Values[t.child], rows, row)
    BY <2>1, ListLaidOut
  <2> QED BY <1>1, <2>2 DEF ListAt
<1>3. ASSUME NEW i \in 1..Len(v)
      PROVE  Converted[t.child][elements][offset + i - 1] = Php[t.child][v[i]]
  <2>1. PICK q \in 0..Len(elements) - 1 : q = offset + i - 1 /\ q + 1 = offset + i
    BY <1>2
  <2>2. Converted[t.child][elements][q] = Php[t.child][elements[q + 1]]
    BY RightAt
  <2> QED BY <1>2, <2>1, <2>2
<1>4. ConvertedBy(t, Converted, rows, row)
        = [i \in 1..Len(v) |-> Converted[t.child][elements][offset + i - 1]]
  BY <1>2 DEF ConvertedBy
<1>5. PhpOf(t, Php, v) = [i \in 1..Len(v) |-> Php[t.child][v[i]]]
  BY <1>1 DEF PhpOf
<1> QED BY <1>1, <1>3, <1>4, <1>5

LEMMA ArrayRight ==
    ASSUME NEW t \in Types, t.id = "ARRAY", Right(t.child), t.child \in Types,
           NEW rows \in Seq(Values[t]), NEW row \in 0..Len(rows) - 1, Valid(rows, row)
    PROVE  ConvertedBy(t, Converted, rows, row) = PhpOf(t, Php, rows[row + 1])
<1>1. PICK size \in Nat : size = t.size
  BY TypesAssumption
<1>2. PICK v \in [1..size -> Values[t.child]] : v = rows[row + 1] /\ v # Nil
  BY <1>1, ValidRow, ValueOf
<1>3. PICK slots \in Seq(Values[t.child]) :
        /\ slots = Slots(rows, size)
        /\ \A i \in 1..size : /\ ArrayElement(row, size, i - 1) \in 0..Len(slots) - 1
                              /\ slots[ArrayElement(row, size, i - 1) + 1] = v[i]
  <2>1. \A w \in Values[t] : w # Nil => w \in [1..size -> Values[t.child]]
    BY <1>1, ValueOf
  <2>2. Nil \in Values[t.child]
    BY NilIsAValue
  <2>3. ArrayAt(Values[t.child], size, rows, row)
    BY <2>1, <2>2, ArrayLaidOut
  <2> QED BY <1>2, <2>3 DEF ArrayAt
<1>4. ASSUME NEW i \in 1..size
      PROVE  Converted[t.child][slots][ArrayElement(row, size, i - 1)] = Php[t.child][v[i]]
  BY <1>3 DEF Right
<1>5. ConvertedBy(t, Converted, rows, row)
        = [i \in 1..size |-> Converted[t.child][slots][ArrayElement(row, size, i - 1)]]
  BY <1>1, <1>3 DEF ConvertedBy
<1>6. PhpOf(t, Php, v) = [i \in 1..size |-> Php[t.child][v[i]]]
  BY <1>2 DEF PhpOf
<1> QED BY <1>2, <1>4, <1>5, <1>6

LEMMA StructRight ==
    ASSUME NEW t \in Types, t.id = "STRUCT",
           \A i \in DOMAIN t.children : t.children[i] \in Types /\ Right(t.children[i]),
           NEW rows \in Seq(Values[t]), NEW row \in 0..Len(rows) - 1, Valid(rows, row)
    PROVE  ConvertedBy(t, Converted, rows, row) = PhpOf(t, Php, rows[row + 1])
<1>1. PICK v \in Values[t] : v = rows[row + 1] /\ v # Nil /\ DOMAIN v = DOMAIN t.children
  BY ValidRow, ValueOf
<1>2. ASSUME NEW i \in DOMAIN t.children
      PROVE  Converted[t.children[i]][Member(rows, i)][row] = Php[t.children[i]][v[i]]
  <2>1. \A w \in Values[t] : w # Nil => w[i] \in Values[t.children[i]]
    BY ValueOf
  <2>2. Nil \in Values[t.children[i]]
    BY NilIsAValue
  <2>3. /\ Member(rows, i) \in Seq(Values[t.children[i]])
        /\ row \in 0..Len(Member(rows, i)) - 1
        /\ Member(rows, i)[row + 1] = v[i]
    BY <1>1, <2>1, <2>2, MemberLaidOut
  <2> QED BY <2>3, RightAt
<1>3. ConvertedBy(t, Converted, rows, row)
        = Named(t.names, [i \in DOMAIN t.children |->
                             Converted[t.children[i]][Member(rows, i)][row]])
  BY DEF ConvertedBy
<1>4. PhpOf(t, Php, v) = Named(t.names, [i \in DOMAIN t.children |-> Php[t.children[i]][v[i]]])
  BY <1>1 DEF PhpOf
<1> QED BY <1>1, <1>2, <1>3, <1>4

Pairs(t) == Values[t.key] \X Values[t.value]

LEMMA MapRight ==
    ASSUME NEW t \in Types, t.id = "MAP", Right(t.key), Right(t.value),
           NEW rows \in Seq(Values[t]), NEW row \in 0..Len(rows) - 1, Valid(rows, row)
    PROVE  ConvertedBy(t, Converted, rows, row) = PhpOf(t, Php, rows[row + 1])
<1>1. PICK v \in Seq(Pairs(t)) : v = rows[row + 1] /\ v # Nil
  BY ValidRow, ValueOf DEF Pairs
<1>2. PICK elements \in Seq(Pairs(t)), offset \in Nat :
        /\ elements = Elements(rows) /\ offset = Offsets(rows, row).offset
        /\ Offsets(rows, row).length = Len(v)
        /\ \A i \in 1..Len(v) : offset + i \in 1..Len(elements) /\ elements[offset + i] = v[i]
  <2>1. \A w \in Values[t] : w # Nil => w \in Seq(Pairs(t))
    BY ValueOf DEF Pairs
  <2>2. ListAt(Pairs(t), rows, row)
    BY <2>1, ListLaidOut
  <2> QED BY <1>1, <2>2 DEF ListAt
<1>3. PICK keys \in Seq(Values[t.key]) :
        /\ keys = EntryMember(elements, 1) /\ Len(keys) = Len(elements)
        /\ \A q \in 1..Len(elements) : keys[q] = elements[q][1]
  <2>1. \A e \in Pairs(t) : e[1] \in Values[t.key]
    BY DEF Pairs
  <2>2. MembersAt(Values[t.key], elements, 1)
    BY <2>1, EntriesLaidOut
  <2> QED BY <2>2 DEF MembersAt
<1>4. PICK values \in Seq(Values[t.value]) :
        /\ values = EntryMember(elements, 2) /\ Len(values) = Len(elements)
        /\ \A q \in 1..Len(elements) : values[q] = elements[q][2]
  <2>1. \A e \in Pairs(t) : e[2] \in Values[t.value]
    BY DEF Pairs
  <2>2. MembersAt(Values[t.value], elements, 2)
    BY <2>1, EntriesLaidOut
  <2> QED BY <2>2 DEF MembersAt
<1> DEFINE key(i) == MapKey(Converted[t.key][keys][offset + i - 1])
           value(i) == Converted[t.value][values][offset + i - 1]
<1>5. ASSUME NEW i \in 1..Len(v)
      PROVE  key(i) = MapKey(Php[t.key][v[i][1]]) /\ value(i) = Php[t.value][v[i][2]]
  <2>1. PICK q \in 0..Len(elements) - 1 : q = offset + i - 1 /\ q + 1 = offset + i
    BY <1>2
  <2>2. q \in 0..Len(keys) - 1 /\ q \in 0..Len(values) - 1 /\ q + 1 \in 1..Len(elements)
    BY <1>3, <1>4
  <2>3. Converted[t.key][keys][q] = Php[t.key][keys[q + 1]]
    BY <2>2, RightAt
  <2>4. Converted[t.value][values][q] = Php[t.value][values[q + 1]]
    BY <2>2, RightAt
  <2>5. keys[q + 1] = v[i][1] /\ values[q + 1] = v[i][2]
    BY <1>2, <1>3, <1>4, <2>1, <2>2
  <2> QED BY <2>1, <2>3, <2>4, <2>5
<1>6. ConvertedBy(t, Converted, rows, row)
        = Entries(Len(v), [i \in 1..Len(v) |-> key(i)], [i \in 1..Len(v) |-> value(i)])
  BY <1>2, <1>3, <1>4 DEF ConvertedBy
<1>7. PhpOf(t, Php, v) = LastEntries([i \in 1..Len(v) |-> MapKey(Php[t.key][v[i][1]])],
                                     [i \in 1..Len(v) |-> Php[t.value][v[i][2]]])
  <2>1. DOMAIN v = 1..Len(v)
    OBVIOUS
  <2> QED BY <1>1, <2>1 DEF PhpOf
<1>8. /\ [i \in 1..Len(v) |-> key(i)] = [i \in 1..Len(v) |-> MapKey(Php[t.key][v[i][1]])]
      /\ [i \in 1..Len(v) |-> value(i)] = [i \in 1..Len(v) |-> Php[t.value][v[i][2]]]
  <2> HIDE DEF key, value
  <2> QED BY <1>5
<1> DEFINE ks == [i \in 1..Len(v) |-> key(i)]
           vs == [i \in 1..Len(v) |-> value(i)]
<1>9. Len(v) \in Nat /\ DOMAIN ks = 1..Len(v)
  BY <1>1
<1>10. Entries(Len(v), ks, vs) = LastEntries(ks, vs)
  <2> HIDE DEF ks, vs
  <2> QED BY <1>9, EntriesAreLast
<1> QED BY <1>1, <1>6, <1>7, <1>8, <1>9, <1>10

LEMMA UnionRight ==
    ASSUME NEW t \in Types, t.id = "UNION", t.children \in Seq(Types),
           \A i \in DOMAIN t.children : Right(t.children[i]),
           NEW rows \in Seq(Values[t]), NEW row \in 0..Len(rows) - 1, Valid(rows, row)
    PROVE  ConvertedBy(t, Converted, rows, row) = PhpOf(t, Php, rows[row + 1])
<1>1. PICK v \in Values[t] : v = rows[row + 1] /\ v # Nil /\ v.tag \in DOMAIN t.children
  BY ValidRow, ValueOf
<1>2. PICK i \in 1..Len(t.children) : i = v.tag /\ i \in DOMAIN t.children
  BY <1>1
<1>3. PICK tag \in Nat : tag = Tag(rows, row) /\ tag + 1 = i /\ tag < Len(t.children)
  BY <1>1, <1>2 DEF Tag
<1>4. /\ Tagged(rows, i) \in Seq(Values[t.children[i]])
      /\ row \in 0..Len(Tagged(rows, i)) - 1
      /\ Tagged(rows, i)[row + 1] = v.value
  <2>1. \A w \in Values[t] : w # Nil /\ w.tag = i => w.value \in Values[t.children[i]]
    BY ValueOf
  <2>2. Nil \in Values[t.children[i]]
    BY NilIsAValue
  <2>3. rows[row + 1].tag = i
    BY <1>1, <1>2
  <2>4. /\ Tagged(rows, i) \in Seq(Values[t.children[i]])
        /\ row \in 0..Len(Tagged(rows, i)) - 1
        /\ Tagged(rows, i)[row + 1] = rows[row + 1].value
    BY <2>1, <2>2, <2>3, TaggedLaidOut
  <2> QED BY <1>1, <2>4
<1>5. Converted[t.children[i]][Tagged(rows, i)][row] = Php[t.children[i]][v.value]
  BY <1>2, <1>4, RightAt
<1>6. ~ (tag >= Len(t.children))
  BY <1>3
<1>7. ConvertedBy(t, Converted, rows, row)
        = WithEntry(<<>>, t.names[i], Php[t.children[i]][v.value])
  BY <1>3, <1>5, <1>6 DEF ConvertedBy
<1>8. PhpOf(t, Php, v) = [name \in {t.names[i]} |-> Php[t.children[i]][v.value]]
  BY <1>1, <1>2 DEF PhpOf
<1>9. ASSUME NEW key, NEW zv PROVE WithEntry(<<>>, key, zv) = [name \in {key} |-> zv]
  BY DEF WithEntry
<1>10. WithEntry(<<>>, t.names[i], Php[t.children[i]][v.value])
         = [name \in {t.names[i]} |-> Php[t.children[i]][v.value]]
  BY <1>9
<1> QED BY <1>1, <1>7, <1>8, <1>10

(* The vector of one row that a variant is copied to. *)
LEMMA OneRow ==
    ASSUME NEW V, NEW x \in V
    PROVE  <<x>> \in Seq(V) /\ 0 \in 0..Len(<<x>>) - 1 /\ <<x>>[0 + 1] = x
<1>1. <<x>> \in Seq(V) /\ Len(<<x>>) = 1 /\ <<x>>[1] = x
  OBVIOUS
<1> QED BY <1>1

LEMMA VariantRight ==
    ASSUME NEW t \in Types, t.id = "VARIANT",
           \A i \in DOMAIN t.children : Right(t.children[i]),
           NEW rows \in Seq(Values[t]), NEW row \in 0..Len(rows) - 1, Valid(rows, row)
    PROVE  ConvertedBy(t, Converted, rows, row) = PhpOf(t, Php, rows[row + 1])
<1>1. PICK v \in Values[t] : /\ v = rows[row + 1] /\ v # Nil /\ v.tag \in DOMAIN t.children
                             /\ v.value \in Values[t.children[v.tag]]
  BY ValidRow, ValueOf
<1>2. /\ <<v.value>> \in Seq(Values[t.children[v.tag]]) /\ 0 \in 0..Len(<<v.value>>) - 1
      /\ <<v.value>>[0 + 1] = v.value
  BY <1>1, OneRow
<1>3. Converted[t.children[v.tag]][<<v.value>>][0] = Php[t.children[v.tag]][v.value]
  BY <1>1, <1>2, RightAt
<1>4. ConvertedBy(t, Converted, rows, row) = Converted[t.children[v.tag]][<<v.value>>][0]
  BY <1>1 DEF ConvertedBy
<1>5. PhpOf(t, Php, v) = Php[t.children[v.tag]][v.value]
  BY <1>1 DEF PhpOf
<1> QED BY <1>1, <1>3, <1>4, <1>5

(* A type is right when its components are. *)
LEMMA OneRight ==
    ASSUME NEW t \in Types, \A c \in Components(t) : Right(c)
    PROVE  Right(t)
<1> SUFFICES ASSUME NEW rows \in Seq(Values[t]), NEW row \in 0..Len(rows) - 1
             PROVE  Converted[t][rows][row] = Php[t][rows[row + 1]]
  BY DEF Right
<1>1. Converted[t][rows][row] = ConvertedBy(t, Converted, rows, row)
  <2>1. Converted[t] = [rs \in Seq(Values[t]) |->
                           [q \in 0..Len(rs) - 1 |-> ConvertedBy(t, Converted, rs, q)]]
    BY ConvertedEquation, Zenon
  <2>2. Converted[t][rows] = [q \in 0..Len(rows) - 1 |-> ConvertedBy(t, Converted, rows, q)]
    BY <2>1, Zenon
  <2> QED BY <2>2, Zenon
<1>2. Php[t][rows[row + 1]] = PhpOf(t, Php, rows[row + 1])
  <2>1. rows[row + 1] \in Values[t]
    OBVIOUS
  <2>2. Php[t] = [v \in Values[t] |-> PhpOf(t, Php, v)]
    BY PhpEquation, Zenon
  <2> QED BY <2>1, <2>2, Zenon
<1>3. \A c \in Components(t) : c \in Types
  BY TypesAssumption
<1>4. ConvertedBy(t, Converted, rows, row) = PhpOf(t, Php, rows[row + 1])
  <2>1. CASE ~Valid(rows, row)
    BY <2>1 DEF ConvertedBy, PhpOf, Valid
  <2> SUFFICES ASSUME Valid(rows, row)
               PROVE  ConvertedBy(t, Converted, rows, row) = PhpOf(t, Php, rows[row + 1])
    BY <2>1
  <2>2. CASE t.id = "SCALAR"
    BY <2>2 DEF ConvertedBy, PhpOf, Valid
  <2>3. CASE t.id = "LIST" /\ t.child \in Components(t)
    BY <2>3, ListRight
  <2>4. CASE t.id = "ARRAY" /\ t.child \in Components(t)
    BY <1>3, <2>4, ArrayRight
  <2>5. CASE t.id = "MAP" /\ t.key \in Components(t) /\ t.value \in Components(t)
    BY <2>5, MapRight
  <2>6. CASE /\ t.id \in {"STRUCT", "UNION", "VARIANT"}
             /\ t.children \in Seq(Types)
             /\ \A i \in DOMAIN t.children : t.children[i] \in Components(t)
    <3>1. \A i \in DOMAIN t.children : t.children[i] \in Types /\ Right(t.children[i])
      BY <1>3, <2>6
    <3> QED BY <2>6, <3>1, StructRight, UnionRight, VariantRight
  <2> QED BY <2>2, <2>3, <2>4, <2>5, <2>6, Kinds
<1> QED BY <1>1, <1>2, <1>4

(* So every type is, however deep it is nested. *)
LEMMA AllRight == \A t \in Types : Right(t)
<1> DEFINE U == {n \in Nat : \A t \in UpTo(n) : Right(t)}
<1>1. 0 \in U
  <2>1. ASSUME NEW t \in UpTo(0) PROVE Right(t)
    <3>1. t \in Types /\ Components(t) = {}
      BY TypesUpTo DEF UpTo
    <3> QED BY <3>1, OneRight
  <2> QED BY <2>1
<1>2. ASSUME NEW n \in 0..(MaxDepth - 1), n \in U PROVE n + 1 \in U
  <2>1. ASSUME NEW t \in UpTo(n + 1) PROVE Right(t)
    <3>1. t \in Types /\ \A c \in Components(t) : c \in UpTo(n)
      BY TypesUpTo DEF UpTo
    <3>2. \A c \in Components(t) : Right(c)
      BY <1>2, <3>1
    <3> QED BY <3>1, <3>2, OneRight
  <2> QED BY <2>1
<1> HIDE DEF U
<1>3. MaxDepth \in U
  <2>1. MaxDepth \in Nat /\ MaxDepth \in 0..MaxDepth
    BY NestedAssumption
  <2> QED BY <1>1, <1>2, <2>1, UpToInduction
<1> QED BY <1>3, TypesUpTo DEF U

-----------------------------------------------------------------------------
(* The inductive invariant: the column does not change, so what PHP got for *)
(* a row is still right after another row is read.                         *)
NestedInv ==
    /\ type \in Types
    /\ column \in [1..Rows -> Values[type]]
    /\ RowConverted

LEMMA NestedInit == Init => NestedInv
<1> SUFFICES ASSUME Init PROVE NestedInv
  OBVIOUS
<1>1. read.row = Nil
  BY DEF Init, NothingRead
<1> QED BY <1>1 DEF Init, NestedInv, RowConverted

LEMMA NestedStep == NestedInv /\ [Next]_vars => NestedInv'
<1> SUFFICES ASSUME NestedInv, [Next]_vars PROVE NestedInv'
  OBVIOUS
<1>1. ASSUME NEW row \in 0..(Rows - 1), GetCol(row) PROVE NestedInv'
  <2>1. type' = type /\ column' = column
    BY <1>1 DEF GetCol
  <2>2. PICK rows \in Seq(Values[type]) : rows = column /\ Len(rows) = Rows
    <3>1. Rows \in Nat
      BY NestedAssumption
    <3>2. column \in Seq(Values[type]) /\ Len(column) = Rows
      BY <3>1 DEF NestedInv
    <3> QED BY <3>2
  <2>3. Converted[type][column][row] = Php[type][column[row + 1]]
    <3>1. type \in Types /\ row \in 0..Len(rows) - 1
      BY <2>2 DEF NestedInv
    <3>2. Right(type)
      BY <3>1, AllRight
    <3> QED BY <2>2, <3>1, <3>2 DEF Right
  <2>4. read'.row = row /\ read'.zv = Converted[type][column][row]
    BY <1>1 DEF GetCol
  <2> QED BY <2>1, <2>3, <2>4 DEF NestedInv, RowConverted
<1>2. ASSUME UNCHANGED vars PROVE NestedInv'
  BY <1>2 DEF vars, NestedInv, RowConverted
<1> QED BY <1>1, <1>2 DEF Next

(***************************************************************************)
(* What duckdb_stmt_get_col() gives PHP for a row of a column, nested as   *)
(* deep as it may be, stands for the value of this row: lists and maps     *)
(* start where their entry says, arrays at a multiple of their size, and   *)
(* no NULL or empty neighbour moves them.                                  *)
(***************************************************************************)
THEOREM RowConvertedHolds == Spec => []RowConverted
<1>1. NestedInv => RowConverted
  BY DEF NestedInv
<1> QED BY <1>1, NestedInit, NestedStep, PTL DEF Spec
=============================================================================
